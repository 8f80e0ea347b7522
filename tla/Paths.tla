-------------------------------- MODULE Paths --------------------------------
(***************************************************************************)
(* Request paths and route patterns (router/router.go, serve.go).          *)
(*                                                                         *)
(* A path is the sequence of the pieces between its slashes: "/a/b" is     *)
(* <<a, b>>, "/a/" is <<a, Empty>>, "/" is <<Empty>> and "/a//b" is        *)
(* <<a, Empty, b>>.  A piece is a pair <<kind, text>>: the pieces of a     *)
(* request are all "static", those of a pattern also "param" (":id") and   *)
(* "wild" ("*rest").  The text stands for the characters.                  *)
(***************************************************************************)
EXTENDS Integers, Sequences

CONSTANTS
    Lower   \* the lower-case form of each text that has another one

\* A text that has another lower-case form contains a letter, and so does that
\* form, which has no other.
ASSUME LowerAssumption ==
    \A s \in DOMAIN Lower :
        /\ {s, Lower[s]} \subseteq STRING \ {"", ".", ".."}
        /\ Lower[s] \notin DOMAIN Lower

Static(s) == <<"static", s>>
Param(s)  == <<"param", s>>
Wild(s)   == <<"wild", s>>
Kind(x)   == x[1]
Text(x)   == x[2]
Piece     == {"static", "param", "wild"} \X STRING

Empty == Static("")
Dot   == Static(".")
Up    == Static("..")
Root  == <<Empty>>

\* The empty text is a string: the provers know it of no literal.
ASSUME EmptyAssumption == Empty \in Piece

LastOf(s)  == s[Len(s)]
FrontOf(s) == SubSeq(s, 1, Len(s) - 1)

\* The path ends with a slash and is not "/" alone.
Slashed(p) == Len(p) > 1 /\ LastOf(p) = Empty

\* getParts: the pieces that are not empty
Parts(p) ==
    LET upTo[n \in 0 .. Len(p)] ==
          IF n = 0 THEN <<>>
          ELSE IF p[n] = Empty THEN upTo[n - 1] ELSE Append(upTo[n - 1], p[n])
    IN  upTo[Len(p)]

\* indices[height]: where the part after the first height parts starts
Index(p, height) ==
    IF height >= Len(Parts(p)) THEN Len(p) + 1
    ELSE CHOOSE i \in 1 .. Len(p) :
            p[i] # Empty /\ Len(Parts(SubSeq(p, 1, i))) = height + 1

\* path.Clean on an absolute path: what each prefix of the pieces resolves to
Resolved(p) ==
    LET upTo[n \in 0 .. Len(p)] ==
          IF n = 0 THEN <<>>
          ELSE IF p[n] \in {Empty, Dot} THEN upTo[n - 1]
          ELSE IF p[n] = Up
               THEN IF upTo[n - 1] = <<>> THEN <<>> ELSE FrontOf(upTo[n - 1])
          ELSE Append(upTo[n - 1], p[n])
    IN  upTo[Len(p)]

\* cleanPath: path.Clean, but a trailing slash is kept
CleanPath(p) ==
    IF Resolved(p) = <<>> THEN Root
    ELSE IF LastOf(p) = Empty THEN Append(Resolved(p), Empty)
    ELSE Resolved(p)

\* alternatePath: the path with its trailing slash toggled; "/" has none
HasAlternate(p) == p # Root
Alternate(p)    == IF LastOf(p) = Empty THEN FrontOf(p) ELSE Append(p, Empty)

\* lowerASCII on the static pieces; the names of parameters keep their case
LowerPiece(x) ==
    IF Kind(x) = "static" /\ Text(x) \in DOMAIN Lower THEN Static(Lower[Text(x)]) ELSE x
LowerPath(p)  == [i \in 1 .. Len(p) |-> LowerPiece(p[i])]
=============================================================================
