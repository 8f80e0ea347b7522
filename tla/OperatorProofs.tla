---------------------------- MODULE OperatorProofs ----------------------------
(***************************************************************************)
(* What the operators on paths and on tries compute, for every path and    *)
(* every trie: how a path is split, cleaned and matched, the trie that     *)
(* insert leaves, the route that search finds and the parameters it binds. *)
(* Induction and recursion on the naturals are stated as facts about sets  *)
(* and functions, which the provers can use where they cannot instantiate  *)
(* a theorem about an operator.                                            *)
(***************************************************************************)
EXTENDS RouteTrie, SequenceTheorems, WellFoundedInduction, TLAPS

-----------------------------------------------------------------------------
(* Induction and recursion on the naturals *)

\* A set of naturals that is not empty has a least element.
LEMMA LeastElement ==
  ASSUME NEW T, T \subseteq Nat, T # {}
  PROVE  \E x \in T : \A y \in T : x <= y
<1> DEFINE R == {ss \in Nat \X Nat : ss[1] < ss[2]}
<1>1. IsWellFoundedOn(R, Nat)
  BY NatLessThanWellFounded DEF OpToRel
<1>2. \E x \in T : \A y \in T : ~ (<<y, x>> \in R)
  <2> HIDE DEF R
  <2> QED BY <1>1, WFMin
<1>3. PICK x \in T : \A y \in T : ~ (<<y, x>> \in R)
  BY <1>2
<1>4. ASSUME NEW y \in T PROVE x <= y
  <2>1. x \in Nat /\ y \in Nat
    OBVIOUS
  <2>2. y < x => <<y, x>> \in R
    BY <2>1
  <2> QED BY <1>3, <2>1, <2>2
<1> QED BY <1>4

\* What holds of 0 and passes from n to n + 1 holds up to N.
LEMMA UpTo ==
  ASSUME NEW N \in Nat, NEW P, 0 \in P, \A n \in 0 .. N - 1 : n \in P => n + 1 \in P
  PROVE  0 .. N \subseteq P
<1> DEFINE T == (0 .. N) \ P
<1>1. SUFFICES ASSUME T # {} PROVE FALSE
  OBVIOUS
<1>2. T \subseteq Nat
  OBVIOUS
<1>3. PICK x \in T : \A y \in T : x <= y
  <2> HIDE DEF T
  <2> QED BY <1>1, <1>2, LeastElement
<1>4. x \in Nat /\ x # 0 /\ x \notin P /\ x <= N
  OBVIOUS
<1>5. x - 1 \in 0 .. N - 1 /\ x - 1 \notin T
  BY <1>3, <1>4
<1>6. x - 1 \in P
  BY <1>5
<1> QED
  BY <1>4, <1>5, <1>6

\* What makes the n-th value of a sequence of values from the one before
Makers(N, S)       == [1 .. N -> [S -> S]]
MadeBy(f, N, g)    == \A n \in 1 .. N : f[n] = g[n][f[n - 1]]

\* A recursive definition that walks 0 .. N has a function: g[n] makes the n-th
\* value from the one before, and stays within S.
LEMMA Iteration ==
  ASSUME NEW N \in Nat, NEW S, NEW base \in S, NEW g \in Makers(N, S)
  PROVE  \E f \in [0 .. N -> S] : f[0] = base /\ MadeBy(f, N, g)
<1> DEFINE Good(f, k) == f[0] = base /\ \A n \in 1 .. k : f[n] = g[n][f[n - 1]]
           P == {k \in 0 .. N : \E f \in [0 .. N -> S] : Good(f, k)}
<1>0. \A k \in 0 .. N : k \in P <=> \E f \in [0 .. N -> S] : Good(f, k)
  <2> HIDE DEF Good
  <2> QED
    OBVIOUS
<1> HIDE DEF P
<1>1. 0 \in P
  <2> DEFINE f == [n \in 0 .. N |-> base]
  <2>1. f \in [0 .. N -> S]
    OBVIOUS
  <2>2. Good(f, 0)
    OBVIOUS
  <2> HIDE DEF f, Good
  <2> QED
    BY <2>1, <2>2, <1>0
<1>2. ASSUME NEW k \in 0 .. N - 1, k \in P PROVE k + 1 \in P
  <2>1. PICK f \in [0 .. N -> S] : Good(f, k)
    <3> HIDE DEF Good
    <3> QED
      BY <1>2, <1>0
  <2>2. g[k + 1] \in [S -> S] /\ f[k] \in S
    BY DEF Makers
  <2> DEFINE h == [f EXCEPT ![k + 1] = g[k + 1][f[k]]]
  <2>3. h \in [0 .. N -> S]
    BY <2>2
  <2>4. \A n \in 0 .. k : h[n] = f[n]
    OBVIOUS
  <2>5. h[k + 1] = g[k + 1][h[k]]
    BY <2>4
  <2> HIDE DEF h
  <2>6. Good(h, k + 1)
    <3>1. ASSUME NEW n \in 1 .. k + 1 PROVE h[n] = g[n][h[n - 1]]
      <4>1. CASE n = k + 1
        BY <4>1, <2>5
      <4>2. CASE n \in 1 .. k
        <5>1. n - 1 \in 0 .. k /\ n \in 0 .. k
          BY <4>2
        <5>2. f[n] = g[n][f[n - 1]]
          BY <4>2, <2>1
        <5> QED
          BY <5>1, <5>2, <2>4
      <4> QED
        BY <4>1, <4>2
    <3>2. h[0] = base
      BY <2>1, <2>4
    <3> QED
      BY <3>1, <3>2
  <2> HIDE DEF Good
  <2> QED
    BY <2>3, <2>6, <1>0
<1>3. N \in P
  <2>1. 0 .. N \subseteq P
    <3> HIDE DEF Good
    <3> QED
      BY <1>1, <1>2, UpTo
  <2> QED
    BY <2>1
<1>4. PICK f \in [0 .. N -> S] : Good(f, N)
  <2> HIDE DEF Good
  <2> QED
    BY <1>3, <1>0
<1> QED
  BY <1>4 DEF MadeBy

-----------------------------------------------------------------------------
(* Prefixes of sequences *)

\* The beginning of a sequence: its type, its length, its elements, its beginnings.
LEMMA PrefixOf ==
    ASSUME NEW S, NEW s \in Seq(S), NEW k \in 0 .. Len(s)
    PROVE  /\ SubSeq(s, 1, k) \in Seq(S) /\ Len(SubSeq(s, 1, k)) = k
           /\ \A i \in 1 .. k : SubSeq(s, 1, k)[i] = s[i]
           /\ \A j \in 0 .. k : SubSeq(SubSeq(s, 1, k), 1, j) = SubSeq(s, 1, j)
<1>1. /\ SubSeq(s, 1, k) \in Seq(S) /\ Len(SubSeq(s, 1, k)) = k
      /\ \A i \in 1 .. k : SubSeq(s, 1, k)[i] = s[i]
  OBVIOUS
<1>2. ASSUME NEW j \in 0 .. k
      PROVE  SubSeq(SubSeq(s, 1, k), 1, j) = SubSeq(s, 1, j)
  <2> DEFINE a == SubSeq(SubSeq(s, 1, k), 1, j)
             b == SubSeq(s, 1, j)
  <2>1. a \in Seq(S) /\ Len(a) = j /\ \A i \in 1 .. j : a[i] = s[i]
    BY <1>1
  <2>2. b \in Seq(S) /\ Len(b) = j /\ \A i \in 1 .. j : b[i] = s[i]
    OBVIOUS
  <2> HIDE DEF a, b
  <2>3. a = b
    BY <2>1, <2>2, SeqEqual
  <2> QED
    BY <2>3 DEF a, b
<1> QED
  BY <1>1, <1>2

\* A sequence is the longest of its beginnings.
LEMMA Whole ==
    ASSUME NEW S, NEW s \in Seq(S)
    PROVE  SubSeq(s, 1, Len(s)) = s
<1> DEFINE a == SubSeq(s, 1, Len(s))
<1>1. a \in Seq(S) /\ Len(a) = Len(s) /\ \A i \in 1 .. Len(s) : a[i] = s[i]
  OBVIOUS
<1> HIDE DEF a
<1>2. a = s
  BY <1>1, SeqEqual
<1> QED
  BY <1>2 DEF a

-----------------------------------------------------------------------------
(* The parts of a path *)

\* f lists the parts of the beginnings of p.
ListsParts(f, p, S) ==
    /\ f \in [0 .. Len(p) -> Seq(S)]
    /\ f[0] = <<>>
    /\ \A n \in 1 .. Len(p) : f[n] = IF p[n] = Empty THEN f[n - 1] ELSE Append(f[n - 1], p[n])

\* getParts collects the parts piece by piece.
LEMMA PartsListed ==
    ASSUME NEW S, NEW p \in Seq(S)
    PROVE  \E f : ListsParts(f, p, S) /\ Parts(p) = f[Len(p)]
<1> DEFINE N == Len(p)
           none == <<>>
           all == Seq(S)
           next(n, x) == IF p[n] = Empty THEN x ELSE Append(x, p[n])
           g == [n \in 1 .. N |-> [x \in all |-> next(n, x)]]
           Steps(f) == f = [n \in 0 .. N |-> IF n = 0 THEN none ELSE next(n, f[n - 1])]
           upTo == CHOOSE h : Steps(h)
<1>1. N \in Nat /\ none \in all
  OBVIOUS
<1>2. ASSUME NEW n \in 1 .. N, NEW x \in all PROVE next(n, x) \in all
  OBVIOUS
<1>3. Parts(p) = upTo[N]
  BY DEF Parts
<1> HIDE DEF N, none, all, next
<1>4. g \in Makers(N, all)
  BY <1>2 DEF Makers
<1>5. ASSUME NEW n \in 1 .. N, NEW x \in all PROVE g[n][x] = next(n, x)
  OBVIOUS
<1> HIDE DEF g
<1>6. PICK f \in [0 .. N -> all] : f[0] = none /\ MadeBy(f, N, g)
  BY <1>1, <1>4, Iteration
<1>7. Steps(f)
  <2>1. ASSUME NEW n \in 0 .. N PROVE f[n] = IF n = 0 THEN none ELSE next(n, f[n - 1])
    <3>1. n # 0 => n \in 1 .. N /\ f[n - 1] \in all
      BY <1>1
    <3> QED
      BY <1>5, <1>6, <3>1 DEF MadeBy
  <2> QED
    BY <2>1
<1>8. Steps(upTo)
  BY <1>7
<1> HIDE DEF upTo
<1>9. /\ upTo = [n \in 0 .. N |-> upTo[n]]
      /\ upTo[0] = none
      /\ \A n \in 1 .. N : upTo[n] = next(n, upTo[n - 1])
  BY SMTT(30), <1>1, <1>8
<1>10. \A n \in 0 .. N : upTo[n] \in all
  <2> DEFINE P == {n \in 0 .. N : upTo[n] \in all}
  <2>1. 0 \in P
    BY <1>1, <1>9
  <2>2. ASSUME NEW n \in 0 .. N - 1, n \in P PROVE n + 1 \in P
    <3>1. n + 1 \in 1 .. N /\ (n + 1) - 1 = n
      BY <1>1
    <3>2. upTo[n + 1] = next(n + 1, upTo[n])
      BY <1>9, <3>1
    <3> QED
      BY <1>1, <1>2, <2>2, <3>1, <3>2
  <2>3. 0 .. N \subseteq P
    <3> HIDE DEF P
    <3> QED
      BY <1>1, <2>1, <2>2, UpTo
  <2> QED
    BY <2>3
<1>11. upTo \in [0 .. N -> all]
  BY <1>9, <1>10
<1>12. ListsParts(upTo, p, S)
  BY <1>9, <1>11 DEF ListsParts, N, none, all, next
<1> QED
  BY <1>3, <1>12 DEF N

\* The parts of a path are pieces of it.
LEMMA PartsType ==
    ASSUME NEW S, NEW p \in Seq(S)
    PROVE  Parts(p) \in Seq(S) /\ Len(Parts(p)) \in Nat
<1>1. PICK f : ListsParts(f, p, S) /\ Parts(p) = f[Len(p)]
  BY PartsListed
<1> QED
  BY <1>1 DEF ListsParts

\* What getParts has collected after i pieces are the parts of the first i pieces.
LEMMA PartsOfPrefix ==
    ASSUME NEW S, NEW p \in Seq(S), NEW f, ListsParts(f, p, S), NEW i \in 0 .. Len(p)
    PROVE  Parts(SubSeq(p, 1, i)) = f[i]
<1> DEFINE q == SubSeq(p, 1, i)
<1>1. q \in Seq(S) /\ Len(q) = i /\ \A n \in 1 .. i : q[n] = p[n]
  OBVIOUS
<1> HIDE DEF q
<1>2. PICK g : ListsParts(g, q, S) /\ Parts(q) = g[Len(q)]
  BY <1>1, PartsListed
<1> DEFINE P == {n \in 0 .. i : f[n] = g[n]}
<1>3. 0 \in P
  BY <1>2 DEF ListsParts
<1>4. ASSUME NEW n \in 0 .. i - 1, n \in P PROVE n + 1 \in P
  <2>1. n + 1 \in 1 .. i /\ n + 1 \in 1 .. Len(p) /\ (n + 1) - 1 = n
    OBVIOUS
  <2>2. /\ f[n + 1] = IF p[n + 1] = Empty THEN f[n] ELSE Append(f[n], p[n + 1])
        /\ g[n + 1] = IF q[n + 1] = Empty THEN g[n] ELSE Append(g[n], q[n + 1])
    BY <1>1, <1>2, <2>1 DEF ListsParts
  <2> QED
    BY <1>1, <1>4, <2>1, <2>2
<1>5. 0 .. i \subseteq P
  <2> HIDE DEF P
  <2> QED
    BY <1>3, <1>4, UpTo
<1> QED
  BY <1>1, <1>2, <1>5 DEF q

\* lowerASCII keeps the kind of a piece and the pieces that are special in a path, and a
\* second application changes nothing.
LEMMA LowerType ==
    ASSUME NEW x \in Piece
    PROVE  /\ LowerPiece(x) \in Piece /\ Kind(LowerPiece(x)) = Kind(x)
           /\ LowerPiece(x) = Empty <=> x = Empty
           /\ LowerPiece(x) = Dot <=> x = Dot
           /\ LowerPiece(x) = Up <=> x = Up
           /\ Kind(x) # "static" => LowerPiece(x) = x
           /\ LowerPiece(LowerPiece(x)) = LowerPiece(x)
<1>1. x = <<Kind(x), Text(x)>> /\ Kind(x) \in {"static", "param", "wild"} /\ Text(x) \in STRING
  BY DEF Piece, Kind, Text
<1>2. CASE Kind(x) = "static" /\ Text(x) \in DOMAIN Lower
  <2> DEFINE l == Lower[Text(x)]
  <2>1. LowerPiece(x) = <<"static", l>>
    BY <1>2 DEF LowerPiece, Static
  <2>2. Text(x) \notin {"", ".", ".."} /\ l \in STRING /\ l \notin {"", ".", ".."} /\ l \notin DOMAIN Lower
    BY ZenonT(40), <1>2, LowerAssumption
  <2> HIDE DEF l
  <2>3. <<"static", l>> \in Piece /\ Kind(<<"static", l>>) = "static" /\ Text(<<"static", l>>) = l
    BY ZenonT(40), <2>2 DEF Piece, Kind, Text
  <2>4. ASSUME NEW y, Text(y) \notin {"", ".", ".."} PROVE y # Empty /\ y # Dot /\ y # Up
    <3>1. Text(Empty) = "" /\ Text(Dot) = "." /\ Text(Up) = ".."
      BY DEF Empty, Dot, Up, Static, Text
    <3> QED
      BY ZenonT(40), <2>4, <3>1
  <2>5. x # Empty /\ x # Dot /\ x # Up
    BY ZenonT(40), <2>2, <2>4
  <2>6. LowerPiece(x) # Empty /\ LowerPiece(x) # Dot /\ LowerPiece(x) # Up
    BY ZenonT(40), <2>1, <2>2, <2>3, <2>4
  <2>7. LowerPiece(<<"static", l>>) = <<"static", l>>
    BY ZenonT(40), <2>2, <2>3 DEF LowerPiece
  <2> QED
    BY <1>2, <2>1, <2>3, <2>5, <2>6, <2>7
<1>3. CASE ~(Kind(x) = "static" /\ Text(x) \in DOMAIN Lower)
  <2>1. LowerPiece(x) = x
    BY <1>3 DEF LowerPiece
  <2> QED
    BY <1>1, <1>3, <2>1
<1> QED
  BY <1>2, <1>3

\* lowerASCII works on a path piece by piece.
LEMMA LowerPathType ==
    ASSUME NEW s \in Seq(Piece)
    PROVE  /\ LowerPath(s) \in Seq(Piece) /\ Len(LowerPath(s)) = Len(s)
           /\ \A i \in 1 .. Len(s) : LowerPath(s)[i] = LowerPiece(s[i])
           /\ \A x \in Piece : LowerPath(Append(s, x)) = Append(LowerPath(s), LowerPiece(x))
<1>1. \A i \in 1 .. Len(s) : LowerPiece(s[i]) \in Piece
  BY LowerType
<1>2. /\ LowerPath(s) \in Seq(Piece) /\ Len(LowerPath(s)) = Len(s)
      /\ \A i \in 1 .. Len(s) : LowerPath(s)[i] = LowerPiece(s[i])
  BY <1>1 DEF LowerPath
<1>3. ASSUME NEW x \in Piece
      PROVE  LowerPath(Append(s, x)) = Append(LowerPath(s), LowerPiece(x))
  <2>1. LowerPiece(x) \in Piece
    BY LowerType
  <2> DEFINE l == Append(LowerPath(s), LowerPiece(x))
  <2>2. /\ l \in Seq(Piece) /\ Len(l) = Len(s) + 1 /\ l[Len(s) + 1] = LowerPiece(x)
        /\ \A i \in 1 .. Len(s) : l[i] = LowerPiece(s[i])
    BY <1>2, <2>1
  <2> HIDE DEF l
  <2>3. /\ Len(Append(s, x)) = Len(s) + 1 /\ Append(s, x)[Len(s) + 1] = x
        /\ \A i \in 1 .. Len(s) : Append(s, x)[i] = s[i]
    OBVIOUS
  <2>4. \A i \in 1 .. Len(s) + 1 : l[i] = LowerPiece(Append(s, x)[i])
    BY <2>2, <2>3
  <2>5. l = [i \in 1 .. Len(s) + 1 |-> LowerPiece(Append(s, x)[i])]
    BY <2>2, <2>4
  <2> QED
    BY <2>3, <2>5 DEF l, LowerPath
<1> QED
  BY <1>2, <1>3

\* The parts of a lower-case path are the lower-case parts of the path.
LEMMA PartsLower ==
    ASSUME NEW p \in Seq(Piece)
    PROVE  Parts(LowerPath(p)) = LowerPath(Parts(p))
<1> DEFINE l == LowerPath(p)
<1>1. /\ l \in Seq(Piece) /\ Len(l) = Len(p) /\ Len(p) \in Nat
      /\ \A i \in 1 .. Len(p) : l[i] = LowerPiece(p[i]) /\ p[i] \in Piece
  BY LowerPathType
<1> HIDE DEF l
<1>2. PICK f : ListsParts(f, p, Piece) /\ Parts(p) = f[Len(p)]
  BY PartsListed
<1>3. PICK g : ListsParts(g, l, Piece) /\ Parts(l) = g[Len(l)]
  BY <1>1, PartsListed
<1> DEFINE P == {n \in 0 .. Len(p) : g[n] = LowerPath(f[n])}
<1>4. 0 \in P
  <2>1. LowerPath(<<>>) = <<>>
    BY DEF LowerPath
  <2> QED
    BY <1>1, <1>2, <1>3, <2>1 DEF ListsParts
<1>5. ASSUME NEW n \in 0 .. Len(p) - 1, n \in P PROVE n + 1 \in P
  <2>1. n + 1 \in 1 .. Len(p) /\ (n + 1) - 1 = n /\ n + 1 \in 0 .. Len(p) /\ n \in 0 .. Len(p)
    BY <1>1
  <2>2. /\ f[n + 1] = IF p[n + 1] = Empty THEN f[n] ELSE Append(f[n], p[n + 1])
        /\ g[n + 1] = IF l[n + 1] = Empty THEN g[n] ELSE Append(g[n], l[n + 1])
    BY <1>1, <1>2, <1>3, <2>1 DEF ListsParts
  <2>3. /\ f[n] \in Seq(Piece) /\ p[n + 1] \in Piece /\ l[n + 1] = LowerPiece(p[n + 1])
        /\ l[n + 1] = Empty <=> p[n + 1] = Empty
    BY <1>1, <1>2, <2>1, LowerType DEF ListsParts
  <2>4. LowerPath(Append(f[n], p[n + 1])) = Append(LowerPath(f[n]), LowerPiece(p[n + 1]))
    BY <2>3, LowerPathType
  <2> QED
    BY <1>5, <2>1, <2>2, <2>3, <2>4
<1>6. 0 .. Len(p) \subseteq P
  <2> HIDE DEF P
  <2> QED
    BY <1>1, <1>4, <1>5, UpTo
<1> QED
  BY <1>1, <1>2, <1>3, <1>6 DEF l

\* indices[height] is where the part after the first height parts stands in the path.
LEMMA PartAt ==
    ASSUME NEW S, NEW p \in Seq(S), NEW h \in Nat, h < Len(Parts(p))
    PROVE  /\ Index(p, h) \in 1 .. Len(p)
           /\ p[Index(p, h)] = Parts(p)[h + 1]
<1> DEFINE Here(i) == p[i] # Empty /\ Len(Parts(SubSeq(p, 1, i))) = h + 1
<1>1. PICK f : ListsParts(f, p, S) /\ Parts(p) = f[Len(p)]
  BY PartsListed
<1>2. Len(p) \in Nat /\ \A n \in 0 .. Len(p) : f[n] \in Seq(S) /\ Len(f[n]) \in Nat
  BY <1>1 DEF ListsParts
<1>3. ASSUME NEW n \in 1 .. Len(p)
      PROVE  f[n] = IF p[n] = Empty THEN f[n - 1] ELSE Append(f[n - 1], p[n])
  BY <1>1 DEF ListsParts
<1>4. ASSUME NEW i \in 1 .. Len(p), Here(i)
      PROVE  p[i] = Parts(p)[h + 1]
  <2>1. p[i] # Empty /\ Len(f[i]) = h + 1
    <3>1. i \in 0 .. Len(p)
      OBVIOUS
    <3> QED
      BY <1>1, <1>4, <3>1, PartsOfPrefix
  <2>2. f[i] = Append(f[i - 1], p[i]) /\ f[i - 1] \in Seq(S) /\ p[i] \in S
    <3>1. i - 1 \in 0 .. Len(p) /\ p[i] \in S
      BY <1>2
    <3>2. f[i] = IF p[i] = Empty THEN f[i - 1] ELSE Append(f[i - 1], p[i])
      BY <1>3
    <3>3. f[i - 1] \in Seq(S)
      BY <1>2, <3>1
    <3> QED
      BY <2>1, <3>1, <3>2, <3>3
  <2>3. f[i][h + 1] = p[i]
    BY <2>1, <2>2
  <2> DEFINE P == {n \in 0 .. Len(p) : n >= i => Len(f[n]) >= h + 1 /\ f[n][h + 1] = p[i]}
  <2>4. 0 \in P
    BY <1>2
  <2>5. ASSUME NEW n \in 0 .. Len(p) - 1, n \in P PROVE n + 1 \in P
    <3>1. n + 1 \in 1 .. Len(p) /\ n + 1 \in 0 .. Len(p) /\ n \in 0 .. Len(p) /\ (n + 1) - 1 = n
      BY <1>2
    <3>2. CASE n + 1 < i
      BY <3>1, <3>2
    <3>3. CASE n + 1 = i
      <4>1. Len(f[n + 1]) >= h + 1 /\ f[n + 1][h + 1] = p[i]
        BY <2>1, <2>3, <3>3
      <4> QED
        BY <3>1, <4>1
    <3>4. CASE n >= i
      <4>1. Len(f[n]) >= h + 1 /\ f[n][h + 1] = p[i]
        BY <2>5, <3>4
      <4>2. f[n + 1] = IF p[n + 1] = Empty THEN f[n] ELSE Append(f[n], p[n + 1])
        BY <1>3, <3>1
      <4>3. f[n] \in Seq(S) /\ p[n + 1] \in S /\ Len(f[n]) \in Nat
        BY <1>2, <3>1
      <4>4. Len(f[n + 1]) >= h + 1 /\ f[n + 1][h + 1] = p[i]
        BY SMTT(30), <4>1, <4>2, <4>3
      <4> QED
        BY <3>1, <4>4
    <3> QED
      BY <1>2, <3>1, <3>2, <3>3, <3>4
  <2>6. 0 .. Len(p) \subseteq P
    <3> HIDE DEF P
    <3> QED
      BY <1>2, <2>4, <2>5, UpTo
  <2>7. Len(p) \in P
    <3> HIDE DEF P
    <3> QED
      BY <1>2, <2>6
  <2> QED
    BY <1>1, <1>2, <2>7
<1>5. \E i \in 1 .. Len(p) : Here(i)
  <2> DEFINE T == {n \in 0 .. Len(p) : Len(f[n]) >= h + 1}
  <2>1. T \subseteq Nat /\ Len(p) \in T
    BY <1>1, <1>2
  <2>2. PICK i \in T : \A n \in T : i <= n
    <3> HIDE DEF T
    <3> QED
      BY <2>1, LeastElement
  <2>3. i \in 0 .. Len(p) /\ Len(f[i]) >= h + 1
    OBVIOUS
  <2>4. i # 0
    <3>1. f[0] = <<>>
      BY <1>1 DEF ListsParts
    <3> QED
      BY <2>3, <3>1
  <2>5. i \in 1 .. Len(p) /\ i - 1 \in 0 .. Len(p) /\ i - 1 < i
    BY <1>2, <2>3, <2>4
  <2>6. ~(Len(f[i - 1]) >= h + 1)
    BY <1>2, <2>2, <2>5
  <2>7. f[i] = IF p[i] = Empty THEN f[i - 1] ELSE Append(f[i - 1], p[i])
    BY <1>3, <2>5
  <2>8. f[i - 1] \in Seq(S) /\ p[i] \in S /\ Len(f[i - 1]) \in Nat
    BY SMTT(30), <1>2, <2>5
  <2>9. p[i] # Empty /\ Len(f[i]) = h + 1
    BY SMTT(30), <2>3, <2>6, <2>7, <2>8
  <2>10. Here(i)
    BY <1>1, <2>3, <2>9, PartsOfPrefix
  <2> QED
    BY <2>5, <2>10
<1>6. Index(p, h) = CHOOSE i \in 1 .. Len(p) : Here(i)
  <2>1. ~(h >= Len(Parts(p)))
    BY PartsType
  <2> QED
    BY <2>1 DEF Index
<1> HIDE DEF Here
<1>7. Index(p, h) \in 1 .. Len(p) /\ Here(Index(p, h))
  BY <1>5, <1>6
<1> QED
  BY <1>4, <1>7

-----------------------------------------------------------------------------
(* Clean paths *)

\* The pieces that stand for themselves in a path
Plain == Piece \ {Empty, Dot, Up}

\* f resolves the beginnings of p.
Resolves(f, p) ==
    /\ f \in [0 .. Len(p) -> Seq(Plain)]
    /\ f[0] = <<>>
    /\ \A n \in 1 .. Len(p) :
          f[n] = IF p[n] \in {Empty, Dot} THEN f[n - 1]
                 ELSE IF p[n] = Up THEN IF f[n - 1] = <<>> THEN <<>> ELSE FrontOf(f[n - 1])
                 ELSE Append(f[n - 1], p[n])

\* What a path resolves to is built piece by piece and is made of plain pieces.
LEMMA PathResolved ==
    ASSUME NEW p \in Seq(Piece)
    PROVE  \E f : Resolves(f, p) /\ Resolved(p) = f[Len(p)]
<1> DEFINE N == Len(p)
           none == <<>>
           all == Seq(Plain)
           next(n, x) == IF p[n] \in {Empty, Dot} THEN x
                         ELSE IF p[n] = Up THEN IF x = <<>> THEN <<>> ELSE FrontOf(x)
                         ELSE Append(x, p[n])
           g == [n \in 1 .. N |-> [x \in all |-> next(n, x)]]
           Steps(f) == f = [n \in 0 .. N |-> IF n = 0 THEN none ELSE next(n, f[n - 1])]
           upTo == CHOOSE h : Steps(h)
<1>1. N \in Nat /\ none \in all
  OBVIOUS
<1>2. ASSUME NEW n \in 1 .. N, NEW x \in all PROVE next(n, x) \in all
  <2>1. p[n] \in Piece
    OBVIOUS
  <2>2. p[n] \notin {Empty, Dot, Up} => p[n] \in Plain
    BY <2>1 DEF Plain
  <2>3. x # <<>> => FrontOf(x) \in all
    <3>1. x # <<>> => Len(x) - 1 \in 0 .. Len(x)
      OBVIOUS
    <3> QED
      BY <3>1, PrefixOf DEF FrontOf
  <2> QED
    BY <1>1, <2>2, <2>3
<1>3. Resolved(p) = upTo[N]
  BY DEF Resolved
<1> HIDE DEF N, none, all, next
<1>4. g \in Makers(N, all)
  BY <1>2 DEF Makers
<1>5. ASSUME NEW n \in 1 .. N, NEW x \in all PROVE g[n][x] = next(n, x)
  OBVIOUS
<1> HIDE DEF g
<1>6. PICK f \in [0 .. N -> all] : f[0] = none /\ MadeBy(f, N, g)
  BY <1>1, <1>4, Iteration
<1>7. Steps(f)
  <2>1. ASSUME NEW n \in 0 .. N PROVE f[n] = IF n = 0 THEN none ELSE next(n, f[n - 1])
    <3>1. n # 0 => n \in 1 .. N /\ f[n - 1] \in all
      BY <1>1
    <3> QED
      BY <1>5, <1>6, <3>1 DEF MadeBy
  <2> QED
    BY <2>1
<1>8. Steps(upTo)
  BY <1>7
<1> HIDE DEF upTo
<1>9. /\ upTo = [n \in 0 .. N |-> upTo[n]]
      /\ upTo[0] = none
      /\ \A n \in 1 .. N : upTo[n] = next(n, upTo[n - 1])
  BY SMTT(30), <1>1, <1>8
<1>10. \A n \in 0 .. N : upTo[n] \in all
  <2> DEFINE P == {n \in 0 .. N : upTo[n] \in all}
  <2>1. 0 \in P
    BY <1>1, <1>9
  <2>2. ASSUME NEW n \in 0 .. N - 1, n \in P PROVE n + 1 \in P
    <3>1. n + 1 \in 1 .. N /\ (n + 1) - 1 = n
      BY <1>1
    <3>2. upTo[n + 1] = next(n + 1, upTo[n])
      BY <1>9, <3>1
    <3> QED
      BY <1>1, <1>2, <2>2, <3>1, <3>2
  <2>3. 0 .. N \subseteq P
    <3> HIDE DEF P
    <3> QED
      BY <1>1, <2>1, <2>2, UpTo
  <2> QED
    BY <2>3
<1>11. upTo \in [0 .. N -> all]
  BY <1>9, <1>10
<1>12. Resolves(upTo, p)
  BY <1>9, <1>11 DEF Resolves, N, none, all, next
<1> QED
  BY <1>3, <1>12 DEF N

\* The form of a clean path: plain pieces, and perhaps a slash at the end
CleanForm(p) ==
    /\ p \in Seq(Piece) /\ Len(p) > 0
    /\ \A i \in 1 .. Len(p) : p[i] # Dot /\ p[i] # Up /\ (p[i] = Empty => i = Len(p))

\* A path without the slash at its end
Body(p) == IF LastOf(p) = Empty THEN FrontOf(p) ELSE p

\* Whatever walks a clean path and keeps its plain pieces ends with its body.
LEMMA WalkClean ==
    ASSUME NEW p, CleanForm(p), NEW f, f[0] = <<>>,
           \A n \in 1 .. Len(p) : p[n] = Empty => f[n] = f[n - 1],
           \A n \in 1 .. Len(p) : p[n] \in Plain => f[n] = Append(f[n - 1], p[n])
    PROVE  f[Len(p)] = Body(p)
<1> DEFINE N == Len(p)
           P == {n \in 0 .. N - 1 : f[n] = SubSeq(p, 1, n)}
<1>1. N \in Nat /\ N > 0 /\ p \in Seq(Piece)
  BY DEF CleanForm
<1>2. \A n \in 1 .. N : n < N => p[n] \in Plain
  BY <1>1 DEF CleanForm, Plain
<1>3. ASSUME NEW n \in 1 .. N PROVE SubSeq(p, 1, n) = Append(SubSeq(p, 1, n - 1), p[n])
  BY <1>1
<1>4. 0 \in P
  <2>1. SubSeq(p, 1, 0) = <<>> /\ 0 \in 0 .. N - 1
    BY <1>1
  <2> QED
    BY <2>1
<1>5. ASSUME NEW n \in 0 .. (N - 1) - 1, n \in P PROVE n + 1 \in P
  <2>1. n + 1 \in 1 .. N /\ n + 1 < N /\ (n + 1) - 1 = n
    BY <1>1
  <2>2. f[n + 1] = Append(f[n], p[n + 1])
    BY <1>2, <2>1
  <2>3. SubSeq(p, 1, n + 1) = Append(SubSeq(p, 1, n), p[n + 1])
    BY <1>3, <2>1
  <2>4. f[n] = SubSeq(p, 1, n) /\ n + 1 \in 0 .. N - 1
    BY <1>1, <1>5
  <2>5. f[n + 1] = SubSeq(p, 1, n + 1)
    BY <2>2, <2>3, <2>4
  <2> QED
    BY <2>4, <2>5
<1>6. N - 1 \in P
  <2>1. 0 .. N - 1 \subseteq P
    <3>1. N - 1 \in Nat
      BY <1>1
    <3> HIDE DEF P
    <3> QED
      BY <1>4, <1>5, <3>1, UpTo
  <2> HIDE DEF P
  <2> QED
    BY <1>1, <2>1
<1>7. f[N - 1] = SubSeq(p, 1, N - 1) /\ N \in 1 .. N
  BY <1>1, <1>6
<1>8. CASE p[N] = Empty
  BY <1>7, <1>8 DEF Body, LastOf, FrontOf
<1>9. CASE p[N] # Empty
  <2>1. p[N] \in Plain
    BY <1>1, <1>9 DEF CleanForm, Plain
  <2>2. f[N] = SubSeq(p, 1, N)
    BY <1>3, <1>7, <2>1
  <2> QED
    BY <1>1, <1>9, <2>2, Whole DEF Body, LastOf
<1> QED
  BY <1>8, <1>9

\* The parts of a clean path are its body, which is also what it resolves to.
LEMMA CleanParts ==
    ASSUME NEW p, CleanForm(p)
    PROVE  /\ Parts(p) = Body(p) /\ Resolved(p) = Body(p)
           /\ Body(p) \in Seq(Plain) /\ p = (IF LastOf(p) = Empty THEN Append(Body(p), Empty) ELSE Body(p))
<1>1. p \in Seq(Piece) /\ Len(p) > 0 /\ Len(p) \in Nat
  BY DEF CleanForm
<1>2. Parts(p) = Body(p)
  <2>1. PICK f : ListsParts(f, p, Piece) /\ Parts(p) = f[Len(p)]
    BY <1>1, PartsListed
  <2>2. \A n \in 1 .. Len(p) : p[n] \in Plain => p[n] # Empty
    BY DEF Plain
  <2> QED
    BY <2>1, <2>2, WalkClean DEF ListsParts
<1>3. PICK f : Resolves(f, p) /\ Resolved(p) = f[Len(p)]
  BY <1>1, PathResolved
<1>4. Resolved(p) = Body(p)
  <2>2. \A n \in 1 .. Len(p) : p[n] \in Plain => p[n] # Empty /\ p[n] # Dot /\ p[n] # Up
    BY DEF Plain
  <2> QED
    BY <1>3, <2>2, WalkClean DEF Resolves
<1>5. Body(p) \in Seq(Plain)
  <2>1. Len(p) \in 0 .. Len(p) /\ f \in [0 .. Len(p) -> Seq(Plain)]
    BY <1>1, <1>3 DEF Resolves
  <2> QED
    BY <1>3, <1>4, <2>1
<1>6. p = IF LastOf(p) = Empty THEN Append(Body(p), Empty) ELSE Body(p)
  <2>1. p = Append(SubSeq(p, 1, Len(p) - 1), p[Len(p)])
    BY <1>1
  <2> QED
    BY <2>1 DEF Body, LastOf, FrontOf
<1> QED
  BY <1>2, <1>4, <1>5, <1>6

\* Plain pieces, and those with a slash after them, are clean paths.
LEMMA MadeClean ==
    ASSUME NEW s \in Seq(Plain)
    PROVE  /\ CleanForm(Append(s, Empty)) /\ Body(Append(s, Empty)) = s
           /\ LastOf(Append(s, Empty)) = Empty
           /\ s # <<>> => CleanForm(s) /\ Body(s) = s /\ LastOf(s) # Empty
<1>1. s \in Seq(Piece) /\ Empty \in Piece /\ Empty # Dot /\ Empty # Up
  <2>1. Plain \subseteq Piece /\ Empty \in Piece
    BY EmptyAssumption DEF Plain
  <2>2. Empty # Dot /\ Empty # Up
    <3>1. Empty[2] = "" /\ Dot[2] = "." /\ Up[2] = ".."
      BY DEF Empty, Dot, Up, Static
    <3> QED
      BY ZenonT(40), <3>1
  <2> QED
    BY <2>1, <2>2
<1>2. \A i \in 1 .. Len(s) : s[i] # Empty /\ s[i] # Dot /\ s[i] # Up
  BY DEF Plain
<1> DEFINE q == Append(s, Empty)
<1>3. /\ q \in Seq(Piece) /\ Len(q) = Len(s) + 1 /\ q[Len(s) + 1] = Empty
      /\ \A i \in 1 .. Len(s) : q[i] = s[i]
      /\ SubSeq(q, 1, Len(s)) = s
  <2>1. /\ q \in Seq(Piece) /\ Len(q) = Len(s) + 1 /\ q[Len(s) + 1] = Empty
        /\ \A i \in 1 .. Len(s) : q[i] = s[i]
    BY <1>1
  <2> HIDE DEF q
  <2>2. /\ SubSeq(q, 1, Len(s)) \in Seq(Piece) /\ Len(SubSeq(q, 1, Len(s))) = Len(s)
        /\ \A i \in 1 .. Len(s) : SubSeq(q, 1, Len(s))[i] = s[i]
    <3>1. Len(s) \in 0 .. Len(q)
      BY <1>1, <2>1
    <3> QED
      BY <2>1, <3>1, PrefixOf
  <2>3. SubSeq(q, 1, Len(s)) = s
    BY <1>1, <2>2, SeqEqual
  <2> QED
    BY <2>1, <2>3
<1> HIDE DEF q
<1>4. CleanForm(q)
  BY <1>1, <1>2, <1>3 DEF CleanForm
<1>5. LastOf(q) = Empty /\ FrontOf(q) = s
  BY <1>1, <1>3 DEF LastOf, FrontOf
<1>6. Body(q) = s
  BY <1>5 DEF Body
<1>7. s # <<>> => CleanForm(s) /\ LastOf(s) # Empty
  BY <1>1, <1>2 DEF CleanForm, LastOf
<1> QED
  BY <1>4, <1>5, <1>6, <1>7 DEF q, Body

\* cleanPath makes a clean path and leaves a clean path as it is.
LEMMA CleanIsClean ==
    ASSUME NEW p \in Seq(Piece)
    PROVE  /\ CleanForm(CleanPath(p)) /\ Body(CleanPath(p)) = Resolved(p)
           /\ CleanPath(p) = p <=> CleanForm(p)
<1>1. PICK f : Resolves(f, p) /\ Resolved(p) = f[Len(p)]
  BY PathResolved
<1>2. Resolved(p) \in Seq(Plain)
  BY <1>1 DEF Resolves
<1>3. <<>> \in Seq(Plain) /\ Root = Append(<<>>, Empty)
  BY DEF Root
<1>4. CleanForm(CleanPath(p)) /\ Body(CleanPath(p)) = Resolved(p)
  <2>1. CASE Resolved(p) = <<>>
    BY <1>3, <2>1, MadeClean DEF CleanPath
  <2>2. CASE Resolved(p) # <<>>
    BY <1>2, <2>2, MadeClean DEF CleanPath
  <2> QED
    BY <2>1, <2>2
<1>5. ASSUME CleanForm(p) PROVE CleanPath(p) = p
  <2>1. /\ Resolved(p) = Body(p)
        /\ p = (IF LastOf(p) = Empty THEN Append(Body(p), Empty) ELSE Body(p))
        /\ Body(p) \in Seq(Plain) /\ Parts(p) = Body(p)
    BY <1>5, CleanParts
  <2>2. CASE LastOf(p) = Empty
    BY <1>3, <2>1, <2>2 DEF CleanPath
  <2>3. CASE LastOf(p) # Empty
    <3>1. p # <<>>
      BY <1>5 DEF CleanForm
    <3> QED
      BY <2>1, <2>3, <3>1 DEF CleanPath
  <2> QED
    BY <2>2, <2>3
<1> QED
  BY <1>4, <1>5

\* The lower-case form of a clean path is clean.
LEMMA LowerClean ==
    ASSUME NEW p, CleanForm(p)
    PROVE  /\ CleanForm(LowerPath(p))
           /\ LastOf(LowerPath(p)) = Empty <=> LastOf(p) = Empty
<1>1. p \in Seq(Piece) /\ Len(p) > 0 /\ Len(p) \in Nat
  BY DEF CleanForm
<1> DEFINE l == LowerPath(p)
<1>2. l \in Seq(Piece) /\ Len(l) = Len(p) /\ \A i \in 1 .. Len(p) : l[i] = LowerPiece(p[i])
  BY <1>1, LowerPathType
<1> HIDE DEF l
<1>3. \A i \in 1 .. Len(p) : /\ l[i] = Empty <=> p[i] = Empty
                             /\ l[i] = Dot <=> p[i] = Dot
                             /\ l[i] = Up <=> p[i] = Up
  <2>1. ASSUME NEW i \in 1 .. Len(p)
        PROVE  /\ l[i] = Empty <=> p[i] = Empty
               /\ l[i] = Dot <=> p[i] = Dot
               /\ l[i] = Up <=> p[i] = Up
    <3>1. p[i] \in Piece
      BY <1>1
    <3> QED
      BY <1>2, <3>1, LowerType
  <2> QED
    BY <2>1
<1>4. CleanForm(l)
  BY <1>1, <1>2, <1>3 DEF CleanForm
<1>5. LastOf(l) = Empty <=> LastOf(p) = Empty
  BY <1>1, <1>2, <1>3 DEF LastOf
<1> QED
  BY <1>4, <1>5 DEF l

\* The lower-case form of a path has no other lower-case form.
LEMMA LowerTwice ==
    ASSUME NEW p \in Seq(Piece)
    PROVE  \A i \in 1 .. Len(LowerPath(p)) : LowerPiece(LowerPath(p)[i]) = LowerPath(p)[i]
<1>1. /\ Len(LowerPath(p)) = Len(p)
      /\ \A i \in 1 .. Len(p) : LowerPath(p)[i] = LowerPiece(p[i])
  BY LowerPathType
<1>2. \A i \in 1 .. Len(p) : LowerPiece(LowerPiece(p[i])) = LowerPiece(p[i])
  BY LowerType
<1> QED
  BY <1>1, <1>2

\* Two clean paths with the same parts differ by the slash at the end, if at all.
LEMMA OtherSlash ==
    ASSUME NEW p, NEW q, CleanForm(p), CleanForm(q), Parts(p) = Parts(q), p # q
    PROVE  /\ q = Alternate(p) /\ HasAlternate(p)
           /\ LastOf(p) # Empty => Slashed(q)
<1> DEFINE s == Body(p)
<1>1. /\ p \in Seq(Piece) /\ q \in Seq(Piece) /\ Len(p) > 0 /\ Len(q) > 0
      /\ Body(q) = s /\ s \in Seq(Plain) /\ s \in Seq(Piece)
      /\ p = (IF LastOf(p) = Empty THEN Append(s, Empty) ELSE s)
      /\ q = (IF LastOf(q) = Empty THEN Append(s, Empty) ELSE s)
  <2>1. Body(p) = Parts(p) /\ Body(q) = Parts(q) /\ Body(p) \in Seq(Plain)
    BY CleanParts
  <2>2. /\ p = (IF LastOf(p) = Empty THEN Append(Body(p), Empty) ELSE Body(p))
        /\ q = (IF LastOf(q) = Empty THEN Append(Body(q), Empty) ELSE Body(q))
    BY CleanParts
  <2>3. Body(p) \in Seq(Piece)
    BY <2>1 DEF Plain
  <2> QED
    BY <2>1, <2>2, <2>3 DEF CleanForm
<1> HIDE DEF s
<1>2. CASE LastOf(p) = Empty
  <2>1. q = s
    BY <1>1, <1>2
  <2>2. s # <<>>
    BY <1>1, <2>1
  <2>3. Alternate(p) = s
    BY <1>2 DEF Alternate, Body, s
  <2>4. p # Root
    <3>1. Len(p) = Len(s) + 1 /\ Len(s) > 0
      BY <1>1, <1>2, <2>2
    <3>2. Len(Root) = 1
      BY DEF Root
    <3> QED
      BY <1>1, <3>1, <3>2
  <2> QED
    BY <1>2, <2>1, <2>3, <2>4 DEF HasAlternate
<1>3. CASE LastOf(p) # Empty
  <2>1. p = s /\ q = Append(s, Empty) /\ LastOf(q) = Empty
    BY <1>1, <1>3
  <2>2. Len(q) = Len(s) + 1 /\ Len(s) > 0
    BY <1>1, <2>1
  <2>3. LastOf(Root) = Empty
    BY DEF Root, LastOf
  <2> QED
    BY <1>1, <1>3, <2>1, <2>2, <2>3 DEF Alternate, HasAlternate, Slashed
<1> QED
  BY <1>2, <1>3

\* The other slash form of a clean path is clean, and lower case does not change
\* which one it is.
LEMMA AlternateLower ==
    ASSUME NEW p, CleanForm(p), HasAlternate(p)
    PROVE  CleanForm(Alternate(p)) /\ LowerPath(Alternate(p)) = Alternate(LowerPath(p))
<1> DEFINE s == Body(p)
<1>1. /\ p \in Seq(Piece) /\ Len(p) > 0 /\ s \in Seq(Plain) /\ s \in Seq(Piece)
      /\ p = (IF LastOf(p) = Empty THEN Append(s, Empty) ELSE s)
  <2>1. /\ Body(p) \in Seq(Plain)
        /\ p = (IF LastOf(p) = Empty THEN Append(Body(p), Empty) ELSE Body(p))
    BY CleanParts
  <2>2. Body(p) \in Seq(Piece)
    BY <2>1 DEF Plain
  <2> QED
    BY <2>1, <2>2 DEF CleanForm
<1>2. Alternate(p) = IF LastOf(p) = Empty THEN s ELSE Append(s, Empty)
  <2>1. CASE LastOf(p) = Empty
    BY <2>1 DEF Alternate, Body
  <2>2. CASE LastOf(p) # Empty
    BY <1>1, <2>2 DEF Alternate
  <2> QED
    BY <2>1, <2>2
<1> HIDE DEF s
<1>3. Empty \in Piece /\ LowerPiece(Empty) = Empty
  BY EmptyAssumption, LowerType
<1>4. /\ LowerPath(s) \in Seq(Piece)
      /\ LowerPath(Append(s, Empty)) = Append(LowerPath(s), Empty)
  BY <1>1, <1>3, LowerPathType
<1>5. LastOf(LowerPath(p)) = Empty <=> LastOf(p) = Empty
  BY LowerClean
<1>6. CASE LastOf(p) = Empty
  <2>1. s # <<>>
    BY <1>1, <1>6 DEF HasAlternate, Root
  <2>2. CleanForm(s)
    BY <1>1, <2>1, MadeClean
  <2>3. LowerPath(p) = Append(LowerPath(s), Empty)
    BY <1>1, <1>4, <1>6
  <2> DEFINE l == LowerPath(s)
  <2>4. l \in Seq(Piece) /\ Empty \in Piece
    BY <1>3, <1>4
  <2> HIDE DEF l
  <2>5. FrontOf(Append(l, Empty)) = l
    <3>1. /\ Append(l, Empty) \in Seq(Piece) /\ Len(Append(l, Empty)) = Len(l) + 1
          /\ \A i \in 1 .. Len(l) : Append(l, Empty)[i] = l[i]
      BY <2>4
    <3>2. Len(l) \in 0 .. Len(Append(l, Empty)) /\ Len(Append(l, Empty)) - 1 = Len(l)
      BY <2>4, <3>1
    <3>3. /\ SubSeq(Append(l, Empty), 1, Len(l)) \in Seq(Piece)
          /\ Len(SubSeq(Append(l, Empty), 1, Len(l))) = Len(l)
          /\ \A i \in 1 .. Len(l) : SubSeq(Append(l, Empty), 1, Len(l))[i] = Append(l, Empty)[i]
      BY <3>1, <3>2, PrefixOf
    <3>4. SubSeq(Append(l, Empty), 1, Len(l)) = l
      BY <2>4, <3>1, <3>3, SeqEqual
    <3> QED
      BY <3>2, <3>4 DEF FrontOf
  <2>6. Alternate(LowerPath(p)) = l
    BY <1>5, <1>6, <2>3, <2>5 DEF Alternate, l
  <2> QED
    BY <1>2, <1>6, <2>2, <2>6 DEF l
<1>7. CASE LastOf(p) # Empty
  <2>1. CleanForm(Append(s, Empty)) /\ p = s
    BY <1>1, <1>7, MadeClean
  <2>2. Alternate(LowerPath(p)) = Append(LowerPath(p), Empty)
    BY <1>5, <1>7 DEF Alternate
  <2> QED
    BY <1>2, <1>4, <1>7, <2>1, <2>2
<1> QED
  BY <1>6, <1>7

\* The clean form of a path of static pieces is made of static pieces.
LEMMA CleanStatic ==
    ASSUME NEW p \in Seq({"static"} \X STRING)
    PROVE  CleanPath(p) \in Seq({"static"} \X STRING)
<1> DEFINE S == {"static"} \X STRING
<1>1. p \in Seq(Piece) /\ Len(p) \in Nat
  BY DEF Piece
<1>2. PICK f : Resolves(f, p) /\ Resolved(p) = f[Len(p)]
  BY <1>1, PathResolved
<1>3. /\ f[0] = <<>>
      /\ \A n \in 1 .. Len(p) :
            f[n] = IF p[n] \in {Empty, Dot} THEN f[n - 1]
                   ELSE IF p[n] = Up THEN IF f[n - 1] = <<>> THEN <<>> ELSE FrontOf(f[n - 1])
                   ELSE Append(f[n - 1], p[n])
  BY <1>2 DEF Resolves
<1>4. Empty \in S
  BY ZenonT(40), EmptyAssumption DEF Empty, Static, Piece
<1>5. \A n \in 1 .. Len(p) : p[n] \in S
  OBVIOUS
<1> HIDE DEF S
<1> DEFINE P == {n \in 0 .. Len(p) : f[n] \in Seq(S)}
<1>6. 0 \in P
  <2>1. f[0] \in Seq(S) /\ 0 \in 0 .. Len(p)
    <3>1. <<>> \in Seq(S)
      OBVIOUS
    <3> QED
      BY <1>1, <1>3, <3>1
  <2> QED
    BY <2>1
<1>7. ASSUME NEW n \in 0 .. Len(p) - 1, n \in P PROVE n + 1 \in P
  <2>1. n + 1 \in 1 .. Len(p) /\ (n + 1) - 1 = n /\ n + 1 \in 0 .. Len(p)
    BY <1>1
  <2>2. f[n] \in Seq(S) /\ p[n + 1] \in S
    BY <1>5, <1>7, <2>1
  <2>3. f[n] # <<>> => FrontOf(f[n]) \in Seq(S)
    <3>1. f[n] # <<>> => Len(f[n]) - 1 \in 0 .. Len(f[n])
      BY <2>2
    <3> QED
      BY <2>2, <3>1, PrefixOf DEF FrontOf
  <2>4. f[n + 1] = IF p[n + 1] \in {Empty, Dot} THEN f[n]
                   ELSE IF p[n + 1] = Up THEN IF f[n] = <<>> THEN <<>> ELSE FrontOf(f[n])
                   ELSE Append(f[n], p[n + 1])
    BY <1>3, <2>1
  <2>5. f[n + 1] \in Seq(S)
    BY <2>2, <2>3, <2>4
  <2> QED
    BY <2>1, <2>5
<1>8. Resolved(p) \in Seq(S)
  <2>1. 0 .. Len(p) \subseteq P
    <3> HIDE DEF P
    <3> QED
      BY <1>1, <1>6, <1>7, UpTo
  <2> QED
    BY <1>1, <1>2, <2>1
<1>9. CleanPath(p) \in Seq(S)
  BY <1>4, <1>8 DEF CleanPath, Root
<1> QED
  BY <1>9 DEF S

-----------------------------------------------------------------------------
(* Nodes *)

\* A node is its parent and its last part.
LEMMA NodeOfParent ==
    ASSUME NEW S, NEW c \in Seq(S), NEW d \in Seq(S), Len(c) = Len(d), Len(c) > 0,
           SubSeq(c, 1, Len(c) - 1) = SubSeq(d, 1, Len(c) - 1), LastOf(c) = LastOf(d)
    PROVE  c = d
<1>1. ASSUME NEW i \in 1 .. Len(c) PROVE c[i] = d[i]
  <2>1. CASE i = Len(c)
    BY <2>1 DEF LastOf
  <2>2. CASE i # Len(c)
    <3>1. Len(c) - 1 \in 0 .. Len(c) /\ Len(c) - 1 \in 0 .. Len(d) /\ i \in 1 .. Len(c) - 1
      BY <2>2
    <3>2. SubSeq(c, 1, Len(c) - 1)[i] = c[i] /\ SubSeq(d, 1, Len(c) - 1)[i] = d[i]
      BY <3>1
    <3> QED
      BY <3>2
  <2> QED
    BY <2>1, <2>2
<1> QED
  BY <1>1, SeqEqual

Prefixes(s) == {SubSeq(s, 1, k) : k \in 0 .. Len(s)}

\* Where a wildcard is, a pattern ends.
WildLast(n) == \A i \in 1 .. Len(n) : Kind(n[i]) = "wild" => i = Len(n)

\* Two nodes with one parent that are both no static ones are the same node.
Siblings(c, d) ==
    /\ Len(c) = Len(d) /\ Len(c) > 0
    /\ SubSeq(c, 1, Len(c) - 1) = SubSeq(d, 1, Len(c) - 1)
    /\ Kind(LastOf(c)) # "static" /\ Kind(LastOf(d)) # "static"

WellFormed(nodes) ==
    /\ <<>> \in nodes /\ nodes \subseteq Seq(Piece)
    /\ \E depth \in Nat : \A n \in nodes : Len(n) <= depth
    /\ \A n \in nodes : \A k \in 0 .. Len(n) : SubSeq(n, 1, k) \in nodes
    /\ \A n \in nodes : WildLast(n)
    /\ \A c, d \in nodes : Siblings(c, d) => c = d

TrieOK(t) == t = [n \in DOMAIN t |-> t[n]] /\ WellFormed(DOMAIN t)

\* A new root is in order.
LEMMA EmptyTrieOK == TrieOK(EmptyTrie)
<1>1. DOMAIN EmptyTrie = {<<>>} /\ EmptyTrie = [n \in DOMAIN EmptyTrie |-> EmptyTrie[n]]
  BY DEF EmptyTrie
<1>2. <<>> \in Seq(Piece) /\ Len(<<>>) = 0 /\ \A k \in 0 .. 0 : SubSeq(<<>>, 1, k) = <<>>
  OBVIOUS
<1> QED
  <2> DEFINE nodes == {<<>>}
  <2>1. /\ <<>> \in nodes /\ nodes \subseteq Seq(Piece) /\ \A n \in nodes : WildLast(n)
        /\ \A c, d \in nodes : Siblings(c, d) => c = d
    BY <1>2 DEF WildLast, Siblings
  <2>2. \A n \in nodes : \A k \in 0 .. Len(n) : SubSeq(n, 1, k) \in nodes
    BY <1>2
  <2>3. 0 \in Nat /\ \A n \in nodes : Len(n) <= 0
    BY <1>2
  <2>4. WellFormed(nodes)
    BY <2>1, <2>2, <2>3 DEF WellFormed
  <2> QED
    BY <1>1, <2>4 DEF TrieOK

-----------------------------------------------------------------------------
(* insert *)

\* A new node fits where insert finds no conflict.
LEMMA NodeFits ==
    ASSUME NEW t, WellFormed(DOMAIN t), NEW child \in Seq(Piece), WildLast(child),
           Len(child) > 0, child \notin DOMAIN t,
           SubSeq(child, 1, Len(child) - 1) \in DOMAIN t,
           ~Conflicts(t, SubSeq(child, 1, Len(child) - 1), LastOf(child))
    PROVE  WellFormed(DOMAIN t \cup {child})
<1> DEFINE nodes  == DOMAIN t \cup {child}
           parent == SubSeq(child, 1, Len(child) - 1)
<1>1. parent \in Seq(Piece) /\ Len(parent) = Len(child) - 1 /\ Len(child) \in Nat
  <2>1. Len(child) \in Nat /\ Len(child) - 1 \in 0 .. Len(child)
    OBVIOUS
  <2> QED
    BY <2>1, PrefixOf
<1>2. \E depth \in Nat : \A n \in nodes : Len(n) <= depth
  <2>1. PICK depth \in Nat : \A n \in DOMAIN t : Len(n) <= depth
    BY DEF WellFormed
  <2>2. PICK more \in Nat : more >= depth /\ more >= Len(child)
    <3>1. depth + Len(child) \in Nat /\ depth + Len(child) >= depth /\ depth + Len(child) >= Len(child)
      BY <1>1
    <3> QED
      BY <3>1
  <2>3. \A n \in DOMAIN t : Len(n) \in Nat
    BY DEF WellFormed
  <2>4. \A n \in nodes : Len(n) <= more
    BY <2>1, <2>2, <2>3
  <2> QED
    BY <2>4
<1>3. ASSUME NEW n \in nodes, NEW k \in 0 .. Len(n)
      PROVE  SubSeq(n, 1, k) \in nodes
  <2>1. CASE n \in DOMAIN t
    BY <2>1 DEF WellFormed
  <2>2. CASE n = child /\ k = Len(child)
    <3>1. SubSeq(child, 1, Len(child)) = child
      BY Whole
    <3> QED
      BY <2>2, <3>1
  <2>3. CASE n = child /\ k # Len(child)
    <3>1. k \in 0 .. Len(parent) /\ Len(child) - 1 \in 0 .. Len(child)
      BY <1>1, <2>3
    <3>2. SubSeq(parent, 1, k) = SubSeq(child, 1, k)
      BY <1>1, <3>1, PrefixOf
    <3>3. SubSeq(parent, 1, k) \in DOMAIN t
      BY <3>1 DEF WellFormed
    <3> QED
      BY <2>3, <3>2, <3>3
  <2> QED
    BY <2>1, <2>2, <2>3
<1>4. ASSUME NEW c \in DOMAIN t, Siblings(c, child) PROVE FALSE
  <2>1. /\ c \in Seq(Piece) /\ Len(c) = Len(child)
        /\ Kind(LastOf(c)) \in {"param", "wild"} /\ Kind(LastOf(child)) \in {"param", "wild"}
    <3>1. c \in Seq(Piece) /\ Len(c) = Len(child)
      BY <1>4 DEF WellFormed, Siblings
    <3>2. LastOf(c) \in Piece /\ LastOf(child) \in Piece
      BY <3>1 DEF LastOf
    <3>3. \A x \in Piece : Kind(x) \in {"static", "param", "wild"}
      BY DEF Piece, Kind
    <3> QED
      BY <1>4, <3>1, <3>2, <3>3 DEF Siblings
  <2>2. c \in Children(t, parent)
    <3>1. SubSeq(c, 1, Len(c) - 1) = parent
      BY <1>4, <2>1 DEF Siblings
    <3>2. Len(parent) = Len(c) - 1 /\ Len(c) = Len(parent) + 1
      BY <1>1, <2>1
    <3> HIDE DEF parent
    <3> QED
      BY <3>1, <3>2 DEF Children
  <2>3. c \in ChildrenOf(t, parent, Kind(LastOf(c)))
    BY <2>2 DEF ChildrenOf
  <2>4. LastOf(c) = LastOf(child)
    <3>1. ASSUME NEW d \in ChildrenOf(t, parent, Kind(LastOf(child)))
          PROVE  LastOf(d) = LastOf(child)
      BY <2>1, <3>1 DEF Conflicts
    <3>2. CASE Kind(LastOf(c)) = Kind(LastOf(child))
      BY <2>3, <3>1, <3>2
    <3>3. CASE Kind(LastOf(c)) # Kind(LastOf(child))
      <4>1. PICK d : d \in ChildrenOf(t, parent, Kind(LastOf(child)))
        BY <2>1, <2>3, <3>3 DEF Conflicts
      <4>2. LastOf(d) = LastOf(child) /\ d \in DOMAIN t /\ Len(d) = Len(child)
            /\ SubSeq(d, 1, Len(child) - 1) = parent
        BY <1>1, <3>1, <4>1 DEF ChildrenOf, Children
      <4>3. d = child
        BY <1>1, <4>2, NodeOfParent DEF WellFormed
      <4> QED
        BY <4>2, <4>3
    <3> QED
      BY <3>2, <3>3
  <2>5. c = child
    BY <1>1, <1>4, <2>1, <2>4, NodeOfParent DEF Siblings
  <2> QED
    BY <2>5
<1>5. \A c, d \in nodes : Siblings(c, d) => c = d
  <2>1. \A c : Siblings(child, c) => Siblings(c, child)
    BY DEF Siblings
  <2> QED
    BY <1>4, <2>1 DEF WellFormed
<1> QED
  BY <1>2, <1>3, <1>5 DEF WellFormed

\* The trie with more nodes, which have no pattern
Extended(t, more) == [n \in DOMAIN t \cup more |-> IF n \in DOMAIN t THEN t[n] ELSE NoRoute]

Deeper(more, parts, height) == more \cup {SubSeq(parts, 1, height)}

\* The walk has made the nodes more and goes on, or has stopped at a conflict.
Going(t, more)  == [trie |-> Extended(t, more), failed |-> FALSE]
Halted(t, more) == [trie |-> Extended(t, more), failed |-> TRUE]

Clash(t, more, parts, height) ==
    Conflicts(Extended(t, more), SubSeq(parts, 1, height - 1), parts[height])

\* A walk that has stopped makes no more nodes.
LEMMA WalkOver ==
    ASSUME NEW t, NEW more, NEW parts, NEW height
    PROVE  Descend(Halted(t, more), parts, height) = Halted(t, more)
BY DEF Descend, Halted

\* A conflict stops the walk, with the nodes it has made.
LEMMA WalkHalts ==
    ASSUME NEW t, NEW more, NEW parts, NEW height, Clash(t, more, parts, height)
    PROVE  Descend(Going(t, more), parts, height) = Halted(t, more)
<1> DEFINE st == Going(t, more)
<1>1. st.trie = Extended(t, more) /\ ~st.failed
  BY DEF Going
<1>2. Descend(st, parts, height) = [st EXCEPT !.failed = TRUE]
  BY <1>1 DEF Descend, Clash
<1>3. [st EXCEPT !.failed = TRUE] = Halted(t, more)
  <2>1. ASSUME NEW trie, NEW b, NEW c
        PROVE  [[trie |-> trie, failed |-> b] EXCEPT !.failed = c] = [trie |-> trie, failed |-> c]
    OBVIOUS
  <2> QED
    BY <2>1, Zenon DEF Going, Halted
<1> QED
  BY <1>2, <1>3

\* A level without a conflict: the walk makes the node, if it is not there.
LEMMA WalkOn ==
    ASSUME NEW t, NEW more, NEW parts, NEW height, ~Clash(t, more, parts, height)
    PROVE  Descend(Going(t, more), parts, height) = Going(t, Deeper(more, parts, height))
<1> DEFINE child == SubSeq(parts, 1, height)
           st    == Going(t, more)
<1>1. /\ st.trie = Extended(t, more) /\ ~st.failed
      /\ DOMAIN Extended(t, more) = DOMAIN t \cup more
  BY DEF Going, Extended
<1>2. CASE child \in DOMAIN t \cup more
  <2>1. Descend(st, parts, height) = st
    BY <1>1, <1>2 DEF Descend, Clash
  <2>2. Extended(t, more) = Extended(t, more \cup {child})
    <3>1. DOMAIN t \cup more = DOMAIN t \cup (more \cup {child})
      BY <1>2
    <3> QED
      BY <3>1 DEF Extended
  <2> QED
    BY <2>1, <2>2 DEF Going, Deeper
<1>3. CASE child \notin DOMAIN t \cup more
  <2> DEFINE grown == [n \in (DOMAIN t \cup more) \cup {child} |->
                          IF n = child THEN NoRoute ELSE Extended(t, more)[n]]
  <2>1. Descend(st, parts, height) = [st EXCEPT !.trie = grown]
    BY <1>1, <1>3 DEF Descend, Clash
  <2>2. grown = Extended(t, Deeper(more, parts, height))
    BY <1>3 DEF Extended, Deeper
  <2> HIDE DEF grown
  <2>3. [st EXCEPT !.trie = grown] = [trie |-> grown, failed |-> FALSE]
    <3>1. ASSUME NEW trie, NEW b, NEW c
          PROVE  [[trie |-> trie, failed |-> b] EXCEPT !.trie = c] = [trie |-> c, failed |-> b]
      OBVIOUS
    <3> QED
      BY <3>1, Zenon DEF Going
  <2> QED
    BY <2>1, <2>2, <2>3, Zenon DEF Going
<1> QED
  BY <1>2, <1>3

WalkStates(t, parts) ==
    {Going(t, more) : more \in SUBSET Prefixes(parts)}
        \cup {Halted(t, more) : more \in SUBSET Prefixes(parts)}

\* The walk goes through states of these two kinds.
LEMMA WalkStays ==
    ASSUME NEW t, NEW parts, NEW n \in 1 .. Len(parts), NEW st \in WalkStates(t, parts)
    PROVE  Descend(st, parts, n) \in WalkStates(t, parts)
<1>1. ASSUME NEW more \in SUBSET Prefixes(parts)
      PROVE  /\ Going(t, more) \in WalkStates(t, parts)
             /\ Halted(t, more) \in WalkStates(t, parts)
             /\ Deeper(more, parts, n) \in SUBSET Prefixes(parts)
  BY DEF WalkStates, Deeper, Prefixes
<1>2. ASSUME NEW more \in SUBSET Prefixes(parts), st = Halted(t, more)
      PROVE  Descend(st, parts, n) \in WalkStates(t, parts)
  BY <1>1, <1>2, WalkOver
<1>3. ASSUME NEW more \in SUBSET Prefixes(parts), st = Going(t, more)
      PROVE  Descend(st, parts, n) \in WalkStates(t, parts)
  <2>1. CASE Clash(t, more, parts, n)
    BY <1>1, <1>3, <2>1, WalkHalts
  <2>2. CASE ~Clash(t, more, parts, n)
    BY <1>1, <1>3, <2>2, WalkOn
  <2> QED
    BY <2>1, <2>2
<1> QED
  BY <1>2, <1>3 DEF WalkStates

\* f holds what insert's walk has made after each part.
Walks(f, t, parts) ==
    /\ f[0] = [trie |-> t, failed |-> FALSE]
    /\ \A height \in 1 .. Len(parts) : f[height] = Descend(f[height - 1], parts, height)

\* insert is the walk over the parts, followed by what it does at the last node.
LEMMA InsertWalks ==
    ASSUME NEW t, t = [n \in DOMAIN t |-> t[n]], NEW S, NEW parts \in Seq(S), NEW route
    PROVE  \E f : /\ Walks(f, t, parts)
                  /\ Insert(t, parts, route) =
                        LET end == f[Len(parts)]
                        IN  IF end.failed THEN end
                            ELSE IF end.trie[parts] # NoRoute THEN [end EXCEPT !.failed = TRUE]
                            ELSE [end EXCEPT !.trie[parts] = route]
<1> DEFINE N == Len(parts)
           start == [trie |-> t, failed |-> FALSE]
           all == WalkStates(t, parts)
           next(n, st) == Descend(st, parts, n)
           g == [n \in 1 .. N |-> [st \in all |-> next(n, st)]]
           Steps(f) == f = [n \in 0 .. N |-> IF n = 0 THEN start ELSE next(n, f[n - 1])]
           at == CHOOSE f : Steps(f)
<1>1. N \in Nat
  OBVIOUS
<1>2. start \in all
  <2>1. Extended(t, {}) = t
    BY DEF Extended
  <2>2. start = Going(t, {})
    BY <2>1 DEF Going
  <2> QED
    BY <2>2 DEF WalkStates
<1>3. ASSUME NEW n \in 1 .. N, NEW st \in all PROVE next(n, st) \in all
  BY WalkStays
<1>4. Insert(t, parts, route) =
         LET end == at[N]
         IN  IF end.failed THEN end
             ELSE IF end.trie[parts] # NoRoute THEN [end EXCEPT !.failed = TRUE]
             ELSE [end EXCEPT !.trie[parts] = route]
  BY DEF Insert
<1> HIDE DEF N, start, all, next
<1>5. g \in Makers(N, all)
  BY <1>3 DEF Makers
<1>6. ASSUME NEW n \in 1 .. N, NEW st \in all PROVE g[n][st] = next(n, st)
  OBVIOUS
<1> HIDE DEF g
<1>7. PICK f \in [0 .. N -> all] : f[0] = start /\ MadeBy(f, N, g)
  BY <1>1, <1>2, <1>5, Iteration
<1>8. Steps(f)
  <2>1. ASSUME NEW n \in 0 .. N PROVE f[n] = IF n = 0 THEN start ELSE next(n, f[n - 1])
    <3>1. n # 0 => n \in 1 .. N /\ f[n - 1] \in all
      BY <1>1
    <3> QED
      BY <1>6, <1>7, <3>1 DEF MadeBy
  <2> QED
    BY <2>1
<1>9. Steps(at)
  BY <1>8
<1> HIDE DEF at
<1>10. at[0] = start /\ \A n \in 1 .. N : at[n] = next(n, at[n - 1])
  <2>1. \A n \in 0 .. N : at[n] = IF n = 0 THEN start ELSE next(n, at[n - 1])
    BY <1>9
  <2> QED
    BY <1>1, <2>1
<1>11. Walks(at, t, parts)
  BY <1>10 DEF Walks, N, start, next
<1> HIDE DEF Steps
<1> QED
  BY <1>4, <1>11 DEF N

\* The route is put at the end of the parts.
Placed(t, more, parts, route) ==
    [trie   |-> [n \in DOMAIN t \cup more |-> IF n = parts THEN route ELSE Extended(t, more)[n]],
     failed |-> FALSE]

\* What the walk has done after k parts
WalkedTo(k, st, t, more, parts) ==
    /\ WellFormed(DOMAIN t \cup more) /\ more \subseteq Prefixes(parts)
    /\ \/ /\ st = Going(t, more) /\ SubSeq(parts, 1, k) \in DOMAIN t \cup more
          /\ \A m \in more : Len(m) <= k
       \/ st = Halted(t, more) /\ \A m \in more : Len(m) < Len(parts)

\* One more level keeps the trie well-formed: the new node fits.
LEMMA WalkedOn ==
    ASSUME NEW t, NEW parts \in Seq(Piece), WildLast(parts),
           NEW k \in 0 .. Len(parts) - 1, NEW more, NEW st, WalkedTo(k, st, t, more, parts)
    PROVE  \E deeper : WalkedTo(k + 1, Descend(st, parts, k + 1), t, deeper, parts)
<1> DEFINE parent == SubSeq(parts, 1, k)
           child  == SubSeq(parts, 1, k + 1)
<1>1. /\ Len(parts) \in Nat /\ k \in 0 .. Len(parts) /\ k + 1 \in 0 .. Len(parts)
      /\ k \in Nat /\ k + 1 \in 1 .. Len(parts) /\ (k + 1) - 1 = k
  OBVIOUS
<1>2. /\ child \in Seq(Piece) /\ Len(child) = k + 1 /\ SubSeq(child, 1, k) = parent
      /\ LastOf(child) = parts[k + 1]
  <2>1. /\ child \in Seq(Piece) /\ Len(child) = k + 1
        /\ \A i \in 1 .. k + 1 : child[i] = parts[i]
        /\ \A j \in 0 .. k + 1 : SubSeq(child, 1, j) = SubSeq(parts, 1, j)
    BY <1>1, PrefixOf
  <2> QED
    BY <1>1, <2>1 DEF LastOf
<1>3. WildLast(child)
  <2>1. \A i \in 1 .. k + 1 : child[i] = parts[i]
    BY <1>1, PrefixOf
  <2> QED
    BY <1>1, <1>2, <2>1 DEF WildLast
<1>4. child \in Prefixes(parts)
  BY <1>1 DEF Prefixes
<1>5. DOMAIN Extended(t, more) = DOMAIN t \cup more
  BY DEF Extended
<1>6. \A m \in more : Len(m) \in Nat
  BY DEF WalkedTo, WellFormed
<1> HIDE DEF parent, child
<1>7. CASE st = Halted(t, more) /\ \A m \in more : Len(m) < Len(parts)
  <2>1. Descend(st, parts, k + 1) = st
    BY <1>7, WalkOver
  <2>2. WalkedTo(k + 1, Descend(st, parts, k + 1), t, more, parts)
    BY <1>7, <2>1 DEF WalkedTo
  <2> QED
    BY <2>2
<1>8. CASE /\ st = Going(t, more) /\ parent \in DOMAIN t \cup more
           /\ \A m \in more : Len(m) <= k
  <2>1. CASE Clash(t, more, parts, k + 1)
    <3>1. Descend(st, parts, k + 1) = Halted(t, more)
      BY <1>8, <2>1, WalkHalts
    <3>2. \A m \in more : Len(m) < Len(parts)
      BY <1>1, <1>6, <1>8
    <3>3. WalkedTo(k + 1, Descend(st, parts, k + 1), t, more, parts)
      BY <3>1, <3>2 DEF WalkedTo
    <3> QED
      BY <3>3
  <2>2. CASE ~Clash(t, more, parts, k + 1)
    <3> DEFINE deeper == Deeper(more, parts, k + 1)
    <3>1. Descend(st, parts, k + 1) = Going(t, deeper)
      BY <1>8, <2>2, WalkOn
    <3>2. deeper = more \cup {child} /\ DOMAIN t \cup deeper = (DOMAIN t \cup more) \cup {child}
      BY DEF Deeper, child
    <3> HIDE DEF deeper
    <3>3. WellFormed(DOMAIN t \cup deeper)
      <4>1. CASE child \in DOMAIN t \cup more
        <5>1. DOMAIN t \cup deeper = DOMAIN t \cup more
          BY <3>2, <4>1
        <5> QED
          BY <5>1 DEF WalkedTo
      <4>2. CASE child \notin DOMAIN t \cup more
        <5> DEFINE u == Extended(t, more)
        <5>1. ~Conflicts(u, parent, LastOf(child))
          BY <1>1, <1>2, <2>2 DEF Clash, parent
        <5>2. WellFormed(DOMAIN u)
          BY <1>5 DEF WalkedTo
        <5>3. SubSeq(child, 1, Len(child) - 1) = parent /\ Len(child) > 0
          BY <1>1, <1>2
        <5> HIDE DEF u
        <5>4. DOMAIN u = DOMAIN t \cup more
          BY <1>5 DEF u
        <5>5. WellFormed(DOMAIN u \cup {child})
          BY <1>2, <1>3, <1>8, <4>2, <5>1, <5>2, <5>3, <5>4, NodeFits
        <5> QED
          BY <3>2, <5>4, <5>5
      <4> QED
        BY <4>1, <4>2
    <3>4. \A m \in deeper : Len(m) <= k + 1
      BY <1>1, <1>2, <1>6, <1>8, <3>2
    <3>5. child \in DOMAIN t \cup deeper /\ deeper \subseteq Prefixes(parts)
      BY <1>4, <3>2 DEF WalkedTo
    <3>6. WalkedTo(k + 1, Going(t, deeper), t, deeper, parts)
      BY <3>3, <3>4, <3>5 DEF WalkedTo, child
    <3> QED
      BY <3>1, <3>6
  <2> QED
    BY <2>1, <2>2
<1> QED
  BY <1>7, <1>8 DEF WalkedTo, parent

\* What insert has done: nodes on the way to the parts are new, and the route is
\* at the end of it, or insert has failed and the last node is not new.
Inserted(r, t, more, parts, route) ==
    /\ WellFormed(DOMAIN t \cup more) /\ more \subseteq Prefixes(parts)
    /\ \/ r = Halted(t, more) /\ (parts \in more => parts \in DOMAIN t)
       \/ /\ r = Placed(t, more, parts, route)
          /\ parts \in DOMAIN t \cup more
          /\ parts \in DOMAIN t => t[parts] = NoRoute

\* insert ends in one of its two ways: halted in a trie with more nodes, or with the route
\* in its place.
LEMMA InsertResult ==
    ASSUME NEW t, TrieOK(t), NEW parts \in Seq(Piece), WildLast(parts), NEW route
    PROVE  \E more : Inserted(Insert(t, parts, route), t, more, parts, route)
<1>1. t = [n \in DOMAIN t |-> t[n]] /\ WellFormed(DOMAIN t)
  BY DEF TrieOK
<1>2. PICK f : /\ Walks(f, t, parts)
               /\ Insert(t, parts, route) =
                     LET end == f[Len(parts)]
                     IN  IF end.failed THEN end
                         ELSE IF end.trie[parts] # NoRoute THEN [end EXCEPT !.failed = TRUE]
                         ELSE [end EXCEPT !.trie[parts] = route]
  BY <1>1, InsertWalks
<1> DEFINE Here(k, more) == WalkedTo(k, f[k], t, more, parts)
           P == {k \in 0 .. Len(parts) : \E more : Here(k, more)}
<1>3. 0 \in P
  <2>1. Extended(t, {}) = t /\ DOMAIN t \cup {} = DOMAIN t
    BY <1>1 DEF Extended
  <2>2. f[0] = Going(t, {})
    BY <1>2, <2>1 DEF Walks, Going
  <2>3. SubSeq(parts, 1, 0) = <<>>
    OBVIOUS
  <2>4. <<>> \in DOMAIN t
    BY <1>1 DEF WellFormed
  <2>5. Here(0, {})
    BY <1>1, <2>1, <2>2, <2>3, <2>4 DEF WalkedTo
  <2> HIDE DEF Here
  <2> QED
    BY <2>5
<1>4. ASSUME NEW k \in 0 .. Len(parts) - 1, k \in P PROVE k + 1 \in P
  <2>1. PICK more : Here(k, more)
    <3> HIDE DEF Here
    <3> QED
      BY <1>4
  <2>2. f[k + 1] = Descend(f[k], parts, k + 1)
    <3>1. k + 1 \in 1 .. Len(parts) /\ (k + 1) - 1 = k
      OBVIOUS
    <3> QED
      BY <1>2, <3>1 DEF Walks
  <2>3. PICK deeper : Here(k + 1, deeper)
    BY <2>1, <2>2, WalkedOn
  <2>4. k + 1 \in 0 .. Len(parts)
    OBVIOUS
  <2> HIDE DEF Here
  <2> QED
    BY <2>3, <2>4
<1>5. Len(parts) \in Nat
  OBVIOUS
<1>6. 0 .. Len(parts) \subseteq P
  <2> HIDE DEF P
  <2> QED
    BY <1>3, <1>4, <1>5, UpTo
<1>7. PICK more : Here(Len(parts), more)
  <2>1. Len(parts) \in P
    BY <1>5, <1>6
  <2> HIDE DEF Here
  <2> QED
    BY <2>1
<1> DEFINE end == f[Len(parts)]
           r   == Insert(t, parts, route)
<1>8. r = IF end.failed THEN end
          ELSE IF end.trie[parts] # NoRoute THEN [end EXCEPT !.failed = TRUE]
          ELSE [end EXCEPT !.trie[parts] = route]
  BY <1>2
<1>9. SubSeq(parts, 1, Len(parts)) = parts
  BY Whole
<1>10. WellFormed(DOMAIN t \cup more) /\ more \subseteq Prefixes(parts)
  BY <1>7 DEF WalkedTo
<1> HIDE DEF r
<1>11. CASE end = Halted(t, more) /\ \A m \in more : Len(m) < Len(parts)
  <2>1. r = Halted(t, more)
    <3>1. end.failed
      BY <1>11 DEF Halted
    <3> QED
      BY <1>8, <1>11, <3>1
  <2>2. parts \notin more
    BY <1>5, <1>11
  <2> QED
    BY <1>10, <2>1, <2>2 DEF Inserted, r
<1>12. CASE end = Going(t, more) /\ parts \in DOMAIN t \cup more
  <2> DEFINE u == Extended(t, more)
  <2>1. ~end.failed /\ end.trie = u /\ DOMAIN u = DOMAIN t \cup more
    BY <1>12 DEF Going, Extended
  <2>2. u[parts] = IF parts \in DOMAIN t THEN t[parts] ELSE NoRoute
    BY <1>12 DEF Extended
  <2>3. end = [trie |-> u, failed |-> FALSE]
    BY <1>12 DEF Going
  <2> HIDE DEF u, end
  <2>4. CASE u[parts] # NoRoute
    <3>1. r = [end EXCEPT !.failed = TRUE]
      BY <1>8, <2>1, <2>4
    <3>2. [end EXCEPT !.failed = TRUE] = [trie |-> u, failed |-> TRUE]
      <4>1. ASSUME NEW trie, NEW b, NEW c
            PROVE  [[trie |-> trie, failed |-> b] EXCEPT !.failed = c] = [trie |-> trie, failed |-> c]
        OBVIOUS
      <4> QED
        BY <2>3, <4>1, Zenon
    <3>3. r = Halted(t, more)
      BY <3>1, <3>2 DEF Halted, u
    <3> QED
      BY <1>10, <2>2, <2>4, <3>3 DEF Inserted, r
  <2>5. CASE u[parts] = NoRoute
    <3>1. r = [end EXCEPT !.trie[parts] = route]
      BY <1>8, <2>1, <2>5
    <3>2. [end EXCEPT !.trie[parts] = route]
             = [trie |-> [u EXCEPT ![parts] = route], failed |-> FALSE]
      <4>1. ASSUME NEW b, NEW e, e = [trie |-> u, failed |-> b]
            PROVE  [e EXCEPT !.trie[parts] = route]
                      = [trie |-> [u EXCEPT ![parts] = route], failed |-> b]
        <5>1. e.trie = u /\ e.failed = b
          BY <4>1
        <5>2. [e EXCEPT !.trie[parts] = route] = [e EXCEPT !.trie = [u EXCEPT ![parts] = route]]
          BY <5>1
        <5> QED
          BY <4>1, <5>2
      <4> QED
        BY <2>3, <4>1, Zenon
    <3>3. [u EXCEPT ![parts] = route]
             = [n \in DOMAIN t \cup more |-> IF n = parts THEN route ELSE u[n]]
      BY <2>1
    <3>4. r = Placed(t, more, parts, route)
      BY <3>1, <3>2, <3>3 DEF Placed, u
    <3> QED
      BY <1>10, <1>12, <2>2, <2>5, <3>4 DEF Inserted, r
  <2> QED
    BY <2>4, <2>5
<1> QED
  BY <1>7, <1>9, <1>11, <1>12 DEF WalkedTo

-----------------------------------------------------------------------------
(* The recursion of search *)

ParamChild(t, n) == CHOOSE c \in ChildrenOf(t, n, "param") : TRUE
WildChild(t, n)  == CHOOSE c \in ChildrenOf(t, n, "wild") : TRUE

\* The three branches of search below a node, f being what it computes below the
\* other nodes.
ViaStatic(t, match, f, n) ==
    LET static == Append(n, Parts(match)[Len(n) + 1])
    IN  IF static \in DOMAIN t THEN f[static] ELSE Miss
ViaWild(t, match, raw, n) ==
    IF ChildrenOf(t, n, "wild") = {} THEN Miss
    ELSE Hit(t[WildChild(t, n)], Bound(WildChild(t, n), Rest(match, raw, Len(n))))
SearchBelow(t, match, raw, f, n) ==
    IF Len(n) = Len(Parts(match))
    THEN IF t[n] # NoRoute THEN Hit(t[n], <<>>) ELSE ViaWild(t, match, raw, n)
    ELSE Branches(ViaStatic(t, match, f, n),
                  ChildrenOf(t, n, "param") # {},
                  Bound(ParamChild(t, n), Value(match, raw, Len(n))),
                  f[ParamChild(t, n)],
                  ViaWild(t, match, raw, n))

\* f is the function that search computes.
Computes(f, t, match, raw) == f = [n \in DOMAIN t |-> SearchBelow(t, match, raw, f, n)]

\* Search evaluates a function that computes every node from the nodes below it, when there
\* is one.
LEMMA SearchIsRecursive ==
    ASSUME NEW t, NEW match, NEW raw, \E f : Computes(f, t, match, raw)
    PROVE  \E f : Computes(f, t, match, raw) /\ Search(t, match, raw) = f[<<>>]
<1> DEFINE below == CHOOSE f : f = [n \in DOMAIN t |-> SearchBelow(t, match, raw, f, n)]
<1>1. below = [n \in DOMAIN t |-> SearchBelow(t, match, raw, below, n)]
  BY DEF Computes
<1>2. Search(t, match, raw) = below[<<>>]
  BY DEF Search, SearchBelow, ViaStatic, ViaWild, ParamChild, WildChild
<1>3. Computes(below, t, match, raw)
  BY <1>1 DEF Computes
<1> HIDE DEF below
<1> QED
  BY <1>2, <1>3

\* Append makes a sequence longer by one, whatever it appends.
LEMMA OneLonger ==
    ASSUME NEW n \in Seq(Piece), NEW x
    PROVE  Len(Append(n, x)) = Len(n) + 1
<1>1. n \in Seq(Piece \cup {x})
  OBVIOUS
<1> QED
  BY <1>1

\* The result at a node depends on the results at its children only.
LEMMA SearchLocal ==
    ASSUME NEW t, NEW match, NEW raw, NEW f, NEW g, NEW n \in Seq(Piece),
           \A c \in DOMAIN t : Len(c) = Len(n) + 1 => f[c] = g[c]
    PROVE  SearchBelow(t, match, raw, f, n) = SearchBelow(t, match, raw, g, n)
<1> DEFINE part   == Parts(match)[Len(n) + 1]
           params == ChildrenOf(t, n, "param")
<1>1. ViaStatic(t, match, f, n) = ViaStatic(t, match, g, n)
  BY OneLonger DEF ViaStatic
<1>2. params # {} => f[ParamChild(t, n)] = g[ParamChild(t, n)]
  <2>1. params # {} => ParamChild(t, n) \in params
    BY DEF ParamChild
  <2> QED
    BY <2>1 DEF ChildrenOf, Children
<1>3. CASE params # {}
  BY <1>1, <1>2, <1>3 DEF SearchBelow
<1>4. CASE params = {}
  BY <1>1, <1>4 DEF SearchBelow, Branches
<1> QED
  BY <1>3, <1>4

\* In a trie there is a function that computes every node from the nodes below it: search
\* ends.
LEMMA SearchDefined ==
    ASSUME NEW t, TrieOK(t), NEW match, NEW raw
    PROVE  \E f : Computes(f, t, match, raw) /\ Search(t, match, raw) = f[<<>>]
<1>1. PICK depth \in Nat : \A n \in DOMAIN t : Len(n) <= depth
  BY DEF TrieOK, WellFormed
<1>2. \A n \in DOMAIN t : n \in Seq(Piece) /\ Len(n) \in Nat
  BY DEF TrieOK, WellFormed
<1> DEFINE Good(f, k) == \A n \in DOMAIN t :
                            Len(n) + k > depth => f[n] = SearchBelow(t, match, raw, f, n)
           P == {k \in 0 .. depth + 1 : \E f : Good(f, k)}
<1>3. \A k \in 0 .. depth + 1 : k \in P <=> \E f : Good(f, k)
  <2> HIDE DEF Good
  <2> QED
    OBVIOUS
<1> HIDE DEF P
<1>4. 0 \in P
  <2>1. Good(<<>>, 0)
    BY <1>1, <1>2
  <2> HIDE DEF Good
  <2> QED
    BY <2>1, <1>3
<1>5. ASSUME NEW k \in 0 .. depth, k \in P PROVE k + 1 \in P
  <2>1. PICK f : Good(f, k)
    <3> HIDE DEF Good
    <3> QED
      BY <1>5, <1>3
  <2> DEFINE g == [n \in DOMAIN t |-> SearchBelow(t, match, raw, f, n)]
  <2>2. Good(g, k + 1)
    <3> SUFFICES ASSUME NEW n \in DOMAIN t, Len(n) + (k + 1) > depth
                 PROVE  g[n] = SearchBelow(t, match, raw, g, n)
      OBVIOUS
    <3>1. ASSUME NEW c \in DOMAIN t, Len(c) = Len(n) + 1 PROVE f[c] = g[c]
      <4>1. Len(c) + k > depth
        BY <3>1, <1>2
      <4> QED
        BY <4>1, <2>1
    <3>2. SearchBelow(t, match, raw, f, n) = SearchBelow(t, match, raw, g, n)
      <4> HIDE DEF g
      <4> QED
        BY <3>1, <1>2, SearchLocal
    <3> QED
      BY <3>2
  <2> HIDE DEF Good, g
  <2> QED
    BY <2>2, <1>3
<1>6. depth + 1 \in P
  <2>1. 0 .. depth + 1 \subseteq P
    <3> HIDE DEF Good
    <3> QED
      BY <1>4, <1>5, UpTo
  <2> QED
    BY <2>1
<1>7. PICK f : Good(f, depth + 1)
  <2> HIDE DEF Good
  <2> QED
    BY <1>6, <1>3
<1> DEFINE h == [n \in DOMAIN t |-> f[n]]
<1>8. ASSUME NEW n \in DOMAIN t PROVE h[n] = SearchBelow(t, match, raw, h, n)
  <2>1. f[n] = SearchBelow(t, match, raw, f, n)
    BY <1>1, <1>2, <1>7
  <2>2. \A c \in DOMAIN t : f[c] = h[c]
    OBVIOUS
  <2>3. SearchBelow(t, match, raw, f, n) = SearchBelow(t, match, raw, h, n)
    <3> HIDE DEF h
    <3> QED
      BY <2>2, <1>2, SearchLocal
  <2> QED
    BY <2>1, <2>3
<1>9. Computes(h, t, match, raw)
  <2>1. h = [n \in DOMAIN t |-> h[n]]
    OBVIOUS
  <2> HIDE DEF h
  <2> QED
    BY <1>8, <2>1 DEF Computes
<1> HIDE DEF h
<1> QED
  BY <1>9, SearchIsRecursive

\* What holds at a node when it holds at its children holds at every node.
LEMMA Downward ==
    ASSUME NEW t, TrieOK(t), NEW Q,
           \A n \in DOMAIN t :
              (\A c \in DOMAIN t : Len(c) = Len(n) + 1 => c \in Q) => n \in Q
    PROVE  DOMAIN t \subseteq Q
<1>1. PICK depth \in Nat : \A n \in DOMAIN t : Len(n) <= depth
  BY DEF TrieOK, WellFormed
<1>2. \A n \in DOMAIN t : Len(n) \in Nat
  BY DEF TrieOK, WellFormed
<1> DEFINE P == {k \in 0 .. depth + 1 : \A n \in DOMAIN t : Len(n) + k > depth => n \in Q}
<1>3. 0 \in P
  BY <1>1, <1>2
<1>4. ASSUME NEW k \in 0 .. depth, k \in P PROVE k + 1 \in P
  <2>1. ASSUME NEW n \in DOMAIN t, Len(n) + (k + 1) > depth PROVE n \in Q
    <3>1. ASSUME NEW c \in DOMAIN t, Len(c) = Len(n) + 1 PROVE c \in Q
      BY <1>2, <1>4, <2>1, <3>1
    <3> QED
      BY <3>1
  <2> QED
    BY <2>1
<1>5. depth + 1 \in P
  <2>1. 0 .. depth + 1 \subseteq P
    <3> HIDE DEF P
    <3> QED
      BY <1>3, <1>4, UpTo
  <2> HIDE DEF P
  <2> QED
    BY <2>1
<1> QED
  BY <1>2, <1>5

IsResult(r) == r = [found |-> r.found, params |-> r.params]

\* The route found is that of the first of the three branches that has one.
LEMMA BranchesFound ==
    ASSUME NEW static, IsResult(static), NEW hasParam, NEW bound, NEW param,
           hasParam => IsResult(param), NEW wild, IsResult(wild)
    PROVE  LET r == Branches(static, hasParam, bound, param, wild)
           IN  /\ IsResult(r)
               /\ r.found = IF static.found # {} THEN static.found
                            ELSE IF hasParam /\ param.found # {} THEN param.found
                            ELSE wild.found
<1>1. ASSUME NEW p, NEW r, IsResult(r)
      PROVE  After(p, r) = [found |-> r.found, params |-> p \o r.params]
  <2>1. ASSUME NEW a, NEW b
        PROVE  After(p, [found |-> a, params |-> b]) = [found |-> a, params |-> p \o b]
    <3>1. ASSUME NEW c
          PROVE  [[found |-> a, params |-> b] EXCEPT !.params = c] = [found |-> a, params |-> c]
      OBVIOUS
    <3> DEFINE e == [found |-> a, params |-> b]
    <3>2. e.params = b
      OBVIOUS
    <3>3. [e EXCEPT !.params = p \o e.params] = [found |-> a, params |-> p \o e.params]
      BY <3>1
    <3> HIDE DEF e
    <3>4. After(p, e) = [found |-> a, params |-> p \o b]
      BY <3>2, <3>3 DEF After
    <3> QED
      BY <3>4 DEF e
  <2> QED
    BY <1>1, <2>1 DEF IsResult
<1>2. CASE static.found # {}
  BY <1>2 DEF Branches
<1>3. CASE static.found = {} /\ hasParam /\ param.found # {}
  <2>1. After(static.params \o bound, param)
          = [found |-> param.found, params |-> (static.params \o bound) \o param.params]
    BY <1>1, <1>3
  <2> QED
    BY <1>3, <2>1 DEF Branches, IsResult
<1>4. CASE static.found = {} /\ ~(hasParam /\ param.found # {})
  <2>1. After(static.params, wild) = [found |-> wild.found, params |-> static.params \o wild.params]
    BY <1>1
  <2>2. Branches(static, hasParam, bound, param, wild) = After(static.params, wild)
    BY <1>4 DEF Branches
  <2> QED
    BY <1>4, <2>1, <2>2 DEF IsResult
<1> QED
  BY <1>2, <1>3, <1>4

\* What search finds below a node
FoundBelow(t, match, f, n) ==
    LET static == ViaStatic(t, match, f, n).found
        param  == IF ChildrenOf(t, n, "param") = {} THEN {} ELSE f[ParamChild(t, n)].found
        wild   == IF ChildrenOf(t, n, "wild") = {} THEN {} ELSE {t[WildChild(t, n)]}
    IN  IF Len(n) = Len(Parts(match))
        THEN IF t[n] # NoRoute THEN {t[n]} ELSE wild
        ELSE IF static # {} THEN static ELSE IF param # {} THEN param ELSE wild

\* The route found below a node is FoundBelow, whatever the parameters are.
LEMMA BelowFound ==
    ASSUME NEW t, TrieOK(t), NEW match, NEW raw, NEW f, NEW n \in DOMAIN t,
           \A c \in DOMAIN t : Len(c) = Len(n) + 1 => IsResult(f[c])
    PROVE  /\ IsResult(SearchBelow(t, match, raw, f, n))
           /\ SearchBelow(t, match, raw, f, n).found = FoundBelow(t, match, f, n)
<1> DEFINE static == ViaStatic(t, match, f, n)
           param  == f[ParamChild(t, n)]
           wild   == ViaWild(t, match, raw, n)
           there  == ChildrenOf(t, n, "param") # {}
           bound  == Bound(ParamChild(t, n), Value(match, raw, Len(n)))
           r      == SearchBelow(t, match, raw, f, n)
<1>1. n \in Seq(Piece)
  BY DEF TrieOK, WellFormed
<1>2. IsResult(static)
  BY <1>1, OneLonger DEF ViaStatic, Miss, IsResult
<1>3. there => IsResult(param)
  <2>1. there => ParamChild(t, n) \in ChildrenOf(t, n, "param")
    BY DEF ParamChild
  <2> QED
    BY <2>1 DEF ChildrenOf, Children
<1>4. /\ IsResult(wild)
      /\ wild.found = IF ChildrenOf(t, n, "wild") = {} THEN {} ELSE {t[WildChild(t, n)]}
  BY DEF ViaWild, Miss, Hit, IsResult
<1>5. CASE Len(n) = Len(Parts(match))
  <2>1. r = IF t[n] # NoRoute THEN Hit(t[n], <<>>) ELSE wild
    BY <1>5 DEF SearchBelow
  <2> HIDE DEF r, wild
  <2>2. CASE t[n] # NoRoute
    BY <1>5, <2>1, <2>2 DEF Hit, IsResult, r, FoundBelow
  <2>3. CASE t[n] = NoRoute
    BY <1>4, <1>5, <2>1, <2>3 DEF r, FoundBelow
  <2> QED
    BY <2>2, <2>3
<1>6. CASE Len(n) # Len(Parts(match))
  <2>1. r = Branches(static, there, bound, param, wild)
    BY <1>6 DEF SearchBelow
  <2> HIDE DEF r, wild, static, param, there, bound
  <2>2. /\ IsResult(r)
        /\ r.found = IF static.found # {} THEN static.found
                     ELSE IF there /\ param.found # {} THEN param.found
                     ELSE wild.found
    BY <1>2, <1>3, <1>4, <2>1, BranchesFound
  <2> USE DEF r, static, param, there
  <2> QED
    BY <1>4, <1>6, <2>2 DEF FoundBelow
<1> QED
  BY <1>5, <1>6

\* The path that values are cut from does not change which route is found.
LEMMA FoundWithoutRaw ==
    ASSUME NEW t, TrieOK(t), NEW match, NEW raw1, NEW raw2
    PROVE  Search(t, match, raw1).found = Search(t, match, raw2).found
<1>1. PICK f : Computes(f, t, match, raw1) /\ Search(t, match, raw1) = f[<<>>]
  BY SearchDefined
<1>2. PICK g : Computes(g, t, match, raw2) /\ Search(t, match, raw2) = g[<<>>]
  BY SearchDefined
<1> DEFINE Q == {n \in DOMAIN t : IsResult(f[n]) /\ IsResult(g[n]) /\ f[n].found = g[n].found}
<1>3. ASSUME NEW n \in DOMAIN t, \A c \in DOMAIN t : Len(c) = Len(n) + 1 => c \in Q
      PROVE  n \in Q
  <2>1. f[n] = SearchBelow(t, match, raw1, f, n) /\ g[n] = SearchBelow(t, match, raw2, g, n)
    BY <1>1, <1>2 DEF Computes
  <2>2. ViaStatic(t, match, f, n).found = ViaStatic(t, match, g, n).found
    BY <1>3, OneLonger DEF ViaStatic, Miss, TrieOK, WellFormed
  <2>3. ChildrenOf(t, n, "param") # {} => f[ParamChild(t, n)].found = g[ParamChild(t, n)].found
    <3>1. ChildrenOf(t, n, "param") # {} => ParamChild(t, n) \in ChildrenOf(t, n, "param")
      BY DEF ParamChild
    <3>2. ChildrenOf(t, n, "param") # {} => ParamChild(t, n) \in Q
      <4> HIDE DEF Q
      <4> QED
        BY <1>3, <3>1 DEF ChildrenOf, Children
    <3> QED
      BY <3>2
  <2>4. \A c \in DOMAIN t : Len(c) = Len(n) + 1 => IsResult(f[c]) /\ IsResult(g[c])
    BY <1>3
  <2>5. IsResult(f[n]) /\ f[n].found = FoundBelow(t, match, f, n)
    BY <2>1, <2>4, BelowFound
  <2>6. IsResult(g[n]) /\ g[n].found = FoundBelow(t, match, g, n)
    BY <2>1, <2>4, BelowFound
  <2>7. FoundBelow(t, match, f, n) = FoundBelow(t, match, g, n)
    BY <2>2, <2>3 DEF FoundBelow
  <2> QED
    BY <2>5, <2>6, <2>7
<1>4. DOMAIN t \subseteq Q
  <2> HIDE DEF Q
  <2> QED
    BY <1>3, Downward
<1>5. <<>> \in DOMAIN t
  BY DEF TrieOK, WellFormed
<1> QED
  BY <1>1, <1>2, <1>4, <1>5

-----------------------------------------------------------------------------
(* The values that a route's parameters have *)

Binding == [name : STRING, value : Seq(Piece)]

\* The value of the n-th part of a route
BoundValue(route, path, n) ==
    IF Kind(route[n]) = "param" THEN <<Parts(path)[n]>> ELSE Rest(path, path, n - 1)

\* b lists the bindings of the beginnings of the route.
Binds(b, route, path) ==
    /\ b \in [0 .. Len(route) -> Seq(Binding)]
    /\ b[0] = <<>>
    /\ \A n \in 1 .. Len(route) :
          b[n] = IF Kind(route[n]) = "static" THEN b[n - 1]
                 ELSE Append(b[n - 1], [name  |-> Text(route[n]),
                                        value |-> BoundValue(route, path, n)])
    /\ Bindings(route, path, path) = b[Len(route)]

\* The rest of a path after some of its parts is a path.
LEMMA RestType ==
    ASSUME NEW path \in Seq(Piece), NEW h \in Nat
    PROVE  Rest(path, path, h) \in Seq(Piece)
<1>1. Len(Parts(path)) \in Nat
  BY PartsType
<1>2. CASE h >= Len(Parts(path))
  <2>1. Index(path, h) = Len(path) + 1
    BY <1>2 DEF Index
  <2> QED
    BY <2>1 DEF Rest
<1>3. CASE ~(h >= Len(Parts(path)))
  <2>1. Index(path, h) \in 1 .. Len(path)
    BY <1>1, <1>3, PartAt
  <2> QED
    BY <2>1 DEF Rest
<1> QED
  BY <1>2, <1>3

\* A route that matches takes each of its values from the path.
LEMMA BindingsListed ==
    ASSUME NEW route \in Seq(Piece), NEW path \in Seq(Piece), Matches(route, Parts(path))
    PROVE  \E b : Binds(b, route, path)
<1> DEFINE N == Len(route)
           all == Seq(Binding)
           one(n) == [name |-> Text(route[n]), value |-> BoundValue(route, path, n)]
           next(n, st) == IF Kind(route[n]) = "static" THEN st ELSE Append(st, one(n))
           g == [n \in 1 .. N |-> [st \in all |-> next(n, st)]]
           Steps(f) == f = [n \in 0 .. N |-> IF n = 0 THEN <<>> ELSE next(n, f[n - 1])]
           at == CHOOSE f : Steps(f)
<1>1. N \in Nat
  OBVIOUS
<1>2. <<>> \in all
  OBVIOUS
<1>3. ASSUME NEW n \in 1 .. N, NEW st \in all PROVE next(n, st) \in all
  <2>1. Parts(path) \in Seq(Piece) /\ Len(Parts(path)) \in Nat
    BY PartsType
  <2>2. Kind(route[n]) = "param" => n \in 1 .. Len(Parts(path))
    BY <2>1 DEF Matches, IsWild, LastOf
  <2>3. BoundValue(route, path, n) \in Seq(Piece)
    <3>1. CASE Kind(route[n]) = "param"
      BY <2>1, <2>2, <3>1 DEF BoundValue
    <3>2. CASE Kind(route[n]) # "param"
      <4>1. n - 1 \in Nat
        OBVIOUS
      <4> QED
        BY <3>2, <4>1, RestType DEF BoundValue
    <3> QED
      BY <3>1, <3>2
  <2>4. route[n] \in Piece
    OBVIOUS
  <2>5. Text(route[n]) \in STRING
    BY <2>4 DEF Text, Piece
  <2>6. one(n) \in Binding
    BY <2>3, <2>5 DEF Binding
  <2> HIDE DEF one
  <2> QED
    BY <2>6
<1>4. Bindings(route, path, path) = at[N]
  BY DEF Bindings, BoundValue, Rest
<1> HIDE DEF N, all, next
<1>5. g \in Makers(N, all)
  BY <1>3 DEF Makers
<1>6. ASSUME NEW n \in 1 .. N, NEW st \in all PROVE g[n][st] = next(n, st)
  OBVIOUS
<1> HIDE DEF g
<1>7. PICK f \in [0 .. N -> all] : f[0] = <<>> /\ MadeBy(f, N, g)
  BY <1>1, <1>2, <1>5, Iteration
<1>8. Steps(f)
  <2>1. ASSUME NEW n \in 0 .. N PROVE f[n] = IF n = 0 THEN <<>> ELSE next(n, f[n - 1])
    <3>1. n # 0 => n \in 1 .. N /\ f[n - 1] \in all
      BY <1>1
    <3> QED
      BY <1>6, <1>7, <3>1 DEF MadeBy
  <2> QED
    BY <2>1
<1>9. Steps(at)
  BY <1>8
<1> HIDE DEF at
<1>10. at[0] = <<>> /\ \A n \in 1 .. N : at[n] = next(n, at[n - 1])
  <2>1. \A n \in 0 .. N : at[n] = IF n = 0 THEN <<>> ELSE next(n, at[n - 1])
    BY <1>9
  <2> QED
    BY <1>1, <2>1
<1>11. at \in [0 .. N -> all]
  <2> DEFINE P == {n \in 0 .. N : at[n] \in all}
  <2>1. 0 \in P
    BY <1>1, <1>2, <1>10
  <2>2. ASSUME NEW n \in 0 .. N - 1, n \in P PROVE n + 1 \in P
    <3>1. n + 1 \in 1 .. N /\ (n + 1) - 1 = n /\ n + 1 \in 0 .. N
      BY <1>1
    <3> QED
      BY <1>3, <1>10, <2>2, <3>1
  <2>3. 0 .. N \subseteq P
    <3> HIDE DEF P
    <3> QED
      BY <1>1, <2>1, <2>2, UpTo
  <2>4. at = [n \in 0 .. N |-> at[n]]
    BY <1>9
  <2> QED
    BY <2>3, <2>4
<1> HIDE DEF Steps
<1> QED
  BY <1>4, <1>10, <1>11 DEF Binds, N, all, next

-----------------------------------------------------------------------------
(* The routes below a node *)

\* The parts of a request: no parameters
RequestParts == Seq({"static"} \X STRING)

\* The node matches the beginning of the path.
OnWay(n, parts) ==
    /\ Len(n) <= Len(parts) /\ ~IsWild(n)
    /\ \A i \in 1 .. Len(n) : Kind(n[i]) = "param" \/ n[i] = parts[i]

\* The routes below a node that match the path
RoutesBelow(t, n, parts) ==
    {r \in DOMAIN t : /\ t[r] # NoRoute /\ Matches(r, parts)
                      /\ Len(r) >= Len(n) /\ SubSeq(r, 1, Len(n)) = n}

\* The best route below a node, or none
Best(t, n, parts, best) ==
    /\ best \in RoutesBelow(t, n, parts)
    /\ \A r \in RoutesBelow(t, n, parts) \ {best} : Beats(best, r)

\* A child is its node with one more part.
LEMMA Child ==
    ASSUME NEW t, TrieOK(t), NEW n \in DOMAIN t, NEW c \in Children(t, n)
    PROVE  /\ c \in DOMAIN t /\ c \in Seq(Piece) /\ Len(c) = Len(n) + 1 /\ Len(n) \in Nat
           /\ SubSeq(c, 1, Len(n)) = n /\ LastOf(c) = c[Len(n) + 1] /\ LastOf(c) \in Piece
           /\ \A i \in 1 .. Len(n) : c[i] = n[i]
           /\ c = Append(n, LastOf(c))
<1>1. n \in Seq(Piece) /\ c \in DOMAIN t /\ c \in Seq(Piece)
  BY DEF Children, TrieOK, WellFormed
<1>2. Len(c) = Len(n) + 1 /\ SubSeq(c, 1, Len(n)) = n /\ Len(n) \in Nat
  BY <1>1 DEF Children
<1>3. LastOf(c) = c[Len(n) + 1] /\ LastOf(c) \in Piece
  BY <1>1, <1>2 DEF LastOf
<1>4. \A i \in 1 .. Len(n) : c[i] = n[i]
  <2>1. Len(n) \in 0 .. Len(c)
    BY <1>2
  <2>2. \A i \in 1 .. Len(n) : SubSeq(c, 1, Len(n))[i] = c[i]
    BY <1>1, <2>1, PrefixOf
  <2> QED
    BY <1>2, <2>2
<1>5. c = Append(n, LastOf(c))
  <2> DEFINE d == Append(n, LastOf(c))
  <2>1. d \in Seq(Piece) /\ Len(d) = Len(n) + 1 /\ d[Len(n) + 1] = LastOf(c)
        /\ \A i \in 1 .. Len(n) : d[i] = n[i]
    BY <1>1, <1>3
  <2> HIDE DEF d
  <2>2. \A i \in 1 .. Len(c) : c[i] = d[i]
    BY <1>2, <1>3, <1>4, <2>1
  <2>3. c = d
    BY <1>1, <1>2, <2>1, <2>2, SeqEqual
  <2> QED
    BY <2>3 DEF d
<1> QED
  BY <1>1, <1>2, <1>3, <1>4, <1>5

\* A node has one parameter and one wildcard at most, and never both.
LEMMA OneChild ==
    ASSUME NEW t, TrieOK(t), NEW n \in DOMAIN t,
           NEW c \in Children(t, n), NEW d \in Children(t, n),
           Kind(LastOf(c)) # "static", Kind(LastOf(d)) # "static"
    PROVE  c = d
<1>1. /\ c \in DOMAIN t /\ d \in DOMAIN t /\ Len(c) = Len(d) /\ Len(c) > 0
      /\ SubSeq(c, 1, Len(c) - 1) = n /\ SubSeq(d, 1, Len(c) - 1) = n
  <2>1. /\ c \in DOMAIN t /\ Len(c) = Len(n) + 1 /\ Len(n) \in Nat
        /\ SubSeq(c, 1, Len(n)) = n
    BY Child
  <2>2. d \in DOMAIN t /\ Len(d) = Len(n) + 1 /\ SubSeq(d, 1, Len(n)) = n
    BY Child
  <2>3. Len(c) - 1 = Len(n) /\ Len(c) = Len(d) /\ Len(c) > 0
    BY <2>1, <2>2
  <2> QED
    BY <2>1, <2>2, <2>3
<1>2. Siblings(c, d)
  BY <1>1 DEF Siblings
<1> QED
  BY <1>1, <1>2 DEF TrieOK, WellFormed

\* The step of a route below a node
StepOf(r, n) == SubSeq(r, 1, Len(n) + 1)

\* A node above a route has a child on the way to it.
LEMMA RouteStep ==
    ASSUME NEW t, TrieOK(t), NEW n \in DOMAIN t, NEW r \in DOMAIN t,
           Len(r) > Len(n), SubSeq(r, 1, Len(n)) = n
    PROVE  /\ StepOf(r, n) \in Children(t, n)
           /\ LastOf(StepOf(r, n)) = r[Len(n) + 1]
           /\ \A i \in 1 .. Len(n) + 1 : StepOf(r, n)[i] = r[i]
<1>1. n \in Seq(Piece) /\ r \in Seq(Piece) /\ Len(n) \in Nat /\ Len(r) \in Nat
  BY DEF TrieOK, WellFormed
<1>2. Len(n) + 1 \in 0 .. Len(r) /\ Len(n) \in 0 .. Len(n) + 1
  BY <1>1
<1>3. /\ StepOf(r, n) \in Seq(Piece) /\ Len(StepOf(r, n)) = Len(n) + 1
      /\ \A i \in 1 .. Len(n) + 1 : StepOf(r, n)[i] = r[i]
      /\ SubSeq(StepOf(r, n), 1, Len(n)) = SubSeq(r, 1, Len(n))
  BY <1>1, <1>2, PrefixOf DEF StepOf
<1>4. StepOf(r, n) \in DOMAIN t
  BY <1>2 DEF TrieOK, WellFormed, StepOf
<1>5. LastOf(StepOf(r, n)) = r[Len(n) + 1]
  BY <1>1, <1>3 DEF LastOf
<1> QED
  BY <1>3, <1>4, <1>5 DEF Children

\* A route below a node goes through one of its branches.
LEMMA Branch ==
    ASSUME NEW t, TrieOK(t), NEW parts \in RequestParts, NEW n \in DOMAIN t, OnWay(n, parts),
           NEW r \in RoutesBelow(t, n, parts), Len(r) > Len(n)
    PROVE  LET c == StepOf(r, n)
           IN  /\ c \in Children(t, n) /\ LastOf(c) = r[Len(n) + 1]
               /\ \/ /\ Kind(LastOf(c)) = "static" /\ Len(n) < Len(parts)
                     /\ c = Append(n, parts[Len(n) + 1])
                     /\ r \in RoutesBelow(t, c, parts) /\ OnWay(c, parts)
                  \/ /\ Kind(LastOf(c)) = "param" /\ Len(n) < Len(parts)
                     /\ r \in RoutesBelow(t, c, parts) /\ OnWay(c, parts)
                  \/ Kind(LastOf(c)) = "wild" /\ r = c
<1> DEFINE c == StepOf(r, n)
           h == Len(n)
<1>1. /\ r \in DOMAIN t /\ Matches(r, parts) /\ SubSeq(r, 1, h) = n
      /\ r \in Seq(Piece) /\ h \in Nat /\ Len(r) \in Nat /\ Len(parts) \in Nat
      /\ WildLast(r)
  BY DEF RoutesBelow, TrieOK, WellFormed, RequestParts
<1>2. c \in Children(t, n) /\ LastOf(c) = r[h + 1] /\ \A i \in 1 .. h + 1 : c[i] = r[i]
  BY <1>1, RouteStep
<1>3. /\ c \in Seq(Piece) /\ Len(c) = h + 1 /\ LastOf(c) \in Piece /\ c = Append(n, LastOf(c))
      /\ \A i \in 1 .. h : c[i] = n[i]
  BY <1>2, Child
<1>4. Kind(LastOf(c)) \in {"static", "param", "wild"}
  BY <1>3 DEF Piece, Kind
<1> HIDE DEF c
<1>5. CASE Kind(LastOf(c)) = "wild"
  <2>1. h + 1 = Len(r)
    BY <1>1, <1>2, <1>5 DEF WildLast
  <2>2. r = c
    BY <1>1, <2>1, Whole DEF c, StepOf
  <2> QED
    BY <1>2, <1>5, <2>2 DEF c
<1>6. CASE Kind(LastOf(c)) # "wild"
  <2>1. h < Len(parts) /\ (Kind(r[h + 1]) = "param" \/ r[h + 1] = parts[h + 1])
    BY SMTT(30), <1>1, <1>2, <1>6 DEF Matches, IsWild, LastOf
  <2>2. Kind(LastOf(c)) # "param" => c = Append(n, parts[h + 1])
    BY <1>2, <1>3, <2>1
  <2>3. ~IsWild(c)
    BY <1>6 DEF IsWild
  <2>4. OnWay(c, parts)
    <3>1. \A i \in 1 .. h + 1 : Kind(c[i]) = "param" \/ c[i] = parts[i]
      BY <1>1, <1>2, <1>3, <2>1 DEF OnWay
    <3> QED
      BY <1>1, <1>3, <2>1, <2>3, <3>1 DEF OnWay
  <2>5. r \in RoutesBelow(t, c, parts)
    <3>1. SubSeq(r, 1, Len(c)) = c
      BY <1>3 DEF c, StepOf
    <3> QED
      BY <1>1, <1>3, <3>1 DEF RoutesBelow
  <2> QED
    BY <1>2, <1>4, <1>6, <2>1, <2>2, <2>4, <2>5 DEF c
<1> QED
  BY <1>5, <1>6

\* The routes below a child are below its parent, and go through the child.
LEMMA UnderChild ==
    ASSUME NEW t, TrieOK(t), NEW parts, NEW n \in DOMAIN t, NEW c \in Children(t, n),
           NEW r \in RoutesBelow(t, c, parts)
    PROVE  /\ r \in RoutesBelow(t, n, parts) /\ Len(r) > Len(n)
           /\ StepOf(r, n) = c /\ r[Len(n) + 1] = LastOf(c)
<1>1. /\ r \in DOMAIN t /\ t[r] # NoRoute /\ Matches(r, parts) /\ r \in Seq(Piece)
      /\ Len(r) >= Len(c) /\ SubSeq(r, 1, Len(c)) = c /\ Len(r) \in Nat
  BY DEF RoutesBelow, TrieOK, WellFormed
<1>2. Len(c) = Len(n) + 1 /\ Len(n) \in Nat /\ SubSeq(c, 1, Len(n)) = n
  BY Child
<1>3. Len(c) \in 0 .. Len(r) /\ Len(n) \in 0 .. Len(c)
  BY <1>1, <1>2
<1>4. SubSeq(r, 1, Len(n)) = n
  BY <1>1, <1>2, <1>3, PrefixOf
<1>5. Len(r) > Len(n) /\ Len(r) >= Len(n)
  BY <1>1, <1>2
<1>6. r \in RoutesBelow(t, n, parts)
  BY <1>1, <1>4, <1>5 DEF RoutesBelow
<1>7. StepOf(r, n) = c
  BY <1>1, <1>2 DEF StepOf
<1> QED
  BY <1>1, <1>4, <1>5, <1>6, <1>7, RouteStep

\* Below a node, a static branch beats a parameter and a parameter a wildcard.
LEMMA BranchBeats ==
    ASSUME NEW t, NEW parts, NEW n, Len(n) \in Nat,
           NEW r \in RoutesBelow(t, n, parts), NEW q \in RoutesBelow(t, n, parts),
           Len(r) \in Nat, Len(q) \in Nat, Len(r) > Len(n), Len(q) > Len(n),
           Rank(Kind(r[Len(n) + 1])) < Rank(Kind(q[Len(n) + 1]))
    PROVE  Beats(r, q)
<1> DEFINE i == Len(n) + 1
<1>1. i \in 1 .. Len(q) /\ Len(r) >= i - 1 /\ i - 1 = Len(n)
  OBVIOUS
<1>2. SubSeq(r, 1, i - 1) = SubSeq(q, 1, i - 1)
  BY <1>1 DEF RoutesBelow
<1>3. Rank(Kind(r[i])) < Rank(Kind(q[i]))
  OBVIOUS
<1> HIDE DEF i
<1> QED
  BY <1>1, <1>2, <1>3 DEF Beats

\* The best route below a child is the best below its parent when all others are
\* below branches of lower priority.
LEMMA BestVia ==
    ASSUME NEW t, TrieOK(t), NEW parts, NEW n \in DOMAIN t, NEW c \in Children(t, n),
           NEW best, Best(t, c, parts, best),
           \A r \in RoutesBelow(t, n, parts) :
              /\ Len(r) > Len(n)
              /\ r \in RoutesBelow(t, c, parts) \/ Rank(Kind(LastOf(c))) < Rank(Kind(r[Len(n) + 1]))
    PROVE  Best(t, n, parts, best)
<1>1. best \in RoutesBelow(t, c, parts)
  BY DEF Best
<1>2. best \in RoutesBelow(t, n, parts) /\ Len(best) > Len(n) /\ best[Len(n) + 1] = LastOf(c)
  BY <1>1, UnderChild
<1>3. \A r \in RoutesBelow(t, n, parts) : Len(r) \in Nat
  BY DEF RoutesBelow, TrieOK, WellFormed
<1>4. Len(n) \in Nat
  BY DEF TrieOK, WellFormed
<1>5. ASSUME NEW r \in RoutesBelow(t, n, parts) \ {best} PROVE Beats(best, r)
  <2>1. CASE r \in RoutesBelow(t, c, parts)
    BY <2>1 DEF Best
  <2>2. CASE Rank(Kind(LastOf(c))) < Rank(Kind(r[Len(n) + 1]))
    BY <1>2, <1>3, <1>4, <2>2, BranchBeats
  <2> QED
    BY <2>1, <2>2
<1> QED
  BY <1>2, <1>5 DEF Best

\* A wildcard child takes any rest of the path.
LEMMA WildUnder ==
    ASSUME NEW t, TrieOK(t), NEW parts \in RequestParts, NEW n \in DOMAIN t, OnWay(n, parts),
           NEW w \in ChildrenOf(t, n, "wild"), t[w] # NoRoute
    PROVE  w \in RoutesBelow(t, n, parts) /\ Len(w) > Len(n) /\ w[Len(n) + 1] = LastOf(w)
<1>1. w \in Children(t, n) /\ Kind(LastOf(w)) = "wild"
  BY DEF ChildrenOf
<1>2. /\ w \in DOMAIN t /\ w \in Seq(Piece) /\ Len(w) = Len(n) + 1 /\ Len(n) \in Nat
      /\ SubSeq(w, 1, Len(n)) = n /\ LastOf(w) = w[Len(n) + 1]
      /\ \A i \in 1 .. Len(n) : w[i] = n[i]
  BY <1>1, Child
<1>3. IsWild(w)
  BY <1>1, <1>2 DEF IsWild
<1>4. Len(parts) \in Nat
  BY DEF RequestParts
<1>5. Matches(w, parts)
  BY <1>2, <1>3, <1>4 DEF Matches, OnWay
<1> QED
  BY <1>2, <1>5 DEF RoutesBelow

\* At the end of the path a route of the node itself goes before its wildcard.
LEMMA ExactBeats ==
    ASSUME NEW t, TrieOK(t), NEW parts \in RequestParts, NEW n \in DOMAIN t, OnWay(n, parts),
           Len(n) = Len(parts), NEW r \in RoutesBelow(t, n, parts), r # n
    PROVE  /\ r \in ChildrenOf(t, n, "wild")
           /\ Beats(n, r)
<1>1. /\ r \in Seq(Piece) /\ n \in Seq(Piece) /\ Len(r) \in Nat /\ Len(n) \in Nat
      /\ SubSeq(r, 1, Len(n)) = n /\ Len(r) >= Len(n)
  BY DEF RoutesBelow, TrieOK, WellFormed
<1>2. Len(r) > Len(n)
  <2>1. CASE Len(r) = Len(n)
    <3>1. r = n
      BY <1>1, <2>1, Whole
    <3> QED
      BY <3>1
  <2> QED
    BY <1>1, <2>1
<1>3. Kind(LastOf(StepOf(r, n))) = "wild" /\ r = StepOf(r, n) /\ StepOf(r, n) \in Children(t, n)
  BY <1>1, <1>2, Branch
<1>4. r \in ChildrenOf(t, n, "wild")
  BY <1>3 DEF ChildrenOf
<1>5. Beats(n, r)
  <2> DEFINE i == Len(n) + 1
  <2>1. i \in 1 .. Len(r) /\ Len(n) >= i - 1 /\ i - 1 = Len(n) /\ ~(Len(n) >= i)
    BY <1>1, <1>2
  <2>2. SubSeq(n, 1, i - 1) = SubSeq(r, 1, i - 1)
    BY <1>1, <2>1, Whole
  <2> HIDE DEF i
  <2> QED
    BY <2>1, <2>2 DEF Beats
<1> QED
  BY <1>4, <1>5

-----------------------------------------------------------------------------
(* What search computes below a node *)

\* The result is the best route below the node; its parameters are those that the
\* route has below the node.
AnswersWith(result, t, n, path, best, b) ==
    /\ Best(t, n, Parts(path), best) /\ Binds(b, best, path)
    /\ result.found = {t[best]} /\ result.params \in Seq(Binding)
    /\ b[Len(n)] \o result.params = b[Len(best)]

Answers(result, t, n, path) ==
    /\ IsResult(result)
    /\ RoutesBelow(t, n, Parts(path)) = {} => result = Miss
    /\ RoutesBelow(t, n, Parts(path)) # {} => \E best, b : AnswersWith(result, t, n, path, best, b)

\* The bindings of a route at a node and at the next one on its way
NextBound(b, route, path, n, c) ==
    /\ b[Len(n)] \in Seq(Binding) /\ b[Len(c)] \in Seq(Binding)
    /\ b[Len(c)] = IF Kind(LastOf(c)) = "static" THEN b[Len(n)]
                   ELSE Append(b[Len(n)], [name  |-> Text(LastOf(c)),
                                           value |-> BoundValue(route, path, Len(c))])

\* A child's part adds the binding of a parameter or of a wildcard, and nothing when it is
\* static.
LEMMA NextBinding ==
    ASSUME NEW t, TrieOK(t), NEW path, NEW n \in DOMAIN t, NEW c \in Children(t, n),
           NEW route \in RoutesBelow(t, c, Parts(path)), NEW b, Binds(b, route, path)
    PROVE  NextBound(b, route, path, n, c)
<1>1. /\ Len(c) = Len(n) + 1 /\ Len(n) \in Nat /\ Len(c) - 1 = Len(n)
  BY Child
<1>2. route[Len(c)] = LastOf(c) /\ Len(route) > Len(n) /\ route \in Seq(Piece)
  <2>1. /\ route \in RoutesBelow(t, n, Parts(path)) /\ Len(route) > Len(n)
        /\ StepOf(route, n) = c /\ route[Len(n) + 1] = LastOf(c)
    BY UnderChild
  <2>2. route \in Seq(Piece)
    BY DEF RoutesBelow, TrieOK, WellFormed
  <2> QED
    BY <1>1, <2>1, <2>2
<1>3. Len(c) \in 1 .. Len(route) /\ Len(n) \in 0 .. Len(route) /\ Len(c) \in 0 .. Len(route)
  BY <1>1, <1>2
<1> QED
  BY <1>1, <1>2, <1>3 DEF Binds, NextBound

\* Through a static child nothing is bound.
LEMMA StaticUp ==
    ASSUME NEW t, TrieOK(t), NEW n \in DOMAIN t, NEW c \in Children(t, n),
           Kind(LastOf(c)) = "static", NEW path, NEW result, NEW best, NEW b,
           AnswersWith(result, t, c, path, best, b), Best(t, n, Parts(path), best)
    PROVE  AnswersWith(result, t, n, path, best, b)
<1>1. best \in RoutesBelow(t, c, Parts(path)) /\ Binds(b, best, path)
  BY DEF AnswersWith, Best
<1>2. NextBound(b, best, path, n, c)
  BY <1>1, NextBinding
<1> QED
  BY <1>2 DEF AnswersWith, NextBound

\* A parameter binds the next part of the path, before what is bound below.
LEMMA ParamUp ==
    ASSUME NEW t, TrieOK(t), NEW n \in DOMAIN t, NEW c \in Children(t, n),
           Kind(LastOf(c)) = "param", NEW path \in Seq(Piece), Len(n) < Len(Parts(path)),
           NEW result, NEW best, NEW b,
           AnswersWith(result, t, c, path, best, b), Best(t, n, Parts(path), best)
    PROVE  LET bound == Bound(c, Value(path, path, Len(n)))
           IN  /\ bound \in Seq(Binding)
               /\ AnswersWith([found |-> result.found, params |-> bound \o result.params],
                              t, n, path, best, b)
<1> DEFINE one   == [name |-> Text(LastOf(c)), value |-> <<Parts(path)[Len(n) + 1]>>]
           bound == Bound(c, Value(path, path, Len(n)))
<1>1. best \in RoutesBelow(t, c, Parts(path)) /\ Binds(b, best, path)
  BY DEF AnswersWith, Best
<1>2. /\ Len(c) = Len(n) + 1 /\ Len(n) \in Nat /\ LastOf(c) \in Piece
  BY Child
<1>3. Parts(path) \in Seq(Piece) /\ Len(Parts(path)) \in Nat
  BY PartsType
<1>4. one \in Binding
  <2>1. Text(LastOf(c)) \in STRING
    BY <1>2 DEF Text, Piece
  <2>2. <<Parts(path)[Len(n) + 1]>> \in Seq(Piece)
    BY <1>2, <1>3
  <2> QED
    BY <2>1, <2>2 DEF Binding
<1>5. bound = <<one>>
  <2>1. path[Index(path, Len(n))] = Parts(path)[Len(n) + 1]
    BY <1>2, PartAt
  <2> QED
    BY <2>1 DEF Bound, Value
<1>6. BoundValue(best, path, Len(c)) = <<Parts(path)[Len(n) + 1]>>
  <2>1. /\ best \in RoutesBelow(t, n, Parts(path)) /\ Len(best) > Len(n)
        /\ StepOf(best, n) = c /\ best[Len(n) + 1] = LastOf(c)
    BY <1>1, UnderChild
  <2>2. best[Len(c)] = LastOf(c)
    BY <1>2, <2>1
  <2> QED
    BY <1>2, <2>2 DEF BoundValue
<1>7. b[Len(n)] \in Seq(Binding) /\ b[Len(c)] = Append(b[Len(n)], one)
  <2>1. NextBound(b, best, path, n, c)
    BY <1>1, NextBinding
  <2> QED
    BY <1>6, <2>1 DEF NextBound
<1> HIDE DEF one
<1>8. result.params \in Seq(Binding)
  BY DEF AnswersWith
<1>9. /\ <<one>> \o result.params \in Seq(Binding)
      /\ b[Len(n)] \o (<<one>> \o result.params) = Append(b[Len(n)], one) \o result.params
  <2> DEFINE x == b[Len(n)]
             y == result.params
  <2> HIDE DEF x, y
  <2>1. ASSUME x \in Seq(Binding), y \in Seq(Binding)
        PROVE  /\ <<one>> \o y \in Seq(Binding)
               /\ x \o (<<one>> \o y) = Append(x, one) \o y
    <3>1. <<one>> \in Seq(Binding) /\ Append(x, one) = x \o <<one>>
      BY <1>4, <2>1, AppendIsConcat
    <3>2. x \o (<<one>> \o y) = (x \o <<one>>) \o y
      BY SMTT(30), <2>1, <3>1, ConcatAssociative
    <3>3. <<one>> \o y \in Seq(Binding)
      BY <2>1, <3>1, ConcatProperties
    <3> QED
      BY <3>1, <3>2, <3>3
  <2> QED
    BY <1>7, <1>8, <2>1 DEF x, y
<1>10. b[Len(c)] \o result.params = b[Len(best)]
  BY DEF AnswersWith
<1> DEFINE up == [found |-> result.found, params |-> bound \o result.params]
<1>11. up.found = result.found /\ up.params = <<one>> \o result.params
  BY <1>5
<1> HIDE DEF up, bound
<1>12. AnswersWith(up, t, n, path, best, b)
  BY <1>1, <1>7, <1>9, <1>10, <1>11 DEF AnswersWith
<1> QED
  BY <1>4, <1>5, <1>12 DEF up, bound

\* The wildcard takes the rest of the path, and the search ends there.
LEMMA WildUp ==
    ASSUME NEW t, TrieOK(t), NEW n \in DOMAIN t, NEW w \in ChildrenOf(t, n, "wild"),
           NEW path \in Seq(Piece), Parts(path) \in RequestParts, OnWay(n, Parts(path)),
           t[w] # NoRoute, Best(t, n, Parts(path), w)
    PROVE  \E b : AnswersWith(Hit(t[w], Bound(w, Rest(path, path, Len(n)))), t, n, path, w, b)
<1> DEFINE one == [name |-> Text(LastOf(w)), value |-> Rest(path, path, Len(n))]
           result == Hit(t[w], Bound(w, Rest(path, path, Len(n))))
<1>1. w \in Children(t, n) /\ Kind(LastOf(w)) = "wild"
  BY DEF ChildrenOf
<1>2. /\ w \in DOMAIN t /\ w \in Seq(Piece) /\ Len(w) = Len(n) + 1 /\ Len(n) \in Nat
      /\ LastOf(w) = w[Len(n) + 1] /\ LastOf(w) \in Piece
  BY <1>1, Child
<1>3. w \in RoutesBelow(t, n, Parts(path))
  BY DEF Best
<1>4. Matches(w, Parts(path))
  BY <1>3 DEF RoutesBelow
<1>5. w \in RoutesBelow(t, w, Parts(path))
  <2>1. SubSeq(w, 1, Len(w)) = w
    BY <1>2, Whole
  <2> QED
    BY <1>2, <1>3, <2>1 DEF RoutesBelow
<1>6. PICK b : Binds(b, w, path)
  BY <1>2, <1>4, BindingsListed
<1>7. NextBound(b, w, path, n, w)
  BY <1>1, <1>5, <1>6, NextBinding
<1>8. BoundValue(w, path, Len(w)) = Rest(path, path, Len(n))
  <2>1. Kind(w[Len(w)]) # "param" /\ Len(w) - 1 = Len(n)
    BY <1>1, <1>2
  <2> QED
    BY <2>1 DEF BoundValue
<1>9. b[Len(n)] \in Seq(Binding) /\ b[Len(w)] = Append(b[Len(n)], one)
  BY <1>1, <1>7, <1>8 DEF NextBound
<1>10. one \in Binding
  <2>1. Text(LastOf(w)) \in STRING
    BY <1>2 DEF Text, Piece
  <2>2. Rest(path, path, Len(n)) \in Seq(Piece)
    BY <1>2, RestType
  <2> QED
    BY <2>1, <2>2 DEF Binding
<1>11. result.found = {t[w]} /\ result.params = <<one>>
  BY DEF Hit, Bound
<1> HIDE DEF one
<1>12. <<one>> \in Seq(Binding) /\ b[Len(n)] \o <<one>> = Append(b[Len(n)], one)
  <2> DEFINE x == b[Len(n)]
  <2> HIDE DEF x
  <2>1. ASSUME x \in Seq(Binding) PROVE Append(x, one) = x \o <<one>>
    BY <1>10, <2>1, AppendIsConcat
  <2>2. <<one>> \in Seq(Binding)
    BY <1>10
  <2> QED
    BY <1>9, <2>1, <2>2 DEF x
<1> HIDE DEF result
<1>13. AnswersWith(result, t, n, path, w, b)
  BY <1>6, <1>9, <1>11, <1>12 DEF AnswersWith
<1> QED
  BY <1>13 DEF result

\* At the end of the path the node answers with its own route.
LEMMA LeafUp ==
    ASSUME NEW t, TrieOK(t), NEW n \in DOMAIN t,
           NEW path \in Seq(Piece), Parts(path) \in RequestParts,
           Best(t, n, Parts(path), n)
    PROVE  \E b : AnswersWith(Hit(t[n], <<>>), t, n, path, n, b)
<1>1. n \in Seq(Piece) /\ Matches(n, Parts(path)) /\ Len(n) \in Nat
  BY DEF Best, RoutesBelow, TrieOK, WellFormed
<1>2. PICK b : Binds(b, n, path)
  BY <1>1, BindingsListed
<1>3. b[Len(n)] \in Seq(Binding)
  BY <1>1, <1>2 DEF Binds
<1>4. b[Len(n)] \o <<>> = b[Len(n)]
  <2> DEFINE x == b[Len(n)]
  <2> HIDE DEF x
  <2>1. ASSUME x \in Seq(Binding) PROVE x \o <<>> = x
    BY <2>1, ConcatEmptySeq
  <2> QED
    BY <1>3, <2>1 DEF x
<1>5. Hit(t[n], <<>>).found = {t[n]} /\ Hit(t[n], <<>>).params = <<>>
  BY DEF Hit
<1> DEFINE result == Hit(t[n], <<>>)
<1> HIDE DEF result
<1>6. <<>> \in Seq(Binding)
  OBVIOUS
<1>7. AnswersWith(result, t, n, path, n, b)
  BY <1>2, <1>4, <1>5, <1>6 DEF AnswersWith, result
<1> QED
  BY <1>7 DEF result

\* What goes before the parameters of a result
LEMMA AfterOf ==
    ASSUME NEW r, IsResult(r), r.params \in Seq(Binding), NEW bound \in Seq(Binding)
    PROVE  /\ After(<<>>, r) = r
           /\ After(<<>> \o bound, r) = [found |-> r.found, params |-> bound \o r.params]
<1>1. <<>> \o r.params = r.params /\ <<>> \o bound = bound
  BY ConcatEmptySeq
<1> DEFINE found == r.found
           params == r.params
<1>2. r = [found |-> found, params |-> params]
  BY DEF IsResult
<1> HIDE DEF found, params
<1>3. ASSUME NEW x PROVE After(x, r) = [found |-> found, params |-> x \o params]
  <2>1. ASSUME NEW a, NEW b, NEW c
        PROVE  [[found |-> a, params |-> b] EXCEPT !.params = c] = [found |-> a, params |-> c]
    OBVIOUS
  <2>2. After(x, r) = [r EXCEPT !.params = x \o params]
    BY DEF After, params
  <2> QED
    BY <1>2, <2>1, <2>2
<1> QED
  BY <1>1, <1>2, <1>3 DEF found, params

\* A route that ends at a node before the end of the path does not match it.
LEMMA LongerUnder ==
    ASSUME NEW t, TrieOK(t), NEW parts \in RequestParts, NEW n \in DOMAIN t, OnWay(n, parts),
           Len(n) # Len(parts), NEW r \in RoutesBelow(t, n, parts)
    PROVE  Len(r) > Len(n)
<1>1. /\ n \in Seq(Piece) /\ r \in Seq(Piece) /\ Len(n) \in Nat /\ Len(r) \in Nat
      /\ SubSeq(r, 1, Len(n)) = n /\ Len(r) >= Len(n) /\ Matches(r, parts)
  BY DEF RoutesBelow, TrieOK, WellFormed
<1>2. CASE Len(r) = Len(n)
  <2>1. r = n
    BY <1>1, <1>2, Whole
  <2> QED
    BY <1>1, <2>1 DEF Matches, OnWay
<1> QED
  BY <1>1, <1>2

\* A child that is no wildcard is on the way when it stands for the next part.
LEMMA ChildOnWay ==
    ASSUME NEW t, TrieOK(t), NEW parts \in RequestParts, NEW n \in DOMAIN t, OnWay(n, parts),
           Len(n) # Len(parts), NEW c \in Children(t, n),
           Kind(LastOf(c)) = "param" \/ LastOf(c) = parts[Len(n) + 1]
    PROVE  OnWay(c, parts)
<1>1. /\ Len(c) = Len(n) + 1 /\ Len(n) \in Nat /\ LastOf(c) = c[Len(n) + 1]
      /\ \A i \in 1 .. Len(n) : c[i] = n[i]
  BY Child
<1>2. Len(parts) \in Nat /\ Len(n) + 1 <= Len(parts)
  BY <1>1 DEF OnWay, RequestParts
<1>3. Kind(parts[Len(n) + 1]) = "static"
  <2>1. parts[Len(n) + 1] \in {"static"} \X STRING
    BY <1>1, <1>2 DEF RequestParts
  <2> QED
    BY <2>1 DEF Kind
<1>4. ~IsWild(c)
  BY <1>3 DEF IsWild
<1>5. \A i \in 1 .. Len(c) : Kind(c[i]) = "param" \/ c[i] = parts[i]
  BY <1>1 DEF OnWay
<1> QED
  BY <1>1, <1>2, <1>4, <1>5 DEF OnWay

\* The static child for the next part of the path
LEMMA StaticChild ==
    ASSUME NEW t, TrieOK(t), NEW parts \in RequestParts, NEW n \in DOMAIN t, OnWay(n, parts),
           Len(n) # Len(parts), Append(n, parts[Len(n) + 1]) \in DOMAIN t
    PROVE  LET c == Append(n, parts[Len(n) + 1])
           IN  /\ c \in Children(t, n) /\ Kind(LastOf(c)) = "static" /\ OnWay(c, parts)
<1> DEFINE c == Append(n, parts[Len(n) + 1])
<1>1. n \in Seq(Piece) /\ Len(n) \in Nat /\ Len(parts) \in Nat /\ Len(n) + 1 <= Len(parts)
  BY DEF OnWay, RequestParts, TrieOK, WellFormed
<1>2. parts[Len(n) + 1] \in {"static"} \X STRING
  BY <1>1 DEF RequestParts
<1>3. parts[Len(n) + 1] \in Piece /\ Kind(parts[Len(n) + 1]) = "static"
  BY <1>2 DEF Piece, Kind
<1>4. /\ c \in Seq(Piece) /\ Len(c) = Len(n) + 1 /\ c[Len(n) + 1] = parts[Len(n) + 1]
      /\ SubSeq(c, 1, Len(n)) = n
  <2>1. /\ c \in Seq(Piece) /\ Len(c) = Len(n) + 1 /\ c[Len(n) + 1] = parts[Len(n) + 1]
        /\ \A i \in 1 .. Len(n) : c[i] = n[i]
    BY <1>1, <1>3
  <2>2. Len(n) \in 0 .. Len(c)
    BY <1>1, <2>1
  <2> HIDE DEF c
  <2>3. /\ SubSeq(c, 1, Len(n)) \in Seq(Piece) /\ Len(SubSeq(c, 1, Len(n))) = Len(n)
        /\ \A i \in 1 .. Len(n) : SubSeq(c, 1, Len(n))[i] = c[i]
    BY <2>1, <2>2, PrefixOf
  <2>4. SubSeq(c, 1, Len(n)) = n
    BY <1>1, <2>1, <2>3, SeqEqual
  <2> QED
    BY <2>1, <2>4
<1>5. c \in DOMAIN t
  OBVIOUS
<1> HIDE DEF c
<1>6. c \in Children(t, n) /\ LastOf(c) = parts[Len(n) + 1]
  BY <1>4, <1>5 DEF Children, LastOf
<1>7. OnWay(c, parts)
  BY <1>6, ChildOnWay
<1> QED
  BY <1>3, <1>6, <1>7 DEF c

\* Every wildcard node has a route.
WildsRouted(t) == \A n \in DOMAIN t : IsWild(n) => t[n] # NoRoute

\* The wildcard child of a node, when it has one
LEMMA WildOf ==
    ASSUME NEW t, TrieOK(t), WildsRouted(t), NEW n \in DOMAIN t, ChildrenOf(t, n, "wild") # {}
    PROVE  /\ WildChild(t, n) \in ChildrenOf(t, n, "wild")
           /\ \A c \in Children(t, n) : Kind(LastOf(c)) # "static" => c = WildChild(t, n)
           /\ t[WildChild(t, n)] # NoRoute
<1> DEFINE w == WildChild(t, n)
<1>1. w \in ChildrenOf(t, n, "wild")
  BY DEF WildChild
<1> HIDE DEF w
<1>2. w \in Children(t, n) /\ Kind(LastOf(w)) = "wild"
  BY <1>1 DEF ChildrenOf
<1>3. w \in DOMAIN t /\ Len(w) = Len(n) + 1 /\ Len(n) \in Nat
  BY <1>2, Child
<1>4. IsWild(w)
  BY <1>2, <1>3 DEF IsWild
<1>5. ASSUME NEW c \in Children(t, n), Kind(LastOf(c)) # "static" PROVE c = w
  BY <1>2, <1>5, OneChild
<1> QED
  BY <1>1, <1>3, <1>4, <1>5 DEF w, WildsRouted

\* When all the routes below a node are its wildcard, it answers with that.
LEMMA WildAnswers ==
    ASSUME NEW t, TrieOK(t), WildsRouted(t), NEW n \in DOMAIN t,
           NEW path \in Seq(Piece), Parts(path) \in RequestParts, OnWay(n, Parts(path)),
           \A r \in RoutesBelow(t, n, Parts(path)) : r \in ChildrenOf(t, n, "wild")
    PROVE  /\ Answers(ViaWild(t, path, path, n), t, n, path)
           /\ ViaWild(t, path, path, n).params \in Seq(Binding)
<1>1. CASE ChildrenOf(t, n, "wild") = {}
  <2>1. ViaWild(t, path, path, n) = Miss /\ RoutesBelow(t, n, Parts(path)) = {}
    BY <1>1 DEF ViaWild
  <2>2. IsResult(Miss) /\ Miss.params = <<>> /\ <<>> \in Seq(Binding)
    BY DEF IsResult, Miss
  <2> QED
    BY <2>1, <2>2 DEF Answers
<1>2. CASE ChildrenOf(t, n, "wild") # {}
  <2> DEFINE w == WildChild(t, n)
             result == Hit(t[w], Bound(w, Rest(path, path, Len(n))))
  <2>1. /\ w \in ChildrenOf(t, n, "wild") /\ t[w] # NoRoute
        /\ \A c \in Children(t, n) : Kind(LastOf(c)) # "static" => c = w
    BY <1>2, WildOf
  <2>2. ViaWild(t, path, path, n) = result
    BY <1>2 DEF ViaWild
  <2> HIDE DEF w
  <2>3. w \in RoutesBelow(t, n, Parts(path))
    BY <2>1, WildUnder
  <2>4. \A r \in RoutesBelow(t, n, Parts(path)) : r = w
    BY <2>1 DEF ChildrenOf
  <2>5. Best(t, n, Parts(path), w)
    BY <2>3, <2>4 DEF Best
  <2>6. PICK b : AnswersWith(result, t, n, path, w, b)
    BY <2>1, <2>5, WildUp
  <2>7. IsResult(result)
    BY DEF IsResult, Hit
  <2> HIDE DEF result
  <2> QED
    BY <2>2, <2>3, <2>6, <2>7 DEF Answers, AnswersWith
<1> QED
  BY <1>1, <1>2

\* The end of the path
LEMMA LeafAnswers ==
    ASSUME NEW t, TrieOK(t), WildsRouted(t), NEW f, NEW n \in DOMAIN t,
           NEW path \in Seq(Piece), Parts(path) \in RequestParts, OnWay(n, Parts(path)),
           Len(n) = Len(Parts(path))
    PROVE  Answers(SearchBelow(t, path, path, f, n), t, n, path)
<1> DEFINE parts == Parts(path)
<1>1. n \in Seq(Piece) /\ Len(n) \in Nat /\ SubSeq(n, 1, Len(n)) = n
  <2>1. n \in Seq(Piece)
    BY DEF TrieOK, WellFormed
  <2> QED
    BY <2>1, Whole
<1>2. CASE t[n] # NoRoute
  <2>1. n \in RoutesBelow(t, n, parts)
    BY <1>1, <1>2 DEF RoutesBelow, OnWay, Matches
  <2>2. \A r \in RoutesBelow(t, n, parts) : r # n => r \in ChildrenOf(t, n, "wild") /\ Beats(n, r)
    BY ExactBeats
  <2>3. Best(t, n, parts, n)
    BY <2>1, <2>2 DEF Best
  <2>4. PICK b : AnswersWith(Hit(t[n], <<>>), t, n, path, n, b)
    BY <2>3, LeafUp
  <2>5. SearchBelow(t, path, path, f, n) = Hit(t[n], <<>>)
    BY <1>2 DEF SearchBelow
  <2>6. IsResult(Hit(t[n], <<>>))
    BY DEF IsResult, Hit
  <2> QED
    BY <2>1, <2>4, <2>5, <2>6 DEF Answers
<1>3. CASE t[n] = NoRoute
  <2>1. n \notin RoutesBelow(t, n, parts)
    BY <1>3 DEF RoutesBelow
  <2>2. \A r \in RoutesBelow(t, n, parts) : r # n => r \in ChildrenOf(t, n, "wild") /\ Beats(n, r)
    BY ExactBeats
  <2>3. Answers(ViaWild(t, path, path, n), t, n, path)
    BY <2>1, <2>2, WildAnswers
  <2>4. SearchBelow(t, path, path, f, n) = ViaWild(t, path, path, n)
    BY <1>3 DEF SearchBelow
  <2> QED
    BY <2>3, <2>4
<1> QED
  BY <1>2, <1>3

\* Before the end of the path each route below a node goes through the static
\* child for the next part, or the parameter, or is the wildcard.
LEMMA Ways ==
    ASSUME NEW t, TrieOK(t), NEW parts \in RequestParts, NEW n \in DOMAIN t, OnWay(n, parts),
           Len(n) # Len(parts), NEW r \in RoutesBelow(t, n, parts)
    PROVE  /\ Len(r) > Len(n)
           /\ LET c == StepOf(r, n)
              IN  /\ c \in Children(t, n) /\ LastOf(c) = r[Len(n) + 1]
                  /\ \/ /\ Kind(LastOf(c)) = "static" /\ c = Append(n, parts[Len(n) + 1])
                        /\ r \in RoutesBelow(t, c, parts)
                     \/ Kind(LastOf(c)) = "param" /\ r \in RoutesBelow(t, c, parts)
                     \/ Kind(LastOf(c)) = "wild" /\ r = c
<1>1. Len(r) > Len(n)
  BY LongerUnder
<1>2. /\ StepOf(r, n) \in Children(t, n) /\ LastOf(StepOf(r, n)) = r[Len(n) + 1]
      /\ \/ /\ Kind(LastOf(StepOf(r, n))) = "static" /\ Len(n) < Len(parts)
            /\ StepOf(r, n) = Append(n, parts[Len(n) + 1])
            /\ r \in RoutesBelow(t, StepOf(r, n), parts) /\ OnWay(StepOf(r, n), parts)
         \/ /\ Kind(LastOf(StepOf(r, n))) = "param" /\ Len(n) < Len(parts)
            /\ r \in RoutesBelow(t, StepOf(r, n), parts) /\ OnWay(StepOf(r, n), parts)
         \/ Kind(LastOf(StepOf(r, n))) = "wild" /\ r = StepOf(r, n)
  BY <1>1, Branch
<1> QED
  BY <1>1, <1>2

\* The static child answers whenever a route below it matches.
LEMMA StaticAnswers ==
    ASSUME NEW t, TrieOK(t), NEW n \in DOMAIN t,
           NEW path \in Seq(Piece), Parts(path) \in RequestParts, OnWay(n, Parts(path)),
           Len(n) # Len(Parts(path)), NEW c \in Children(t, n),
           c = Append(n, Parts(path)[Len(n) + 1]), Kind(LastOf(c)) = "static",
           NEW result, Answers(result, t, c, path), RoutesBelow(t, c, Parts(path)) # {}
    PROVE  Answers(result, t, n, path) /\ result.found # {}
<1> DEFINE parts == Parts(path)
<1>1. PICK best, b : AnswersWith(result, t, c, path, best, b)
  BY DEF Answers
<1>2. Best(t, c, parts, best)
  BY <1>1 DEF AnswersWith
<1>3. ASSUME NEW r \in RoutesBelow(t, n, parts)
      PROVE  /\ Len(r) > Len(n)
             /\ r \in RoutesBelow(t, c, parts) \/ Rank(Kind(LastOf(c))) < Rank(Kind(r[Len(n) + 1]))
  <2>1. /\ Len(r) > Len(n) /\ LastOf(StepOf(r, n)) = r[Len(n) + 1]
        /\ \/ /\ Kind(LastOf(StepOf(r, n))) = "static"
              /\ StepOf(r, n) = Append(n, parts[Len(n) + 1])
              /\ r \in RoutesBelow(t, StepOf(r, n), parts)
           \/ Kind(LastOf(StepOf(r, n))) = "param"
           \/ Kind(LastOf(StepOf(r, n))) = "wild"
    BY Ways
  <2>2. CASE Kind(LastOf(StepOf(r, n))) = "static"
    BY <2>1, <2>2
  <2>3. CASE Kind(r[Len(n) + 1]) \in {"param", "wild"}
    BY <2>1, <2>3 DEF Rank
  <2> QED
    BY <2>1, <2>2, <2>3
<1>4. Best(t, n, parts, best)
  BY <1>2, <1>3, BestVia
<1>5. AnswersWith(result, t, n, path, best, b)
  BY <1>1, <1>4, StaticUp
<1>6. best \in RoutesBelow(t, n, parts)
  BY <1>4 DEF Best
<1> QED
  BY <1>5, <1>6 DEF Answers, AnswersWith

\* The parameter answers when a route below it matches and none below the static
\* child does.
LEMMA ParamAnswers ==
    ASSUME NEW t, TrieOK(t), NEW n \in DOMAIN t,
           NEW path \in Seq(Piece), Parts(path) \in RequestParts, OnWay(n, Parts(path)),
           Len(n) # Len(Parts(path)), NEW c \in Children(t, n), Kind(LastOf(c)) = "param",
           NEW result, Answers(result, t, c, path), RoutesBelow(t, c, Parts(path)) # {},
           \A r \in RoutesBelow(t, n, Parts(path)) : Kind(LastOf(StepOf(r, n))) # "static"
    PROVE  /\ Answers(After(<<>> \o Bound(c, Value(path, path, Len(n))), result), t, n, path)
           /\ result.found # {}
<1> DEFINE parts == Parts(path)
           bound == Bound(c, Value(path, path, Len(n)))
           up    == [found |-> result.found, params |-> bound \o result.params]
<1>1. PICK best, b : AnswersWith(result, t, c, path, best, b)
  BY DEF Answers
<1>2. Best(t, c, parts, best)
  BY <1>1 DEF AnswersWith
<1>3. ASSUME NEW r \in RoutesBelow(t, n, parts)
      PROVE  /\ Len(r) > Len(n)
             /\ r \in RoutesBelow(t, c, parts) \/ Rank(Kind(LastOf(c))) < Rank(Kind(r[Len(n) + 1]))
  <2>1. /\ Len(r) > Len(n) /\ LastOf(StepOf(r, n)) = r[Len(n) + 1]
        /\ StepOf(r, n) \in Children(t, n)
        /\ \/ Kind(LastOf(StepOf(r, n))) = "static"
           \/ Kind(LastOf(StepOf(r, n))) = "param" /\ r \in RoutesBelow(t, StepOf(r, n), parts)
           \/ Kind(LastOf(StepOf(r, n))) = "wild"
    BY Ways
  <2>2. Kind(LastOf(StepOf(r, n))) # "static" => StepOf(r, n) = c
    BY <2>1, OneChild
  <2> QED
    BY <2>1, <2>2
<1>4. Best(t, n, parts, best)
  BY <1>2, <1>3, BestVia
<1>5. Len(n) < Len(parts)
  <2>1. Len(parts) \in Nat /\ Len(n) \in Nat /\ Len(n) <= Len(parts)
    BY DEF OnWay, RequestParts, TrieOK, WellFormed
  <2> QED
    BY <2>1
<1>6. bound \in Seq(Binding) /\ AnswersWith(up, t, n, path, best, b)
  BY <1>1, <1>4, <1>5, ParamUp
<1>7. IsResult(result) /\ result.params \in Seq(Binding) /\ result.found # {}
  BY <1>1 DEF Answers, AnswersWith
<1>8. IsResult(up)
  BY DEF IsResult
<1> HIDE DEF bound
<1>9. After(<<>> \o bound, result) = up
  BY <1>6, <1>7, AfterOf
<1>10. best \in RoutesBelow(t, n, parts)
  BY <1>4 DEF Best
<1> HIDE DEF up
<1>11. Answers(up, t, n, path)
  BY <1>6, <1>8, <1>10 DEF Answers
<1> QED
  BY <1>7, <1>9, <1>11 DEF bound

\* What a node answers when the children on the way do
LEMMA SearchStep ==
    ASSUME NEW t, TrieOK(t), WildsRouted(t), NEW f, NEW n \in DOMAIN t,
           NEW path \in Seq(Piece), Parts(path) \in RequestParts, OnWay(n, Parts(path)),
           \A c \in Children(t, n) : OnWay(c, Parts(path)) => Answers(f[c], t, c, path)
    PROVE  Answers(SearchBelow(t, path, path, f, n), t, n, path)
<1> DEFINE parts  == Parts(path)
           static == Append(n, parts[Len(n) + 1])
           p      == ParamChild(t, n)
           bound  == Bound(p, Value(path, path, Len(n)))
           vs     == ViaStatic(t, path, f, n)
           vw     == ViaWild(t, path, path, n)
<1>1. CASE Len(n) = Len(parts)
  BY <1>1, LeafAnswers
<1>2. CASE Len(n) # Len(parts)
  <2>1. SearchBelow(t, path, path, f, n)
          = Branches(vs, ChildrenOf(t, n, "param") # {}, bound, f[p], vw)
    BY <1>2 DEF SearchBelow
  <2>2. static \in DOMAIN t => /\ static \in Children(t, n) /\ Kind(LastOf(static)) = "static"
                               /\ OnWay(static, parts) /\ Answers(f[static], t, static, path)
    BY <1>2, StaticChild
  <2>3. vs = IF static \in DOMAIN t THEN f[static] ELSE Miss
    BY DEF ViaStatic
  <2>4. ChildrenOf(t, n, "param") # {} =>
           /\ p \in Children(t, n) /\ Kind(LastOf(p)) = "param"
           /\ OnWay(p, parts) /\ Answers(f[p], t, p, path)
    <3>1. ChildrenOf(t, n, "param") # {} => p \in ChildrenOf(t, n, "param")
      BY DEF ParamChild
    <3>2. ChildrenOf(t, n, "param") # {} => p \in Children(t, n) /\ Kind(LastOf(p)) = "param"
      BY <3>1 DEF ChildrenOf
    <3> HIDE DEF p
    <3>3. ChildrenOf(t, n, "param") # {} => OnWay(p, parts)
      BY <1>2, <3>2, ChildOnWay
    <3> QED
      BY <3>2, <3>3
  <2> HIDE DEF vs, vw, p, static
  <2>5. CASE static \in DOMAIN t /\ RoutesBelow(t, static, parts) # {}
    <3>1. Answers(vs, t, n, path) /\ vs.found # {}
      BY <1>2, <2>2, <2>3, <2>5, StaticAnswers DEF static
    <3>2. SearchBelow(t, path, path, f, n) = vs
      BY <2>1, <3>1 DEF Branches
    <3> QED
      BY <3>1, <3>2
  <2>6. CASE ~(static \in DOMAIN t /\ RoutesBelow(t, static, parts) # {})
    <3>1. vs = Miss
      BY <2>2, <2>3, <2>6 DEF Answers
    <3>2. vs.found = {} /\ vs.params = <<>>
      BY <3>1 DEF Miss
    <3>3. ASSUME NEW r \in RoutesBelow(t, n, parts)
          PROVE  /\ Len(r) > Len(n) /\ LastOf(StepOf(r, n)) = r[Len(n) + 1]
                 /\ StepOf(r, n) \in Children(t, n)
                 /\ \/ Kind(LastOf(StepOf(r, n))) = "param" /\ r \in RoutesBelow(t, StepOf(r, n), parts)
                    \/ Kind(LastOf(StepOf(r, n))) = "wild" /\ r = StepOf(r, n)
      <4>1. /\ Len(r) > Len(n)
            /\ StepOf(r, n) \in Children(t, n) /\ LastOf(StepOf(r, n)) = r[Len(n) + 1]
            /\ \/ /\ Kind(LastOf(StepOf(r, n))) = "static" /\ StepOf(r, n) = static
                  /\ r \in RoutesBelow(t, StepOf(r, n), parts)
               \/ Kind(LastOf(StepOf(r, n))) = "param" /\ r \in RoutesBelow(t, StepOf(r, n), parts)
               \/ Kind(LastOf(StepOf(r, n))) = "wild" /\ r = StepOf(r, n)
        BY <1>2, Ways DEF static
      <4>2. StepOf(r, n) \in DOMAIN t
        BY <4>1 DEF Children
      <4> QED
        BY <2>6, <4>1, <4>2
    <3>4. CASE ChildrenOf(t, n, "param") # {} /\ RoutesBelow(t, p, parts) # {}
      <4>1. \A r \in RoutesBelow(t, n, parts) : Kind(LastOf(StepOf(r, n))) # "static"
        BY <3>3
      <4>2. /\ Answers(After(<<>> \o bound, f[p]), t, n, path)
            /\ f[p].found # {}
        BY <1>2, <2>4, <3>4, <4>1, ParamAnswers
      <4>3. SearchBelow(t, path, path, f, n) = After(<<>> \o bound, f[p])
        BY <2>1, <3>2, <3>4, <4>2 DEF Branches
      <4> QED
        BY <4>2, <4>3
    <3>5. CASE ~(ChildrenOf(t, n, "param") # {} /\ RoutesBelow(t, p, parts) # {})
      <4>1. ChildrenOf(t, n, "param") # {} => f[p].found = {}
        BY <2>4, <3>5 DEF Answers, Miss
      <4>2. SearchBelow(t, path, path, f, n) = After(<<>>, vw)
        BY <2>1, <3>2, <4>1 DEF Branches
      <4>3. ASSUME NEW r \in RoutesBelow(t, n, parts) PROVE r \in ChildrenOf(t, n, "wild")
        <5>1. CASE Kind(LastOf(StepOf(r, n))) = "param"
          <6>1. StepOf(r, n) \in ChildrenOf(t, n, "param")
            BY <3>3, <5>1 DEF ChildrenOf
          <6>2. StepOf(r, n) = p
            BY <2>4, <3>3, <5>1, <6>1, OneChild
          <6>3. r \in RoutesBelow(t, StepOf(r, n), parts)
            BY <3>3, <5>1
          <6> QED
            BY <3>5, <6>1, <6>2, <6>3
        <5>2. CASE Kind(LastOf(StepOf(r, n))) = "wild"
          BY <3>3, <5>2 DEF ChildrenOf
        <5> QED
          BY <3>3, <5>1, <5>2
      <4>4. Answers(vw, t, n, path) /\ vw.params \in Seq(Binding)
        BY <4>3, WildAnswers DEF vw
      <4>5. After(<<>>, vw) = vw
        <5>1. IsResult(vw)
          BY <4>4 DEF Answers
        <5>2. <<>> \in Seq(Binding)
          OBVIOUS
        <5> QED
          BY <4>4, <5>1, <5>2, AfterOf
      <4> QED
        BY <4>2, <4>4, <4>5
    <3> QED
      BY <3>4, <3>5
  <2> QED
    BY <2>5, <2>6
<1> QED
  BY <1>1, <1>2

\* The routes of a trie that match a path
MatchingNodes(t, parts) == {r \in DOMAIN t : t[r] # NoRoute /\ Matches(r, parts)}

\* search finds the best of the matching routes of a trie and binds exactly that
\* route's parameters.
LEMMA SearchBest ==
    ASSUME NEW t, TrieOK(t), WildsRouted(t),
           NEW path \in Seq(Piece), Parts(path) \in RequestParts
    PROVE  /\ IsResult(Search(t, path, path))
           /\ MatchingNodes(t, Parts(path)) = {} => Search(t, path, path) = Miss
           /\ MatchingNodes(t, Parts(path)) # {} =>
                \E best \in MatchingNodes(t, Parts(path)) :
                   /\ \A r \in MatchingNodes(t, Parts(path)) \ {best} : Beats(best, r)
                   /\ Search(t, path, path).found = {t[best]}
                   /\ Search(t, path, path).params = Bindings(best, path, path)
<1> DEFINE parts == Parts(path)
<1>1. PICK f : Computes(f, t, path, path) /\ Search(t, path, path) = f[<<>>]
  BY SearchDefined
<1> DEFINE Q == {n \in DOMAIN t : OnWay(n, parts) => Answers(f[n], t, n, path)}
<1>2. ASSUME NEW n \in DOMAIN t, \A c \in DOMAIN t : Len(c) = Len(n) + 1 => c \in Q
      PROVE  n \in Q
  <2>1. \A c \in Children(t, n) : OnWay(c, parts) => Answers(f[c], t, c, path)
    <3>1. \A c \in Children(t, n) : c \in DOMAIN t /\ Len(c) = Len(n) + 1
      BY DEF Children
    <3> QED
      BY <1>2, <3>1
  <2>2. f[n] = SearchBelow(t, path, path, f, n)
    BY <1>1 DEF Computes
  <2>3. OnWay(n, parts) => Answers(SearchBelow(t, path, path, f, n), t, n, path)
    BY <2>1, SearchStep
  <2> QED
    BY <2>2, <2>3
<1>3. DOMAIN t \subseteq Q
  <2> HIDE DEF Q
  <2> QED
    BY <1>2, Downward
<1>4. <<>> \in DOMAIN t /\ Len(<<>>) = 0
  BY DEF TrieOK, WellFormed
<1>5. OnWay(<<>>, parts)
  <2>1. Len(parts) \in Nat
    BY DEF RequestParts
  <2> QED
    BY <1>4, <2>1 DEF OnWay, IsWild
<1> DEFINE result == Search(t, path, path)
<1>6. Answers(result, t, <<>>, path)
  BY <1>1, <1>3, <1>4, <1>5
<1> HIDE DEF result
<1>7. RoutesBelow(t, <<>>, parts) = MatchingNodes(t, parts)
  <2>1. ASSUME NEW r \in DOMAIN t PROVE Len(r) >= Len(<<>>) /\ SubSeq(r, 1, Len(<<>>)) = <<>>
    <3>1. r \in Seq(Piece)
      BY DEF TrieOK, WellFormed
    <3>2. Len(r) \in Nat /\ SubSeq(r, 1, 0) = <<>>
      BY <3>1
    <3> QED
      BY <1>4, <3>2
  <2> QED
    BY <2>1 DEF RoutesBelow, MatchingNodes
<1>8. ASSUME NEW best, NEW b, AnswersWith(result, t, <<>>, path, best, b)
      PROVE  /\ best \in MatchingNodes(t, parts)
             /\ \A r \in MatchingNodes(t, parts) \ {best} : Beats(best, r)
             /\ result.found = {t[best]}
             /\ result.params = Bindings(best, path, path)
  <2>1. b[0] = <<>> /\ Bindings(best, path, path) = b[Len(best)]
    BY <1>8 DEF AnswersWith, Binds
  <2>2. b[0] \o result.params = b[Len(best)] /\ result.params \in Seq(Binding)
    BY <1>4, <1>8 DEF AnswersWith
  <2>3. <<>> \o result.params = result.params
    BY <2>2, ConcatEmptySeq
  <2>4. Best(t, <<>>, parts, best) /\ result.found = {t[best]}
    BY <1>8 DEF AnswersWith
  <2> QED
    BY <1>7, <2>1, <2>2, <2>3, <2>4 DEF Best
<1>9. MatchingNodes(t, parts) # {} =>
        \E best \in MatchingNodes(t, parts) :
           /\ \A r \in MatchingNodes(t, parts) \ {best} : Beats(best, r)
           /\ result.found = {t[best]}
           /\ result.params = Bindings(best, path, path)
  <2>1. MatchingNodes(t, parts) # {} => \E best, b : AnswersWith(result, t, <<>>, path, best, b)
    BY <1>6, <1>7 DEF Answers
  <2> QED
    BY <1>8, <2>1
<1>10. MatchingNodes(t, parts) = {} => result = Miss
  BY <1>6, <1>7 DEF Answers
<1>11. IsResult(result)
  BY <1>6 DEF Answers
<1> QED
  BY <1>9, <1>10, <1>11 DEF result

-----------------------------------------------------------------------------
(* Nodes without a route *)

\* Branches that miss, a parameter that is there or not among them.
LEMMA MissedBranches ==
    /\ \A p, r : IsResult(r) => After(p, r) = [found |-> r.found, params |-> p \o r.params]
    /\ \A b, bound : Branches(Miss, b, bound, Miss, Miss) = Miss
<1>1. ASSUME NEW p, NEW r, IsResult(r)
      PROVE  After(p, r) = [found |-> r.found, params |-> p \o r.params]
  <2>1. ASSUME NEW a, NEW b
        PROVE  After(p, [found |-> a, params |-> b]) = [found |-> a, params |-> p \o b]
    <3>1. ASSUME NEW c
          PROVE  [[found |-> a, params |-> b] EXCEPT !.params = c] = [found |-> a, params |-> c]
      OBVIOUS
    <3> DEFINE e == [found |-> a, params |-> b]
    <3>2. e.params = b
      OBVIOUS
    <3>3. [e EXCEPT !.params = p \o e.params] = [found |-> a, params |-> p \o e.params]
      BY <3>1
    <3> HIDE DEF e
    <3>4. After(p, e) = [found |-> a, params |-> p \o b]
      BY <3>2, <3>3 DEF After
    <3> QED
      BY <3>4 DEF e
  <2> QED
    BY <1>1, <2>1 DEF IsResult
<1>2. Miss.found = {} /\ Miss.params = <<>> /\ IsResult(Miss) /\ <<>> \o <<>> = <<>>
  BY ConcatEmptySeq DEF Miss, IsResult
<1>3. After(<<>>, Miss) = Miss
  <2>1. After(<<>>, Miss) = [found |-> Miss.found, params |-> <<>> \o Miss.params]
    BY <1>1, <1>2
  <2> QED
    BY <1>2, <2>1 DEF IsResult
<1>4. ASSUME NEW b, NEW bound PROVE Branches(Miss, b, bound, Miss, Miss) = Miss
  BY <1>2, <1>3 DEF Branches
<1> QED
  BY <1>1, <1>4

\* A parameter that misses counts as one that is not there.
LEMMA AbsentParam ==
    ASSUME NEW s, NEW b1, NEW b2, NEW x, NEW w
    PROVE  Branches(s, TRUE, b1, Miss, w) = Branches(s, FALSE, b2, x, w)
<1>1. Miss.found = {}
  BY DEF Miss
<1> QED
  BY <1>1 DEF Branches

\* New nodes without a route, no wildcard among them, change no search: the
\* branch that enters one comes back without a result and without values.
LEMMA SearchExtended ==
    ASSUME NEW t, TrieOK(t), NEW more, WellFormed(DOMAIN t \cup more),
           \A n \in more : IsWild(n) => n \in DOMAIN t, NEW match, NEW raw
    PROVE  Search(Extended(t, more), match, raw) = Search(t, match, raw)
<1> DEFINE u == Extended(t, more)
<1>1. /\ u = [n \in DOMAIN u |-> u[n]]
      /\ \A n : n \in DOMAIN u <=> n \in DOMAIN t \/ n \in more
      /\ \A n \in DOMAIN t : u[n] = t[n]
      /\ \A n \in DOMAIN u : n \notin DOMAIN t => u[n] = NoRoute
  BY DEF Extended
<1>2. TrieOK(u)
  BY <1>1 DEF TrieOK, Extended
<1> HIDE DEF u
<1>3. PICK g : Computes(g, t, match, raw) /\ Search(t, match, raw) = g[<<>>]
  BY SearchDefined
<1>4. PICK f : Computes(f, u, match, raw) /\ Search(u, match, raw) = f[<<>>]
  BY <1>2, SearchDefined
<1>5. /\ \A n \in DOMAIN t : g[n] = SearchBelow(t, match, raw, g, n)
      /\ \A n \in DOMAIN u : f[n] = SearchBelow(u, match, raw, f, n)
  BY <1>3, <1>4 DEF Computes
<1>6. ASSUME NEW n \in DOMAIN u, n \notin DOMAIN t, NEW c \in Children(u, n)
      PROVE  c \notin DOMAIN t
  <2>1. SubSeq(c, 1, Len(n)) = n /\ Len(n) \in 0 .. Len(c)
    BY <1>2, Child
  <2> QED
    BY <1>6, <2>1 DEF TrieOK, WellFormed
<1>7. ASSUME NEW n \in DOMAIN u, NEW c \in Children(u, n), Kind(LastOf(c)) = "wild"
      PROVE  c \in DOMAIN t
  <2>1. c \in DOMAIN u /\ Len(c) = Len(n) + 1 /\ Len(n) \in Nat
    BY <1>2, Child
  <2>2. IsWild(c)
    BY <1>7, <2>1 DEF IsWild
  <2> QED
    BY <1>1, <2>1, <2>2
<1>8. ASSUME NEW n \in DOMAIN t, NEW kind
      PROVE  ChildrenOf(t, n, kind) = {c \in ChildrenOf(u, n, kind) : c \in DOMAIN t}
  BY <1>1 DEF ChildrenOf, Children
<1> DEFINE Q == {n \in DOMAIN u : f[n] = IF n \in DOMAIN t THEN g[n] ELSE Miss}
<1>9. ASSUME NEW n \in DOMAIN u, \A c \in DOMAIN u : Len(c) = Len(n) + 1 => c \in Q
      PROVE  n \in Q
  <2>1. n \in Seq(Piece) /\ Len(n) \in Nat
    BY <1>2 DEF TrieOK, WellFormed
  <2>2. ASSUME NEW c \in Children(u, n)
        PROVE  f[c] = IF c \in DOMAIN t THEN g[c] ELSE Miss
    <3>1. c \in DOMAIN u /\ Len(c) = Len(n) + 1
      BY <1>2, Child
    <3> QED
      BY <1>9, <3>1
  <2> HIDE DEF Q
  <2> DEFINE static == Append(n, Parts(match)[Len(n) + 1])
             params == ChildrenOf(u, n, "param")
             deep   == Len(n) = Len(Parts(match))
  <2>3. static \in DOMAIN u => f[static] = IF static \in DOMAIN t THEN g[static] ELSE Miss
    <3>1. Len(static) = Len(n) + 1
      BY <2>1, OneLonger
    <3> HIDE DEF static
    <3> QED
      BY <1>9, <3>1 DEF Q
  <2>4. params # {} => ParamChild(u, n) \in params /\ ParamChild(u, n) \in Children(u, n)
    BY DEF ParamChild, ChildrenOf
  <2>5. CASE n \notin DOMAIN t
    <3>1. ChildrenOf(u, n, "wild") = {}
      BY <1>6, <1>7, <2>5 DEF ChildrenOf
    <3>2. ViaWild(u, match, raw, n) = Miss
      BY <3>1 DEF ViaWild
    <3>3. ViaStatic(u, match, f, n) = Miss
      <4>1. CASE static \in DOMAIN u
        <5>1. static \in Seq(Piece) /\ Len(static) = Len(n) + 1
          <6>1. Len(static) = Len(n) + 1
            BY <2>1, OneLonger
          <6> HIDE DEF static
          <6> QED
            BY <1>2, <4>1, <6>1 DEF TrieOK, WellFormed
        <5>2. SubSeq(static, 1, Len(n)) = n
          <6> DEFINE x == Parts(match)[Len(n) + 1]
                     S == Piece \cup {x}
          <6>1. n \in Seq(S) /\ x \in S
            BY <2>1
          <6> HIDE DEF x, S
          <6>2. Len(Append(n, x)) = Len(n) + 1 /\ Append(n, x) \in Seq(S)
                /\ \A i \in 1 .. Len(n) : Append(n, x)[i] = n[i]
            BY <6>1
          <6>3. Len(n) \in 0 .. Len(Append(n, x))
            BY <2>1, <6>2
          <6>4. /\ SubSeq(Append(n, x), 1, Len(n)) \in Seq(S) /\ Len(SubSeq(Append(n, x), 1, Len(n))) = Len(n)
                /\ \A i \in 1 .. Len(n) : SubSeq(Append(n, x), 1, Len(n))[i] = Append(n, x)[i]
            BY <6>2, <6>3, PrefixOf
          <6>5. SubSeq(Append(n, x), 1, Len(n)) = n
            BY <6>1, <6>2, <6>4, SeqEqual
          <6> QED
            BY <6>5 DEF x
        <5>3. static \in Children(u, n)
          <6> HIDE DEF static
          <6> QED
            BY <4>1, <5>1, <5>2 DEF Children
        <5> QED
          BY <1>6, <2>3, <2>5, <4>1, <5>3 DEF ViaStatic
      <4>2. CASE static \notin DOMAIN u
        BY <4>2 DEF ViaStatic
      <4> QED
        BY <4>1, <4>2
    <3>4. params # {} => f[ParamChild(u, n)] = Miss
      BY <1>6, <2>2, <2>4, <2>5
    <3>5. u[n] = NoRoute
      BY <1>1, <2>5
    <3>6. CASE deep
      <4>1. f[n] = Miss
        BY <1>5, <3>2, <3>5, <3>6 DEF SearchBelow
      <4> QED
        BY <2>5, <4>1 DEF Q
    <3>7. CASE ~deep
      <4> DEFINE bound == Bound(ParamChild(u, n), Value(match, raw, Len(n)))
                 x     == f[ParamChild(u, n)]
      <4>1. f[n] = Branches(Miss, params # {}, bound, x, Miss)
        BY <1>5, <3>2, <3>3, <3>7 DEF SearchBelow
      <4> HIDE DEF bound, x
      <4>2. CASE params # {}
        <5>1. x = Miss
          BY <3>4, <4>2 DEF x
        <5> QED
          BY <2>5, <4>1, <5>1, MissedBranches DEF Q
      <4>3. CASE params = {}
        <5>1. f[n] = Branches(Miss, FALSE, bound, x, Miss)
          BY <4>1, <4>3
        <5>2. f[n] = Branches(Miss, TRUE, bound, Miss, Miss)
          <6>1. Branches(Miss, TRUE, bound, Miss, Miss) = Branches(Miss, FALSE, bound, x, Miss)
            BY AbsentParam
          <6> QED
            BY <5>1, <6>1
        <5> QED
          BY <2>5, <5>2, MissedBranches DEF Q
      <4> QED
        BY <4>2, <4>3
    <3> QED
      BY <3>6, <3>7
  <2>6. CASE n \in DOMAIN t
    <3>1. ChildrenOf(u, n, "wild") = ChildrenOf(t, n, "wild")
      <4>1. \A c \in ChildrenOf(u, n, "wild") : c \in DOMAIN t
        BY <1>7 DEF ChildrenOf
      <4> QED
        BY <1>8, <2>6, <4>1
    <3>2. ViaWild(u, match, raw, n) = ViaWild(t, match, raw, n)
      <4>1. WildChild(u, n) = WildChild(t, n)
        BY <3>1 DEF WildChild
      <4>2. ChildrenOf(t, n, "wild") # {} =>
               WildChild(t, n) \in DOMAIN t /\ u[WildChild(t, n)] = t[WildChild(t, n)]
        <5>1. ChildrenOf(t, n, "wild") # {} => WildChild(t, n) \in ChildrenOf(t, n, "wild")
          BY DEF WildChild
        <5> QED
          BY <1>1, <5>1 DEF ChildrenOf, Children
      <4> QED
        BY <3>1, <4>1, <4>2 DEF ViaWild
    <3>3. ViaStatic(u, match, f, n) = ViaStatic(t, match, g, n)
      <4>1. static \in DOMAIN t => static \in DOMAIN u
        BY <1>1
      <4> QED
        BY <2>3, <4>1 DEF ViaStatic
    <3>4. u[n] = t[n]
      BY <1>1, <2>6
    <3>5. CASE deep
      <4>1. f[n] = g[n]
        BY <1>5, <2>6, <3>2, <3>4, <3>5 DEF SearchBelow
      <4> QED
        BY <2>6, <4>1 DEF Q
    <3>6. CASE ~deep
      <4> DEFINE value    == Value(match, raw, Len(n))
                 old      == ChildrenOf(t, n, "param")
                 stat     == ViaStatic(t, match, g, n)
                 wild     == ViaWild(t, match, raw, n)
      <4>1. f[n] = Branches(stat, params # {}, Bound(ParamChild(u, n), value), f[ParamChild(u, n)], wild)
        BY <1>5, <3>2, <3>3, <3>6 DEF SearchBelow
      <4>2. g[n] = Branches(stat, old # {}, Bound(ParamChild(t, n), value), g[ParamChild(t, n)], wild)
        BY <1>5, <2>6, <3>6 DEF SearchBelow
      <4> HIDE DEF stat, wild, value
      <4>3. \A c \in params : \A d \in params : c = d
        BY <1>2, OneChild DEF ChildrenOf
      <4>4. CASE old # {}
        <5>1. old = params
          BY <1>8, <2>6, <4>3, <4>4
        <5>2. ParamChild(u, n) = ParamChild(t, n)
          BY <5>1 DEF ParamChild
        <5>3. ParamChild(t, n) \in DOMAIN t
          BY <1>8, <2>4, <2>6, <4>4, <5>1, <5>2
        <5>4. f[ParamChild(u, n)] = g[ParamChild(t, n)]
          BY <2>2, <2>4, <4>4, <5>1, <5>2, <5>3
        <5>5. f[n] = g[n]
          BY <4>1, <4>2, <5>1, <5>2, <5>4
        <5> QED
          BY <2>6, <5>5 DEF Q
      <4>5. CASE old = {} /\ params = {}
        <5> DEFINE x  == f[ParamChild(u, n)]
                   y  == g[ParamChild(t, n)]
                   bu == Bound(ParamChild(u, n), value)
                   bt == Bound(ParamChild(t, n), value)
        <5>1. f[n] = Branches(stat, FALSE, bu, x, wild) /\ g[n] = Branches(stat, FALSE, bt, y, wild)
          BY <4>1, <4>2, <4>5
        <5> HIDE DEF x, y, bu, bt
        <5>2. f[n] = g[n]
          BY <5>1 DEF Branches
        <5> QED
          BY <2>6, <5>2 DEF Q
      <4>6. CASE old = {} /\ params # {}
        <5> DEFINE y  == g[ParamChild(t, n)]
                   bu == Bound(ParamChild(u, n), value)
                   bt == Bound(ParamChild(t, n), value)
        <5>1. ParamChild(u, n) \notin DOMAIN t
          BY <1>8, <2>4, <2>6, <4>6
        <5>2. f[ParamChild(u, n)] = Miss
          BY <2>2, <2>4, <4>6, <5>1
        <5>3. f[n] = Branches(stat, TRUE, bu, Miss, wild) /\ g[n] = Branches(stat, FALSE, bt, y, wild)
          BY <4>1, <4>2, <4>6, <5>2
        <5> HIDE DEF y, bu, bt
        <5>4. f[n] = Branches(stat, FALSE, bt, y, wild)
          BY <5>3, AbsentParam
        <5>5. f[n] = g[n]
          BY <5>3, <5>4
        <5> QED
          BY <2>6, <5>5 DEF Q
      <4> QED
        BY <4>4, <4>5, <4>6
    <3> QED
      BY <3>5, <3>6
  <2> QED
    BY <2>5, <2>6
<1>10. DOMAIN u \subseteq Q
  <2> HIDE DEF Q
  <2> QED
    BY <1>2, <1>9, Downward
<1>11. <<>> \in DOMAIN t /\ <<>> \in DOMAIN u
  BY <1>2 DEF TrieOK, WellFormed
<1>12. f[<<>>] = g[<<>>]
  BY <1>10, <1>11
<1> QED
  BY <1>3, <1>4, <1>12 DEF u
=============================================================================
