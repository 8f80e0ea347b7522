------------------------------ MODULE RouteTrie ------------------------------
(***************************************************************************)
(* The routing trie of one method (router/trie.go).                        *)
(*                                                                         *)
(* A node is named by the parts on the way from the root to it, so a trie  *)
(* is a function from a prefix-closed set of part sequences to the route   *)
(* of each node (NoRoute when the node has no pattern).  How the static    *)
(* children of a node are stored (a small slice or a map) is left out.     *)
(***************************************************************************)
EXTENDS Paths, FiniteSets

CONSTANTS
    NoRoute     \* "this node has no pattern"

EmptyTrie == [n \in {<<>>} |-> NoRoute]

IsWild(n)        == n # <<>> /\ Kind(LastOf(n)) = "wild"
Children(t, n)   == {c \in DOMAIN t : Len(c) = Len(n) + 1 /\ SubSeq(c, 1, Len(n)) = n}
ChildrenOf(t, n, kind) == {c \in Children(t, n) : Kind(LastOf(c)) = kind}

-----------------------------------------------------------------------------
(* insert *)

\* mutant: a parameter and a wildcard may be neighbours
ConflictsOfNames(t, n, part) ==
    \E c \in ChildrenOf(t, n, Kind(part)) : Kind(part) # "static" /\ LastOf(c) # part

\* The conflicts of a new part at a node: another name for the parameter (or
\* the wildcard) of this level, or a parameter next to a wildcard.
Conflicts(t, n, part) ==
    CASE Kind(part) = "param" ->
            \/ \E c \in ChildrenOf(t, n, "param") : LastOf(c) # part
            \/ ChildrenOf(t, n, "param") = {} /\ ChildrenOf(t, n, "wild") # {}
      [] Kind(part) = "wild" ->
            \/ \E c \in ChildrenOf(t, n, "wild") : LastOf(c) # part
            \/ ChildrenOf(t, n, "wild") = {} /\ ChildrenOf(t, n, "param") # {}
      [] OTHER -> FALSE

\* One level down: stop at a conflict, otherwise reuse or create the child.
Descend(st, parts, height) ==
    LET parent == SubSeq(parts, 1, height - 1)
        child  == SubSeq(parts, 1, height)
    IN  IF st.failed THEN st
        ELSE IF Conflicts(st.trie, parent, parts[height]) THEN [st EXCEPT !.failed = TRUE]
        ELSE IF child \in DOMAIN st.trie THEN st
        ELSE [st EXCEPT !.trie =
                 [n \in DOMAIN @ \cup {child} |-> IF n = child THEN NoRoute ELSE @[n]]]

\* mutant: a duplicate is not refused
InsertDuplicate(t, parts, route) ==
    LET at[height \in 0 .. Len(parts)] ==
            IF height = 0 THEN [trie |-> t, failed |-> FALSE]
            ELSE Descend(at[height - 1], parts, height)
    IN  IF at[Len(parts)].failed \/ at[Len(parts)].trie[parts] # NoRoute THEN at[Len(parts)]
        ELSE [at[Len(parts)] EXCEPT !.trie[parts] = route]

\* mutant: a duplicate is refused after it has replaced the route
InsertClobbers(t, parts, route) ==
    LET at[height \in 0 .. Len(parts)] ==
            IF height = 0 THEN [trie |-> t, failed |-> FALSE]
            ELSE Descend(at[height - 1], parts, height)
        end == at[Len(parts)]
    IN  IF end.failed THEN end
        ELSE [trie |-> [end.trie EXCEPT ![parts] = route], failed |-> end.trie[parts] # NoRoute]

\* insert walks the parts, creating nodes on its way, and attaches the route to
\* the last node unless that node has one (a duplicate).  It fails at a node that
\* was there before, so that nothing it has created is ever left behind.
Insert(t, parts, route) ==
    LET at[height \in 0 .. Len(parts)] ==
            IF height = 0 THEN [trie |-> t, failed |-> FALSE]
            ELSE Descend(at[height - 1], parts, height)
        end == at[Len(parts)]
    IN  IF end.failed THEN end
        ELSE IF end.trie[parts] # NoRoute THEN [end EXCEPT !.failed = TRUE]
        ELSE [end EXCEPT !.trie[parts] = route]

-----------------------------------------------------------------------------
(* search *)

Miss == [found |-> {}, params |-> <<>>]
Hit(route, params) == [found |-> {route}, params |-> params]
After(params, r) == [r EXCEPT !.params = params \o @]

Bound(n, value) == <<[name |-> Text(LastOf(n)), value |-> value]>>
\* A parameter takes one part of the path,
Value(match, raw, height) == <<raw[Index(match, height)]>>
\* a wildcard the rest of it, slashes included.
Rest(match, raw, height)  == SubSeq(raw, Index(match, height), Len(raw))

\* mutant: a parameter that fails leaves its value behind
BranchesLeaky(static, hasParam, bound, param, wild) ==
    LET viaParam == After(static.params \o bound, param)
    IN  IF static.found # {} THEN static
        ELSE IF hasParam /\ param.found # {} THEN viaParam
        ELSE After(IF hasParam THEN viaParam.params ELSE static.params, wild)

\* The static branch first, then the parameter, then the wildcard.  What a
\* failed branch has appended stays, except that a parameter that fails cuts
\* Params to what they were before it.
Branches(static, hasParam, bound, param, wild) ==
    LET viaParam == After(static.params \o bound, param)
    IN  IF static.found # {} THEN static
        ELSE IF hasParam /\ param.found # {} THEN viaParam
        ELSE After(static.params, wild)

\* The search below the root: the route found, if any, and Params.  match is the
\* path compared with the nodes, raw the path that values are cut from.
Search(t, match, raw) ==
    LET parts == Parts(match)
        below[n \in DOMAIN t] ==
            LET height == Len(n)
                static == Append(n, parts[height + 1])
                params == ChildrenOf(t, n, "param")
                child  == CHOOSE c \in params : TRUE
                wilds  == ChildrenOf(t, n, "wild")
                wild   == CHOOSE c \in wilds : TRUE
                inWild == IF wilds = {} THEN Miss
                          ELSE Hit(t[wild], Bound(wild, Rest(match, raw, height)))
            IN  IF height = Len(parts)
                \* a node without a pattern gives the empty rest to its wildcard
                THEN IF t[n] # NoRoute THEN Hit(t[n], <<>>) ELSE inWild
                ELSE Branches(IF static \in DOMAIN t THEN below[static] ELSE Miss,
                              params # {},
                              Bound(child, Value(match, raw, height)),
                              below[child],
                              inWild)
    IN  below[<<>>]

-----------------------------------------------------------------------------
(* What search has to compute, by enumeration of the routes *)

\* The parts of a route match the parts of a path.
Matches(route, parts) ==
    LET n == Len(route)
    IN  IF IsWild(route)
        THEN /\ Len(parts) >= n - 1
             /\ \A i \in 1 .. n - 1 : Kind(route[i]) = "param" \/ route[i] = parts[i]
        ELSE /\ Len(parts) = n
             /\ \A i \in 1 .. n : Kind(route[i]) = "param" \/ route[i] = parts[i]

Rank(kind) == CASE kind = "static" -> 1 [] kind = "param" -> 2 [] kind = "wild" -> 3

\* Static > Param > Wild, decided at the first part where two matching routes
\* differ; a route that ends there is exact and goes before a wildcard.
Beats(r1, r2) ==
    \E i \in 1 .. Len(r2) :
        /\ Len(r1) >= i - 1
        /\ SubSeq(r1, 1, i - 1) = SubSeq(r2, 1, i - 1)
        /\ Len(r1) >= i => Rank(Kind(r1[i])) < Rank(Kind(r2[i]))

\* The values a route's parameters have for a path, in the order of the parts.
Bindings(route, match, raw) ==
    LET value(n) == IF Kind(route[n]) = "param" THEN <<Parts(raw)[n]>>
                    ELSE SubSeq(raw, Index(match, n - 1), Len(raw))
        upTo[n \in 0 .. Len(route)] ==
            IF n = 0 THEN <<>>
            ELSE IF Kind(route[n]) = "static" THEN upTo[n - 1]
            ELSE Append(upTo[n - 1], [name |-> Text(route[n]), value |-> value(n)])
    IN  upTo[Len(route)]
=============================================================================
