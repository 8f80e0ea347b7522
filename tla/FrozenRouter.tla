----------------------------- MODULE FrozenRouter -----------------------------
(***************************************************************************)
(* The immutable copy of a router (router/frozen.go).  Freeze copies the   *)
(* tables and compresses every chain of static nodes without a branch into *)
(* one node with a span of several parts; the copy then answers with its   *)
(* own search, while the router may go on registering.                     *)
(***************************************************************************)
EXTENDS Router

VARIABLE
    frozen  \* the frozen routers made: none, or the last one, as
            \* [tables, ignoreCase, routes (history: accepted at Freeze)]

frozenVars == <<vars, frozen>>

-----------------------------------------------------------------------------
(* Freeze *)

OneStatic(t, n) == \E c \in ChildrenOf(t, n, "static") : ChildrenOf(t, n, "static") = {c}

\* mutant: a pattern does not end a chain
EndsChainAtBranches(t, n) ==
    \/ ChildrenOf(t, n, "param") \cup ChildrenOf(t, n, "wild") # {}
    \/ ~OneStatic(t, n)

\* mutant: a parameter or a wildcard below does not end a chain
EndsChainAtRoutes(t, n) == t[n] # NoRoute \/ ~OneStatic(t, n)

\* Where compressStaticChain stops: at a pattern, a parameter or a wildcard
\* child, or a node that has not exactly one static child.
EndsChain(t, n) ==
    \/ t[n] # NoRoute
    \/ ChildrenOf(t, n, "param") \cup ChildrenOf(t, n, "wild") # {}
    \/ ~OneStatic(t, n)

IsStatic(n) == n # <<>> /\ Kind(LastOf(n)) = "static"

\* A frozen trie maps the nodes it keeps (a chain is kept as its end) to their
\* route and the number of parts in their span, 0 for all but static nodes.
freezeRoot(t) ==
    LET kept == {n \in DOMAIN t : IsStatic(n) => EndsChain(t, n)}
        \* the height at which the span of n starts: the nearest node above it
        start(n) == CHOOSE k \in 0 .. Len(n) - 1 :
                        /\ SubSeq(n, 1, k) \in kept
                        /\ \A j \in k + 1 .. Len(n) - 1 : SubSeq(n, 1, j) \notin kept
    IN  [n \in kept |-> [route |-> t[n],
                         span  |-> IF IsStatic(n) THEN Len(n) - start(n) ELSE 0]]

freezeTable(t) == [t EXCEPT !.roots = [m \in DOMAIN @ |-> freezeRoot(@[m])]]

-----------------------------------------------------------------------------
(* The search of a frozen trie *)

\* The static child of n for a part: static children are keyed by the first
\* part of their span.
SpanChildren(f, n, part) ==
    {c \in DOMAIN f : /\ f[c].span > 0 /\ Len(c) - f[c].span = Len(n)
                      /\ SubSeq(c, 1, Len(n)) = n /\ c[Len(n) + 1] = part}

\* The span of c is compared as one string with the path from its first part to
\* the end of its last part, whatever lies between them.
SpanMatches(f, c, match) ==
    LET from == Len(c) - f[c].span
    IN  /\ Len(c) <= Len(Parts(match))
        /\ SubSeq(match, Index(match, from), Index(match, Len(c) - 1))
              = SubSeq(c, from + 1, Len(c))

FrozenSearch(f, match, raw) ==
    LET parts == Parts(match)
        below[n \in DOMAIN f] ==
            LET height  == Len(n)
                statics == SpanChildren(f, n, parts[height + 1])
                static  == CHOOSE c \in statics : TRUE
                params  == ChildrenOf(f, n, "param")
                child   == CHOOSE c \in params : TRUE
                wilds   == ChildrenOf(f, n, "wild")
                wild    == CHOOSE c \in wilds : TRUE
                inWild  == IF wilds = {} THEN Miss
                           ELSE Hit(f[wild].route, Bound(wild, Rest(match, raw, height)))
            IN  IF height = Len(parts)
                THEN IF f[n].route # NoRoute THEN Hit(f[n].route, <<>>) ELSE inWild
                ELSE Branches(IF \E c \in statics : SpanMatches(f, c, match)
                                 THEN below[static] ELSE Miss,
                              params # {},
                              Bound(child, Value(match, raw, height)),
                              below[child],
                              inWild)
    IN  below[<<>>]

Ice == INSTANCE Serve WITH SearchIn <- FrozenSearch,
                           StrictSlash <- setup.StrictSlash,
                           UseRawPath <- setup.UseRawPath,
                           MaxDepth <- setup.MaxDepth

-----------------------------------------------------------------------------

FrozenInit == Init /\ frozen = {}

\* Router.Freeze
Freeze ==
    /\ setup.freezes
    /\ frozen' = {[tables     |-> [host \in DOMAIN tables |-> freezeTable(tables[host])],
                   ignoreCase |-> IgnoreCaseActive,
                   routes     |-> accepted]}
    /\ UNCHANGED vars

FrozenNext ==
    \/ Next /\ UNCHANGED frozen
    \/ Freeze

FrozenSpec == FrozenInit /\ [][FrozenNext]_frozenVars

-----------------------------------------------------------------------------
(* Properties *)

FrozenAnswer(fr, req) == Ice!Resolve(fr.tables, fr.ignoreCase, req)

\* A frozen router answers every request as the router it was made from, as long
\* as nothing was registered since: same route, same parameters, same redirect,
\* same Allow header.
FrozenParity ==
    \A fr \in frozen : fr.routes = accepted /\ fr.ignoreCase = IgnoreCaseActive =>
        \A req \in Requests : FrozenAnswer(fr, req) = Answer(req)

\* A frozen router serves all the routes it was made from and nothing else,
\* whatever the router registers afterwards.
FrozenReachable ==
    \A fr \in frozen :
        /\ \A route \in fr.routes :
              LET answer == FrozenAnswer(fr, RequestFor(route))
              IN  answer.kind = "served" /\ answer.handler = route.handler
        /\ \A req \in Requests :
              FrozenAnswer(fr, req).kind = "served" =>
                  \E route \in fr.routes : route.handler = FrozenAnswer(fr, req).handler
=============================================================================
