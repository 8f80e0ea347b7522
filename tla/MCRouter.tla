------------------------------- MODULE MCRouter -------------------------------
(* Routers, live and frozen, in small programs. *)
EXTENDS FrozenRouter

a == Static("a")
b == Static("b")
A == Static("A")    \* lower case: a
x == Param("x")
y == Param("y")
w == Wild("w")

MCLower == [s \in {"A"} |-> "a"]

\* The paths over the pieces up to a length, with or without a trailing slash.
PathsOver(pieces, n) ==
    LET plain == UNION {[1 .. k -> pieces] : k \in 1 .. n}
    IN  plain \cup {Append(p, Empty) : p \in plain} \cup {Root}

RequestsFor(methods, hosts, paths, raws) ==
    [method : methods, host : hosts, path : paths, raw : raws]

\* Backtracking: static, parameter and wildcard routes that share beginnings, so
\* that a path enters branches that fail two levels down.
Backtrack ==
    [StrictSlash |-> TRUE, UseRawPath |-> FALSE, IgnoreCases |-> {FALSE}, freezes |-> FALSE,
     MaxDepth |-> 3, MaxRoutes |-> 4,
     offers   |-> {""} \X {"GET"} \X
        {Root, <<a>>, <<a, Empty>>, <<a, b>>, <<x>>, <<a, x>>, <<x, b>>, <<a, x, b>>,
         <<a, b, a>>, <<x, y, a>>, <<x, a, w>>, <<a, w>>, <<w>>, <<b, w, Empty>>, <<a, y, a>>},
     requests |-> RequestsFor({"GET"}, {""}, PathsOver({a, b}, 3), {FALSE})]

\* Slashes and methods: a few static routes in both forms and one of each other
\* kind, for three methods and a little of HEAD, and patterns that are refused.
Slash ==
    [StrictSlash |-> TRUE, UseRawPath |-> FALSE, IgnoreCases |-> {FALSE}, freezes |-> FALSE,
     MaxDepth |-> 2, MaxRoutes |-> 3,
     offers   |-> {""} \X {"GET", "POST", "OPTIONS"} \X
        {Root, <<a>>, <<a, Empty>>, <<a, b, Empty>>, <<a, x>>, <<b, w>>, <<w, a>>, <<x, x>>,
         <<a, Empty, b>>} \cup {<<"", "HEAD", <<a>>>>, <<"", "HEAD", <<x, x>>>>},
     requests |-> RequestsFor({"GET", "HEAD", "POST", "OPTIONS"}, {""},
        PathsOver({a, b}, 2) \cup {<<a, Empty, b>>, <<a, Up, b>>, <<b, Dot>>}, {FALSE})]

\* Hosts and case, without StrictSlash: two tables, upper and lower case, raw
\* paths, and IgnoreCase assigned at any moment.
Host ==
    [StrictSlash |-> FALSE, UseRawPath |-> TRUE, IgnoreCases |-> BOOLEAN, freezes |-> FALSE,
     MaxDepth |-> 3, MaxRoutes |-> 3,
     offers   |-> {"", "h"} \X {"GET", "POST"} \X {<<a>>, <<A>>, <<a, Empty>>, <<A, x>>},
     requests |-> RequestsFor({"GET", "POST"}, {"", "h", "other"},
        {<<a>>, <<A>>, <<a, Empty>>, <<A, Empty>>, <<a, A>>, <<a, A, Empty>>, Root,
         <<a, Empty, A>>, <<Empty, a>>}, BOOLEAN)]

\* Freeze at any moment: chains that are compressed, and routes that cut them at
\* each level.
Chains ==
    [StrictSlash |-> TRUE, UseRawPath |-> TRUE, IgnoreCases |-> {FALSE}, freezes |-> TRUE,
     MaxDepth |-> 4, MaxRoutes |-> 3,
     offers   |-> {""} \X {"GET"} \X
        {<<a>>, <<a, b, Empty>>, <<a, b, a>>, <<a, b, b>>, <<a, b, a, b>>, <<a, b, x>>,
         <<a, x, a>>, <<x, b, a>>, <<x, a, b, y>>, <<a, b, w>>, <<w>>},
     requests |-> RequestsFor({"GET", "POST"}, {""}, PathsOver({a, b}, 4), {TRUE})]

MCSetups    == {Backtrack, Slash, Host, Chains}
LoopSetups  == {Slash}
\* An escaped path with an empty segment
SlashSetups == {[Chains EXCEPT !.requests = RequestsFor({"GET"}, {""}, {<<a, Empty, b, a>>}, {TRUE})]}
=============================================================================
