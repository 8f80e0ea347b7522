-------------------------------- MODULE Groups ---------------------------------
(***************************************************************************)
(* Route groups and middlewares (router/group.go, the composition in       *)
(* Router.handle, router/pprof.go).  A middleware list is a Go slice: a    *)
(* backing array and a length, and append writes into the array when it    *)
(* has room.  The program around the router has a slice of its own, which  *)
(* it passes to several calls, appends to and assigns to.                  *)
(***************************************************************************)
EXTENDS Paths

CONSTANTS
    Programs,   \* what the program may do, see program
    NoHost,     \* the default table ("")
    Common,     \* argument: the program's own slice, see common
    Middleware, \* the middlewares there are
    Broken      \* a nil middleware, or one that returns a nil handler

ASSUME MiddlewareAssumption == {"common", "more", "other", Broken} \subseteq Middleware

\* A text that is passed as a prefix or a pattern, see NoText
PathText == [rooted : BOOLEAN, path : Seq(Piece) \ {<<>>}]

ASSUME ProgramsAssumption ==
    \A p \in Programs :
        /\ p.lists \subseteq Seq(Middleware) /\ p.spares \subseteq Nat
        /\ p.prefixes \subseteq PathText /\ p.patterns \subseteq PathText

VARIABLES
    program,        \* chosen at first and never changed:
                    \*   prefixes, patterns: texts it passes
                    \*   lists: middleware lists it passes, written out
                    \*   hosts: hosts it makes groups for
                    \*   spares: room a new array may have beyond its content
                    \*   MaxCalls: bound on its calls
    heap,           \* the backing arrays, one after the other
    common,         \* the program's own slice
    middlewares,    \* Router.middlewares
    groups,         \* the groups: [host, prefix, middlewares], and as history
                    \* what the program asked for: [asked, under]
    routes,         \* those registered: [host, method, pattern, chain], and as
                    \* history [asked, under, given]
    globals,        \* history: the middlewares that Router.Use accepted
    calls           \* the number of calls so far

vars == <<program, heap, common, middlewares, groups, routes, globals, calls>>

-----------------------------------------------------------------------------
(* Slices *)

NilSlice         == [arr |-> 0, len |-> 0]
Cap(h, s)        == IF s.arr = 0 THEN 0 ELSE Len(h[s.arr])
Elements(h, s)   == IF s.arr = 0 THEN <<>> ELSE SubSeq(h[s.arr], 1, s.len)
Room(n)          == [i \in 1 .. n |-> Broken]

\* A new array with these values and room for spare more.
Made(h, values, spare) ==
    [heap |-> Append(h, values \o Room(spare)), slice |-> [arr |-> Len(h) + 1, len |-> Len(values)]]

\* append(s, values...)
Appended(h, s, values, spare) ==
    LET len == s.len + Len(values)
    IN  IF values = <<>> THEN [heap |-> h, slice |-> s]
        ELSE IF len > Cap(h, s) THEN Made(h, Elements(h, s) \o values, spare)
        ELSE [heap  |-> [h EXCEPT ![s.arr] =
                            SubSeq(@, 1, s.len) \o values \o SubSeq(@, len + 1, Len(@))],
              slice |-> [s EXCEPT !.len = len]]

\* mutant: newGroup keeps the slice it is given
NewGroupKeeps(h, mw) == [heap |-> h, slice |-> mw]

\* newGroup copies the middlewares into an array of just their length.
newGroup(h, mw) == Made(h, Elements(h, mw), 0)

\* What a call is passed: its own slice for a list written out, or the common one
Passed(h, arg) == IF arg = Common THEN [heap |-> h, slice |-> common] ELSE Made(h, arg, 0)
Arguments      == program.lists \cup {Common}
Wanted(arg)    == IF arg = Common THEN Elements(heap, common) ELSE arg

-----------------------------------------------------------------------------
(* Prefixes and patterns *)

\* A text is a path with or without its first slash; "" is NoText.
NoText == [rooted |-> FALSE, path |-> Root]

\* cleanPrefix: a path without trailing slash, <<>> for "".
cleanPrefix(text) ==
    LET clean == CleanPath(text.path)
    IN  IF text = NoText \/ clean = Root THEN <<>>
        ELSE IF LastOf(clean) = Empty THEN FrontOf(clean) ELSE clean

\* mutant: the joined path is cleaned
JoinClean(prefix, text) ==
    IF prefix = <<>> THEN text ELSE [rooted |-> TRUE, path |-> CleanPath(prefix \o text.path)]

joinPaths(prefix, text) ==
    IF prefix = <<>> THEN text
    ELSE [rooted |-> TRUE, path |-> IF text = NoText THEN prefix ELSE prefix \o text.path]

-----------------------------------------------------------------------------
(* Registration *)

\* handle refuses a pattern that is not canonical or already taken, and a chain
\* with a broken middleware; module Router has the other reasons and the tables.
Registrable(taken, host, method, text, chain) ==
    /\ text.rooted /\ CleanPath(text.path) = text.path
    /\ \A r \in taken : <<r.host, r.method, r.pattern>> # <<host, method, text.path>>
    /\ \A i \in 1 .. Len(chain) : chain[i] # Broken

\* applyMiddlewares for the group and then for the router: outermost first.
Chain(group) == Elements(heap, middlewares) \o Elements(heap, group)

Init ==
    /\ program \in Programs
    /\ \E spare \in program.spares : heap = <<(<<"common">> \o Room(spare))>>
    /\ common = [arr |-> 1, len |-> 1]
    /\ middlewares = NilSlice
    /\ groups = <<>> /\ routes = {} /\ globals = <<>>
    /\ calls = 0

Call == calls < program.MaxCalls /\ calls' = calls + 1 /\ UNCHANGED program

\* mutant: Router.Use does not look at the routes
UseAnyTime(arg, spare) ==
    LET after == Appended(heap, middlewares, Wanted(arg), spare)
    IN  /\ Call
        /\ heap' = after.heap /\ middlewares' = after.slice
        /\ globals' = globals \o Wanted(arg)
        /\ UNCHANGED <<common, groups, routes>>

\* Router.Use is refused when a route is registered.
Use(arg, spare) ==
    LET after == Appended(heap, middlewares, Wanted(arg), spare)
    IN  /\ Call /\ routes = {}
        /\ heap' = after.heap /\ middlewares' = after.slice
        /\ globals' = globals \o Wanted(arg)
        /\ UNCHANGED <<common, groups, routes>>

\* Router.Host
Host(host) ==
    LET made == newGroup(heap, NilSlice)
    IN  /\ Call
        /\ heap' = made.heap
        /\ groups' = Append(groups, [host |-> host, prefix |-> <<>>, middlewares |-> made.slice,
                                     asked |-> <<>>, under |-> <<>>])
        /\ UNCHANGED <<common, middlewares, routes, globals>>

\* Router.Group
Group(text, arg) ==
    LET given == Passed(heap, arg)
        made  == newGroup(given.heap, given.slice)
    IN  /\ Call
        /\ heap' = made.heap
        /\ groups' = Append(groups, [host |-> NoHost, prefix |-> cleanPrefix(text),
                                     middlewares |-> made.slice,
                                     asked |-> Wanted(arg), under |-> Resolved(text.path)])
        /\ UNCHANGED <<common, middlewares, routes, globals>>

\* Group.Group: the parent's middlewares and the new ones in one slice.
Subgroup(g, text, arg) ==
    LET parent   == groups[g]
        combined == Made(heap, Elements(heap, parent.middlewares) \o Wanted(arg), 0)
        made     == newGroup(combined.heap, combined.slice)
    IN  /\ Call
        /\ heap' = made.heap
        /\ groups' = Append(groups,
              [host |-> parent.host,
               prefix |-> IF cleanPrefix(text) = <<>> THEN parent.prefix
                          ELSE joinPaths(parent.prefix,
                                         [rooted |-> TRUE, path |-> cleanPrefix(text)]).path,
               middlewares |-> made.slice,
               asked |-> parent.asked \o Wanted(arg),
               under |-> parent.under \o Resolved(text.path)])
        /\ UNCHANGED <<common, middlewares, routes, globals>>

\* Group.Use
GroupUse(g, arg, spare) ==
    LET after == Appended(heap, groups[g].middlewares, Wanted(arg), spare)
    IN  /\ Call
        /\ heap' = after.heap
        /\ groups' = [groups EXCEPT ![g].middlewares = after.slice, ![g].asked = @ \o Wanted(arg)]
        /\ UNCHANGED <<common, middlewares, routes, globals>>

\* Group.Handle
Handle(g, text) ==
    LET group  == groups[g]
        joined == joinPaths(group.prefix, text)
        chain  == Chain(group.middlewares)
    IN  /\ Call
        /\ Registrable(routes, group.host, "GET", joined, chain)
        /\ routes' = routes \cup {[host |-> group.host, method |-> "GET", pattern |-> joined.path,
                                   chain |-> chain, asked |-> group.asked, under |-> group.under,
                                   given |-> text]}
        /\ UNCHANGED <<heap, common, middlewares, groups, globals>>

-----------------------------------------------------------------------------
(* RegisterPprofWith *)

Endpoints ==
    <<(<<"GET", "">>), <<"GET", "cmdline">>, <<"GET", "profile">>, <<"GET", "symbol">>,
      <<"POST", "symbol">>, <<"GET", "trace">>, <<"GET", "allocs">>, <<"GET", "block">>,
      <<"GET", "goroutine">>, <<"GET", "heap">>, <<"GET", "mutex">>, <<"GET", "threadcreate">> >>

\* Their texts are strings: the provers know it of no literal.
ASSUME PprofAssumption ==
    {"debug", "pprof"} \cup {Endpoints[n][2] : n \in DOMAIN Endpoints} \subseteq STRING

PprofBase(text) ==
    IF cleanPrefix(text) = <<>> THEN <<Static("debug"), Static("pprof")>> ELSE cleanPrefix(text)

\* The endpoints are registered in turn, up to the first that is refused; what
\* was registered before stays.
RegisterPprof(text) ==
    LET base  == PprofBase(text)
        path(n) == Append(base, Static(Endpoints[n][2]))
        chain == Chain(NilSlice)
        route(n) == [host |-> NoHost, method |-> Endpoints[n][1], pattern |-> path(n),
                     chain |-> chain, asked |-> <<>>, under |-> base,
                     given |-> [rooted |-> TRUE, path |-> <<Static(Endpoints[n][2])>>]]
        fits(n) == Registrable(routes, NoHost, Endpoints[n][1],
                               [rooted |-> TRUE, path |-> path(n)], chain)
    IN  /\ Call
        /\ routes' = routes \cup {route(n) : n \in
                        {k \in 1 .. Len(Endpoints) : \A j \in 1 .. k : fits(j)}}
        /\ UNCHANGED <<heap, common, middlewares, groups, globals>>

-----------------------------------------------------------------------------
(* The program's own slice (external) *)

AppendCommon(spare) ==
    LET after == Appended(heap, common, <<"more">>, spare)
    IN  /\ Call
        /\ heap' = after.heap /\ common' = after.slice
        /\ UNCHANGED <<middlewares, groups, routes, globals>>

AssignCommon ==
    /\ Call
    /\ heap' = [heap EXCEPT ![common.arr][1] = "other"]
    /\ UNCHANGED <<common, middlewares, groups, routes, globals>>

-----------------------------------------------------------------------------

Stopped == calls = program.MaxCalls /\ UNCHANGED vars

Next ==
    \/ \E arg \in Arguments, spare \in program.spares : Use(arg, spare)
    \/ \E host \in program.hosts : Host(host)
    \/ \E text \in program.prefixes, arg \in Arguments : Group(text, arg)
    \/ \E g \in DOMAIN groups :
          \/ \E text \in program.prefixes, arg \in Arguments : Subgroup(g, text, arg)
          \/ \E arg \in Arguments, spare \in program.spares : GroupUse(g, arg, spare)
          \/ \E text \in program.patterns : Handle(g, text)
    \/ \E text \in program.prefixes : RegisterPprof(text)
    \/ \E spare \in program.spares : AppendCommon(spare)
    \/ AssignCommon
    \/ Stopped

Spec == Init /\ [][Next]_vars

-----------------------------------------------------------------------------
(* Properties *)

\* "Modifying the parent later doesn't affect the child (snapshot), and modifying
\* the child doesn't affect the parent (isolation)": however arrays are shared, a
\* group has just the middlewares the program asked for; and a route runs behind
\* all that Router.Use ever accepted, then those its group had when the route was
\* registered, whatever happens to groups and to the program's slices later.
MiddlewaresAsAsked ==
    /\ Elements(heap, middlewares) = globals
    /\ \A g \in DOMAIN groups : Elements(heap, groups[g].middlewares) = groups[g].asked
    /\ \A r \in routes : r.chain = globals \o r.asked

\* A group's routes are under its prefixes, each taken as an absolute path: no
\* ".." in a nested prefix or a pattern leads out of the group it is used in.
RoutesUnderPrefix ==
    \A r \in routes :
        /\ Parts(r.pattern) = r.under \o Parts(r.given.path)
        /\ Slashed(r.pattern) <=>
              r.given # NoText /\ LastOf(r.given.path) = Empty /\ Parts(r.pattern) # <<>>
=============================================================================
