-------------------------------- MODULE Router --------------------------------
(***************************************************************************)
(* The router of router/router.go and router/serve.go between operations:  *)
(* its tables change by registration (Handle, the group and host variants  *)
(* included), and Answer is what ServeHTTP answers to a request with the   *)
(* tables as they stand.  What goroutines see of each other's registration *)
(* is the subject of module RouterLocks.                                   *)
(***************************************************************************)
EXTENDS RouteTrie

CONSTANTS
    NoHost,     \* the default table ("")
    Setups,     \* the programs around the router, see setup
    Fresh       \* a text that occurs in no pattern

\* What a program registers: <<host, method, pattern>>.  It is also what stands
\* for the handler.
Offer   == STRING \X STRING \X Seq(Piece)
\* A request has no parameter in its path.
Request == [method : STRING, host : STRING, path : Seq({"static"} \X STRING), raw : BOOLEAN]
Route   == [pattern : Seq(Piece), handler : Offer, hasParams : BOOLEAN]

ASSUME NoRouteAssumption == NoRoute \notin Route

ASSUME SetupAssumption ==
    \A s \in Setups :
        /\ s.StrictSlash \in BOOLEAN /\ s.UseRawPath \in BOOLEAN
        /\ s.IgnoreCases \subseteq BOOLEAN /\ s.IgnoreCases # {}
        /\ s.MaxDepth \in Nat /\ s.MaxRoutes \in Nat
        /\ s.offers \subseteq Offer /\ s.requests \subseteq Request

ASSUME FreshAssumption ==
    /\ Static(Fresh) \in Piece \ {Empty, Dot, Up}
    /\ \A s \in DOMAIN Lower : Fresh # s /\ Fresh # Lower[s]
    /\ \A s \in Setups : \A offer \in s.offers :
          \A i \in 1 .. Len(offer[3]) : offer[3][i] # Static(Fresh)

VARIABLES
    setup,              \* chosen at first and never changed:
                        \*   StrictSlash, UseRawPath: the public fields
                        \*   IgnoreCases: the values IgnoreCase is given
                        \*   offers: the routes <<host, method, pattern>> the
                        \*      program registers in some order
                        \*   requests: those that come, [method, host, path, raw]
                        \*   MaxDepth: most parts of a pattern or path (50)
                        \*   MaxRoutes: bound on accepted registrations
                        \*   freezes: the program calls Freeze
    tables,             \* host -> routing table; the default one is NoHost's
    IgnoreCase,         \* the public field, read until the mode is fixed
    ignoreCaseSet,      \* the mode has been fixed by a registration
    ignoreCaseEnabled,  \* the mode
    accepted            \* history: the registrations that succeeded, as
                        \* [host, method, pattern, handler]

vars == <<setup, tables, IgnoreCase, ignoreCaseSet, ignoreCaseEnabled, accepted>>

-----------------------------------------------------------------------------
(* Tables *)

Live == INSTANCE Serve WITH SearchIn <- Search,
                            StrictSlash <- setup.StrictSlash,
                            UseRawPath <- setup.UseRawPath,
                            MaxDepth <- setup.MaxDepth

NewTable ==
    [roots       |-> <<>>,  \* method -> trie
     static      |-> <<>>,  \* method -> (path -> handler)
     staticAllow |-> <<>>,  \* path -> methods of the Allow header
     hasParams   |-> {},    \* methods with a parameter route
     hasTrailing |-> FALSE]

\* f with x mapped to y, x new or not
With(f, x, y) == [z \in DOMAIN f \cup {x} |-> IF z = x THEN y ELSE f[z]]

buildStaticAllowHeader(static, path) == Live!AllowHeader(Live!StaticMethods(static, path))

Init ==
    /\ setup \in Setups
    /\ tables = [h \in {NoHost} |-> NewTable]
    /\ IgnoreCase \in setup.IgnoreCases
    /\ ignoreCaseSet = FALSE
    /\ ignoreCaseEnabled = FALSE
    /\ accepted = {}

-----------------------------------------------------------------------------
(* Registration *)

HasParams(parts) == \E i \in 1 .. Len(parts) : Kind(parts[i]) # "static"

\* validateParamNames: a wildcard comes last, names are there and are distinct
ValidParamNames(parts) ==
    \A i \in 1 .. Len(parts) :
        /\ Kind(parts[i]) = "wild" => i = Len(parts)
        /\ Kind(parts[i]) # "static" =>
              /\ Text(parts[i]) # ""
              /\ \A j \in 1 .. i - 1 :
                    Kind(parts[j]) # "static" => Text(parts[j]) # Text(parts[i])

Acceptable(pattern) ==
    /\ CleanPath(pattern) = pattern
    /\ Len(Parts(pattern)) <= setup.MaxDepth
    /\ ValidParamNames(Parts(pattern))

\* mutant: the mode is not fixed by the first registration
IgnoreCaseField == IgnoreCase

IgnoreCaseActive == IF ignoreCaseSet THEN ignoreCaseEnabled ELSE IgnoreCase

\* A table after insert has put the route in its trie.
Recorded(t, method, pattern, handler) ==
    IF HasParams(Parts(pattern))
    THEN [t EXCEPT !.hasParams = @ \cup {method},
                   !.hasTrailing = @ \/ Slashed(pattern)]
    ELSE LET routes == IF method \in DOMAIN t.static THEN t.static[method] ELSE <<>>
             static == With(t.static, method, With(routes, pattern, handler))
         IN  [t EXCEPT !.static = static,
                       !.staticAllow = With(@, pattern, buildStaticAllowHeader(static, pattern)),
                       !.hasTrailing = @ \/ Slashed(pattern)]

\* handle: the checks on the pattern; then the case mode is fixed, and stays so
\* whatever follows; then the route goes into the trie, and when the trie takes
\* it into the caches of its table.  The table of the host and the root of the
\* method are made first; a trie that refuses a route was there before.
Register(host, method, pattern) ==
    LET ignoreCase   == IgnoreCaseActive
        matchPattern == IF ignoreCase THEN LowerPath(pattern) ELSE pattern
        handler      == <<host, method, pattern>>
        table        == IF host \in DOMAIN tables THEN tables[host] ELSE NewTable
        root         == IF method \in DOMAIN table.roots
                        THEN table.roots[method] ELSE EmptyTrie
        route        == [pattern |-> matchPattern, handler |-> handler,
                         hasParams |-> HasParams(Parts(matchPattern))]
        ins          == Insert(root, Parts(matchPattern), route)
        grown        == [table EXCEPT !.roots = With(@, method, ins.trie)]
    IN  /\ ignoreCaseSet' = TRUE
        /\ ignoreCaseEnabled' = ignoreCase
        /\ tables' = With(tables, host,
                          IF ins.failed THEN grown
                          ELSE Recorded(grown, method, matchPattern, handler))
        /\ accepted' = IF ins.failed THEN accepted
                       ELSE accepted \cup {[host |-> host, method |-> method,
                                            pattern |-> matchPattern, handler |-> handler]}
        /\ UNCHANGED <<setup, IgnoreCase>>

\* Router.Handle, Group.Handle and Host(h).Handle
Handle(host, method, pattern) ==
    /\ Cardinality(accepted) < setup.MaxRoutes
    /\ Acceptable(pattern)
    /\ Register(host, method, pattern)

\* handle stops at a nil middleware of the group or the router: the case mode
\* is fixed by then.
HandleNilMiddleware(pattern) ==
    /\ Acceptable(pattern)
    /\ ignoreCaseSet' = TRUE
    /\ ignoreCaseEnabled' = IgnoreCaseActive
    /\ UNCHANGED <<setup, tables, IgnoreCase, accepted>>

\* A pattern that fails the checks leaves everything as it was.
HandleRejected(pattern) ==
    /\ ~Acceptable(pattern)
    /\ UNCHANGED vars

\* The program assigns the public field.
SetIgnoreCase(b) ==
    /\ IgnoreCase' = b
    /\ UNCHANGED <<setup, tables, ignoreCaseSet, ignoreCaseEnabled, accepted>>

Next ==
    \/ \E offer \in setup.offers :
          \/ Handle(offer[1], offer[2], offer[3])
          \/ HandleNilMiddleware(offer[3])
          \/ HandleRejected(offer[3])
    \/ \E b \in setup.IgnoreCases : SetIgnoreCase(b)

Spec == Init /\ [][Next]_vars

-----------------------------------------------------------------------------
(* Properties *)

Requests      == setup.requests
Answer(req)   == Live!Resolve(tables, IgnoreCaseActive, req)
CleanRequests == {req \in Requests : Live!Clean(req)}

RoutesOf(host, method) == {route \in accepted : route.host = host /\ route.method = method}

\* The paths that requests are matched with.
MatchPaths == {Live!MatchOf(req.path, IgnoreCaseActive) : req \in CleanRequests}

\* search finds, in every trie and for every path, the registered route that
\* wins by Static > Param > Wild, whatever branches it entered and left on the
\* way, and binds that route's parameters to the parts of the path and nothing
\* else (no value of an abandoned branch stays in Params).
SearchFindsBest ==
    \A host \in DOMAIN tables : \A m \in DOMAIN tables[host].roots : \A path \in MatchPaths :
        LET result   == Search(tables[host].roots[m], path, path)
            matching == {r \in RoutesOf(host, m) : Matches(Parts(r.pattern), Parts(path))}
        IN  IF matching = {} THEN result.found = {}
            ELSE \E best \in matching :
                    /\ \A r \in matching \ {best} : Beats(Parts(best.pattern), Parts(r.pattern))
                    /\ {r.handler : r \in result.found} = {best.handler}
                    /\ result.params = Bindings(Parts(best.pattern), path, path)

\* The flat map of static routes, tried before the trie, never answers
\* differently from the trie: same routes, same handlers, and a path it knows is
\* one the trie would not give to a parameter route.
StaticMapAgrees ==
    \A host \in DOMAIN tables : \A m \in DOMAIN tables[host].static :
        \A path \in DOMAIN tables[host].static[m] :
            {r.handler : r \in Search(tables[host].roots[m], path, path).found}
                = {tables[host].static[m][path]}

\* A 405 tells the truth: the method it refuses is not in its Allow header, and
\* the same request with any method of the header (OPTIONS apart) is served.
AllowIsTrue ==
    \A req \in CleanRequests :
        LET answer == Answer(req)
        IN  answer.kind \in {"notAllowed", "options"} =>
                /\ req.method # "OPTIONS" => req.method \notin answer.allow
                /\ \A m \in answer.allow \ {"OPTIONS"} :
                      Answer([req EXCEPT !.method = m]).kind = "served"

\* The request a client makes next when it is redirected
Redirected(req) ==
    LET answer == Answer(req)
    IN  IF answer.kind = "redirect" THEN [req EXCEPT !.path = answer.path] ELSE req

\* The methods a request can be served by
MethodsFor(method) == IF method = "HEAD" THEN {"HEAD", "GET"} ELSE {method}

\* Slashes never hide a route: a request whose path matches, slashes aside, a
\* route of its own method in the first table it is looked up in is served by a
\* route after at most two redirects (one that cleans the path, one that
\* toggles its slash), whatever other methods have at the two forms.
RegisteredIsServed ==
    \A req \in Requests :
        LET host  == IF req.host \in DOMAIN tables THEN req.host ELSE NoHost
            parts == Parts(Live!MatchOf(CleanPath(req.path), IgnoreCaseActive))
        IN  /\ Live!UsesRaw(req) => CleanPath(req.path) = req.path
            /\ Len(parts) <= setup.MaxDepth
            /\ \E m \in MethodsFor(req.method) : \E route \in RoutesOf(host, m) :
                  Matches(Parts(route.pattern), parts)
            => Answer(Redirected(Redirected(req))).kind = "served"

\* "Redirects /path <-> /path/ to the registered canonical path": the path a
\* clean request is redirected to is not redirected again.
RedirectSettles ==
    \A req \in CleanRequests : Answer(Redirected(req)).kind # "redirect"

\* A request path made from a pattern
Filled(pattern) ==
    [i \in 1 .. Len(pattern) |->
        IF Kind(pattern[i]) = "static" THEN pattern[i] ELSE Static(Fresh)]

RequestFor(route) ==
    [method |-> route.method, host |-> route.host, path |-> Filled(route.pattern), raw |-> FALSE]

\* Every accepted route can be reached: the request made from its own pattern,
\* with a text no route spells out for each parameter, is served by it and by no
\* other route, whatever else is registered.
AcceptedIsReachable ==
    \A route \in accepted :
        LET answer == Answer(RequestFor(route))
        IN  answer.kind = "served" /\ answer.handler = route.handler

\* All patterns were normalized in the mode that requests are matched in, even
\* when the program assigns IgnoreCase between registrations.
CaseModeUniform ==
    \A route \in accepted :
        route.pattern = Live!MatchOf(route.handler[3], ignoreCaseEnabled)

\* A registration that fails changes no answer: not the one that stops at a nil
\* middleware, after it has fixed the case mode, and not the one that the trie
\* refuses, after it has gone down some of its parts.
FailedRegistrationInvisible ==
    [][vars' # vars /\ accepted' = accepted /\ IgnoreCase' = IgnoreCase =>
          \A req \in Requests : Answer(req)' = Answer(req)]_vars

\* A registration never takes away: a request to the default host that was
\* served is served after it, by the same route, or by the new one when that one
\* beats it, or, if it is a HEAD request, by a route of the other of HEAD and GET.
ServedStaysServed ==
    [][vars' # vars /\ IgnoreCase' = IgnoreCase =>
          \A req \in {r \in Requests : r.host = NoHost} : \A before \in {Answer(req)} :
              before.kind = "served" => \E after \in {Answer(req)'} :
                  /\ after.kind = "served"
                  /\ \E m, n \in MethodsFor(req.method) :
                        \E old \in RoutesOf(NoHost, m) : \E new \in RoutesOf(NoHost, n)' :
                            /\ old.handler = before.handler
                            /\ new.handler = after.handler
                            /\ new # old /\ m = n =>
                                  /\ new \notin accepted
                                  /\ Beats(Parts(new.pattern), Parts(old.pattern))]_vars

=============================================================================
