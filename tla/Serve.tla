-------------------------------- MODULE Serve --------------------------------
(***************************************************************************)
(* What ServeHTTP answers to a request, given the routing tables: the      *)
(* lookup order of router/router.go and router/serve.go.  frozen.go        *)
(* repeats it over frozen tables with a search of its own, so the search   *)
(* is a parameter: Router and FrozenRouter each instantiate this module.   *)
(*                                                                         *)
(* A table is a record: roots (method -> trie), static (method -> path ->  *)
(* handler), staticAllow (path -> methods), hasParams (the methods with a  *)
(* parameter route) and hasTrailing.                                       *)
(***************************************************************************)
EXTENDS Paths, FiniteSets

CONSTANTS
    NoHost,             \* the default table's host ("")
    MaxDepth,           \* most parts of a path that is searched: 50
    StrictSlash,        \* redirect to the other slash form, or serve it
    UseRawPath,         \* match the escaped path of requests that have one
    SearchIn(_, _, _)   \* the search of one method's trie

AnyParams(t) == t.hasParams # {}

\* mutant: HEAD is always allowed
AllowHeaderWithHead(methods) ==
    IF methods = {} THEN {} ELSE methods \cup {"OPTIONS", "HEAD"}

\* What the Allow header adds to the methods that have a route.
AllowHeader(methods) ==
    IF methods = {} THEN {}
    ELSE methods \cup {"OPTIONS"} \cup (IF "GET" \in methods THEN {"HEAD"} ELSE {})

StaticMethods(static, path) ==
    {m \in DOMAIN static : path \in DOMAIN static[m]}

-----------------------------------------------------------------------------
(* Answers *)

Served(handler, params) == [kind |-> "served", handler |-> handler, params |-> params]
RedirectTo(path)        == [kind |-> "redirect", path |-> path]
\* 405, or 200 for a request with method OPTIONS
NotAllowed(req, allow)  ==
    [kind |-> IF req.method = "OPTIONS" THEN "options" ELSE "notAllowed", allow |-> allow]
\* 404, and "not answered yet" on the way there
NotFound                == [kind |-> "notFound"]

\* The next attempt, when the first one did not answer.
Otherwise(a, b) == IF a # NotFound THEN a ELSE b

-----------------------------------------------------------------------------
(* Attempts, in one table *)

serveMethodInTable(t, method, match, raw) ==
    IF method \in DOMAIN t.static /\ match \in DOMAIN t.static[method]
    THEN Served(t.static[method][match], <<>>)
    ELSE IF method \notin t.hasParams \/ Len(Parts(match)) > MaxDepth
    THEN NotFound
    ELSE LET result == SearchIn(t.roots[method], match, raw)
             route  == CHOOSE r \in result.found : TRUE
         IN  IF result.found = {} THEN NotFound
             ELSE Served(route.handler, IF route.hasParams THEN result.params ELSE <<>>)

\* HEAD falls back to GET.
serveInTable(t, method, match, raw) ==
    IF method = "HEAD"
    THEN Otherwise(serveMethodInTable(t, "HEAD", match, raw),
                   serveMethodInTable(t, "GET", match, raw))
    ELSE serveMethodInTable(t, method, match, raw)

allowedMethodsInTable(t, match) ==
    IF ~AnyParams(t)
    THEN IF match \in DOMAIN t.staticAllow THEN t.staticAllow[match] ELSE {}
    ELSE IF Len(Parts(match)) > MaxDepth THEN {}
    ELSE AllowHeader(StaticMethods(t.static, match)
                     \cup {m \in t.hasParams : SearchIn(t.roots[m], match, match).found # {}})

\* mutant: only requests that end with a slash have another form
NoSlashRouteAtAll(t, match) == match # Root /\ LastOf(match) # Empty

\* The shortcut both slash rules take when no route ends with a slash.
NoSlashRoute(t, match) == match # Root /\ LastOf(match) # Empty /\ ~t.hasTrailing

tryAlternateSlashInTable(t, req, match, raw) ==
    IF NoSlashRoute(t, match) \/ ~HasAlternate(match) THEN NotFound
    ELSE IF StrictSlash
    THEN IF allowedMethodsInTable(t, Alternate(match)) # {} THEN RedirectTo(Alternate(raw)) ELSE NotFound
    ELSE serveInTable(t, req.method, Alternate(match), Alternate(raw))

handleMethodNotAllowedInTable(t, req, match) ==
    LET allow == allowedMethodsInTable(t, match)
        other == allowedMethodsInTable(t, Alternate(match))
    IN  IF allow # {} THEN NotAllowed(req, allow)
        ELSE IF StrictSlash \/ NoSlashRoute(t, match) \/ ~HasAlternate(match) \/ other = {}
        THEN NotFound
        ELSE NotAllowed(req, other)

AnswerOf(t, req, match, raw) ==
    Otherwise(serveInTable(t, req.method, match, raw),
    Otherwise(tryAlternateSlashInTable(t, req, match, raw),
              handleMethodNotAllowedInTable(t, req, match)))

-----------------------------------------------------------------------------
(* ServeHTTP *)

\* prepareRouteContext: an escaped path in use is matched as it came, any other
\* path is cleaned, by a redirect when it was not clean.
UsesRaw(req)              == UseRawPath /\ req.raw
Clean(req)                == UsesRaw(req) \/ CleanPath(req.path) = req.path

MatchOf(path, ignoreCase) == IF ignoreCase THEN LowerPath(path) ELSE path

\* The table of the request's host, when it has one, then the default table.
Resolve(tables, ignoreCase, req) ==
    LET match     == MatchOf(req.path, ignoreCase)
        inHost    == IF req.host = NoHost \/ req.host \notin DOMAIN tables THEN NotFound
                     ELSE AnswerOf(tables[req.host], req, match, req.path)
        inDefault == AnswerOf(tables[NoHost], req, match, req.path)
    IN  IF Clean(req) THEN Otherwise(inHost, inDefault)
        ELSE RedirectTo(CleanPath(req.path))
=============================================================================
