----------------------------- MODULE RouterLocks -----------------------------
(***************************************************************************)
(* Goroutines that register routes, add middlewares and serve requests on  *)
(* one router (router/router.go, router/group.go): which lock sections     *)
(* each operation passes through, in which order, and what it reads with   *)
(* the lock released.  Router.tla says what one section computes; here the *)
(* routes are static routes of one path in its two slash forms.            *)
(*                                                                         *)
(* What happens inside one section of the mutex is one step: nothing can   *)
(* change under a reader, and nobody looks while a writer writes, with the *)
(* exception of hasTrailing, which has steps of its own.                   *)
(***************************************************************************)
EXTENDS Integers, FiniteSets

CONSTANTS
    Goroutines,
    NoOne,          \* "no goroutine"
    RouteMethods,   \* methods of the routes registered
    RequestMethods, \* methods of the requests
    StrictSlashes,  \* the values Router.StrictSlash is created with
    MaxOps          \* bound: operations started

ASSUME NoOneAssumption  == NoOne \notin Goroutines
ASSUME OpsAssumption    == MaxOps \in Nat
ASSUME StrictAssumption == StrictSlashes \subseteq BOOLEAN

VARIABLES
    writer, holds, readers, queued, \* Router.mu
    routes,         \* registered: [method, form, mws]; mws: who added a middleware
    hasTrailing,    \* table.hasTrailing
    middlewares,    \* Router.middlewares: who added one
    StrictSlash,    \* Router.StrictSlash, set before the router is used
    go,             \* what each goroutine does, a record
    ops             \* operations started

mutexVars == <<writer, holds, readers, queued>>
tableVars == <<routes, hasTrailing, middlewares, StrictSlash>>
vars == <<writer, holds, readers, queued, routes, hasTrailing, middlewares, StrictSlash,
          go, ops>>

mu == INSTANCE RWMutex

Forms       == {"plain", "slash"}
Other(form) == IF form = "plain" THEN "slash" ELSE "plain"

Idle ==
    [at     |-> "idle",     \* the next section or step
     back   |-> "idle",     \* where a registration returns to
     method |-> "", form |-> "",            \* the request
     route  |-> <<"", "">>,                 \* the route being registered
     copied |-> {},                         \* routerMws
     answer |-> [kind |-> "none"],          \* the answer to the last request
     before |-> {},     \* history: the routes when the request came
     used   |-> {}]     \* history: the middlewares when the registration began

Init ==
    /\ mu!MutexInit
    /\ routes = {} /\ hasTrailing = FALSE /\ middlewares = {}
    /\ StrictSlash \in StrictSlashes
    /\ go = [g \in Goroutines |-> Idle]
    /\ ops = 0

At(g, step) == go[g].at = step
Goto(g, step) == go' = [go EXCEPT ![g].at = step]

-----------------------------------------------------------------------------
(* Lock sections *)

ReadSections ==
    {"ignoreCase", "hosts", "serve", "serveGet", "altAllowed", "altServe", "altServeGet",
     "allowed", "altAllowed405", "copy"}
WriteSections == {"lockCase", "insert", "use"}

EnterRead(g) ==
    /\ go[g].at \in ReadSections
    /\ mu!RLock(g)
    /\ UNCHANGED <<tableVars, go, ops>>

EnterWrite(g) ==
    /\ go[g].at \in WriteSections
    /\ mu!Announce(g) \/ mu!Acquire(g)
    /\ UNCHANGED <<tableVars, go, ops>>

\* The body of a read section and the unlock that ends it
Reading(g, section) ==
    /\ At(g, section)
    /\ mu!RUnlock(g)
    /\ UNCHANGED <<tableVars, ops>>

Writing(g, section) ==
    /\ At(g, section)
    /\ mu!Unlock(g)
    /\ UNCHANGED ops

-----------------------------------------------------------------------------
(* Registration *)

\* A registration starts, on its own or from inside a handler.
StartHandle(g, method, form) ==
    /\ ops < MaxOps /\ ops' = ops + 1
    /\ go[g].at \in {"idle", "handler"}
    /\ go' = [go EXCEPT ![g].at = "lockCase", ![g].back = go[g].at,
                        ![g].route = <<method, form>>, ![g].used = middlewares]
    /\ UNCHANGED <<mutexVars, tableVars>>

LockIgnoreCase(g) ==
    /\ Writing(g, "lockCase")
    /\ Goto(g, "copy")
    /\ UNCHANGED tableVars

\* mutant: the middlewares copied by an earlier registration are used again
CopyMiddlewaresOnce(g) == Reading(g, "copy") /\ Goto(g, "insert")

\* The router's middlewares are copied in one section, the handler is composed
\* with them, and the route is inserted in a later section.
CopyMiddlewares(g) ==
    /\ Reading(g, "copy")
    /\ go' = [go EXCEPT ![g].at = "insert", ![g].copied = middlewares]

\* Both slash forms are one node of the method's trie.
Insert(g) ==
    LET method == go[g].route[1]
        form   == go[g].route[2]
    IN  /\ Writing(g, "insert")
        /\ IF \E r \in routes : r.method = method
           THEN UNCHANGED <<routes, hasTrailing>>
           ELSE /\ routes' = routes \cup {[method |-> method, form |-> form,
                                           mws |-> go[g].copied]}
                /\ hasTrailing' = (hasTrailing \/ form = "slash")
        /\ Goto(g, go[g].back)
        /\ UNCHANGED <<middlewares, StrictSlash>>

StartUse(g) ==
    /\ ops < MaxOps /\ ops' = ops + 1
    /\ At(g, "idle") /\ g \notin middlewares
    /\ Goto(g, "use")
    /\ UNCHANGED <<mutexVars, tableVars>>

\* Use is refused once a route is registered.
Use(g) ==
    /\ Writing(g, "use")
    /\ middlewares' = IF routes = {} THEN middlewares \cup {g} ELSE middlewares
    /\ Goto(g, "idle")
    /\ UNCHANGED <<routes, hasTrailing, StrictSlash>>

-----------------------------------------------------------------------------
(* ServeHTTP *)

Registered(method, form) == \E r \in routes : r.method = method /\ r.form = form

Allow(form) ==
    LET methods == {r.method : r \in {s \in routes : s.form = form}}
    IN  IF methods = {} THEN {}
        ELSE methods \cup {"OPTIONS"} \cup (IF "GET" \in methods THEN {"HEAD"} ELSE {})

Finish(g, answer) == go' = [go EXCEPT ![g].at = "idle", ![g].answer = answer]
NotFound          == [kind |-> "notFound"]

StartServe(g, method, form) ==
    /\ ops < MaxOps /\ ops' = ops + 1
    /\ At(g, "idle")
    /\ go' = [go EXCEPT ![g].at = "ignoreCase", ![g].method = method, ![g].form = form,
                        ![g].before = routes, ![g].answer = [kind |-> "none"]]
    /\ UNCHANGED <<mutexVars, tableVars>>

\* ignoreCaseActive, and the choice of the tables
IgnoreCaseActive(g) == Reading(g, "ignoreCase") /\ Goto(g, "hosts")
ChooseTables(g)     == Reading(g, "hosts") /\ Goto(g, "serve")

\* mutant: the handler runs with the lock held for reading
ServeMethodLocked(g, section, method, form, miss) ==
    /\ At(g, section) /\ g \in readers
    /\ IF Registered(method, form)
       THEN Goto(g, "handler") /\ UNCHANGED mutexVars
       ELSE Goto(g, miss) /\ mu!RUnlock(g)
    /\ UNCHANGED <<tableVars, ops>>

\* serveMethodInTable: the lock is released before the handler runs.
ServeMethod(g, section, method, form, miss) ==
    /\ Reading(g, section)
    /\ Goto(g, IF Registered(method, form) THEN "handler" ELSE miss)

\* serveInTable for the path, then for its other form: HEAD falls back to GET.
Serve(g) ==
    LET head == go[g].method = "HEAD"
    IN  \/ ServeMethod(g, "serve", go[g].method, go[g].form,
                       IF head THEN "serveGet" ELSE "alternate")
        \/ ServeMethod(g, "serveGet", "GET", go[g].form, "alternate")
        \/ ServeMethod(g, "altServe", go[g].method, Other(go[g].form),
                       IF head THEN "altServeGet" ELSE "allowed")
        \/ ServeMethod(g, "altServeGet", "GET", Other(go[g].form), "allowed")

HandlerReturns(g) ==
    /\ At(g, "handler")
    /\ Finish(g, [kind |-> "served"])
    /\ UNCHANGED <<mutexVars, tableVars, ops>>

\* Both slash rules read hasTrailing without the lock.
Unlocked(g, step) == At(g, step) /\ UNCHANGED <<mutexVars, tableVars, ops>>

\* mutant: only requests that end with a slash have another form
NoSlashRouteAtAll(g) == go[g].form = "plain"

NoSlashRoute(g)   == go[g].form = "plain" /\ ~hasTrailing

TryAlternateSlash(g) ==
    /\ Unlocked(g, "alternate")
    /\ Goto(g, IF NoSlashRoute(g) THEN "allowed"
               ELSE IF StrictSlash THEN "altAllowed" ELSE "altServe")

RedirectToAlternate(g) ==
    /\ Reading(g, "altAllowed")
    /\ IF Allow(Other(go[g].form)) # {} THEN Finish(g, [kind |-> "redirect"])
                                        ELSE Goto(g, "allowed")

HandleMethodNotAllowed(g) ==
    /\ Reading(g, "allowed")
    /\ IF Allow(go[g].form) # {}
       THEN Finish(g, [kind |-> "notAllowed", allow |-> Allow(go[g].form)])
       ELSE IF StrictSlash THEN Finish(g, NotFound) ELSE Goto(g, "alternate405")

AlternateNotAllowed(g) ==
    \/ /\ Unlocked(g, "alternate405")
       /\ IF NoSlashRoute(g) THEN Finish(g, NotFound) ELSE Goto(g, "altAllowed405")
    \/ /\ Reading(g, "altAllowed405")
       /\ LET allow == Allow(Other(go[g].form))
          IN  Finish(g, IF allow = {} THEN NotFound
                        ELSE [kind |-> "notAllowed", allow |-> allow])

-----------------------------------------------------------------------------

Start(g) ==
    \/ \E method \in RouteMethods, form \in Forms : StartHandle(g, method, form)
    \/ StartUse(g)
    \/ \E method \in RequestMethods, form \in Forms : StartServe(g, method, form)

Step(g) ==
    \/ EnterRead(g) \/ EnterWrite(g)
    \/ LockIgnoreCase(g) \/ CopyMiddlewares(g) \/ Insert(g) \/ Use(g)
    \/ IgnoreCaseActive(g) \/ ChooseTables(g) \/ Serve(g) \/ HandlerReturns(g)
    \/ TryAlternateSlash(g) \/ RedirectToAlternate(g)
    \/ HandleMethodNotAllowed(g) \/ AlternateNotAllowed(g)

\* No operation is started any more.
Done == ops = MaxOps /\ UNCHANGED vars

Next == (\E g \in Goroutines : Start(g) \/ Step(g)) \/ Done
Spec == Init /\ [][Next]_vars

\* A goroutine that can run runs, and handlers return.
FairSpec == Spec /\ \A g \in Goroutines : WF_vars(Step(g))

-----------------------------------------------------------------------------
(* Properties *)

Steps   == ReadSections \cup WriteSections \cup {"idle", "handler", "alternate", "alternate405"}
Returns == {"idle", "handler"}
Routes  == [method : RouteMethods, form : Forms, mws : SUBSET Goroutines]
Tables  == SUBSET Routes
Chains  == SUBSET Goroutines

OrNone(S) == S \cup {""}
Calls     == OrNone(RouteMethods) \X OrNone(Forms)

Answers ==
    [kind : {"none", "served", "redirect", "notFound"}]
        \cup [kind : {"notAllowed"}, allow : SUBSET (RouteMethods \cup {"OPTIONS", "HEAD"})]

\* What a goroutine may be doing
Doings ==
    [at     : Steps,
     back   : Returns,
     method : OrNone(RequestMethods),
     form   : OrNone(Forms),
     route  : Calls,
     copied : Chains,
     answer : Answers,
     before : Tables,
     used   : Chains]

\* What the variables hold; proved and not checked by a run.
TypeOK ==
    /\ routes \in Tables
    /\ hasTrailing \in BOOLEAN /\ (hasTrailing <=> \E r \in routes : r.form = "slash")
    /\ middlewares \in Chains /\ StrictSlash \in StrictSlashes
    /\ go \in [Goroutines -> Doings]
    /\ ops \in 0 .. MaxOps

\* The mutex is not left locked: a goroutine that runs a handler, reads
\* hasTrailing or is idle holds nothing, so a handler may register routes.
HandlersUnlocked ==
    \A g \in (readers \cup queued \cup {writer}) \ {NoOne} :
        go[g].at \in ReadSections \cup WriteSections

\* The routes of a history that can serve a method at a form
Serves(set, method, form) ==
    \E r \in set : r.form = form
                   /\ (r.method = method \/ (method = "HEAD" /\ r.method = "GET"))

\* A request that comes after a registration has returned is answered with that
\* route, whatever is registered while the request moves through its sections:
\* served at the route's own form of the path, at the other form served or
\* redirected.
RegisteredBeforeIsServed ==
    \A g \in Goroutines :
        LET me == go[g]
        IN  me.answer.kind # "none" =>
                /\ Serves(me.before, me.method, me.form) => me.answer.kind = "served"
                /\ Serves(me.before, me.method, Other(me.form)) =>
                      me.answer.kind \in {"served", "redirect"}

\* A middleware whose Use returned before a registration was called is in the
\* chain of the route it registers.
UsedBeforeIsApplied ==
    [][\A g \in Goroutines : Insert(g) => \A r \in routes' \ routes : go[g].used \subseteq r.mws]_vars

\* Every operation returns, the requests whose handlers register routes included.
OperationsReturn == \A g \in Goroutines : (go[g].at # "idle") ~> At(g, "idle")

\* "concurrent ServeHTTP is safe": nobody reads hasTrailing while a registration
\* that sets it is between its Lock and its Unlock.
NoTrailingRace ==
    \A g, h \in Goroutines :
        ~ /\ go[g].at \in {"alternate", "alternate405"} /\ go[g].form = "plain"
          /\ At(h, "insert") /\ writer = h /\ holds /\ go[h].route[2] = "slash"
          /\ \A r \in routes : r.method # go[h].route[1]

=============================================================================
