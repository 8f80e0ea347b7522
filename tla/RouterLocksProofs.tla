--------------------------- MODULE RouterLocksProofs ---------------------------
(***************************************************************************)
(* Safety of module RouterLocks for any number of goroutines, operations   *)
(* and methods.                                                            *)
(***************************************************************************)
EXTENDS RouterLocks, TLAPS

\* The mutex: a writer is alone, nobody has two places in it, and whoever has
\* one is at a section.
MutexInv ==
    /\ readers \subseteq Goroutines /\ queued \subseteq Goroutines
    /\ writer \in Goroutines \cup {NoOne} /\ holds \in BOOLEAN
    /\ readers \cap queued = {}
    /\ \A g \in readers \cup queued : go[g].at \in ReadSections
    /\ writer # NoOne => go[writer].at \in WriteSections
    /\ writer = NoOne => ~holds /\ queued = {}
    /\ holds => readers = {}

\* A registration in progress has a route, and middlewares that are still the
\* router's, which the copy does not miss.
RegisterInv ==
    \A g \in Goroutines :
        LET me == go[g]
        IN  /\ me.at \in {"lockCase", "copy", "insert"} =>
                  me.route \in RouteMethods \X Forms /\ me.used \subseteq middlewares
            /\ me.at = "insert" => me.used \subseteq me.copied

\* The places of a request whose own form of the path has been looked up in
\* vain, and those where the other form has been, too
PastOwn   == {"alternate", "altAllowed", "altServe", "altServeGet", "allowed", "alternate405",
              "altAllowed405"}
PastOther == {"allowed", "alternate405", "altAllowed405"}

Has(set, method, form) == \E r \in set : r.method = method /\ r.form = form

\* No route goes away, and what a request has not found was not registered when
\* it came.
ServeInv ==
    \A g \in Goroutines :
        LET me == go[g]
        IN  /\ me.before \subseteq routes
            /\ me.at \in {"ignoreCase", "hosts", "serve", "serveGet"} \cup PastOwn =>
                  me.form \in Forms
            /\ me.at = "serveGet" => ~Has(me.before, me.method, me.form)
            /\ me.at \in PastOwn => ~Serves(me.before, me.method, me.form)
            /\ me.at = "altServeGet" => ~Has(me.before, me.method, Other(me.form))
            /\ me.at \in PastOther => ~Serves(me.before, me.method, Other(me.form))

IInv == TypeOK /\ MutexInv /\ RegisterInv /\ ServeInv /\ RegisteredBeforeIsServed

-----------------------------------------------------------------------------
(* What a step may change *)

\* A step of one goroutine leaves the others where they are.
LEMMA OneMoves ==
    ASSUME TypeOK, NEW g \in Goroutines, Start(g) \/ Step(g)
    PROVE  \A h \in Goroutines \ {g} : go'[h] = go[h]
<1> USE DEF TypeOK, Goto, Finish, Reading, Writing, Unlocked
<1>1. CASE Start(g)
  BY ZenonT(40), <1>1 DEF Start, StartHandle, StartUse, StartServe
<1>2. CASE EnterRead(g) \/ EnterWrite(g)
  BY <1>2 DEF EnterRead, EnterWrite
<1>3. CASE LockIgnoreCase(g) \/ CopyMiddlewares(g) \/ Insert(g) \/ Use(g)
  BY <1>3 DEF LockIgnoreCase, CopyMiddlewares, Insert, Use
<1>4. CASE IgnoreCaseActive(g) \/ ChooseTables(g) \/ Serve(g) \/ HandlerReturns(g)
  BY <1>4 DEF IgnoreCaseActive, ChooseTables, Serve, ServeMethod, HandlerReturns
<1>5. CASE TryAlternateSlash(g) \/ RedirectToAlternate(g) \/ HandleMethodNotAllowed(g)
           \/ AlternateNotAllowed(g)
  BY <1>5 DEF TryAlternateSlash, RedirectToAlternate, HandleMethodNotAllowed, AlternateNotAllowed
<1> QED
  BY <1>1, <1>2, <1>3, <1>4, <1>5 DEF Step

\* The Allow header of a form names methods, unless no route has that form.
LEMMA AllowType ==
    ASSUME TypeOK, NEW form
    PROVE  /\ Allow(form) \in SUBSET (RouteMethods \cup {"OPTIONS", "HEAD"})
           /\ Allow(form) = {} => \A r \in routes : r.form # form
BY DEF TypeOK, Tables, Routes, Allow

\* The ways in which the record of a goroutine changes keep its type.
LEMMA Moved ==
    ASSUME TypeOK, NEW g \in Goroutines, NEW step \in Steps, Goto(g, step)
    PROVE  go' \in [Goroutines -> Doings]
BY DEF TypeOK, Goto, Doings

\* So does an answer that ends a request.
LEMMA Answered ==
    ASSUME TypeOK, NEW g \in Goroutines, NEW answer \in Answers, Finish(g, answer)
    PROVE  go' \in [Goroutines -> Doings]
<1>1. "idle" \in Steps
  BY DEF Steps
<1> QED
  BY ZenonT(40), <1>1 DEF TypeOK, Finish, Doings

\* So does a registration that starts.
LEMMA Called ==
    ASSUME TypeOK, NEW g \in Goroutines, NEW method \in RouteMethods, NEW form \in Forms,
           StartHandle(g, method, form)
    PROVE  go' \in [Goroutines -> Doings]
<1>1. "lockCase" \in Steps /\ go[g].at \in Returns
  BY DEF StartHandle, Steps, WriteSections, Returns
<1>2. <<method, form>> \in Calls
  BY ZenonT(40) DEF Calls, OrNone
<1> DEFINE moved == [go EXCEPT ![g].at = "lockCase", ![g].back = go[g].at]
<1>3. moved \in [Goroutines -> Doings]
  BY <1>1 DEF TypeOK, Doings
<1>4. go' = [moved EXCEPT ![g].route = <<method, form>>, ![g].used = middlewares]
  BY DEF StartHandle
<1> HIDE DEF moved
<1> QED
  BY ZenonT(40), <1>2, <1>3, <1>4 DEF TypeOK, Doings

\* So does a request that comes.
LEMMA Requested ==
    ASSUME TypeOK, NEW g \in Goroutines, NEW method \in RequestMethods, NEW form \in Forms,
           StartServe(g, method, form)
    PROVE  go' \in [Goroutines -> Doings]
<1> DEFINE none == [kind |-> "none"]
           moved == [go EXCEPT ![g].at = "ignoreCase", ![g].method = method, ![g].form = form]
<1>1. "ignoreCase" \in Steps /\ none \in Answers
  BY DEF Steps, ReadSections, Answers
<1>2. method \in OrNone(RequestMethods) /\ form \in OrNone(Forms)
  BY ZenonT(40) DEF OrNone
<1>3. moved \in [Goroutines -> Doings]
  BY ZenonT(40), <1>1, <1>2 DEF TypeOK, Doings
<1>4. go' = [moved EXCEPT ![g].before = routes, ![g].answer = none]
  BY DEF StartServe
<1> HIDE DEF none, moved
<1> QED
  BY ZenonT(40), <1>1, <1>3, <1>4 DEF TypeOK, Doings

\* Every step of a goroutine keeps the type of what it does.
LEMMA GoStep ==
    ASSUME IInv, NEW g \in Goroutines, Start(g) \/ Step(g)
    PROVE  go' \in [Goroutines -> Doings]
<1>0. TypeOK
  BY DEF IInv
<1> USE DEF Steps, ReadSections, WriteSections
<1>1. CASE Start(g)
  BY <1>0, <1>1, Called, Requested, Moved DEF Start, StartUse
<1>2. CASE EnterRead(g) \/ EnterWrite(g)
  BY <1>0, <1>2 DEF EnterRead, EnterWrite, TypeOK
<1>3. CASE CopyMiddlewares(g)
  <2> HIDE DEF Steps
  <2>1. "insert" \in Steps
    BY DEF Steps
  <2> QED
    BY ZenonT(40), <1>0, <1>3, <2>1 DEF CopyMiddlewares, TypeOK, Doings
<1>4. CASE LockIgnoreCase(g) \/ Use(g) \/ IgnoreCaseActive(g) \/ ChooseTables(g)
  <2>1. Goto(g, "copy") \/ Goto(g, "idle") \/ Goto(g, "hosts") \/ Goto(g, "serve")
    BY <1>4 DEF LockIgnoreCase, Use, IgnoreCaseActive, ChooseTables
  <2> QED
    BY <1>0, <2>1, Moved
<1>5. CASE Insert(g)
  <2>1. go[g].back \in Steps
    BY <1>0 DEF TypeOK, Doings, Returns
  <2> QED
    BY <1>0, <1>5, <2>1, Moved DEF Insert
<1>6. CASE Serve(g)
  <2>1. PICK step \in {"handler", "serveGet", "alternate", "altServeGet", "allowed"} :
           Goto(g, step)
    BY <1>6 DEF Serve, ServeMethod
  <2> QED
    BY <1>0, <2>1, Moved
<1>7. CASE HandlerReturns(g) \/ RedirectToAlternate(g) \/ TryAlternateSlash(g)
           \/ HandleMethodNotAllowed(g) \/ AlternateNotAllowed(g)
  <2>1. \/ \E step \in Steps : Goto(g, step)
        \/ \E answer \in Answers : Finish(g, answer)
    <3>1. CASE HandlerReturns(g)
      BY <3>1 DEF HandlerReturns, Answers
    <3>2. CASE RedirectToAlternate(g)
      BY <3>2 DEF RedirectToAlternate, Answers
    <3>3. CASE TryAlternateSlash(g)
      BY <3>3 DEF TryAlternateSlash
    <3>4. CASE HandleMethodNotAllowed(g)
      BY <1>0, <3>4, AllowType DEF HandleMethodNotAllowed, NotFound, Answers
    <3>5. CASE AlternateNotAllowed(g)
      BY <1>0, <3>5, AllowType DEF AlternateNotAllowed, NotFound, Answers
    <3> QED
      BY <1>7, <3>1, <3>2, <3>3, <3>4, <3>5
  <2> QED
    BY <1>0, <2>1, Moved, Answered
<1> QED
  BY <1>1, <1>2, <1>3, <1>4, <1>5, <1>6, <1>7 DEF Step

\* Every step keeps the types, and hasTrailing true to the routes.
LEMMA TypeStep == IInv /\ [Next]_vars => TypeOK'
<1> SUFFICES ASSUME IInv, [Next]_vars PROVE TypeOK'
  OBVIOUS
<1>0. TypeOK
  BY DEF IInv
<1> USE DEF Reading, Writing, Unlocked, tableVars
<1>1. ASSUME NEW g \in Goroutines, Start(g) PROVE TypeOK'
  <2>1. UNCHANGED tableVars /\ ops < MaxOps /\ ops' = ops + 1
    BY ZenonT(40), <1>1 DEF Start, StartHandle, StartUse, StartServe
  <2>2. ops' \in 0 .. MaxOps
    BY <1>0, <2>1, OpsAssumption DEF TypeOK
  <2> QED
    BY <1>0, <1>1, <2>1, <2>2, GoStep DEF TypeOK
<1>2. ASSUME NEW g \in Goroutines, Step(g) PROVE TypeOK'
  <2>1. go' \in [Goroutines -> Doings] /\ ops' \in 0 .. MaxOps
    <3>1. ops' = ops
      BY <1>2 DEF Step, EnterRead, EnterWrite, LockIgnoreCase, CopyMiddlewares, Insert, Use,
         IgnoreCaseActive, ChooseTables, Serve, ServeMethod, HandlerReturns, TryAlternateSlash,
         RedirectToAlternate, HandleMethodNotAllowed, AlternateNotAllowed
    <3> QED
      BY <1>0, <1>2, <3>1, GoStep DEF TypeOK
  <2>2. CASE Insert(g)
    <3> DEFINE new == [method |-> go[g].route[1], form |-> go[g].route[2], mws |-> go[g].copied]
    <3>1. new \in Routes
      BY <1>0, <2>2 DEF Insert, IInv, RegisterInv, TypeOK, Doings, Chains, Routes, At
    <3>2. /\ \/ UNCHANGED <<routes, hasTrailing>>
             \/ /\ routes' = routes \cup {new}
                /\ hasTrailing' = (hasTrailing \/ new.form = "slash")
          /\ UNCHANGED <<middlewares, StrictSlash>>
      BY <2>2 DEF Insert
    <3> HIDE DEF new
    <3>3. routes' \in Tables
      BY <1>0, <3>1, <3>2 DEF TypeOK, Tables
    <3>4. hasTrailing' \in BOOLEAN /\ (hasTrailing' <=> \E r \in routes' : r.form = "slash")
      <4>1. hasTrailing \in BOOLEAN /\ (hasTrailing <=> \E r \in routes : r.form = "slash")
        BY <1>0 DEF TypeOK
      <4>2. CASE UNCHANGED <<routes, hasTrailing>>
        BY <4>1, <4>2
      <4>3. CASE routes' = routes \cup {new} /\ hasTrailing' = (hasTrailing \/ new.form = "slash")
        <5>1. hasTrailing' <=> hasTrailing \/ new.form = "slash"
          BY <4>3, Zenon
        <5>2. (\E r \in routes' : r.form = "slash")
                 <=> (\E r \in routes : r.form = "slash") \/ new.form = "slash"
          BY <4>3, Zenon
        <5>3. hasTrailing' \in BOOLEAN
          BY <4>3, Zenon
        <5> QED
          BY <4>1, <5>1, <5>2, <5>3, Zenon
      <4> QED
        BY <3>2, <4>2, <4>3
    <3> QED
      BY <1>0, <2>1, <3>2, <3>3, <3>4 DEF TypeOK
  <2>3. CASE Use(g)
    BY <1>0, <2>1, <2>3 DEF TypeOK, Use, Chains
  <2>4. CASE ~Insert(g) /\ ~Use(g)
    <3>1. UNCHANGED tableVars
      BY <1>2, <2>4 DEF Step, EnterRead, EnterWrite, LockIgnoreCase, CopyMiddlewares,
         IgnoreCaseActive, ChooseTables, Serve, ServeMethod, HandlerReturns, TryAlternateSlash,
         RedirectToAlternate, HandleMethodNotAllowed, AlternateNotAllowed
    <3> QED
      BY <1>0, <2>1, <3>1 DEF TypeOK
  <2> QED
    BY <2>2, <2>3, <2>4
<1>3. CASE UNCHANGED vars
  BY <1>0, <1>3 DEF TypeOK, vars
<1> QED
  BY <1>1, <1>2, <1>3 DEF Next, Done

-----------------------------------------------------------------------------
(* The mutex *)

\* Each step enters a section, ends the one it is in, or is outside of any.
LEMMA StepKinds ==
    ASSUME TypeOK, NEW g \in Goroutines, Start(g) \/ Step(g)
    PROVE  \/ EnterRead(g) \/ EnterWrite(g) \/ mu!RUnlock(g) \/ mu!Unlock(g)
           \/ UNCHANGED mutexVars /\ go[g].at \notin ReadSections \cup WriteSections
<1> USE DEF Reading, Writing, Unlocked, At, ReadSections, WriteSections
<1>1. CASE Start(g)
  BY ZenonT(40), <1>1 DEF Start, StartHandle, StartUse, StartServe
<1>2. CASE LockIgnoreCase(g) \/ CopyMiddlewares(g) \/ Insert(g) \/ Use(g)
  BY <1>2 DEF LockIgnoreCase, CopyMiddlewares, Insert, Use
<1>3. CASE IgnoreCaseActive(g) \/ ChooseTables(g) \/ Serve(g) \/ HandlerReturns(g)
  BY <1>3 DEF IgnoreCaseActive, ChooseTables, Serve, ServeMethod, HandlerReturns
<1>4. CASE TryAlternateSlash(g) \/ RedirectToAlternate(g) \/ HandleMethodNotAllowed(g)
           \/ AlternateNotAllowed(g)
  BY <1>4 DEF TryAlternateSlash, RedirectToAlternate, HandleMethodNotAllowed, AlternateNotAllowed
<1> QED
  BY <1>1, <1>2, <1>3, <1>4 DEF Step

\* Every step keeps the mutex as sync.RWMutex keeps it.
LEMMA MutexStep == IInv /\ [Next]_vars => MutexInv'
<1> SUFFICES ASSUME IInv, [Next]_vars PROVE MutexInv'
  OBVIOUS
<1>0. TypeOK /\ MutexInv
  BY DEF IInv
<1>1. ASSUME NEW g \in Goroutines, Start(g) \/ Step(g) PROVE MutexInv'
  <2> USE DEF MutexInv
  <2>0. g # NoOne /\ ReadSections \cap WriteSections = {}
    BY NoOneAssumption DEF ReadSections, WriteSections
  <2>1. \A h \in Goroutines \ {g} : go'[h].at = go[h].at
    BY <1>0, <1>1, OneMoves
  <2>2. CASE EnterRead(g)
    BY <1>0, <2>0, <2>2 DEF EnterRead, mu!RLock
  <2>3. CASE EnterWrite(g)
    <3>1. go' = go /\ go[g].at \in WriteSections
      BY <2>3 DEF EnterWrite
    <3>2. CASE mu!Announce(g)
      BY <1>0, <2>0, <3>1, <3>2 DEF mu!Announce
    <3>3. CASE mu!Acquire(g)
      BY <1>0, <2>0, <3>1, <3>3 DEF mu!Acquire
    <3> QED
      BY <2>3, <3>2, <3>3 DEF EnterWrite
  <2>4. CASE mu!RUnlock(g)
    BY <1>0, <2>0, <2>1, <2>4 DEF mu!RUnlock
  <2>5. CASE mu!Unlock(g)
    BY <1>0, <2>0, <2>1, <2>5 DEF mu!Unlock
  <2>6. CASE UNCHANGED mutexVars /\ go[g].at \notin ReadSections \cup WriteSections
    <3>1. g \notin readers \cup queued /\ g # writer
      BY <1>0, <2>0, <2>6
    <3> QED
      BY <1>0, <2>1, <2>6, <3>1 DEF mutexVars
  <2> QED
    BY <1>0, <1>1, <2>2, <2>3, <2>4, <2>5, <2>6, StepKinds
<1>2. CASE UNCHANGED vars
  BY <1>0, <1>2 DEF MutexInv, vars
<1> QED
  BY <1>1, <1>2 DEF Next, Done

-----------------------------------------------------------------------------
(* Registrations *)

\* Routes and middlewares are only added.
LEMMA OnlyAdded ==
    ASSUME NEW g \in Goroutines, Start(g) \/ Step(g)
    PROVE  routes \subseteq routes' /\ middlewares \subseteq middlewares'
<1> USE DEF Reading, Writing, Unlocked, tableVars
<1>1. CASE Start(g)
  BY ZenonT(40), <1>1 DEF Start, StartHandle, StartUse, StartServe
<1>2. CASE Insert(g) \/ Use(g)
  BY <1>2 DEF Insert, Use
<1>3. CASE Step(g) /\ ~Insert(g) /\ ~Use(g)
  BY <1>3 DEF Step, EnterRead, EnterWrite, LockIgnoreCase, CopyMiddlewares, IgnoreCaseActive,
     ChooseTables, Serve, ServeMethod, HandlerReturns, TryAlternateSlash, RedirectToAlternate,
     HandleMethodNotAllowed, AlternateNotAllowed
<1> QED
  BY <1>1, <1>2, <1>3

\* Where a goroutine is after Goto and Finish, and what it keeps.
LEMMA AfterGoto ==
    ASSUME TypeOK, NEW g \in Goroutines, NEW step, Goto(g, step)
    PROVE  /\ go'[g].at = step
           /\ go'[g].back = go[g].back /\ go'[g].method = go[g].method
           /\ go'[g].form = go[g].form /\ go'[g].route = go[g].route
           /\ go'[g].copied = go[g].copied /\ go'[g].answer = go[g].answer
           /\ go'[g].before = go[g].before /\ go'[g].used = go[g].used
BY DEF TypeOK, Goto, Doings

\* A request that is answered is over, and is still the one that came.
LEMMA AfterFinish ==
    ASSUME TypeOK, NEW g \in Goroutines, NEW answer, Finish(g, answer)
    PROVE  /\ go'[g].at = "idle" /\ go'[g].answer = answer
           /\ go'[g].method = go[g].method /\ go'[g].form = go[g].form
           /\ go'[g].before = go[g].before
BY DEF TypeOK, Finish, Doings

\* Every step keeps what registrations in progress have copied.
LEMMA RegisterStep == IInv /\ [Next]_vars => RegisterInv'
<1> SUFFICES ASSUME IInv, [Next]_vars PROVE RegisterInv'
  OBVIOUS
<1>0. TypeOK /\ RegisterInv
  BY DEF IInv
<1>1. ASSUME NEW g \in Goroutines, Start(g) \/ Step(g) PROVE RegisterInv'
  <2> DEFINE Good(h) == /\ go[h].at \in {"lockCase", "copy", "insert"} =>
                              /\ go[h].route \in RouteMethods \X Forms
                              /\ go[h].used \subseteq middlewares
                        /\ go[h].at = "insert" => go[h].used \subseteq go[h].copied
  <2>0. (\A h \in Goroutines : Good(h)) /\ (RegisterInv' <=> \A h \in Goroutines : Good(h)')
    BY <1>0 DEF RegisterInv
  <2>1. ASSUME NEW h \in Goroutines \ {g} PROVE Good(h)'
    BY <1>0, <1>1, <2>0, OneMoves, OnlyAdded
  <2>2. Good(g)'
    <3>1. ASSUME NEW method \in RouteMethods, NEW form \in Forms, StartHandle(g, method, form)
          PROVE  Good(g)'
      <4>1. /\ go'[g].at = "lockCase" /\ go'[g].route = <<method, form>>
            /\ go'[g].used = middlewares
        BY <1>0, <3>1 DEF TypeOK, StartHandle, Doings
      <4>2. middlewares' = middlewares
        BY <3>1 DEF StartHandle, tableVars
      <4>3. go'[g].route \in RouteMethods \X Forms
        BY <4>1
      <4> QED
        BY <4>1, <4>2, <4>3
    <3>2. CASE LockIgnoreCase(g)
      <4>1. go[g].at = "lockCase" /\ Goto(g, "copy") /\ middlewares' = middlewares
        BY <3>2 DEF LockIgnoreCase, Writing, At, tableVars
      <4> QED
        BY <1>0, <2>0, <4>1, AfterGoto
    <3>3. CASE CopyMiddlewares(g)
      <4>1. /\ go[g].at = "copy" /\ middlewares' = middlewares
            /\ go'[g].at = "insert" /\ go'[g].copied = middlewares
            /\ go'[g].used = go[g].used /\ go'[g].route = go[g].route
        BY <1>0, <3>3 DEF TypeOK, CopyMiddlewares, Reading, At, tableVars, Doings
      <4> QED
        BY <2>0, <4>1
    <3>4. CASE EnterRead(g) \/ EnterWrite(g)
      BY <2>0, <3>4 DEF EnterRead, EnterWrite, tableVars
    <3>5. CASE go'[g].at \notin {"lockCase", "copy", "insert"}
      BY <3>5
    <3>6. \/ \E method \in RouteMethods, form \in Forms : StartHandle(g, method, form)
          \/ LockIgnoreCase(g) \/ CopyMiddlewares(g) \/ EnterRead(g) \/ EnterWrite(g)
          \/ go'[g].at \notin {"lockCase", "copy", "insert"}
      <4>1. CASE Start(g)
        <5>1. CASE StartUse(g)
          BY <1>0, <5>1, AfterGoto DEF StartUse
        <5>2. ASSUME NEW method, NEW form, StartServe(g, method, form)
              PROVE  go'[g].at = "ignoreCase"
          BY <1>0, <5>2 DEF StartServe, TypeOK, Doings
        <5> QED
          BY <4>1, <5>1, <5>2 DEF Start
      <4>2. CASE Insert(g)
        BY <1>0, <4>2, AfterGoto DEF Insert, TypeOK, Doings, Returns
      <4>3. CASE Use(g) \/ IgnoreCaseActive(g) \/ ChooseTables(g) \/ Serve(g)
        BY <1>0, <4>3, AfterGoto DEF Use, IgnoreCaseActive, ChooseTables, Serve, ServeMethod
      <4>4. CASE HandlerReturns(g) \/ TryAlternateSlash(g) \/ RedirectToAlternate(g)
        BY <1>0, <4>4, AfterGoto, AfterFinish
        DEF HandlerReturns, TryAlternateSlash, RedirectToAlternate
      <4>5. CASE HandleMethodNotAllowed(g) \/ AlternateNotAllowed(g)
        BY <1>0, <4>5, AfterGoto, AfterFinish
        DEF HandleMethodNotAllowed, AlternateNotAllowed, NotFound
      <4> QED
        BY <1>1, <4>1, <4>2, <4>3, <4>4, <4>5 DEF Step
    <3> QED
      BY <3>1, <3>2, <3>3, <3>4, <3>5, <3>6
  <2> QED
    BY <2>0, <2>1, <2>2
<1>2. CASE UNCHANGED vars
  BY <1>0, <1>2 DEF RegisterInv, vars
<1> QED
  BY <1>1, <1>2 DEF Next, Done

-----------------------------------------------------------------------------
(* Requests *)

\* What ServeInv and RegisteredBeforeIsServed say of one goroutine
Search(g) ==
    /\ go[g].before \subseteq routes
    /\ go[g].at \in {"ignoreCase", "hosts", "serve", "serveGet"} \cup PastOwn => go[g].form \in Forms
    /\ go[g].at = "serveGet" => ~Has(go[g].before, go[g].method, go[g].form)
    /\ go[g].at \in PastOwn => ~Serves(go[g].before, go[g].method, go[g].form)
    /\ go[g].at = "altServeGet" => ~Has(go[g].before, go[g].method, Other(go[g].form))
    /\ go[g].at \in PastOther => ~Serves(go[g].before, go[g].method, Other(go[g].form))

Verdict(g) ==
    go[g].answer.kind # "none" =>
        /\ Serves(go[g].before, go[g].method, go[g].form) => go[g].answer.kind = "served"
        /\ Serves(go[g].before, go[g].method, Other(go[g].form)) =>
              go[g].answer.kind \in {"served", "redirect"}

\* What is not in the tables now was not in them when the request came.
LEMMA NotFoundNow ==
    ASSUME TypeOK, NEW g \in Goroutines, Search(g)
    PROVE  /\ \A method, form : ~Registered(method, form) => ~Has(go[g].before, method, form)
           /\ \A form, method : Allow(form) = {} => ~Serves(go[g].before, method, form)
           /\ NoSlashRoute(g) => ~Serves(go[g].before, go[g].method, Other(go[g].form))
<1>1. \A method, form : ~Registered(method, form) => ~Has(go[g].before, method, form)
  BY DEF Search, Registered, Has
<1>2. ASSUME NEW form, NEW method, Allow(form) = {}
      PROVE  ~Serves(go[g].before, method, form)
  BY <1>2, AllowType DEF Search, Serves
<1>3. ASSUME NoSlashRoute(g)
      PROVE  ~Serves(go[g].before, go[g].method, Other(go[g].form))
  BY <1>3 DEF NoSlashRoute, TypeOK, Search, Serves, Other
<1> QED
  BY <1>1, <1>2, <1>3

\* A method is served by a route of its own or, HEAD, by one of GET.
LEMMA ServesByMethod ==
    ASSUME NEW set, NEW method, NEW form
    PROVE  Serves(set, method, form) <=>
              Has(set, method, form) \/ (method = "HEAD" /\ Has(set, "GET", form))
BY DEF Serves, Has

\* A request stays as it is when its goroutine moves to a place outside of it.
LEMMA Outside ==
    ASSUME TypeOK, NEW g \in Goroutines, Search(g), Verdict(g), routes \subseteq routes',
           go'[g].before = go[g].before, go'[g].method = go[g].method,
           go'[g].form = go[g].form, go'[g].answer = go[g].answer,
           go'[g].at \in {"idle", "handler", "lockCase", "copy", "insert", "use"}
    PROVE  Search(g)' /\ Verdict(g)'
BY DEF Search, Verdict, PastOwn, PastOther

\* A request that is answered as the routes of its history ask stays right.
LEMMA Finishes ==
    ASSUME TypeOK, NEW g \in Goroutines, Search(g), routes \subseteq routes',
           NEW answer, Finish(g, answer),
           Serves(go[g].before, go[g].method, go[g].form) => answer.kind = "served",
           Serves(go[g].before, go[g].method, Other(go[g].form)) =>
              answer.kind \in {"served", "redirect"}
    PROVE  Search(g)' /\ Verdict(g)'
BY AfterFinish DEF Search, Verdict, PastOwn, PastOther

\* A request goes on to its next place with what it knows there.
LEMMA GoesOn ==
    ASSUME TypeOK, NEW g \in Goroutines, Search(g), Verdict(g), routes \subseteq routes',
           NEW step, Goto(g, step),
           step \in {"ignoreCase", "hosts", "serve", "serveGet"} \cup PastOwn => go[g].form \in Forms,
           step = "serveGet" => ~Has(go[g].before, go[g].method, go[g].form),
           step \in PastOwn => ~Serves(go[g].before, go[g].method, go[g].form),
           step = "altServeGet" => ~Has(go[g].before, go[g].method, Other(go[g].form)),
           step \in PastOther => ~Serves(go[g].before, go[g].method, Other(go[g].form))
    PROVE  Search(g)' /\ Verdict(g)'
BY AfterGoto DEF Search, Verdict

\* The lookup of a method at a form leads to the handler or to the next place,
\* and to the next place only if nothing was registered when the request came.
LEMMA LookedUp ==
    ASSUME TypeOK, NEW g \in Goroutines, Search(g), NEW section, NEW method, NEW form, NEW miss,
           ServeMethod(g, section, method, form, miss)
    PROVE  /\ go[g].at = section /\ routes' = routes
           /\ \/ Goto(g, "handler")
              \/ Goto(g, miss) /\ ~Has(go[g].before, method, form)
<1>1. go[g].at = section /\ routes' = routes
  BY DEF ServeMethod, Reading, At, tableVars
<1>2. CASE Registered(method, form)
  BY <1>1, <1>2 DEF ServeMethod
<1>3. CASE ~Registered(method, form)
  BY <1>1, <1>3, NotFoundNow DEF ServeMethod
<1> QED
  BY <1>1, <1>2, <1>3

\* The lookups of serveInTable, each in a section of its own, keep what a
\* request knows.
LEMMA ServeKeeps ==
    ASSUME TypeOK, NEW g \in Goroutines, Search(g), Verdict(g), Serve(g)
    PROVE  Search(g)' /\ Verdict(g)'
<1> DEFINE me == go[g]
           head == me.method = "HEAD"
<1>0. ASSUME Goto(g, "handler"), routes' = routes PROVE Search(g)' /\ Verdict(g)'
  BY <1>0, AfterGoto, Outside
<1>1. CASE ServeMethod(g, "serve", me.method, me.form, IF head THEN "serveGet" ELSE "alternate")
  <2>1. me.at = "serve" /\ routes' = routes /\ me.form \in Forms
    BY <1>1, LookedUp DEF Search
  <2>2. CASE Goto(g, IF head THEN "serveGet" ELSE "alternate")
             /\ ~Has(me.before, me.method, me.form)
    <3>1. CASE head
      BY <2>1, <2>2, <3>1, GoesOn DEF PastOwn, PastOther
    <3>2. CASE ~head
      <4>1. ~Serves(me.before, me.method, me.form)
        BY <2>2, <3>2, ServesByMethod
      <4> QED
        BY <2>1, <2>2, <3>2, <4>1, GoesOn DEF PastOther
    <3> QED
      BY <3>1, <3>2
  <2> QED
    BY <1>0, <1>1, <2>1, <2>2, LookedUp
<1>2. CASE ServeMethod(g, "serveGet", "GET", me.form, "alternate")
  <2>1. /\ me.at = "serveGet" /\ routes' = routes /\ me.form \in Forms
        /\ ~Has(me.before, me.method, me.form)
    BY <1>2, LookedUp DEF Search
  <2>2. CASE Goto(g, "alternate") /\ ~Has(me.before, "GET", me.form)
    <3>1. ~Serves(me.before, me.method, me.form)
      BY <2>1, <2>2, ServesByMethod
    <3> QED
      BY <2>1, <2>2, <3>1, GoesOn DEF PastOther
  <2> QED
    BY <1>0, <1>2, <2>1, <2>2, LookedUp
<1>3. CASE ServeMethod(g, "altServe", me.method, Other(me.form),
                       IF head THEN "altServeGet" ELSE "allowed")
  <2>1. /\ me.at = "altServe" /\ routes' = routes /\ me.form \in Forms
        /\ ~Serves(me.before, me.method, me.form)
    BY <1>3, LookedUp DEF Search, PastOwn
  <2>2. CASE Goto(g, IF head THEN "altServeGet" ELSE "allowed")
             /\ ~Has(me.before, me.method, Other(me.form))
    <3>1. CASE head
      BY <2>1, <2>2, <3>1, GoesOn DEF PastOther
    <3>2. CASE ~head
      <4>1. ~Serves(me.before, me.method, Other(me.form))
        BY <2>2, <3>2, ServesByMethod
      <4> QED
        BY <2>1, <2>2, <3>2, <4>1, GoesOn
    <3> QED
      BY <3>1, <3>2
  <2> QED
    BY <1>0, <1>3, <2>1, <2>2, LookedUp
<1>4. CASE ServeMethod(g, "altServeGet", "GET", Other(me.form), "allowed")
  <2>1. /\ me.at = "altServeGet" /\ routes' = routes /\ me.form \in Forms
        /\ ~Serves(me.before, me.method, me.form)
        /\ ~Has(me.before, me.method, Other(me.form))
    BY <1>4, LookedUp DEF Search, PastOwn
  <2>2. CASE Goto(g, "allowed") /\ ~Has(me.before, "GET", Other(me.form))
    <3>1. ~Serves(me.before, me.method, Other(me.form))
      BY <2>1, <2>2, ServesByMethod
    <3> QED
      BY <2>1, <2>2, <3>1, GoesOn
  <2> QED
    BY <1>0, <1>4, <2>1, <2>2, LookedUp
<1> QED
  BY <1>1, <1>2, <1>3, <1>4 DEF Serve

\* The rules for a request that no route serves
LEMMA SlashRulesKeep ==
    ASSUME TypeOK, NEW g \in Goroutines, Search(g), Verdict(g),
           \/ TryAlternateSlash(g) \/ RedirectToAlternate(g)
           \/ HandleMethodNotAllowed(g) \/ AlternateNotAllowed(g)
    PROVE  Search(g)' /\ Verdict(g)'
<1> DEFINE me == go[g]
<1> USE DEF Reading, Unlocked, At, tableVars
<1>0. /\ me.at \in PastOwn => me.form \in Forms /\ ~Serves(me.before, me.method, me.form)
      /\ me.at \in PastOther => ~Serves(me.before, me.method, Other(me.form))
  BY DEF Search
<1>1. CASE TryAlternateSlash(g)
  <2>1. me.at = "alternate" /\ routes' = routes
    BY <1>1 DEF TryAlternateSlash
  <2>2. CASE NoSlashRoute(g)
    BY <1>0, <1>1, <2>1, <2>2, NotFoundNow, GoesOn DEF TryAlternateSlash, PastOwn
  <2>3. CASE ~NoSlashRoute(g)
    BY <1>0, <1>1, <2>1, <2>3, GoesOn DEF TryAlternateSlash, PastOwn, PastOther
  <2> QED
    BY <2>2, <2>3
<1>2. CASE RedirectToAlternate(g)
  <2>1. me.at = "altAllowed" /\ routes' = routes
    BY <1>2 DEF RedirectToAlternate
  <2>2. CASE Allow(Other(me.form)) # {}
    BY <1>0, <1>2, <2>1, <2>2, Finishes DEF RedirectToAlternate, PastOwn
  <2>3. CASE Allow(Other(me.form)) = {}
    BY <1>0, <1>2, <2>1, <2>3, NotFoundNow, GoesOn DEF RedirectToAlternate, PastOwn
  <2> QED
    BY <2>2, <2>3
<1>3. CASE HandleMethodNotAllowed(g)
  <2>1. me.at = "allowed" /\ routes' = routes
    BY <1>3 DEF HandleMethodNotAllowed
  <2>2. CASE Goto(g, "alternate405")
    BY <1>0, <2>1, <2>2, GoesOn DEF PastOwn, PastOther
  <2>3. ASSUME NEW answer, Finish(g, answer) PROVE Search(g)' /\ Verdict(g)'
    BY <1>0, <2>1, <2>3, Finishes DEF PastOwn, PastOther
  <2> QED
    BY <1>3, <2>2, <2>3 DEF HandleMethodNotAllowed
<1>4. CASE AlternateNotAllowed(g)
  <2>1. me.at \in {"alternate405", "altAllowed405"} /\ routes' = routes
    BY <1>4 DEF AlternateNotAllowed
  <2>2. CASE Goto(g, "altAllowed405")
    BY <1>0, <2>1, <2>2, GoesOn DEF PastOwn, PastOther
  <2>3. ASSUME NEW answer, Finish(g, answer) PROVE Search(g)' /\ Verdict(g)'
    BY <1>0, <2>1, <2>3, Finishes DEF PastOwn, PastOther
  <2> QED
    BY <1>4, <2>2, <2>3 DEF AlternateNotAllowed
<1> QED
  BY <1>1, <1>2, <1>3, <1>4

\* Every step of a goroutine keeps what its own request knows.
LEMMA SearchStep ==
    ASSUME TypeOK, NEW g \in Goroutines, Search(g), Verdict(g), Start(g) \/ Step(g)
    PROVE  Search(g)' /\ Verdict(g)'
<1>0. routes \subseteq routes'
  BY OnlyAdded
<1> USE DEF Reading, Writing, At
<1>1. ASSUME NEW method \in RequestMethods, NEW form \in Forms, StartServe(g, method, form)
      PROVE  Search(g)' /\ Verdict(g)'
  <2>1. /\ go'[g].at = "ignoreCase" /\ go'[g].form = form /\ go'[g].before = routes
        /\ go'[g].answer = [kind |-> "none"]
    BY <1>1 DEF StartServe, TypeOK, Doings
  <2> QED
    BY <1>0, <2>1 DEF Search, Verdict, PastOwn, PastOther
<1>2. ASSUME NEW method \in RouteMethods, NEW form \in Forms, StartHandle(g, method, form)
      PROVE  Search(g)' /\ Verdict(g)'
  <2>1. /\ go'[g].at = "lockCase" /\ go'[g].form = go[g].form /\ go'[g].method = go[g].method
        /\ go'[g].before = go[g].before /\ go'[g].answer = go[g].answer
    BY <1>2 DEF StartHandle, TypeOK, Doings
  <2> QED
    BY <1>0, <2>1, Outside
<1>3. CASE CopyMiddlewares(g)
  <2>1. /\ go'[g].at = "insert" /\ go'[g].form = go[g].form /\ go'[g].method = go[g].method
        /\ go'[g].before = go[g].before /\ go'[g].answer = go[g].answer
    BY <1>3 DEF CopyMiddlewares, TypeOK, Doings
  <2> QED
    BY <1>0, <2>1, Outside
<1>4. CASE StartUse(g) \/ LockIgnoreCase(g) \/ Insert(g) \/ Use(g)
  <2>1. PICK step \in {"use", "copy", "idle", "handler"} : Goto(g, step)
    BY <1>4 DEF StartUse, LockIgnoreCase, Insert, Use, TypeOK, Doings, Returns
  <2> QED
    BY <1>0, <2>1, AfterGoto, Outside
<1>5. CASE EnterRead(g) \/ EnterWrite(g)
  BY <1>0, <1>5 DEF EnterRead, EnterWrite, Search, Verdict
<1>6. CASE IgnoreCaseActive(g) \/ ChooseTables(g)
  <2>1. /\ go[g].at \in {"ignoreCase", "hosts"} /\ go[g].form \in Forms
        /\ Goto(g, "hosts") \/ Goto(g, "serve")
    BY <1>6 DEF IgnoreCaseActive, ChooseTables, Search
  <2> QED
    BY <1>0, <2>1, GoesOn DEF PastOwn, PastOther
<1>7. CASE HandlerReturns(g)
  BY <1>0, <1>7, Finishes DEF HandlerReturns
<1> QED
  BY <1>1, <1>2, <1>3, <1>4, <1>5, <1>6, <1>7, ServeKeeps, SlashRulesKeep DEF Start, Step

\* Every step keeps what requests know and what they were answered.
LEMMA ServeStep == IInv /\ [Next]_vars => ServeInv' /\ RegisteredBeforeIsServed'
<1> SUFFICES ASSUME IInv, [Next]_vars PROVE ServeInv' /\ RegisteredBeforeIsServed'
  OBVIOUS
<1>0. /\ TypeOK
      /\ (ServeInv /\ RegisteredBeforeIsServed) <=> \A h \in Goroutines : Search(h) /\ Verdict(h)
  BY DEF IInv, ServeInv, RegisteredBeforeIsServed, Search, Verdict
<1>1. (ServeInv /\ RegisteredBeforeIsServed)' <=> \A h \in Goroutines : Search(h)' /\ Verdict(h)'
  BY DEF ServeInv, RegisteredBeforeIsServed, Search, Verdict
<1>2. \A h \in Goroutines : Search(h) /\ Verdict(h)
  BY <1>0 DEF IInv
<1>3. ASSUME NEW g \in Goroutines, Start(g) \/ Step(g), NEW h \in Goroutines
      PROVE  Search(h)' /\ Verdict(h)'
  <2>1. CASE h = g
    BY <1>0, <1>2, <1>3, <2>1, SearchStep
  <2>2. CASE h # g
    <3>1. go'[h] = go[h] /\ routes \subseteq routes'
      BY <1>0, <1>3, <2>2, OneMoves, OnlyAdded
    <3> QED
      BY <1>2, <3>1 DEF Search, Verdict
  <2> QED
    BY <2>1, <2>2
<1>4. ASSUME UNCHANGED vars PROVE \A h \in Goroutines : Search(h)' /\ Verdict(h)'
  BY <1>2, <1>4 DEF vars, Search, Verdict
<1> QED
  BY <1>1, <1>3, <1>4 DEF Next, Done

-----------------------------------------------------------------------------
(* Theorems *)

\* The invariant holds when the router is created.
LEMMA InitOK == Init => IInv
<1> SUFFICES ASSUME Init PROVE IInv
  OBVIOUS
<1>1. \A g \in Goroutines : go[g] = Idle
  BY DEF Init
<1>2. Idle \in Doings
  <2>1. "idle" \in Steps /\ "idle" \in Returns
    BY DEF Steps, Returns
  <2>2. <<"", "">> \in Calls /\ "" \in OrNone(RequestMethods) /\ "" \in OrNone(Forms)
    BY ZenonT(40) DEF Calls, OrNone
  <2>3. {} \in Chains /\ {} \in Tables /\ [kind |-> "none"] \in Answers
    BY DEF Chains, Tables, Answers
  <2> QED
    BY ZenonT(40), <2>1, <2>2, <2>3 DEF Idle, Doings
<1>3. TypeOK
  <2>1. hasTrailing \in BOOLEAN /\ ~hasTrailing
    BY Zenon DEF Init
  <2>2. routes = {} /\ middlewares = {} /\ StrictSlash \in StrictSlashes /\ ops \in 0 .. MaxOps
    BY OpsAssumption DEF Init
  <2>3. hasTrailing <=> \E r \in routes : r.form = "slash"
    BY <2>1, <2>2, Zenon
  <2>4. go \in [Goroutines -> Doings]
    BY <1>2 DEF Init
  <2>5. routes \in Tables /\ middlewares \in Chains
    BY <2>2 DEF Tables, Chains
  <2> QED
    BY <2>1, <2>2, <2>3, <2>4, <2>5, Zenon DEF TypeOK
<1>4. MutexInv
  BY DEF Init, mu!MutexInit, MutexInv
<1>5. Idle.at = "idle" /\ Idle.before = {} /\ Idle.answer.kind = "none"
  BY DEF Idle
<1>6. RegisterInv
  BY <1>1, <1>5 DEF RegisterInv
<1>7. ServeInv /\ RegisteredBeforeIsServed
  BY <1>1, <1>5 DEF ServeInv, RegisteredBeforeIsServed, PastOwn, PastOther
<1> QED
  BY <1>3, <1>4, <1>6, <1>7 DEF IInv

\* The inductive invariant: types, the mutex, what a registration in progress
\* has copied, and what a request on its way has not found.
THEOREM Inductive == Spec => []IInv
<1>1. IInv /\ [Next]_vars => IInv'
  BY TypeStep, MutexStep, RegisterStep, ServeStep DEF IInv
<1> QED
  BY InitOK, <1>1, PTL DEF Spec

\* The variables keep their types, and hasTrailing says whether a route ends
\* with a slash.
THEOREM Typed == Spec => []TypeOK
<1>1. IInv => TypeOK
  BY DEF IInv
<1> QED
  BY Inductive, <1>1, PTL

\* Router.mu excludes: a goroutine that writes the tables is alone with them.
THEOREM Exclusive == Spec => [](holds => readers = {} /\ writer \in Goroutines)
<1>1. IInv => (holds => readers = {} /\ writer \in Goroutines)
  BY DEF IInv, MutexInv
<1> QED
  BY Inductive, <1>1, PTL

\* Whoever has a place in the mutex is at one of the sections: handlers run, and
\* hasTrailing is read, with no lock held.
THEOREM NothingHeld == Spec => []HandlersUnlocked
<1>1. IInv => HandlersUnlocked
  BY DEF IInv, MutexInv, HandlersUnlocked
<1> QED
  BY Inductive, <1>1, PTL

\* A request that came after a registration had returned is served by its route,
\* or redirected to it, whatever is registered in the meantime.
THEOREM Served == Spec => []RegisteredBeforeIsServed
<1>1. IInv => RegisteredBeforeIsServed
  BY DEF IInv
<1> QED
  BY Inductive, <1>1, PTL

\* The middlewares that were used before a registration are in the chain of its
\* route, though they are copied in one section and inserted in a later one.
THEOREM Applied == Spec => UsedBeforeIsApplied
<1> DEFINE Step1 == \A g \in Goroutines :
                       Insert(g) => \A r \in routes' \ routes : go[g].used \subseteq r.mws
<1>1. IInv => Step1
  <2> SUFFICES ASSUME IInv, NEW g \in Goroutines, Insert(g), NEW r \in routes' \ routes
               PROVE  go[g].used \subseteq r.mws
    OBVIOUS
  <2>1. go[g].used \subseteq go[g].copied
    BY DEF IInv, RegisterInv, Insert, Writing, At
  <2>2. r.mws = go[g].copied
    BY DEF Insert
  <2> QED
    BY <2>1, <2>2
<1>2. IInv /\ [Next]_vars => [Step1]_vars
  BY <1>1
<1> QED
  BY Inductive, <1>2, PTL DEF Spec, UsedBeforeIsApplied

=============================================================================
