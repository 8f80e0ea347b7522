----------------------------- MODULE ServiceProofs -----------------------------
(***************************************************************************)
(* Safety of module Service, and with it of GracefulServer, for any set of *)
(* requests and any capacity of the ring buffer.                           *)
(***************************************************************************)
EXTENDS Service, SequenceTheorems, TLAPS

\* Run: the server is told to shut down by Run alone, which then no longer
\* waits for errCh; until then ListenAndServe returns only errors.
RunInv ==
    /\ run = "waiting" => ~inShutdown
    /\ run = "draining" => inShutdown
    /\ listener = "closed" \/ errCh = <<"nil">> => inShutdown
    /\ run = "returned" <=> result # "none"
    /\ CleanMeansDrained

\* Handlers: with no Timeout around them they end after their log.
WorkInv ==
    \A r \in Requests :
        /\ work[r] = "logged" => r \in ToSet(accepted)
        /\ ~bounded /\ work[r] \in {"running", "writing"} => handler[r] = "running"
        /\ ~bounded /\ handler[r] = "finished" => work[r] \in {"logged", "refused"}

\* The consumer: what it was given is the beginning of what was taken, and all
\* of it once Consume has returned, unless producers are still there.
ConsumerInv ==
    /\ released <= Len(out) /\ Len(out) <= Len(accepted)
    /\ \A i \in 1 .. Len(out) : out[i] = accepted[i]
    /\ closed => run = "returned"
    /\ stopped => closed
    /\ stopped /\ result = "nil" /\ ~bounded => Len(out) = Len(accepted)

IInv == TypeOK /\ RunInv /\ WorkInv /\ ConsumerInv

-----------------------------------------------------------------------------
(* Run *)

\* The actions of Run and of the goroutine it starts keep their invariant.
LEMMA ServerKeeps ==
    ASSUME ServerTypeOK, RunInv, Listen \/ StopServing \/ Main \/ Cancel
    PROVE  ServerTypeOK' /\ RunInv' /\ handler' = handler
<1> USE DEF ServerTypeOK, RunInv, CleanMeansDrained, Running
<1>1. CASE CheckShutdown \/ Bind \/ Track \/ StopServing
  BY <1>1 DEF CheckShutdown, Bind, Track, StopServing
<1>2. CASE Send
  <2>1. errCh = <<>>
    BY <1>2 DEF Send
  <2>2. CASE listener = "failed"
    <3>1. errCh' = <<"error">>
      BY <1>2, <2>1, <2>2 DEF Send
    <3>2. <<"error">> # <<"nil">>
      OBVIOUS
    <3> QED
      BY <1>2, <3>1, <3>2 DEF Send
  <2>3. CASE listener = "closed"
    <3>1. errCh' = <<"nil">>
      BY <1>2, <2>1, <2>3 DEF Send
    <3> QED
      BY <1>2, <2>3, <3>1 DEF Send
  <2> QED
    BY <1>2, <2>2, <2>3 DEF Send
<1>3. CASE BeginShutdown
  BY <1>3 DEF BeginShutdown
<1>6. CASE Expire
  BY <1>6 DEF Expire
<1>7. CASE Cancel
  BY <1>7 DEF Cancel
<1>4. CASE ReturnListenError
  <2>1. errCh = <<"error">>
    BY <1>4 DEF ReturnListenError
  <2>2. errCh' = <<>> /\ result' = "error" /\ run' = "returned"
    BY <1>4, <2>1 DEF ReturnListenError
  <2> QED
    BY <1>4, <2>2 DEF ReturnListenError
<1>5. CASE ReturnShutdown
  BY <1>5 DEF ReturnShutdown
<1> QED
  BY <1>1, <1>2, <1>3, <1>4, <1>5, <1>6, <1>7 DEF Listen, Main

\* Requests come only while the server serves, so none comes once Run has
\* returned without an error.
LEMMA HandlersKeep ==
    ASSUME ServerTypeOK, RunInv, NEW r \in Requests, Arrive(r) \/ Finish(r)
    PROVE  /\ ServerTypeOK' /\ RunInv'
           /\ UNCHANGED <<ctxDone, timedOut, run, result, listener, errCh, inShutdown>>
BY DEF ServerTypeOK, RunInv, CleanMeansDrained, Running, Arrive, Finish

\* Every step of the service keeps Run's invariant: it is a step of Run or of its
\* goroutine, or a handler starts or ends, or it leaves Run as it is.
LEMMA RunStep == IInv /\ [Next]_vars => ServerTypeOK' /\ RunInv'
<1> SUFFICES ASSUME IInv, [Next]_vars PROVE ServerTypeOK' /\ RunInv'
  OBVIOUS
<1>0. ServerTypeOK /\ RunInv
  BY DEF IInv, TypeOK
<1>1. CASE ServerStep(Listen) \/ ServerStep(StopServing) \/ ServerStep(Main) \/ ServerStep(Cancel)
  BY <1>0, <1>1, ServerKeeps DEF ServerStep
<1>2. CASE \E r \in Requests : Serve(r) \/ Answer(r)
  BY <1>0, <1>2, HandlersKeep DEF Serve, Answer
<1>3. CASE UNCHANGED serverVars
  BY <1>0, <1>3 DEF serverVars, ServerTypeOK, RunInv, CleanMeansDrained, Running
<1>4. UNCHANGED serverVars \/ (\E r \in Requests : Serve(r) \/ Answer(r))
      \/ ServerStep(Listen) \/ ServerStep(StopServing) \/ ServerStep(Main) \/ ServerStep(Cancel)
  BY DEF Next, BeginLog, Log, Drop, CloseLog, Consume, Exit, vars
<1> QED
  BY <1>1, <1>2, <1>3, <1>4

-----------------------------------------------------------------------------
(* The log *)

\* What the queue's actions do to the events taken and handed over
LEMMA Taken ==
    ASSUME TypeOK, NEW r \in Requests, Log(r)
    PROVE  /\ accepted' = Append(accepted, r)
           /\ accepted' \in Seq(Requests) /\ Len(accepted') = Len(accepted) + 1
           /\ \A i \in 1 .. Len(accepted) : accepted'[i] = accepted[i]
           /\ ToSet(accepted') = ToSet(accepted) \cup {r}
           /\ UNCHANGED <<from, out, released, closed, stopped>>
<1>1. accepted' = Append(accepted, r) /\ UNCHANGED <<from, out, released, closed, stopped>>
  BY DEF Log, Queue!Accept
<1>2. /\ accepted' \in Seq(Requests) /\ Len(accepted') = Len(accepted) + 1
      /\ \A i \in 1 .. Len(accepted) : accepted'[i] = accepted[i]
      /\ accepted'[Len(accepted) + 1] = r
  BY <1>1 DEF TypeOK
<1>3. ToSet(accepted') = ToSet(accepted) \cup {r}
  <2>1. DOMAIN accepted = 1 .. Len(accepted) /\ DOMAIN accepted' = 1 .. Len(accepted')
    BY <1>2 DEF TypeOK
  <2>2. Len(accepted) \in Nat
    BY DEF TypeOK
  <2>3. 1 .. Len(accepted') = (1 .. Len(accepted)) \cup {Len(accepted) + 1}
    BY <1>2, <2>2
  <2> QED
    BY <1>2, <2>1, <2>3 DEF ToSet
<1> QED
  BY <1>1, <1>2, <1>3

\* What a batch does: the events handed over stay the first ones taken.
LEMMA Given ==
    ASSUME TypeOK, ConsumerInv, NEW n \in 1 .. Cap, Queue!HandOver(n)
    PROVE  /\ out' \in Seq(Requests) /\ Len(out') = Len(out) + n /\ Len(out') <= Len(accepted)
           /\ \A i \in 1 .. Len(out') : out'[i] = accepted[i]
           /\ UNCHANGED <<accepted, from, released, closed, stopped>>
<1> DEFINE batch == SubSeq(accepted, Len(out) + 1, Len(out) + n)
<1>1. n \in Nat \ {0} /\ Len(out) \in Nat /\ Len(accepted) \in Nat /\ from = 0
  BY CapAssumption DEF TypeOK
<1>2. /\ out' = out \o SubSeq(accepted, from + Len(out) + 1, from + Len(out) + n)
      /\ from + Len(out) + n <= Len(accepted)
      /\ UNCHANGED <<accepted, from, released, closed, stopped>>
  BY DEF Queue!HandOver
<1>3. out' = out \o batch /\ Len(out) + n <= Len(accepted)
  BY <1>1, <1>2
<1>4. /\ batch \in Seq(Requests) /\ Len(batch) = n
      /\ \A i \in 1 .. n : batch[i] = accepted[Len(out) + i]
  BY <1>1, <1>3, SubSeqProperties DEF TypeOK
<1> HIDE DEF batch
<1>5. /\ out' \in Seq(Requests) /\ Len(out') = Len(out) + n
      /\ \A i \in 1 .. Len(out') :
            out'[i] = IF i <= Len(out) THEN out[i] ELSE batch[i - Len(out)]
  BY ZenonT(40), <1>1, <1>3, <1>4, ConcatProperties DEF TypeOK
<1>6. ASSUME NEW i \in 1 .. Len(out') PROVE out'[i] = accepted[i]
  <2>1. CASE i <= Len(out)
    BY <1>1, <1>5, <2>1 DEF ConsumerInv
  <2>2. CASE ~(i <= Len(out))
    <3>1. i - Len(out) \in 1 .. n /\ Len(out) + (i - Len(out)) = i
      BY <1>1, <1>5, <2>2
    <3> QED
      BY <1>4, <1>5, <2>2, <3>1
  <2> QED
    BY <2>1, <2>2
<1> QED
  BY <1>1, <1>2, <1>3, <1>5, <1>6

\* The steps of the service, as the queue and the log see them
LEMMA StepKinds ==
    ASSUME [Next]_vars
    PROVE  \/ UNCHANGED <<bounded, work, seen, queueVars>>
           \/ \E r \in Requests : Serve(r) \/ BeginLog(r) \/ Log(r) \/ Drop(r)
           \/ CloseLog
           \/ Consume
BY DEF Next, vars, workVars, ServerStep, Answer, Exit

\* Every step keeps the types.
LEMMA TypeStep == IInv /\ [Next]_vars => TypeOK'
<1> SUFFICES ASSUME IInv, [Next]_vars PROVE TypeOK'
  OBVIOUS
<1>0. TypeOK /\ ConsumerInv /\ ServerTypeOK' /\ Len(accepted) \in Nat /\ Len(out) \in Nat
  BY RunStep DEF IInv, TypeOK
<1> DEFINE Kept == /\ bounded \in BOOLEAN /\ from = 0
                   /\ closed \in BOOLEAN /\ stopped \in BOOLEAN
           Works == [Requests -> {"absent", "running", "writing", "logged", "refused"}]
           Logged == /\ seen \in [Requests -> {None} \cup 0 .. Len(accepted)]
                     /\ accepted \in Seq(Requests) /\ out \in Seq(Requests)
                     /\ released \in 0 .. Len(accepted)
<1>1. TypeOK <=> ServerTypeOK /\ Kept /\ work \in Works /\ Logged
  BY DEF TypeOK
<1>2. (TypeOK <=> ServerTypeOK /\ Kept /\ work \in Works /\ Logged)'
  BY DEF TypeOK
<1>3. CASE UNCHANGED <<bounded, work, seen, queueVars>>
  BY <1>0, <1>1, <1>2, <1>3 DEF queueVars
<1>4. ASSUME NEW r \in Requests, Serve(r) \/ BeginLog(r) \/ Drop(r) PROVE TypeOK'
  <2>1. Kept'
    BY <1>0, <1>1, <1>4 DEF Serve, BeginLog, Drop, queueVars
  <2>2. work' \in Works
    BY <1>0, <1>1, <1>4 DEF Serve, BeginLog, Drop
  <2>3. Logged'
    BY <1>0, <1>1, <1>4 DEF Serve, BeginLog, Drop, queueVars
  <2> QED
    BY <1>0, <1>2, <2>1, <2>2, <2>3
<1>5. ASSUME NEW r \in Requests, Log(r) PROVE TypeOK'
  <2>1. Kept' /\ work' \in Works
    BY <1>0, <1>1, <1>5, Taken DEF Log
  <2>2. seen' = seen /\ out' = out /\ released' = released
    BY <1>0, <1>5, Taken DEF Log
  <2>3. Logged'
    BY <1>0, <1>1, <1>5, <2>2, Taken
  <2> QED
    BY <1>0, <1>2, <2>1, <2>3
<1>6. CASE CloseLog
  BY <1>0, <1>1, <1>2, <1>6 DEF CloseLog, Queue!Close, workVars
<1>7. CASE Consume
  <2>0. UNCHANGED <<bounded, work, seen>>
    BY <1>7 DEF Consume, workVars
  <2>1. ASSUME NEW n \in 1 .. Cap, Queue!HandOver(n) PROVE TypeOK'
    BY <1>0, <1>1, <1>2, <2>0, <2>1, Given
  <2>2. CASE Queue!Release
    BY <1>0, <1>1, <1>2, <2>0, <2>2 DEF Queue!Release, ConsumerInv
  <2>3. CASE ReturnFromConsume
    BY <1>0, <1>1, <1>2, <2>0, <2>3 DEF ReturnFromConsume, Queue!Stop
  <2> QED
    BY <1>7, <2>1, <2>2, <2>3 DEF Consume
<1> QED
  BY <1>3, <1>4, <1>5, <1>6, <1>7, StepKinds

\* Every step keeps what ties a handler to its log.
LEMMA WorkStep == IInv /\ [Next]_vars => WorkInv'
<1> SUFFICES ASSUME IInv, [Next]_vars PROVE WorkInv'
  OBVIOUS
<1>0. TypeOK /\ ServerTypeOK /\ WorkInv /\ ServerTypeOK'
  BY RunStep DEF IInv, TypeOK
<1> USE DEF WorkInv
<1>1. CASE UNCHANGED <<handler, bounded, work, accepted>>
  BY <1>0, <1>1
<1>2. ASSUME NEW r \in Requests, Serve(r) PROVE WorkInv'
  BY <1>0, <1>2 DEF Serve, Arrive, TypeOK, ServerTypeOK, queueVars
<1>3. ASSUME NEW r \in Requests, BeginLog(r) \/ Drop(r) PROVE WorkInv'
  BY <1>0, <1>3 DEF BeginLog, Drop, TypeOK, ServerTypeOK, serverVars, queueVars
<1>4. ASSUME NEW r \in Requests, Log(r) PROVE WorkInv'
  <2>1. UNCHANGED <<handler, bounded>> /\ work' = [work EXCEPT ![r] = "logged"]
    BY <1>4 DEF Log, serverVars
  <2> QED
    BY <1>0, <1>4, <2>1, Taken DEF TypeOK
<1>5. ASSUME NEW r \in Requests, Answer(r) PROVE WorkInv'
  BY <1>0, <1>5 DEF Answer, Finish, TypeOK, ServerTypeOK, workVars, queueVars
<1>6. \/ UNCHANGED <<handler, bounded, work, accepted>>
      \/ \E r \in Requests : Serve(r) \/ BeginLog(r) \/ Drop(r) \/ Log(r) \/ Answer(r)
  <2>1. CASE ServerStep(Listen) \/ ServerStep(StopServing) \/ ServerStep(Main)
             \/ ServerStep(Cancel)
    BY <1>0, <2>1, ServerKeeps DEF IInv, ServerStep, workVars, queueVars
  <2>2. CASE CloseLog \/ Consume \/ Exit \/ UNCHANGED vars
    BY <2>2 DEF CloseLog, Queue!Close, Consume, Queue!HandOver, Queue!Release,
       ReturnFromConsume, Queue!Stop, Exit, vars, serverVars, workVars, queueVars
  <2> QED
    BY <2>1, <2>2 DEF Next
<1> QED
  BY <1>1, <1>2, <1>3, <1>4, <1>5, <1>6

\* After a clean shutdown with no Timeout, nobody is about to log.
LEMMA NobodyWrites ==
    ASSUME IInv, result = "nil", ~bounded, NEW r \in Requests
    PROVE  work[r] \in {"absent", "logged", "refused"}
BY DEF IInv, TypeOK, RunInv, WorkInv, CleanMeansDrained, Running

\* Every step keeps what ties the consumer's events to those taken.
LEMMA ConsumerStep == IInv /\ [Next]_vars => ConsumerInv'
<1> SUFFICES ASSUME IInv, [Next]_vars PROVE ConsumerInv'
  OBVIOUS
<1>0. TypeOK /\ RunInv /\ ConsumerInv /\ Len(accepted) \in Nat /\ Len(out) \in Nat
  BY DEF IInv, TypeOK
<1> USE DEF ConsumerInv
<1>1. ASSUME UNCHANGED <<bounded, queueVars>> PROVE ConsumerInv'
  \* Run has returned before the buffer is closed, and returns once.
  <2>1. run = "returned" => run' = run /\ result' = result
    <3>1. CASE ServerStep(Listen) \/ ServerStep(StopServing) \/ ServerStep(Main)
               \/ ServerStep(Cancel)
      BY <3>1 DEF ServerStep, Listen, Main, Cancel, CheckShutdown, Bind, Track, StopServing, Send,
         BeginShutdown, ReturnListenError, Expire, ReturnShutdown
    <3>2. CASE \E r \in Requests : Serve(r) \/ BeginLog(r) \/ Log(r) \/ Drop(r) \/ Answer(r)
      BY <3>2 DEF Serve, Arrive, BeginLog, Log, Drop, Answer, Finish, serverVars
    <3>3. CASE CloseLog \/ Consume \/ Exit \/ UNCHANGED vars
      BY <3>3 DEF CloseLog, Consume, Exit, vars, serverVars
    <3> QED
      BY <3>1, <3>2, <3>3 DEF Next
  <2> QED
    BY <1>0, <1>1, <2>1 DEF queueVars
<1>2. ASSUME NEW r \in Requests, Log(r) PROVE ConsumerInv'
  <2>1. UNCHANGED <<run, result, bounded>> /\ work[r] = "writing"
    BY <1>2 DEF Log, serverVars
  <2>2. ~(result = "nil" /\ ~bounded)
    BY <2>1, NobodyWrites
  <2> QED
    BY <1>0, <1>2, <2>1, <2>2, Taken
<1>3. CASE CloseLog
  BY <1>0, <1>3 DEF CloseLog, Queue!Close, serverVars
<1>4. CASE Consume
  <2>0. UNCHANGED <<run, result, bounded>> /\ ~stopped
    BY <1>4 DEF Consume, serverVars
  <2>1. ASSUME NEW n \in 1 .. Cap, Queue!HandOver(n) PROVE ConsumerInv'
    BY <1>0, <2>0, <2>1, CapAssumption, Given DEF TypeOK
  <2>2. CASE Queue!Release
    BY <1>0, <2>0, <2>2 DEF Queue!Release, TypeOK
  <2>3. CASE ReturnFromConsume
    BY <1>0, <2>0, <2>3 DEF ReturnFromConsume, Queue!Stop, TypeOK
  <2> QED
    BY <1>4, <2>1, <2>2, <2>3 DEF Consume
<1>5. \/ UNCHANGED <<bounded, queueVars>>
      \/ \E r \in Requests : Log(r)
      \/ CloseLog \/ Consume
  BY StepKinds DEF Serve, BeginLog, Drop
<1> QED
  BY <1>1, <1>2, <1>3, <1>4, <1>5

-----------------------------------------------------------------------------
(* Theorems *)

\* The invariant holds when the program starts.
LEMMA InitOK == Init => IInv
<1> SUFFICES ASSUME Init PROVE IInv
  OBVIOUS
<1>1. ServerTypeOK
  BY DEF Init, ServerInit, ServerTypeOK
<1>2. /\ accepted = <<>> /\ out = <<>> /\ from = 0 /\ released = 0
      /\ closed \in BOOLEAN /\ stopped \in BOOLEAN /\ ~closed /\ ~stopped
  BY DEF Init, Queue!Init
<1>3. Len(accepted) = 0 /\ Len(out) = 0
  BY <1>2
<1>4. TypeOK
  BY <1>1, <1>2, <1>3 DEF Init, TypeOK
<1>5. RunInv
  <2>1. /\ run = "waiting" /\ result = "none" /\ listener = "starting" /\ errCh = <<>>
        /\ ~inShutdown
    BY DEF Init, ServerInit
  <2>2. <<>> # <<"nil">>
    OBVIOUS
  <2> QED
    BY <2>1, <2>2 DEF RunInv, CleanMeansDrained
<1>6. WorkInv
  BY ZenonT(40) DEF Init, ServerInit, WorkInv
<1>7. ConsumerInv
  BY <1>2, <1>3 DEF ConsumerInv
<1> QED
  BY <1>4, <1>5, <1>6, <1>7 DEF IInv

\* The inductive invariant: types, how far Run and the server are, each handler
\* with its log, and the consumer's events.
THEOREM Inductive == Spec => []IInv
<1>1. IInv /\ [Next]_vars => IInv'
  BY TypeStep, RunStep, WorkStep, ConsumerStep DEF IInv
<1> QED
  BY InitOK, <1>1, PTL DEF Spec

\* The variables keep their types, and the consumer never releases what was not
\* taken.
THEOREM Typed == Spec => []TypeOK
<1>1. IInv => TypeOK
  BY DEF IInv
<1> QED
  BY Inductive, <1>1, PTL

\* server.Run returns nil only when every handler has ended and none can start.
THEOREM CleanShutdown == Spec => []CleanMeansDrained
<1>1. IInv => CleanMeansDrained
  BY DEF IInv, RunInv
<1> QED
  BY Inductive, <1>1, PTL

\* A program that closes the buffer when Run is done keeps the contract of
\* RingBuffer.Close after a clean shutdown, if no Timeout lets handlers outlive
\* their connection.
THEOREM CloseContract == Spec => []ProducersStopBeforeClose
<1>1. IInv => ProducersStopBeforeClose
  BY ZenonT(40), NobodyWrites DEF ProducersStopBeforeClose
<1> QED
  BY Inductive, <1>1, PTL

\* And then no event that TryWrite took is missing when Consume returns.
THEOREM CompleteLog == Spec => []LogIsComplete
<1>1. IInv => LogIsComplete
  <2> SUFFICES ASSUME IInv, stopped, result = "nil", ~bounded,
                      NEW r \in Requests, handler[r] = "finished", work[r] # "refused"
               PROVE  r \in ToSet(out)
    BY DEF LogIsComplete
  <2>1. r \in ToSet(accepted)
    BY DEF IInv, WorkInv
  <2>2. /\ accepted \in Seq(Requests) /\ out \in Seq(Requests)
        /\ Len(out) = Len(accepted) /\ \A i \in 1 .. Len(out) : out[i] = accepted[i]
    BY DEF IInv, TypeOK, ConsumerInv
  <2> QED
    BY <2>1, <2>2 DEF ToSet
<1> QED
  BY Inductive, <1>1, PTL

\* The service uses the ring buffer as its specification LogQueue allows, which
\* module RingBufferProofs proves of the lock-free code: each step is one of
\* the queue's or leaves it alone.
THEOREM UsesQueue == Spec => Queue!Spec
<1>1. Init => Queue!Init
  BY DEF Init
<1>2. [Next]_vars => [Queue!Next]_(Queue!vars)
  <2> SUFFICES ASSUME [Next]_vars PROVE Queue!Next \/ UNCHANGED Queue!vars
    OBVIOUS
  <2>1. CASE UNCHANGED <<bounded, work, seen, queueVars>>
    BY <2>1 DEF queueVars, Queue!vars
  <2>2. ASSUME NEW r \in Requests, Serve(r) \/ BeginLog(r) \/ Drop(r)
        PROVE  UNCHANGED Queue!vars
    BY <2>2 DEF Serve, BeginLog, Drop, queueVars, Queue!vars
  <2>3. ASSUME NEW r \in Requests, Log(r) PROVE Queue!Next
    BY <2>3 DEF Log, Queue!Next
  <2>4. CASE CloseLog
    BY <2>4 DEF CloseLog, Queue!Next
  <2>5. CASE Consume
    BY <2>5 DEF Consume, ReturnFromConsume, Queue!Next
  <2> QED
    BY <2>1, <2>2, <2>3, <2>4, <2>5, StepKinds
<1> QED
  BY <1>1, <1>2, PTL DEF Spec, Queue!Spec
=============================================================================
