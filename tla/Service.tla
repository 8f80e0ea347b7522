-------------------------------- MODULE Service --------------------------------
(***************************************************************************)
(* The whole of a program that serves with an access log: server.Run       *)
(* (module GracefulServer), handlers behind middleware.AccessLog that log  *)
(* before they return (middleware/access_log.go), and the logger's ring    *)
(* buffer, here the queue of module LogQueue, which RingBuffer implements. *)
(* As Close's comment asks, the program closes the buffer when Run is done.*)
(* Behind a Timeout, as in the repository's README, a handler and its log  *)
(* may outlive the connection that Shutdown waits for.                     *)
(***************************************************************************)
EXTENDS GracefulServer, SequencesExt

CONSTANTS
    Cap,        \* capacity of the ring buffer
    None        \* no number

ASSUME CapAssumption == Cap \in Nat \ {0}

VARIABLES
    bounded,    \* a Timeout encloses AccessLog, never changed
    work,       \* each request's handler with its log: "absent", "running",
                \* "writing" (in TryWrite, not closed), "logged" or "refused"
    seen,       \* each request: the number of events taken when its TryWrite
                \* began, None before
    accepted, from, out, released, closed, stopped  \* the queue's

Queue == INSTANCE LogQueue WITH Offers <- Requests, QuiesceBeforeClose <- FALSE

queueVars == <<accepted, from, out, released, closed, stopped>>
workVars  == <<work, seen>>
vars      == <<serverVars, bounded, workVars, queueVars>>

Init ==
    /\ ServerInit
    /\ bounded \in BOOLEAN
    /\ work = [r \in Requests |-> "absent"]
    /\ seen = [r \in Requests |-> None]
    /\ Queue!Init

-----------------------------------------------------------------------------
(* Handlers behind AccessLog *)

Serve(r) ==
    /\ Arrive(r)
    /\ work' = [work EXCEPT ![r] = "running"]
    /\ UNCHANGED <<bounded, seen, queueVars>>

\* The handler has returned or panicked, and TryWrite looks at closed.
BeginLog(r) ==
    /\ work[r] = "running"
    /\ work' = [work EXCEPT ![r] = IF closed THEN "refused" ELSE "writing"]
    /\ seen' = [seen EXCEPT ![r] = Len(accepted)]
    /\ UNCHANGED <<serverVars, bounded, queueVars>>

\* TryWrite does not look at closed again before it takes a slot.
Log(r) ==
    /\ work[r] = "writing"
    /\ Queue!Accept(r)
    /\ work' = [work EXCEPT ![r] = "logged"]
    /\ UNCHANGED <<serverVars, bounded, seen>>

\* AccessLog ignores that the buffer is full, or looks full because the consumer
\* has overtaken the producer's view of it.
Drop(r) ==
    /\ work[r] = "writing"
    /\ Len(accepted) - released >= Cap \/ released > seen[r]
    /\ work' = [work EXCEPT ![r] = "refused"]
    /\ UNCHANGED <<serverVars, bounded, seen, queueVars>>

\* mutant: the event is written after the handler has returned
AnswerFirst(r) ==
    /\ Finish(r)
    /\ UNCHANGED <<bounded, workVars, queueVars>>

\* The connection is done when the chain has returned, with AccessLog's deferred
\* function; behind a Timeout also earlier.
Answer(r) ==
    /\ work[r] \in {"logged", "refused"} \/ bounded
    /\ Finish(r)
    /\ UNCHANGED <<bounded, workVars, queueVars>>

-----------------------------------------------------------------------------
(* The program and the consumer of its events *)

\* rb.Close() after server.Run
CloseLog ==
    /\ run = "returned" /\ ~closed
    /\ Queue!Close
    /\ UNCHANGED <<serverVars, bounded, workVars>>

\* mutant: Consume returns as soon as it sees that the buffer is closed
ReturnOnClose == closed /\ stopped' = TRUE /\ UNCHANGED <<accepted, from, out, released, closed>>

ReturnFromConsume == Queue!Stop

Consume ==
    /\ ~stopped
    /\ \/ \E n \in 1 .. Cap : Queue!HandOver(n)
       \/ released # from + Len(out) /\ Queue!Release
       \/ ReturnFromConsume
    /\ UNCHANGED <<serverVars, bounded, workVars>>

ServerStep(A) == A /\ UNCHANGED <<bounded, workVars, queueVars>>

\* The program may exit: what still runs is cut off.
Exit == run = "returned" /\ stopped /\ UNCHANGED vars

Next ==
    \/ ServerStep(Listen) \/ ServerStep(StopServing) \/ ServerStep(Main) \/ ServerStep(Cancel)
    \/ \E r \in Requests : Serve(r) \/ BeginLog(r) \/ Log(r) \/ Drop(r) \/ Answer(r)
    \/ CloseLog \/ Consume \/ Exit

\* Goroutines run, timers expire, Serve returns once Shutdown has closed its
\* listener, and the ring buffer's consumer goes on (see RingBuffer).  Nothing
\* makes a handler finish or the context be cancelled.
Spec ==
    /\ Init /\ [][Next]_vars
    /\ WF_vars(ServerStep(Listen)) /\ WF_vars(ServerStep(Main))
    /\ WF_vars(ServerStep(StopServing /\ inShutdown))
    /\ WF_vars(CloseLog) /\ WF_vars(Consume)

-----------------------------------------------------------------------------
(* Properties *)

\* The types, a producer's view of the buffer that is never ahead of it, and a
\* consumer that starts once and never releases more than was taken.
TypeOK ==
    /\ ServerTypeOK
    /\ bounded \in BOOLEAN
    /\ work \in [Requests -> {"absent", "running", "writing", "logged", "refused"}]
    /\ seen \in [Requests -> {None} \cup 0 .. Len(accepted)]
    /\ accepted \in Seq(Requests) /\ out \in Seq(Requests)
    /\ from = 0 /\ released \in 0 .. Len(accepted)
    /\ closed \in BOOLEAN /\ stopped \in BOOLEAN

\* Close's contract, "Producers should stop before calling Close": a program that
\* closes the buffer after a clean Run keeps it, as the handlers Shutdown waits
\* for have logged by then; unless a Timeout lets them go on.
ProducersStopBeforeClose ==
    closed /\ result = "nil" /\ ~bounded =>
        \A r \in Requests : work[r] \in {"absent", "logged", "refused"}

\* Then the log is complete when Consume returns: each request that was served
\* is in what the consumer was given, or TryWrite has refused it.
LogIsComplete ==
    stopped /\ result = "nil" /\ ~bounded =>
        \A r \in Requests : handler[r] = "finished" => r \in ToSet(out) \/ work[r] = "refused"

\* The program ends, whatever its handlers do: once it is told to stop or cannot
\* listen, Run returns, the buffer is drained and Consume returns.
ServiceEnds == (ctxDone \/ listener = "failed") ~> (run = "returned" /\ stopped)
=============================================================================
