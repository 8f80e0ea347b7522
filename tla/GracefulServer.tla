---------------------------- MODULE GracefulServer ----------------------------
(***************************************************************************)
(* server.Run (server/graceful.go): a goroutine that listens and serves,   *)
(* and a caller that waits for the context or for the server's error, with *)
(* the parts of net/http's Server that Run relies on (external): its       *)
(* ListenAndServe, its Shutdown and the handlers of accepted requests.     *)
(* Module Service composes it with the access log and states its fairness. *)
(***************************************************************************)
EXTENDS Integers, Sequences

CONSTANTS Requests      \* requests that may arrive

VARIABLES
    ctxDone,    \* the context given to Run is cancelled
    timedOut,   \* the shutdown context has expired
    run,        \* Run: "waiting", "draining" (in Shutdown) or "returned"
    result,     \* what Run returned: "none" yet, "nil", "error", "deadline"
    listener,   \* the goroutine: "starting", "binding", "bound", "serving",
                \* "failed", "closed" (ListenAndServe has returned), "ended"
    errCh,      \* the buffered channel, capacity 1
    inShutdown, \* http.Server has been told to shut down
    handler     \* each request: "absent", "running" or "finished"

serverVars == <<ctxDone, timedOut, run, result, listener, errCh, inShutdown, handler>>

Running == {r \in Requests : handler[r] = "running"}

ServerInit ==
    /\ ctxDone \in BOOLEAN /\ timedOut = FALSE
    /\ run = "waiting" /\ result = "none"
    /\ listener = "starting" /\ errCh = <<>>
    /\ inShutdown = FALSE
    /\ handler = [r \in Requests |-> "absent"]

-----------------------------------------------------------------------------
(* The goroutine: ListenAndServe, then a send on errCh *)

\* ListenAndServe refuses to start, or tries to bind the address.
CheckShutdown ==
    /\ listener = "starting"
    /\ listener' = IF inShutdown THEN "closed" ELSE "binding"
    /\ UNCHANGED <<ctxDone, timedOut, run, result, errCh, inShutdown, handler>>

Bind ==
    /\ listener = "binding"
    /\ listener' \in {"bound", "failed"}
    /\ UNCHANGED <<ctxDone, timedOut, run, result, errCh, inShutdown, handler>>

\* Serve registers the listener, unless Shutdown came in between.
Track ==
    /\ listener = "bound"
    /\ listener' = IF inShutdown THEN "closed" ELSE "serving"
    /\ UNCHANGED <<ctxDone, timedOut, run, result, errCh, inShutdown, handler>>

\* Shutdown has closed the listener, or accepting fails.
StopServing ==
    /\ listener = "serving"
    /\ listener' \in IF inShutdown THEN {"closed"} ELSE {"failed"}
    /\ UNCHANGED <<ctxDone, timedOut, run, result, errCh, inShutdown, handler>>

\* mutant: what ListenAndServe returned is sent as it is
SendRaw ==
    /\ listener \in {"failed", "closed"} /\ Len(errCh) < 1
    /\ errCh' = Append(errCh, listener)
    /\ listener' = "ended"
    /\ UNCHANGED <<ctxDone, timedOut, run, result, inShutdown, handler>>

\* mutant: a channel without a buffer, on which Run alone receives
SendUnbuffered ==
    /\ listener \in {"failed", "closed"} /\ run = "waiting"
    /\ errCh' = Append(errCh, IF listener = "failed" THEN "error" ELSE "nil")
    /\ listener' = "ended"
    /\ UNCHANGED <<ctxDone, timedOut, run, result, inShutdown, handler>>

\* mutant: only a server that was shut down reports to Run
SendClosedOnly ==
    /\ listener \in {"failed", "closed"} /\ Len(errCh) < 1
    /\ errCh' = IF listener = "closed" THEN Append(errCh, "nil") ELSE errCh
    /\ listener' = "ended"
    /\ UNCHANGED <<ctxDone, timedOut, run, result, inShutdown, handler>>

\* ErrServerClosed is sent as nil.
Send ==
    /\ listener \in {"failed", "closed"} /\ Len(errCh) < 1
    /\ errCh' = Append(errCh, IF listener = "failed" THEN "error" ELSE "nil")
    /\ listener' = "ended"
    /\ UNCHANGED <<ctxDone, timedOut, run, result, inShutdown, handler>>

-----------------------------------------------------------------------------
(* Requests *)

\* Each request has a connection of its own; the last ones are accepted while
\* Shutdown closes the listener.
Arrive(r) ==
    /\ listener = "serving"
    /\ handler[r] = "absent"
    /\ handler' = [handler EXCEPT ![r] = "running"]
    /\ UNCHANGED <<ctxDone, timedOut, run, result, listener, errCh, inShutdown>>

Finish(r) ==
    /\ handler[r] = "running"
    /\ handler' = [handler EXCEPT ![r] = "finished"]
    /\ UNCHANGED <<ctxDone, timedOut, run, result, listener, errCh, inShutdown>>

-----------------------------------------------------------------------------
(* Run *)

Cancel ==
    /\ ~ctxDone
    /\ ctxDone' = TRUE
    /\ UNCHANGED <<timedOut, run, result, listener, errCh, inShutdown, handler>>

\* case <-ctx.Done(): a context with the timeout, then Shutdown, which closes
\* the listener at once.  The select takes either case when both are ready.
BeginShutdown ==
    /\ run = "waiting" /\ ctxDone
    /\ run' = "draining"
    /\ inShutdown' = TRUE
    /\ UNCHANGED <<ctxDone, timedOut, result, listener, errCh, handler>>

\* case err := <-errCh
ReturnListenError ==
    /\ run = "waiting" /\ errCh # <<>>
    /\ errCh' = Tail(errCh)
    /\ run' = "returned" /\ result' = Head(errCh)
    /\ UNCHANGED <<ctxDone, timedOut, listener, inShutdown, handler>>

\* mutant: Shutdown is given a context that never expires
ExpireNever == FALSE /\ UNCHANGED serverVars

\* The shutdown timeout, which is never zero: Run replaces a timeout that is
\* not positive by five seconds.
Expire ==
    /\ run = "draining" /\ ~timedOut
    /\ timedOut' = TRUE
    /\ UNCHANGED <<ctxDone, run, result, listener, errCh, inShutdown, handler>>

\* mutant: Run does not wait for the handlers
ReturnShutdownAtOnce ==
    /\ run = "draining" /\ listener # "serving"
    /\ result' = "nil"
    /\ run' = "returned"
    /\ UNCHANGED <<ctxDone, timedOut, listener, errCh, inShutdown, handler>>

\* Shutdown waits for Serve to let go of the listener, and returns when no
\* connection is busy, or with the context's error.
ReturnShutdown ==
    /\ run = "draining" /\ listener # "serving"
    /\ \/ Running = {} /\ result' = "nil"
       \/ timedOut /\ result' = "deadline"
    /\ run' = "returned"
    /\ UNCHANGED <<ctxDone, timedOut, listener, errCh, inShutdown, handler>>

-----------------------------------------------------------------------------

Listen == CheckShutdown \/ Bind \/ Track \/ Send
Main   == BeginShutdown \/ ReturnListenError \/ Expire \/ ReturnShutdown

-----------------------------------------------------------------------------
(* Properties *)

ServerTypeOK ==
    /\ ctxDone \in BOOLEAN /\ timedOut \in BOOLEAN /\ inShutdown \in BOOLEAN
    /\ run \in {"waiting", "draining", "returned"}
    /\ result \in {"none", "nil", "error", "deadline"}
    /\ listener \in {"starting", "binding", "bound", "serving", "failed", "closed", "ended"}
    /\ errCh \in {<<>>, <<"nil">>, <<"error">>}
    /\ handler \in [Requests -> {"absent", "running", "finished"}]

\* When Run reports a clean shutdown, as it must not after the timeout has cut
\* handlers off, no handler is running and none will start, although the
\* goroutine may still be on its way to listening.
CleanMeansDrained == result = "nil" => Running = {} /\ inShutdown /\ listener # "serving"

\* The goroutine never outlives Run for good: it ends whichever case Run took,
\* also when nobody receives from errCh any more.
ListenerEnds == (run = "returned") ~> (listener = "ended")

=============================================================================
