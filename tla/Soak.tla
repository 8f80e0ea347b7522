--------------------------------- MODULE Soak ---------------------------------
(***************************************************************************)
(* The load generator of cmd/soak/main.go (runSoakWithClient): workers     *)
(* that send requests until the time is up, a limiter that turns the ticks *)
(* of a timer into tokens of a bounded channel, and the caller that waits  *)
(* for the workers, reads the counters and stops the limiter.              *)
(***************************************************************************)
EXTENDS Integers, FiniteSets

CONSTANTS
    Workers,
    MaxRequests     \* bound: requests sent before the time is up

ASSUME WorkersAssumption == IsFiniteSet(Workers)
ASSUME RequestsAssumption == MaxRequests \in Nat

VARIABLES
    limited,    \* cfg.rps > 0: there is a limiter
    timeUp,     \* time.Now() has reached end
    tick,       \* a tick is in ticker.C (capacity 1)
    tokens,     \* tokens in the channel (capacity: the number of workers)
    limiter,    \* "selecting", "offering" or "ended"
    done,       \* the channel done is closed
    worker,     \* each worker: "checking", "waiting", "sending" or "ended"
    okCount, errCount,
    main,       \* the caller: "waiting" (in wg.Wait), "reported" or "returned"
    total,      \* the sum it reported
    sent, late  \* history: requests sent, and those sent after the time was up

vars == <<limited, timeUp, tick, tokens, limiter, done, worker, okCount, errCount, main, total,
          sent, late>>
counters == <<okCount, errCount, sent, late>>

Init ==
    /\ limited \in BOOLEAN
    /\ timeUp = FALSE /\ tick = FALSE /\ tokens = 0
    /\ limiter = IF limited THEN "selecting" ELSE "ended"
    /\ done = FALSE
    /\ worker = [w \in Workers |-> "checking"]
    /\ okCount = 0 /\ errCount = 0
    /\ main = "waiting" /\ total = 0
    /\ sent = 0 /\ late = 0

-----------------------------------------------------------------------------
(* Time *)

TimeIsUp ==
    /\ ~timeUp /\ timeUp' = TRUE
    /\ UNCHANGED <<limited, tick, tokens, limiter, done, worker, counters, main, total>>

\* The ticker drops ticks nobody has taken; it is stopped when the caller returns.
Tick ==
    /\ limited /\ main # "returned"
    /\ ~tick /\ tick' = TRUE
    /\ UNCHANGED <<limited, timeUp, tokens, limiter, done, worker, counters, main, total>>

-----------------------------------------------------------------------------
(* The limiter *)

\* The select between done and the ticker; it takes either when both are ready.
TakeTick ==
    /\ limiter = "selecting" /\ tick
    /\ tick' = FALSE
    /\ limiter' = "offering"
    /\ UNCHANGED <<limited, timeUp, tokens, done, worker, counters, main, total>>

TakeDone ==
    /\ limiter = "selecting" /\ done
    /\ limiter' = "ended"
    /\ UNCHANGED <<limited, timeUp, tick, tokens, done, worker, counters, main, total>>

\* A token that does not fit into the channel is dropped.
Offer ==
    /\ limiter = "offering"
    /\ tokens' = IF tokens < Cardinality(Workers) THEN tokens + 1 ELSE tokens
    /\ limiter' = "selecting"
    /\ UNCHANGED <<limited, timeUp, tick, done, worker, counters, main, total>>

-----------------------------------------------------------------------------
(* Workers *)

Goto(w, step) == worker' = [worker EXCEPT ![w] = step]

\* mutant: a worker goes on as long as there are tokens
CheckTimeWithTokens(w) ==
    /\ worker[w] = "checking"
    /\ IF timeUp /\ tokens = 0 THEN Goto(w, "ended") ELSE Goto(w, "waiting")
    /\ UNCHANGED <<limited, timeUp, tick, tokens, limiter, done, counters, main, total>>

CheckTime(w) ==
    /\ worker[w] = "checking"
    /\ IF timeUp THEN Goto(w, "ended")
       ELSE sent < MaxRequests /\ Goto(w, IF limited THEN "waiting" ELSE "sending")
    /\ UNCHANGED <<limited, timeUp, tick, tokens, limiter, done, counters, main, total>>

\* The time is not looked at again after the wait.
TakeToken(w) ==
    /\ worker[w] = "waiting" /\ tokens > 0
    /\ tokens' = tokens - 1
    /\ Goto(w, "sending")
    /\ UNCHANGED <<limited, timeUp, tick, limiter, done, counters, main, total>>

\* The request is sent, answered or failed, and counted.
Get(w) ==
    /\ worker[w] = "sending"
    /\ \/ okCount' = okCount + 1 /\ UNCHANGED errCount
       \/ errCount' = errCount + 1 /\ UNCHANGED okCount
    /\ sent' = sent + 1
    /\ late' = IF timeUp THEN late + 1 ELSE late
    /\ Goto(w, "checking")
    /\ UNCHANGED <<limited, timeUp, tick, tokens, limiter, done, main, total>>

-----------------------------------------------------------------------------
(* The caller *)

\* mutant: the counters are read without waiting for the workers
ReportAtOnce ==
    /\ main = "waiting" /\ timeUp
    /\ main' = "reported"
    /\ total' = okCount + errCount
    /\ UNCHANGED <<limited, timeUp, tick, tokens, limiter, done, worker, counters>>

\* wg.Wait, then the counters are read.
Report ==
    /\ main = "waiting" /\ \A w \in Workers : worker[w] = "ended"
    /\ main' = "reported"
    /\ total' = okCount + errCount
    /\ UNCHANGED <<limited, timeUp, tick, tokens, limiter, done, worker, counters>>

\* mutant: done is not closed
ReturnLeavingLimiter ==
    /\ main = "reported"
    /\ main' = "returned"
    /\ UNCHANGED <<limited, timeUp, tick, tokens, limiter, done, worker, counters, total>>

\* The deferred calls: done is closed, the ticker stopped.
Return ==
    /\ main = "reported"
    /\ main' = "returned" /\ done' = TRUE
    /\ UNCHANGED <<limited, timeUp, tick, tokens, limiter, worker, counters, total>>

-----------------------------------------------------------------------------

Limiter == TakeTick \/ TakeDone \/ Offer
Worker(w) == CheckTime(w) \/ TakeToken(w) \/ Get(w)
Stopped == main = "returned" /\ UNCHANGED vars

Next == TimeIsUp \/ Tick \/ Limiter \/ (\E w \in Workers : Worker(w)) \/ Report \/ Return \/ Stopped
Spec == Init /\ [][Next]_vars

\* Time passes, the timer ticks, and goroutines run.  A worker that waits for a
\* token gets one in turn (channel receivers queue up), and the limiter's select
\* picks done some time when done stays closed.
FairSpec ==
    /\ Spec
    /\ WF_vars(TimeIsUp) /\ WF_vars(Tick)
    /\ WF_vars(TakeTick \/ Offer) /\ SF_vars(TakeDone)
    /\ \A w \in Workers : SF_vars(TakeToken(w)) /\ WF_vars(CheckTime(w) \/ Get(w))
    /\ WF_vars(Report) /\ WF_vars(Return)

-----------------------------------------------------------------------------
(* Properties *)

\* What the variables hold, for the reader; no run checks it.
TypeOK ==
    /\ limited \in BOOLEAN /\ timeUp \in BOOLEAN /\ tick \in BOOLEAN /\ done \in BOOLEAN
    /\ tokens \in 0 .. Cardinality(Workers)
    /\ limiter \in {"selecting", "offering", "ended"}
    /\ worker \in [Workers -> {"checking", "waiting", "sending", "ended"}]
    /\ main \in {"waiting", "reported", "returned"}
    /\ okCount \in Nat /\ errCount \in Nat /\ total \in Nat
    /\ sent \in Nat /\ late \in Nat

\* The report counts every request once, the ones sent after the time included.
ReportIsExact == main # "waiting" => total = sent

\* The check of the time is stale when a worker has waited for its token, but a
\* worker sends at most one request late, however many tokens are left over.
LateAtMostOneEach == late <= Cardinality(Workers)

\* The run ends: no worker waits for ever for a token, and the limiter goroutine
\* is not left behind.
RunEnds == <>(main = "returned" /\ limiter = "ended")
=============================================================================
