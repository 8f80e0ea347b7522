------------------------------ MODULE RingBuffer ------------------------------
(***************************************************************************)
(* The multi-producer single-consumer ring buffer of logger/ringbuffer.go: *)
(* TryWrite called by any number of goroutines, one goroutine in Consume,  *)
(* Close called by a third party.                                          *)
(*                                                                         *)
(* One action is one atomic access to memory shared by goroutines          *)
(* (head, tail, closed, a slot's state word or its data), so every         *)
(* interleaving the sync/atomic operations allow is a behaviour.           *)
(* A position is a value the head counter has taken: position n lives in   *)
(* slot n % Cap.  Positions do not wrap (that takes 2^64 events), but the  *)
(* subtraction head-tail of two uint64 does (see UintSub).                 *)
(***************************************************************************)
EXTENDS Integers, Sequences

CONSTANTS
    Producers,          \* goroutines that call TryWrite
    Cap,                \* capacity, a power of two (NewRingBuffer)
    MaxBatch,           \* largest batch of one pass of Consume: 128
    WordSize,           \* 2^64, the number of values of a uint64
    MaxCalls,           \* bound: TryWrite calls of one producer
    MaxPanics,          \* bound: handler panics
    HasPanicHandler,    \* the PanicHandler field is not nil
    QuiesceBeforeClose  \* the caller's contract: producers stop, then Close

ASSUME CapAssumption   == Cap \in Nat \ {0}
ASSUME BatchAssumption == MaxBatch \in Nat \ {0}
ASSUME WordAssumption  == WordSize \in Nat /\ WordSize > Cap
ASSUME BoundAssumption == MaxCalls \in Nat /\ MaxPanics \in Nat
ASSUME FlagAssumption  == HasPanicHandler \in BOOLEAN /\ QuiesceBeforeClose \in BOOLEAN

VARIABLES
    head,       \* next position to reserve
    tail,       \* first position not yet released by the consumer
    state,      \* state word of each slot
    data,       \* event stored in each slot
    closed,     \* the closed flag
    pc, h, t,   \* each producer's place in TryWrite and its locals head, tail
    calls,      \* number of TryWrite calls each producer has begun
    cpc,        \* the consumer's place in Consume
    curr, avail,\* its locals curr and available
    done,       \* its loop counter i, in the scan and in the commit loop
    log,        \* history: events in the order their positions were reserved
    start,      \* history: the position at which this Consume call started
    handed,     \* history: events of this Consume call's finished handler calls
    accounted,  \* history: events whose handler call returned, or whose
                \*          panic was given to PanicHandler
    panics      \* number of handler panics so far

shared       == <<head, tail, state, data, closed>>
producerVars == <<pc, h, t, calls>>
consumerVars == <<cpc, curr, avail, done, start, handed, accounted, panics>>
vars         == <<shared, producerVars, consumerVars, log>>

-----------------------------------------------------------------------------
Slots     == 0 .. Cap - 1
Slot(n)   == n % Cap
Events    == Producers \X (1 .. MaxCalls)
NoEvent   == <<>>
Event(p)  == <<p, calls[p]>>

SlotState   == {"Empty", "Writing", "Ready"}
ProducerPC  == {"idle", "loadHead", "loadTail", "cas",
                "slotWait", "setWriting", "writeData", "setReady"}
ConsumerPC  == {"check", "checkDrained", "probe", "scan", "first", "second",
                "empty", "panicked", "returned"}

\* a - b on uint64: it wraps when b > a
UintSub(a, b) == IF b <= a THEN a - b ELSE WordSize + a - b

BatchLimit == IF Cap > MaxBatch THEN MaxBatch ELSE Cap

TypeOK ==
    /\ head \in Nat /\ tail \in Nat
    /\ state \in [Slots -> SlotState]
    /\ data \in [Slots -> Events \cup {NoEvent}]
    /\ closed \in BOOLEAN
    /\ pc \in [Producers -> ProducerPC]
    /\ h \in [Producers -> Nat]
    /\ t \in [Producers -> Nat]
    /\ calls \in [Producers -> 0 .. MaxCalls]
    /\ cpc \in ConsumerPC
    /\ curr \in Nat /\ avail \in Nat /\ done \in Nat
    /\ log \in Seq(Events)
    /\ start \in Nat
    /\ handed \in Seq(Events \cup {NoEvent})
    /\ accounted \subseteq Events \cup {NoEvent}
    /\ panics \in 0 .. MaxPanics

Init ==
    /\ head = 0 /\ tail = 0
    /\ state = [s \in Slots |-> "Empty"]
    /\ data = [s \in Slots |-> NoEvent]
    /\ closed = FALSE
    /\ pc = [p \in Producers |-> "idle"]
    /\ h = [p \in Producers |-> 0]
    /\ t = [p \in Producers |-> 0]
    /\ calls = [p \in Producers |-> 0]
    /\ cpc = "check"
    /\ curr = 0 /\ avail = 0 /\ done = 0
    /\ log = <<>>
    /\ start = 0
    /\ handed = <<>>
    /\ accounted = {}
    /\ panics = 0

-----------------------------------------------------------------------------
(* TryWrite *)

Goto(p, label) == pc' = [pc EXCEPT ![p] = label]

\* The load of closed: a closed buffer refuses the event.
BeginWrite(p) ==
    /\ pc[p] = "idle"
    /\ calls[p] < MaxCalls
    /\ calls' = [calls EXCEPT ![p] = @ + 1]
    /\ Goto(p, IF closed THEN "idle" ELSE "loadHead")
    /\ UNCHANGED <<shared, h, t, consumerVars, log>>

LoadHead(p) ==
    /\ pc[p] = "loadHead"
    /\ h' = [h EXCEPT ![p] = head]
    /\ Goto(p, "loadTail")
    /\ UNCHANGED <<shared, t, calls, consumerVars, log>>

\* mutant: one event more than there are slots
FullLoose(hd, tl) == UintSub(hd, tl) > Cap

\* mutant: one slot is never used
FullEarly(hd, tl) == UintSub(hd, tl) + 1 >= Cap

Full(hd, tl) == UintSub(hd, tl) >= Cap

\* The load of tail and the loose capacity check on the two loaded values.
LoadTail(p) ==
    /\ pc[p] = "loadTail"
    /\ t' = [t EXCEPT ![p] = tail]
    /\ Goto(p, IF Full(h[p], tail) THEN "idle" ELSE "cas")
    /\ UNCHANGED <<shared, h, calls, consumerVars, log>>

\* mutant: a plain store instead of the compare-and-swap
ReserveSlotByStore(p) ==
    /\ pc[p] = "cas"
    /\ head' = h[p] + 1
    /\ log' = Append(log, Event(p))
    /\ Goto(p, "slotWait")
    /\ UNCHANGED <<tail, state, data, closed, h, t, calls, consumerVars>>

ReserveSlot(p) ==
    /\ pc[p] = "cas"
    /\ head = h[p]
    /\ head' = head + 1
    /\ log' = Append(log, Event(p))
    /\ Goto(p, "slotWait")
    /\ UNCHANGED <<tail, state, data, closed, h, t, calls, consumerVars>>

\* The compare-and-swap fails: back off and load again.
RetryReserve(p) ==
    /\ pc[p] = "cas"
    /\ head # h[p]
    /\ Goto(p, "loadHead")
    /\ UNCHANGED <<shared, h, t, calls, consumerVars, log>>

\* One turn of the loop that waits for the reserved slot to be empty.
SlotWait(p) ==
    /\ pc[p] = "slotWait"
    /\ Goto(p, IF state[Slot(h[p])] = "Empty" THEN "setWriting" ELSE "slotWait")
    /\ UNCHANGED <<shared, h, t, calls, consumerVars, log>>

SetWriting(p) ==
    /\ pc[p] = "setWriting"
    /\ state' = [state EXCEPT ![Slot(h[p])] = "Writing"]
    /\ Goto(p, "writeData")
    /\ UNCHANGED <<head, tail, data, closed, h, t, calls, consumerVars, log>>

WriteData(p) ==
    /\ pc[p] = "writeData"
    /\ data' = [data EXCEPT ![Slot(h[p])] = Event(p)]
    /\ Goto(p, "setReady")
    /\ UNCHANGED <<head, tail, state, closed, h, t, calls, consumerVars, log>>

\* The commit: TryWrite returns true.
SetReady(p) ==
    /\ pc[p] = "setReady"
    /\ state' = [state EXCEPT ![Slot(h[p])] = "Ready"]
    /\ Goto(p, "idle")
    /\ UNCHANGED <<head, tail, data, closed, h, t, calls, consumerVars, log>>

InTryWrite(p) ==
    \/ LoadHead(p) \/ LoadTail(p)
    \/ ReserveSlot(p) \/ RetryReserve(p)
    \/ SlotWait(p) \/ SetWriting(p) \/ WriteData(p) \/ SetReady(p)

Close ==
    /\ ~closed
    /\ QuiesceBeforeClose => \A p \in Producers : pc[p] = "idle"
    /\ closed' = TRUE
    /\ UNCHANGED <<head, tail, state, data, producerVars, consumerVars, log>>

-----------------------------------------------------------------------------
(* Consume *)

sessionVars == <<start, handed, accounted, panics>>

\* mutant: Close ends Consume at once
CheckClosedAtOnce ==
    /\ cpc = "check"
    /\ cpc' = IF closed THEN "returned" ELSE "probe"
    /\ UNCHANGED <<shared, producerVars, log, curr, avail, done, sessionVars>>

\* mutant: Consume does not look at closed
CheckClosedNever ==
    /\ cpc = "check"
    /\ cpc' = "probe"
    /\ UNCHANGED <<shared, producerVars, log, curr, avail, done, sessionVars>>

CheckClosed ==
    /\ cpc = "check"
    /\ cpc' = IF closed THEN "checkDrained" ELSE "probe"
    /\ UNCHANGED <<shared, producerVars, log, curr, avail, done, sessionVars>>

\* The load of head; tail is written by the consumer alone.
CheckDrained ==
    /\ cpc = "checkDrained"
    /\ cpc' = IF tail = head THEN "returned" ELSE "probe"
    /\ UNCHANGED <<shared, producerVars, log, curr, avail, done, sessionVars>>

\* The slot at curr: start a batch when it is ready, poll again otherwise.
Probe ==
    /\ cpc = "probe"
    /\ cpc' = IF state[Slot(curr)] = "Ready" THEN "scan" ELSE "check"
    /\ avail' = 0
    /\ done' = 0
    /\ UNCHANGED <<shared, producerVars, log, curr, sessionVars>>

\* One turn of the look-ahead loop: done counts the slots looked at, and
\* avail those found ready.
ScanReady ==
    /\ cpc = "scan"
    /\ done < BatchLimit
    /\ state[Slot(curr + done)] = "Ready"
    /\ avail' = avail + 1
    /\ done' = done + 1
    /\ UNCHANGED <<shared, producerVars, log, cpc, curr, sessionVars>>

\* mutant: only a full batch is handed over
ScanStopFull ==
    /\ cpc = "scan"
    /\ done = BatchLimit \/ state[Slot(curr + done)] # "Ready"
    /\ cpc' = IF avail = BatchLimit THEN "first" ELSE "check"
    /\ done' = 0
    /\ UNCHANGED <<shared, producerVars, log, curr, avail, sessionVars>>

ScanStop ==
    /\ cpc = "scan"
    /\ done = BatchLimit \/ state[Slot(curr + done)] # "Ready"
    /\ cpc' = IF avail > 0 THEN "first" ELSE "check"
    /\ done' = 0
    /\ UNCHANGED <<shared, producerVars, log, curr, avail, sessionVars>>

NextSlot == Slot(curr)
EndSlot  == Slot(curr + avail)

\* data[from:to], as the handler sees it
Slice(from, to) == [i \in 1 .. to - from |-> data[from + i - 1]]

\* The part of the batch one handler call gets: up to the end of data when the
\* batch wraps round it, then from the beginning.
SegmentFrom == IF cpc = "first" THEN NextSlot ELSE 0

SegmentTo   == IF cpc = "first" /\ EndSlot <= NextSlot THEN Cap ELSE EndSlot
Segment     == Slice(SegmentFrom, SegmentTo)

\* mutant: the part of the batch at the beginning of data is forgotten
AfterSegmentOnce == "empty"

\* A second call of the handler when the batch wraps round the end of data.
AfterSegment ==
    IF cpc = "first" /\ EndSlot <= NextSlot /\ EndSlot > 0 THEN "second" ELSE "empty"

InSegment == {Segment[i] : i \in DOMAIN Segment}

\* consumeBatch: the handler returns,
HandlerReturns ==
    /\ cpc \in {"first", "second"}
    /\ handed' = handed \o Segment
    /\ accounted' = accounted \cup InSegment
    /\ cpc' = AfterSegment
    /\ UNCHANGED <<shared, producerVars, log, curr, avail, done, start, panics>>

\* or panics and PanicHandler swallows the panic,
PanicHandled ==
    /\ cpc \in {"first", "second"}
    /\ HasPanicHandler
    /\ panics < MaxPanics
    /\ panics' = panics + 1
    /\ handed' = handed \o Segment
    /\ accounted' = accounted \cup InSegment
    /\ cpc' = AfterSegment
    /\ UNCHANGED <<shared, producerVars, log, curr, avail, done, start>>

\* mutant: the panic is swallowed
PanicSwallowed ==
    /\ cpc \in {"first", "second"}
    /\ ~HasPanicHandler
    /\ panics < MaxPanics
    /\ panics' = panics + 1
    /\ handed' = handed \o Segment
    /\ cpc' = AfterSegment
    /\ UNCHANGED <<shared, producerVars, log, curr, avail, done, start, accounted>>

\* or panics and the panic leaves Consume.
PanicRethrown ==
    /\ cpc \in {"first", "second"}
    /\ ~HasPanicHandler
    /\ panics < MaxPanics
    /\ panics' = panics + 1
    /\ cpc' = "panicked"
    /\ UNCHANGED <<shared, producerVars, log, curr, avail, done, start, handed, accounted>>

\* The caller recovers and calls Consume again.
RestartConsume ==
    /\ cpc = "panicked"
    /\ cpc' = "check"
    /\ curr' = tail
    /\ start' = tail
    /\ handed' = <<>>
    /\ UNCHANGED <<shared, producerVars, log, avail, done, accounted, panics>>

\* One turn of the commit loop: done counts the slots set to empty.
EmptySlot ==
    /\ cpc = "empty"
    /\ done < avail
    /\ state' = [state EXCEPT ![Slot(curr + done)] = "Empty"]
    /\ done' = done + 1
    /\ UNCHANGED <<head, tail, data, closed, producerVars, log, cpc, curr, avail, sessionVars>>

\* mutant: the cursor moves the wrong way
AdvanceTailBack ==
    /\ cpc = "empty"
    /\ done = avail
    /\ curr' = curr + avail
    /\ tail' = curr - avail
    /\ cpc' = "check"
    /\ UNCHANGED <<head, state, data, closed, producerVars, log, avail, done, sessionVars>>

\* The store of tail hands the slots back to the producers.
AdvanceTail ==
    /\ cpc = "empty"
    /\ done = avail
    /\ curr' = curr + avail
    /\ tail' = curr + avail
    /\ cpc' = "check"
    /\ UNCHANGED <<head, state, data, closed, producerVars, log, avail, done, sessionVars>>

ConsumeLoop ==
    \/ CheckClosed \/ CheckDrained \/ Probe \/ ScanReady \/ ScanStop
    \/ HandlerReturns \/ EmptySlot \/ AdvanceTail

Panic == PanicHandled \/ PanicRethrown

\* Nothing is left to do: Consume has returned and the producers have stopped.
Finished ==
    /\ cpc = "returned"
    /\ \A p \in Producers : pc[p] = "idle" /\ calls[p] = MaxCalls
    /\ UNCHANGED vars

Next ==
    \/ \E p \in Producers : BeginWrite(p) \/ InTryWrite(p)
    \/ Close
    \/ ConsumeLoop
    \/ Panic
    \/ RestartConsume
    \/ Finished

Spec == Init /\ [][Next]_vars

\* The Go scheduler lets every runnable goroutine go on: a TryWrite call in
\* progress, the Consume loop (whose handler returns), and the caller that
\* restarts Consume.  Nobody has to call TryWrite or Close.
FairSpec ==
    /\ Spec
    /\ \A p \in Producers : WF_vars(InTryWrite(p))
    /\ WF_vars(ConsumeLoop)
    /\ WF_vars(RestartConsume)

-----------------------------------------------------------------------------
(* Safety *)

Owning(p)  == pc[p] \in {"slotWait", "setWriting", "writeData", "setReady"}
Reading(s) == /\ cpc \in {"first", "second"}
              /\ s \in {Slot(curr + i) : i \in 0 .. avail - 1}

\* The plain (non-atomic) accesses to a slot's LogEvent never race: no two
\* producers own one slot, and none owns a slot of the batch in the handler's
\* hands (data[slotIdx] = event against the slices consumeBatch passes on).
NoSlotRace ==
    \A p \in Producers : Owning(p) =>
        /\ ~Reading(Slot(h[p]))
        /\ \A q \in Producers \ {p} : Owning(q) => Slot(h[q]) # Slot(h[p])

\* The owner of a position never has to wait for its slot: the loop on the
\* slot's state (the only blocking loop of TryWrite) always ends at once, so a
\* stalled consumer or a stalled producer blocks no other TryWrite.
SlotWaitNeverBlocks ==
    \A p \in Producers : pc[p] = "slotWait" => state[Slot(h[p])] = "Empty"

\* Each Consume call hands over exactly the events reserved from its starting
\* position on, in reservation order: none skipped, repeated, torn or stale.
InOrder ==
    /\ start + Len(handed) <= Len(log)
    /\ \A i \in 1 .. Len(handed) : handed[i] = log[start + i]

\* "The panic is rethrown to avoid silent data loss": a slot is given back to
\* the producers only for an event whose handler call returned or whose panic
\* was reported, however often Consume panicked and was restarted.
NoSilentLoss == \A n \in 1 .. tail : log[n] \in accounted

\* "Runs until Close is called and the buffer is drained": when producers stop
\* before Close, no event that TryWrite accepted is left behind.
DrainedOnReturn ==
    QuiesceBeforeClose /\ cpc = "returned" => tail = Len(log)

\* An open buffer refuses an event only when it holds Cap events at that
\* moment, or when the head the producer loaded is out of date.
RefusedOnlyFullOrOvertaken ==
    [][\A p \in Producers :
         pc[p] = "loadTail" /\ pc'[p] = "idle" => head - tail >= Cap \/ head # h[p]]_vars

-----------------------------------------------------------------------------
(* Liveness *)

\* Every event accepted is handed over, even when the producer that reserved
\* the position before it is slow, and although Consume may panic.
AcceptedIsDelivered ==
    \A e \in Events : (\E n \in 1 .. Len(log) : log[n] = e) ~> e \in accounted

\* After Close, Consume drains the buffer and returns.
ConsumeReturns == closed ~> cpc = "returned"

-----------------------------------------------------------------------------
(* The ring buffer implements the bounded queue of module LogQueue. *)

Queue == INSTANCE LogQueue WITH
            Offers <- Events, accepted <- log, from <- start, out <- handed,
            released <- tail, stopped <- (cpc = "returned")

\* Every step of the ring buffer is a step of the queue or leaves it as it is:
\* reserving a position is the moment an event is taken, the end of a handler
\* call hands a segment over, the store of tail releases it.
ImplementsLogQueue == Queue!Spec
=============================================================================
