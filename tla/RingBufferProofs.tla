--------------------------- MODULE RingBufferProofs ---------------------------
(***************************************************************************)
(* Module RingBuffer for every set of producers, every capacity and every  *)
(* bound: IInv (module RingBufferInv) is an inductive invariant, the       *)
(* invariants the runs check follow from it, and the code implements the   *)
(* bounded queue of module LogQueue.                                       *)
(***************************************************************************)
EXTENDS RingBufferInv, TLAPS

-----------------------------------------------------------------------------
(* Arithmetic of slots *)

\* Multiplication by a positive number is monotone: the one nonlinear fact
\* the lemmas below need.
LEMMA TimesMonotone ==
    ASSUME NEW c \in Nat \ {0}, NEW x \in Int, NEW y \in Int
    PROVE  /\ y >= x + 1 => c * y >= c * x + c
           /\ c * x \in Int
OBVIOUS

\* Division with remainder is unique: a number of the form Cap*q + r with r a
\* slot lives in slot r.
LEMMA SlotUnique ==
    ASSUME NEW a \in Nat, NEW q \in Int, NEW r \in Slots, a = (Cap * q) + r
    PROVE  Slot(a) = r
<1> DEFINE x == a \div Cap
<1>1. /\ a = (Cap * x) + Slot(a)
      /\ x \in Int /\ Slot(a) \in 0 .. Cap - 1
  BY SMTT(30), CapAssumption DEF Slot
<1> HIDE DEF x
<1>2. Cap * q \in Int /\ Cap * x \in Int
  BY <1>1, CapAssumption
<1>3. CASE q = x
  BY <1>1, <1>2, <1>3, CapAssumption DEF Slots
<1>4. CASE q >= x + 1
  <2>1. Cap * q >= Cap * x + Cap
    BY <1>1, <1>4, TimesMonotone, CapAssumption
  <2> QED
    BY <1>1, <1>2, <2>1, CapAssumption DEF Slots
<1>5. CASE x >= q + 1
  <2>1. Cap * x >= Cap * q + Cap
    BY <1>1, <1>5, TimesMonotone, CapAssumption
  <2> QED
    BY <1>1, <1>2, <2>1, CapAssumption DEF Slots
<1> QED
  BY <1>1, <1>3, <1>4, <1>5

\* Every position has a slot.
LEMMA SlotType == ASSUME NEW n \in Nat PROVE Slot(n) \in Slots
BY CapAssumption DEF Slot, Slots

\* The slot i positions further on, within one turn of the ring.
LEMMA SlotAdd ==
    ASSUME NEW a \in Nat, NEW i \in 0 .. Cap
    PROVE  Slot(a + i) = IF Slot(a) + i < Cap THEN Slot(a) + i ELSE Slot(a) + i - Cap
<1> DEFINE x == a \div Cap
<1>1. /\ a = (Cap * x) + Slot(a)
      /\ x \in Int /\ Slot(a) \in 0 .. Cap - 1
  BY CapAssumption DEF Slot
<1> HIDE DEF x
<1>2. /\ Cap * x \in Int /\ Cap * (x + 1) = Cap * x + Cap
      /\ x + 1 \in Int /\ a + i \in Nat
  BY <1>1, CapAssumption
<1>3. CASE Slot(a) + i < Cap
  <2>1. a + i = (Cap * x) + (Slot(a) + i) /\ Slot(a) + i \in Slots
    BY <1>1, <1>2, <1>3, CapAssumption DEF Slots
  <2> QED
    BY <1>1, <1>2, <1>3, <2>1, SlotUnique
<1>4. CASE ~(Slot(a) + i < Cap)
  <2>1. /\ a + i = (Cap * (x + 1)) + (Slot(a) + i - Cap)
        /\ Slot(a) + i - Cap \in Slots
    BY <1>1, <1>2, <1>4, CapAssumption DEF Slots
  <2> QED
    BY <1>1, <1>2, <1>4, <2>1, SlotUnique
<1> QED
  BY <1>3, <1>4

\* Two positions less than a turn apart live in different slots.
LEMMA SlotInjective ==
    ASSUME NEW a \in Nat, NEW b \in Nat, a < b, b < a + Cap
    PROVE  Slot(a) # Slot(b)
<1>1. b - a \in 0 .. Cap /\ b = a + (b - a) /\ b - a # 0 /\ b - a # Cap
  BY CapAssumption
<1>2. Slot(a + (b - a)) = IF Slot(a) + (b - a) < Cap
                          THEN Slot(a) + (b - a) ELSE Slot(a) + (b - a) - Cap
  BY <1>1, SlotAdd
<1> QED
  BY <1>1, <1>2, SlotType, CapAssumption DEF Slots

\* A turn of the ring comes back to the same slot.
LEMMA SlotTurn ==
    ASSUME NEW a \in Nat
    PROVE  Slot(a + Cap) = Slot(a)
<1>1. Slot(a + Cap) = IF Slot(a) + Cap < Cap THEN Slot(a) + Cap ELSE Slot(a) + Cap - Cap
  BY SlotAdd, CapAssumption
<1> QED
  BY <1>1, SlotType, CapAssumption DEF Slots

-----------------------------------------------------------------------------
(* Type correctness *)

\* A handler sees a sequence of slot contents, of the length of its segment.
LEMMA SliceType ==
    ASSUME TypeOK, NEW from \in 0 .. Cap, NEW to \in 0 .. Cap, from <= to
    PROVE  /\ Slice(from, to) \in Seq(Events \cup {NoEvent})
           /\ Len(Slice(from, to)) = to - from
           /\ \A i \in 1 .. to - from : Slice(from, to)[i] = data[from + i - 1]
<1>1. \A i \in 1 .. to - from : from + i - 1 \in Slots
  BY CapAssumption DEF Slots
<1>2. to - from \in Nat
  BY CapAssumption
<1>3. Slice(from, to) \in [1 .. to - from -> Events \cup {NoEvent}]
  BY <1>1 DEF Slice, TypeOK
<1> QED
  BY <1>2, <1>3 DEF Slice

\* A segment is a part of data, in the direction of the ring.
LEMMA SegmentBounds ==
    ASSUME TypeOK, BatchInv, cpc \in {"first", "second"}
    PROVE  /\ NextSlot \in Slots /\ EndSlot \in Slots
           /\ SegmentFrom \in 0 .. Cap /\ SegmentTo \in 0 .. Cap
           /\ SegmentFrom <= SegmentTo
<1>1. NextSlot \in Slots /\ EndSlot \in Slots
  BY SlotType DEF TypeOK, NextSlot, EndSlot
<1> QED
  BY <1>1, CapAssumption DEF SegmentFrom, SegmentTo, Slots

\* The call of the handler gets a sequence of events.
LEMMA SegmentType ==
    ASSUME TypeOK, BatchInv, cpc \in {"first", "second"}
    PROVE  /\ Segment \in Seq(Events \cup {NoEvent})
           /\ InSegment \subseteq Events \cup {NoEvent}
<1>1. Segment \in Seq(Events \cup {NoEvent})
  BY SegmentBounds, SliceType DEF Segment
<1> QED
  BY <1>1 DEF InSegment

\* The concatenation of two sequences over a set is one too.
LEMMA ConcatType ==
    ASSUME NEW S, NEW s \in Seq(S), NEW u \in Seq(S)
    PROVE  s \o u \in Seq(S)
OBVIOUS

\* The event a producer is writing is one of its calls.
LEMMA EventType ==
    ASSUME TypeOK, LocalsInv, NEW p \in Producers, pc[p] # "idle"
    PROVE  Event(p) \in Events
BY BoundAssumption DEF TypeOK, LocalsInv, Event, Events

\* No step leaves the types.
LEMMA TypeStep == IInv /\ [Next]_vars => TypeOK'
<1> SUFFICES ASSUME IInv, [Next]_vars PROVE TypeOK'
  OBVIOUS
<1> USE DEF shared, producerVars, consumerVars, sessionVars, Goto, SlotState,
            ProducerPC, ConsumerPC
<1>0. TypeOK /\ LocalsInv /\ BatchInv
  BY DEF IInv
<1>1. ASSUME NEW p \in Producers, BeginWrite(p) PROVE TypeOK'
  BY <1>0, <1>1, BoundAssumption DEF TypeOK, BeginWrite
<1>2. ASSUME NEW p \in Producers, LoadHead(p) PROVE TypeOK'
  BY <1>0, <1>2 DEF TypeOK, LoadHead
<1>3. ASSUME NEW p \in Producers, LoadTail(p) PROVE TypeOK'
  BY <1>0, <1>3 DEF TypeOK, LoadTail
<1>4. ASSUME NEW p \in Producers, ReserveSlot(p) PROVE TypeOK'
  <2>1. Event(p) \in Events
    BY <1>0, <1>4, EventType DEF ReserveSlot
  <2> QED
    BY <1>0, <1>4, <2>1 DEF TypeOK, ReserveSlot
<1>5. ASSUME NEW p \in Producers, RetryReserve(p) PROVE TypeOK'
  BY <1>0, <1>5 DEF TypeOK, RetryReserve
<1>6. ASSUME NEW p \in Producers, SlotWait(p) PROVE TypeOK'
  BY <1>0, <1>6 DEF TypeOK, SlotWait
<1>7. ASSUME NEW p \in Producers, SetWriting(p) PROVE TypeOK'
  BY <1>0, <1>7 DEF TypeOK, SetWriting
<1>8. ASSUME NEW p \in Producers, WriteData(p) PROVE TypeOK'
  <2>1. Event(p) \in Events
    BY <1>0, <1>8, EventType DEF WriteData
  <2> QED
    BY <1>0, <1>8, <2>1 DEF TypeOK, WriteData
<1>9. ASSUME NEW p \in Producers, SetReady(p) PROVE TypeOK'
  BY <1>0, <1>9 DEF TypeOK, SetReady
<1>10. CASE Close
  BY <1>0, <1>10 DEF TypeOK, Close
<1>11. CASE CheckClosed \/ CheckDrained \/ Probe \/ ScanReady \/ ScanStop
  BY SMTT(30), <1>0, <1>11 DEF TypeOK, CheckClosed, CheckDrained, Probe, ScanReady, ScanStop
<1>12. CASE HandlerReturns \/ Panic
  <2>1. PanicRethrown => TypeOK'
    BY <1>0, BoundAssumption DEF TypeOK, PanicRethrown
  <2>2. ASSUME HandlerReturns \/ PanicHandled PROVE TypeOK'
    <3>1. /\ Segment \in Seq(Events \cup {NoEvent})
          /\ InSegment \subseteq Events \cup {NoEvent}
      BY <1>0, <2>2, SegmentType DEF HandlerReturns, PanicHandled
    <3>2. handed' \in Seq(Events \cup {NoEvent})
      <4>1. handed \in Seq(Events \cup {NoEvent})
        BY <1>0 DEF TypeOK
      <4>2. handed' = handed \o Segment
        BY <2>2 DEF HandlerReturns, PanicHandled
      <4> QED
        BY <3>1, <4>1, <4>2, ConcatType
    <3>3. accounted' \subseteq Events \cup {NoEvent}
      BY <1>0, <2>2, <3>1 DEF TypeOK, HandlerReturns, PanicHandled
    <3>4. cpc' \in ConsumerPC
      BY <2>2 DEF HandlerReturns, PanicHandled, AfterSegment
    <3>5. panics' \in 0 .. MaxPanics
      BY <1>0, <2>2, BoundAssumption DEF TypeOK, HandlerReturns, PanicHandled
    <3> QED
      BY <1>0, <2>2, <3>2, <3>3, <3>4, <3>5 DEF TypeOK, HandlerReturns, PanicHandled
  <2> QED
    BY <1>12, <2>1, <2>2 DEF Panic
<1>13. CASE RestartConsume
  BY <1>0, <1>13 DEF TypeOK, RestartConsume
<1>14. CASE EmptySlot \/ AdvanceTail
  BY <1>0, <1>14 DEF TypeOK, EmptySlot, AdvanceTail
<1>15. CASE UNCHANGED vars
  BY <1>0, <1>15 DEF TypeOK, vars
<1> QED
  BY <1>1, <1>2, <1>3, <1>4, <1>5, <1>6, <1>7, <1>8, <1>9, <1>10, <1>11, <1>12,
     <1>13, <1>14, <1>15
  DEF Next, InTryWrite, ConsumeLoop, Finished

-----------------------------------------------------------------------------
(* The protocol: which steps move which counters *)

\* A consumer step, a restart and Close leave every producer's locals alone.
LEMMA ConsumerFrame ==
    ConsumeLoop \/ Panic \/ RestartConsume \/ Close \/ Finished \/ UNCHANGED vars
        => UNCHANGED <<pc, h, t, calls, head, log, data>>
BY DEF ConsumeLoop, Panic, RestartConsume, Close, Finished, vars, shared, producerVars,
       consumerVars, sessionVars, CheckClosed, CheckDrained, Probe, ScanReady, ScanStop,
       HandlerReturns, PanicHandled, PanicRethrown, EmptySlot, AdvanceTail

\* A producer step leaves the consumer's locals and tail alone.
LEMMA ProducerFrame ==
    ASSUME NEW p \in Producers, BeginWrite(p) \/ InTryWrite(p)
    PROVE  UNCHANGED <<tail, closed, consumerVars>>
BY DEF BeginWrite, InTryWrite, LoadHead, LoadTail, ReserveSlot, RetryReserve, SlotWait,
       SetWriting, WriteData, SetReady, shared

\* Only the store of tail moves tail and curr, by the length of the batch.
LEMMA TailFrame ==
    ASSUME WindowInv, TypeOK, [Next]_vars
    PROVE  \/ tail' = tail /\ curr' = curr
           \/ AdvanceTail /\ tail' = tail + avail
<1>1. ASSUME NEW p \in Producers, BeginWrite(p) \/ InTryWrite(p)
      PROVE  tail' = tail /\ curr' = curr
  BY <1>1, ProducerFrame DEF consumerVars
<1>2. CASE Close \/ ConsumeLoop \/ Panic \/ RestartConsume \/ Finished \/ UNCHANGED vars
  BY <1>2 DEF ConsumeLoop, Panic, RestartConsume, Close, Finished, vars, shared,
       consumerVars, WindowInv, TypeOK, CheckClosed, CheckDrained, Probe, ScanReady, ScanStop,
       HandlerReturns, PanicHandled, PanicRethrown, EmptySlot, AdvanceTail
<1> QED
  BY <1>1, <1>2 DEF Next

\* tail never moves back.
LEMMA TailMonotone ==
    ASSUME WindowInv, TypeOK, [Next]_vars
    PROVE  tail' >= tail
BY TailFrame DEF TypeOK

\* LocalsInv is preserved: what a producer loaded stays a lower bound.
LEMMA LocalsStep == IInv /\ [Next]_vars => LocalsInv'
<1> SUFFICES ASSUME IInv, [Next]_vars PROVE LocalsInv'
  OBVIOUS
<1>0. /\ LocalsInv /\ tail' >= tail
      /\ head \in Nat /\ tail \in Nat /\ tail' \in Nat
      /\ pc \in [Producers -> ProducerPC] /\ calls \in [Producers -> 0 .. MaxCalls]
      /\ h \in [Producers -> Nat] /\ t \in [Producers -> Nat]
  BY TailMonotone, TypeStep DEF IInv, TypeOK
<1> USE DEF LocalsInv, Goto, shared
<1>1. ASSUME NEW p \in Producers, BeginWrite(p) PROVE LocalsInv'
  BY <1>0, <1>1 DEF BeginWrite
<1>2. ASSUME NEW p \in Producers, LoadHead(p) PROVE LocalsInv'
  BY <1>0, <1>2 DEF LoadHead
<1>3. ASSUME NEW p \in Producers, LoadTail(p) PROVE LocalsInv'
  <2>1. UintSub(h[p], tail) \in Int
    BY <1>0, WordAssumption DEF UintSub
  <2> QED
    BY <1>0, <1>3, <2>1, CapAssumption DEF LoadTail, Full
<1>4. ASSUME NEW p \in Producers, ReserveSlot(p) PROVE LocalsInv'
  BY SMTT(30), <1>0, <1>4 DEF ReserveSlot
<1>5. ASSUME NEW p \in Producers,
             RetryReserve(p) \/ SlotWait(p) \/ SetWriting(p) \/ WriteData(p) \/ SetReady(p)
      PROVE  LocalsInv'
  BY <1>0, <1>5 DEF RetryReserve, SlotWait, SetWriting, WriteData, SetReady
<1>6. CASE Close \/ ConsumeLoop \/ Panic \/ RestartConsume \/ Finished \/ UNCHANGED vars
  BY <1>0, <1>6, ConsumerFrame
<1> QED
  BY <1>1, <1>2, <1>3, <1>4, <1>5, <1>6 DEF Next, InTryWrite

\* A reservation is made only when fewer than Cap positions are unreleased.
LEMMA RoomToReserve ==
    ASSUME IInv, NEW p \in Producers, ReserveSlot(p)
    PROVE  head < tail + Cap
BY CapAssumption, WordAssumption
DEF IInv, TypeOK, LocalsInv, WindowInv, ReserveSlot, UintSub

\* WindowInv is preserved: at most Cap positions are reserved and unreleased.
LEMMA WindowStep == IInv /\ [Next]_vars => WindowInv'
<1> SUFFICES ASSUME IInv, [Next]_vars PROVE WindowInv'
  OBVIOUS
<1>0. TypeOK /\ WindowInv /\ BatchInv
  BY DEF IInv
<1>1. ASSUME NEW p \in Producers, ReserveSlot(p) PROVE WindowInv'
  <2>1. head < tail + Cap
    BY <1>1, RoomToReserve
  <2>2. Len(Append(log, Event(p))) = Len(log) + 1
    BY <1>0 DEF TypeOK
  <2> QED
    BY <1>0, <1>1, <2>1, <2>2, CapAssumption
    DEF TypeOK, WindowInv, ReserveSlot, consumerVars
<1>2. ASSUME NEW p \in Producers, BeginWrite(p) \/ (InTryWrite(p) /\ ~ReserveSlot(p))
      PROVE  WindowInv'
  BY <1>0, <1>2 DEF WindowInv, BeginWrite, InTryWrite, LoadHead, LoadTail, RetryReserve,
     SlotWait, SetWriting, WriteData, SetReady, shared, consumerVars
<1>3. CASE Close \/ ConsumeLoop \/ Panic \/ RestartConsume \/ Finished \/ UNCHANGED vars
  <2>1. UNCHANGED <<head, log>>
    BY <1>3, ConsumerFrame
  <2>2. CASE tail' = tail /\ curr' = curr
    BY <1>0, <2>1, <2>2 DEF WindowInv
  <2>3. CASE AdvanceTail
    BY <1>0, <2>1, <2>3, CapAssumption
    DEF AdvanceTail, WindowInv, BatchInv, InBatch, TypeOK
  <2> QED
    BY <1>0, <2>2, <2>3, TailFrame
<1> QED
  BY <1>1, <1>2, <1>3 DEF Next

-----------------------------------------------------------------------------
(* Owners, slots and batches *)

\* Two positions of the window live in different slots.
LEMMA WindowApart ==
    ASSUME TypeOK, NEW a \in Nat, NEW b \in Nat, a # b,
           tail <= a, a < tail + Cap, tail <= b, b < tail + Cap
    PROVE  Slot(a) # Slot(b)
<1>1. CASE a < b
  BY <1>1, SlotInjective, CapAssumption DEF TypeOK
<1>2. CASE b < a
  BY <1>2, SlotInjective, CapAssumption DEF TypeOK
<1> QED
  BY <1>1, <1>2

\* OwnerInv is preserved: a reserved position belongs to one producer.
LEMMA OwnerStep == IInv /\ [Next]_vars => OwnerInv'
<1> SUFFICES ASSUME IInv, [Next]_vars PROVE OwnerInv'
  OBVIOUS
<1>0. /\ OwnerInv /\ WindowInv /\ BatchInv /\ TypeOK
      /\ head \in Nat /\ tail \in Nat
      /\ pc \in [Producers -> ProducerPC] /\ h \in [Producers -> Nat]
  BY DEF IInv, TypeOK
<1> USE DEF OwnerInv, Owning, Goto, shared
<1>1. ASSUME NEW p \in Producers, ReserveSlot(p) PROVE OwnerInv'
  BY <1>0, <1>1 DEF ReserveSlot, WindowInv
<1>2. ASSUME NEW p \in Producers, BeginWrite(p) \/ (InTryWrite(p) /\ ~ReserveSlot(p))
      PROVE  OwnerInv'
  <2>1. tail' = tail
    BY <1>2, ProducerFrame
  <2> QED
    BY <1>0, <1>2, <2>1 DEF BeginWrite, InTryWrite, LoadHead, LoadTail, RetryReserve,
       SlotWait, SetWriting, WriteData, SetReady
<1>3. CASE Close \/ ConsumeLoop \/ Panic \/ RestartConsume \/ Finished \/ UNCHANGED vars
  <2>1. UNCHANGED <<head, pc, h>>
    BY <1>3, ConsumerFrame
  <2>2. CASE tail' = tail
    BY <1>0, <2>1, <2>2
  <2>3. CASE AdvanceTail
    BY <1>0, <2>1, <2>3 DEF AdvanceTail, BatchInv, InBatch
  <2> QED
    BY <1>0, <2>2, <2>3, TailFrame
<1> QED
  BY <1>1, <1>2, <1>3 DEF Next

\* A producer's mark on its slot changes no other position of the window.
LEMMA OwnSlotOnly ==
    ASSUME IInv, NEW p \in Producers, Owning(p), NEW n \in Nat,
           tail <= n, n < tail + Cap, n # h[p]
    PROVE  Slot(n) # Slot(h[p])
<1>1. h[p] \in Nat /\ tail <= h[p] /\ h[p] < tail + Cap
  BY CapAssumption DEF IInv, TypeOK, OwnerInv, WindowInv
<1> QED
  BY <1>1, WindowApart DEF IInv

\* SlotInv is preserved: a slot is marked by its owner and emptied by the
\* consumer only, and every slot the producers can still reserve is empty.
LEMMA SlotStep == IInv /\ [Next]_vars => SlotInv'
<1> SUFFICES ASSUME IInv, [Next]_vars PROVE SlotInv'
  OBVIOUS
<1>0. /\ SlotInv /\ OwnerInv /\ WindowInv /\ BatchInv
      /\ head \in Nat /\ tail \in Nat /\ curr = tail
      /\ state \in [Slots -> SlotState]
      /\ pc \in [Producers -> ProducerPC] /\ h \in [Producers -> Nat]
      /\ \A n \in Nat : Slot(n) \in Slots
  BY SlotType DEF IInv, TypeOK, WindowInv
<1>1. ASSUME NEW p \in Producers, ReserveSlot(p) PROVE SlotInv'
  <2>1. state[Slot(head)] = "Empty"
    BY <1>0, <1>1, RoomToReserve, CapAssumption DEF SlotInv
  <2> QED
    BY <1>0, <1>1, <2>1, CapAssumption DEF SlotInv, ReserveSlot, Goto
<1>2. ASSUME NEW p \in Producers, SetWriting(p) \/ SetReady(p) PROVE SlotInv'
  <2>1. Owning(p) /\ UNCHANGED <<head, tail, h>>
    BY <1>2 DEF SetWriting, SetReady, Owning
  <2>2. \A s \in Slots : s # Slot(h[p]) => state'[s] = state[s]
    BY <1>0, <1>2 DEF SetWriting, SetReady
  <2>3. \A q \in Producers : q # p /\ Owning(q) => Slot(h[q]) # Slot(h[p])
    BY <1>0, <2>1, OwnSlotOnly, CapAssumption DEF OwnerInv, WindowInv
  <2>4. \A n \in head .. tail + Cap - 1 : Slot(n) # Slot(h[p])
    BY <1>0, <2>1, OwnSlotOnly, CapAssumption DEF OwnerInv, WindowInv
  <2>5. ASSUME NEW q \in Producers
        PROVE  /\ pc'[q] \in {"slotWait", "setWriting"} => state'[Slot(h[q])] = "Empty"
               /\ pc'[q] \in {"writeData", "setReady"} => state'[Slot(h[q])] = "Writing"
    <3>1. CASE q = p
      BY <1>0, <1>2, <3>1 DEF SetWriting, SetReady, Goto
    <3>2. CASE q # p
      BY <1>0, <1>2, <2>2, <2>3, <3>2 DEF SlotInv, SetWriting, SetReady, Goto, Owning
    <3> QED
      BY <3>1, <3>2
  <2>6. ASSUME NEW n \in head .. tail + Cap - 1
        PROVE  state'[Slot(n)] = "Empty"
    BY <1>0, <2>2, <2>4 DEF SlotInv
  <2> QED
    BY <2>1, <2>5, <2>6 DEF SlotInv
<1>3. ASSUME NEW p \in Producers,
             BeginWrite(p) \/ LoadHead(p) \/ LoadTail(p) \/ RetryReserve(p)
             \/ SlotWait(p) \/ WriteData(p)
      PROVE  SlotInv'
  BY <1>0, <1>3 DEF SlotInv, BeginWrite, LoadHead, LoadTail, RetryReserve, SlotWait,
     WriteData, Goto, shared
<1>4. CASE EmptySlot
  <2>1. UNCHANGED <<head, tail, h, pc>>
    BY <1>4 DEF EmptySlot, producerVars
  <2>2. /\ curr + done \in Nat /\ tail <= curr + done /\ curr + done < curr + avail
        /\ curr + avail <= head /\ head <= tail + Cap
    BY <1>0, <1>4 DEF EmptySlot, BatchInv, InBatch, WindowInv, IInv, TypeOK
  <2>3. \A q \in Producers : Owning(q) => Slot(curr + done) # Slot(h[q])
    <3>1. ASSUME NEW q \in Producers, Owning(q) PROVE curr + done # h[q]
      BY <1>0, <1>4, <2>2, <3>1 DEF EmptySlot, BatchInv, InBatch, IInv, TypeOK
    <3> QED
      BY <1>0, <2>2, <3>1, OwnSlotOnly, CapAssumption DEF IInv, TypeOK
  <2>4. state' = [state EXCEPT ![Slot(curr + done)] = "Empty"]
    BY <1>4 DEF EmptySlot
  <2> QED
    BY <1>0, <2>1, <2>2, <2>3, <2>4 DEF SlotInv, Owning
<1>5. CASE AdvanceTail
  <2>1. UNCHANGED <<head, h, pc, state>> /\ tail' = tail + avail
    BY <1>0, <1>5 DEF AdvanceTail, producerVars
  <2>2. ASSUME NEW n \in head' .. tail' + Cap - 1
        PROVE  state'[Slot(n)] = "Empty"
    <3>1. CASE n < tail + Cap
      BY <1>0, <2>1, <3>1, CapAssumption DEF SlotInv, IInv, TypeOK
    <3>2. CASE n >= tail + Cap
      <4> DEFINE i == n - Cap - curr
      <4>1. i \in 0 .. done - 1 /\ curr + i = n - Cap /\ n - Cap \in Nat
        BY <1>0, <1>5, <2>1, <3>2, CapAssumption DEF AdvanceTail, IInv, TypeOK
      <4>2. state[Slot(curr + i)] = "Empty"
        BY <1>0, <1>5, <4>1 DEF AdvanceTail, BatchInv
      <4>3. Slot((n - Cap) + Cap) = Slot(n - Cap)
        BY <4>1, SlotTurn
      <4>4. (n - Cap) + Cap = n
        BY <1>0, <2>1, CapAssumption DEF IInv, TypeOK
      <4> QED
        BY <2>1, <4>1, <4>2, <4>3, <4>4
    <3> QED
      BY <1>0, <2>1, <3>1, <3>2, CapAssumption DEF IInv, TypeOK
  <2> QED
    BY <1>0, <2>1, <2>2 DEF SlotInv
<1>6. CASE \/ Close \/ Panic \/ RestartConsume \/ Finished \/ UNCHANGED vars
           \/ CheckClosed \/ CheckDrained \/ Probe \/ ScanReady \/ ScanStop \/ HandlerReturns
  BY <1>0, <1>6 DEF SlotInv, Close, Panic, RestartConsume, Finished, vars, shared, producerVars,
     CheckClosed, CheckDrained, Probe, ScanReady, ScanStop, HandlerReturns,
     PanicHandled, PanicRethrown
<1> QED
  BY <1>1, <1>2, <1>3, <1>4, <1>5, <1>6 DEF Next, InTryWrite, ConsumeLoop

\* BatchInv is preserved: the batch is made of reserved positions whose owners
\* have committed, and the commit loop empties exactly their slots.
LEMMA BatchStep == IInv /\ [Next]_vars => BatchInv'
<1> SUFFICES ASSUME IInv, [Next]_vars PROVE BatchInv'
  OBVIOUS
<1>0. /\ BatchInv /\ SlotInv /\ OwnerInv /\ WindowInv
      /\ head \in Nat /\ tail \in Nat /\ curr = tail /\ avail \in Nat /\ done \in Nat
      /\ head <= tail + Cap /\ tail <= head
      /\ state \in [Slots -> SlotState]
      /\ pc \in [Producers -> ProducerPC] /\ h \in [Producers -> Nat]
      /\ \A n \in Nat : Slot(n) \in Slots
      /\ BatchLimit \in Nat /\ BatchLimit <= Cap
  BY SlotType, CapAssumption, BatchAssumption DEF IInv, TypeOK, WindowInv, BatchLimit
<1>1. ASSUME NEW p \in Producers, BeginWrite(p) \/ InTryWrite(p) PROVE BatchInv'
  <2>1. UNCHANGED <<cpc, curr, avail, done>>
    BY <1>1, ProducerFrame DEF consumerVars
  <2>2. head' \in Nat /\ head' >= head
    BY <1>0, <1>1 DEF BeginWrite, InTryWrite, LoadHead, LoadTail, ReserveSlot, RetryReserve,
       SlotWait, SetWriting, WriteData, SetReady, shared
  <2>3. \A q \in Producers : Owning(q)' => h'[q] = h[q] /\ (Owning(q) \/ h[q] = head)
    BY <1>0, <1>1 DEF BeginWrite, InTryWrite, LoadHead, LoadTail, ReserveSlot, RetryReserve,
       SlotWait, SetWriting, WriteData, SetReady, shared, Goto, Owning
  <2>4. InBatch => \A q \in Producers : Owning(q)' => h'[q] >= curr + avail
    BY <1>0, <2>3 DEF BatchInv
  <2>5. ASSUME cpc = "empty", NEW i \in 0 .. done - 1
        PROVE  state'[Slot(curr + i)] = "Empty"
    <3>1. state[Slot(curr + i)] = "Empty" /\ curr + i \in Nat
          /\ tail <= curr + i /\ curr + i < curr + avail /\ curr + avail <= head
      BY <1>0, <2>5 DEF BatchInv, InBatch
    <3>2. CASE state' = state
      BY <3>1, <3>2
    <3>3. CASE SetWriting(p) \/ SetReady(p)
      <4>1. Owning(p) /\ h[p] >= curr + avail
        BY <1>0, <2>5, <3>3 DEF SetWriting, SetReady, Owning, BatchInv, InBatch
      <4>2. Slot(curr + i) # Slot(h[p])
        BY <1>0, <3>1, <4>1, OwnSlotOnly, CapAssumption
      <4> QED
        BY <1>0, <3>1, <3>3, <4>2 DEF SetWriting, SetReady
    <3> QED
      BY <1>1, <3>2, <3>3 DEF BeginWrite, InTryWrite, LoadHead, LoadTail, ReserveSlot,
         RetryReserve, SlotWait, WriteData, shared
  <2>6. BatchLimit' = BatchLimit /\ NextSlot' = NextSlot /\ EndSlot' = EndSlot
    BY <2>1 DEF BatchLimit, NextSlot, EndSlot
  <2>7. InBatch' = InBatch /\ (InBatch => curr + avail <= head')
    BY <1>0, <2>1, <2>2 DEF BatchInv, InBatch
  <2> QED
    BY <1>0, <2>1, <2>4, <2>5, <2>6, <2>7 DEF BatchInv
<1>2. CASE ScanReady
  <2>1. /\ UNCHANGED <<head, pc, h, curr, cpc, state>>
        /\ cpc = "scan" /\ done = avail /\ avail' = avail + 1 /\ done' = avail'
        /\ done < BatchLimit /\ curr + avail \in Nat /\ state[Slot(curr + avail)] = "Ready"
    BY <1>0, <1>2 DEF ScanReady, BatchInv, shared, producerVars
  <2>2. curr + avail < head
    BY <1>0, <2>1, CapAssumption DEF SlotInv
  <2>3. ASSUME NEW q \in Producers, Owning(q) PROVE h[q] >= curr + avail + 1
    <3>1. h[q] >= curr + avail
      BY <1>0, <2>1, <2>3 DEF BatchInv, InBatch
    <3>2. h[q] # curr + avail
      BY <1>0, <2>1, <2>3 DEF SlotInv, Owning
    <3> QED
      BY <1>0, <3>1, <3>2
  <2> QED
    BY <1>0, <2>1, <2>2, <2>3 DEF BatchInv, InBatch, Owning, BatchLimit
<1>3. CASE EmptySlot
  <2>1. UNCHANGED <<head, pc, h, curr, avail, cpc>> /\ cpc = "empty" /\ done' = done + 1
        /\ done < avail
    BY <1>3 DEF EmptySlot, producerVars
  <2>2. ASSUME NEW i \in 0 .. done' - 1 PROVE state'[Slot(curr + i)] = "Empty"
    <3>1. curr + i \in Nat /\ Slot(curr + i) \in Slots
      BY <1>0, <2>1
    <3>2. i # done => state[Slot(curr + i)] = "Empty"
      BY <1>0, <2>1 DEF BatchInv
    <3> QED
      BY <1>0, <1>3, <3>1, <3>2 DEF EmptySlot
  <2> QED
    BY <1>0, <2>1, <2>2 DEF BatchInv, InBatch, Owning, NextSlot, EndSlot
<1>4. CASE HandlerReturns \/ PanicHandled
  <2>1. /\ UNCHANGED <<head, pc, h, curr, avail, done, state>>
        /\ cpc \in {"first", "second"} /\ cpc' = AfterSegment
    BY <1>4 DEF HandlerReturns, PanicHandled, shared, producerVars
  <2>2. cpc' = "second" => EndSlot <= NextSlot /\ EndSlot > 0
    BY <2>1 DEF AfterSegment
  <2>3. cpc' \in {"second", "empty"}
    BY <2>1 DEF AfterSegment
  <2> QED
    BY <1>0, <2>1, <2>2, <2>3 DEF BatchInv, InBatch, Owning, NextSlot, EndSlot
<1>5. CASE Probe
  BY <1>0, <1>5 DEF Probe, BatchInv, InBatch, OwnerInv, Owning, shared, producerVars
<1>6. CASE ScanStop
  BY <1>0, <1>6 DEF ScanStop, BatchInv, InBatch, Owning, shared, producerVars
<1>7. CASE Close \/ Finished \/ UNCHANGED vars
  BY <1>0, <1>7 DEF Close, Finished, vars, BatchInv, InBatch, Owning, NextSlot, EndSlot,
     shared, producerVars, consumerVars
<1>8. CASE CheckClosed \/ CheckDrained \/ PanicRethrown \/ RestartConsume \/ AdvanceTail
  BY <1>0, <1>8 DEF CheckClosed, CheckDrained, PanicRethrown, RestartConsume, AdvanceTail,
     BatchInv, InBatch
<1> QED
  BY <1>1, <1>2, <1>3, <1>4, <1>5, <1>6, <1>7, <1>8 DEF Next, ConsumeLoop, Panic

-----------------------------------------------------------------------------
(* The data: what is written, what is handed over *)

\* Appending to the log changes none of its earlier entries.
LEMMA LogAppend ==
    ASSUME TypeOK, NEW e
    PROVE  /\ Len(Append(log, e)) = Len(log) + 1
           /\ Append(log, e)[Len(log) + 1] = e
           /\ \A n \in 1 .. Len(log) : Append(log, e)[n] = log[n]
BY DEF TypeOK

\* DataInv is preserved: an event stays in its slot until its position leaves
\* the window.
LEMMA DataStep == IInv /\ [Next]_vars => DataInv'
<1> SUFFICES ASSUME IInv, [Next]_vars PROVE DataInv'
  OBVIOUS
<1>0. /\ DataInv /\ OwnerInv /\ WindowInv /\ TypeOK
      /\ head \in Nat /\ tail \in Nat /\ tail' \in Nat /\ tail' >= tail
      /\ head <= tail + Cap /\ tail <= head /\ Len(log) = head
      /\ data \in [Slots -> Events \cup {NoEvent}]
      /\ pc \in [Producers -> ProducerPC] /\ h \in [Producers -> Nat]
      /\ calls \in [Producers -> 0 .. MaxCalls]
      /\ \A n \in Nat : Slot(n) \in Slots
  BY SlotType, TailMonotone, TypeStep DEF IInv, TypeOK, WindowInv
<1>1. ASSUME NEW p \in Producers, ReserveSlot(p) PROVE DataInv'
  <2>1. /\ head' = head + 1 /\ log' = Append(log, Event(p)) /\ h[p] = head
        /\ UNCHANGED <<tail, data, h, calls>>
        /\ pc' = [pc EXCEPT ![p] = "slotWait"] /\ ~Owning(p)
    BY <1>1 DEF ReserveSlot, Goto, Owning
  <2>2. /\ log'[head + 1] = Event(p)
        /\ \A n \in 1 .. head : log'[n] = log[n]
    BY <1>0, <2>1, LogAppend
  <2>3. /\ \A q \in Producers : q # p => Owning(q)' = Owning(q)
        /\ \A q \in Producers : pc'[q] = "setReady" => pc[q] = "setReady" /\ q # p
        /\ \A q \in Producers : Event(q)' = Event(q)
        /\ Owning(p)'
    BY <1>0, <2>1 DEF Owning, Event
  <2>4. ASSUME NEW q \in Producers, Owning(q)' PROVE log'[h'[q] + 1] = Event(q)'
    <3>1. CASE q = p
      BY <2>1, <2>2, <2>3, <3>1
    <3>2. CASE q # p
      <4>1. Owning(q) /\ h[q] + 1 \in 1 .. head
        BY <1>0, <2>3, <2>4, <3>2 DEF OwnerInv
      <4> QED
        BY <1>0, <2>1, <2>2, <2>3, <4>1 DEF DataInv
    <3> QED
      BY <3>1, <3>2
  <2>5. ASSUME NEW q \in Producers, pc'[q] = "setReady"
        PROVE  data'[Slot(h'[q])] = Event(q)'
    BY <1>0, <2>1, <2>3, <2>5 DEF DataInv
  <2>6. ASSUME NEW n \in tail' .. head' - 1,
               \A q \in Producers : Owning(q)' => h'[q] # n
        PROVE  data'[Slot(n)] = log'[n + 1]
    <3>1. n # head /\ n \in tail .. head - 1
      BY <1>0, <2>1, <2>3, <2>6
    <3>2. \A q \in Producers : Owning(q) => h[q] # n
      BY <2>1, <2>3, <2>6
    <3>3. data[Slot(n)] = log[n + 1] /\ n + 1 \in 1 .. head
      BY <1>0, <3>1, <3>2 DEF DataInv
    <3> QED
      BY <2>1, <2>2, <3>3
  <2> QED
    BY <2>4, <2>5, <2>6 DEF DataInv
<1>2. ASSUME NEW p \in Producers, WriteData(p) PROVE DataInv'
  <2>1. /\ UNCHANGED <<head, tail, log, h, calls>> /\ Owning(p)
        /\ data' = [data EXCEPT ![Slot(h[p])] = Event(p)]
        /\ \A q \in Producers : q # p => pc'[q] = pc[q]
        /\ \A q \in Producers : Owning(q)' = Owning(q) /\ Event(q)' = Event(q)
    BY <1>0, <1>2 DEF WriteData, Goto, Owning, Event
  <2>2. \A n \in tail .. head - 1 : n # h[p] => data'[Slot(n)] = data[Slot(n)]
    BY <1>0, <2>1, OwnSlotOnly, CapAssumption
  <2>3. data'[Slot(h[p])] = Event(p)
    BY <1>0, <2>1
  <2>4. ASSUME NEW q \in Producers, pc'[q] = "setReady"
        PROVE  data'[Slot(h'[q])] = Event(q)'
    <3>1. CASE q = p
      BY <2>1, <2>3, <3>1
    <3>2. CASE q # p
      BY <1>0, <2>1, <2>2, <2>4, <3>2 DEF DataInv, OwnerInv, Owning
    <3> QED
      BY <3>1, <3>2
  <2>5. ASSUME NEW n \in tail .. head - 1, \A q \in Producers : Owning(q) => h[q] # n
        PROVE  data'[Slot(n)] = log[n + 1]
    BY <1>0, <2>1, <2>2, <2>5 DEF DataInv
  <2> QED
    BY <1>0, <2>1, <2>4, <2>5 DEF DataInv
<1>3. ASSUME NEW p \in Producers, SetReady(p) PROVE DataInv'
  <2>1. /\ UNCHANGED <<head, tail, log, data, h, calls>>
        /\ Owning(p) /\ pc[p] = "setReady" /\ ~Owning(p)' /\ pc'[p] # "setReady"
        /\ \A q \in Producers : q # p => pc'[q] = pc[q] /\ Owning(q)' = Owning(q)
        /\ \A q \in Producers : Event(q)' = Event(q)
    BY <1>0, <1>3 DEF SetReady, Goto, Owning, Event
  <2>2. ASSUME NEW n \in tail .. head - 1, \A q \in Producers : Owning(q)' => h[q] # n
        PROVE  data[Slot(n)] = log[n + 1]
    <3>1. CASE n = h[p]
      BY <2>1, <3>1 DEF DataInv, IInv
    <3>2. CASE n # h[p]
      BY <1>0, <2>1, <2>2, <3>2 DEF DataInv
    <3> QED
      BY <3>1, <3>2
  <2> QED
    BY ZenonT(40), <1>0, <2>1, <2>2 DEF DataInv
<1>4. ASSUME NEW p \in Producers,
             BeginWrite(p) \/ LoadHead(p) \/ LoadTail(p) \/ RetryReserve(p)
             \/ SlotWait(p) \/ SetWriting(p)
      PROVE  DataInv'
  <2>0. tail' = tail
    BY <1>4, ProducerFrame DEF InTryWrite
  <2>1. /\ UNCHANGED <<head, tail, log, data>>
        /\ \A q \in Producers : q # p => pc'[q] = pc[q] /\ h'[q] = h[q] /\ calls'[q] = calls[q]
        /\ Owning(p)' = Owning(p) /\ pc'[p] # "setReady"
        /\ Owning(p) => h'[p] = h[p] /\ calls'[p] = calls[p]
    BY <1>0, <1>4 DEF BeginWrite, LoadHead, LoadTail, RetryReserve, SlotWait, SetWriting,
       Goto, Owning, shared
  <2>2. \A q \in Producers :
            /\ Owning(q)' = Owning(q)
            /\ Owning(q) => h'[q] = h[q] /\ Event(q)' = Event(q)
            /\ pc'[q] = "setReady" => pc[q] = "setReady"
    BY <2>1 DEF Owning, Event
  <2>3. ASSUME NEW q \in Producers, Owning(q)' PROVE log'[h'[q] + 1] = Event(q)'
    BY <1>0, <2>1, <2>2, <2>3 DEF DataInv
  <2>4. ASSUME NEW q \in Producers, pc'[q] = "setReady"
        PROVE  data'[Slot(h'[q])] = Event(q)'
    <3>1. pc[q] = "setReady" /\ Owning(q)
      BY <2>2, <2>4 DEF Owning
    <3> QED
      BY <1>0, <2>1, <2>2, <3>1 DEF DataInv
  <2>5. ASSUME NEW n \in tail' .. head' - 1, \A q \in Producers : Owning(q)' => h'[q] # n
        PROVE  data'[Slot(n)] = log'[n + 1]
    <3>1. n \in tail .. head - 1 /\ \A q \in Producers : Owning(q) => h[q] # n
      BY <1>0, <2>1, <2>2, <2>5
    <3> QED
      BY <1>0, <2>1, <3>1 DEF DataInv
  <2> QED
    BY <2>3, <2>4, <2>5 DEF DataInv
<1>5. CASE Close \/ ConsumeLoop \/ Panic \/ RestartConsume \/ Finished \/ UNCHANGED vars
  <2>1. UNCHANGED <<pc, h, calls, head, log, data>>
    BY <1>5, ConsumerFrame
  <2> QED
    BY <1>0, <2>1 DEF DataInv, Owning, Event
<1> QED
  BY <1>1, <1>2, <1>3, <1>4, <1>5 DEF Next, InTryWrite

\* What a handler call gets: the events of the positions that follow those
\* already handed over, up to the end of data or of the batch.
LEMMA SegmentIsNext ==
    ASSUME IInv, cpc \in {"first", "second"}
    PROVE  /\ Len(Segment) = SegmentTo - SegmentFrom
           /\ Progress + Len(Segment) <= head
           /\ \A i \in 1 .. Len(Segment) : Segment[i] = log[Progress + i]
           /\ AfterSegment = "second" => Progress + Len(Segment) = curr + (Cap - NextSlot)
           /\ AfterSegment = "empty" => Progress + Len(Segment) = curr + avail
<1>0. /\ TypeOK /\ BatchInv /\ DataInv /\ WindowInv
      /\ curr \in Nat /\ curr = tail /\ head \in Nat
      /\ avail \in 1 .. Cap /\ curr + avail <= head
      /\ \A p \in Producers : Owning(p) => h[p] >= curr + avail
      /\ h \in [Producers -> Nat]
      /\ NextSlot \in Slots /\ EndSlot \in Slots
      /\ EndSlot = IF NextSlot + avail < Cap THEN NextSlot + avail ELSE NextSlot + avail - Cap
  <2>1. avail \in 1 .. Cap /\ curr \in Nat
    BY CapAssumption, BatchAssumption DEF IInv, TypeOK, BatchInv, InBatch, BatchLimit
  <2>2. EndSlot = IF NextSlot + avail < Cap THEN NextSlot + avail ELSE NextSlot + avail - Cap
    BY <2>1, SlotAdd, CapAssumption DEF NextSlot, EndSlot
  <2> QED
    BY <2>1, <2>2, SegmentBounds DEF IInv, TypeOK, BatchInv, InBatch, WindowInv
<1>1. /\ Len(Segment) = SegmentTo - SegmentFrom
      /\ \A i \in 1 .. SegmentTo - SegmentFrom : Segment[i] = data[SegmentFrom + i - 1]
  BY <1>0, SegmentBounds, SliceType DEF Segment
<1>2. ASSUME NEW j \in 0 .. avail - 1
      PROVE  data[Slot(curr + j)] = log[curr + j + 1]
  BY <1>0, <1>2 DEF DataInv
<1>3. ASSUME NEW j \in 0 .. avail - 1
      PROVE  Slot(curr + j) = IF NextSlot + j < Cap THEN NextSlot + j ELSE NextSlot + j - Cap
  BY <1>0, <1>3, SlotAdd, CapAssumption DEF NextSlot
<1>4. CASE cpc = "first"
  <2>1. /\ Progress = curr /\ SegmentFrom = NextSlot
        /\ SegmentTo - NextSlot \in 1 .. avail /\ SegmentTo <= Cap
        /\ EndSlot > NextSlot => SegmentTo - NextSlot = avail
        /\ EndSlot <= NextSlot => SegmentTo = Cap
        /\ EndSlot = 0 => SegmentTo - NextSlot = avail
    BY <1>0, <1>4, CapAssumption DEF IInv, HandedInv, SegmentFrom, SegmentTo, Slots
  <2>2. ASSUME NEW i \in 1 .. Len(Segment) PROVE Segment[i] = log[Progress + i]
    <3>1. /\ i - 1 \in 0 .. avail - 1 /\ NextSlot + (i - 1) < Cap
          /\ Segment[i] = data[NextSlot + (i - 1)]
      BY <1>0, <1>1, <2>1, <2>2, CapAssumption DEF Slots
    <3>2. Segment[i] = log[curr + (i - 1) + 1]
      BY <1>2, <1>3, <3>1
    <3> QED
      BY <1>0, <2>1, <3>2
  <2>3. /\ AfterSegment = "second" => EndSlot <= NextSlot
        /\ AfterSegment = "empty" => EndSlot > NextSlot \/ EndSlot = 0
    BY <1>0, <1>4, CapAssumption DEF AfterSegment, Slots
  <2>4. Len(Segment) = SegmentTo - NextSlot /\ NextSlot \in Nat
    BY <1>0, <1>1, <2>1, CapAssumption DEF Slots
  <2>5. Progress + Len(Segment) <= head
    BY <1>0, <2>1, <2>4, CapAssumption
  <2>6. AfterSegment = "second" => Progress + Len(Segment) = curr + (Cap - NextSlot)
    BY <1>0, <2>1, <2>3, <2>4, CapAssumption
  <2>7. AfterSegment = "empty" => Progress + Len(Segment) = curr + avail
    BY <1>0, <2>1, <2>3, <2>4, CapAssumption
  <2> QED
    BY <1>1, <2>2, <2>5, <2>6, <2>7
<1>5. CASE cpc = "second"
  <2>1. /\ Progress = curr + (Cap - NextSlot) /\ SegmentFrom = 0 /\ SegmentTo = EndSlot
        /\ EndSlot = NextSlot + avail - Cap /\ EndSlot > 0
    BY <1>0, <1>5, CapAssumption
    DEF IInv, HandedInv, BatchInv, SegmentFrom, SegmentTo, Slots
  <2>2. ASSUME NEW i \in 1 .. Len(Segment) PROVE Segment[i] = log[Progress + i]
    <3> DEFINE j == (Cap - NextSlot) + (i - 1)
    <3>1. /\ j \in 0 .. avail - 1 /\ NextSlot + j - Cap = i - 1 /\ ~(NextSlot + j < Cap)
          /\ i \in 1 .. EndSlot /\ 0 + i - 1 = i - 1 /\ curr + j + 1 = Progress + i
      BY <1>0, <1>1, <2>1, <2>2, CapAssumption DEF Slots
    <3>2. Segment[i] = data[i - 1]
      BY <1>0, <1>1, <2>1, <3>1 DEF Slots
    <3> HIDE DEF j
    <3>3. Slot(curr + j) = i - 1
      BY <1>3, <3>1
    <3> QED
      BY <1>2, <3>1, <3>2, <3>3
  <2>3. AfterSegment = "empty"
    BY <1>5 DEF AfterSegment
  <2> QED
    BY <1>0, <1>1, <2>1, <2>2, <2>3, CapAssumption DEF Slots
<1> QED
  BY <1>4, <1>5

\* HandedInv is preserved: events are handed over in log order, and tail covers
\* only events whose handler call is accounted for.
LEMMA HandedStep == IInv /\ [Next]_vars => HandedInv'
<1> SUFFICES ASSUME IInv, [Next]_vars PROVE HandedInv'
  OBVIOUS
<1>0. /\ HandedInv /\ TypeOK /\ Len(log) = head
      /\ head \in Nat /\ tail \in Nat /\ curr = tail /\ start \in Nat /\ avail \in Nat
      /\ handed \in Seq(Events \cup {NoEvent}) /\ Len(handed) \in Nat /\ Progress \in Nat
      /\ Progress <= head /\ tail <= Progress
  BY DEF IInv, TypeOK, WindowInv, HandedInv, InOrder, Progress
<1>1. ASSUME NEW p \in Producers, BeginWrite(p) \/ InTryWrite(p) PROVE HandedInv'
  <2>1. UNCHANGED <<tail, cpc, curr, avail, start, handed, accounted>>
    BY <1>1, ProducerFrame DEF consumerVars
  <2>2. CASE log' = log
    BY <1>0, <2>1, <2>2 DEF HandedInv, InOrder, Progress, NextSlot
  <2>3. CASE ReserveSlot(p)
    <3>1. log' = Append(log, Event(p))
      BY <2>3 DEF ReserveSlot
    <3>2. Len(log') = head + 1 /\ \A n \in 1 .. head : log'[n] = log[n]
      BY <1>0, <3>1, LogAppend
    <3>3. InOrder'
      BY <1>0, <2>1, <3>2 DEF HandedInv, InOrder, Progress
    <3>4. \A n \in 1 .. Progress' : log'[n] \in accounted'
      BY SMTT(30), <1>0, <2>1, <3>2 DEF HandedInv, Progress
    <3> QED
      BY <1>0, <2>1, <3>3, <3>4 DEF HandedInv, Progress, NextSlot
  <2> QED
    BY <1>1, <2>2, <2>3 DEF BeginWrite, InTryWrite, LoadHead, LoadTail, RetryReserve,
       SlotWait, SetWriting, WriteData, SetReady
<1>2. CASE HandlerReturns \/ PanicHandled
  <2>1. /\ UNCHANGED <<tail, curr, avail, start, log>>
        /\ cpc \in {"first", "second"} /\ cpc' = AfterSegment
        /\ handed' = handed \o Segment /\ accounted' = accounted \cup InSegment
    BY <1>2 DEF HandlerReturns, PanicHandled, shared
  <2>2. /\ Segment \in Seq(Events \cup {NoEvent}) /\ Len(Segment) \in Nat
        /\ BatchInv
    BY <2>1, SegmentType DEF IInv
  <2>3. /\ Len(handed') = Len(handed) + Len(Segment)
        /\ \A i \in 1 .. Len(handed) : handed'[i] = handed[i]
        /\ \A i \in 1 .. Len(Segment) : handed'[Len(handed) + i] = Segment[i]
    BY SMTT(30), <1>0, <2>1, <2>2
  <2>4. Progress' = Progress + Len(Segment) /\ Progress' <= head
    BY <1>0, <2>1, <2>2, <2>3, SegmentIsNext DEF Progress
  <2>5. ASSUME NEW i \in 1 .. Len(handed') PROVE handed'[i] = log[start + i]
    <3>1. CASE i \in 1 .. Len(handed)
      BY <1>0, <2>3, <3>1 DEF HandedInv, InOrder
    <3>2. CASE ~(i \in 1 .. Len(handed))
      <4> DEFINE k == i - Len(handed)
      <4>1. k \in 1 .. Len(Segment) /\ i = Len(handed) + k /\ start + i = Progress + k
        BY <1>0, <2>2, <2>3, <2>5, <3>2 DEF Progress
      <4> QED
        BY <2>1, <2>3, <4>1, SegmentIsNext
    <3> QED
      BY <3>1, <3>2
  <2>6. ASSUME NEW n \in 1 .. Progress' PROVE log[n] \in accounted'
    <3>1. CASE n \in 1 .. Progress
      BY <1>0, <2>1, <3>1 DEF HandedInv
    <3>2. CASE ~(n \in 1 .. Progress)
      <4> DEFINE k == n - Progress
      <4>1. k \in 1 .. Len(Segment) /\ n = Progress + k
        BY <1>0, <2>2, <2>4, <2>6, <3>2
      <4>2. Segment[k] \in InSegment
        BY <2>2, <4>1 DEF InSegment
      <4> QED
        BY <2>1, <4>1, <4>2, SegmentIsNext
    <3> QED
      BY <3>1, <3>2
  <2>7. /\ cpc' \in {"second", "empty"}
        /\ cpc' = "second" => Progress' = curr + (Cap - NextSlot)
        /\ cpc' = "empty" => Progress' = curr + avail
    BY <2>1, <2>4, SegmentIsNext DEF AfterSegment
  <2> QED
    BY SMTT(30), <1>0, <2>1, <2>2, <2>4, <2>5, <2>6, <2>7 DEF HandedInv, InOrder, Progress, NextSlot
<1>3. CASE RestartConsume
  <2>1. /\ UNCHANGED <<tail, log, accounted>> /\ curr' = tail /\ start' = tail
        /\ handed' = <<>> /\ cpc' = "check"
    BY <1>3 DEF RestartConsume, shared
  <2>2. Progress' = tail
    BY <1>0, <2>1 DEF Progress
  <2> QED
    BY <1>0, <2>1, <2>2 DEF HandedInv, InOrder
<1>4. CASE AdvanceTail
  <2>1. /\ UNCHANGED <<log, accounted, start, handed>> /\ tail' = curr + avail
        /\ cpc = "empty" /\ cpc' = "check"
    BY <1>4 DEF AdvanceTail, sessionVars
  <2> QED
    BY <1>0, <2>1 DEF HandedInv, InOrder, Progress
<1>5. CASE CheckClosed \/ CheckDrained \/ Probe \/ ScanReady \/ ScanStop \/ EmptySlot
  BY <1>0, <1>5 DEF HandedInv, InOrder, Progress, CheckClosed, CheckDrained, Probe, ScanReady,
     ScanStop, EmptySlot, shared, sessionVars
<1>6. CASE Close \/ PanicRethrown \/ Finished \/ UNCHANGED vars
  BY <1>0, <1>6 DEF HandedInv, InOrder, Progress, NextSlot, Close, PanicRethrown, Finished,
     vars, shared, consumerVars
<1> QED
  BY <1>1, <1>2, <1>3, <1>4, <1>5, <1>6 DEF Next, ConsumeLoop, Panic

-----------------------------------------------------------------------------
(* The theorems *)

\* The initial state satisfies the invariant.
LEMMA InitIInv == Init => IInv
<1> SUFFICES ASSUME Init PROVE IInv
  OBVIOUS
<1>1. TypeOK
  <2>1. <<>> \in Seq(Events) /\ <<>> \in Seq(Events \cup {NoEvent})
    OBVIOUS
  <2>2. 0 \in 0 .. MaxCalls /\ 0 \in 0 .. MaxPanics
    BY BoundAssumption
  <2> QED
    BY <2>1, <2>2 DEF Init, TypeOK, SlotState, ProducerPC, ConsumerPC
<1>2. LocalsInv /\ OwnerInv /\ BatchInv
  BY DEF Init, LocalsInv, OwnerInv, BatchInv, InBatch, Owning
<1>3. WindowInv
  BY CapAssumption DEF Init, WindowInv
<1>4. SlotInv
  BY SlotType, CapAssumption DEF Init, SlotInv, Slots
<1>5. DataInv
  BY DEF Init, DataInv, Owning
<1>6. HandedInv
  BY CapAssumption DEF Init, HandedInv, InOrder, Progress
<1> QED
  BY <1>1, <1>2, <1>3, <1>4, <1>5, <1>6 DEF IInv

\* IInv is an invariant of the ring buffer.
THEOREM Inductive == Spec => []IInv
<1>1. IInv /\ [Next]_vars => IInv'
  BY TypeStep, LocalsStep, WindowStep, OwnerStep, SlotStep, BatchStep, DataStep, HandedStep
  DEF IInv
<1> QED
  BY InitIInv, <1>1, PTL DEF Spec

\* Type correctness.
THEOREM TypeCorrect == Spec => []TypeOK
<1>1. IInv => TypeOK
  BY DEF IInv
<1> QED
  BY Inductive, <1>1, PTL

\* The plain writes and reads of log events never race, for any number of
\* producers and any capacity.
THEOREM RaceFree == Spec => []NoSlotRace
<1>1. ASSUME IInv PROVE NoSlotRace
  <2>1. ASSUME NEW p \in Producers, Owning(p), Reading(Slot(h[p])) PROVE FALSE
    <3>1. PICK i \in 0 .. avail - 1 : Slot(h[p]) = Slot(curr + i)
      BY <2>1 DEF Reading
    <3>2. /\ curr + i \in Nat /\ tail <= curr + i /\ curr + i < tail + Cap
          /\ curr + i # h[p]
      BY SMTT(30), <1>1, <2>1, CapAssumption
      DEF Reading, IInv, TypeOK, WindowInv, BatchInv, InBatch
    <3> QED
      BY <1>1, <2>1, <3>1, <3>2, OwnSlotOnly
  <2>2. ASSUME NEW p \in Producers, NEW q \in Producers \ {p}, Owning(p), Owning(q)
        PROVE  Slot(h[q]) # Slot(h[p])
    <3>1. h[q] \in Nat /\ tail <= h[q] /\ h[q] < tail + Cap /\ h[q] # h[p]
      BY <1>1, <2>2, CapAssumption DEF IInv, TypeOK, WindowInv, OwnerInv
    <3> QED
      BY <1>1, <2>2, <3>1, OwnSlotOnly
  <2> QED
    BY <2>1, <2>2 DEF NoSlotRace
<1> QED
  BY Inductive, <1>1, PTL

\* A producer that has reserved a position never waits for its slot.
THEOREM NeverBlocks == Spec => []SlotWaitNeverBlocks
<1>1. IInv => SlotWaitNeverBlocks
  BY DEF IInv, SlotInv, SlotWaitNeverBlocks
<1> QED
  BY Inductive, <1>1, PTL

\* Every Consume call hands events over in reservation order, each one once.
THEOREM HandedInOrder == Spec => []InOrder
<1>1. IInv => InOrder
  BY DEF IInv, HandedInv
<1> QED
  BY Inductive, <1>1, PTL

\* A slot is given back only after its event's handler call is accounted for.
THEOREM NothingLostSilently == Spec => []NoSilentLoss
<1>1. ASSUME IInv PROVE NoSilentLoss
  BY <1>1 DEF IInv, HandedInv, NoSilentLoss, TypeOK, InOrder, Progress
<1> QED
  BY Inductive, <1>1, PTL

-----------------------------------------------------------------------------
(* The ring buffer implements the bounded queue of module LogQueue, and is   *)
(* drained when Consume returns under the contract of Close.                 *)

\* A log entry is a producer and the number of one of its calls.
LEMMA LogEntries ==
    ASSUME TypeOK
    PROVE  \A n \in 1 .. Len(log) :
              /\ log[n] = <<log[n][1], log[n][2]>>
              /\ log[n][1] \in Producers /\ log[n][2] \in 1 .. MaxCalls
<1> SUFFICES ASSUME NEW n \in 1 .. Len(log)
             PROVE  /\ log[n] = <<log[n][1], log[n][2]>>
                    /\ log[n][1] \in Producers /\ log[n][2] \in 1 .. MaxCalls
  OBVIOUS
<1>1. log[n] \in Producers \X (1 .. MaxCalls)
  BY DEF TypeOK, Events
<1> QED
  BY <1>1

\* FreshInv is preserved: a call that has reserved does not reserve again.
LEMMA FreshStep == IInv /\ FreshInv /\ [Next]_vars => FreshInv'
<1> SUFFICES ASSUME IInv, FreshInv, [Next]_vars PROVE FreshInv'
  OBVIOUS
<1>0. /\ TypeOK /\ FreshInv
      /\ pc \in [Producers -> ProducerPC] /\ calls \in [Producers -> 0 .. MaxCalls]
      /\ log \in Seq(Events) /\ Len(log) \in Nat
      /\ \A n \in 1 .. Len(log) : log[n][2] \in Nat
  BY LogEntries, BoundAssumption DEF IInv, TypeOK
<1>1. ASSUME NEW p \in Producers, ReserveSlot(p) PROVE FreshInv'
  <2>1. /\ log' = Append(log, Event(p)) /\ calls' = calls
        /\ pc' = [pc EXCEPT ![p] = "slotWait"] /\ pc[p] = "cas"
    BY <1>1 DEF ReserveSlot, Goto
  <2>2. /\ Len(log') = Len(log) + 1 /\ log'[Len(log) + 1] = <<p, calls[p]>>
        /\ \A n \in 1 .. Len(log) : log'[n] = log[n]
    BY <1>0, <2>1, LogAppend DEF Event
  <2>3. ASSUME NEW q \in Producers, NEW n \in 1 .. Len(log'), log'[n][1] = q
        PROVE  /\ log'[n][2] <= calls'[q]
               /\ pc'[q] \in {"loadHead", "loadTail", "cas"} => log'[n][2] < calls'[q]
    <3>1. CASE n \in 1 .. Len(log)
      BY <1>0, <2>1, <2>2, <2>3, <3>1 DEF FreshInv
    <3>2. CASE n = Len(log) + 1
      <4>1. q = p /\ log'[n][2] = calls[p]
        BY <2>2, <2>3, <3>2
      <4> QED
        BY <1>0, <2>1, <4>1, BoundAssumption
    <3> QED
      BY <1>0, <2>2, <3>1, <3>2
  <2> QED
    BY <2>3 DEF FreshInv
<1>2. ASSUME NEW p \in Producers, BeginWrite(p) PROVE FreshInv'
  BY <1>0, <1>2, BoundAssumption DEF FreshInv, BeginWrite, Goto
<1>3. ASSUME NEW p \in Producers, InTryWrite(p) /\ ~ReserveSlot(p) PROVE FreshInv'
  <2>1. /\ UNCHANGED <<log, calls>>
        /\ \A q \in Producers : pc'[q] \in {"loadHead", "loadTail", "cas"} =>
                                    pc[q] \in {"loadHead", "loadTail", "cas"}
    BY <1>0, <1>3 DEF InTryWrite, LoadHead, LoadTail, RetryReserve, SlotWait, SetWriting,
       WriteData, SetReady, Goto
  <2> QED
    BY <1>0, <2>1 DEF FreshInv
<1>4. CASE Close \/ ConsumeLoop \/ Panic \/ RestartConsume \/ Finished \/ UNCHANGED vars
  BY <1>0, <1>4, ConsumerFrame DEF FreshInv
<1> QED
  BY <1>1, <1>2, <1>3, <1>4 DEF Next

\* ContractInv is preserved: after Close under the contract head stands still.
LEMMA ContractStep == IInv /\ ContractInv /\ [Next]_vars => ContractInv'
<1> SUFFICES ASSUME IInv, ContractInv, [Next]_vars PROVE ContractInv'
  OBVIOUS
<1>0. /\ ContractInv /\ pc \in [Producers -> ProducerPC] /\ closed \in BOOLEAN
  BY DEF IInv, TypeOK
<1>1. ASSUME NEW p \in Producers, BeginWrite(p) PROVE ContractInv'
  BY <1>0, <1>1 DEF ContractInv, BeginWrite, Goto, shared, consumerVars
<1>2. ASSUME NEW p \in Producers, InTryWrite(p) PROVE ContractInv'
  <2>1. UNCHANGED <<tail, closed, cpc>>
    BY <1>2, ProducerFrame DEF consumerVars
  <2>2. pc[p] # "idle"
    BY <1>2 DEF InTryWrite, LoadHead, LoadTail, ReserveSlot, RetryReserve, SlotWait,
       SetWriting, WriteData, SetReady
  <2> QED
    BY <1>0, <2>1, <2>2 DEF ContractInv
<1>3. CASE Close
  BY <1>0, <1>3 DEF ContractInv, Close, producerVars, consumerVars
<1>4. CASE ConsumeLoop \/ Panic \/ RestartConsume \/ Finished \/ UNCHANGED vars
  <2>1. UNCHANGED <<pc, head>>
    BY <1>4, ConsumerFrame
  <2>2. UNCHANGED closed
    BY <1>4 DEF ConsumeLoop, Panic, RestartConsume, Finished, vars, shared, CheckClosed,
       CheckDrained, Probe, ScanReady, ScanStop, HandlerReturns, PanicHandled, PanicRethrown,
       EmptySlot, AdvanceTail
  <2>3. cpc' \in {"checkDrained", "returned"} => closed
    BY <1>0, <1>4 DEF ContractInv, ConsumeLoop, Panic, RestartConsume, Finished, vars,
       CheckClosed, CheckDrained, Probe, ScanReady, ScanStop, HandlerReturns, PanicHandled,
       PanicRethrown, EmptySlot, AdvanceTail, AfterSegment, consumerVars
  <2>4. cpc' = "returned" => \/ CheckDrained /\ tail = head
                             \/ cpc = "returned"
    BY <1>4 DEF ConsumeLoop, Panic, RestartConsume, Finished, vars, CheckClosed,
       CheckDrained, Probe, ScanReady, ScanStop, HandlerReturns, PanicHandled,
       PanicRethrown, EmptySlot, AdvanceTail, AfterSegment, consumerVars
  <2>5. cpc' = "returned" => tail' = tail
    BY <1>4, TailFrame DEF AdvanceTail, IInv
  <2> QED
    BY <1>0, <2>1, <2>2, <2>3, <2>4, <2>5 DEF ContractInv
<1> QED
  BY <1>1, <1>2, <1>3, <1>4 DEF Next

\* The inductive invariant together with what the history variables say.
LEMMA HistoryInvariant == Spec => [](IInv /\ FreshInv /\ ContractInv)
<1>1. Init => FreshInv /\ ContractInv
  BY DEF Init, FreshInv, ContractInv
<1>2. IInv /\ FreshInv /\ ContractInv /\ [Next]_vars => FreshInv' /\ ContractInv'
  BY FreshStep, ContractStep
<1> QED
  BY <1>1, <1>2, Inductive, PTL DEF Spec

\* When producers stop before Close, Consume returns with nothing left behind.
THEOREM Drained == Spec => []DrainedOnReturn
<1>1. IInv /\ ContractInv => DrainedOnReturn
  BY DEF IInv, WindowInv, ContractInv, DrainedOnReturn
<1> QED
  BY <1>1, HistoryInvariant, PTL

\* An open buffer refuses an event only when it is full at that moment or when
\* the producer's head is out of date.
THEOREM RefusalExplained == Spec => RefusedOnlyFullOrOvertaken
<1> DEFINE A == \A p \in Producers :
         pc[p] = "loadTail" /\ pc'[p] = "idle" => head - tail >= Cap \/ head # h[p]
<1>1. IInv /\ [Next]_vars => [A]_vars
  <2> SUFFICES ASSUME IInv, [Next]_vars, NEW p \in Producers,
                      pc[p] = "loadTail", pc'[p] = "idle", head = h[p]
               PROVE  head - tail >= Cap
    OBVIOUS
  <2>0. pc \in [Producers -> ProducerPC] /\ head \in Nat /\ tail \in Nat /\ tail <= head
    BY DEF IInv, TypeOK, WindowInv
  <2>1. ~(Close \/ ConsumeLoop \/ Panic \/ RestartConsume \/ Finished \/ UNCHANGED vars)
    BY ConsumerFrame
  <2>2. PICK q \in Producers : BeginWrite(q) \/ InTryWrite(q)
    BY <2>1 DEF Next
  <2>3. LoadTail(p)
    BY <2>0, <2>2 DEF BeginWrite, InTryWrite, LoadHead, LoadTail, ReserveSlot, RetryReserve,
       SlotWait, SetWriting, WriteData, SetReady, Goto
  <2>4. Full(h[p], tail)
    BY <2>0, <2>3 DEF LoadTail, Goto
  <2> QED
    BY <2>0, <2>4 DEF Full, UintSub
<1> QED
  BY <1>1, Inductive, PTL DEF Spec, RefusedOnlyFullOrOvertaken

-----------------------------------------------------------------------------
(* Refinement *)

\* The event a producer is about to reserve a position for is a new one.
LEMMA EventIsNew ==
    ASSUME IInv, FreshInv, NEW p \in Producers, pc[p] = "cas"
    PROVE  Event(p) \notin {log[i] : i \in 1 .. Len(log)}
<1> SUFFICES ASSUME NEW i \in 1 .. Len(log), log[i] = Event(p) PROVE FALSE
  OBVIOUS
<1>1. log[i][1] = p /\ log[i][2] = calls[p] /\ calls[p] \in Nat
  BY BoundAssumption DEF Event, IInv, TypeOK
<1> QED
  BY <1>1 DEF FreshInv

\* A segment is the part of the log that follows what was handed over.
LEMMA SegmentIsSubSeq ==
    ASSUME IInv, cpc \in {"first", "second"}
    PROVE  /\ Segment = SubSeq(log, Progress + 1, Progress + Len(Segment))
           /\ Len(Segment) \in 1 .. Cap
           /\ Progress + Len(Segment) <= Len(log)
<1>0. /\ TypeOK /\ BatchInv
      /\ Segment \in Seq(Events \cup {NoEvent}) /\ Len(Segment) \in Nat
      /\ Len(log) = head /\ log \in Seq(Events) /\ Progress \in Nat
      /\ Progress + Len(Segment) <= head
      /\ \A i \in 1 .. Len(Segment) : Segment[i] = log[Progress + i]
  BY SegmentType, SegmentIsNext DEF IInv, TypeOK, WindowInv, Progress
<1>1. Len(Segment) \in 1 .. Cap
  <2>1. /\ NextSlot \in Slots /\ EndSlot \in Slots
        /\ Len(Segment) = SegmentTo - SegmentFrom
    BY <1>0, SegmentBounds, SegmentIsNext
  <2>2. cpc = "second" => EndSlot > 0
    BY <1>0 DEF BatchInv
  <2> QED
    BY <2>1, <2>2, CapAssumption DEF SegmentTo, SegmentFrom, Slots
<1>2. SubSeq(log, Progress + 1, Progress + Len(Segment))
        = [i \in 1 .. Len(Segment) |-> log[Progress + i]]
  BY SMTT(30), <1>0
<1>3. Segment = [i \in 1 .. Len(Segment) |-> log[Progress + i]]
  BY <1>0
<1> QED
  BY <1>0, <1>1, <1>2, <1>3

\* Every step of the ring buffer is a step of the bounded queue or leaves it
\* unchanged, and the initial state is an initial state of the queue.
THEOREM Refines == Spec => ImplementsLogQueue
<1> DEFINE qvars == <<log, start, handed, tail, closed, cpc = "returned">>
<1>1. Init => Queue!Init
  BY DEF Init, Queue!Init
<1>2. IInv /\ FreshInv /\ ContractInv /\ [Next]_vars => [Queue!Next]_(Queue!vars)
  <2> SUFFICES ASSUME IInv, FreshInv, ContractInv, [Next]_vars
               PROVE  Queue!Next \/ UNCHANGED qvars
    BY DEF Queue!vars
  <2>0. /\ TypeOK /\ Len(log) = head /\ head \in Nat /\ tail \in Nat /\ curr = tail
    BY DEF IInv, TypeOK, WindowInv
  <2>1. ASSUME NEW p \in Producers, ReserveSlot(p) PROVE Queue!Next
    <3>1. Event(p) \in Events /\ Event(p) \notin {log[i] : i \in 1 .. Len(log)}
      BY <2>0, <2>1, EventType, EventIsNew DEF ReserveSlot, IInv
    <3>2. QuiesceBeforeClose => ~closed
      BY <2>1 DEF ContractInv, ReserveSlot
    <3>3. Len(log) - tail < Cap
      BY <2>0, <2>1, RoomToReserve, CapAssumption
    <3>4. log' = Append(log, Event(p)) /\ UNCHANGED <<start, handed, tail, closed, cpc>>
      BY <2>1 DEF ReserveSlot, consumerVars
    <3> QED
      BY <3>1, <3>2, <3>3, <3>4 DEF Queue!Next, Queue!Accept
  <2>2. ASSUME NEW p \in Producers, BeginWrite(p) \/ (InTryWrite(p) /\ ~ReserveSlot(p))
        PROVE  UNCHANGED qvars
    <3>1. UNCHANGED <<tail, closed, consumerVars>>
      BY <2>2, ProducerFrame
    <3>2. UNCHANGED log
      BY <2>2 DEF BeginWrite, InTryWrite, LoadHead, LoadTail, RetryReserve, SlotWait,
         SetWriting, WriteData, SetReady
    <3> QED
      BY <3>1, <3>2 DEF consumerVars
  <2>3. CASE Close
    BY <2>3 DEF Close, consumerVars, Queue!Next, Queue!Close
  <2>4. CASE HandlerReturns \/ PanicHandled
    <3>1. /\ UNCHANGED <<log, start, tail, closed>>
          /\ cpc \in {"first", "second"} /\ cpc' \in {"second", "empty"}
          /\ handed' = handed \o Segment
      BY <2>4 DEF HandlerReturns, PanicHandled, AfterSegment, shared
    <3>2. /\ Len(Segment) \in 1 .. Cap
          /\ start + Len(handed) + Len(Segment) <= Len(log)
          /\ handed' = handed \o SubSeq(log, start + Len(handed) + 1,
                                             start + Len(handed) + Len(Segment))
      BY <3>1, SegmentIsSubSeq DEF Progress
    <3>3. Queue!HandOver(Len(Segment))
      BY <3>1, <3>2 DEF Queue!HandOver
    <3> QED
      BY <3>2, <3>3 DEF Queue!Next
  <2>5. CASE RestartConsume
    BY <2>5 DEF RestartConsume, shared, Queue!Next, Queue!Resume
  <2>6. CASE AdvanceTail
    <3>1. /\ UNCHANGED <<log, start, handed, closed>> /\ tail' = curr + avail
          /\ cpc = "empty" /\ cpc' = "check"
      BY <2>6 DEF AdvanceTail, sessionVars
    <3>2. start + Len(handed) = curr + avail
      BY <3>1 DEF IInv, HandedInv, Progress
    <3> QED
      BY <3>1, <3>2 DEF Queue!Next, Queue!Release
  <2>7. CASE CheckDrained
    <3>1. UNCHANGED <<log, start, handed, tail, closed>> /\ cpc = "checkDrained"
      BY <2>7 DEF CheckDrained, shared, sessionVars
    <3>2. CASE tail = head
      <4>1. closed /\ tail = Len(log) /\ cpc' = "returned"
        BY <2>0, <2>7, <3>1, <3>2 DEF CheckDrained, ContractInv
      <4> QED
        BY <3>1, <4>1 DEF Queue!Next, Queue!Stop
    <3>3. CASE tail # head
      BY <2>7, <3>1, <3>3 DEF CheckDrained
    <3> QED
      BY <3>2, <3>3
  <2>8. CASE CheckClosed \/ Probe \/ ScanReady \/ ScanStop \/ EmptySlot \/ PanicRethrown
    BY <2>8 DEF CheckClosed, Probe, ScanReady, ScanStop, EmptySlot, PanicRethrown, shared,
       sessionVars
  <2>9. CASE Finished \/ UNCHANGED vars
    BY <2>9 DEF Finished, vars, shared, consumerVars
  <2> QED
    BY <2>1, <2>2, <2>3, <2>4, <2>5, <2>6, <2>7, <2>8, <2>9 DEF Next, ConsumeLoop, Panic
<1> QED
  BY <1>1, <1>2, HistoryInvariant, PTL DEF Spec, ImplementsLogQueue, Queue!Spec
=============================================================================
