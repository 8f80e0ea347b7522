---------------------------- MODULE RingBufferInv ----------------------------
(* The inductive invariant of module RingBuffer, in named parts. *)
EXTENDS RingBuffer

\* What a producer's locals say: a call is counted before it begins, the head
\* loaded is at most the head, and the check passed on a tail since advanced.
LocalsInv ==
    \A p \in Producers :
        /\ pc[p] # "idle" => calls[p] >= 1
        /\ pc[p] \in {"loadTail", "cas"} => h[p] <= head
        /\ pc[p] = "cas" => t[p] <= tail /\ UintSub(h[p], t[p]) < Cap

\* The reserved and unreleased positions are tail .. head-1, at most Cap.
WindowInv ==
    /\ tail <= head /\ head <= tail + Cap
    /\ Len(log) = head
    /\ curr = tail

\* A position has one owner, in the window; the slot of a position is empty
\* until its owner has marked it, and that of a position to come is empty.
OwnerInv ==
    /\ \A p \in Producers : Owning(p) => tail <= h[p] /\ h[p] < head
    /\ \A p, q \in Producers : Owning(p) /\ Owning(q) /\ p # q => h[p] # h[q]

SlotInv ==
    /\ \A p \in Producers :
        /\ pc[p] \in {"slotWait", "setWriting"} => state[Slot(h[p])] = "Empty"
        /\ pc[p] \in {"writeData", "setReady"} => state[Slot(h[p])] = "Writing"
    /\ \A n \in head .. tail + Cap - 1 : state[Slot(n)] = "Empty"

\* The positions of the batch: reserved and no longer owned by a producer.
InBatch == cpc \in {"scan", "first", "second", "empty"}

BatchInv ==
    /\ InBatch =>
        /\ avail <= BatchLimit
        /\ curr + avail <= head
        /\ \A p \in Producers : Owning(p) => h[p] >= curr + avail
    /\ cpc = "scan" => done = avail
    /\ cpc \in {"first", "second", "empty"} => avail >= 1
    /\ cpc \in {"first", "second"} => done = 0
    /\ cpc = "second" => EndSlot <= NextSlot /\ EndSlot > 0
    /\ cpc = "empty" =>
        /\ done <= avail
        /\ \A i \in 0 .. done - 1 : state[Slot(curr + i)] = "Empty"

\* The event of a position is in the log from its reservation on, and in its
\* slot from the end of the write until the slot is reserved again.
DataInv ==
    /\ \A p \in Producers : Owning(p) => log[h[p] + 1] = Event(p)
    /\ \A p \in Producers : pc[p] = "setReady" => data[Slot(h[p])] = Event(p)
    /\ \A n \in tail .. head - 1 :
        (\A p \in Producers : Owning(p) => h[p] # n) => data[Slot(n)] = log[n + 1]

\* How far the handler calls of this Consume call have got.
Progress == start + Len(handed)

HandedInv ==
    /\ InOrder
    /\ tail <= Progress
    /\ cpc \in {"check", "checkDrained", "probe", "scan", "first", "returned"} =>
            Progress = tail
    /\ cpc = "second" => Progress = curr + (Cap - NextSlot)
    /\ cpc = "empty" => Progress = curr + avail
    /\ \A n \in 1 .. Progress : log[n] \in accounted

IInv ==
    /\ TypeOK /\ LocalsInv /\ WindowInv /\ OwnerInv
    /\ SlotInv /\ BatchInv /\ DataInv /\ HandedInv

\* A call offers an event that is not in the log yet.
FreshInv ==
    \A p \in Producers : \A n \in 1 .. Len(log) : log[n][1] = p =>
        /\ log[n][2] <= calls[p]
        /\ pc[p] \in {"loadHead", "loadTail", "cas"} => log[n][2] < calls[p]

\* Under the contract nobody is in TryWrite once the buffer is closed; Consume
\* looks for the end only then, and has released everything when it returns.
ContractInv ==
    /\ QuiesceBeforeClose /\ closed => \A p \in Producers : pc[p] = "idle"
    /\ cpc \in {"checkDrained", "returned"} => closed
    /\ QuiesceBeforeClose /\ cpc = "returned" => tail = head
=============================================================================
