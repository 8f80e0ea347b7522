------------------------------- MODULE LogQueue -------------------------------
(***************************************************************************)
(* What logger.RingBuffer promises its callers, with no slots, counters or *)
(* steps inside an operation: a bounded queue that takes each event at     *)
(* most once, hands the events to the consumer in the order it took them,  *)
(* and makes room only for events it has handed over.  A Consume call that *)
(* ends in a panic is followed by one that starts again at the first event *)
(* not yet released, so delivery is at least once.                         *)
(***************************************************************************)
EXTENDS Integers, Sequences

CONSTANTS
    Offers,             \* the events producers offer
    Cap,                \* how many taken events may be unreleased
    QuiesceBeforeClose  \* no event is offered once the queue is closed

VARIABLES
    accepted,   \* the events taken, in order
    from,       \* where the current Consume call started in accepted
    out,        \* the events it has handed over
    released,   \* the number of events whose room is free again
    closed,     \* Close has been called
    stopped     \* Consume has returned

vars == <<accepted, from, out, released, closed, stopped>>

Init ==
    /\ accepted = <<>> /\ out = <<>>
    /\ from = 0 /\ released = 0
    /\ closed = FALSE /\ stopped = FALSE

\* TryWrite returns true for an event that was never taken before.
Accept(e) ==
    /\ QuiesceBeforeClose => ~closed
    /\ e \notin {accepted[i] : i \in 1 .. Len(accepted)}
    /\ Len(accepted) - released < Cap
    /\ accepted' = Append(accepted, e)
    /\ UNCHANGED <<from, out, released, closed, stopped>>

\* The handler is given the next n events.
HandOver(n) ==
    /\ ~stopped
    /\ from + Len(out) + n <= Len(accepted)
    /\ out' = out \o SubSeq(accepted, from + Len(out) + 1, from + Len(out) + n)
    /\ UNCHANGED <<accepted, from, released, closed, stopped>>

\* Room is made for exactly the events handed over.
Release ==
    /\ ~stopped
    /\ released' = from + Len(out)
    /\ UNCHANGED <<accepted, from, out, closed, stopped>>

\* Consume is called again after a panic.
Resume ==
    /\ ~stopped
    /\ from' = released
    /\ out' = <<>>
    /\ UNCHANGED <<accepted, released, closed, stopped>>

Close ==
    /\ closed' = TRUE
    /\ UNCHANGED <<accepted, from, out, released, stopped>>

\* Consume returns: closed, and every event taken so far is released.
Stop ==
    /\ closed
    /\ released = Len(accepted)
    /\ stopped' = TRUE
    /\ UNCHANGED <<accepted, from, out, released, closed>>

Next ==
    \/ \E e \in Offers : Accept(e)
    \/ \E n \in 1 .. Cap : HandOver(n)
    \/ Release \/ Resume \/ Close \/ Stop

Spec == Init /\ [][Next]_vars
=============================================================================
