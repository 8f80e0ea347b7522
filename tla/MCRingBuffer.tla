----------------------------- MODULE MCRingBuffer -----------------------------
(* RingBuffer on small instances. *)
EXTENDS RingBufferInv

CONSTANTS p1, p2    \* producers

\* p1 is scheduled fairly; the consumer, the closer and p2 may all stop.
Alone == Spec /\ WF_vars(InTryWrite(p1))

\* A TryWrite call of p1 ends though the others stop anywhere, a reserved slot left
\* undone included, provided that they make finitely many calls (MaxCalls): each
\* time the compare-and-swap of p1 fails, another producer's has succeeded, and one
\* that never stops may make p1 try again for ever.
TryWriteEnds == pc[p1] # "idle" ~> pc[p1] = "idle"
=============================================================================
