------------------------------- MODULE RWMutex -------------------------------
(***************************************************************************)
(* Go's sync.RWMutex as the router relies on it: many readers or one       *)
(* writer; a writer that waits holds off new readers; and when a writer    *)
(* unlocks, the readers that queued up behind it enter before any other    *)
(* writer.  Not reentrant: a goroutine that locks twice waits for itself.  *)
(***************************************************************************)
CONSTANTS Goroutines, NoOne

VARIABLES
    writer,     \* the goroutine that writes or waits to write, or NoOne
    holds,      \* the writer has the lock
    readers,    \* goroutines that hold the lock for reading
    queued      \* goroutines waiting to read

MutexInit == writer = NoOne /\ holds = FALSE /\ readers = {} /\ queued = {}

RLock(g) ==
    /\ g \notin readers \cup queued
    /\ IF writer = NoOne
       THEN readers' = readers \cup {g} /\ UNCHANGED queued
       ELSE queued' = queued \cup {g} /\ UNCHANGED readers
    /\ UNCHANGED <<writer, holds>>

RUnlock(g) ==
    /\ g \in readers
    /\ readers' = readers \ {g}
    /\ UNCHANGED <<writer, holds, queued>>

\* Lock: announce, which shuts new readers out,
Announce(g) ==
    /\ writer = NoOne
    /\ writer' = g
    /\ UNCHANGED <<holds, readers, queued>>

\* then wait for the readers inside.
Acquire(g) ==
    /\ writer = g /\ ~holds
    /\ readers = {}
    /\ holds' = TRUE
    /\ UNCHANGED <<writer, readers, queued>>

Unlock(g) ==
    /\ writer = g /\ holds
    /\ writer' = NoOne /\ holds' = FALSE
    /\ readers' = queued /\ queued' = {}
=============================================================================
