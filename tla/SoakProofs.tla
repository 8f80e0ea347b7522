------------------------------ MODULE SoakProofs ------------------------------
(***************************************************************************)
(* Safety of module Soak for every finite set of workers and any number of *)
(* requests: the report is exact, and no worker is late more than once.    *)
(***************************************************************************)
EXTENDS Soak, FiniteSetTheorems, TLAPS

\* The workers past their check of the time, with a request still to send
Committed == {w \in Workers : worker[w] \in {"waiting", "sending"}}

\* The counters have every request that was answered; once the caller has
\* passed wg.Wait there is no worker left to count another.
CountInv ==
    /\ okCount + errCount = sent
    /\ main # "waiting" => total = sent /\ \A w \in Workers : worker[w] = "ended"

\* After the time is up a worker that has sent its late request commits to no
\* other one.
LateInv ==
    IF timeUp THEN late + Cardinality(Committed) <= Cardinality(Workers) ELSE late = 0

IInv == TypeOK /\ CountInv /\ LateInv

-----------------------------------------------------------------------------

\* The committed workers are finitely many, at most all.
LEMMA CommittedBound ==
    /\ IsFiniteSet(Committed)
    /\ Cardinality(Committed) \in Nat /\ Cardinality(Workers) \in Nat
    /\ Cardinality(Committed) <= Cardinality(Workers)
<1>1. Committed \subseteq Workers
  BY DEF Committed
<1> QED
  BY <1>1, WorkersAssumption, FS_Subset, FS_CardinalityType

\* A step that adds no committed worker and sends no late request keeps the bound.
LEMMA NoneCommits ==
    ASSUME IInv, TypeOK', Committed' \subseteq Committed, late' = late, timeUp' = timeUp
    PROVE  LateInv'
<1>1. Cardinality(Committed') \in Nat /\ Cardinality(Committed') <= Cardinality(Committed)
  BY CommittedBound, FS_Subset, FS_CardinalityType
<1> QED
  BY <1>1, CommittedBound DEF IInv, TypeOK, LateInv

\* Every step keeps the types.
LEMMA TypeStep == IInv /\ [Next]_vars => TypeOK'
<1> SUFFICES ASSUME IInv, [Next]_vars PROVE TypeOK'
  OBVIOUS
<1> USE DEF IInv, TypeOK, counters, Goto
<1>0. Cardinality(Workers) \in Nat
  BY CommittedBound
<1>1. CASE TimeIsUp
  BY <1>1 DEF TimeIsUp
<1>2. CASE Tick
  BY <1>2 DEF Tick
<1>3. CASE Limiter
  <2>1. CASE TakeTick
    BY <2>1 DEF TakeTick
  <2>2. CASE TakeDone
    BY <2>2 DEF TakeDone
  <2>3. CASE Offer
    BY <1>0, <2>3 DEF Offer
  <2> QED
    BY <1>3, <2>1, <2>2, <2>3 DEF Limiter
<1>4. ASSUME NEW w \in Workers, Worker(w) PROVE TypeOK'
  <2>1. CASE CheckTime(w)
    BY <2>1 DEF CheckTime
  <2>2. CASE TakeToken(w)
    BY <1>0, <2>2 DEF TakeToken
  <2>3. CASE Get(w)
    BY <2>3 DEF Get
  <2> QED
    BY <1>4, <2>1, <2>2, <2>3 DEF Worker
<1>5. CASE Report
  BY <1>5 DEF Report
<1>6. CASE Return
  BY <1>6 DEF Return
<1>7. CASE UNCHANGED vars
  BY <1>7 DEF vars
<1> QED
  BY <1>1, <1>2, <1>3, <1>4, <1>5, <1>6, <1>7 DEF Next, Stopped

\* Every step keeps the counters in step with the workers.
LEMMA CountStep == IInv /\ [Next]_vars => CountInv'
<1> SUFFICES ASSUME IInv, [Next]_vars PROVE CountInv'
  OBVIOUS
<1> USE DEF IInv, TypeOK, CountInv, counters, Goto
<1>1. ASSUME NEW w \in Workers, Worker(w) PROVE CountInv'
  <2>1. CASE CheckTime(w)
    BY <2>1 DEF CheckTime
  <2>2. CASE TakeToken(w)
    BY <2>2 DEF TakeToken
  <2>3. CASE Get(w)
    BY <2>3 DEF Get
  <2> QED
    BY <1>1, <2>1, <2>2, <2>3 DEF Worker
<1>2. CASE Report
  BY <1>2 DEF Report
<1>3. CASE Return
  BY <1>3 DEF Return
<1>4. CASE TimeIsUp \/ Tick \/ Limiter \/ UNCHANGED vars
  BY <1>4 DEF TimeIsUp, Tick, Limiter, TakeTick, TakeDone, Offer, vars
<1> QED
  BY <1>1, <1>2, <1>3, <1>4 DEF Next, Stopped

\* Every step keeps the bound on the requests sent late.
LEMMA LateStep == IInv /\ [Next]_vars => LateInv'
<1> SUFFICES ASSUME IInv, [Next]_vars PROVE LateInv'
  OBVIOUS
<1>0. TypeOK'
  BY TypeStep
<1>1. CASE TimeIsUp
  <2>1. Committed' = Committed
    BY <1>1 DEF TimeIsUp, Committed
  <2> QED
    BY <1>1, <2>1, CommittedBound DEF TimeIsUp, IInv, LateInv, counters
<1>2. ASSUME NEW w \in Workers, Worker(w) PROVE LateInv'
  <2>1. CASE CheckTime(w)
    \* Only before the time is up a check commits the worker.
    <3>1. CASE timeUp
      <4>1. Committed' \subseteq Committed
        BY <2>1, <3>1 DEF CheckTime, Goto, Committed, IInv, TypeOK
      <4> QED
        BY <1>0, <2>1, <4>1, NoneCommits DEF CheckTime, counters
    <3> QED
      BY <2>1, <3>1 DEF CheckTime, counters, IInv, LateInv, TypeOK
  <2>2. CASE TakeToken(w)
    <3>1. Committed' \subseteq Committed
      BY <2>2 DEF TakeToken, Goto, Committed, IInv, TypeOK
    <3> QED
      BY <1>0, <2>2, <3>1, NoneCommits DEF TakeToken, counters
  <2>3. CASE Get(w)
    <3>1. w \in Committed /\ Committed' = Committed \ {w}
      BY <2>3 DEF Get, Goto, Committed, IInv, TypeOK
    <3>2. Cardinality(Committed') = Cardinality(Committed) - 1
      BY <3>1, CommittedBound, FS_RemoveElement
    <3> QED
      BY <2>3, <3>2, CommittedBound DEF Get, IInv, LateInv, TypeOK
  <2> QED
    BY <1>2, <2>1, <2>2, <2>3 DEF Worker
<1>3. CASE Tick \/ Limiter \/ Report \/ Return \/ UNCHANGED vars
  <2>1. Committed' \subseteq Committed /\ late' = late /\ timeUp' = timeUp
    BY <1>3 DEF Tick, Limiter, TakeTick, TakeDone, Offer, Report, Return, vars, counters, Committed
  <2> QED
    BY <1>0, <2>1, NoneCommits
<1> QED
  BY <1>1, <1>2, <1>3 DEF Next, Stopped

-----------------------------------------------------------------------------

\* IInv is an inductive invariant of the load generator, with and without a
\* limiter.
THEOREM Inductive == Spec => []IInv
<1>1. ASSUME Init PROVE IInv
  <2>1. TypeOK
    <3>1. /\ limited \in BOOLEAN /\ limiter \in {"selecting", "offering", "ended"}
          /\ timeUp \in BOOLEAN /\ tick \in BOOLEAN
      BY <1>1, Zenon DEF Init
    <3>2. tokens \in 0 .. Cardinality(Workers)
      <4>1. tokens = 0
        BY <1>1, Zenon DEF Init
      <4> QED
        BY <4>1, CommittedBound
    <3>3. done \in BOOLEAN /\ worker \in [Workers -> {"checking", "waiting", "sending", "ended"}]
      BY <1>1 DEF Init
    <3>4. /\ main \in {"waiting", "reported", "returned"}
          /\ okCount \in Nat /\ errCount \in Nat /\ total \in Nat
          /\ sent \in Nat /\ late \in Nat
      BY <1>1 DEF Init
    <3> QED
      BY <3>1, <3>2, <3>3, <3>4 DEF TypeOK
  <2>2. CountInv /\ LateInv
    BY <1>1 DEF Init, CountInv, LateInv
  <2> QED
    BY <2>1, <2>2 DEF IInv
<1>2. IInv /\ [Next]_vars => IInv'
  BY TypeStep, CountStep, LateStep DEF IInv
<1> QED
  BY <1>1, <1>2, PTL DEF Spec

\* The report counts every request once, the late ones included.
THEOREM Exact == Spec => []ReportIsExact
<1>1. IInv => ReportIsExact
  BY DEF IInv, CountInv, ReportIsExact
<1> QED
  BY Inductive, <1>1, PTL

\* However many tokens are left when the time is up, each worker sends at most
\* one request after it.
THEOREM LateBounded == Spec => []LateAtMostOneEach
<1>1. IInv => LateAtMostOneEach
  BY CommittedBound DEF IInv, TypeOK, LateInv, LateAtMostOneEach
<1> QED
  BY Inductive, <1>1, PTL
=============================================================================
