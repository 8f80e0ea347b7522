----------------------------- MODULE ChainProofs ------------------------------
(***************************************************************************)
(* Proofs about requests on their way through a chain of middlewares.      *)
(* The inductive invariant has three themes: who uses which writer and     *)
(* which pooled object (Structure), what the headers of a response may     *)
(* say (HeadersOK), and how the entries of the logs relate to the response *)
(* (LoggedOnce, Wrappers, Accounts).                                       *)
(***************************************************************************)
EXTENDS Chain, FiniteSetTheorems, WellFoundedInduction, TLAPS

-----------------------------------------------------------------------------
(* Numbers *)

\* A nonempty set of naturals has a least element.
LEMMA Least ==
    ASSUME NEW T, T \subseteq Nat, T # {}
    PROVE  \E x \in T : \A y \in T : x <= y
<1> DEFINE R == {ss \in Nat \X Nat : ss[1] < ss[2]}
<1>1. IsWellFoundedOn(R, Nat)
  BY NatLessThanWellFounded DEF OpToRel
<1>2. PICK x \in T : \A y \in T : ~ (<<y, x>> \in R)
  <2> HIDE DEF R
  <2> QED
    BY <1>1, WFMin
<1>3. ASSUME NEW y \in T PROVE x <= y
  <2>1. x \in Nat /\ y \in Nat /\ (y < x => <<y, x>> \in R)
    OBVIOUS
  <2> QED
    BY <1>2, <2>1
<1> QED
  BY <1>3

\* Min finds it.
LEMMA MinIs ==
    ASSUME NEW T, T \subseteq Nat, T # {}
    PROVE  Min(T) \in T
BY Least DEF Min

\* Max finds the greatest element of a set of naturals that has a bound.
LEMMA MaxIs ==
    ASSUME NEW N \in Nat, NEW T, T \subseteq 0 .. N, T # {}
    PROVE  Max(T) \in T /\ \A y \in T : y <= Max(T)
<1> DEFINE D == {N - y : y \in T}
<1>1. D \subseteq Nat /\ D # {}
  <2>1. \A y \in T : N - y \in Nat
    OBVIOUS
  <2>2. PICK y \in T : TRUE
    OBVIOUS
  <2>3. N - y \in D
    OBVIOUS
  <2> QED
    BY <2>1, <2>3
<1>2. PICK x \in D : \A y \in D : x <= y
  <2> HIDE DEF D
  <2> QED
    BY <1>1, Least
<1>3. PICK t \in T : x = N - t
  OBVIOUS
<1>4. ASSUME NEW y \in T PROVE y <= t
  <2>1. N - t <= N - y
    BY <1>2, <1>3
  <2> QED
    BY <2>1
<1>5. t \in T /\ \A y \in T : t >= y
  BY <1>4
<1>6. Max(T) \in T /\ \A y \in T : Max(T) >= y
  <2> HIDE DEF D
  <2> QED
    BY <1>5 DEF Max
<1> QED
  BY <1>6

\* What holds of 0 and passes from n to n + 1 holds up to N.
LEMMA UpTo ==
    ASSUME NEW N \in Nat, NEW P, 0 \in P, \A n \in 0 .. N - 1 : n \in P => n + 1 \in P
    PROVE  0 .. N \subseteq P
<1> DEFINE T == (0 .. N) \ P
<1>1. SUFFICES ASSUME T # {} PROVE FALSE
  OBVIOUS
<1>2. PICK x \in T : \A y \in T : x <= y
  <2>1. T \subseteq Nat
    OBVIOUS
  <2> HIDE DEF T
  <2> QED
    BY <1>1, <2>1, Least
<1>3. x \in Nat /\ x # 0 /\ x \notin P /\ x <= N
  OBVIOUS
<1>4. x - 1 \in 0 .. N - 1 /\ x - 1 \notin T
  BY <1>2, <1>3
<1> QED
  BY <1>3, <1>4

\* f starts with base and goes on with what next makes of the last one.
Iterates(f, N, S, base, next) ==
    f \in [0 .. N -> S] /\ f[0] = base /\ \A n \in 1 .. N : f[n] = next[f[n - 1]]

\* A function can be applied over and over to its own result.
LEMMA Orbit ==
    ASSUME NEW N \in Nat, NEW S, NEW base \in S, NEW next \in [S -> S]
    PROVE  \E f : Iterates(f, N, S, base, next)
<1> DEFINE Good(f, k) == f[0] = base /\ \A n \in 1 .. k : f[n] = next[f[n - 1]]
           P == {k \in 0 .. N : \E f \in [0 .. N -> S] : Good(f, k)}
<1>1. \A k \in 0 .. N : k \in P <=> \E f \in [0 .. N -> S] : Good(f, k)
  <2> HIDE DEF Good
  <2> QED
    OBVIOUS
<1> HIDE DEF P
<1>2. 0 \in P
  <2> DEFINE f == [n \in 0 .. N |-> base]
  <2>1. f \in [0 .. N -> S] /\ Good(f, 0)
    OBVIOUS
  <2> HIDE DEF f, Good
  <2> QED
    BY <1>1, <2>1
<1>3. ASSUME NEW k \in 0 .. N - 1, k \in P PROVE k + 1 \in P
  <2>1. PICK f \in [0 .. N -> S] : Good(f, k)
    <3> HIDE DEF Good
    <3> QED
      BY <1>1, <1>3
  <2> DEFINE h == [f EXCEPT ![k + 1] = next[f[k]]]
  <2>2. /\ h \in [0 .. N -> S]
        /\ h[k + 1] = next[f[k]]
        /\ \A n \in 0 .. k : h[n] = f[n]
    OBVIOUS
  <2> HIDE DEF h
  <2>3. ASSUME NEW n \in 1 .. k + 1 PROVE h[n] = next[h[n - 1]]
    <3>1. n - 1 \in 0 .. k /\ (n # k + 1 => n \in 1 .. k)
      OBVIOUS
    <3> QED
      BY <2>1, <2>2, <3>1
  <2>4. Good(h, k + 1)
    BY <2>1, <2>2, <2>3
  <2> HIDE DEF Good
  <2> QED
    BY <1>1, <2>2, <2>4
<1>4. N \in P
  <2>1. 0 .. N \subseteq P
    <3> HIDE DEF Good
    <3> QED
      BY <1>2, <1>3, UpTo
  <2> QED
    BY <2>1
<1>5. PICK f \in [0 .. N -> S] : Good(f, N)
  <2> HIDE DEF Good
  <2> QED
    BY <1>1, <1>4
<1> QED
  BY <1>5 DEF Iterates

-----------------------------------------------------------------------------
(* Levels: the handlers of a chain, 1 for the outermost layer, and the one *)
(* behind the last layer.  A level is run by the goroutine of the request, *)
(* or by that of the Timeout before it.                                    *)

Logs    == {"access", "line"}
Passing == {"recovery", "cors", "id"}
Going   == {"out", "up", "logOut", "logUp"}     \* going out or up
Goings  == Going \cup {"absent", "in", "wait", "done", "aborted"}

ChainOK(ls) ==
    /\ ls \in Seq(LayerKinds)
    /\ \A i, j \in DOMAIN ls : ls[i] = ls[j] /\ ls[i] \in {"timeout", "router"} => i = j

Levels(ls) == 1 .. Len(ls) + 1

\* Which goroutine runs a level
Side(ls, k)       == IF \E j \in 1 .. k - 1 : ls[j] = "timeout" THEN "timeout" ELSE "conn"
Routine(ls, r, k) == <<r, Side(ls, k)>>

\* The innermost level that a goroutine has entered and not left
Top(p) == IF p.going = "absent" THEN 0 ELSE IF p.going \in {"in", "wait"} THEN p.at ELSE p.at + 1

Live(ls, pl, r, k) == k <= Top(pl[Routine(ls, r, k)])

\* The level is live, and the layer before it is one of some kinds.
Made(ls, pl, r, k, kinds) == Live(ls, pl, r, k) /\ k > 1 /\ ls[k - 1] \in kinds

\* The Logger before the level has put its writer back and waits for the mutex.
Settled(ls, pl, r, k) ==
    LET p == pl[Routine(ls, r, k)] IN p.at = k - 1 /\ p.going \in {"logOut", "logUp"}

\* A log before the level holds a writer.
Held(ls, pl, r, k) == Made(ls, pl, r, k, Logs) /\ ~Settled(ls, pl, r, k)

\* Where a goroutine may be, and that its levels are its own
RoutineOK(ls, g, p) ==
    /\ p.going \in {"absent", "done", "aborted"} => p.at = 0
    /\ p.going \in {"in", "wait"} => p.at \in Levels(ls)
    /\ p.going \in Going => p.at \in 0 .. Len(ls)
    /\ p.going = "wait" => p.at \in DOMAIN ls /\ ls[p.at] = "timeout"
    /\ p.going \in {"logOut", "logUp"} => p.at \in DOMAIN ls /\ ls[p.at] = "line"
    /\ p.going \in {"wait", "done", "aborted"} => g[2] = "conn"
    /\ p.going # "absent" => Side(ls, Top(p)) = g[2]

IsPlaces(pl) == pl \in [Routines -> [at : Nat, going : Goings]]

RoutinesOK(ls, pl) ==
    /\ IsPlaces(pl)
    /\ \A g \in Routines : RoutineOK(ls, g, pl[g])

\* A Timeout's goroutine starts when that of the request is at the Timeout.
PairOK(pl, sent, r) ==
    /\ pl[<<r, "conn">>].going # "absent" => r \in DOMAIN sent
    /\ pl[<<r, "conn">>].going \in {"absent", "in"} => pl[<<r, "timeout">>].going = "absent"

\* The level below a layer that is no Timeout is run by the same goroutine.
LEMMA SameSide ==
    ASSUME NEW ls, ChainOK(ls), NEW k \in DOMAIN ls, ls[k] # "timeout"
    PROVE  /\ k \in 1 .. Len(ls) /\ k \in Levels(ls) /\ k + 1 \in Levels(ls)
           /\ Side(ls, k + 1) = Side(ls, k)
<1>1. k \in 1 .. Len(ls) /\ Len(ls) \in Nat
  BY DEF ChainOK
<1>2. (\E j \in 1 .. k : ls[j] = "timeout") <=> \E j \in 1 .. k - 1 : ls[j] = "timeout"
  BY <1>1
<1>3. (k + 1) - 1 = k
  BY <1>1
<1> QED
  BY <1>1, <1>2, <1>3 DEF Side, Levels

\* A Timeout is run by the goroutine of the request, what is behind it is not.
LEMMA TimeoutSides ==
    ASSUME NEW ls, ChainOK(ls), NEW k \in DOMAIN ls, ls[k] = "timeout"
    PROVE  /\ k \in 1 .. Len(ls) /\ k \in Levels(ls) /\ k + 1 \in Levels(ls)
           /\ \A j \in Levels(ls) : Side(ls, j) = IF j <= k THEN "conn" ELSE "timeout"
<1>1. k \in 1 .. Len(ls) /\ Len(ls) \in Nat /\ DOMAIN ls = 1 .. Len(ls)
  BY DEF ChainOK
<1>2. ASSUME NEW j \in Levels(ls)
      PROVE  (\E i \in 1 .. j - 1 : ls[i] = "timeout") <=> ~(j <= k)
  <2>1. j \in Nat /\ \A i \in 1 .. j - 1 : i \in DOMAIN ls
    BY <1>1 DEF Levels
  <2>2. \A i \in DOMAIN ls : ls[i] = "timeout" => i = k
    BY DEF ChainOK
  <2>3. ~(j <= k) => k \in 1 .. j - 1
    BY <1>1, <2>1
  <2> QED
    BY <1>1, <2>1, <2>2, <2>3
<1> QED
  BY <1>1, <1>2 DEF Side, Levels

\* Of two levels, the inner one is behind the Timeout when the outer one is.
LEMMA SidesAscend ==
    ASSUME NEW ls, ChainOK(ls), NEW j \in Levels(ls), NEW k \in Levels(ls), j <= k
    PROVE  /\ Side(ls, j) \in {"conn", "timeout"}
           /\ Side(ls, k) = "conn" => Side(ls, j) = "conn"
<1>1. j \in Nat /\ k \in Nat
  BY DEF Levels, ChainOK
<1>2. \A i \in 1 .. j - 1 : i \in 1 .. k - 1
  BY <1>1
<1> QED
  BY <1>2 DEF Side

\* The first layer runs in the connection's goroutine: no Timeout encloses it.
LEMMA FirstSide ==
    ASSUME NEW ls, ChainOK(ls)
    PROVE  1 \in Levels(ls) /\ Side(ls, 1) = "conn"
<1>1. Len(ls) \in Nat
  BY DEF ChainOK
<1> QED
  BY <1>1 DEF Side, Levels

-----------------------------------------------------------------------------
(* Moves of goroutines *)

\* One goroutine moves.
Moved(pl, pl2, g, p) == pl2 = [pl EXCEPT ![g] = p]

\* What two states of the goroutines have in common: whatever level is live in
\* the second, but level n of request q, was live in the first, and the logs
\* that hold a writer there held one before.
KeepsLevels(ls, pl, pl2, q, n) ==
    \A r \in Requests : \A k \in Levels(ls) :
        /\ Live(ls, pl2, r, k) /\ ~(r = q /\ k = n) => Live(ls, pl, r, k)
        /\ Held(ls, pl2, r, k) /\ ~(r = q /\ k = n) => Held(ls, pl, r, k)

\* Level n of request q is new, and the innermost one of its goroutine.
NewLevel(ls, pl, q, n) ==
    /\ n \in Levels(ls) /\ Live(ls, pl, q, n) /\ ~Settled(ls, pl, q, n)
    /\ n \in DOMAIN ls /\ ls[n] # "timeout" => ~Live(ls, pl, q, n + 1)

\* Routines and levels
LEMMA Routing ==
    ASSUME NEW ls, ChainOK(ls), NEW r \in Requests, NEW k \in Levels(ls)
    PROVE  Routine(ls, r, k) \in Routines /\ k \in Nat /\ k >= 1
BY SidesAscend DEF Routine, Routines, Levels, ChainOK

\* A goroutine that is somewhere has its levels.
LEMMA Places ==
    ASSUME NEW ls, ChainOK(ls), NEW pl, RoutinesOK(ls, pl), NEW g \in Routines
    PROVE  /\ pl[g] = At(pl[g].at, pl[g].going) /\ pl[g].at \in Nat /\ pl[g].going \in Goings
           /\ RoutineOK(ls, g, pl[g])
           /\ g[1] \in Requests /\ g[2] \in {"conn", "timeout"} /\ g = <<g[1], g[2]>>
BY DEF RoutinesOK, IsPlaces, Routines, At

\* The levels of a goroutine that has not been there or ended are live up to its
\* top, and the level above is not another one's unless a Timeout is between.
LEMMA OwnLevels ==
    ASSUME NEW ls, ChainOK(ls), NEW pl, RoutinesOK(ls, pl), NEW g \in Routines,
           pl[g].going # "absent"
    PROVE  /\ Top(pl[g]) \in Levels(ls)
           /\ Routine(ls, g[1], Top(pl[g])) = g
           /\ Live(ls, pl, g[1], Top(pl[g]))
<1>1. /\ pl[g].at \in Nat /\ RoutineOK(ls, g, pl[g]) /\ pl[g].going \in Goings
      /\ g = <<g[1], g[2]>>
  BY Places
<1>2. Top(pl[g]) \in Levels(ls)
  <2>1. Len(ls) \in Nat
    BY DEF ChainOK
  <2> QED
    BY <1>1, <2>1 DEF Top, RoutineOK, Levels, Goings, Going
<1>3. Routine(ls, g[1], Top(pl[g])) = g
  BY <1>1 DEF Routine, RoutineOK
<1>4. Top(pl[g]) <= Top(pl[g])
  BY <1>2 DEF Levels
<1> QED
  BY <1>2, <1>3, <1>4 DEF Live

\* A call of next enters the level behind a layer that is no Timeout.
LEMMA CallMoves ==
    ASSUME NEW ls, ChainOK(ls), NEW pl, RoutinesOK(ls, pl), NEW g \in Routines,
           pl[g].going = "in", pl[g].at \in DOMAIN ls, ls[pl[g].at] # "timeout",
           NEW pl2, Moved(pl, pl2, g, At(pl[g].at + 1, "in"))
    PROVE  /\ RoutinesOK(ls, pl2)
           /\ KeepsLevels(ls, pl, pl2, g[1], pl[g].at + 1)
           /\ NewLevel(ls, pl2, g[1], pl[g].at + 1)
           /\ Live(ls, pl, g[1], pl[g].at) /\ Routine(ls, g[1], pl[g].at) = g
<1> DEFINE k == pl[g].at
<1>1. /\ pl[g].at \in Nat /\ RoutineOK(ls, g, pl[g]) /\ IsPlaces(pl)
      /\ g = <<g[1], g[2]>> /\ g[1] \in Requests
  BY Places DEF RoutinesOK
<1>2. /\ k \in 1 .. Len(ls) /\ k \in Levels(ls) /\ k + 1 \in Levels(ls)
      /\ Side(ls, k + 1) = Side(ls, k) /\ Len(ls) \in Nat
  BY SameSide DEF ChainOK
<1>3. Side(ls, k) = g[2]
  BY <1>1 DEF RoutineOK, Top
<1>4. /\ IsPlaces(pl2)
      /\ pl2[g] = At(k + 1, "in") /\ \A h \in Routines : h # g => pl2[h] = pl[h]
  BY <1>1, <1>2 DEF IsPlaces, At, Goings, Moved
<1>5. RoutineOK(ls, g, pl2[g])
  BY <1>1, <1>2, <1>3, <1>4 DEF RoutineOK, Top, At, Levels, Going
<1>6. RoutinesOK(ls, pl2)
  BY <1>4, <1>5 DEF RoutinesOK
<1>7. ASSUME NEW r \in Requests, NEW j \in Levels(ls), ~(r = g[1] /\ j = k + 1)
      PROVE  /\ Live(ls, pl2, r, j) => Live(ls, pl, r, j)
             /\ Settled(ls, pl, r, j) => Settled(ls, pl2, r, j)
  <2>1. Routine(ls, r, j) \in Routines /\ j \in Nat
    BY Routing
  <2>2. CASE Routine(ls, r, j) # g
    BY <1>4, <2>1, <2>2 DEF Live, Settled
  <2>3. CASE Routine(ls, r, j) = g
    <3>1. r = g[1] /\ j # k + 1
      BY <1>1, <1>7, <2>3 DEF Routine
    <3> QED
      BY <1>2, <1>4, <2>1, <2>3, <3>1 DEF Live, Settled, Top, At
  <2> QED
    BY <2>2, <2>3
<1>8. KeepsLevels(ls, pl, pl2, g[1], k + 1)
  BY <1>7 DEF KeepsLevels, Held, Made
<1>9. Routine(ls, g[1], k) = g /\ Routine(ls, g[1], k + 1) = g
  BY <1>1, <1>2, <1>3 DEF Routine
<1>10. NewLevel(ls, pl2, g[1], k + 1)
  <2>1. Live(ls, pl2, g[1], k + 1) /\ ~Settled(ls, pl2, g[1], k + 1)
    BY <1>2, <1>4, <1>9 DEF Live, Settled, Top, At
  <2>2. ASSUME k + 1 \in DOMAIN ls, ls[k + 1] # "timeout"
        PROVE  ~Live(ls, pl2, g[1], (k + 1) + 1)
    <3>1. Routine(ls, g[1], (k + 1) + 1) = g
      BY <1>9, <2>2, SameSide DEF Routine
    <3> QED
      BY <1>2, <1>4, <3>1 DEF Live, Top, At
  <2> QED
    BY <1>2, <2>1, <2>2 DEF NewLevel
<1>11. Live(ls, pl, g[1], k)
  BY <1>2, <1>9 DEF Live, Top
<1> QED
  BY <1>6, <1>8, <1>9, <1>10, <1>11

\* Level n of request q is not live, unless it is that of a Timeout.
Drops(ls, pl, q, n) ==
    \A k \in Levels(ls) : Live(ls, pl, q, k) => k # n \/ ls[k - 1] = "timeout"

\* Leaving a layer makes no level live.
LEMMA LeaveMoves ==
    ASSUME NEW ls, ChainOK(ls), NEW pl, RoutinesOK(ls, pl), NEW g \in Routines,
           pl[g].going \in Going \cup {"in", "wait"}, pl[g].at # 0,
           pl[g].at \in DOMAIN ls /\ ls[pl[g].at] = "timeout" => g[2] = "conn",
           NEW how \in {"out", "up"},
           NEW pl2, Moved(pl, pl2, g, At(pl[g].at - 1, how))
    PROVE  /\ RoutinesOK(ls, pl2)
           /\ KeepsLevels(ls, pl, pl2, g[1], 0)
           /\ Drops(ls, pl2, g[1], pl[g].at + 1)
<1> DEFINE k == pl[g].at
<1>1. /\ k \in Nat /\ RoutineOK(ls, g, pl[g]) /\ IsPlaces(pl)
      /\ g = <<g[1], g[2]>> /\ g[1] \in Requests /\ g[2] \in {"conn", "timeout"}
  BY Places DEF RoutinesOK
<1>2. Len(ls) \in Nat /\ DOMAIN ls = 1 .. Len(ls) /\ k \in Levels(ls)
      /\ (k \notin DOMAIN ls => k = Len(ls) + 1)
  BY <1>1 DEF ChainOK, RoutineOK, Levels
<1>3. Side(ls, k) = g[2]
  <2>1. CASE pl[g].going \in {"in", "wait"}
    BY <1>1, <2>1 DEF RoutineOK, Top
  <2>2. CASE pl[g].going \in Going
    <3>1. Side(ls, k + 1) = g[2] /\ k \in DOMAIN ls
      BY <1>1, <1>2, <2>2 DEF RoutineOK, Top, Going
    <3>2. CASE ls[k] # "timeout"
      BY <3>1, <3>2, SameSide
    <3>3. CASE ls[k] = "timeout"
      BY <1>1, <1>2, <3>1, <3>3, TimeoutSides
    <3> QED
      BY <3>2, <3>3
  <2> QED
    BY <2>1, <2>2
<1>4. /\ IsPlaces(pl2)
      /\ pl2[g] = At(k - 1, how) /\ \A h \in Routines : h # g => pl2[h] = pl[h]
  BY <1>1, <1>2 DEF IsPlaces, At, Goings, Going, Moved
<1>5. k - 1 \in 0 .. Len(ls) /\ (k - 1) + 1 = k
  BY <1>2 DEF Levels
<1>6. RoutineOK(ls, g, pl2[g])
  BY <1>3, <1>4, <1>5 DEF RoutineOK, Top, At, Going
<1>7. RoutinesOK(ls, pl2)
  BY <1>4, <1>6 DEF RoutinesOK
<1>8. Routine(ls, g[1], k) = g
  BY <1>1, <1>3 DEF Routine
<1>9. ASSUME NEW r \in Requests, NEW j \in Levels(ls), Live(ls, pl2, r, j)
      PROVE  /\ Live(ls, pl, r, j)
             /\ Settled(ls, pl, r, j) => Settled(ls, pl2, r, j)
             /\ Routine(ls, r, j) = g => j <= k
  <2>1. Routine(ls, r, j) \in Routines /\ j \in Nat /\ j >= 1
    BY Routing
  <2>2. CASE Routine(ls, r, j) # g
    BY <1>4, <1>9, <2>1, <2>2 DEF Live, Settled
  <2>3. CASE Routine(ls, r, j) = g
    <3>1. j <= k
      BY <1>4, <1>5, <1>9, <2>3 DEF Live, Top, At
    <3>2. j <= Top(pl[g])
      BY <1>1, <2>1, <3>1 DEF Top, Going
    <3>3. k # j - 1
      BY <1>1, <2>1, <3>1
    <3> QED
      BY <2>3, <3>1, <3>2, <3>3 DEF Live, Settled
  <2> QED
    BY <2>2, <2>3
<1>10. KeepsLevels(ls, pl, pl2, g[1], 0)
  BY <1>9 DEF KeepsLevels, Held, Made
<1>11. ASSUME NEW j \in Levels(ls), Live(ls, pl2, g[1], j), j = k + 1, ls[j - 1] # "timeout"
       PROVE  FALSE
  <2>1. k \in DOMAIN ls /\ j - 1 = k
    BY <1>1, <1>2, <1>11 DEF Levels
  <2>2. Routine(ls, g[1], j) = g
    BY <1>8, <1>11, <2>1, SameSide DEF Routine
  <2> QED
    BY <1>1, <1>9, <1>11, <2>2
<1> QED
  BY <1>7, <1>10, <1>11 DEF Drops

\* A request arrives.
LEMMA ArriveMoves ==
    ASSUME NEW ls, ChainOK(ls), NEW pl, RoutinesOK(ls, pl), NEW r \in Requests,
           pl[<<r, "conn">>] = At(0, "absent"),
           NEW pl2, Moved(pl, pl2, <<r, "conn">>, At(1, "in"))
    PROVE  /\ RoutinesOK(ls, pl2)
           /\ KeepsLevels(ls, pl, pl2, r, 1)
           /\ NewLevel(ls, pl2, r, 1)
<1> DEFINE g == <<r, "conn">>
<1>1. g \in Routines /\ IsPlaces(pl) /\ g[2] = "conn"
  BY DEF Routines, RoutinesOK
<1>2. /\ 1 \in Levels(ls) /\ Side(ls, 1) = "conn" /\ Routine(ls, r, 1) = g
      /\ Len(ls) \in Nat /\ DOMAIN ls = 1 .. Len(ls)
  BY FirstSide DEF Routine, ChainOK
<1> HIDE DEF g
<1>3. /\ IsPlaces(pl2)
      /\ pl2[g] = At(1, "in") /\ \A h \in Routines : h # g => pl2[h] = pl[h]
  BY <1>1 DEF IsPlaces, At, Goings, g, Moved
<1>4. RoutineOK(ls, g, pl2[g])
  BY <1>1, <1>2, <1>3 DEF RoutineOK, Top, At, Going
<1>5. RoutinesOK(ls, pl2)
  BY <1>3, <1>4 DEF RoutinesOK
<1>6. ASSUME NEW q \in Requests, NEW j \in Levels(ls), ~(q = r /\ j = 1)
      PROVE  /\ Live(ls, pl2, q, j) => Live(ls, pl, q, j)
             /\ Settled(ls, pl, q, j) => Settled(ls, pl2, q, j)
  <2>1. Routine(ls, q, j) \in Routines /\ j \in Nat /\ j >= 1
    BY Routing
  <2>2. CASE Routine(ls, q, j) # g
    BY <1>3, <2>1, <2>2 DEF Live, Settled
  <2>3. CASE Routine(ls, q, j) = g
    <3>1. j # 1
      BY <1>6, <2>3 DEF Routine, g
    <3>2. ~Live(ls, pl2, q, j)
      BY <1>3, <2>1, <2>3, <3>1 DEF Live, Top, At
    <3>3. ~Settled(ls, pl, q, j)
      BY <1>3, <2>1, <2>3 DEF Settled, At, g
    <3> QED
      BY <3>2, <3>3
  <2> QED
    BY <2>2, <2>3
<1>7. KeepsLevels(ls, pl, pl2, r, 1)
  BY <1>6 DEF KeepsLevels, Held, Made
<1>8. Live(ls, pl2, r, 1) /\ ~Settled(ls, pl2, r, 1)
  BY <1>2, <1>3 DEF Live, Settled, Top, At
<1>9. ASSUME 1 \in DOMAIN ls, ls[1] # "timeout" PROVE ~Live(ls, pl2, r, 1 + 1)
  <2>1. Routine(ls, r, 1 + 1) = g
    BY <1>2, <1>9, SameSide DEF Routine
  <2> QED
    BY <1>3, <2>1 DEF Live, Top, At
<1>10. NewLevel(ls, pl2, r, 1)
  BY <1>2, <1>8, <1>9 DEF NewLevel
<1> QED
  BY <1>5, <1>7, <1>10

\* A goroutine starts another one and waits for it.
Starts(pl, pl2, g) ==
    pl2 = [pl EXCEPT ![g].going = "wait", ![Runner(g)] = At(pl[g].at + 1, "in")]

Started(pl, pl2, g) ==
    /\ g[2] = "conn" /\ g # Runner(g) /\ Runner(g) \in Routines
    /\ pl2[g] = At(pl[g].at, "wait") /\ pl2[Runner(g)] = At(pl[g].at + 1, "in")
    /\ \A h \in Routines : h \notin {g, Runner(g)} => pl2[h] = pl[h]

\* A Timeout starts its goroutine.
LEMMA TimeoutMoves ==
    ASSUME NEW ls, ChainOK(ls), NEW pl, RoutinesOK(ls, pl), NEW g \in Routines,
           pl[g].going = "in", pl[g].at \in DOMAIN ls, ls[pl[g].at] = "timeout",
           pl[Runner(g)].going = "absent" \/ g[2] # "conn",
           NEW pl2, Starts(pl, pl2, g)
    PROVE  /\ RoutinesOK(ls, pl2)
           /\ KeepsLevels(ls, pl, pl2, g[1], pl[g].at + 1)
           /\ NewLevel(ls, pl2, g[1], pl[g].at + 1)
           /\ Started(pl, pl2, g)
<1> DEFINE k == pl[g].at
           c == Runner(g)
<1>1. /\ pl[g].at \in Nat /\ RoutineOK(ls, g, pl[g]) /\ IsPlaces(pl)
      /\ g = <<g[1], g[2]>> /\ g[1] \in Requests
  BY Places DEF RoutinesOK
<1>2. /\ k \in 1 .. Len(ls) /\ k \in Levels(ls) /\ k + 1 \in Levels(ls)
      /\ \A j \in Levels(ls) : Side(ls, j) = IF j <= k THEN "conn" ELSE "timeout"
      /\ Len(ls) \in Nat /\ DOMAIN ls = 1 .. Len(ls)
  BY TimeoutSides DEF ChainOK
<1>3. Side(ls, k) = g[2] /\ Side(ls, k) = "conn" /\ Side(ls, k + 1) = "timeout"
  BY <1>1, <1>2 DEF RoutineOK, Top
<1>4. g = <<g[1], "conn">> /\ c = <<g[1], "timeout">> /\ c # g /\ c \in Routines /\ c[1] = g[1]
      /\ c[2] = "timeout" /\ pl[c].going = "absent"
  BY <1>1, <1>3 DEF Runner, Routines
<1>5. /\ IsPlaces(pl2)
      /\ pl2[g] = At(k, "wait") /\ pl2[c] = At(k + 1, "in")
      /\ \A h \in Routines : h # g /\ h # c => pl2[h] = pl[h]
  <2> DEFINE p1 == [pl EXCEPT ![g].going = "wait"]
  <2>1. IsPlaces(p1)
        /\ p1[g] = At(k, "wait") /\ \A h \in Routines : h # g => p1[h] = pl[h]
    BY <1>1 DEF IsPlaces, At, Goings
  <2>2. pl2 = [p1 EXCEPT ![c] = At(k + 1, "in")]
    BY DEF Starts
  <2>3. At(k + 1, "in") \in [at : Nat, going : Goings]
    BY <1>2 DEF IsPlaces, At, Goings
  <2> HIDE DEF p1, c, k
  <2> QED
    BY <1>4, <2>1, <2>2, <2>3 DEF IsPlaces
<1> HIDE DEF c
<1>6. RoutineOK(ls, g, pl2[g])
  BY <1>2, <1>3, <1>5 DEF RoutineOK, Top, At, Going
<1>7. RoutineOK(ls, c, pl2[c])
  BY <1>2, <1>3, <1>4, <1>5 DEF RoutineOK, Top, At, Going
<1>8. RoutinesOK(ls, pl2)
  BY <1>5, <1>6, <1>7 DEF RoutinesOK
<1>9. ASSUME NEW q \in Requests, NEW j \in Levels(ls), ~(q = g[1] /\ j = k + 1)
      PROVE  /\ Live(ls, pl2, q, j) => Live(ls, pl, q, j)
             /\ Settled(ls, pl, q, j) => Settled(ls, pl2, q, j)
  <2>1. Routine(ls, q, j) \in Routines /\ j \in Nat /\ j >= 1
    BY Routing
  <2>2. CASE Routine(ls, q, j) # g /\ Routine(ls, q, j) # c
    BY <1>5, <2>1, <2>2 DEF Live, Settled
  <2>3. CASE Routine(ls, q, j) = g
    BY <1>5, <2>1, <2>3 DEF Live, Settled, Top, At
  <2>4. CASE Routine(ls, q, j) = c
    <3>1. q = g[1] /\ Side(ls, j) = "timeout" /\ j # k + 1
      BY <1>4, <1>9, <2>4 DEF Routine
    <3>2. j > k + 1
      BY <1>2, <2>1, <3>1
    <3>3. ~Live(ls, pl2, q, j)
      BY <1>2, <1>5, <2>1, <2>4, <3>2 DEF Live, Top, At
    <3>4. ~Settled(ls, pl, q, j)
      BY <1>4, <2>4 DEF Settled
    <3> QED
      BY <3>3, <3>4
  <2> QED
    BY <2>2, <2>3, <2>4
<1>10. KeepsLevels(ls, pl, pl2, g[1], k + 1)
  BY <1>9 DEF KeepsLevels, Held, Made
<1>11. Routine(ls, g[1], k + 1) = c
  BY <1>3, <1>4 DEF Routine
<1>12. NewLevel(ls, pl2, g[1], k + 1)
  <2>1. Live(ls, pl2, g[1], k + 1) /\ ~Settled(ls, pl2, g[1], k + 1)
    BY <1>2, <1>5, <1>11 DEF Live, Settled, Top, At
  <2>2. ASSUME k + 1 \in DOMAIN ls, ls[k + 1] # "timeout"
        PROVE  ~Live(ls, pl2, g[1], (k + 1) + 1)
    <3>1. Routine(ls, g[1], (k + 1) + 1) = c
      BY <1>11, <2>2, SameSide DEF Routine
    <3> QED
      BY <1>2, <1>5, <3>1 DEF Live, Top, At
  <2> QED
    BY <1>2, <2>1, <2>2 DEF NewLevel
<1> QED
  BY <1>3, <1>4, <1>5, <1>8, <1>10, <1>12 DEF c, Started

\* A request ends, or a Logger has formatted its line: nobody moves.
LEMMA StayMoves ==
    ASSUME NEW ls, ChainOK(ls), NEW pl, RoutinesOK(ls, pl), NEW g \in Routines,
           NEW to \in Goings,
           \/ pl[g].at = 0 /\ pl[g].going \in Going /\ to \in {"done", "aborted"} /\ g[2] = "conn"
           \/ /\ pl[g].at \in DOMAIN ls /\ ls[pl[g].at] = "line" /\ pl[g].going \in {"out", "up"}
              /\ to \in {"logOut", "logUp"},
           NEW pl2, Moved(pl, pl2, g, At(pl[g].at, to))
    PROVE  /\ RoutinesOK(ls, pl2)
           /\ KeepsLevels(ls, pl, pl2, g[1], 0)
           /\ to \in {"logOut", "logUp"} => ~Held(ls, pl2, g[1], pl[g].at + 1)
<1> DEFINE k == pl[g].at
<1>1. /\ k \in Nat /\ RoutineOK(ls, g, pl[g]) /\ IsPlaces(pl)
      /\ g = <<g[1], g[2]>> /\ g[1] \in Requests
  BY Places DEF RoutinesOK
<1>2. /\ IsPlaces(pl2)
      /\ pl2[g] = At(k, to) /\ \A h \in Routines : h # g => pl2[h] = pl[h]
  BY <1>1 DEF IsPlaces, At, Moved
<1>3. Top(pl2[g]) = Top(pl[g]) /\ pl[g].going \in Going
  BY <1>2 DEF Top, At, Going
<1>4. RoutineOK(ls, g, pl2[g])
  BY <1>1, <1>2, <1>3 DEF RoutineOK, At, Going
<1>5. RoutinesOK(ls, pl2)
  BY <1>2, <1>4 DEF RoutinesOK
<1>6. ASSUME NEW q \in Requests, NEW j \in Levels(ls)
      PROVE  /\ Live(ls, pl2, q, j) => Live(ls, pl, q, j)
             /\ Settled(ls, pl, q, j) => Settled(ls, pl2, q, j)
  <2>1. Routine(ls, q, j) \in Routines /\ j \in Nat /\ j >= 1
    BY Routing
  <2>2. CASE Routine(ls, q, j) # g
    BY <1>2, <2>1, <2>2 DEF Live, Settled
  <2>3. CASE Routine(ls, q, j) = g
    <3>1. ~Settled(ls, pl, q, j)
      BY <1>1, <2>3 DEF Settled, RoutineOK
    <3> QED
      BY <1>3, <2>3, <3>1 DEF Live
  <2> QED
    BY <2>2, <2>3
<1>7. KeepsLevels(ls, pl, pl2, g[1], 0)
  BY <1>6 DEF KeepsLevels, Held, Made
<1>8. ASSUME to \in {"logOut", "logUp"} PROVE ~Held(ls, pl2, g[1], k + 1)
  <2>1. k \in DOMAIN ls /\ ls[k] # "timeout" /\ Top(pl[g]) = k + 1
    BY <1>3, <1>8 DEF Top, Going
  <2>2. Side(ls, k + 1) = g[2]
    BY <1>1, <1>3, <2>1 DEF RoutineOK, Going
  <2>3. Routine(ls, g[1], k + 1) = g
    BY <1>1, <2>2 DEF Routine
  <2>4. Settled(ls, pl2, g[1], k + 1)
    BY <1>1, <1>2, <1>8, <2>3 DEF Settled, At
  <2> QED
    BY <2>4 DEF Held
<1> QED
  BY <1>5, <1>7, <1>8

\* Only an arrival brings a goroutine in, and only a Timeout starts another.
LEMMA PairKept ==
    ASSUME NEW pl, IsPlaces(pl), NEW sent, NEW g \in Routines, NEW p,
           pl[g].going # "absent", p.going # "absent", p.going = "in" => pl[g].going = "in",
           NEW pl2, Moved(pl, pl2, g, p),
           NEW r \in Requests, PairOK(pl, sent, r)
    PROVE  PairOK(pl2, sent, r)
<1>1. <<r, "conn">> \in Routines /\ <<r, "timeout">> \in Routines
      /\ <<r, "conn">> # <<r, "timeout">>
  BY DEF Routines
<1>2. \A h \in Routines : pl2[h] = IF h = g THEN p ELSE pl[h]
  BY DEF Moved, IsPlaces
<1>3. CASE g = <<r, "conn">>
  BY <1>1, <1>2, <1>3 DEF PairOK
<1>4. CASE g = <<r, "timeout">>
  BY <1>1, <1>2, <1>4 DEF PairOK
<1>5. CASE g # <<r, "conn">> /\ g # <<r, "timeout">>
  BY <1>1, <1>2, <1>5 DEF PairOK
<1> QED
  BY <1>3, <1>4, <1>5

-----------------------------------------------------------------------------
(* Writers and pooled objects *)

Writers == {NoWriter} \cup {Conn(r) : r \in Requests} \cup {Buffer(r) : r \in Requests}
                      \cup {StatusOf(o) : o \in Objects} \cup {ParamOf(o) : o \in Objects}

IsWriters(ls, wr) == wr \in [Requests -> [Levels(ls) -> Writers]]

\* What a level is called with, given what the level before it was called with
LinkOK(ls, pl, wr, r, k) ==
    /\ k = 1 /\ Live(ls, pl, r, k) => wr[r][k] = Conn(r)
    /\ Made(ls, pl, r, k, {"timeout"}) => wr[r][k] = Buffer(r)
    /\ Made(ls, pl, r, k, Passing) => wr[r][k] = wr[r][k - 1]

\* A log calls with a statusWriter that it holds until it has read it.
StatusOK(ls, pl, wr, sw, free, r, k) ==
    /\ Made(ls, pl, r, k, Logs) => wr[r][k][2] \in Objects /\ wr[r][k] = StatusOf(wr[r][k][2])
    /\ Held(ls, pl, r, k) => wr[r][k][2] \notin free /\ sw[wr[r][k][2]].under = wr[r][k - 1]

\* The router calls with a paramRW that lists the values it has found.
ParamOK(ls, pl, wr, pw, tk, free, r, k) ==
    Made(ls, pl, r, k, {"router"}) =>
        /\ wr[r][k][2] \in Objects \ free
        /\ wr[r][k] = ParamOf(wr[r][k][2])
        /\ pw[wr[r][k][2]] = [under |-> wr[r][k - 1], params |-> tk[r]]
        /\ tk[r] # Nobody

\* No two logs hold one statusWriter.
OwnStatus(ls, pl, wr) ==
    \A r, q \in Requests : \A j, k \in Levels(ls) :
        Held(ls, pl, r, j) /\ Held(ls, pl, q, k) /\ wr[r][j] = wr[q][k] => r = q /\ j = k

\* No two requests have one parameter list, and each lists its request's values.
OwnParams(tk, free, ps) ==
    /\ \A r \in Requests : tk[r] # Nobody => tk[r] \notin free /\ ps[tk[r]] = <<r>>
    /\ \A r, q \in Requests : tk[r] = tk[q] /\ tk[r] # Nobody => r = q

\* A level's writer is the one it had, if the level was there.
SameWriters(ls, pl2, wr, wr2, q, n) ==
    \A r \in Requests : \A k \in Levels(ls) :
        Live(ls, pl2, r, k) /\ ~(r = q /\ k = n) => wr2[r][k] = wr[r][k]

\* The level before a live one behind a layer that is no Timeout is live too,
\* and is not new.
LEMMA BelowLive ==
    ASSUME NEW ls, ChainOK(ls), NEW pl, NEW r \in Requests, NEW k \in Levels(ls),
           Live(ls, pl, r, k), k > 1, ls[k - 1] # "timeout",
           IsPlaces(pl),
           NEW q, NEW n, n = 0 \/ NewLevel(ls, pl, q, n)
    PROVE  /\ k - 1 \in Levels(ls) /\ k - 1 \in DOMAIN ls /\ k \in Nat
           /\ Routine(ls, r, k - 1) = Routine(ls, r, k)
           /\ Live(ls, pl, r, k - 1)
           /\ ~(r = q /\ k - 1 = n)
<1>1. k \in Nat /\ k - 1 \in DOMAIN ls /\ (k - 1) + 1 = k
  BY DEF Levels, ChainOK
<1>2. k - 1 \in Levels(ls) /\ Side(ls, k - 1) = Side(ls, k)
  BY <1>1, SameSide
<1>3. Routine(ls, r, k - 1) = Routine(ls, r, k) /\ Routine(ls, r, k) \in Routines
  BY <1>2, Routing DEF Routine
<1>4. Top(pl[Routine(ls, r, k)]) \in Nat
  BY <1>3 DEF Top, IsPlaces
<1>5. Live(ls, pl, r, k - 1)
  BY <1>1, <1>3, <1>4 DEF Live
<1>6. ASSUME r = q, k - 1 = n PROVE FALSE
  BY <1>1, <1>6 DEF NewLevel
<1> QED
  BY <1>1, <1>2, <1>3, <1>5, <1>6

\* Links that stay
LEMMA LinkKept ==
    ASSUME NEW ls, ChainOK(ls), NEW pl, NEW pl2, IsPlaces(pl2),
           NEW wr, NEW wr2, NEW q, NEW n, n = 0 \/ NewLevel(ls, pl2, q, n),
           KeepsLevels(ls, pl, pl2, q, n), SameWriters(ls, pl2, wr, wr2, q, n),
           NEW r \in Requests, NEW k \in Levels(ls), ~(r = q /\ k = n), LinkOK(ls, pl, wr, r, k)
    PROVE  LinkOK(ls, pl2, wr2, r, k)
<1>1. CASE ~Live(ls, pl2, r, k)
  BY <1>1 DEF LinkOK, Made
<1>2. CASE Live(ls, pl2, r, k)
  <2>1. Live(ls, pl, r, k) /\ wr2[r][k] = wr[r][k]
    BY <1>2 DEF KeepsLevels, SameWriters
  <2>2. k > 1 /\ ls[k - 1] # "timeout" => wr2[r][k - 1] = wr[r][k - 1]
    <3>1. k > 1 /\ ls[k - 1] # "timeout" =>
            k - 1 \in Levels(ls) /\ Live(ls, pl2, r, k - 1) /\ ~(r = q /\ k - 1 = n)
      BY <1>2, BelowLive
    <3> QED
      BY <3>1 DEF SameWriters
  <2> QED
    BY <2>1, <2>2 DEF LinkOK, Made, Passing
<1> QED
  BY <1>1, <1>2

\* A statusWriter in use stays its level's own when another level takes or returns one.
LEMMA StatusKept ==
    ASSUME NEW ls, ChainOK(ls), NEW pl, NEW pl2, IsPlaces(pl2),
           NEW wr, NEW wr2, NEW q, NEW n, n = 0 \/ NewLevel(ls, pl2, q, n),
           KeepsLevels(ls, pl, pl2, q, n), SameWriters(ls, pl2, wr, wr2, q, n),
           NEW sw, NEW sw2, NEW free, NEW free2,
           NEW r \in Requests, NEW k \in Levels(ls), ~(r = q /\ k = n),
           StatusOK(ls, pl, wr, sw, free, r, k),
           Held(ls, pl2, r, k) => /\ wr[r][k][2] \notin free2
                                  /\ sw2[wr[r][k][2]].under = sw[wr[r][k][2]].under
    PROVE  StatusOK(ls, pl2, wr2, sw2, free2, r, k)
<1>1. CASE ~Live(ls, pl2, r, k)
  BY <1>1 DEF StatusOK, Held, Made
<1>2. CASE Live(ls, pl2, r, k)
  <2>1. Live(ls, pl, r, k) /\ wr2[r][k] = wr[r][k] /\ (Held(ls, pl2, r, k) => Held(ls, pl, r, k))
    BY <1>2 DEF KeepsLevels, SameWriters
  <2>2. k > 1 /\ ls[k - 1] # "timeout" => wr2[r][k - 1] = wr[r][k - 1]
    <3>1. k > 1 /\ ls[k - 1] # "timeout" =>
            k - 1 \in Levels(ls) /\ Live(ls, pl2, r, k - 1) /\ ~(r = q /\ k - 1 = n)
      BY <1>2, BelowLive
    <3> QED
      BY <3>1 DEF SameWriters
  <2>3. Made(ls, pl2, r, k, Logs) => Made(ls, pl, r, k, Logs)
    BY <2>1 DEF Made
  <2>4. Held(ls, pl2, r, k) => Held(ls, pl, r, k) /\ k > 1 /\ ls[k - 1] # "timeout"
    BY <2>1 DEF Held, Made, Logs
  <2> QED
    BY <2>1, <2>2, <2>3, <2>4 DEF StatusOK
<1> QED
  BY <1>1, <1>2

\* So does a paramResponseWriter, with the values the router put into it.
LEMMA ParamKept ==
    ASSUME NEW ls, ChainOK(ls), NEW pl, NEW pl2, IsPlaces(pl2),
           NEW wr, NEW wr2, NEW q, NEW n, n = 0 \/ NewLevel(ls, pl2, q, n),
           KeepsLevels(ls, pl, pl2, q, n), SameWriters(ls, pl2, wr, wr2, q, n),
           NEW pw, NEW pw2, NEW tk, NEW tk2, NEW free, NEW free2,
           NEW r \in Requests, NEW k \in Levels(ls), ~(r = q /\ k = n),
           ParamOK(ls, pl, wr, pw, tk, free, r, k),
           Made(ls, pl2, r, k, {"router"}) => /\ wr[r][k][2] \notin free2
                                              /\ pw2[wr[r][k][2]] = pw[wr[r][k][2]]
                                              /\ tk2[r] = tk[r]
    PROVE  ParamOK(ls, pl2, wr2, pw2, tk2, free2, r, k)
<1>1. CASE ~Live(ls, pl2, r, k)
  BY <1>1 DEF ParamOK, Made
<1>2. CASE Live(ls, pl2, r, k)
  <2>1. Live(ls, pl, r, k) /\ wr2[r][k] = wr[r][k]
    BY <1>2 DEF KeepsLevels, SameWriters
  <2>2. k > 1 /\ ls[k - 1] # "timeout" => wr2[r][k - 1] = wr[r][k - 1]
    <3>1. k > 1 /\ ls[k - 1] # "timeout" =>
            k - 1 \in Levels(ls) /\ Live(ls, pl2, r, k - 1) /\ ~(r = q /\ k - 1 = n)
      BY <1>2, BelowLive
    <3> QED
      BY <3>1 DEF SameWriters
  <2>3. Made(ls, pl2, r, k, {"router"}) =>
          Made(ls, pl, r, k, {"router"}) /\ k > 1 /\ ls[k - 1] # "timeout"
    BY <2>1 DEF Made
  <2> QED
    BY <2>1, <2>2, <2>3 DEF ParamOK
<1> QED
  BY <1>1, <1>2

\* No two levels come to share a statusWriter when none is taken.
LEMMA OwnStatusKept ==
    ASSUME NEW ls, NEW pl, NEW pl2, NEW wr, NEW wr2, NEW q, NEW n,
           KeepsLevels(ls, pl, pl2, q, n), SameWriters(ls, pl2, wr, wr2, q, n),
           OwnStatus(ls, pl, wr), ~Held(ls, pl2, q, n)
    PROVE  OwnStatus(ls, pl2, wr2)
<1>1. ASSUME NEW r \in Requests, NEW k \in Levels(ls), Held(ls, pl2, r, k)
      PROVE  Held(ls, pl, r, k) /\ wr2[r][k] = wr[r][k]
  <2>1. Live(ls, pl2, r, k) /\ ~(r = q /\ k = n)
    BY <1>1 DEF Held, Made
  <2> QED
    BY <1>1, <2>1 DEF KeepsLevels, SameWriters
<1> QED
  BY <1>1 DEF OwnStatus

\* The first part of the inductive invariant
TypeOK ==
    /\ setup \in Setups
    /\ IsWriters(Layers, writer)
    /\ statusWriters \in [Objects -> [under : Writers, status : Nat]]
    /\ paramWriters \in [Objects -> [under : Writers, params : Objects \cup {Nobody}]]
    /\ params \in [Objects -> Seq(Requests)]
    /\ taken \in [Requests -> Objects \cup {Nobody}]
    /\ freeStatus \subseteq Objects /\ freeWriters \subseteq Objects /\ freeParams \subseteq Objects

LevelOK(r, k) ==
    /\ LinkOK(Layers, place, writer, r, k)
    /\ StatusOK(Layers, place, writer, statusWriters, freeStatus, r, k)
    /\ ParamOK(Layers, place, writer, paramWriters, taken, freeWriters, r, k)

Structure ==
    /\ TypeOK
    /\ RoutinesOK(Layers, place)
    /\ \A r \in Requests : PairOK(place, setup.sent, r)
    /\ \A r \in Requests : \A k \in Levels(Layers) : LevelOK(r, k)
    /\ OwnStatus(Layers, place, writer)
    /\ OwnParams(taken, freeParams, params)

\* What user code that is called with a panic may do
Answers == [code : Nat, how : {"out", "up"}]

\* What the assumptions say of the setup
LEMMA SetupFacts ==
    ASSUME setup \in Setups
    PROVE  /\ ChainOK(Layers) /\ Len(Layers) \in Nat /\ DOMAIN Layers = 1 .. Len(Layers)
           /\ \A k \in DOMAIN Layers : Layers[k] \in LayerKinds
           /\ DOMAIN setup.sent \subseteq Requests
           /\ \A r \in DOMAIN setup.sent : /\ setup.sent[r].origin \in STRING \ {"*"}
                                           /\ setup.sent[r].hops \in Seq(STRING) \ {<<>>}
                                           /\ setup.sent[r].lines \in Seq(Seq(STRING))
           /\ setup.codes \subseteq Nat \ {0}
           /\ setup.Handler \subseteq Answers /\ setup.PanicHandler \subseteq Answers
           /\ setup.cors.AllowCredentials \in BOOLEAN
<1>1. Layers \in Seq(LayerKinds)
  BY SetupsAssumption DEF Layers
<1>2. ChainOK(Layers)
  BY <1>1, SetupsAssumption DEF ChainOK, Layers
<1> QED
  BY <1>1, <1>2, SetupsAssumption DEF Layers, Answers

\* The pools are left alone, and so is what the statusWriters wrap.
PoolsSame ==
    /\ UNCHANGED <<routerPools, freeStatus>>
    /\ statusWriters' \in [Objects -> [under : Writers, status : Nat]]
    /\ \A o \in Objects : statusWriters'[o].under = statusWriters[o].under

\* The objects that live levels use, but for level n of request q, are used on.
ObjectsKept(q, n) ==
    \A r \in Requests : \A k \in Levels(Layers) : ~(r = q /\ k = n) =>
        /\ Held(Layers, place', r, k) =>
              /\ writer[r][k][2] \notin freeStatus'
              /\ statusWriters'[writer[r][k][2]].under = statusWriters[writer[r][k][2]].under
        /\ Made(Layers, place', r, k, {"router"}) =>
              /\ writer[r][k][2] \notin freeWriters'
              /\ paramWriters'[writer[r][k][2]] = paramWriters[writer[r][k][2]]
              /\ taken'[r] = taken[r]

\* Steps that keep all levels but one, which is new
LEMMA StructureKept ==
    ASSUME Structure, setup' = setup, TypeOK', RoutinesOK(Layers, place'),
           \A r \in Requests : PairOK(place', setup.sent, r),
           NEW q, NEW n, n = 0 \/ NewLevel(Layers, place', q, n),
           KeepsLevels(Layers, place, place', q, n), SameWriters(Layers, place', writer, writer', q, n),
           ObjectsKept(q, n),
           OwnStatus(Layers, place', writer'), OwnParams(taken', freeParams', params'),
           q \in Requests /\ n \in Levels(Layers) =>
              /\ LinkOK(Layers, place', writer', q, n)
              /\ StatusOK(Layers, place', writer', statusWriters', freeStatus', q, n)
              /\ ParamOK(Layers, place', writer', paramWriters', taken', freeWriters', q, n)
    PROVE  Structure'
<1>1. Layers' = Layers /\ ChainOK(Layers)
  BY SetupFacts DEF Layers, Structure, TypeOK
<1>2. IsPlaces(place')
  BY DEF RoutinesOK
<1>3. ASSUME NEW r \in Requests, NEW k \in Levels(Layers), ~(r = q /\ k = n)
      PROVE  /\ LinkOK(Layers, place', writer', r, k)
             /\ StatusOK(Layers, place', writer', statusWriters', freeStatus', r, k)
             /\ ParamOK(Layers, place', writer', paramWriters', taken', freeWriters', r, k)
  <2>1. /\ LinkOK(Layers, place, writer, r, k)
        /\ StatusOK(Layers, place, writer, statusWriters, freeStatus, r, k)
        /\ ParamOK(Layers, place, writer, paramWriters, taken, freeWriters, r, k)
    BY DEF Structure, LevelOK
  <2>2. /\ Held(Layers, place', r, k) =>
              /\ writer[r][k][2] \notin freeStatus'
              /\ statusWriters'[writer[r][k][2]].under = statusWriters[writer[r][k][2]].under
        /\ Made(Layers, place', r, k, {"router"}) =>
              /\ writer[r][k][2] \notin freeWriters'
              /\ paramWriters'[writer[r][k][2]] = paramWriters[writer[r][k][2]]
              /\ taken'[r] = taken[r]
    BY <1>3 DEF ObjectsKept
  <2>3. LinkOK(Layers, place', writer', r, k)
    BY <1>1, <1>2, <1>3, <2>1, LinkKept
  <2>4. StatusOK(Layers, place', writer', statusWriters', freeStatus', r, k)
    BY <1>1, <1>2, <1>3, <2>1, <2>2, StatusKept
  <2>5. ParamOK(Layers, place', writer', paramWriters', taken', freeWriters', r, k)
    BY <1>1, <1>2, <1>3, <2>1, <2>2, ParamKept
  <2> QED
    BY <2>3, <2>4, <2>5
<1>4. \A r \in Requests : \A k \in Levels(Layers) : LevelOK(r, k)'
  BY <1>1, <1>3 DEF LevelOK
<1>5. setup'.sent = setup.sent
  OBVIOUS
<1> QED
  BY <1>1, <1>4, <1>5 DEF Structure

Called(wr, wr2, q, n, w) == wr2 = [wr EXCEPT ![q][n] = w]

Forgot(ls, wr, wr2, q, n) ==
    wr2 = [wr EXCEPT ![q] = [k \in Levels(ls) |->
              IF k = n /\ ls[k - 1] # "timeout" THEN NoWriter ELSE wr[q][k]]]

OthersSame(ls, wr, wr2, q, n) ==
    \A r \in Requests : \A k \in Levels(ls) : ~(r = q /\ k = n) => wr2[r][k] = wr[r][k]

\* One level is called with a writer.
LEMMA WriterSet ==
    ASSUME NEW ls, NEW wr, IsWriters(ls, wr), NEW q \in Requests, NEW n \in Levels(ls),
           NEW w \in Writers, NEW wr2, Called(wr, wr2, q, n, w)
    PROVE  /\ IsWriters(ls, wr2)
           /\ wr2[q][n] = w
           /\ OthersSame(ls, wr, wr2, q, n)
BY DEF Called, IsWriters, OthersSame

\* One level's writer is forgotten.
LEMMA WriterLeft ==
    ASSUME NEW ls, NEW wr, IsWriters(ls, wr), NEW q \in Requests, NEW n,
           NEW wr2, Forgot(ls, wr, wr2, q, n)
    PROVE  /\ IsWriters(ls, wr2)
           /\ OthersSame(ls, wr, wr2, q, n)
           /\ n \in Levels(ls) /\ ls[n - 1] = "timeout" => wr2[q][n] = wr[q][n]
<1>1. NoWriter \in Writers
  BY DEF NoWriter, Writers
<1> QED
  BY <1>1 DEF Forgot, IsWriters, OthersSame

\* Steps that leave the pools alone
LEMMA MovesKept ==
    ASSUME Structure, setup' = setup, PoolsSame,
           IsWriters(Layers, writer'), RoutinesOK(Layers, place'),
           \A r \in Requests : PairOK(place', setup.sent, r),
           NEW q, NEW n, n = 0 \/ NewLevel(Layers, place', q, n),
           KeepsLevels(Layers, place, place', q, n), SameWriters(Layers, place', writer, writer', q, n),
           n > 1 => Layers[n - 1] \notin Logs \cup {"router"},
           n \in Nat,
           q \in Requests /\ n \in Levels(Layers) => LinkOK(Layers, place', writer', q, n)
    PROVE  Structure'
<1>1. /\ UNCHANGED <<taken, freeParams, params, paramWriters, freeWriters, freeStatus>>
      /\ statusWriters' \in [Objects -> [under : Writers, status : Nat]]
      /\ \A o \in Objects : statusWriters'[o].under = statusWriters[o].under
  BY DEF PoolsSame, routerPools
<1>2. Layers' = Layers
  BY DEF Layers
<1>3. TypeOK'
  BY <1>1, <1>2 DEF Structure, TypeOK
<1>4. OwnParams(taken', freeParams', params')
  BY <1>1 DEF Structure
<1>5. ASSUME NEW r \in Requests, NEW k \in Levels(Layers), ~(r = q /\ k = n)
      PROVE  /\ Held(Layers, place', r, k) =>
                    writer[r][k][2] \in Objects \ freeStatus
             /\ Made(Layers, place', r, k, {"router"}) => writer[r][k][2] \in Objects \ freeWriters
  <2>1. /\ StatusOK(Layers, place, writer, statusWriters, freeStatus, r, k)
        /\ ParamOK(Layers, place, writer, paramWriters, taken, freeWriters, r, k)
    BY DEF Structure, LevelOK
  <2>2. /\ Held(Layers, place', r, k) => Held(Layers, place, r, k)
        /\ Live(Layers, place', r, k) => Live(Layers, place, r, k)
    BY <1>5 DEF KeepsLevels
  <2> QED
    BY <2>1, <2>2 DEF StatusOK, ParamOK, Held, Made
<1>6. ObjectsKept(q, n)
  BY <1>1, <1>5 DEF ObjectsKept
<1>7. ~Made(Layers, place', q, n, Logs) /\ ~Made(Layers, place', q, n, {"router"})
  BY DEF Made
<1>8. OwnStatus(Layers, place', writer')
  <2>1. OwnStatus(Layers, place, writer) /\ ~Held(Layers, place', q, n)
    BY <1>7 DEF Structure, Held
  <2> QED
    BY <2>1, OwnStatusKept
<1>9. /\ StatusOK(Layers, place', writer', statusWriters', freeStatus', q, n)
      /\ ParamOK(Layers, place', writer', paramWriters', taken', freeWriters', q, n)
  BY <1>7 DEF StatusOK, ParamOK, Held
<1> QED
  BY <1>3, <1>4, <1>6, <1>8, <1>9, StructureKept

\* What a move of goroutine g does to goroutines and writers: level n of its
\* request is new, or none is.
Moves(g, n) ==
    /\ RoutinesOK(Layers, place')
    /\ IsWriters(Layers, writer')
    /\ n = 0 \/ NewLevel(Layers, place', g[1], n)
    /\ KeepsLevels(Layers, place, place', g[1], n)
    /\ SameWriters(Layers, place', writer, writer', g[1], n)
    /\ \A r \in Requests : PairOK(place', setup.sent, r)

\* A layer calls next.
LEMMA Calling ==
    ASSUME Structure, NEW g \in Routines, NEW w \in Writers, Call(g, w),
           place[g].at \in DOMAIN Layers, place[g].going = "in", Layers[place[g].at] # "timeout"
    PROVE  /\ Moves(g, place[g].at + 1)
           /\ writer'[g[1]][place[g].at + 1] = w
           /\ writer'[g[1]][place[g].at] = W(g) /\ W(g) \in Writers
           /\ place[g].at \in Levels(Layers) /\ place[g].at + 1 \in Levels(Layers)
           /\ place[g].at \in Nat /\ place[g].at >= 1 /\ g[1] \in Requests
<1> DEFINE k == place[g].at
           q == g[1]
<1>1. /\ ChainOK(Layers) /\ RoutinesOK(Layers, place) /\ Layers[k] # "timeout" /\ q \in Requests
      /\ IsWriters(Layers, writer)
      /\ IsPlaces(place)
      /\ k \in 1 .. Len(Layers) /\ Len(Layers) \in Nat
  BY SetupFacts DEF Structure, TypeOK, Routines, RoutinesOK, IsWriters
<1>2. Moved(place, place', g, At(k + 1, "in"))
  BY <1>1 DEF Call, Moved
<1>3. /\ RoutinesOK(Layers, place') /\ KeepsLevels(Layers, place, place', q, k + 1)
      /\ NewLevel(Layers, place', q, k + 1)
  BY <1>1, <1>2, CallMoves
<1>4. k \in Levels(Layers) /\ k + 1 \in Levels(Layers) /\ k + 1 \in Nat /\ k # k + 1 /\ k >= 1
  BY <1>1 DEF Levels
<1>5. W(g) = writer[q][k] /\ W(g) \in Writers /\ Called(writer, writer', q, k + 1, w)
  BY <1>1, <1>4 DEF W, Call, Called, IsWriters
<1> HIDE DEF k, q
<1>6. /\ IsWriters(Layers, writer')
      /\ writer'[q][k + 1] = w
      /\ OthersSame(Layers, writer, writer', q, k + 1)
  BY <1>1, <1>4, <1>5, WriterSet
<1>7. SameWriters(Layers, place', writer, writer', q, k + 1)
  BY <1>6 DEF SameWriters, OthersSame
<1>8. ASSUME NEW r \in Requests PROVE PairOK(place', setup.sent, r)
  <2>1. PairOK(place, setup.sent, r) /\ At(k + 1, "in").going = "in"
    BY DEF Structure, At
  <2> QED
    BY <1>1, <1>2, <2>1, PairKept
<1>9. writer'[q][k] = W(g)
  BY <1>1, <1>4, <1>5, <1>6 DEF OthersSame
<1>10. Moves(g, k + 1)
  BY <1>3, <1>6, <1>7, <1>8 DEF Moves, q
<1> QED
  BY <1>1, <1>4, <1>5, <1>6, <1>9, <1>10 DEF k, q

\* A layer that wraps nothing calls next with its own writer.
LEMMA CallKeeps ==
    ASSUME Structure, setup' = setup, PoolsSame, NEW g \in Routines,
           place[g].at \in DOMAIN Layers, place[g].going = "in", Layers[place[g].at] \in Passing,
           Call(g, W(g))
    PROVE  Structure'
<1> DEFINE k == place[g].at
           q == g[1]
<1>1. /\ ChainOK(Layers) /\ RoutinesOK(Layers, place) /\ Layers[k] # "timeout" /\ q \in Requests
      /\ IsWriters(Layers, writer)
      /\ k \in 1 .. Len(Layers) /\ Len(Layers) \in Nat
  BY SetupFacts DEF Structure, TypeOK, Passing, Routines, IsWriters
<1>2. W(g) \in Writers
  BY <1>1 DEF W, IsWriters, Levels
<1>3. Moves(g, k + 1) /\ writer'[q][k + 1] = W(g) /\ writer'[q][k] = W(g)
  BY <1>1, <1>2, Calling
<1>4. k + 1 > 1 /\ k + 1 \in Nat /\ k + 1 # 1 /\ (k + 1) - 1 = k /\ Layers[k] \in Passing
  BY <1>1
<1> HIDE DEF k, q
<1>5. LinkOK(Layers, place', writer', q, k + 1)
  BY <1>1, <1>3, <1>4 DEF LinkOK, Made
<1>6. Layers[(k + 1) - 1] \notin Logs \cup {"router"}
  BY <1>4 DEF Passing, Logs
<1> QED
  BY <1>3, <1>4, <1>5, <1>6, MovesKept DEF Moves, q

\* A layer is left.
LEMMA LeavingOne ==
    ASSUME Structure, NEW g \in Routines,
           place[g].going \in Going \cup {"in", "wait"}, place[g].at # 0,
           place[g].at \in DOMAIN Layers /\ Layers[place[g].at] = "timeout" => g[2] = "conn",
           NEW how \in {"out", "up"}, Leave(g, how)
    PROVE  Moves(g, 0) /\ Drops(Layers, place', g[1], place[g].at + 1) /\ g[1] \in Requests
<1> DEFINE k == place[g].at
           q == g[1]
<1>1. /\ ChainOK(Layers) /\ RoutinesOK(Layers, place) /\ q \in Requests
      /\ IsWriters(Layers, writer)
      /\ IsPlaces(place)
      /\ Len(Layers) \in Nat
  BY SetupFacts DEF Structure, TypeOK, Routines, RoutinesOK, IsWriters
<1>2. Moved(place, place', g, At(k - 1, how))
  BY <1>1 DEF Leave, Moved
<1>3. /\ RoutinesOK(Layers, place') /\ KeepsLevels(Layers, place, place', q, 0)
      /\ Drops(Layers, place', q, k + 1)
  BY <1>1, <1>2, LeaveMoves
<1>4. Forgot(Layers, writer, writer', q, k + 1)
  BY <1>1 DEF Leave, Inner, Levels, Forgot
<1> HIDE DEF k, q
<1>5. /\ IsWriters(Layers, writer')
      /\ OthersSame(Layers, writer, writer', q, k + 1)
      /\ k + 1 \in Levels(Layers) /\ Layers[(k + 1) - 1] = "timeout" =>
            writer'[q][k + 1] = writer[q][k + 1]
  BY <1>1, <1>4, WriterLeft
<1>6. SameWriters(Layers, place', writer, writer', q, 0)
  BY <1>3, <1>5 DEF SameWriters, OthersSame, Drops
<1>7. ASSUME NEW r \in Requests PROVE PairOK(place', setup.sent, r)
  <2>1. PairOK(place, setup.sent, r) /\ At(k - 1, how).going = how
    BY DEF Structure, At
  <2>2. place[g].going # "absent" /\ how # "absent" /\ how # "in"
    BY DEF Going
  <2> QED
    BY <1>1, <1>2, <2>1, <2>2, PairKept
<1> QED
  BY <1>1, <1>3, <1>5, <1>6, <1>7 DEF Moves, k, q

\* A layer is left, and the pools are left alone.
LEMMA LeaveKeeps ==
    ASSUME Structure, setup' = setup, PoolsSame, NEW g \in Routines,
           place[g].going \in Going \cup {"in", "wait"}, place[g].at # 0,
           place[g].at \in DOMAIN Layers /\ Layers[place[g].at] = "timeout" => g[2] = "conn",
           NEW how \in {"out", "up"}, Leave(g, how)
    PROVE  Structure'
<1>1. Moves(g, 0)
  BY LeavingOne
<1>2. 0 \notin Levels(Layers) /\ ~(0 > 1)
  BY DEF Levels
<1> QED
  BY <1>1, <1>2, MovesKept DEF Moves

\* A request arrives.
LEMMA ArriveIs ==
    ASSUME Structure, NEW r \in Requests, Arrive(r)
    PROVE  /\ Moves(<<r, "conn">>, 1)
           /\ Moved(place, place', <<r, "conn">>, At(1, "in"))
           /\ place[<<r, "conn">>] = At(0, "absent") /\ <<r, "conn">> \in Routines
           /\ writer'[r][1] = Conn(r)
<1> DEFINE g == <<r, "conn">>
<1>1. /\ ChainOK(Layers) /\ RoutinesOK(Layers, place) /\ g \in Routines
      /\ IsWriters(Layers, writer) /\ IsPlaces(place)
      /\ Len(Layers) \in Nat /\ setup' = setup
  BY SetupFacts DEF Structure, TypeOK, Routines, RoutinesOK, IsWriters, Arrive, context
<1>3. place[g] = At(0, "absent") /\ r \in DOMAIN setup.sent
  BY DEF Arrive
<1>4. Moved(place, place', g, At(1, "in"))
  BY DEF Moved, Arrive
<1>5. /\ RoutinesOK(Layers, place') /\ KeepsLevels(Layers, place, place', r, 1)
      /\ NewLevel(Layers, place', r, 1)
  BY <1>1, <1>3, <1>4, ArriveMoves
<1>6. 1 \in Levels(Layers) /\ Conn(r) \in Writers
  BY <1>1 DEF Levels, Conn, Writers
<1>7. Called(writer, writer', r, 1, Conn(r))
  BY DEF Called, Arrive
<1>8. /\ IsWriters(Layers, writer')
      /\ writer'[r][1] = Conn(r)
      /\ OthersSame(Layers, writer, writer', r, 1)
  BY <1>1, <1>6, <1>7, WriterSet
<1>9. SameWriters(Layers, place', writer, writer', r, 1)
  BY <1>8 DEF SameWriters, OthersSame
<1>10. ASSUME NEW q \in Requests PROVE PairOK(place', setup.sent, q)
  <2>1. PairOK(place, setup.sent, q)
    BY DEF Structure
  <2>2. \A h \in Routines : place'[h] = IF h = g THEN At(1, "in") ELSE place[h]
    BY <1>1, <1>4 DEF Moved, IsPlaces
  <2>3. <<q, "conn">> \in Routines /\ <<q, "timeout">> \in Routines
    BY DEF Routines
  <2>4. CASE q = r
    <3>1. /\ place'[<<r, "conn">>].going = "in" /\ place[<<r, "conn">>].going = "absent"
          /\ place'[<<r, "timeout">>] = place[<<r, "timeout">>]
      BY <1>1, <1>3, <2>2, <2>3, <2>4 DEF At
    <3> QED
      BY <1>3, <2>1, <2>4, <3>1 DEF PairOK
  <2>5. CASE q # r
    BY <2>1, <2>2, <2>3, <2>5 DEF PairOK
  <2> QED
    BY <2>4, <2>5
<1> QED
  BY <1>1, <1>3, <1>4, <1>5, <1>8, <1>9, <1>10 DEF Moves

\* It is called with the writer of its connection.
LEMMA ArriveKeeps ==
    ASSUME Structure, NEW r \in Requests, Arrive(r)
    PROVE  Structure'
<1>1. Moves(<<r, "conn">>, 1) /\ writer'[r][1] = Conn(r)
  BY ArriveIs
<1>2. PoolsSame /\ setup' = setup
  BY DEF Arrive, pools, context, PoolsSame, Structure, TypeOK
<1>3. LinkOK(Layers, place', writer', r, 1)
  BY <1>1 DEF LinkOK, Made
<1>4. <<r, "conn">>[1] = r
  OBVIOUS
<1> QED
  BY <1>1, <1>2, <1>3, <1>4, MovesKept DEF Moves

\* A Timeout starts its goroutine.
LEMMA TimeoutIs ==
    ASSUME Structure, NEW g \in Routines, EnterTimeout(g)
    PROVE  /\ Moves(g, place[g].at + 1)
           /\ Started(place, place', g)
           /\ writer'[g[1]][place[g].at + 1] = Buffer(g[1])
           /\ place[g].at \in Nat /\ place[g].at >= 1 /\ g[1] \in Requests
<1> DEFINE k == place[g].at
           q == g[1]
<1>1. /\ ChainOK(Layers) /\ RoutinesOK(Layers, place) /\ q \in Requests
      /\ IsWriters(Layers, writer) /\ IsPlaces(place)
      /\ Len(Layers) \in Nat /\ DOMAIN Layers = 1 .. Len(Layers) /\ setup' = setup
  BY SetupFacts DEF Structure, TypeOK, Routines, RoutinesOK, IsWriters, EnterTimeout, context
<1>3. place[g].going = "in" /\ k \in DOMAIN Layers /\ Layers[k] = "timeout"
  BY DEF EnterTimeout, Is
<1>4. Starts(place, place', g) /\ writer' = [writer EXCEPT ![q][k + 1] = Buffer(q)]
  BY DEF EnterTimeout, Starts
<1>5. place[Runner(g)].going = "absent" \/ g[2] # "conn"
  <2>1. g = <<q, g[2]>>
    BY DEF Routines
  <2>2. g[2] = "conn" => g = <<q, "conn">>
    BY <2>1
  <2>3. PairOK(place, setup.sent, q)
    BY <1>1 DEF Structure
  <2> QED
    BY <1>3, <2>2, <2>3 DEF PairOK, Runner
<1>6. /\ RoutinesOK(Layers, place')
      /\ KeepsLevels(Layers, place, place', q, k + 1)
      /\ NewLevel(Layers, place', q, k + 1)
      /\ Started(place, place', g)
  BY <1>1, <1>3, <1>4, <1>5, TimeoutMoves
<1>7. k + 1 \in Levels(Layers) /\ Buffer(q) \in Writers /\ k + 1 > 1 /\ (k + 1) - 1 = k
      /\ k + 1 \in Nat
  <2>1. Buffer(q) \in Writers
    BY <1>1 DEF Buffer, Writers
  <2>2. k \in 1 .. Len(Layers)
    BY <1>1, <1>3
  <2> HIDE DEF k, q
  <2> QED
    BY <1>1, <2>1, <2>2 DEF Levels
<1>8. Called(writer, writer', q, k + 1, Buffer(q))
  BY <1>4 DEF Called
<1> HIDE DEF k, q
<1>9. /\ IsWriters(Layers, writer')
      /\ writer'[q][k + 1] = Buffer(q)
      /\ OthersSame(Layers, writer, writer', q, k + 1)
  BY <1>1, <1>7, <1>8, WriterSet
<1>10. SameWriters(Layers, place', writer, writer', q, k + 1)
  BY <1>9 DEF SameWriters, OthersSame
<1>11. ASSUME NEW r \in Requests PROVE PairOK(place', setup.sent, r)
  <2>1. PairOK(place, setup.sent, r)
    BY DEF Structure
  <2>2. <<r, "conn">> \in Routines /\ <<r, "timeout">> \in Routines
    BY DEF Routines
  <2>3. g = <<q, "conn">> /\ Runner(g) = <<q, "timeout">>
    BY <1>6 DEF Started, Routines, Runner, q
  <2>4. CASE r = q
    <3>1. place'[<<r, "conn">>].going = "wait" /\ place[<<r, "conn">>].going = "in"
      BY <1>3, <1>6, <2>3, <2>4 DEF Started, At
    <3> QED
      BY <2>1, <3>1 DEF PairOK
  <2>5. CASE r # q
    BY <1>6, <2>1, <2>2, <2>3, <2>5 DEF Started, PairOK
  <2> QED
    BY <2>4, <2>5
<1>12. k \in Nat /\ k >= 1
  BY <1>1, <1>3 DEF k
<1> QED
  BY <1>1, <1>6, <1>9, <1>10, <1>11, <1>12 DEF Moves, k, q

\* What is behind it is called with the buffer.
LEMMA TimeoutKeeps ==
    ASSUME Structure, NEW g \in Routines, EnterTimeout(g)
    PROVE  Structure'
<1> DEFINE k == place[g].at
           q == g[1]
<1>1. /\ Moves(g, k + 1) /\ writer'[q][k + 1] = Buffer(q)
      /\ k \in Nat /\ k >= 1 /\ q \in Requests
  BY TimeoutIs
<1>2. PoolsSame /\ setup' = setup
  BY DEF EnterTimeout, pools, context, PoolsSame, Structure, TypeOK
<1>3. Layers[k] = "timeout"
  BY DEF EnterTimeout, Is
<1> HIDE DEF k, q
<1>4. k + 1 \in Nat /\ k + 1 > 1 /\ k + 1 # 1 /\ (k + 1) - 1 = k
  BY <1>1
<1>5. LinkOK(Layers, place', writer', q, k + 1) /\ Layers[(k + 1) - 1] \notin Logs \cup {"router"}
  BY <1>1, <1>3, <1>4 DEF LinkOK, Made, Passing, Logs
<1> QED
  BY <1>1, <1>2, <1>4, <1>5, MovesKept DEF Moves, q

\* A request ends.
LEMMA FinishIs ==
    ASSUME Structure, NEW r \in Requests, Finish(r)
    PROVE  /\ Moves(<<r, "conn">>, 0) /\ <<r, "conn">> \in Routines
           /\ Moved(place, place', <<r, "conn">>,
                    At(0, IF place[<<r, "conn">>].going = "out" THEN "done" ELSE "aborted"))
<1> DEFINE g == <<r, "conn">>
           to == IF place[g].going = "out" THEN "done" ELSE "aborted"
<1>1. /\ ChainOK(Layers) /\ RoutinesOK(Layers, place) /\ g \in Routines
      /\ IsWriters(Layers, writer) /\ IsPlaces(place) /\ g[1] = r /\ g[2] = "conn"
      /\ setup' = setup /\ writer' = writer
  BY SetupFacts DEF Structure, TypeOK, Routines, RoutinesOK, IsWriters, Finish, context
<1>3. place[g].at = 0 /\ place[g].going \in {"out", "up"}
  BY DEF Finish
<1>4. Moved(place, place', g, At(place[g].at, to))
  BY <1>1, <1>3 DEF Moved, Finish, IsPlaces
<1>5. to \in Goings /\ to \in {"done", "aborted"} /\ place[g].going \in Going
  BY <1>3 DEF Goings, Going
<1> HIDE DEF to, g
<1>6. RoutinesOK(Layers, place') /\ KeepsLevels(Layers, place, place', g[1], 0)
  BY <1>1, <1>3, <1>4, <1>5, StayMoves
<1>7. SameWriters(Layers, place', writer, writer', g[1], 0)
  BY <1>1 DEF SameWriters
<1>8. ASSUME NEW q \in Requests PROVE PairOK(place', setup.sent, q)
  <2>1. PairOK(place, setup.sent, q) /\ At(place[g].at, to).going = to
    BY DEF Structure, At
  <2>2. place[g].going # "absent" /\ to # "absent" /\ to # "in"
    BY <1>5 DEF Going
  <2> QED
    BY <1>1, <1>4, <2>1, <2>2, PairKept
<1> QED
  BY <1>1, <1>3, <1>4, <1>6, <1>7, <1>8 DEF Moves, g, to

\* Nothing else changes.
LEMMA FinishKeeps ==
    ASSUME Structure, NEW r \in Requests, Finish(r)
    PROVE  Structure'
<1>1. Moves(<<r, "conn">>, 0)
  BY FinishIs
<1>2. PoolsSame /\ setup' = setup
  BY DEF Finish, pools, context, PoolsSame, Structure, TypeOK
<1>3. 0 \notin Levels(Layers) /\ ~(0 > 1)
  BY DEF Levels
<1> QED
  BY <1>1, <1>2, <1>3, MovesKept DEF Moves

\* Nobody moves.
LEMMA NobodyKeeps ==
    ASSUME Structure, setup' = setup, place' = place, writer' = writer, PoolsSame
    PROVE  Structure'
<1>1. RoutinesOK(Layers, place') /\ IsWriters(Layers, writer') /\ 0 \notin Levels(Layers) /\ ~(0 > 1)
  BY DEF Structure, TypeOK, IsWriters, Levels
<1>2. SameWriters(Layers, place', writer, writer', Nobody, 0)
  BY DEF SameWriters
<1>3. KeepsLevels(Layers, place, place', Nobody, 0)
  BY DEF KeepsLevels
<1>4. \A r \in Requests : PairOK(place', setup.sent, r)
  BY DEF Structure
<1> QED
  BY <1>1, <1>2, <1>3, <1>4, MovesKept

\* What a live level uses, if it is not new, was in use before.
LEMMA InUse ==
    ASSUME Structure, NEW g, NEW n, Moves(g, n), NEW r \in Requests, NEW k \in Levels(Layers),
           ~(r = g[1] /\ k = n)
    PROVE  /\ Held(Layers, place', r, k) =>
                /\ Held(Layers, place, r, k)
                /\ writer[r][k][2] \in Objects \ freeStatus
                /\ writer[r][k] = StatusOf(writer[r][k][2])
                /\ writer'[r][k] = writer[r][k]
           /\ Made(Layers, place', r, k, {"router"}) =>
                /\ Made(Layers, place, r, k, {"router"})
                /\ writer[r][k][2] \in Objects \ freeWriters
                /\ paramWriters[writer[r][k][2]].params = taken[r]
                /\ taken[r] # Nobody
<1>1. /\ StatusOK(Layers, place, writer, statusWriters, freeStatus, r, k)
      /\ ParamOK(Layers, place, writer, paramWriters, taken, freeWriters, r, k)
  BY DEF Structure, LevelOK
<1>2. /\ Held(Layers, place', r, k) => Held(Layers, place, r, k)
      /\ Live(Layers, place', r, k) => Live(Layers, place, r, k)
  BY DEF KeepsLevels, Moves
<1>3. Live(Layers, place', r, k) => writer'[r][k] = writer[r][k]
  BY DEF SameWriters, Moves
<1>4. /\ Held(Layers, place', r, k) => Live(Layers, place', r, k) /\ Made(Layers, place, r, k, Logs)
      /\ Made(Layers, place', r, k, {"router"}) => Made(Layers, place, r, k, {"router"})
  BY <1>2 DEF Held, Made
<1> QED
  BY <1>1, <1>2, <1>3, <1>4 DEF StatusOK, ParamOK

\* A log takes a statusWriter.
LEMMA EnterLogKeeps ==
    ASSUME Structure, NEW g \in Routines, EnterLog(g)
    PROVE  Structure'
<1> DEFINE k == place[g].at
           q == g[1]
           o == Get(freeStatus)
<1>1. /\ k \in DOMAIN Layers /\ Layers[k] \in Logs /\ place[g].going = "in"
      /\ statusWriters' = [statusWriters EXCEPT ![o] = [under |-> W(g), status |-> 0]]
      /\ freeStatus' = freeStatus \ {o} /\ Call(g, StatusOf(o)) /\ freeStatus # {}
      /\ setup' = setup
      /\ UNCHANGED <<paramWriters, params, taken, freeWriters, freeParams>>
  BY DEF EnterLog, IsLog, Is, Logs, context, routerPools
<1>2. o \in freeStatus /\ o \in Objects /\ StatusOf(o) \in Writers
  <2>1. freeStatus \subseteq Objects
    BY DEF Structure, TypeOK
  <2>2. Min(freeStatus) \in freeStatus
    BY <1>1, <2>1, MinIs, ObjectsAssumption
  <2> QED
    BY <2>1, <2>2 DEF Get, StatusOf, Writers
<1> HIDE DEF o
<1>3. Layers[k] # "timeout" /\ Layers[k] \notin Passing /\ Layers[k] # "router"
  BY <1>1 DEF Logs, Passing
<1>4. /\ Moves(g, k + 1)
      /\ writer'[q][k + 1] = StatusOf(o)
      /\ writer'[q][k] = W(g) /\ W(g) \in Writers
      /\ k + 1 \in Levels(Layers) /\ k \in Nat /\ k >= 1 /\ q \in Requests
  BY <1>1, <1>2, <1>3, Calling
<1>5. (k + 1) - 1 = k /\ k + 1 > 1 /\ k + 1 # 1
  BY <1>4
<1> HIDE DEF k, q
<1>6. Layers' = Layers
  BY <1>1 DEF Layers
<1>7. /\ statusWriters' \in [Objects -> [under : Writers, status : Nat]]
      /\ statusWriters'[o].under = W(g)
      /\ \A p \in Objects : p # o => statusWriters'[p] = statusWriters[p]
  <2>1. statusWriters \in [Objects -> [under : Writers, status : Nat]]
    BY DEF Structure, TypeOK
  <2> QED
    BY <1>1, <1>2, <1>4, <2>1
<1>8. TypeOK'
  BY <1>1, <1>4, <1>6, <1>7 DEF TypeOK, Structure, Moves, IsWriters
<1>9. ObjectsKept(q, k + 1)
  <2>1. ASSUME NEW r \in Requests, NEW j \in Levels(Layers), ~(r = q /\ j = k + 1)
        PROVE  /\ Held(Layers, place', r, j) => writer[r][j][2] \in Objects \ freeStatus
               /\ Made(Layers, place', r, j, {"router"}) => writer[r][j][2] \in Objects \ freeWriters
    BY <1>4, <2>1, InUse DEF q
  <2> QED
    BY <1>1, <1>2, <1>7, <2>1 DEF ObjectsKept
<1>10. LinkOK(Layers, place', writer', q, k + 1)
  BY <1>3, <1>5 DEF LinkOK, Made
<1>11. StatusOK(Layers, place', writer', statusWriters', freeStatus', q, k + 1)
  <2>1. StatusOf(o)[2] = o /\ o \notin freeStatus'
    BY <1>1 DEF StatusOf
  <2> QED
    BY <1>2, <1>4, <1>5, <1>7, <2>1 DEF StatusOK
<1>12. ParamOK(Layers, place', writer', paramWriters', taken', freeWriters', q, k + 1)
  BY <1>3, <1>5 DEF ParamOK, Made
<1>13. OwnStatus(Layers, place', writer')
  <2>1. ASSUME NEW r \in Requests, NEW j \in Levels(Layers), ~(r = q /\ j = k + 1),
               Held(Layers, place', r, j)
        PROVE  /\ Held(Layers, place, r, j) /\ writer'[r][j] = writer[r][j]
               /\ writer'[r][j] # StatusOf(o)
    <3>1. /\ Held(Layers, place, r, j) /\ writer'[r][j] = writer[r][j]
          /\ writer[r][j][2] \in Objects \ freeStatus
      BY <1>4, <2>1, InUse DEF q
    <3> QED
      BY <1>2, <3>1 DEF StatusOf
  <2> QED
    BY <1>4, <2>1 DEF OwnStatus, Structure
<1>14. OwnParams(taken', freeParams', params')
  BY <1>1 DEF Structure
<1> QED
  BY <1>1, <1>4, <1>8, <1>9, <1>10, <1>11, <1>12, <1>13, <1>14, StructureKept DEF Moves, q

\* The router takes a paramRW and a parameter list.
LEMMA EnterRouterKeeps ==
    ASSUME Structure, NEW g \in Routines, EnterRouter(g)
    PROVE  Structure'
<1> DEFINE k == place[g].at
           q == g[1]
           o == Get(freeWriters)
           p == Get(freeParams)
<1>1. /\ k \in DOMAIN Layers /\ Layers[k] = "router" /\ place[g].going = "in"
      /\ params' = [params EXCEPT ![p] = <<q>>]
      /\ paramWriters' = [paramWriters EXCEPT ![o] = [under |-> W(g), params |-> p]]
      /\ taken' = [taken EXCEPT ![q] = p]
      /\ freeParams' = freeParams \ {p} /\ freeWriters' = freeWriters \ {o}
      /\ Call(g, ParamOf(o)) /\ freeParams # {} /\ freeWriters # {}
      /\ setup' = setup
      /\ UNCHANGED <<statusWriters, freeStatus>>
  BY DEF EnterRouter, Matched, Is, context
<1>2. /\ o \in freeWriters /\ o \in Objects /\ ParamOf(o) \in Writers
      /\ p \in freeParams /\ p \in Objects /\ p # Nobody
  <2>1. freeWriters \subseteq Objects /\ freeParams \subseteq Objects
    BY DEF Structure, TypeOK
  <2>2. Min(freeWriters) \in freeWriters /\ Min(freeParams) \in freeParams
    BY <1>1, <2>1, MinIs, ObjectsAssumption
  <2> QED
    BY <2>1, <2>2, ObjectsAssumption DEF Get, ParamOf, Writers
<1> HIDE DEF o, p
<1>3. Layers[k] # "timeout" /\ Layers[k] \notin Passing /\ Layers[k] \notin Logs
  BY <1>1 DEF Logs, Passing
<1>4. /\ Moves(g, k + 1)
      /\ writer'[q][k + 1] = ParamOf(o)
      /\ writer'[q][k] = W(g) /\ W(g) \in Writers
      /\ k + 1 \in Levels(Layers) /\ k \in Nat /\ k >= 1 /\ q \in Requests
  BY <1>1, <1>2, <1>3, Calling
<1>5. (k + 1) - 1 = k /\ k + 1 > 1 /\ k + 1 # 1
  BY <1>4
<1>6. ASSUME NEW r \in Requests, NEW j \in Levels(Layers), Made(Layers, place', r, j, {"router"}),
             ~(r = q /\ j = k + 1)
      PROVE  r # q
  <2>1. j - 1 \in DOMAIN Layers /\ Layers[j - 1] = "router" /\ j \in Nat
    BY <1>6, SetupFacts DEF Made, Levels, Structure, TypeOK
  <2>2. j - 1 = k
    BY <1>1, <2>1, SetupFacts DEF ChainOK, Structure, TypeOK
  <2> QED
    BY <1>4, <1>6, <2>1, <2>2
<1> HIDE DEF k, q
<1>7. Layers' = Layers
  BY <1>1 DEF Layers
<1>8. /\ paramWriters' \in [Objects -> [under : Writers, params : Objects \cup {Nobody}]]
      /\ paramWriters'[o] = [under |-> W(g), params |-> p]
      /\ \A x \in Objects : x # o => paramWriters'[x] = paramWriters[x]
  <2>1. paramWriters \in [Objects -> [under : Writers, params : Objects \cup {Nobody}]]
    BY DEF Structure, TypeOK
  <2> QED
    BY <1>1, <1>2, <1>4, <2>1
<1>9. /\ taken' \in [Requests -> Objects \cup {Nobody}]
      /\ taken'[q] = p /\ \A r \in Requests : r # q => taken'[r] = taken[r]
  BY <1>1, <1>2, <1>4 DEF Structure, TypeOK
<1>10. /\ params' \in [Objects -> Seq(Requests)]
       /\ params'[p] = <<q>> /\ \A x \in Objects : x # p => params'[x] = params[x]
  <2>1. <<q>> \in Seq(Requests) /\ params \in [Objects -> Seq(Requests)]
    BY <1>4 DEF Structure, TypeOK
  <2> QED
    BY <1>1, <1>2, <2>1
<1>11. TypeOK'
  BY <1>1, <1>4, <1>7, <1>8, <1>9, <1>10 DEF TypeOK, Structure, Moves, IsWriters
<1>12. ObjectsKept(q, k + 1)
  <2>1. ASSUME NEW r \in Requests, NEW j \in Levels(Layers), ~(r = q /\ j = k + 1)
        PROVE  /\ Held(Layers, place', r, j) => writer[r][j][2] \in Objects \ freeStatus
               /\ Made(Layers, place', r, j, {"router"}) =>
                    writer[r][j][2] \in Objects \ freeWriters /\ r # q
    BY <1>4, <1>6, <2>1, InUse DEF q
  <2> QED
    BY <1>1, <1>2, <1>8, <1>9, <2>1 DEF ObjectsKept
<1>13. LinkOK(Layers, place', writer', q, k + 1)
  BY <1>3, <1>5 DEF LinkOK, Made
<1>14. StatusOK(Layers, place', writer', statusWriters', freeStatus', q, k + 1)
  BY <1>3, <1>5 DEF StatusOK, Held, Made
<1>15. ParamOK(Layers, place', writer', paramWriters', taken', freeWriters', q, k + 1)
  <2>1. ParamOf(o)[2] = o /\ o \notin freeWriters'
    BY <1>1 DEF ParamOf
  <2> QED
    BY <1>2, <1>4, <1>5, <1>8, <1>9, <2>1 DEF ParamOK
<1>16. OwnStatus(Layers, place', writer')
  <2>1. ~Held(Layers, place', q, k + 1)
    BY <1>3, <1>5 DEF Held, Made
  <2> QED
    BY <1>4, <2>1, OwnStatusKept DEF Structure, Moves, q
<1>17. OwnParams(taken', freeParams', params')
  <2>1. ASSUME NEW r \in Requests, taken[r] # Nobody
        PROVE  taken[r] \in Objects /\ taken[r] # p /\ taken[r] \notin freeParams
               /\ params[taken[r]] = <<r>>
    BY <1>2, <2>1 DEF OwnParams, Structure, TypeOK
  <2>2. \A r, s \in Requests : taken[r] = taken[s] /\ taken[r] # Nobody => r = s
    BY DEF OwnParams, Structure
  <2>3. ASSUME NEW r \in Requests, taken'[r] # Nobody
        PROVE  taken'[r] \notin freeParams' /\ params'[taken'[r]] = <<r>>
    BY <1>1, <1>2, <1>9, <1>10, <2>1, <2>3
  <2>4. ASSUME NEW r \in Requests, NEW s \in Requests, taken'[r] = taken'[s], taken'[r] # Nobody
        PROVE  r = s
    BY <1>2, <1>9, <2>1, <2>2, <2>4
  <2> QED
    BY <2>3, <2>4 DEF OwnParams
<1> QED
  BY <1>1, <1>4, <1>11, <1>12, <1>13, <1>14, <1>15, <1>16, <1>17, StructureKept DEF Moves, q

\* The level that a layer's next call ran in is still that of its goroutine.
LEMMA BelowIs ==
    ASSUME Structure, NEW g \in Routines, place[g].at \in DOMAIN Layers,
           place[g].going \in Going
    PROVE  /\ place[g].at + 1 \in Levels(Layers) /\ place[g].at \in Nat /\ place[g].at >= 1
           /\ g[1] \in Requests
           /\ Routine(Layers, g[1], place[g].at + 1) = g
           /\ Live(Layers, place, g[1], place[g].at + 1)
           /\ Below(g) = writer[g[1]][place[g].at + 1]
           /\ place[g].going \in {"out", "up"} =>
                ~Settled(Layers, place, g[1], place[g].at + 1)
<1>1. ChainOK(Layers) /\ RoutinesOK(Layers, place) /\ place[g].going # "absent"
  BY SetupFacts DEF Structure, TypeOK, Going
<1>2. Top(place[g]) = place[g].at + 1
  BY DEF Top, Going
<1>3. /\ Top(place[g]) \in Levels(Layers)
      /\ Routine(Layers, g[1], Top(place[g])) = g
      /\ Live(Layers, place, g[1], Top(place[g]))
  BY <1>1, OwnLevels
<1>4. place[g].at \in Nat /\ place[g].at >= 1 /\ g[1] \in Requests
  BY <1>1, SetupFacts DEF Structure, TypeOK, Routines
<1> QED
  BY <1>2, <1>3, <1>4 DEF Below, Settled

\* The router puts its objects back.
LEMMA LeaveRouterKeeps ==
    ASSUME Structure, NEW g \in Routines, LeaveRouter(g)
    PROVE  Structure'
<1> DEFINE k == place[g].at
           q == g[1]
           o == Below(g)[2]
<1>1. /\ k \in DOMAIN Layers /\ Layers[k] = "router" /\ place[g].going = "out"
      /\ paramWriters' = [paramWriters EXCEPT ![o] = [under |-> NoWriter, params |-> Nobody]]
      /\ freeWriters' = freeWriters \cup {o}
      /\ freeParams' = freeParams \cup {taken[q]}
      /\ taken' = [taken EXCEPT ![q] = Nobody]
      /\ Leave(g, "out")
      /\ setup' = setup
      /\ UNCHANGED <<statusWriters, freeStatus, params>>
  BY DEF LeaveRouter, Is, context
<1>2. /\ k + 1 \in Levels(Layers) /\ k \in Nat /\ k >= 1 /\ q \in Requests
      /\ Live(Layers, place, q, k + 1) /\ Below(g) = writer[q][k + 1]
  BY <1>1, BelowIs DEF Going
<1>3. Made(Layers, place, q, k + 1, {"router"})
  BY <1>1, <1>2 DEF Made
<1>4. /\ o \in Objects \ freeWriters /\ paramWriters[o].params = taken[q] /\ taken[q] # Nobody
      /\ taken[q] \in Objects
  <2>1. ParamOK(Layers, place, writer, paramWriters, taken, freeWriters, q, k + 1)
    BY <1>2 DEF Structure, LevelOK
  <2> QED
    BY <1>2, <1>3, <2>1 DEF ParamOK, Structure, TypeOK
<1>5. Moves(g, 0) /\ Drops(Layers, place', q, k + 1)
  BY <1>1, <1>2, LeavingOne DEF Going
<1>6. ASSUME NEW r \in Requests, NEW j \in Levels(Layers), Made(Layers, place', r, j, {"router"})
      PROVE  r # q /\ writer[r][j][2] \in Objects \ freeWriters /\ writer[r][j][2] # o
  <2>1. j - 1 \in DOMAIN Layers /\ Layers[j - 1] = "router" /\ j \in Nat
    BY <1>6, SetupFacts DEF Made, Levels, Structure, TypeOK
  <2>2. j - 1 = k
    BY <1>1, <2>1, SetupFacts DEF ChainOK, Structure, TypeOK
  <2>3. r # q
    BY <1>2, <1>5, <1>6, <2>1, <2>2 DEF Drops, Made
  <2>4. ~(r = g[1] /\ j = 0)
    BY <2>3
  <2>5. writer[r][j][2] \in Objects \ freeWriters
        /\ paramWriters[writer[r][j][2]].params = taken[r] /\ taken[r] # Nobody
    BY <1>5, <1>6, <2>4, InUse
  <2>6. taken[r] # taken[q]
    BY <1>2, <2>3, <2>5 DEF Structure, OwnParams
  <2> QED
    BY <1>4, <2>3, <2>5, <2>6
<1> HIDE DEF k, o, q
<1>7. Layers' = Layers /\ 0 \notin Levels(Layers)
  BY <1>1 DEF Layers, Levels
<1>8. /\ paramWriters' \in [Objects -> [under : Writers, params : Objects \cup {Nobody}]]
      /\ \A x \in Objects : x # o => paramWriters'[x] = paramWriters[x]
  <2>1. paramWriters \in [Objects -> [under : Writers, params : Objects \cup {Nobody}]]
        /\ NoWriter \in Writers
    BY DEF Structure, TypeOK, NoWriter, Writers
  <2> QED
    BY <1>1, <1>4, <2>1
<1>9. /\ taken' \in [Requests -> Objects \cup {Nobody}]
      /\ taken'[q] = Nobody /\ \A r \in Requests : r # q => taken'[r] = taken[r]
  BY <1>1, <1>2 DEF Structure, TypeOK
<1>10. TypeOK'
  BY <1>1, <1>4, <1>5, <1>7, <1>8, <1>9 DEF TypeOK, Structure, Moves, IsWriters
<1>11. ObjectsKept(q, 0)
  <2>1. ASSUME NEW r \in Requests, NEW j \in Levels(Layers)
        PROVE  Held(Layers, place', r, j) => writer[r][j][2] \in Objects \ freeStatus
    BY <1>5, <1>7, <2>1, InUse
  <2> QED
    BY <1>1, <1>6, <1>8, <1>9, <2>1 DEF ObjectsKept
<1>12. OwnStatus(Layers, place', writer')
  <2>1. ~Held(Layers, place', g[1], 0)
    BY DEF Held, Made
  <2> QED
    BY <1>5, <2>1, OwnStatusKept DEF Structure, Moves
<1>13. OwnParams(taken', freeParams', params')
  <2>1. ASSUME NEW r \in Requests, taken'[r] # Nobody
        PROVE  taken'[r] \notin freeParams' /\ params'[taken'[r]] = <<r>>
    <3>1. r # q /\ taken'[r] = taken[r]
      BY <1>9, <2>1
    <3>2. taken[r] \notin freeParams /\ params[taken[r]] = <<r>> /\ taken[r] # taken[q]
      BY <1>2, <2>1, <3>1 DEF Structure, OwnParams
    <3> QED
      BY <1>1, <3>1, <3>2
  <2>2. ASSUME NEW r \in Requests, NEW s \in Requests, taken'[r] = taken'[s], taken'[r] # Nobody
        PROVE  r = s
    BY <1>9, <2>2 DEF OwnParams, Structure
  <2> QED
    BY <2>1, <2>2 DEF OwnParams
<1> QED
  BY <1>1, <1>5, <1>7, <1>10, <1>11, <1>12, <1>13, StructureKept DEF Moves, q

\* What a log holds when next has returned or panicked
LEMMA HeldBelow ==
    ASSUME Structure, NEW g \in Routines, place[g].at \in DOMAIN Layers,
           Layers[place[g].at] \in Logs, place[g].going \in {"out", "up"}
    PROVE  /\ place[g].at + 1 \in Levels(Layers) /\ place[g].at \in Nat /\ place[g].at >= 1
           /\ g[1] \in Requests
           /\ Held(Layers, place, g[1], place[g].at + 1)
           /\ Below(g) = writer[g[1]][place[g].at + 1]
           /\ Below(g)[2] \in Objects \ freeStatus
           /\ Below(g) = StatusOf(Below(g)[2])
<1>1. /\ place[g].at + 1 \in Levels(Layers) /\ place[g].at \in Nat /\ place[g].at >= 1
      /\ g[1] \in Requests
      /\ Live(Layers, place, g[1], place[g].at + 1)
      /\ Below(g) = writer[g[1]][place[g].at + 1]
      /\ ~Settled(Layers, place, g[1], place[g].at + 1)
  BY BelowIs DEF Going
<1>2. Held(Layers, place, g[1], place[g].at + 1) /\ Made(Layers, place, g[1], place[g].at + 1, Logs)
  BY <1>1 DEF Held, Made
<1>3. StatusOK(Layers, place, writer, statusWriters, freeStatus, g[1], place[g].at + 1)
  BY <1>1 DEF Structure, LevelOK
<1> QED
  BY <1>1, <1>2, <1>3 DEF StatusOK

\* It is not one that another log will hold.
LEMMA SettleSpares ==
    ASSUME Structure, NEW g \in Routines, place[g].at \in DOMAIN Layers,
           Layers[place[g].at] \in Logs, place[g].going \in {"out", "up"},
           Moves(g, 0), ~Held(Layers, place', g[1], place[g].at + 1),
           NEW r \in Requests, NEW j \in Levels(Layers)
    PROVE  /\ Held(Layers, place', r, j) =>
                /\ Held(Layers, place, r, j) /\ writer'[r][j] = writer[r][j]
                /\ writer[r][j][2] \in Objects \ freeStatus /\ writer[r][j][2] # Below(g)[2]
           /\ Made(Layers, place', r, j, {"router"}) => writer[r][j][2] \in Objects \ freeWriters
<1> DEFINE k == place[g].at
           q == g[1]
           o == Below(g)[2]
<1>1. /\ k + 1 \in Levels(Layers) /\ q \in Requests
      /\ Held(Layers, place, q, k + 1) /\ Below(g) = writer[q][k + 1]
      /\ Below(g) = StatusOf(o)
  BY HeldBelow
<1>2. ~(r = g[1] /\ j = 0)
  BY DEF Levels
<1>3. /\ Held(Layers, place', r, j) =>
           /\ Held(Layers, place, r, j) /\ writer'[r][j] = writer[r][j]
           /\ writer[r][j][2] \in Objects \ freeStatus
           /\ writer[r][j] = StatusOf(writer[r][j][2])
      /\ Made(Layers, place', r, j, {"router"}) => writer[r][j][2] \in Objects \ freeWriters
  BY <1>2, InUse
<1>4. Held(Layers, place', r, j) => ~(r = q /\ j = k + 1)
  OBVIOUS
<1>5. \A a, b \in Requests : \A i, m \in Levels(Layers) :
        Held(Layers, place, a, i) /\ Held(Layers, place, b, m) /\ writer[a][i] = writer[b][m]
          => a = b /\ i = m
  BY DEF Structure, OwnStatus
<1>6. Held(Layers, place', r, j) => writer[r][j] # writer[q][k + 1]
  BY <1>1, <1>3, <1>4, <1>5
<1> QED
  BY <1>1, <1>3, <1>6

\* A log puts its statusWriter back, and is left or waits for the mutex.
LEMMA SettleKeeps ==
    ASSUME Structure, NEW g \in Routines, place[g].at \in DOMAIN Layers,
           Layers[place[g].at] \in Logs, place[g].going \in {"out", "up"}, Settle(g),
           Moves(g, 0), ~Held(Layers, place', g[1], place[g].at + 1)
    PROVE  Structure'
<1> DEFINE k == place[g].at
           q == g[1]
           o == Below(g)[2]
<1>1. /\ statusWriters' = [statusWriters EXCEPT ![o] = [under |-> NoWriter, status |-> 0]]
      /\ freeStatus' = freeStatus \cup {o}
      /\ setup' = setup
      /\ UNCHANGED <<paramWriters, params, taken, freeWriters, freeParams>>
  BY DEF Settle, context, routerPools
<1>2. /\ k + 1 \in Levels(Layers) /\ q \in Requests
      /\ Held(Layers, place, q, k + 1) /\ Below(g) = writer[q][k + 1]
      /\ o \in Objects \ freeStatus /\ Below(g) = StatusOf(o)
  BY HeldBelow
<1>3. ASSUME NEW r \in Requests, NEW j \in Levels(Layers)
      PROVE  /\ Held(Layers, place', r, j) =>
                    writer[r][j][2] \in Objects \ freeStatus /\ writer[r][j][2] # o
             /\ Made(Layers, place', r, j, {"router"}) => writer[r][j][2] \in Objects \ freeWriters
  BY SettleSpares
<1> HIDE DEF k, o, q
<1>4. Layers' = Layers /\ 0 \notin Levels(Layers)
  BY <1>1 DEF Layers, Levels
<1>5. /\ statusWriters' \in [Objects -> [under : Writers, status : Nat]]
      /\ \A x \in Objects : x # o => statusWriters'[x] = statusWriters[x]
  <2>1. statusWriters \in [Objects -> [under : Writers, status : Nat]] /\ NoWriter \in Writers
    BY DEF Structure, TypeOK, NoWriter, Writers
  <2> QED
    BY <1>1, <1>2, <2>1
<1>6. TypeOK'
  BY <1>1, <1>2, <1>4, <1>5 DEF TypeOK, Structure, Moves, IsWriters
<1>7. ObjectsKept(q, 0)
  BY <1>1, <1>3, <1>5 DEF ObjectsKept
<1>8. OwnStatus(Layers, place', writer')
  <2>1. ~Held(Layers, place', g[1], 0)
    BY DEF Held, Made
  <2> QED
    BY <2>1, OwnStatusKept DEF Structure, Moves
<1>9. OwnParams(taken', freeParams', params')
  BY <1>1 DEF Structure
<1> QED
  BY <1>1, <1>4, <1>6, <1>7, <1>8, <1>9, StructureKept DEF Moves, q

\* What AccessLog does on the way back
LEMMA LogAccessMoves ==
    ASSUME Structure, NEW g \in Routines, LogAccess(g)
    PROVE  Moves(g, 0) /\ ~Held(Layers, place', g[1], place[g].at + 1)
<1>1. /\ place[g].at \in DOMAIN Layers /\ Layers[place[g].at] = "access"
      /\ place[g].going \in {"out", "up"} /\ Leave(g, place[g].going)
  BY DEF LogAccess, Is
<1>2. Layers[place[g].at] \in Logs /\ Layers[place[g].at] # "timeout" /\ place[g].going \in Going
  BY <1>1 DEF Logs, Going
<1>3. place[g].at + 1 \in Levels(Layers) /\ place[g].at \in Nat /\ place[g].at >= 1
  BY <1>1, <1>2, HeldBelow
<1>4. Moves(g, 0) /\ Drops(Layers, place', g[1], place[g].at + 1)
  BY <1>1, <1>2, <1>3, LeavingOne
<1>5. ~Held(Layers, place', g[1], place[g].at + 1)
  <2>1. Layers[(place[g].at + 1) - 1] # "timeout"
    BY <1>2, <1>3
  <2> QED
    BY <1>3, <1>4, <2>1 DEF Held, Made, Drops
<1> QED
  BY <1>4, <1>5

\* AccessLog settles and is left.
LEMMA LogAccessKeeps ==
    ASSUME Structure, NEW g \in Routines, LogAccess(g)
    PROVE  Structure'
<1>1. /\ place[g].at \in DOMAIN Layers /\ Layers[place[g].at] \in Logs
      /\ place[g].going \in {"out", "up"} /\ Settle(g)
  BY DEF LogAccess, Is, Logs
<1> QED
  BY <1>1, LogAccessMoves, SettleKeeps

\* Logger formats its line and puts its statusWriter back before it asks for the mutex:
LEMMA FormatLineIs ==
    ASSUME Structure, NEW g \in Routines, FormatLine(g)
    PROVE  /\ Moves(g, 0) /\ ~Held(Layers, place', g[1], place[g].at + 1)
           /\ Moved(place, place', g,
                    At(place[g].at, IF place[g].going = "up" THEN "logUp" ELSE "logOut"))
<1> DEFINE to == IF place[g].going = "up" THEN "logUp" ELSE "logOut"
<1>1. /\ place[g].at \in DOMAIN Layers /\ Layers[place[g].at] = "line"
      /\ place[g].going \in {"out", "up"} /\ Settle(g) /\ writer' = writer
      /\ place' = [place EXCEPT ![g].going = to]
  BY DEF FormatLine, Is
<1>2. Layers[place[g].at] \in Logs /\ place[g].going \in Going
      /\ to \in {"logOut", "logUp"} /\ to \in Goings
  BY <1>1 DEF Logs, Going, Goings
<1>3. ChainOK(Layers) /\ RoutinesOK(Layers, place) /\ IsPlaces(place)
  BY SetupFacts DEF Structure, TypeOK, RoutinesOK
<1>4. Moved(place, place', g, At(place[g].at, to))
  <2>1. place[g] \in [at : Nat, going : Goings]
    BY <1>3 DEF IsPlaces
  <2>2. [place[g] EXCEPT !.going = to] = At(place[g].at, to)
    BY <2>1 DEF At
  <2> QED
    BY <1>1, <2>2 DEF Moved
<1> HIDE DEF to
<1>5. /\ RoutinesOK(Layers, place') /\ KeepsLevels(Layers, place, place', g[1], 0)
      /\ ~Held(Layers, place', g[1], place[g].at + 1)
  BY <1>1, <1>2, <1>3, <1>4, StayMoves
<1>6. IsWriters(Layers, writer') /\ SameWriters(Layers, place', writer, writer', g[1], 0)
  BY <1>1 DEF SameWriters, IsWriters, Structure, TypeOK
<1>7. ASSUME NEW r \in Requests PROVE PairOK(place', setup.sent, r)
  <2>1. PairOK(place, setup.sent, r) /\ At(place[g].at, to).going = to
    BY DEF Structure, At
  <2>2. place[g].going # "absent" /\ to # "absent" /\ to # "in"
    BY <1>2 DEF Going
  <2> QED
    BY <1>3, <1>4, <2>1, <2>2, PairKept
<1> QED
  BY <1>4, <1>5, <1>6, <1>7 DEF Moves, to

\* the pool it goes to then has it once.
LEMMA FormatLineKeeps ==
    ASSUME Structure, NEW g \in Routines, FormatLine(g)
    PROVE  Structure'
<1>1. /\ place[g].at \in DOMAIN Layers /\ Layers[place[g].at] \in Logs
      /\ place[g].going \in {"out", "up"} /\ Settle(g)
  BY DEF FormatLine, Is, Logs
<1> QED
  BY <1>1, FormatLineIs, SettleKeeps

\* A statusWriter that notes a status goes on wrapping what it wrapped.
LEMMA NotedKeeps ==
    ASSUME Structure, NEW path, NEW code \in Nat
    PROVE  /\ Noted(path, code) \in [Objects -> [under : Writers, status : Nat]]
           /\ \A o \in Objects :
                /\ Noted(path, code)[o].under = statusWriters[o].under
                /\ Noted(path, code)[o].status = IF StatusOf(o) \in path
                                                 THEN FirstStatus(statusWriters[o].status, code)
                                                 ELSE statusWriters[o].status
<1>1. statusWriters \in [Objects -> [under : Writers, status : Nat]]
  BY DEF Structure, TypeOK
<1>2. \A old \in Nat : FirstStatus(old, code) \in Nat
  BY DEF FirstStatus
<1> QED
  BY <1>1, <1>2 DEF Noted

\* Writing leaves the objects where they are.
LEMMA WriteKeeps ==
    ASSUME Structure, NEW w, NEW code \in Nat, NEW header, Write(w, code, header),
           UNCHANGED <<routerPools, freeStatus>>
    PROVE  PoolsSame
<1>1. statusWriters \in [Objects -> [under : Writers, status : Nat]]
  BY DEF Structure, TypeOK
<1>2. statusWriters' = Noted(Path(w), code)
  BY DEF Write
<1> QED
  BY <1>1, <1>2, NotedKeeps DEF PoolsSame

\* So does the end of a Timeout's time.
LEMMA ExpireKeeps ==
    ASSUME Structure, NEW g \in Routines, Expire(g)
    PROVE  PoolsSame
<1>1. statusWriters' = Noted(Path(W(g)), 503) /\ UNCHANGED <<routerPools, freeStatus>>
  BY DEF Expire
<1> QED
  BY <1>1, NotedKeeps DEF PoolsSame

\* What a goroutine may do from where it is
LEMMA MayLeave ==
    ASSUME Structure, NEW g \in Routines, place[g].at \in DOMAIN Layers,
           place[g].going \in Going \cup {"in", "wait"}
    PROVE  /\ place[g].at # 0
           /\ Layers[place[g].at] # "timeout" \/ place[g].going = "wait" =>
                (place[g].at \in DOMAIN Layers /\ Layers[place[g].at] = "timeout" => g[2] = "conn")
<1>1. 0 \notin DOMAIN Layers
  BY SetupFacts DEF Structure, TypeOK
<1>2. RoutineOK(Layers, g, place[g])
  BY DEF Structure, RoutinesOK
<1> QED
  BY <1>1, <1>2 DEF RoutineOK

\* Steps that leave a layer and otherwise only write
LEMMA WriteAndLeave ==
    ASSUME Structure, setup' = setup, PoolsSame, NEW g \in Routines, place[g].at \in DOMAIN Layers,
           place[g].going \in Going \cup {"in", "wait"},
           Layers[place[g].at] # "timeout" \/ place[g].going = "wait",
           NEW how \in {"out", "up"}, Leave(g, how)
    PROVE  Structure'
BY MayLeave, LeaveKeeps

BuffersOK == \A r \in Requests : buffer[r].status \in Nat

\* The structure is kept, one lemma for each kind of step.
LEMMA StructureStep ==
    ASSUME Structure, BuffersOK, NEW g \in Routines, Step(g)
    PROVE  Structure'
<1>1. ASSUME UNCHANGED pools PROVE PoolsSame
  BY <1>1 DEF pools, PoolsSame, Structure, TypeOK
<1>2. CASE EnterRecovery(g)
  BY <1>1, <1>2, CallKeeps DEF EnterRecovery, Is, Passing, context
<1>3. ASSUME NEW rescue \in Answers, WriteHeader(W(g), rescue.code), Leave(g, rescue.how),
             UNCHANGED <<context, routerPools, freeStatus>>,
             place[g].at \in DOMAIN Layers, place[g].going = "up", Layers[place[g].at] # "timeout"
      PROVE  Structure'
  <2>1. rescue.code \in Nat /\ rescue.how \in {"out", "up"}
    BY DEF Answers
  <2>2. PoolsSame
    BY <1>3, <2>1, WriteKeeps DEF WriteHeader
  <2> QED
    BY <1>3, <2>1, <2>2, WriteAndLeave DEF Going, context
<1>21. CASE Recover(g)
  <2>1. PICK rescue \in setup.Handler : WriteHeader(W(g), rescue.code) /\ Leave(g, rescue.how)
    BY <1>21 DEF Recover, Rescue
  <2>2. rescue \in Answers
    BY SetupFacts DEF Structure, TypeOK
  <2> QED
    BY <1>3, <1>21, <2>1, <2>2 DEF Recover, Is
<1>4. CASE Pass(g)
  BY <1>1, <1>4, WriteAndLeave DEF Pass, Is, Going, context
<1>5. CASE EnterTimeout(g)
  BY <1>5, TimeoutKeeps
<1>6. CASE PassOn(g)
  <2>1. PICK code, header : code \in Nat /\ Write(W(g), code, header)
    <3>1. g[1] \in Requests
      BY DEF Routines
    <3> QED
      BY <1>6, <3>1 DEF PassOn, BuffersOK
  <2>2. PoolsSame
    BY <1>6, <2>1, WriteKeeps DEF PassOn
  <2> QED
    BY <1>6, <2>2, WriteAndLeave DEF PassOn, Is, Going, context
<1>7. CASE Rethrow(g)
  BY <1>1, <1>7, WriteAndLeave DEF Rethrow, Is, Going, context
<1>8. CASE Expire(g)
  <2>1. PoolsSame
    BY <1>8, ExpireKeeps
  <2> QED
    BY <1>8, <2>1, WriteAndLeave DEF Expire, Is, Going, context
<1>9. CASE EnterRouter(g)
  BY <1>9, EnterRouterKeeps
<1>10. CASE LeaveRouter(g)
  BY <1>10, LeaveRouterKeeps
<1>11. CASE PanicInRouter(g)
  <2>1. CASE Leave(g, "up") /\ UNCHANGED statusWriters
    <3>1. PoolsSame
      BY <1>1, <1>11, <2>1 DEF PanicInRouter, pools
    <3> QED
      BY <1>11, <2>1, <3>1, WriteAndLeave DEF PanicInRouter, Is, Going, context
  <2>2. ASSUME NEW rescue \in setup.PanicHandler, WriteHeader(W(g), rescue.code),
               Leave(g, rescue.how)
        PROVE  Structure'
    <3>1. rescue \in Answers
      BY <2>2, SetupFacts DEF Structure, TypeOK
    <3> QED
      BY <1>3, <1>11, <2>2, <3>1 DEF PanicInRouter, Is
  <2> QED
    BY <1>11, <2>1, <2>2 DEF PanicInRouter, Rescue
<1>12. CASE EnterLog(g)
  BY <1>12, EnterLogKeeps
<1>13. CASE LogAccess(g)
  BY <1>13, LogAccessKeeps
<1>14. CASE FormatLine(g)
  BY <1>14, FormatLineKeeps
<1>15. CASE WriteLine(g)
  <2>1. PICK how \in {"out", "up"} : Leave(g, how)
    BY <1>15 DEF WriteLine
  <2>2. PoolsSame /\ setup' = setup
    BY <1>1, <1>15 DEF WriteLine, Locked, context
  <2> QED
    BY <1>15, <2>1, <2>2, WriteAndLeave DEF WriteLine, Locked, Is, Going
<1>16. CASE WriterPanics(g)
  <2>1. PoolsSame /\ setup' = setup
    BY <1>1, <1>16 DEF WriterPanics, Locked, context
  <2> QED
    BY <1>16, <2>1, WriteAndLeave DEF WriterPanics, Locked, Is, Going
<1>17. CASE EnterRequestID(g)
  <2>1. PoolsSame
    BY <1>17, WriteKeeps DEF EnterRequestID
  <2> QED
    BY <1>17, <2>1, CallKeeps DEF EnterRequestID, Is, Passing
<1>18. CASE PassCORS(g)
  BY <1>1, <1>18, CallKeeps DEF PassCORS, Is, Passing, context
<1>19. CASE ForbidCORS(g)
  <2>1. PoolsSame
    BY <1>19, WriteKeeps DEF ForbidCORS, WriteHeader
  <2> QED
    BY <1>19, <2>1, WriteAndLeave DEF ForbidCORS, Is, context
<1>20. CASE AllowCORS(g)
  <2>1. PICK code, header : code \in Nat /\ Write(W(g), code, header)
    BY <1>20 DEF AllowCORS
  <2>2. PoolsSame /\ setup' = setup
    BY <1>20, <2>1, WriteKeeps DEF AllowCORS, context
  <2>3. /\ Leave(g, "out") \/ Call(g, W(g))
        /\ place[g].at \in DOMAIN Layers /\ Layers[place[g].at] = "cors" /\ place[g].going = "in"
    BY <1>20 DEF AllowCORS, Is
  <2> QED
    BY <2>2, <2>3, WriteAndLeave, CallKeeps DEF Passing
<1> QED
  BY <1>2, <1>4, <1>5, <1>6, <1>7, <1>8, <1>9, <1>10, <1>11, <1>12, <1>13, <1>14, <1>15,
     <1>16, <1>17, <1>18, <1>19, <1>20, <1>21 DEF Step

\* The handler's writes, reads, panics and returns keep the structure.
LEMMA StructureHandler ==
    ASSUME Structure, NEW g \in Routines, Handler(g)
    PROVE  Structure'
<1>1. CASE HandlerWrites(g)
  <2>1. PICK code \in setup.codes : WriteHeader(W(g), code)
    BY <1>1 DEF HandlerWrites
  <2>2. code \in Nat
    BY SetupFacts DEF Structure, TypeOK
  <2>3. PoolsSame
    BY <1>1, <2>1, <2>2, WriteKeeps DEF HandlerWrites, WriteHeader
  <2> QED
    BY <1>1, <2>3, NobodyKeeps DEF HandlerWrites, context
<1>2. CASE HandlerEnds(g)
  <2>1. PICK how \in {"out", "up"} : Leave(g, how)
    BY <1>2 DEF HandlerEnds
  <2>2. PoolsSame /\ setup' = setup
    BY <1>2 DEF HandlerEnds, pools, context, PoolsSame, Structure, TypeOK
  <2>3. place[g].going = "in" /\ place[g].at = Len(Layers) + 1 /\ Len(Layers) \in Nat
        /\ DOMAIN Layers = 1 .. Len(Layers)
    BY <1>2, SetupFacts DEF HandlerEnds, InHandler, At, Inner, Structure, TypeOK
  <2>4. place[g].at # 0 /\ place[g].at \notin DOMAIN Layers
    BY <2>3
  <2> QED
    BY <2>1, <2>2, <2>3, <2>4, LeaveKeeps
<1>3. CASE HandlerFlushes(g)
  <2>1. PoolsSame
    BY <1>3 DEF HandlerFlushes, pools, PoolsSame, Structure, TypeOK
  <2> QED
    BY <1>3, <2>1, NobodyKeeps DEF HandlerFlushes, context
<1> QED
  BY <1>1, <1>2, <1>3 DEF Handler

\* Every step keeps the structure.
LEMMA StructureNext ==
    ASSUME Structure, BuffersOK, [Next]_vars
    PROVE  Structure'
<1>1. ASSUME UNCHANGED vars PROVE Structure'
  BY <1>1, NobodyKeeps DEF vars, context, pools, PoolsSame, Structure, TypeOK
<1> QED
  BY <1>1, StructureStep, StructureHandler, ArriveKeeps, FinishKeeps DEF Next, Quiet

\* At first nothing is in use, and every pool has each of its objects at most once.
LEMMA StructureInit ==
    ASSUME Init
    PROVE  Structure
<1>1. setup \in Setups /\ ChainOK(Layers) /\ Len(Layers) \in Nat
  BY SetupFacts DEF Init
<1>2. /\ place = [g \in Routines |-> At(0, "absent")]
      /\ writer = [r \in Requests |-> [k \in 1 .. Inner |-> NoWriter]]
  BY DEF Init
<1>3. TypeOK
  <2>1. NoWriter \in Writers /\ 0 \in Nat /\ <<>> \in Seq(Requests)
    BY DEF NoWriter, Writers
  <2> QED
    BY <1>1, <1>2, <2>1 DEF TypeOK, IsWriters, Init, Inner, Levels
<1>4. RoutinesOK(Layers, place)
  <2>1. IsPlaces(place) /\ \A g \in Routines : place[g] = At(0, "absent")
    BY <1>2 DEF IsPlaces, At, Goings
  <2> QED
    BY <2>1 DEF RoutinesOK, RoutineOK, At, Going
<1>5. ASSUME NEW r \in Requests PROVE PairOK(place, setup.sent, r)
  <2>1. <<r, "conn">> \in Routines /\ <<r, "timeout">> \in Routines
    BY DEF Routines
  <2> QED
    BY <1>2, <2>1 DEF PairOK, At
<1>6. ASSUME NEW r \in Requests, NEW k \in Levels(Layers) PROVE ~Live(Layers, place, r, k)
  <2>1. Routine(Layers, r, k) \in Routines /\ k \in Nat /\ k >= 1
    BY <1>1, Routing
  <2> QED
    BY <1>2, <2>1 DEF Live, Top, At
<1>7. \A r \in Requests : \A k \in Levels(Layers) : LevelOK(r, k)
  BY <1>6 DEF LevelOK, LinkOK, StatusOK, ParamOK, Held, Made
<1>8. OwnStatus(Layers, place, writer)
  BY <1>6 DEF OwnStatus, Held, Made
<1>9. OwnParams(taken, freeParams, params)
  BY DEF OwnParams, Init
<1> QED
  BY <1>3, <1>4, <1>5, <1>7, <1>8, <1>9 DEF Structure

-----------------------------------------------------------------------------
(* The writers that a call passes through *)

\* A chain of writers, each wrapped by the one before
Unwraps(f, w) ==
    /\ f \in [0 .. Inner -> Writers]
    /\ f[0] = w
    /\ \A n \in 1 .. Inner : f[n] = Unwrap(f[n - 1])

\* What Unwrap gives is again a writer: a wrapper's writer, and nothing for what wraps none.
LEMMA UnwrapIs ==
    ASSUME Structure
    PROVE  /\ \A w \in Writers : Unwrap(w) \in Writers
           /\ \A r \in Requests : Unwrap(Conn(r)) = NoWriter /\ Unwrap(Buffer(r)) = NoWriter
           /\ \A o \in Objects : /\ Unwrap(StatusOf(o)) = statusWriters[o].under
                                 /\ Unwrap(ParamOf(o)) = paramWriters[o].under
           /\ Unwrap(NoWriter) = NoWriter
<1>1. /\ \A r \in Requests : Unwrap(Conn(r)) = NoWriter /\ Unwrap(Buffer(r)) = NoWriter
      /\ Unwrap(NoWriter) = NoWriter
  BY DEF Unwrap, Conn, Buffer, NoWriter
<1>2. \A o \in Objects : /\ Unwrap(StatusOf(o)) = statusWriters[o].under
                         /\ Unwrap(ParamOf(o)) = paramWriters[o].under
  BY DEF Unwrap, StatusOf, ParamOf
<1>3. \A o \in Objects : statusWriters[o].under \in Writers /\ paramWriters[o].under \in Writers
  BY DEF Structure, TypeOK
<1>4. ASSUME NEW w \in Writers PROVE Unwrap(w) \in Writers
  BY <1>1, <1>2, <1>3 DEF Writers
<1> QED
  BY <1>1, <1>2, <1>4

\* Path lists such a chain.
LEMMA PathListed ==
    ASSUME Structure, NEW w \in Writers
    PROVE  \E f : Unwraps(f, w) /\ Path(w) = {f[n] : n \in 0 .. Inner} \ {NoWriter}
<1> DEFINE N == Inner
           next == [v \in Writers |-> Unwrap(v)]
           Steps(f) == f = [n \in 0 .. N |-> IF n = 0 THEN w ELSE Unwrap(f[n - 1])]
           down == CHOOSE f : Steps(f)
<1>1. N \in Nat
  BY SetupFacts DEF Structure, TypeOK, Inner
<1>2. Path(w) = {down[n] : n \in 0 .. N} \ {NoWriter}
  BY DEF Path
<1>3. next \in [Writers -> Writers] /\ \A v \in Writers : next[v] = Unwrap(v)
  BY UnwrapIs
<1> HIDE DEF N, next
<1>4. PICK f : Iterates(f, N, Writers, w, next)
  BY <1>1, <1>3, Orbit
<1>5. f \in [0 .. N -> Writers] /\ f[0] = w /\ \A n \in 1 .. N : f[n] = next[f[n - 1]]
  BY <1>4 DEF Iterates
<1>6. Steps(f)
  <2>1. ASSUME NEW n \in 0 .. N PROVE f[n] = IF n = 0 THEN w ELSE Unwrap(f[n - 1])
    <3>1. n # 0 => n \in 1 .. N /\ f[n - 1] \in Writers
      BY <1>1, <1>5
    <3> QED
      BY <1>3, <1>5, <3>1
  <2>2. f = [n \in 0 .. N |-> f[n]]
    BY <1>5
  <2> QED
    BY <2>1, <2>2
<1>7. Steps(down)
  BY <1>6
<1> HIDE DEF down
<1>8. /\ down[0] = w
      /\ \A n \in 1 .. N : down[n] = Unwrap(down[n - 1])
      /\ down = [n \in 0 .. N |-> down[n]]
  BY SMTT(30), <1>1, <1>7
<1>9. \A n \in 0 .. N : down[n] \in Writers
  <2> DEFINE P == {n \in 0 .. N : down[n] \in Writers}
  <2>1. 0 \in P
    BY <1>1, <1>8
  <2>2. ASSUME NEW n \in 0 .. N - 1, n \in P PROVE n + 1 \in P
    <3>1. n + 1 \in 1 .. N /\ (n + 1) - 1 = n
      BY <1>1
    <3>2. down[n + 1] = Unwrap(down[n])
      BY <1>8, <3>1
    <3> QED
      BY <1>1, <2>2, <3>1, <3>2, UnwrapIs
  <2>3. 0 .. N \subseteq P
    <3> HIDE DEF P
    <3> QED
      BY <1>1, <2>1, <2>2, UpTo
  <2> QED
    BY <2>3
<1>10. Unwraps(down, w)
  BY <1>8, <1>9 DEF Unwraps, N
<1> QED
  BY <1>2, <1>10 DEF N

\* A goroutine runs the level that it is at.
Runs(g) == place[g].at \in Levels(Layers) /\ Routine(Layers, g[1], place[g].at) = g

\* The levels up to k that are run by the same goroutine, and those of them that
\* are called with a writer of their own
Mine(ls, k)   == {j \in Levels(ls) : j <= k /\ Side(ls, j) = Side(ls, k)}
Makers(ls, k) == {j \in Mine(ls, k) : j = 1 \/ ls[j - 1] \notin Passing}

\* Mine is closed downwards, up to the Timeout.
LEMMA MineBelow ==
    ASSUME NEW ls, ChainOK(ls), NEW k \in Levels(ls), NEW j \in Mine(ls, k)
    PROVE  /\ j \in Levels(ls) /\ j \in Nat /\ j >= 1 /\ j <= k /\ Len(ls) \in Nat
           /\ j > 1 => j - 1 \in DOMAIN ls /\ ls[j - 1] \in LayerKinds
           /\ j > 1 /\ ls[j - 1] # "timeout" => j - 1 \in Mine(ls, k)
<1>1. /\ j \in Levels(ls) /\ j <= k /\ Side(ls, j) = Side(ls, k)
      /\ Len(ls) \in Nat /\ DOMAIN ls = 1 .. Len(ls) /\ j \in Nat /\ k \in Nat /\ j >= 1
  BY DEF Mine, ChainOK, Levels
<1>2. j > 1 => j - 1 \in DOMAIN ls /\ ls[j - 1] \in LayerKinds /\ (j - 1) + 1 = j
  BY <1>1 DEF ChainOK, Levels
<1>3. ASSUME j > 1, ls[j - 1] # "timeout" PROVE j - 1 \in Mine(ls, k)
  <2>1. j - 1 \in Levels(ls) /\ Side(ls, (j - 1) + 1) = Side(ls, j - 1)
    BY <1>2, <1>3, SameSide
  <2> QED
    BY <1>1, <1>2, <1>3, <2>1 DEF Mine
<1> QED
  BY <1>1, <1>2, <1>3

\* Going up from one of them, the next one is too.
LEMMA MineAbove ==
    ASSUME NEW ls, ChainOK(ls), NEW k \in Levels(ls), NEW i \in Nat, i <= k, i - 1 \in Mine(ls, k)
    PROVE  i \in Mine(ls, k) /\ i > 1 /\ ls[i - 1] # "timeout" /\ ls[i - 1] \in LayerKinds
<1>1. /\ Len(ls) \in Nat /\ DOMAIN ls = 1 .. Len(ls) /\ k \in Nat /\ k <= Len(ls) + 1
      /\ i - 1 \in Levels(ls) /\ i - 1 >= 1 /\ Side(ls, i - 1) = Side(ls, k)
  BY DEF Mine, ChainOK, Levels
<1>2. i > 1 /\ i - 1 \in DOMAIN ls /\ (i - 1) + 1 = i /\ ~(k <= i - 1)
  BY <1>1
<1>3. ls[i - 1] # "timeout"
  <2>1. ASSUME ls[i - 1] = "timeout" PROVE FALSE
    <3>1. \A m \in Levels(ls) : Side(ls, m) = IF m <= i - 1 THEN "conn" ELSE "timeout"
      BY <1>2, <2>1, TimeoutSides
    <3>2. Side(ls, k) = "timeout" /\ Side(ls, i - 1) = "conn"
      BY <1>1, <1>2, <3>1
    <3> QED
      BY <1>1, <3>2
  <2> QED
    BY <2>1
<1>4. Side(ls, (i - 1) + 1) = Side(ls, i - 1) /\ (i - 1) + 1 \in Levels(ls)
  BY <1>2, <1>3, SameSide
<1> QED
  BY <1>1, <1>2, <1>3, <1>4 DEF Mine, ChainOK

\* What a level is called with, and what that wraps
LevelIs(r, j) ==
    /\ j = 1 => writer[r][j] = Conn(r)
    /\ j > 1 /\ Layers[j - 1] = "timeout" => writer[r][j] = Buffer(r)
    /\ j > 1 /\ Layers[j - 1] \in Passing => writer[r][j] = writer[r][j - 1]
    /\ j > 1 /\ Layers[j - 1] \in Logs =>
          /\ Held(Layers, place, r, j)
          /\ writer[r][j][2] \in Objects /\ writer[r][j] = StatusOf(writer[r][j][2])
          /\ Unwrap(writer[r][j]) = writer[r][j - 1]
    /\ j > 1 /\ Layers[j - 1] = "router" =>
          /\ writer[r][j][2] \in Objects /\ writer[r][j] = ParamOf(writer[r][j][2])
          /\ paramWriters[writer[r][j][2]].params = taken[r] /\ taken[r] # Nobody
          /\ Unwrap(writer[r][j]) = writer[r][j - 1]

\* It is so for the levels of a goroutine that runs the one it is at.
LEMMA MineAre ==
    ASSUME Structure, NEW g \in Routines, Runs(g), NEW j \in Mine(Layers, place[g].at)
    PROVE  LevelIs(g[1], j) /\ g[1] \in Requests
<1> DEFINE k == place[g].at
           r == g[1]
<1>1. ChainOK(Layers) /\ RoutinesOK(Layers, place) /\ r \in Requests /\ k \in Levels(Layers)
  BY SetupFacts DEF Structure, TypeOK, Routines, Runs
<1>2. /\ j \in Levels(Layers) /\ j \in Nat /\ j >= 1 /\ j <= k /\ k \in Nat /\ k >= 1
      /\ Side(Layers, j) = Side(Layers, k)
  BY <1>1, MineBelow DEF Mine, Levels
<1>3. Routine(Layers, r, j) = g
  BY <1>2 DEF Runs, Routine
<1>4. RoutineOK(Layers, g, place[g]) /\ place[g].going \in Goings
  BY <1>1, Places
<1>5. Top(place[g]) \in Nat /\ k <= Top(place[g])
  BY <1>2, <1>4 DEF RoutineOK, Top, Goings, Going
<1>6. Live(Layers, place, r, j) /\ ~Settled(Layers, place, r, j)
  BY <1>2, <1>3, <1>5 DEF Live, Settled
<1>7. /\ LinkOK(Layers, place, writer, r, j)
      /\ StatusOK(Layers, place, writer, statusWriters, freeStatus, r, j)
      /\ ParamOK(Layers, place, writer, paramWriters, taken, freeWriters, r, j)
  BY <1>1, <1>2 DEF Structure, LevelOK
<1>8. \A o \in Objects : /\ Unwrap(StatusOf(o)) = statusWriters[o].under
                         /\ Unwrap(ParamOf(o)) = paramWriters[o].under
  BY UnwrapIs
<1>9. ASSUME j > 1, Layers[j - 1] \in Logs
      PROVE  /\ Held(Layers, place, r, j)
             /\ writer[r][j][2] \in Objects /\ writer[r][j] = StatusOf(writer[r][j][2])
             /\ Unwrap(writer[r][j]) = writer[r][j - 1]
  BY <1>6, <1>7, <1>8, <1>9 DEF StatusOK, Held, Made
<1>10. ASSUME j > 1, Layers[j - 1] = "router"
       PROVE  /\ writer[r][j][2] \in Objects /\ writer[r][j] = ParamOf(writer[r][j][2])
              /\ paramWriters[writer[r][j][2]].params = taken[r] /\ taken[r] # Nobody
              /\ Unwrap(writer[r][j]) = writer[r][j - 1]
  BY <1>6, <1>7, <1>8, <1>10 DEF ParamOK, Made
<1>11. /\ j = 1 => writer[r][j] = Conn(r)
       /\ j > 1 /\ Layers[j - 1] = "timeout" => writer[r][j] = Buffer(r)
       /\ j > 1 /\ Layers[j - 1] \in Passing => writer[r][j] = writer[r][j - 1]
  BY <1>6, <1>7 DEF LinkOK, Made
<1> QED
  BY <1>1, <1>9, <1>10, <1>11 DEF LevelIs

\* Each of them has the writer of one that has its own.
LEMMA SomeMaker ==
    ASSUME Structure, NEW g \in Routines, Runs(g), NEW j \in Mine(Layers, place[g].at)
    PROVE  \E i \in Makers(Layers, place[g].at) : writer[g[1]][i] = writer[g[1]][j]
<1> DEFINE k == place[g].at
           r == g[1]
           Has(n) == n \in Mine(Layers, k) => \E i \in Makers(Layers, k) : writer[r][i] = writer[r][n]
           P == {n \in 0 .. k : Has(n)}
<1>1. ChainOK(Layers) /\ k \in Levels(Layers) /\ k \in Nat
  BY SetupFacts DEF Structure, TypeOK, Runs, Levels
<1>2. 0 \in P
  BY <1>1 DEF Mine, Levels
<1>3. ASSUME NEW n \in 0 .. k - 1, n \in P PROVE n + 1 \in P
  <2>1. n + 1 \in 0 .. k /\ (n + 1) - 1 = n
    BY <1>1
  <2>2. ASSUME n + 1 \in Mine(Layers, k)
        PROVE  \E i \in Makers(Layers, k) : writer[r][i] = writer[r][n + 1]
    <3>1. CASE n + 1 \in Makers(Layers, k)
      BY <3>1
    <3>2. CASE n + 1 \notin Makers(Layers, k)
      <4>1. n + 1 > 1 /\ Layers[n] \in Passing
        BY <1>1, <2>1, <2>2, <3>2, MineBelow DEF Makers
      <4>2. n \in Mine(Layers, k)
        <5>1. Layers[(n + 1) - 1] # "timeout"
          BY <2>1, <4>1 DEF Passing
        <5>2. (n + 1) - 1 \in Mine(Layers, k)
          BY <1>1, <2>2, <4>1, <5>1, MineBelow
        <5> QED
          BY <2>1, <5>2
      <4>3. writer[r][n + 1] = writer[r][n]
        <5>1. LevelIs(r, n + 1)
          BY <2>2, MineAre
        <5> QED
          BY <2>1, <4>1, <5>1 DEF LevelIs
      <4> QED
        BY <1>3, <4>2, <4>3
    <3> QED
      BY <3>1, <3>2
  <2> QED
    BY <2>1, <2>2
<1>4. 0 .. k \subseteq P
  <2> HIDE DEF P
  <2> QED
    BY <1>1, <1>2, <1>3, UpTo
<1>5. j \in 0 .. k
  BY <1>1, MineBelow
<1> QED
  BY <1>4, <1>5

\* The writers of those levels
Stack(g) == {writer[g[1]][i] : i \in Makers(Layers, place[g].at)}

\* Unwrapping one of them leads to another one, or to the end.
LEMMA StackClosed ==
    ASSUME Structure, NEW g \in Routines, Runs(g), NEW w \in Stack(g)
    PROVE  w # NoWriter /\ w \in Writers /\ Unwrap(w) \in Stack(g) \cup {NoWriter}
<1> DEFINE k == place[g].at
           r == g[1]
<1>1. PICK i \in Makers(Layers, k) : w = writer[r][i]
  BY DEF Stack
<1>2. ChainOK(Layers) /\ k \in Levels(Layers) /\ IsWriters(Layers, writer)
  BY SetupFacts DEF Structure, TypeOK, Runs
<1>3. /\ i \in Mine(Layers, k) /\ i \in Levels(Layers) /\ i \in Nat /\ i >= 1
      /\ i > 1 => Layers[i - 1] \in LayerKinds /\ Layers[i - 1] \notin Passing
      /\ i > 1 /\ Layers[i - 1] # "timeout" => i - 1 \in Mine(Layers, k)
  BY <1>1, <1>2, MineBelow DEF Makers
<1>4. LevelIs(r, i) /\ r \in Requests
  BY <1>3, MineAre
<1>5. w \in Writers
  BY <1>1, <1>2, <1>3, <1>4 DEF IsWriters
<1>6. \A q \in Requests : Unwrap(Conn(q)) = NoWriter /\ Unwrap(Buffer(q)) = NoWriter
  BY UnwrapIs
<1>7. CASE i = 1 \/ Layers[i - 1] = "timeout"
  <2>1. w = Conn(r) \/ w = Buffer(r)
    BY <1>1, <1>3, <1>4, <1>7 DEF LevelIs
  <2>2. Conn(r) # NoWriter /\ Buffer(r) # NoWriter
    BY DEF Conn, Buffer, NoWriter
  <2>3. Unwrap(w) = NoWriter
    BY <1>4, <1>6, <2>1
  <2> QED
    BY <1>5, <2>1, <2>2, <2>3
<1>8. CASE i > 1 /\ Layers[i - 1] # "timeout"
  <2>1. Layers[i - 1] \in Logs \/ Layers[i - 1] = "router"
    BY <1>3, <1>8 DEF LayerKinds, Logs, Passing
  <2>2. /\ Unwrap(w) = writer[r][i - 1]
        /\ w = StatusOf(w[2]) \/ w = ParamOf(w[2])
    BY <1>1, <1>4, <1>8, <2>1 DEF LevelIs
  <2>3. PICK m \in Makers(Layers, k) : writer[r][m] = writer[r][i - 1]
    BY <1>3, <1>8, SomeMaker
  <2> QED
    BY <1>5, <2>2, <2>3 DEF Stack, StatusOf, ParamOf, NoWriter
<1> QED
  BY <1>3, <1>7, <1>8

\* Unwrapping reaches each of them.
LEMMA Reaches ==
    ASSUME Structure, NEW g \in Routines, Runs(g), NEW f, f[0] = W(g), Inner \in Nat,
           place[g].at <= Inner, \A n \in 1 .. Inner : f[n] = Unwrap(f[n - 1]),
           NEW j \in Mine(Layers, place[g].at)
    PROVE  \E n \in 0 .. Inner : f[n] = writer[g[1]][j]
<1> DEFINE k == place[g].at
           r == g[1]
           Seen(d) == k - d \in Mine(Layers, k) => \E n \in 0 .. d : f[n] = writer[r][k - d]
           P == {d \in 0 .. k : Seen(d)}
<1>1. /\ ChainOK(Layers) /\ k \in Levels(Layers) /\ k \in Nat /\ k >= 1 /\ k <= Inner
      /\ f[0] = writer[r][k] /\ j \in Mine(Layers, k)
      /\ \A i \in Mine(Layers, k) : LevelIs(r, i)
  <2>1. setup \in Setups
    BY DEF Structure, TypeOK
  <2>2. ChainOK(Layers) /\ Len(Layers) \in Nat
    BY <2>1, SetupFacts
  <2>3. k \in Levels(Layers)
    BY DEF Runs
  <2>4. k \in Nat /\ k >= 1
    BY <2>2, <2>3 DEF Levels
  <2>5. \A i \in Mine(Layers, k) : LevelIs(r, i)
    BY MineAre
  <2> QED
    BY <2>2, <2>3, <2>4, <2>5 DEF W
<1> HIDE DEF k, r
<1>2. 0 \in P
  <2>1. 0 \in 0 .. 0 /\ k - 0 = k /\ 0 \in 0 .. k
    BY <1>1
  <2> QED
    BY <1>1, <2>1
<1>3. ASSUME NEW d \in 0 .. k - 1, d \in P PROVE d + 1 \in P
  <2>1. PICK i \in Nat : i = k - d
    BY <1>1
  <2>2. d \in Nat /\ d + 1 \in 0 .. k /\ k - (d + 1) = i - 1 /\ i <= k
    BY <1>1, <2>1
  <2>3. ASSUME i - 1 \in Mine(Layers, k)
        PROVE  \E n \in 0 .. d + 1 : f[n] = writer[r][i - 1]
    <3>1. /\ i \in Mine(Layers, k) /\ i > 1 /\ Layers[i - 1] # "timeout"
          /\ Layers[i - 1] \in LayerKinds
      BY <1>1, <2>2, <2>3, MineAbove
    <3>2. PICK n \in 0 .. d : f[n] = writer[r][i]
      BY <1>3, <2>1, <3>1
    <3>3. LevelIs(r, i)
      BY <1>1, <3>1
    <3>4. CASE Layers[i - 1] \in Passing
      <4>1. writer[r][i] = writer[r][i - 1]
        BY <3>1, <3>3, <3>4 DEF LevelIs
      <4>2. n \in 0 .. d + 1
        BY <2>2
      <4> QED
        BY <3>2, <4>1, <4>2
    <3>5. CASE Layers[i - 1] \notin Passing
      <4>1. Layers[i - 1] \in Logs \/ Layers[i - 1] = "router"
        BY <3>1, <3>5 DEF LayerKinds, Logs, Passing
      <4>2. Unwrap(writer[r][i]) = writer[r][i - 1]
        BY <3>1, <3>3, <4>1 DEF LevelIs
      <4>3. n + 1 \in 0 .. d + 1 /\ n + 1 \in 1 .. Inner /\ (n + 1) - 1 = n
        BY <1>1, <2>2
      <4>4. f[n + 1] = Unwrap(f[n])
        BY <4>3
      <4> QED
        BY <3>2, <4>2, <4>3, <4>4
    <3> QED
      BY <3>4, <3>5
  <2> QED
    BY <2>2, <2>3
<1>4. 0 .. k \subseteq P
  <2> HIDE DEF P
  <2> QED
    BY <1>1, <1>2, <1>3, UpTo
<1>5. j \in Nat /\ j <= k /\ j >= 1
  BY <1>1, MineBelow
<1>6. k - j \in 0 .. k /\ k - (k - j) = j
  BY <1>1, <1>5
<1>7. Seen(k - j)
  BY <1>4, <1>6
<1>8. PICK n \in 0 .. k - j : f[n] = writer[r][j]
  BY <1>1, <1>6, <1>7
<1>9. n \in 0 .. Inner
  BY <1>1, <1>5
<1> QED
  BY <1>8, <1>9 DEF r

\* The writers that a call passes through are those: none is missed, and there
\* is no other one.
LEMMA PathIs ==
    ASSUME Structure, NEW g \in Routines, Runs(g)
    PROVE  W(g) \in Stack(g) /\ Path(W(g)) = Stack(g)
<1> DEFINE k == place[g].at
           r == g[1]
<1>1. ChainOK(Layers) /\ k \in Levels(Layers) /\ k \in Nat /\ k >= 1 /\ Len(Layers) \in Nat /\ k <= Inner
  BY SetupFacts DEF Structure, TypeOK, Runs, Levels, Inner
<1>2. k \in Mine(Layers, k)
  BY <1>1 DEF Mine
<1>3. W(g) \in Stack(g)
  BY <1>2, SomeMaker DEF Stack, W
<1>4. PICK f : Unwraps(f, W(g)) /\ Path(W(g)) = {f[n] : n \in 0 .. Inner} \ {NoWriter}
  BY <1>3, StackClosed, PathListed
<1>5. Inner \in Nat /\ f[0] = W(g) /\ \A n \in 1 .. Inner : f[n] = Unwrap(f[n - 1])
  BY <1>1, <1>4 DEF Unwraps, Inner
<1>6. Unwrap(NoWriter) = NoWriter
  BY UnwrapIs
<1>7. \A n \in 0 .. Inner : f[n] \in Stack(g) \cup {NoWriter}
  <2> DEFINE P == {n \in 0 .. Inner : f[n] \in Stack(g) \cup {NoWriter}}
  <2>1. 0 \in P
    BY <1>3, <1>5
  <2>2. ASSUME NEW n \in 0 .. Inner - 1, n \in P PROVE n + 1 \in P
    <3>1. n + 1 \in 1 .. Inner /\ (n + 1) - 1 = n
      BY <1>5
    <3>2. f[n + 1] = Unwrap(f[n]) /\ f[n] \in Stack(g) \cup {NoWriter}
      BY <1>5, <2>2, <3>1
    <3> QED
      BY <1>5, <1>6, <3>1, <3>2, StackClosed
  <2>3. 0 .. Inner \subseteq P
    <3> HIDE DEF P
    <3> QED
      BY <1>5, <2>1, <2>2, UpTo
  <2> QED
    BY <2>3
<1>8. Path(W(g)) \subseteq Stack(g)
  BY <1>4, <1>7
<1>9. ASSUME NEW j \in Mine(Layers, k) PROVE \E n \in 0 .. Inner : f[n] = writer[r][j]
  BY <1>1, <1>4, <1>5, Reaches DEF W
<1>10. Stack(g) \subseteq Path(W(g))
  <2>1. ASSUME NEW w \in Stack(g) PROVE w \in Path(W(g))
    <3>1. PICK j \in Mine(Layers, k) : w = writer[r][j]
      BY DEF Stack, Makers
    <3> QED
      BY <1>4, <1>9, <3>1, StackClosed
  <2> QED
    BY <2>1
<1> QED
  BY <1>3, <1>8, <1>10

\* The writer that a goroutine's writers wrap in the end
Bottom(g) == IF g[2] = "conn" THEN Conn(g[1]) ELSE Buffer(g[1])

\* Kinds of writers
LEMMA Kinds ==
    /\ \A r, q : Conn(r) # Buffer(q) /\ (Conn(r) = Conn(q) => r = q) /\ (Buffer(r) = Buffer(q) => r = q)
    /\ \A r, o : /\ StatusOf(o) # Conn(r) /\ StatusOf(o) # Buffer(r)
                 /\ ParamOf(o) # Conn(r) /\ ParamOf(o) # Buffer(r)
    /\ \A o, p : StatusOf(o) # ParamOf(p) /\ (StatusOf(o) = StatusOf(p) => o = p)
                                          /\ (ParamOf(o) = ParamOf(p) => o = p)
    /\ \A r : Conn(r)[1] = "conn" /\ Conn(r)[2] = r /\ Buffer(r)[1] = "buffer" /\ Buffer(r)[2] = r
    /\ \A o : StatusOf(o)[1] \notin {"conn", "buffer"} /\ ParamOf(o)[1] \notin {"conn", "buffer"}
BY DEF Conn, Buffer, StatusOf, ParamOf

\* The outermost level of a goroutine is called with its bottom.
LEMMA BottomThere ==
    ASSUME Structure, NEW g \in Routines, Runs(g)
    PROVE  Bottom(g) \in Path(W(g))
<1> DEFINE k == place[g].at
           r == g[1]
<1>1. /\ ChainOK(Layers) /\ k \in Levels(Layers) /\ k \in Nat /\ k >= 1
      /\ Len(Layers) \in Nat /\ DOMAIN Layers = 1 .. Len(Layers) /\ k <= Len(Layers) + 1
  <2>1. ChainOK(Layers) /\ Len(Layers) \in Nat /\ DOMAIN Layers = 1 .. Len(Layers)
    BY SetupFacts DEF Structure, TypeOK
  <2> QED
    BY <2>1 DEF Runs, Levels
<1>2. Side(Layers, k) = g[2] /\ g[2] \in {"conn", "timeout"}
  BY DEF Runs, Routine, Routines
<1>3. Path(W(g)) = Stack(g)
  BY PathIs
<1>4. CASE g[2] = "conn"
  <2>1. 1 \in Mine(Layers, k)
    BY <1>1, <1>2, <1>4, FirstSide DEF Mine
  <2>2. 1 \in Makers(Layers, k) /\ LevelIs(r, 1)
    BY <2>1, MineAre DEF Makers
  <2>3. writer[r][1] = Conn(r)
    BY <2>2 DEF LevelIs
  <2> QED
    BY <1>3, <1>4, <2>2, <2>3 DEF Stack, Bottom
<1>5. CASE g[2] = "timeout"
  <2>1. PICK m \in 1 .. k - 1 : Layers[m] = "timeout"
    BY <1>2, <1>5 DEF Side
  <2>2. m \in DOMAIN Layers /\ m \in Nat /\ m + 1 <= k /\ m + 1 > 1 /\ (m + 1) - 1 = m /\ ~(m + 1 <= m)
    BY <1>1
  <2>3. m + 1 \in Levels(Layers) /\ Side(Layers, m + 1) = "timeout"
    BY <1>1, <2>1, <2>2, TimeoutSides
  <2>4. m + 1 \in Mine(Layers, k) /\ Layers[m] \notin Passing
    BY <1>2, <1>5, <2>1, <2>2, <2>3 DEF Mine, Passing
  <2>5. m + 1 \in Makers(Layers, k) /\ LevelIs(r, m + 1)
    BY <2>2, <2>4, MineAre DEF Makers
  <2>6. writer[r][m + 1] = Buffer(r)
    BY <2>1, <2>2, <2>5 DEF LevelIs
  <2> QED
    BY <1>3, <1>5, <2>5, <2>6 DEF Stack, Bottom
<1> QED
  BY <1>2, <1>4, <1>5

\* Above it there are the wrappers of the goroutine's own logs and router.
LEMMA OnPath ==
    ASSUME Structure, NEW g \in Routines, Runs(g), NEW v \in Path(W(g))
    PROVE  \/ v = Bottom(g)
           \/ \E j \in Mine(Layers, place[g].at) :
                /\ Held(Layers, place, g[1], j) /\ v = writer[g[1]][j]
                /\ v[2] \in Objects /\ v = StatusOf(v[2])
           \/ /\ v[2] \in Objects /\ v = ParamOf(v[2])
              /\ paramWriters[v[2]].params = taken[g[1]] /\ taken[g[1]] # Nobody
<1> DEFINE k == place[g].at
           r == g[1]
<1>1. PICK i \in Makers(Layers, k) : v = writer[r][i]
  BY PathIs DEF Stack
<1>2. ChainOK(Layers) /\ k \in Levels(Layers) /\ Side(Layers, k) = g[2]
  <2>1. ChainOK(Layers)
    BY SetupFacts DEF Structure, TypeOK
  <2> QED
    BY <2>1 DEF Runs, Routine
<1>3. /\ i \in Mine(Layers, k) /\ i \in Levels(Layers) /\ i \in Nat /\ i >= 1 /\ i <= k
      /\ i > 1 => /\ Layers[i - 1] \in LayerKinds /\ Layers[i - 1] \notin Passing
                  /\ i - 1 \in DOMAIN Layers
      /\ LevelIs(r, i) /\ Side(Layers, i) = g[2]
  BY <1>1, <1>2, MineBelow, MineAre DEF Makers, Mine
<1>4. CASE i = 1
  <2>1. Side(Layers, i) = "conn"
    BY <1>2, <1>4, FirstSide
  <2>2. writer[r][i] = Conn(r)
    BY <1>3, <1>4 DEF LevelIs
  <2> QED
    BY <1>1, <1>3, <2>1, <2>2 DEF Bottom
<1>5. CASE i > 1 /\ Layers[i - 1] = "timeout"
  <2>1. Side(Layers, i) = "timeout"
    <3>1. \A m \in Levels(Layers) : Side(Layers, m) = IF m <= i - 1 THEN "conn" ELSE "timeout"
      BY <1>2, <1>3, <1>5, TimeoutSides
    <3>2. ~(i <= i - 1)
      BY <1>3
    <3> QED
      BY <1>3, <3>1, <3>2
  <2>2. writer[r][i] = Buffer(r)
    BY <1>3, <1>5 DEF LevelIs
  <2>3. g[2] # "conn"
    BY <1>3, <2>1
  <2> QED
    BY <1>1, <2>2, <2>3 DEF Bottom
<1>6. CASE i > 1 /\ Layers[i - 1] # "timeout"
  <2>1. Layers[i - 1] \in Logs \/ Layers[i - 1] = "router"
    BY <1>3, <1>6 DEF LayerKinds, Logs, Passing
  <2> QED
    BY <1>1, <1>3, <1>6, <2>1 DEF LevelIs
<1> QED
  BY <1>3, <1>4, <1>5, <1>6

\* A call goes to the connection of the goroutine's request, or to the buffer of
\* its Timeout, and to no other's; and the header is the one there.
LEMMA EndsAt ==
    ASSUME Structure, NEW g \in Routines, Runs(g)
    PROVE  /\ \A r \in Requests : Conn(r) \in Path(W(g)) <=> r = g[1] /\ g[2] = "conn"
           /\ \A r \in Requests : Buffer(r) \in Path(W(g)) <=> r = g[1] /\ g[2] # "conn"
           /\ HeaderOf(W(g)) = IF g[2] = "conn" THEN response[g[1]].header
                                                ELSE buffer[g[1]].header
<1>1. Bottom(g) \in Path(W(g))
  BY BottomThere
<1>2. ASSUME NEW v \in Path(W(g)), v[1] \in {"conn", "buffer"} PROVE v = Bottom(g)
  BY <1>2, OnPath, Kinds
<1>3. Bottom(g)[1] \in {"conn", "buffer"} /\ Bottom(g)[2] = g[1]
      /\ (Bottom(g)[1] = "conn" <=> g[2] = "conn")
  BY Kinds DEF Bottom
<1>4. ASSUME NEW r \in Requests
      PROVE  /\ Conn(r) \in Path(W(g)) <=> r = g[1] /\ g[2] = "conn"
             /\ Buffer(r) \in Path(W(g)) <=> r = g[1] /\ g[2] # "conn"
  BY <1>1, <1>2, Kinds DEF Bottom
<1> DEFINE b == CHOOSE v \in Path(W(g)) : v[1] \in {"conn", "buffer"}
<1>5. b = Bottom(g)
  BY <1>1, <1>2, <1>3
<1>6. HeaderOf(W(g)) = IF b[1] = "conn" THEN response[b[2]].header ELSE buffer[b[2]].header
  BY DEF HeaderOf
<1> HIDE DEF b
<1>7. HeaderOf(W(g)) = IF g[2] = "conn" THEN response[g[1]].header ELSE buffer[g[1]].header
  BY <1>3, <1>5, <1>6
<1> QED
  BY <1>4, <1>7

-----------------------------------------------------------------------------
(* What a handler reads *)

\* A handler runs the level behind the last layer.
LEMMA HandlerRuns ==
    ASSUME Structure, NEW g \in Routines, InHandler(g)
    PROVE  Runs(g) /\ g[1] \in DOMAIN setup.sent
<1>1. /\ ChainOK(Layers) /\ RoutinesOK(Layers, place) /\ Len(Layers) \in Nat
      /\ place[g].at = Len(Layers) + 1 /\ place[g].going = "in"
  BY SetupFacts DEF Structure, TypeOK, InHandler, At, Inner
<1>2. /\ Top(place[g]) \in Levels(Layers)
      /\ Routine(Layers, g[1], Top(place[g])) = g
  BY <1>1, OwnLevels
<1>3. Runs(g)
  BY <1>1, <1>2 DEF Runs, Top
<1>4. PairOK(place, setup.sent, g[1]) /\ (g = <<g[1], "conn">> \/ g = <<g[1], "timeout">>)
  BY DEF Structure, Routines
<1>5. g[1] \in DOMAIN setup.sent
  BY <1>1, <1>4 DEF PairOK
<1> QED
  BY <1>3, <1>5

\* Whatever parameter list is reached is that of the request.
LEMMA OwnParam ==
    ASSUME Structure, NEW g \in Routines, Runs(g)
    PROVE  Param(W(g)) \in {g[1], Nobody}
<1> DEFINE r == g[1]
           wraps == {p \in Objects : ParamOf(p) \in Path(W(g)) /\ paramWriters[p].params # Nobody}
           lists == {params[paramWriters[o].params] : o \in wraps}
<1>1. r \in Requests
  BY DEF Routines
<1>2. ASSUME NEW o \in wraps PROVE params[paramWriters[o].params] = <<r>>
  <2>1. ParamOf(o) \in Path(W(g))
    OBVIOUS
  <2>2. paramWriters[o].params = taken[r] /\ taken[r] # Nobody
    <3>1. /\ ParamOf(o) # Bottom(g) /\ ParamOf(o)[2] = o
          /\ \A p \in Objects : ParamOf(o) # StatusOf(p)
      BY Kinds DEF Bottom, ParamOf
    <3> QED
      BY <2>1, <3>1, OnPath
  <2>3. OwnParams(taken, freeParams, params)
    BY DEF Structure
  <2> QED
    BY <1>1, <2>2, <2>3 DEF OwnParams
<1>3. lists \subseteq {<<r>>}
  BY <1>2
<1>4. Param(W(g)) = IF lists = {} THEN Nobody ELSE Head(CHOOSE list \in lists : TRUE)
  BY DEF Param
<1> HIDE DEF lists
<1>5. ASSUME lists # {} PROVE (CHOOSE list \in lists : TRUE) = <<r>>
  BY <1>3, <1>5
<1>6. Head(<<r>>) = r
  BY <1>1
<1> QED
  BY <1>4, <1>5, <1>6

\* The hops that may be the client
Untrusted(hops, trusted) == {i \in DOMAIN hops : hops[i] \notin trusted}

\* A line ends with the hops before the peer, after m other addresses.
EndsWith(fwd, hops, m) ==
    /\ Len(fwd) = m + Len(hops) - 1
    /\ \A i \in 1 .. Len(hops) - 1 : fwd[m + i] = hops[i]

\* The client is the last untrusted hop: the peer, or the last one of a line that
\* ends with the hops before it, whatever m addresses have been claimed in front.
LEMMA LastHop ==
    ASSUME NEW hops, hops \in Seq(STRING), hops # <<>>, NEW fwd, fwd \in Seq(STRING),
           NEW trusted, Untrusted(hops, trusted) # {}, NEW m \in Nat,
           hops[Len(hops)] \in trusted => EndsWith(fwd, hops, m)
    PROVE  ClientIP(hops[Len(hops)], fwd, trusted) = hops[Max(Untrusted(hops, trusted))]
<1> DEFINE U == Untrusted(hops, trusted)
           n == Len(hops)
           V == {i \in DOMAIN fwd : fwd[i] \notin trusted}
<1>1. /\ n \in Nat /\ n >= 1 /\ DOMAIN hops = 1 .. n
  OBVIOUS
<1>2. ASSUME hops[n] \in trusted
      PROVE  /\ Len(fwd) = m + n - 1 /\ DOMAIN fwd = 1 .. m + n - 1
             /\ \A i \in 1 .. n - 1 : fwd[m + i] = hops[i]
  BY <1>1, <1>2 DEF EndsWith
<1>8. \A i : i \in U <=> i \in 1 .. n /\ hops[i] \notin trusted
  BY <1>1 DEF Untrusted
<1> HIDE DEF U, n
<1>3. Max(U) \in U /\ \A y \in U : y <= Max(U)
  <2>1. U \subseteq 0 .. n /\ U # {}
    BY <1>1, <1>8 DEF U
  <2> QED
    BY <1>1, <2>1, MaxIs
<1>7. PICK u \in Nat : u = Max(U)
  BY <1>1, <1>3, <1>8
<1>4. ClientIP(hops[n], fwd, trusted) =
        IF hops[n] \notin trusted \/ fwd = <<>> THEN hops[n]
        ELSE IF V = {} THEN fwd[1] ELSE fwd[Max(V)]
  BY DEF ClientIP
<1>5. CASE hops[n] \notin trusted
  <2>1. n \in U
    BY <1>1, <1>5, <1>8
  <2>2. u = n
    BY <1>1, <1>3, <1>7, <1>8, <2>1
  <2> QED
    BY <1>4, <1>5, <1>7, <2>2 DEF n, U
<1>6. CASE hops[n] \in trusted
  <2>1. u \in 1 .. n - 1 /\ hops[u] \notin trusted /\ \A y \in U : y <= u
    BY <1>1, <1>3, <1>6, <1>7, <1>8
  <2>2. m + u \in 1 .. m + n - 1 /\ fwd[m + u] = hops[u] /\ m + u \in V
    BY <1>1, <1>2, <1>6, <2>1
  <2>3. V \subseteq 0 .. m + n - 1 /\ m + n - 1 \in Nat
    BY <1>1, <1>2, <1>6
  <2>4. Max(V) \in V /\ \A y \in V : y <= Max(V)
    <3> HIDE DEF V
    <3> QED
      BY <2>2, <2>3, MaxIs
  <2>5. PICK v \in Nat : v = Max(V)
    <3> HIDE DEF V
    <3>1. Max(V) \in 0 .. m + n - 1
      BY <2>3, <2>4
    <3>2. Max(V) \in Nat
      BY <2>3, <3>1
    <3> QED
      BY <3>2
  <2>6. v >= m + u /\ v <= m + n - 1 /\ fwd[v] \notin trusted
    <3>1. v \in V /\ v >= m + u
      <4> HIDE DEF V
      <4> QED
        BY <2>2, <2>4, <2>5
    <3>2. v \in 1 .. m + n - 1 /\ fwd[v] \notin trusted
      BY <1>2, <1>6, <3>1
    <3> QED
      BY <1>1, <3>1, <3>2
  <2>7. PICK j \in 1 .. n - 1 : v = m + j
    <3>1. v - m \in 1 .. n - 1 /\ v = m + (v - m)
      BY <1>1, <2>1, <2>6
    <3> QED
      BY <3>1
  <2>8. j <= u
    <3>1. fwd[v] = hops[j] /\ j \in 1 .. n
      BY <1>1, <1>2, <1>6, <2>7
    <3>2. j \in U
      BY <1>8, <2>6, <3>1
    <3> QED
      BY <2>1, <3>2
  <2>9. v = m + u
    BY <1>1, <2>6, <2>7, <2>8
  <2>10. fwd # <<>> /\ V # {}
    BY <1>2, <1>6, <2>2
  <2> QED
    BY <1>4, <1>6, <1>7, <2>2, <2>5, <2>9, <2>10 DEF n, U
<1> QED
  BY <1>5, <1>6

\* A part of a sequence
LEMMA PartOf ==
    ASSUME NEW s \in Seq(STRING), NEW a \in Nat, a >= 1, NEW b \in Nat, b <= Len(s), a <= b + 1
    PROVE  /\ Len(SubSeq(s, a, b)) = b - a + 1
           /\ \A i \in 1 .. b - a + 1 : SubSeq(s, a, b)[i] = s[a + i - 1]
OBVIOUS

\* A line that proxies have kept to ends with the hops before the peer.
LEMMA LineEnds ==
    ASSUME NEW sent, sent.hops \in Seq(STRING), sent.hops # <<>>, Forwarded(sent) \in Seq(STRING),
           KeepsOneLine(sent)
    PROVE  \E m \in Nat : EndsWith(Forwarded(sent), sent.hops, m)
<1> DEFINE fwd  == Forwarded(sent)
           hops == sent.hops
           via  == SubSeq(hops, 1, Len(hops) - 1)
<1>1. PICK m \in 0 .. Len(fwd) : via = SubSeq(fwd, m + 1, Len(fwd))
  BY DEF KeepsOneLine
<1>2. fwd \in Seq(STRING) /\ hops \in Seq(STRING) /\ hops # <<>>
  OBVIOUS
<1> HIDE DEF fwd, hops
<1>3. Len(hops) \in Nat /\ Len(hops) >= 1 /\ Len(fwd) \in Nat
  BY <1>2
<1>4. Len(via) = Len(hops) - 1 /\ \A i \in 1 .. Len(hops) - 1 : via[i] = hops[i]
  <2> DEFINE b == Len(hops) - 1
  <2>1. b \in Nat /\ b <= Len(hops) /\ 1 <= b + 1
    BY <1>3
  <2> HIDE DEF b
  <2>2. /\ Len(SubSeq(hops, 1, b)) = b - 1 + 1
        /\ \A i \in 1 .. b - 1 + 1 : SubSeq(hops, 1, b)[i] = hops[1 + i - 1]
    BY <1>2, <2>1, PartOf
  <2>3. Len(SubSeq(hops, 1, b)) = b /\ \A i \in 1 .. b : SubSeq(hops, 1, b)[i] = hops[i]
    BY <2>1, <2>2
  <2> QED
    BY <2>3 DEF b
<1> HIDE DEF via
<1>5. /\ Len(via) = Len(fwd) - m
      /\ \A i \in 1 .. Len(fwd) - m : via[i] = fwd[m + i]
  <2> DEFINE a == m + 1
             n == Len(fwd)
  <2>1. a \in Nat /\ a >= 1 /\ n \in Nat /\ n <= Len(fwd) /\ a <= n + 1
    BY <1>3
  <2> HIDE DEF a, n
  <2>2. /\ Len(SubSeq(fwd, a, n)) = n - a + 1
        /\ \A i \in 1 .. n - a + 1 : SubSeq(fwd, a, n)[i] = fwd[a + i - 1]
    BY <1>2, <2>1, PartOf
  <2>3. n - a + 1 = n - m /\ \A i \in 1 .. n - m : a + i - 1 = m + i
    BY <1>3, <2>1 DEF a
  <2>4. via = SubSeq(fwd, a, n)
    BY <1>1 DEF a, n
  <2> QED
    BY <2>2, <2>3, <2>4 DEF n
<1>6. m \in Nat /\ Len(fwd) = m + Len(hops) - 1 /\ Len(fwd) - m = Len(hops) - 1
  BY <1>3, <1>4, <1>5
<1>7. \A i \in 1 .. Len(hops) - 1 : fwd[m + i] = hops[i]
  BY <1>4, <1>5, <1>6
<1> QED
  BY <1>6, <1>7 DEF EndsWith, fwd, hops

\* HandlerSeesItsRequest follows from the structure alone.
LEMMA SeesOwn ==
    ASSUME Structure
    PROVE  HandlerSeesItsRequest
<1> SUFFICES ASSUME NEW g \in Routines, InHandler(g)
             PROVE  LET sent      == setup.sent[g[1]]
                        untrusted == {i \in DOMAIN sent.hops : sent.hops[i] \notin setup.trusted}
                    IN  /\ ReadsParam(g) \in {g[1], Nobody}
                        /\ untrusted # {} /\ (Remote(sent) \in setup.trusted => KeepsOneLine(sent)) =>
                                ReadsClient(g) = sent.hops[Max(untrusted)]
  BY DEF HandlerSeesItsRequest
<1> DEFINE sent == setup.sent[g[1]]
           untrusted == {i \in DOMAIN sent.hops : sent.hops[i] \notin setup.trusted}
<1>1. Runs(g) /\ g[1] \in DOMAIN setup.sent
  BY HandlerRuns
<1>2. ReadsParam(g) \in {g[1], Nobody}
  BY <1>1, OwnParam DEF ReadsParam
<1>3. sent.hops \in Seq(STRING) /\ sent.hops # <<>> /\ Forwarded(sent) \in Seq(STRING)
  <2>1. sent.hops \in Seq(STRING) /\ sent.hops # <<>> /\ sent.lines \in Seq(Seq(STRING))
    BY <1>1, SetupFacts DEF Structure, TypeOK
  <2> QED
    BY <2>1 DEF Forwarded
<1>4. ASSUME untrusted # {}, Remote(sent) \in setup.trusted => KeepsOneLine(sent)
      PROVE  ReadsClient(g) = sent.hops[Max(untrusted)]
  <2>1. untrusted = Untrusted(sent.hops, setup.trusted)
    BY DEF Untrusted
  <2>2. ReadsClient(g) = ClientIP(sent.hops[Len(sent.hops)], Forwarded(sent), setup.trusted)
    BY DEF ReadsClient, Remote
  <2> HIDE DEF sent, untrusted
  <2>3. PICK m \in Nat : sent.hops[Len(sent.hops)] \in setup.trusted =>
                EndsWith(Forwarded(sent), sent.hops, m)
    BY <1>3, <1>4, LineEnds DEF Remote
  <2> QED
    BY <1>3, <1>4, <2>1, <2>2, <2>3, LastHop
<1> QED
  BY <1>2, <1>4

-----------------------------------------------------------------------------
(* Headers: the second part of the inductive invariant *)

IDs(s)       == {NoID} \cup {s.sent[r].id : r \in DOMAIN s.sent}
                       \cup {<<"made", k>> : k \in DOMAIN s.layers}
Headers(s)   == [id : IDs(s), allow : STRING \cup {NoOrigin, "*"}, creds : BOOLEAN,
                 vary : SUBSET {"Origin", "Request"}]
Responses(s) == [header : Headers(s), status : Nat, sent : Headers(s), flushed : BOOLEAN]
Buffers(s)   == [header : Headers(s), status : Nat, expired : BOOLEAN]

\* What the header of a response to request r may say: an id only if it is the
\* one that the request has, an origin only if CORS allows it, in the words that
\* its options call for, and something in Vary only with an origin.
HeaderOK(s, r, id, h) ==
    /\ h.id # NoID => h.id = id
    /\ h.allow # NoOrigin =>
          /\ r \in DOMAIN s.sent
          /\ Allowed(s.cors, s.sent[r].origin)
          /\ h.allow = IF AllowAll(s.cors) THEN "*" ELSE s.sent[r].origin
          /\ AllowAll(s.cors) \/ "Origin" \in h.vary
    /\ h.vary # {} => AllowAll(s.cors) \/ h.allow # NoOrigin
    /\ h.creds => s.cors.AllowCredentials

\* It is true of all headers that a request's response has had or will have.
RequestOK(s, r, id, resp, buf) ==
    /\ HeaderOK(s, r, id, resp.header)
    /\ HeaderOK(s, r, id, resp.sent)
    /\ HeaderOK(s, r, id, buf.header)

HeadersOK ==
    /\ requestID \in [Requests -> IDs(setup)]
    /\ response \in [Requests -> Responses(setup)]
    /\ buffer \in [Requests -> Buffers(setup)]
    /\ \A r \in Requests : RequestOK(setup, r, requestID[r], response[r], buffer[r])

\* The id of a request, once it has one, stays.
IDStays(old, id) == id = old \/ old = NoID

\* A header that was right stays so when the request gets an id.
LEMMA HeaderStays ==
    ASSUME NEW s, NEW r, NEW old, NEW id, IDStays(old, id), NEW h, HeaderOK(s, r, old, h)
    PROVE  HeaderOK(s, r, id, h)
BY DEF HeaderOK, IDStays

\* The id of the request may be put into it,
LEMMA HeaderWithID ==
    ASSUME NEW s, NEW r, NEW old, NEW id \in IDs(s), IDStays(old, id),
           NEW h \in Headers(s), HeaderOK(s, r, old, h)
    PROVE  [h EXCEPT !.id = id] \in Headers(s) /\ HeaderOK(s, r, id, [h EXCEPT !.id = id])
BY DEF HeaderOK, IDStays, Headers

\* and an origin that is allowed.
LEMMA HeaderWithOrigin ==
    ASSUME NEW s, NEW r \in DOMAIN s.sent, NEW id, NEW h \in Headers(s), HeaderOK(s, r, id, h),
           NEW origin, s.sent[r].origin = origin, origin \in STRING, origin # NoOrigin,
           Allowed(s.cors, origin), s.cors.AllowCredentials \in BOOLEAN
    PROVE  /\ WithAllowOrigin(h, s.cors, origin) \in Headers(s)
           /\ HeaderOK(s, r, id, WithAllowOrigin(h, s.cors, origin))
<1> DEFINE n == WithAllowOrigin(h, s.cors, origin)
           allow == IF AllowAll(s.cors) THEN "*" ELSE origin
           vary  == IF AllowAll(s.cors) THEN h.vary ELSE h.vary \cup {"Origin"}
           creds == s.cors.AllowCredentials
<1>3. n = [h EXCEPT !.allow = allow, !.vary = vary, !.creds = creds]
  BY DEF WithAllowOrigin
<1>4. allow \in STRING \cup {NoOrigin, "*"} /\ vary \in SUBSET {"Origin", "Request"}
      /\ creds \in BOOLEAN
  <2>1. h.vary \in SUBSET {"Origin", "Request"}
    BY DEF Headers
  <2>2. vary \subseteq {"Origin", "Request"}
    BY <2>1
  <2>3. allow \in STRING \cup {NoOrigin, "*"}
    OBVIOUS
  <2> QED
    BY <2>2, <2>3
<1> HIDE DEF allow, vary, creds
<1>1. n \in Headers(s) /\ n.id = h.id /\ n.allow = allow /\ n.vary = vary /\ n.creds = creds
  BY <1>3, <1>4 DEF Headers
<1> HIDE DEF n
<1>2. HeaderOK(s, r, id, n)
  BY <1>1 DEF HeaderOK, allow, vary, creds
<1> QED
  BY <1>1, <1>2 DEF n

\* A preflight's answer also depends on what the request asks for.
LEMMA HeaderWithRequest ==
    ASSUME NEW s, NEW r, NEW id, NEW h \in Headers(s), HeaderOK(s, r, id, h),
           AllowAll(s.cors) \/ h.allow # NoOrigin
    PROVE  /\ [h EXCEPT !.vary = @ \cup {"Request"}] \in Headers(s)
           /\ HeaderOK(s, r, id, [h EXCEPT !.vary = @ \cup {"Request"}])
BY DEF HeaderOK, Headers

\* What a Timeout passes on is made from two headers that are right.
Merged(kept, header) ==
    [id    |-> IF kept.id = NoID THEN header.id ELSE kept.id,
     allow |-> IF kept.allow = NoOrigin THEN header.allow ELSE kept.allow,
     creds |-> kept.creds \/ header.creds,
     vary  |-> IF kept.vary = {} THEN header.vary ELSE kept.vary]

\* Copying a buffer's header to the response sets only what the buffer may set.
LEMMA HeaderMerged ==
    ASSUME NEW s, NEW r, NEW id, NEW kept \in Headers(s), NEW header \in Headers(s),
           HeaderOK(s, r, id, kept), HeaderOK(s, r, id, header)
    PROVE  Merged(kept, header) \in Headers(s) /\ HeaderOK(s, r, id, Merged(kept, header))
BY DEF HeaderOK, Headers, Merged

\* What a write makes of a response, and of a buffer
Heard(resp, code, header) == Committed([resp EXCEPT !.header = header], code)
Kept(buf, code, header)   == [buf EXCEPT !.header = header, !.status = FirstStatus(@, code)]

\* Both stay right.
LEMMA HeardOK ==
    ASSUME NEW s, NEW r, NEW id, NEW resp \in Responses(s), NEW buf, RequestOK(s, r, id, resp, buf),
           NEW header \in Headers(s), HeaderOK(s, r, id, header), NEW code \in Nat
    PROVE  /\ Heard(resp, code, header) \in Responses(s)
           /\ RequestOK(s, r, id, Heard(resp, code, header), buf)
BY DEF Heard, Committed, Responses, RequestOK

\* (the buffer)
LEMMA KeptOK ==
    ASSUME NEW s, NEW r, NEW id, NEW resp, NEW buf \in Buffers(s), RequestOK(s, r, id, resp, buf),
           NEW header \in Headers(s), HeaderOK(s, r, id, header), NEW code \in Nat
    PROVE  Kept(buf, code, header) \in Buffers(s) /\ RequestOK(s, r, id, resp, Kept(buf, code, header))
BY DEF Kept, Buffers, RequestOK, FirstStatus

\* A goroutine at a layer runs it, but for one whose Timeout waits for it.
LEMMA LayerRuns ==
    ASSUME Structure, NEW g \in Routines, place[g].at \in DOMAIN Layers,
           place[g].going \in Going \cup {"in", "wait"},
           Layers[place[g].at] # "timeout" \/ place[g].going \in {"in", "wait"}
    PROVE  Runs(g) /\ g[1] \in Requests /\ (place[g].going = "wait" => g[2] = "conn")
<1>1. /\ ChainOK(Layers) /\ RoutinesOK(Layers, place) /\ place[g].going # "absent"
  BY SetupFacts DEF Structure, TypeOK, Going
<1>2. RoutineOK(Layers, g, place[g]) /\ g[1] \in Requests
  BY <1>1, Places
<1>3. CASE place[g].going \in {"in", "wait"}
  <2>1. Top(place[g]) = place[g].at
    BY <1>3 DEF Top
  <2>2. /\ Top(place[g]) \in Levels(Layers)
        /\ Routine(Layers, g[1], Top(place[g])) = g
    BY <1>1, OwnLevels
  <2> QED
    BY <1>2, <2>1, <2>2 DEF Runs, RoutineOK
<1>4. CASE place[g].going \in Going
  <2>1. Routine(Layers, g[1], place[g].at + 1) = g /\ Layers[place[g].at] # "timeout"
    BY <1>4, BelowIs DEF Going
  <2>2. place[g].at \in Levels(Layers) /\ Side(Layers, place[g].at + 1) = Side(Layers, place[g].at)
    BY <1>1, <2>1, SameSide
  <2> QED
    BY <1>2, <1>4, <2>1, <2>2 DEF Runs, Routine, Going
<1> QED
  BY <1>3, <1>4

\* What a goroutine's write does to the connections and buffers
AnswersOf(g, code, header) ==
    \A r \in Requests :
        response'[r] = IF r = g[1] /\ g[2] = "conn" THEN Heard(response[r], code, header)
                                                   ELSE response[r]

BuffersOf(g, code, header) ==
    \A r \in Requests :
        buffer'[r] = IF r = g[1] /\ g[2] # "conn" /\ ~buffer[r].expired
                     THEN Kept(buffer[r], code, header)
                     ELSE buffer[r]

\* It is heard at one place only.
LEMMA AnswersAre ==
    ASSUME Structure, NEW g \in Routines, Runs(g), NEW code, NEW header,
           response' = Answered(Path(W(g)), code, header)
    PROVE  AnswersOf(g, code, header) /\ response' = [r \in Requests |-> response'[r]]
<1>1. \A r \in Requests : Conn(r) \in Path(W(g)) <=> r = g[1] /\ g[2] = "conn"
  BY EndsAt
<1>2. response' = [r \in Requests |-> IF Conn(r) \in Path(W(g)) THEN Heard(response[r], code, header)
                                                              ELSE response[r]]
  BY DEF Answered, Heard
<1> QED
  BY <1>1, <1>2 DEF AnswersOf

\* A write that a goroutine of a Timeout makes goes to its own request's buffer and no other.
LEMMA BuffersAre ==
    ASSUME Structure, NEW g \in Routines, Runs(g), NEW code, NEW header,
           buffer' = Buffered(Path(W(g)), code, header)
    PROVE  BuffersOf(g, code, header) /\ buffer' = [r \in Requests |-> buffer'[r]]
<1>1. \A r \in Requests : Buffer(r) \in Path(W(g)) <=> r = g[1] /\ g[2] # "conn"
  BY EndsAt
<1>2. buffer' = [r \in Requests |-> IF Buffer(r) \in Path(W(g)) /\ ~buffer[r].expired
                                    THEN Kept(buffer[r], code, header) ELSE buffer[r]]
  BY Zenon DEF Buffered, Kept
<1> QED
  BY <1>1, <1>2 DEF BuffersOf

\* The header that a goroutine sees is right.
LEMMA HeaderSeen ==
    ASSUME Structure, HeadersOK, NEW g \in Routines, Runs(g)
    PROVE  /\ HeaderOf(W(g)) \in Headers(setup)
           /\ HeaderOK(setup, g[1], requestID[g[1]], HeaderOf(W(g)))
           /\ g[1] \in Requests
<1>1. g[1] \in Requests
  BY DEF Routines
<1>2. /\ response[g[1]].header \in Headers(setup) /\ buffer[g[1]].header \in Headers(setup)
      /\ HeaderOK(setup, g[1], requestID[g[1]], response[g[1]].header)
      /\ HeaderOK(setup, g[1], requestID[g[1]], buffer[g[1]].header)
  BY <1>1 DEF HeadersOK, RequestOK, Responses, Buffers
<1> QED
  BY <1>1, <1>2, EndsAt

\* What comes of a right header, and of an id that stays, is right.
LEMMA AnswersKeep ==
    ASSUME HeadersOK, NEW g \in Routines, NEW code \in Nat,
           NEW header \in Headers(setup), HeaderOK(setup, g[1], requestID'[g[1]], header),
           setup' = setup, requestID' \in [Requests -> IDs(setup)],
           \A r \in Requests : IDStays(requestID[r], requestID'[r]),
           AnswersOf(g, code, header), response' = [r \in Requests |-> response'[r]],
           BuffersOf(g, code, header), buffer' = [r \in Requests |-> buffer'[r]]
    PROVE  HeadersOK'
<1>1. ASSUME NEW r \in Requests
      PROVE  /\ response'[r] \in Responses(setup) /\ buffer'[r] \in Buffers(setup)
             /\ RequestOK(setup, r, requestID'[r], response'[r], buffer'[r])
  <2>1. /\ RequestOK(setup, r, requestID[r], response[r], buffer[r])
        /\ response[r] \in Responses(setup) /\ buffer[r] \in Buffers(setup)
        /\ IDStays(requestID[r], requestID'[r])
    BY DEF HeadersOK
  <2>2. RequestOK(setup, r, requestID'[r], response[r], buffer[r])
    BY <2>1, HeaderStays DEF RequestOK
  <2>3. /\ response'[r] \in Responses(setup)
        /\ RequestOK(setup, r, requestID'[r], response'[r], buffer[r])
    <3>1. CASE r = g[1] /\ g[2] = "conn"
      <4>1. response'[r] = Heard(response[r], code, header)
        BY <3>1 DEF AnswersOf
      <4> QED
        BY <2>1, <2>2, <3>1, <4>1, HeardOK
    <3>2. CASE ~(r = g[1] /\ g[2] = "conn")
      <4>1. response'[r] = response[r]
        BY <3>2 DEF AnswersOf
      <4> QED
        BY <2>1, <2>2, <4>1
    <3> QED
      BY <3>1, <3>2
  <2>4. /\ buffer'[r] \in Buffers(setup)
        /\ RequestOK(setup, r, requestID'[r], response'[r], buffer'[r])
    <3>1. CASE r = g[1] /\ g[2] # "conn" /\ ~buffer[r].expired
      <4>1. buffer'[r] = Kept(buffer[r], code, header)
        BY <3>1 DEF BuffersOf
      <4> QED
        BY <2>1, <2>3, <3>1, <4>1, KeptOK
    <3>2. CASE ~(r = g[1] /\ g[2] # "conn" /\ ~buffer[r].expired)
      <4>1. buffer'[r] = buffer[r]
        BY <3>2 DEF BuffersOf
      <4> QED
        BY <2>1, <2>3, <4>1
    <3> QED
      BY <3>1, <3>2
  <2> QED
    BY <2>3, <2>4
<1>2. response' \in [Requests -> Responses(setup)] /\ buffer' \in [Requests -> Buffers(setup)]
  BY <1>1
<1> QED
  BY <1>1, <1>2 DEF HeadersOK

\* A write of a right header, without a new id
LEMMA WriteKeepsHeaders ==
    ASSUME Structure, HeadersOK, NEW g \in Routines, Runs(g), NEW code \in Nat,
           NEW header \in Headers(setup), HeaderOK(setup, g[1], requestID[g[1]], header),
           UNCHANGED context, Write(W(g), code, header)
    PROVE  HeadersOK'
<1>1. requestID' = requestID /\ setup' = setup
  BY DEF context
<1>2. requestID' \in [Requests -> IDs(setup)] /\ \A r \in Requests : IDStays(requestID[r], requestID'[r])
  BY <1>1 DEF HeadersOK, IDStays
<1>3. /\ AnswersOf(g, code, header) /\ response' = [r \in Requests |-> response'[r]]
      /\ BuffersOf(g, code, header) /\ buffer' = [r \in Requests |-> buffer'[r]]
  BY AnswersAre, BuffersAre DEF Write
<1> QED
  BY <1>1, <1>2, <1>3, AnswersKeep

\* Most writes leave the header as it is.
LEMMA WriteHeaderKeeps ==
    ASSUME Structure, HeadersOK, NEW g \in Routines, Runs(g), NEW code \in Nat,
           UNCHANGED context, WriteHeader(W(g), code)
    PROVE  HeadersOK'
BY HeaderSeen, WriteKeepsHeaders DEF WriteHeader

\* RequestID puts the same id into the request and into the response's header.
LEMMA RequestIDKeeps ==
    ASSUME Structure, HeadersOK, NEW g \in Routines, EnterRequestID(g)
    PROVE  HeadersOK'
<1> DEFINE r      == g[1]
           id     == Identified(requestID[r], place[g].at)
           header == HeaderOf(W(g))
           new    == IF id = NoID THEN header ELSE [header EXCEPT !.id = id]
<1>1. /\ place[g].at \in DOMAIN Layers /\ Layers[place[g].at] = "id" /\ place[g].going = "in"
      /\ requestID' = [requestID EXCEPT ![r] = id]
      /\ Write(W(g), 0, new) /\ setup' = setup
  BY DEF EnterRequestID, Is
<1>2. Runs(g)
  BY <1>1, LayerRuns
<1>3. /\ header \in Headers(setup) /\ HeaderOK(setup, r, requestID[r], header) /\ r \in Requests
      /\ requestID \in [Requests -> IDs(setup)]
  BY <1>2, HeaderSeen DEF HeadersOK
<1>4. id \in IDs(setup) /\ IDStays(requestID[r], id)
  BY <1>1, <1>3 DEF Identified, IDs, IDStays, Layers
<1> HIDE DEF id, header
<1>5. /\ requestID' \in [Requests -> IDs(setup)] /\ requestID'[r] = id
      /\ \A q \in Requests : IDStays(requestID[q], requestID'[q])
  BY <1>1, <1>3, <1>4 DEF IDStays
<1>6. new \in Headers(setup) /\ HeaderOK(setup, r, id, new)
  BY <1>3, <1>4, HeaderWithID, HeaderStays
<1> HIDE DEF new
<1>7. /\ AnswersOf(g, 0, new) /\ response' = [q \in Requests |-> response'[q]]
      /\ BuffersOf(g, 0, new) /\ buffer' = [q \in Requests |-> buffer'[q]]
  BY <1>1, <1>2, AnswersAre, BuffersAre DEF Write
<1> QED
  BY <1>1, <1>5, <1>6, <1>7, AnswersKeep

\* CORS lets an origin in.
LEMMA AllowKeeps ==
    ASSUME Structure, HeadersOK, NEW g \in Routines, AllowCORS(g)
    PROVE  HeadersOK'
<1> DEFINE r         == g[1]
           origin    == setup.sent[r].origin
           allow     == WithAllowOrigin(HeaderOf(W(g)), setup.cors, origin)
           preflight == [allow EXCEPT !.vary = @ \cup {"Request"}]
<1>1. /\ place[g].at \in DOMAIN Layers /\ Layers[place[g].at] = "cors" /\ place[g].going = "in"
      /\ origin # NoOrigin /\ Allowed(setup.cors, origin)
      /\ Write(W(g), 204, preflight) \/ Write(W(g), 0, allow)
      /\ UNCHANGED context
  BY DEF AllowCORS, Is
<1>2. Runs(g)
  BY <1>1, LayerRuns
<1>3. /\ HeaderOf(W(g)) \in Headers(setup)
      /\ HeaderOK(setup, r, requestID[r], HeaderOf(W(g))) /\ r \in Requests
  BY <1>2, HeaderSeen
<1>4. r \in DOMAIN setup.sent
  <2>1. PairOK(place, setup.sent, r) /\ (g = <<r, "conn">> \/ g = <<r, "timeout">>)
    BY <1>3 DEF Structure, Routines
  <2> QED
    BY <1>1, <2>1 DEF PairOK
<1>5. origin \in STRING /\ setup.cors.AllowCredentials \in BOOLEAN
  BY <1>4, SetupFacts DEF Structure, TypeOK
<1>6. allow \in Headers(setup) /\ HeaderOK(setup, r, requestID[r], allow)
  <2> HIDE DEF origin
  <2>1. setup.sent[r].origin = origin
    BY DEF origin
  <2> QED
    BY <1>1, <1>3, <1>4, <1>5, <2>1, HeaderWithOrigin
<1>7. AllowAll(setup.cors) \/ allow.allow # NoOrigin
  <2>1. allow.allow = IF AllowAll(setup.cors) THEN "*" ELSE origin
    BY <1>3 DEF WithAllowOrigin, Headers
  <2> QED
    BY <1>1, <2>1
<1> HIDE DEF allow, origin
<1>8. preflight \in Headers(setup) /\ HeaderOK(setup, r, requestID[r], preflight)
  BY <1>6, <1>7, HeaderWithRequest
<1> HIDE DEF preflight
<1> QED
  BY <1>1, <1>2, <1>6, <1>8, WriteKeepsHeaders

\* A Timeout passes on what is in its buffer.
LEMMA PassOnKeeps ==
    ASSUME Structure, HeadersOK, NEW g \in Routines, PassOn(g)
    PROVE  HeadersOK'
<1> DEFINE kept   == buffer[g[1]]
           header == HeaderOf(W(g))
           code   == IF kept.status = 0 THEN 200 ELSE kept.status
<1>1. /\ place[g].at \in DOMAIN Layers /\ Layers[place[g].at] = "timeout" /\ place[g].going = "wait"
      /\ Write(W(g), code, Merged(kept.header, header))
      /\ UNCHANGED context
  BY DEF PassOn, Is, Merged
<1>2. Runs(g)
  BY <1>1, LayerRuns
<1>3. header \in Headers(setup) /\ HeaderOK(setup, g[1], requestID[g[1]], header) /\ g[1] \in Requests
  BY <1>2, HeaderSeen
<1>4. /\ kept.header \in Headers(setup) /\ HeaderOK(setup, g[1], requestID[g[1]], kept.header)
      /\ code \in Nat
  BY <1>3 DEF HeadersOK, Buffers, RequestOK
<1> HIDE DEF kept, header, code
<1>5. /\ Merged(kept.header, header) \in Headers(setup)
      /\ HeaderOK(setup, g[1], requestID[g[1]], Merged(kept.header, header))
  BY <1>3, <1>4, HeaderMerged
<1> QED
  BY <1>1, <1>2, <1>4, <1>5, WriteKeepsHeaders

\* A Timeout answers itself, and refuses what comes from behind it.
LEMMA ExpireHeaders ==
    ASSUME Structure, HeadersOK, NEW g \in Routines, Expire(g)
    PROVE  HeadersOK'
<1> DEFINE header == HeaderOf(W(g))
<1>1. /\ place[g].at \in DOMAIN Layers /\ Layers[place[g].at] = "timeout" /\ place[g].going = "wait"
      /\ response' = Answered(Path(W(g)), 503, header)
      /\ buffer' = [buffer EXCEPT ![g[1]].expired = TRUE]
      /\ requestID' = requestID /\ setup' = setup
  BY DEF Expire, Is, context
<1>2. Runs(g)
  BY <1>1, LayerRuns
<1>3. header \in Headers(setup) /\ HeaderOK(setup, g[1], requestID[g[1]], header) /\ g[1] \in Requests
  BY <1>2, HeaderSeen
<1>4. AnswersOf(g, 503, header) /\ response' = [r \in Requests |-> response'[r]]
  BY <1>1, <1>2, AnswersAre
<1> HIDE DEF header
<1>5. buffer' \in [Requests -> Buffers(setup)] /\ \A r \in Requests : buffer'[r].header = buffer[r].header
  BY <1>1 DEF HeadersOK, Buffers
<1>6. ASSUME NEW r \in Requests
      PROVE  /\ response'[r] \in Responses(setup)
             /\ RequestOK(setup, r, requestID[r], response'[r], buffer'[r])
  <2>1. /\ RequestOK(setup, r, requestID[r], response[r], buffer[r])
        /\ response[r] \in Responses(setup)
    BY DEF HeadersOK
  <2>2. RequestOK(setup, r, requestID[r], response[r], buffer'[r])
    BY <1>5, <2>1 DEF RequestOK
  <2>3. CASE r = g[1] /\ g[2] = "conn"
    <3>1. response'[r] = Heard(response[r], 503, header)
      BY <1>4, <2>3 DEF AnswersOf
    <3> QED
      BY <1>3, <2>1, <2>2, <2>3, <3>1, HeardOK
  <2>4. CASE ~(r = g[1] /\ g[2] = "conn")
    <3>1. response'[r] = response[r]
      BY <1>4, <2>4 DEF AnswersOf
    <3> QED
      BY <2>1, <2>2, <3>1
  <2> QED
    BY <2>3, <2>4
<1>7. response' \in [Requests -> Responses(setup)]
  BY <1>4, <1>6
<1> QED
  BY ZenonT(60), <1>1, <1>5, <1>6, <1>7 DEF HeadersOK

\* A request ends: what was not written is 200 with the header as it is.
LEMMA FinishHeaders ==
    ASSUME HeadersOK, NEW r \in Requests, Finish(r)
    PROVE  HeadersOK'
<1>1. /\ requestID' = requestID /\ setup' = setup /\ buffer' = buffer
      /\ response' = response \/ response' = [response EXCEPT ![r] = Committed(@, 200)]
  BY DEF Finish, context
<1>2. /\ response[r] \in Responses(setup)
      /\ RequestOK(setup, r, requestID[r], response[r], buffer[r])
  BY DEF HeadersOK
<1>3. /\ Committed(response[r], 200) \in Responses(setup)
      /\ RequestOK(setup, r, requestID[r], Committed(response[r], 200), buffer[r])
  BY ZenonT(60), <1>2 DEF Committed, Responses, RequestOK
<1> QED
  BY <1>1, <1>3 DEF HeadersOK

\* What Flush makes of a response that has no status yet
Flushed(resp) == [Committed(resp, 200) EXCEPT !.flushed = TRUE]

\* A flush is heard by the connection of the goroutine's own request.
LEMMA FlushIs ==
    ASSUME Structure, HeadersOK, NEW g \in Routines, HandlerFlushes(g)
    PROVE  /\ g = <<g[1], "conn">> /\ g[1] \in Requests
           /\ UNCHANGED <<context, place, writer, entry, statusWriters, buffer, logged>>
           /\ response' = [r \in Requests |-> IF r = g[1] THEN Flushed(response[r]) ELSE response[r]]
<1>1. InHandler(g) /\ Conn(g[1]) \in Path(W(g)) /\ g[1] \in Requests /\ g = <<g[1], g[2]>>
  BY DEF HandlerFlushes, Routines
<1>2. g[2] = "conn"
  BY <1>1, HandlerRuns, EndsAt
<1>3. response' = [response EXCEPT ![g[1]] = Flushed(@)]
  BY DEF HandlerFlushes, Flushed
<1>4. response \in [Requests -> Responses(setup)]
  BY DEF HeadersOK
<1> HIDE DEF Flushed
<1>5. response' = [r \in Requests |-> IF r = g[1] THEN Flushed(response[r]) ELSE response[r]]
  BY <1>3, <1>4
<1>6. UNCHANGED <<context, place, writer, entry, statusWriters, buffer, logged>>
  BY DEF HandlerFlushes, pools
<1> QED
  BY <1>1, <1>2, <1>5, <1>6

\* It sends the header as it is.
LEMMA FlushHeaders ==
    ASSUME Structure, HeadersOK, NEW g \in Routines, HandlerFlushes(g)
    PROVE  HeadersOK'
<1>1. /\ requestID' = requestID /\ setup' = setup /\ buffer' = buffer
      /\ response' = [r \in Requests |-> IF r = g[1] THEN Flushed(response[r]) ELSE response[r]]
  BY FlushIs DEF context
<1>2. ASSUME NEW r \in Requests
      PROVE  /\ Flushed(response[r]) \in Responses(setup)
             /\ RequestOK(setup, r, requestID[r], Flushed(response[r]), buffer[r])
  <2>1. /\ response[r] \in Responses(setup)
        /\ RequestOK(setup, r, requestID[r], response[r], buffer[r])
    BY DEF HeadersOK
  <2> DEFINE c == Committed(response[r], 200)
  <2>2. c \in Responses(setup) /\ RequestOK(setup, r, requestID[r], c, buffer[r])
    BY ZenonT(60), <2>1 DEF Committed, Responses, RequestOK
  <2> HIDE DEF c
  <2>3. [c EXCEPT !.flushed = TRUE] \in Responses(setup)
        /\ [c EXCEPT !.flushed = TRUE].header = c.header
        /\ [c EXCEPT !.flushed = TRUE].sent = c.sent
    BY <2>2 DEF Responses
  <2> QED
    BY <2>2, <2>3 DEF Flushed, RequestOK, c
<1> HIDE DEF Flushed
<1> QED
  BY <1>1, <1>2 DEF HeadersOK

\* Every other step of a layer or of the handler writes a status, or nothing.
LEMMA HeadersStep ==
    ASSUME Structure, HeadersOK, NEW g \in Routines, Step(g) \/ Handler(g)
    PROVE  HeadersOK'
<1>1. ASSUME UNCHANGED <<context, response, buffer>> PROVE HeadersOK'
  BY <1>1 DEF context, HeadersOK
<1>2. ASSUME place[g].at \in DOMAIN Layers, place[g].going \in Going \cup {"in"},
             Layers[place[g].at] # "timeout", NEW code \in Nat,
             UNCHANGED context, WriteHeader(W(g), code)
      PROVE  HeadersOK'
  BY <1>2, LayerRuns, WriteHeaderKeeps
<1>3. CASE EnterRecovery(g) \/ Pass(g) \/ EnterTimeout(g) \/ Rethrow(g)
  BY <1>1, <1>3 DEF EnterRecovery, Pass, EnterTimeout, Rethrow
<1>4. CASE EnterRouter(g) \/ LeaveRouter(g) \/ EnterLog(g) \/ PassCORS(g) \/ HandlerEnds(g)
  BY <1>1, <1>4 DEF EnterRouter, LeaveRouter, EnterLog, PassCORS, HandlerEnds
<1>5. CASE LogAccess(g) \/ FormatLine(g)
  BY <1>1, <1>5 DEF LogAccess, FormatLine, Settle
<1>6. CASE WriteLine(g) \/ WriterPanics(g)
  BY <1>1, <1>6 DEF WriteLine, WriterPanics, Locked
<1>7. CASE Recover(g)
  <2>1. PICK rescue \in setup.Handler : WriteHeader(W(g), rescue.code)
    BY <1>7 DEF Recover, Rescue
  <2>2. rescue.code \in Nat
    BY SetupFacts DEF Structure, TypeOK, Answers
  <2> QED
    BY <1>2, <1>7, <2>1, <2>2 DEF Recover, Is, Going
<1>8. CASE PanicInRouter(g)
  <2>1. ASSUME NEW rescue \in setup.PanicHandler, WriteHeader(W(g), rescue.code) PROVE HeadersOK'
    <3>1. rescue.code \in Nat
      BY SetupFacts DEF Structure, TypeOK, Answers
    <3> QED
      BY <1>2, <1>8, <2>1, <3>1 DEF PanicInRouter, Is, Going
  <2> QED
    BY <1>1, <1>8, <2>1 DEF PanicInRouter, Rescue
<1>9. CASE ForbidCORS(g)
  BY <1>2, <1>9 DEF ForbidCORS, Is
<1>10. CASE HandlerWrites(g)
  <2>1. PICK code \in setup.codes : WriteHeader(W(g), code)
    BY <1>10 DEF HandlerWrites
  <2>2. code \in Nat
    BY SetupFacts DEF Structure, TypeOK
  <2>3. Runs(g) /\ UNCHANGED context
    BY <1>10, HandlerRuns DEF HandlerWrites
  <2> QED
    BY <2>1, <2>2, <2>3, WriteHeaderKeeps
<1>11. CASE HandlerFlushes(g)
  BY <1>11, FlushHeaders
<1> QED
  BY <1>3, <1>4, <1>5, <1>6, <1>7, <1>8, <1>9, <1>10, <1>11, RequestIDKeeps, AllowKeeps, PassOnKeeps,
     ExpireHeaders DEF Step, Handler

\* So do all others.
LEMMA HeadersNext ==
    ASSUME Structure, HeadersOK, [Next]_vars
    PROVE  HeadersOK'
<1>1. ASSUME UNCHANGED <<context, response, buffer>> PROVE HeadersOK'
  BY <1>1 DEF context, HeadersOK
<1>2. ASSUME NEW r \in Requests, Arrive(r) PROVE HeadersOK'
  BY <1>1, <1>2 DEF Arrive
<1>3. ASSUME UNCHANGED vars PROVE HeadersOK'
  BY <1>1, <1>3 DEF vars
<1> QED
  BY <1>2, <1>3, HeadersStep, FinishHeaders DEF Next, Quiet

\* At first no header says anything.
LEMMA HeadersInit ==
    ASSUME Init
    PROVE  HeadersOK
<1>1. NoHeader \in Headers(setup) /\ NoID \in IDs(setup)
  BY DEF NoHeader, Headers, IDs
<1>2. \A r, id : HeaderOK(setup, r, id, NoHeader)
  BY DEF NoHeader, HeaderOK
<1>3. NoResponse \in Responses(setup) /\ NoBuffer \in Buffers(setup)
      /\ NoResponse.header = NoHeader /\ NoResponse.sent = NoHeader /\ NoBuffer.header = NoHeader
  BY <1>1 DEF NoResponse, NoBuffer, Responses, Buffers
<1>4. requestID \in [Requests -> IDs(setup)]
  BY <1>1 DEF Init, IDs
<1> QED
  BY <1>2, <1>3, <1>4 DEF HeadersOK, RequestOK, Init

\* OriginsAreAllowed follows.
LEMMA OriginsOK ==
    ASSUME Structure, HeadersOK
    PROVE  OriginsAreAllowed
<1> DEFINE named == IF setup.cors.AllowOriginFunc # {} THEN UNION setup.cors.AllowOriginFunc
                    ELSE setup.cors.AllowedOrigins
<1> SUFFICES ASSUME NEW r \in DOMAIN setup.sent, response[r].sent.allow # NoOrigin
             PROVE  LET sent == response[r].sent
                    IN  /\ sent.allow = "*" => ~sent.creds /\ "*" \in setup.cors.AllowedOrigins
                        /\ sent.allow # "*" => sent.allow = setup.sent[r].origin
                                               /\ sent.allow \in named /\ "Origin" \in sent.vary
  BY DEF OriginsAreAllowed
<1> DEFINE sent   == response[r].sent
           origin == setup.sent[r].origin
<1>1. r \in Requests /\ origin # "*"
  BY SetupFacts DEF Structure, TypeOK
<1>2. HeaderOK(setup, r, requestID[r], sent)
  BY <1>1 DEF HeadersOK, RequestOK
<1>3. /\ Allowed(setup.cors, origin)
      /\ sent.allow = IF AllowAll(setup.cors) THEN "*" ELSE origin
      /\ AllowAll(setup.cors) \/ "Origin" \in sent.vary
      /\ sent.creds => setup.cors.AllowCredentials
  BY <1>2 DEF HeaderOK
<1>4. AllowAll(setup.cors) => "*" \in setup.cors.AllowedOrigins /\ ~setup.cors.AllowCredentials
  BY DEF AllowAll
<1>5. ~AllowAll(setup.cors) => origin \in named
  BY <1>3 DEF Allowed, AllowOrigin
<1> HIDE DEF sent, origin, named
<1>6. sent.allow = "*" => ~sent.creds /\ "*" \in setup.cors.AllowedOrigins
  BY <1>1, <1>3, <1>4
<1>7. sent.allow # "*" => sent.allow = origin /\ sent.allow \in named /\ "Origin" \in sent.vary
  BY <1>3, <1>5
<1> QED
  BY <1>6, <1>7 DEF sent, origin

-----------------------------------------------------------------------------
(* Logs: the third part of the inductive invariant *)

\* A goroutine is on its way back, or through.
Back(p) == p.going \in Going \cup {"done", "aborted"}

\* It stays so, and goes nowhere but outwards.
BackStays(pl, pl2) ==
    \A h \in Routines : Back(pl[h]) => Back(pl2[h]) /\ pl2[h].at <= pl[h].at

Waiting(p) == p.going \in {"logOut", "logUp"}      \* for the Logger's mutex

\* A step of goroutine g: it enters level n, or none; and another goroutine of a
\* connection does not move, nor one that comes to wait.
StepMoves(g, n) ==
    /\ Moves(g, n)
    /\ n # 0 => n = place[g].at + 1 /\ place[g].at \in DOMAIN Layers /\ place[g].going = "in"
    /\ BackStays(place, place')
    /\ \A r \in Requests : <<r, "conn">> # g => place'[<<r, "conn">>] = place[<<r, "conn">>]
    /\ \A h \in Routines : h # g /\ Waiting(place'[h]) => place'[h] = place[h]

\* One goroutine moves, and not inwards if it is on its way back.
LEMMA MovedBack ==
    ASSUME Structure, NEW g \in Routines, NEW p, Moved(place, place', g, p),
           Back(place[g]) => Back(p) /\ p.at <= place[g].at
    PROVE  /\ BackStays(place, place') /\ place'[g] = p
           /\ \A h \in Routines : h # g => place'[h] = place[h]
           /\ \A r \in Requests : <<r, "conn">> # g => place'[<<r, "conn">>] = place[<<r, "conn">>]
<1>1. IsPlaces(place)
  BY DEF Structure, RoutinesOK
<1>2. place'[g] = p /\ \A h \in Routines : h # g => place'[h] = place[h]
  BY <1>1 DEF IsPlaces, Moved
<1>3. \A h \in Routines : place[h].at <= place[h].at
  BY <1>1 DEF IsPlaces
<1>4. BackStays(place, place')
  BY <1>2, <1>3 DEF BackStays
<1>5. \A r \in Requests : <<r, "conn">> \in Routines
  BY DEF Routines
<1> QED
  BY <1>2, <1>4, <1>5

\* The kinds of moves: a call of next,
LEMMA CallStep ==
    ASSUME Structure, NEW g \in Routines, NEW w \in Writers, Call(g, w),
           place[g].at \in DOMAIN Layers, place[g].going = "in", Layers[place[g].at] # "timeout"
    PROVE  /\ StepMoves(g, place[g].at + 1) /\ place'[g] = At(place[g].at + 1, "in")
           /\ place[g].at \in Nat /\ place[g].at >= 1 /\ W(g) \in Writers /\ g[1] \in Requests
<1>1. /\ Moves(g, place[g].at + 1) /\ place[g].at \in Nat /\ place[g].at >= 1 /\ W(g) \in Writers
      /\ g[1] \in Requests
  BY Calling
<1>2. Moved(place, place', g, At(place[g].at + 1, "in"))
  BY DEF Call, Moved
<1>3. ~Back(place[g])
  BY DEF Back, Going
<1> QED
  BY <1>1, <1>2, <1>3, MovedBack DEF StepMoves

\* a layer that is left,
LEMMA LeaveStep ==
    ASSUME Structure, NEW g \in Routines,
           place[g].going \in Going \cup {"in", "wait"}, place[g].at # 0,
           place[g].at \in DOMAIN Layers /\ Layers[place[g].at] = "timeout" => g[2] = "conn",
           NEW how \in {"out", "up"}, Leave(g, how)
    PROVE  StepMoves(g, 0) /\ place'[g] = At(place[g].at - 1, how) /\ g[1] \in Requests
<1>1. Moves(g, 0) /\ g[1] \in Requests
  BY LeavingOne
<1>2. Moved(place, place', g, At(place[g].at - 1, how))
  BY DEF Leave, Moved
<1>3. Back(At(place[g].at - 1, how)) /\ At(place[g].at - 1, how).at <= place[g].at
  <2>1. place[g].at \in Nat
    BY DEF Structure, RoutinesOK, IsPlaces
  <2> QED
    BY <2>1 DEF Back, Going, At
<1> QED
  BY <1>1, <1>2, <1>3, MovedBack DEF StepMoves

\* a layer that is no Timeout, or a Timeout that waits,
LEMMA LayerLeft ==
    ASSUME Structure, NEW g \in Routines, place[g].at \in DOMAIN Layers,
           place[g].going \in Going \cup {"in", "wait"},
           Layers[place[g].at] # "timeout" \/ place[g].going = "wait",
           NEW how \in {"out", "up"}, Leave(g, how)
    PROVE  StepMoves(g, 0) /\ place'[g] = At(place[g].at - 1, how) /\ g[1] \in Requests
BY MayLeave, LeaveStep

\* a Timeout's start,
LEMMA TimeoutStep ==
    ASSUME Structure, NEW g \in Routines, EnterTimeout(g)
    PROVE  /\ StepMoves(g, place[g].at + 1) /\ g = <<g[1], "conn">>
           /\ place'[g] = At(place[g].at, "wait")
           /\ Layers[place[g].at] = "timeout" /\ place[g].at \in Nat /\ place[g].at >= 1
<1>1. /\ Moves(g, place[g].at + 1) /\ Started(place, place', g)
      /\ place[g].at \in Nat /\ place[g].at >= 1 /\ g[1] \in Requests
  BY TimeoutIs
<1>2. place[g].at \in DOMAIN Layers /\ place[g].going = "in" /\ Layers[place[g].at] = "timeout"
  BY DEF EnterTimeout, Is
<1>3. g = <<g[1], "conn">> /\ Runner(g) = <<g[1], "timeout">>
  BY <1>1 DEF Started, Routines, Runner
<1>4. place[Runner(g)].going = "absent"
  <2>1. PairOK(place, setup.sent, g[1])
    BY <1>1 DEF Structure
  <2> QED
    BY <1>2, <1>3, <2>1 DEF PairOK
<1>5. BackStays(place, place')
  <2>1. \A h \in Routines : place[h].at <= place[h].at
    BY DEF Structure, RoutinesOK, IsPlaces
  <2>2. ~Back(place[g]) /\ ~Back(place[Runner(g)])
    BY <1>2, <1>4 DEF Back, Going
  <2> QED
    BY <1>1, <2>1, <2>2 DEF BackStays, Started
<1>6. ASSUME NEW r \in Requests, <<r, "conn">> # g
      PROVE  place'[<<r, "conn">>] = place[<<r, "conn">>]
  BY <1>1, <1>3, <1>6 DEF Started, Routines
<1>7. ASSUME NEW h \in Routines, h # g, Waiting(place'[h]) PROVE place'[h] = place[h]
  BY <1>1, <1>7 DEF Started, Waiting, At
<1> QED
  BY <1>1, <1>2, <1>3, <1>5, <1>6, <1>7 DEF StepMoves, Started

\* a Logger's formatted line,
LEMMA FormatLineStep ==
    ASSUME Structure, NEW g \in Routines, FormatLine(g)
    PROVE  /\ StepMoves(g, 0)
           /\ place'[g] = At(place[g].at, IF place[g].going = "up" THEN "logUp" ELSE "logOut")
           /\ ~Held(Layers, place', g[1], place[g].at + 1)
<1> DEFINE to == IF place[g].going = "up" THEN "logUp" ELSE "logOut"
<1>1. /\ Moves(g, 0) /\ ~Held(Layers, place', g[1], place[g].at + 1)
      /\ Moved(place, place', g, At(place[g].at, to))
  BY FormatLineIs
<1>2. Back(At(place[g].at, to)) /\ At(place[g].at, to).at <= place[g].at
  <2>1. place[g].at \in Nat
    BY DEF Structure, RoutinesOK, IsPlaces
  <2> QED
    BY <2>1 DEF Back, Going, At
<1> QED
  BY <1>1, <1>2, MovedBack DEF StepMoves

\* the end of a request,
LEMMA FinishStep ==
    ASSUME Structure, NEW r \in Requests, Finish(r)
    PROVE  /\ StepMoves(<<r, "conn">>, 0)
           /\ place'[<<r, "conn">>] =
                At(0, IF place[<<r, "conn">>].going = "out" THEN "done" ELSE "aborted")
<1> DEFINE g  == <<r, "conn">>
           to == IF place[g].going = "out" THEN "done" ELSE "aborted"
<1>1. Moves(g, 0) /\ g \in Routines /\ Moved(place, place', g, At(0, to))
  BY FinishIs
<1>2. Back(At(0, to)) /\ At(0, to).at <= place[g].at
  <2>1. place[g].at = 0
    BY DEF Finish
  <2> QED
    BY <2>1 DEF Back, Going, At
<1> HIDE DEF g, to
<1>3. StepMoves(g, 0) /\ place'[g] = At(0, to)
  BY <1>1, <1>2, MovedBack DEF StepMoves
<1> QED
  BY <1>3 DEF g, to

\* or nothing at all.
LEMMA NoStep ==
    ASSUME Structure, NEW g \in Routines, place' = place, writer' = writer
    PROVE  StepMoves(g, 0)
<1>1. RoutinesOK(Layers, place') /\ IsWriters(Layers, writer')
  BY DEF Structure, TypeOK, IsWriters
<1>2. SameWriters(Layers, place', writer, writer', g[1], 0) /\ KeepsLevels(Layers, place, place', g[1], 0)
  BY DEF SameWriters, KeepsLevels
<1>3. \A r \in Requests : PairOK(place', setup.sent, r)
  BY DEF Structure
<1>4. \A h \in Routines : place[h].at <= place[h].at
  BY DEF Structure, RoutinesOK, IsPlaces
<1>5. BackStays(place, place')
  BY <1>4 DEF BackStays
<1> QED
  BY <1>1, <1>2, <1>3, <1>5 DEF StepMoves, Moves

-----------------------------------------------------------------------------
(* No layer logs a request twice. *)

Entries(s) == [layer : DOMAIN s.layers, status : Nat \ {0}, id : IDs(s)]
Pending(s) == [status : Nat, id : IDs(s)]

\* The entries of a request are of different log layers, which the goroutines
\* that run them have left.
OnceOK(ls, pl, r, log) ==
    /\ \A i, j \in DOMAIN log : log[i].layer = log[j].layer => i = j
    /\ \A i \in DOMAIN log : /\ ls[log[i].layer] \in Logs
                             /\ Back(pl[Routine(ls, r, log[i].layer)])
                             /\ pl[Routine(ls, r, log[i].layer)].at < log[i].layer

\* A goroutine that waits for the mutex has something to log.
EntriesTyped ==
    /\ entry \in [Routines -> Pending(setup)]
    /\ \A g \in Routines : Waiting(place[g]) => entry[g].status # 0
    /\ logged \in [Requests -> Seq(Entries(setup))]

LoggedOnce ==
    /\ EntriesTyped
    /\ \A r \in Requests : OnceOK(Layers, place, r, logged[r])

\* What has been logged stays so,
LEMMA OnceStays ==
    ASSUME NEW ls, ChainOK(ls), NEW pl, IsPlaces(pl), NEW pl2, IsPlaces(pl2), BackStays(pl, pl2),
           NEW r \in Requests, NEW log, OnceOK(ls, pl, r, log),
           \A i \in DOMAIN log : log[i].layer \in DOMAIN ls
    PROVE  OnceOK(ls, pl2, r, log)
<1>1. ASSUME NEW i \in DOMAIN log
      PROVE  /\ ls[log[i].layer] \in Logs
             /\ Back(pl2[Routine(ls, r, log[i].layer)])
             /\ pl2[Routine(ls, r, log[i].layer)].at < log[i].layer
  <2> DEFINE k == log[i].layer
             h == Routine(ls, r, k)
  <2>1. k \in DOMAIN ls /\ k \in Nat /\ k \in Levels(ls)
    BY DEF ChainOK, Levels
  <2>2. h \in Routines
    BY <2>1, Routing
  <2>3. ls[k] \in Logs /\ Back(pl[h]) /\ pl[h].at < k
    BY DEF OnceOK
  <2> HIDE DEF k, h
  <2>4. Back(pl2[h]) /\ pl2[h].at <= pl[h].at /\ pl[h].at \in Nat /\ pl2[h].at \in Nat
    BY <2>2, <2>3 DEF BackStays, IsPlaces
  <2>5. pl2[h].at < k
    BY <2>1, <2>3, <2>4
  <2> QED
    BY <2>3, <2>4, <2>5 DEF k, h
<1> QED
  BY <1>1 DEF OnceOK

\* and a goroutine that leaves a log has not logged there.
LEMMA OnceMore ==
    ASSUME NEW s, NEW ls, ls = s.layers, NEW pl, NEW pl2,
           NEW r \in Requests, NEW log \in Seq(Entries(s)), OnceOK(ls, pl, r, log),
           OnceOK(ls, pl2, r, log),
           NEW x \in Entries(s), NEW h, Routine(ls, r, x.layer) = h, ls[x.layer] \in Logs,
           pl[h].at = x.layer, x.layer \in Nat, Back(pl2[h]), pl2[h].at < x.layer
    PROVE  Append(log, x) \in Seq(Entries(s)) /\ OnceOK(ls, pl2, r, Append(log, x))
<1> DEFINE n == Len(log)
           new == Append(log, x)
<1>1. /\ n \in Nat /\ DOMAIN log = 1 .. n
      /\ new \in Seq(Entries(s)) /\ DOMAIN new = 1 .. n + 1
      /\ new[n + 1] = x
      /\ \A i \in 1 .. n : new[i] = log[i]
  OBVIOUS
<1> HIDE DEF n, new
<1>2. ASSUME NEW i \in 1 .. n PROVE new[i].layer # x.layer
  <2>1. log[i].layer = x.layer => pl[h].at < x.layer
    BY <1>1 DEF OnceOK
  <2> QED
    BY <1>1, <2>1
<1>3. ASSUME NEW i \in DOMAIN new, NEW j \in DOMAIN new, new[i].layer = new[j].layer PROVE i = j
  <2>1. (i \in 1 .. n \/ i = n + 1) /\ (j \in 1 .. n \/ j = n + 1)
    BY <1>1
  <2>2. CASE i \in 1 .. n /\ j \in 1 .. n
    BY <1>1, <1>3, <2>2 DEF OnceOK
  <2>3. CASE i = n + 1 \/ j = n + 1
    BY <1>1, <1>2, <1>3, <2>1, <2>3
  <2> QED
    BY <2>1, <2>2, <2>3
<1>4. ASSUME NEW i \in DOMAIN new
      PROVE  /\ ls[new[i].layer] \in Logs
             /\ Back(pl2[Routine(ls, r, new[i].layer)])
             /\ pl2[Routine(ls, r, new[i].layer)].at < new[i].layer
  <2>1. CASE i \in 1 .. n
    BY <1>1, <2>1 DEF OnceOK
  <2>2. CASE i = n + 1
    BY <1>1, <2>2
  <2> QED
    BY <1>1, <2>1, <2>2
<1>5. OnceOK(ls, pl2, r, new)
  BY <1>3, <1>4 DEF OnceOK
<1> QED
  BY <1>1, <1>5 DEF new

\* What a step of g leaves of the entries that are about to be logged
PendingStays(g) ==
    /\ entry' \in [Routines -> Pending(setup)]
    /\ \A h \in Routines : h # g => entry'[h] = entry[h]
    /\ Waiting(place'[g]) => entry'[g].status # 0

\* Entries are of layers.
LEMMA EntryLayers ==
    ASSUME EntriesTyped, NEW r \in Requests, NEW i \in DOMAIN logged[r]
    PROVE  /\ logged[r] \in Seq(Entries(setup)) /\ logged[r][i] \in Entries(setup)
           /\ logged[r][i].layer \in DOMAIN Layers
<1>1. logged[r] \in Seq(Entries(setup))
  BY DEF EntriesTyped
<1>2. logged[r][i] \in Entries(setup)
  BY <1>1
<1> QED
  BY <1>1, <1>2 DEF Entries, Layers

\* A step that logs nothing
LEMMA NothingLogged ==
    ASSUME Structure, LoggedOnce, NEW g \in Routines, NEW n, StepMoves(g, n), setup' = setup,
           PendingStays(g), logged' = logged
    PROVE  LoggedOnce'
<1>1. Layers' = Layers /\ ChainOK(Layers) /\ IsPlaces(place) /\ IsPlaces(place')
  BY SetupFacts DEF Layers, Structure, TypeOK, RoutinesOK, StepMoves, Moves
<1>2. ASSUME NEW r \in Requests PROVE OnceOK(Layers, place', r, logged[r])
  BY <1>1, EntryLayers, OnceStays DEF LoggedOnce, StepMoves
<1>3. \A h \in Routines : Waiting(place'[h]) => entry'[h].status # 0
  BY DEF PendingStays, StepMoves, LoggedOnce, EntriesTyped
<1>4. EntriesTyped'
  BY <1>3 DEF EntriesTyped, LoggedOnce, PendingStays
<1> QED
  BY <1>1, <1>2, <1>4 DEF LoggedOnce

\* A step that logs
LEMMA OneLogged ==
    ASSUME Structure, LoggedOnce, NEW g \in Routines, NEW n, StepMoves(g, n), setup' = setup,
           PendingStays(g), NEW x \in Entries(setup),
           logged' = [logged EXCEPT ![g[1]] = Append(@, x)],
           x.layer = place[g].at, Layers[x.layer] \in Logs, Runs(g),
           Back(place'[g]), place'[g].at < place[g].at
    PROVE  LoggedOnce'
<1>1. Layers' = Layers /\ ChainOK(Layers) /\ IsPlaces(place) /\ IsPlaces(place') /\ g[1] \in Requests
  BY SetupFacts DEF Layers, Structure, TypeOK, RoutinesOK, StepMoves, Moves, Routines
<1>2. ASSUME NEW r \in Requests PROVE OnceOK(Layers, place', r, logged[r])
  BY <1>1, EntryLayers, OnceStays DEF LoggedOnce, StepMoves
<1>3. /\ Append(logged[g[1]], x) \in Seq(Entries(setup))
      /\ OnceOK(Layers, place', g[1], Append(logged[g[1]], x))
  <2>1. Layers = setup.layers /\ Routine(Layers, g[1], x.layer) = g /\ x.layer \in Nat
    BY <1>1 DEF Layers, Runs, IsPlaces
  <2>2. /\ logged[g[1]] \in Seq(Entries(setup)) /\ OnceOK(Layers, place, g[1], logged[g[1]])
        /\ OnceOK(Layers, place', g[1], logged[g[1]])
    BY <1>1, <1>2 DEF LoggedOnce, EntriesTyped
  <2> QED
    BY <1>1, <2>1, <2>2, OnceMore
<1>4. \A h \in Routines : Waiting(place'[h]) => entry'[h].status # 0
  BY DEF PendingStays, StepMoves, LoggedOnce, EntriesTyped
<1>5. logged' \in [Requests -> Seq(Entries(setup))]
  BY <1>1, <1>3 DEF LoggedOnce, EntriesTyped
<1>6. EntriesTyped'
  BY <1>4, <1>5 DEF EntriesTyped, PendingStays
<1>7. ASSUME NEW r \in Requests PROVE OnceOK(Layers, place', r, logged'[r])
  <2>1. logged'[r] = IF r = g[1] THEN Append(logged[g[1]], x) ELSE logged[r]
    BY DEF LoggedOnce, EntriesTyped
  <2> QED
    BY <1>2, <1>3, <2>1
<1> QED
  BY <1>1, <1>6, <1>7 DEF LoggedOnce

-----------------------------------------------------------------------------
(* Kinds of steps, for what follows *)

Quietly == statusWriters' = statusWriters /\ response' = response

\* The goroutine writes to the writer that it was called with.
Writes(g, code, header) ==
    /\ Runs(g) /\ code \in Nat
    /\ statusWriters' = Noted(Path(W(g)), code)
    /\ response' = Answered(Path(W(g)), code, header)

LogsNothing == setup' = setup /\ entry' = entry /\ logged' = logged

\* A layer that logs nothing calls next; it may have set the header.
Enters(g) ==
    /\ LogsNothing
    /\ place[g].at \in DOMAIN Layers /\ place[g].going = "in"
    /\ place[g].at \in Nat /\ Layers[place[g].at] \notin Logs
    /\ StepMoves(g, place[g].at + 1)
    /\ place'[g] \in {At(place[g].at + 1, "in"), At(place[g].at, "wait")}
    /\ Quietly \/ \E header : Writes(g, 0, header)

\* The handler ends, or a Timeout or a CORS does without calling next (again).
\* No log behind it, of the same goroutine, expects the request.
TurnsBack(g) ==
    /\ LogsNothing
    /\ place[g].going \in {"in", "wait"} /\ place[g].at \in Nat
    /\ StepMoves(g, 0)
    /\ \E how \in {"out", "up"} : place'[g] = At(place[g].at - 1, how)
    /\ Quietly \/ \E code, header : Writes(g, code, header)
    /\ \A k \in DOMAIN Layers :
          k >= place[g].at /\ Layers[k] \in Logs /\ Side(Layers, k) = "conn" =>
            /\ Before("cors", k)
            /\ setup.sent[g[1]].preflight /\ setup.sent[g[1]].origin # NoOrigin

\* A return or a panic passes a layer that logs nothing, or user code gets the panic.
Passes(g) ==
    /\ LogsNothing
    /\ place[g].going \in {"out", "up"} /\ place[g].at \in Nat
    /\ place[g].at \in DOMAIN Layers /\ Layers[place[g].at] \notin Logs
    /\ StepMoves(g, 0)
    /\ \/ place'[g] = At(place[g].at - 1, place[g].going) /\ Quietly
       \/ \E rescue \in Rescues(setup, place[g].at) :
             /\ place[g].going = "up" /\ rescue \in Answers
             /\ place'[g] = At(place[g].at - 1, rescue.how)
             /\ Writes(g, rescue.code, HeaderOf(W(g)))

\* Which actions they are
LEMMA CallEnters ==
    ASSUME Structure, NEW g \in Routines, NEW w \in Writers, Call(g, w), LogsNothing,
           place[g].at \in DOMAIN Layers, place[g].going = "in",
           Layers[place[g].at] \notin Logs \cup {"timeout"},
           Quietly \/ \E header : Writes(g, 0, header)
    PROVE  Enters(g)
BY CallStep DEF Enters

\* The layers that let a request in call the next one, and log nothing.
LEMMA EntersAre ==
    ASSUME Structure, NEW g \in Routines,
           \/ EnterRecovery(g) \/ EnterTimeout(g) \/ EnterRouter(g) \/ EnterRequestID(g) \/ PassCORS(g)
           \/ AllowCORS(g) /\ Call(g, W(g))
    PROVE  Enters(g)
<1>1. ASSUME UNCHANGED pools, response' = response PROVE Quietly
  BY <1>1 DEF Quietly, pools
<1>2. ASSUME place[g].at \in DOMAIN Layers, place[g].going = "in",
             Layers[place[g].at] \notin Logs \cup {"timeout"}
      PROVE  Runs(g) /\ W(g) \in Writers
  <2>1. Runs(g) /\ g[1] \in Requests
    BY <1>2, LayerRuns DEF Going
  <2>2. IsWriters(Layers, writer)
    BY DEF Structure, TypeOK
  <2> QED
    BY <2>1, <2>2 DEF Runs, W, IsWriters
<1>3. CASE EnterRecovery(g)
  BY <1>1, <1>2, <1>3, CallEnters DEF EnterRecovery, Is, Logs, LogsNothing, context
<1>4. CASE EnterTimeout(g)
  <2>1. Quietly /\ LogsNothing
    BY <1>1, <1>4 DEF EnterTimeout, LogsNothing, context
  <2>2. place[g].at \in DOMAIN Layers /\ place[g].going = "in" /\ "timeout" \notin Logs
    BY <1>4 DEF EnterTimeout, Is, Logs
  <2> QED
    BY <1>4, <2>1, <2>2, TimeoutStep DEF Enters
<1>5. CASE EnterRouter(g)
  <2>1. Call(g, ParamOf(Get(freeWriters))) /\ freeWriters # {} /\ freeWriters \subseteq Objects
    BY <1>5 DEF EnterRouter, Structure, TypeOK
  <2>2. Get(freeWriters) \in Objects
    BY <2>1, ObjectsAssumption, MinIs DEF Get
  <2>3. ParamOf(Get(freeWriters)) \in Writers
    BY <2>2 DEF Writers
  <2>4. place[g].at \in DOMAIN Layers /\ place[g].going = "in"
        /\ Layers[place[g].at] \notin Logs \cup {"timeout"}
    BY <1>5 DEF EnterRouter, Is, Logs
  <2>5. LogsNothing /\ Quietly
    BY <1>5 DEF EnterRouter, LogsNothing, Quietly, context
  <2> QED
    BY <2>1, <2>3, <2>4, <2>5, CallEnters
<1>6. CASE EnterRequestID(g)
  <2>1. place[g].at \in DOMAIN Layers /\ place[g].going = "in"
        /\ Layers[place[g].at] \notin Logs \cup {"timeout"}
    BY <1>6 DEF EnterRequestID, Is, Logs
  <2>2. PICK header : Write(W(g), 0, header)
    BY <1>6 DEF EnterRequestID
  <2>3. Writes(g, 0, header)
    BY <1>2, <2>1, <2>2 DEF Writes, Write
  <2>4. LogsNothing /\ Call(g, W(g))
    BY <1>6 DEF EnterRequestID, LogsNothing
  <2> QED
    BY <1>2, <2>1, <2>3, <2>4, CallEnters
<1>7. CASE PassCORS(g)
  BY <1>1, <1>2, <1>7, CallEnters DEF PassCORS, Is, Logs, LogsNothing, context
<1>8. CASE AllowCORS(g) /\ Call(g, W(g))
  <2>1. place[g].at \in DOMAIN Layers /\ place[g].going = "in"
        /\ Layers[place[g].at] \notin Logs \cup {"timeout"}
    BY <1>8 DEF AllowCORS, Is, Logs
  <2>2. ~Leave(g, "out")
    <3>1. place'[g] = At(place[g].at + 1, "in")
      BY <1>2, <1>8, <2>1, CallStep
    <3>2. Leave(g, "out") => place'[g].going = "out"
      BY DEF Leave, At, Structure, RoutinesOK, IsPlaces
    <3> QED
      BY <3>1, <3>2 DEF At
  <2>3. PICK header : Write(W(g), 0, header)
    BY <1>8, <2>2 DEF AllowCORS
  <2>4. Writes(g, 0, header)
    BY <1>2, <2>1, <2>3 DEF Writes, Write
  <2>5. LogsNothing
    BY <1>8 DEF AllowCORS, LogsNothing, context
  <2> QED
    BY <1>2, <1>8, <2>1, <2>4, <2>5, CallEnters
<1> QED
  BY <1>3, <1>4, <1>5, <1>6, <1>7, <1>8

\* (where requests turn back)
LEMMA TurnsBackAre ==
    ASSUME Structure, BuffersOK, NEW g \in Routines,
           \/ HandlerEnds(g) \/ PassOn(g) \/ Rethrow(g) \/ Expire(g) \/ ForbidCORS(g)
           \/ AllowCORS(g) /\ Leave(g, "out")
    PROVE  TurnsBack(g)
<1>1. ASSUME UNCHANGED pools, response' = response PROVE Quietly
  BY <1>1 DEF Quietly, pools
<1>2. /\ Len(Layers) \in Nat /\ DOMAIN Layers = 1 .. Len(Layers) /\ place[g].at \in Nat
      /\ g[1] \in Requests
  BY SetupFacts DEF Structure, TypeOK, RoutinesOK, IsPlaces, Routines
<1>3. CASE HandlerEnds(g)
  <2>1. place[g].going = "in" /\ place[g].at = Len(Layers) + 1
    BY <1>3 DEF HandlerEnds, InHandler, At, Inner
  <2>2. place[g].at # 0 /\ place[g].at \notin DOMAIN Layers
    BY <1>2, <2>1
  <2>3. PICK how \in {"out", "up"} : Leave(g, how)
    BY <1>3 DEF HandlerEnds
  <2>4. StepMoves(g, 0) /\ place'[g] = At(place[g].at - 1, how)
    BY <2>1, <2>2, <2>3, LeaveStep
  <2>5. \A k \in DOMAIN Layers : ~(k >= place[g].at)
    BY <1>2, <2>1
  <2>6. LogsNothing /\ Quietly
    BY <1>1, <1>3 DEF HandlerEnds, LogsNothing, context
  <2> QED
    BY <1>2, <2>1, <2>4, <2>5, <2>6 DEF TurnsBack
<1>4. ASSUME Is(g, "timeout", "wait"), LogsNothing, NEW how \in {"out", "up"}, Leave(g, how),
             Quietly \/ \E code, header : Writes(g, code, header)
      PROVE  TurnsBack(g)
  <2>1. place[g].at \in DOMAIN Layers /\ Layers[place[g].at] = "timeout" /\ place[g].going = "wait"
    BY <1>4 DEF Is
  <2>2. StepMoves(g, 0) /\ place'[g] = At(place[g].at - 1, how)
    BY <1>4, <2>1, LayerLeft
  <2>3. ASSUME NEW k \in DOMAIN Layers, k >= place[g].at, Layers[k] \in Logs
        PROVE  Side(Layers, k) # "conn"
    <3>1. k # place[g].at
      BY <2>1, <2>3 DEF Logs
    <3>2. place[g].at \in 1 .. k - 1
      BY <1>2, <2>1, <2>3, <3>1
    <3> QED
      BY <2>1, <3>2 DEF Side
  <2> QED
    BY <1>2, <1>4, <2>1, <2>2, <2>3 DEF TurnsBack
<1>5. ASSUME Is(g, "timeout", "wait") PROVE Runs(g)
  BY <1>5, LayerRuns DEF Is
<1>6. CASE PassOn(g)
  <2>1. Is(g, "timeout", "wait") /\ LogsNothing /\ Leave(g, "out")
    BY <1>6 DEF PassOn, LogsNothing, context
  <2>2. PICK code, header : code \in Nat /\ Write(W(g), code, header)
    BY <1>2, <1>6 DEF PassOn, BuffersOK
  <2>3. Writes(g, code, header)
    BY <1>5, <2>1, <2>2 DEF Writes, Write
  <2> QED
    BY <1>4, <2>1, <2>3
<1>7. CASE Rethrow(g)
  BY <1>1, <1>4, <1>7 DEF Rethrow, LogsNothing, context
<1>8. CASE Expire(g)
  <2>1. Is(g, "timeout", "wait") /\ LogsNothing /\ Leave(g, "out")
    BY <1>8 DEF Expire, LogsNothing, context
  <2>2. Writes(g, 503, HeaderOf(W(g)))
    BY <1>5, <1>8, <2>1 DEF Writes, Expire
  <2> QED
    BY <1>4, <2>1, <2>2
<1>9. ASSUME Is(g, "cors", "in"), LogsNothing, Leave(g, "out"),
             setup.sent[g[1]].preflight, setup.sent[g[1]].origin # NoOrigin,
             NEW code \in Nat, NEW header, Write(W(g), code, header)
      PROVE  TurnsBack(g)
  <2>1. place[g].at \in DOMAIN Layers /\ Layers[place[g].at] = "cors" /\ place[g].going = "in"
    BY <1>9 DEF Is
  <2>2. StepMoves(g, 0) /\ place'[g] = At(place[g].at - 1, "out")
    BY <1>9, <2>1, LayerLeft
  <2>3. Writes(g, code, header)
    BY <1>9, <2>1, LayerRuns DEF Writes, Write
  <2>4. ASSUME NEW k \in DOMAIN Layers, k >= place[g].at, Layers[k] \in Logs
        PROVE  Before("cors", k)
    <3>1. k # place[g].at
      BY <2>1, <2>4 DEF Logs
    <3>2. place[g].at \in 1 .. k - 1
      BY <1>2, <2>1, <2>4, <3>1
    <3> QED
      BY <2>1, <3>2 DEF Before
  <2> QED
    BY <1>2, <1>9, <2>1, <2>2, <2>3, <2>4 DEF TurnsBack
<1>10. CASE ForbidCORS(g)
  BY <1>9, <1>10 DEF ForbidCORS, WriteHeader, LogsNothing, context
<1>11. CASE AllowCORS(g) /\ Leave(g, "out")
  <2>1. Is(g, "cors", "in") /\ LogsNothing /\ setup.sent[g[1]].origin # NoOrigin
    BY <1>11 DEF AllowCORS, LogsNothing, context
  <2>2. ~Call(g, W(g))
    <3>1. Call(g, W(g)) => place'[g].going = "in"
      BY DEF Call, At, Structure, RoutinesOK, IsPlaces
    <3>2. place'[g].going = "out"
      BY <1>11 DEF Leave, At, Structure, RoutinesOK, IsPlaces
    <3> QED
      BY <3>1, <3>2
  <2>3. setup.sent[g[1]].preflight /\ \E header : Write(W(g), 204, header)
    BY <1>11, <2>2 DEF AllowCORS
  <2> QED
    BY <1>9, <1>11, <2>1, <2>3
<1> QED
  BY <1>3, <1>6, <1>7, <1>8, <1>10, <1>11

\* (what is passed on the way back)
LEMMA PassesAre ==
    ASSUME Structure, NEW g \in Routines,
           Recover(g) \/ Pass(g) \/ LeaveRouter(g) \/ PanicInRouter(g)
    PROVE  Passes(g)
<1>1. place[g].at \in Nat
  BY DEF Structure, RoutinesOK, IsPlaces
<1>2. ASSUME LogsNothing, place[g].at \in DOMAIN Layers, place[g].going \in {"out", "up"},
             Layers[place[g].at] \notin Logs \cup {"timeout"}, Leave(g, place[g].going), Quietly
      PROVE  Passes(g)
  <2>1. StepMoves(g, 0) /\ place'[g] = At(place[g].at - 1, place[g].going)
    BY <1>2, LayerLeft DEF Going
  <2> QED
    BY <1>1, <1>2, <2>1 DEF Passes
<1>3. ASSUME LogsNothing, place[g].at \in DOMAIN Layers, place[g].going = "up",
             Layers[place[g].at] \notin Logs \cup {"timeout"},
             NEW rescue \in Rescues(setup, place[g].at), rescue \in Answers,
             Leave(g, rescue.how), WriteHeader(W(g), rescue.code)
      PROVE  Passes(g)
  <2>1. rescue.code \in Nat /\ rescue.how \in {"out", "up"}
    BY <1>3 DEF Answers
  <2>2. StepMoves(g, 0) /\ place'[g] = At(place[g].at - 1, rescue.how)
    BY <1>3, <2>1, LayerLeft DEF Going
  <2>3. Writes(g, rescue.code, HeaderOf(W(g)))
    BY <1>3, <2>1, LayerRuns DEF Writes, Write, WriteHeader, Going
  <2> QED
    BY <1>1, <1>3, <2>2, <2>3 DEF Passes
<1>4. CASE Recover(g)
  <2>1. PICK rescue \in setup.Handler : WriteHeader(W(g), rescue.code) /\ Leave(g, rescue.how)
    BY <1>4 DEF Recover, Rescue
  <2>2. Is(g, "recovery", "up") /\ LogsNothing
    BY <1>4 DEF Recover, LogsNothing, context
  <2>3. Rescues(setup, place[g].at) = setup.Handler /\ rescue \in Answers
    BY <2>2, SetupFacts DEF Is, Rescues, Layers, Structure, TypeOK
  <2> QED
    BY <1>3, <2>1, <2>2, <2>3 DEF Is, Logs
<1>5. CASE Pass(g)
  BY <1>2, <1>5 DEF Pass, Is, Logs, LogsNothing, context, pools, Quietly
<1>6. CASE LeaveRouter(g)
  BY <1>2, <1>6 DEF LeaveRouter, Is, Logs, LogsNothing, context, Quietly
<1>7. CASE PanicInRouter(g)
  <2>1. Is(g, "router", "up") /\ LogsNothing
    BY <1>7 DEF PanicInRouter, LogsNothing, context
  <2>2. ASSUME NEW rescue \in setup.PanicHandler, WriteHeader(W(g), rescue.code),
               Leave(g, rescue.how)
        PROVE  Passes(g)
    <3>1. Rescues(setup, place[g].at) = setup.PanicHandler /\ rescue \in Answers
      BY <2>1, SetupFacts DEF Is, Rescues, Layers, Structure, TypeOK
    <3> QED
      BY <1>3, <2>1, <2>2, <3>1 DEF Is, Logs
  <2>3. CASE Leave(g, "up") /\ UNCHANGED <<statusWriters, response, buffer>>
    BY <1>2, <2>1, <2>3 DEF Is, Logs, Quietly
  <2> QED
    BY <1>7, <2>2, <2>3 DEF PanicInRouter, Rescue
<1> QED
  BY <1>4, <1>5, <1>6, <1>7

\* Wherever it was, the goroutine comes to the layer before.
LEMMA PassesOut ==
    ASSUME NEW g \in Routines, Passes(g)
    PROVE  /\ \E how \in {"out", "up"} : place'[g] = At(place[g].at - 1, how)
           /\ Quietly \/ \E code, header : Writes(g, code, header)
<1>1. CASE place'[g] = At(place[g].at - 1, place[g].going) /\ Quietly
  BY <1>1 DEF Passes
<1>2. ASSUME NEW rescue \in Answers, place'[g] = At(place[g].at - 1, rescue.how),
             Writes(g, rescue.code, HeaderOf(W(g)))
      PROVE  /\ \E how \in {"out", "up"} : place'[g] = At(place[g].at - 1, how)
             /\ \E code, header : Writes(g, code, header)
  <2>1. rescue.how \in {"out", "up"}
    BY DEF Answers
  <2> QED
    BY <1>2, <2>1
<1> QED
  BY <1>1, <1>2 DEF Passes

\* All steps of a layer or a handler are of these kinds, but for those of a log
\* and the handler's writes and flushes.
LEMMA StepKinds ==
    ASSUME Structure, BuffersOK, NEW g \in Routines, Step(g) \/ Handler(g)
    PROVE  \/ Enters(g) \/ TurnsBack(g) \/ Passes(g) \/ HandlerWrites(g) \/ HandlerFlushes(g)
           \/ EnterLog(g) \/ LogAccess(g) \/ FormatLine(g) \/ WriteLine(g) \/ WriterPanics(g)
<1>1. AllowCORS(g) => Call(g, W(g)) \/ Leave(g, "out")
  BY DEF AllowCORS
<1> QED
  BY <1>1, EntersAre, TurnsBackAre, PassesAre DEF Step, Handler

-----------------------------------------------------------------------------
(* Steps that log *)

\* What a log will log
LEMMA StatusIs ==
    ASSUME Structure, NEW g \in Routines, place[g].at \in DOMAIN Layers,
           Layers[place[g].at] \in Logs, place[g].going \in {"out", "up"}
    PROVE  /\ statusWriters[Below(g)[2]].status \in Nat
           /\ Status(g) \in Nat \ {0}
<1>1. Below(g)[2] \in Objects
  BY HeldBelow
<1>2. statusWriters[Below(g)[2]].status \in Nat
  BY <1>1 DEF Structure, TypeOK
<1> QED
  BY <1>2 DEF Status, StatusToLog

\* AccessLog's step
Accessed(g) ==
    /\ setup' = setup /\ entry' = entry
    /\ place[g].at \in DOMAIN Layers /\ Layers[place[g].at] = "access" /\ place[g].at \in Nat
    /\ place[g].going \in {"out", "up"}
    /\ StepMoves(g, 0) /\ place'[g] = At(place[g].at - 1, place[g].going)
    /\ Status(g) \in Nat \ {0}
    /\ logged' = [logged EXCEPT ![g[1]] =
                    Append(@, [layer |-> place[g].at, status |-> Status(g), id |-> NoID])]

\* AccessLog's step after the next layer appends an entry with its writer's status.
LEMMA LogAccessIs ==
    ASSUME Structure, NEW g \in Routines, LogAccess(g)
    PROVE  Accessed(g)
<1>1. /\ place[g].at \in DOMAIN Layers /\ Layers[place[g].at] = "access"
      /\ place[g].going \in {"out", "up"}
      /\ Leave(g, place[g].going) /\ setup' = setup /\ entry' = entry
  BY DEF LogAccess, Is, Settle, context
<1>2. place[g].at \in Nat
  BY DEF Structure, RoutinesOK, IsPlaces
<1>3. Layers[place[g].at] \in Logs /\ Layers[place[g].at] # "timeout"
  BY <1>1 DEF Logs
<1>4. StepMoves(g, 0) /\ place'[g] = At(place[g].at - 1, place[g].going)
  BY <1>1, <1>3, LayerLeft DEF Going
<1>5. Status(g) \in Nat \ {0}
  BY <1>1, <1>3, StatusIs
<1>6. logged' = [logged EXCEPT ![g[1]] =
                    Append(@, [layer |-> place[g].at, status |-> Status(g), id |-> NoID])]
  BY DEF LogAccess, Record, NoEntry
<1> QED
  BY <1>1, <1>2, <1>4, <1>5, <1>6 DEF Accessed

\* Logger's first step
Formatted(g) ==
    /\ setup' = setup /\ logged' = logged
    /\ place[g].at \in DOMAIN Layers /\ Layers[place[g].at] = "line" /\ place[g].at \in Nat
    /\ place[g].going \in {"out", "up"}
    /\ StepMoves(g, 0)
    /\ place'[g] = At(place[g].at, IF place[g].going = "up" THEN "logUp" ELSE "logOut")
    /\ Status(g) \in Nat \ {0}
    /\ entry' = [entry EXCEPT ![g] = [status |-> Status(g), id |-> requestID[g[1]]]]

\* Logger keeps the line it formats, with the id the request has by then.
LEMMA FormattedIs ==
    ASSUME Structure, NEW g \in Routines, FormatLine(g)
    PROVE  Formatted(g)
<1>1. /\ place[g].at \in DOMAIN Layers /\ Layers[place[g].at] = "line"
      /\ place[g].going \in {"out", "up"} /\ setup' = setup /\ logged' = logged
      /\ entry' = [entry EXCEPT ![g] = [status |-> Status(g), id |-> requestID[g[1]]]]
  BY DEF FormatLine, Is, Settle, context
<1>2. place[g].at \in Nat
  BY DEF Structure, RoutinesOK, IsPlaces
<1>3. Status(g) \in Nat \ {0}
  BY <1>1, StatusIs DEF Logs
<1> QED
  BY <1>1, <1>2, <1>3, FormatLineStep DEF Formatted

\* Its second, with the mutex, which logs unless the writer panics
LineDone(g) ==
    /\ setup' = setup
    /\ place[g].at \in DOMAIN Layers /\ Layers[place[g].at] = "line" /\ place[g].at \in Nat
    /\ place[g].going \in {"logOut", "logUp"} /\ Runs(g)
    /\ StepMoves(g, 0) /\ entry' = [entry EXCEPT ![g] = NoEntry]
    /\ Quietly
    /\ \/ /\ logged' = [logged EXCEPT ![g[1]] =
                          Append(@, [layer |-> place[g].at, status |-> entry[g].status,
                                     id |-> entry[g].id])]
          /\ place'[g] = At(place[g].at - 1, IF place[g].going = "logUp" THEN "up" ELSE "out")
       \/ setup.writerPanics /\ logged' = logged /\ place'[g] = At(place[g].at - 1, "up")

\* Once Logger has the mutex its line goes to the log, or its writer panics.
LEMMA LineIsDone ==
    ASSUME Structure, NEW g \in Routines, WriteLine(g) \/ WriterPanics(g)
    PROVE  LineDone(g)
<1>1. Locked(g)
  BY DEF WriteLine, WriterPanics
<1>2. /\ place[g].at \in DOMAIN Layers /\ Layers[place[g].at] = "line"
      /\ place[g].going \in {"logOut", "logUp"}
      /\ entry' = [entry EXCEPT ![g] = NoEntry] /\ setup' = setup /\ Quietly
  BY <1>1 DEF Locked, Is, context, pools, Quietly
<1>3. place[g].at \in Nat /\ Runs(g)
  BY <1>2, LayerRuns DEF Structure, RoutinesOK, IsPlaces, Going
<1>4. ASSUME NEW how \in {"out", "up"}, Leave(g, how)
      PROVE  StepMoves(g, 0) /\ place'[g] = At(place[g].at - 1, how)
  BY <1>2, <1>4, LayerLeft DEF Going
<1>5. CASE WriteLine(g)
  <2>1. PICK how \in {"out", "up"} : /\ Leave(g, how)
                                     /\ how = IF place[g].going = "logUp" THEN "up" ELSE "out"
    BY <1>5 DEF WriteLine
  <2>2. logged' = [logged EXCEPT ![g[1]] =
                     Append(@, [layer |-> place[g].at, status |-> entry[g].status,
                                id |-> entry[g].id])]
    BY <1>5 DEF WriteLine, Record
  <2> QED
    BY <1>2, <1>3, <1>4, <2>1, <2>2 DEF LineDone
<1>6. CASE WriterPanics(g)
  <2>1. Leave(g, "up") /\ logged' = logged /\ setup.writerPanics
    BY <1>6 DEF WriterPanics
  <2> QED
    BY <1>2, <1>3, <1>4, <2>1 DEF LineDone
<1> QED
  BY <1>5, <1>6

\* A log's call of next
LEMMA EnterLogMoves ==
    ASSUME Structure, NEW g \in Routines, EnterLog(g)
    PROVE  /\ LogsNothing
           /\ place[g].at \in DOMAIN Layers /\ place[g].going = "in" /\ place[g].at \in Nat
           /\ Layers[place[g].at] \in Logs /\ freeStatus # {}
           /\ Get(freeStatus) \in Objects /\ Get(freeStatus) \in freeStatus
           /\ Call(g, StatusOf(Get(freeStatus)))
           /\ StepMoves(g, place[g].at + 1) /\ place'[g] = At(place[g].at + 1, "in")
           /\ g[1] \in Requests
<1>1. /\ Call(g, StatusOf(Get(freeStatus))) /\ freeStatus # {} /\ freeStatus \subseteq Objects
      /\ place[g].at \in DOMAIN Layers /\ place[g].going = "in" /\ Layers[place[g].at] \in Logs
  BY DEF EnterLog, IsLog, Is, Logs, Structure, TypeOK
<1>2. Get(freeStatus) \in freeStatus /\ Get(freeStatus) \in Objects
  BY <1>1, ObjectsAssumption, MinIs DEF Get
<1>3. StatusOf(Get(freeStatus)) \in Writers
  BY <1>2 DEF Writers
<1>4. LogsNothing
  BY DEF EnterLog, LogsNothing, context
<1>5. Layers[place[g].at] # "timeout"
  BY <1>1 DEF Logs
<1> QED
  BY <1>1, <1>2, <1>3, <1>4, <1>5, CallStep

\* Steps that do not concern a log's entries
LEMMA LogsNothingKeeps ==
    ASSUME Structure, LoggedOnce, NEW g \in Routines, NEW n, StepMoves(g, n), LogsNothing,
           ~Waiting(place'[g]) \/ place'[g] = place[g]
    PROVE  LoggedOnce'
<1>1. PendingStays(g)
  BY DEF PendingStays, LogsNothing, LoggedOnce, EntriesTyped
<1> QED
  BY <1>1, NothingLogged DEF LogsNothing

\* LoggedOnce is kept.
LEMMA LoggedOnceStep ==
    ASSUME Structure, HeadersOK, BuffersOK, LoggedOnce, NEW g \in Routines, Step(g) \/ Handler(g)
    PROVE  LoggedOnce'
<1>1. g[1] \in Requests /\ entry \in [Routines -> Pending(setup)] /\ entry[g] \in Pending(setup)
  BY DEF Routines, LoggedOnce, EntriesTyped
<1>2. CASE Enters(g)
  <2>1. ~Waiting(place'[g])
    BY <1>2 DEF Enters, Waiting, At
  <2> QED
    BY <1>2, <2>1, LogsNothingKeeps DEF Enters
<1>3. CASE TurnsBack(g)
  <2>1. ~Waiting(place'[g])
    BY <1>3 DEF TurnsBack, Waiting, At
  <2> QED
    BY <1>3, <2>1, LogsNothingKeeps DEF TurnsBack
<1>4. CASE Passes(g)
  <2>1. ~Waiting(place'[g])
    <3>1. PICK how \in {"out", "up"} : place'[g] = At(place[g].at - 1, how)
      BY <1>4, PassesOut
    <3> QED
      BY <3>1 DEF Waiting, At
  <2> QED
    BY <1>4, <2>1, LogsNothingKeeps DEF Passes
<1>5. CASE HandlerWrites(g) \/ HandlerFlushes(g)
  <2>1. place' = place /\ writer' = writer /\ LogsNothing
    BY <1>5 DEF HandlerWrites, HandlerFlushes, LogsNothing, context
  <2> QED
    BY <2>1, NoStep, LogsNothingKeeps
<1>6. CASE EnterLog(g)
  <2>1. /\ place'[g] = At(place[g].at + 1, "in")
        /\ LogsNothing /\ StepMoves(g, place[g].at + 1)
    BY <1>6, EnterLogMoves
  <2>2. ~Waiting(place'[g])
    BY <2>1 DEF Waiting, At
  <2> QED
    BY <2>1, <2>2, LogsNothingKeeps
<1>7. CASE LogAccess(g)
  <2>1. Accessed(g)
    BY <1>7, LogAccessIs
  <2> DEFINE x == [layer |-> place[g].at, status |-> Status(g), id |-> NoID]
  <2>2. x \in Entries(setup) /\ x.layer = place[g].at
    BY <2>1 DEF Accessed, Entries, IDs, Layers
  <2>3. logged' = [logged EXCEPT ![g[1]] = Append(@, x)]
    BY <2>1 DEF Accessed
  <2> HIDE DEF x
  <2>4. ~Waiting(place'[g]) /\ Back(place'[g]) /\ place'[g].at < place[g].at
    BY <2>1 DEF Accessed, Waiting, Back, Going, At
  <2>5. PendingStays(g) /\ setup' = setup /\ StepMoves(g, 0)
    BY <1>1, <2>1, <2>4 DEF PendingStays, Accessed
  <2>6. Runs(g) /\ Layers[x.layer] \in Logs
    BY <2>1, <2>2, LayerRuns DEF Accessed, Going, Logs
  <2> QED
    BY <2>2, <2>3, <2>4, <2>5, <2>6, OneLogged
<1>8. CASE FormatLine(g)
  <2>1. Formatted(g)
    BY <1>8, FormattedIs
  <2>2. requestID[g[1]] \in IDs(setup) /\ Status(g) \in Nat \ {0}
    BY <1>1, <2>1 DEF HeadersOK, Formatted
  <2>3. [status |-> Status(g), id |-> requestID[g[1]]] \in Pending(setup)
    BY <2>2 DEF Pending
  <2>4. PendingStays(g)
    BY <1>1, <2>1, <2>2, <2>3 DEF PendingStays, Formatted
  <2> QED
    BY <2>1, <2>4, NothingLogged DEF Formatted
<1>9. CASE WriteLine(g) \/ WriterPanics(g)
  <2>1. LineDone(g)
    BY <1>9, LineIsDone
  <2>2. NoEntry \in Pending(setup)
    BY DEF NoEntry, Pending, IDs
  <2>3. ~Waiting(place'[g]) /\ Back(place'[g]) /\ place'[g].at < place[g].at
    BY <2>1 DEF LineDone, Waiting, Back, Going, At
  <2>4. PendingStays(g) /\ setup' = setup /\ StepMoves(g, 0)
    BY <1>1, <2>1, <2>2, <2>3 DEF PendingStays, LineDone
  <2> DEFINE x == [layer |-> place[g].at, status |-> entry[g].status, id |-> entry[g].id]
  <2>5. CASE logged' = logged
    BY <2>4, <2>5, NothingLogged
  <2>6. CASE logged' = [logged EXCEPT ![g[1]] = Append(@, x)]
    <3>1. entry[g].status \in Nat \ {0} /\ entry[g].id \in IDs(setup)
      BY <1>1, <2>1 DEF LineDone, Pending, LoggedOnce, EntriesTyped, Waiting
    <3>2. x \in Entries(setup) /\ x.layer = place[g].at
      BY <2>1, <3>1 DEF LineDone, Entries, Layers
    <3> HIDE DEF x
    <3>3. Runs(g) /\ Layers[x.layer] \in Logs
      BY <2>1, <3>2 DEF LineDone, Logs
    <3> QED
      BY <2>3, <2>4, <2>6, <3>2, <3>3, OneLogged
  <2> QED
    BY <2>1, <2>5, <2>6 DEF LineDone
<1> QED
  BY <1>2, <1>3, <1>4, <1>5, <1>6, <1>7, <1>8, <1>9, StepKinds

\* A request that arrives has no entries yet, and none that ends gets one.
LEMMA LoggedOnceNext ==
    ASSUME Structure, HeadersOK, BuffersOK, LoggedOnce, [Next]_vars
    PROVE  LoggedOnce'
<1>1. ASSUME NEW r \in Requests, Arrive(r) PROVE LoggedOnce'
  <2>1. /\ <<r, "conn">> \in Routines /\ place[<<r, "conn">>].going = "absent"
        /\ LogsNothing
    BY <1>1 DEF Arrive, Routines, At, LogsNothing, context
  <2>2. Moved(place, place', <<r, "conn">>, At(1, "in"))
    BY <1>1, ArriveIs
  <2>3. ~Back(place[<<r, "conn">>])
    BY <2>1 DEF Back, Going
  <2>4. /\ place'[<<r, "conn">>] = At(1, "in") /\ BackStays(place, place')
        /\ \A h \in Routines : h # <<r, "conn">> => place'[h] = place[h]
    BY <2>1, <2>2, <2>3, MovedBack
  <2>5. Moves(<<r, "conn">>, 1)
    BY <1>1, ArriveIs
  <2>6. PendingStays(<<r, "conn">>)
    BY <2>1, <2>4 DEF PendingStays, LogsNothing, LoggedOnce, EntriesTyped, Waiting, At
  <2>7. Layers' = Layers /\ ChainOK(Layers) /\ IsPlaces(place) /\ IsPlaces(place')
    BY <2>1, <2>5, SetupFacts DEF Layers, Structure, TypeOK, RoutinesOK, Moves, LogsNothing
  <2>8. ASSUME NEW q \in Requests PROVE OnceOK(Layers, place', q, logged[q])
    BY <2>4, <2>7, EntryLayers, OnceStays DEF LoggedOnce
  <2>9. \A h \in Routines : Waiting(place'[h]) => entry'[h].status # 0
    BY <2>1, <2>4, <2>6 DEF PendingStays, LoggedOnce, EntriesTyped, LogsNothing
  <2>10. EntriesTyped'
    BY <2>1, <2>6, <2>9 DEF EntriesTyped, LoggedOnce, PendingStays, LogsNothing
  <2> QED
    BY <2>1, <2>7, <2>8, <2>10 DEF LoggedOnce, LogsNothing
<1>2. ASSUME NEW r \in Requests, Finish(r) PROVE LoggedOnce'
  <2>1. /\ StepMoves(<<r, "conn">>, 0)
        /\ \E how \in {"done", "aborted"} : place'[<<r, "conn">>] = At(0, how)
    BY <1>2, FinishStep
  <2>3. ~Waiting(place'[<<r, "conn">>])
    BY <2>1 DEF Waiting, At
  <2>2. <<r, "conn">> \in Routines /\ LogsNothing
    BY <1>2 DEF Finish, Routines, LogsNothing, context
  <2> QED
    BY <2>1, <2>2, <2>3, LogsNothingKeeps
<1>3. ASSUME UNCHANGED vars PROVE LoggedOnce'
  BY <1>3 DEF vars, context, LoggedOnce, EntriesTyped, Layers
<1> QED
  BY <1>1, <1>2, <1>3, LoggedOnceStep DEF Next, Quiet

\* At first nothing is logged.
LEMMA LoggedOnceInit ==
    ASSUME Init
    PROVE  LoggedOnce
<1>1. NoEntry \in Pending(setup)
  BY DEF NoEntry, Pending, IDs
<1>2. entry = [g \in Routines |-> NoEntry] /\ logged = [r \in Requests |-> <<>>]
  BY DEF Init
<1>3. <<>> \in Seq(Entries(setup)) /\ DOMAIN <<>> = {}
  OBVIOUS
<1>4. \A g \in Routines : ~Waiting(place[g])
  BY DEF Init, Waiting, At
<1>5. EntriesTyped
  BY <1>1, <1>2, <1>3, <1>4 DEF EntriesTyped
<1>6. \A r \in Requests : OnceOK(Layers, place, r, logged[r])
  BY <1>2, <1>3 DEF OnceOK
<1> QED
  BY <1>5, <1>6 DEF LoggedOnce

-----------------------------------------------------------------------------
(* What a log's writer has noted is what the client has got, but for what   *)
(* Flush sends.                                                            *)

Tells(st, resp) ==
    \/ resp.flushed
    \/ (st = 0 => resp.status = 0) /\ (~Informational(st) => resp.status = st)

\* (The log is in the goroutine of the request.)
WrapperOK(ls, pl, wr, sw, resp, r, k) ==
    Held(ls, pl, r, k) /\ Side(ls, k) = "conn" => Tells(sw[wr[r][k][2]].status, resp)

\* Nothing is written while the request goes in.
FreshOK(ls, p, resp) ==
    p.going \in {"absent", "in"} /\ p.at # Len(ls) + 1 => resp.status = 0

Wrappers ==
    \A r \in Requests :
        /\ FreshOK(Layers, place[<<r, "conn">>], response[r])
        /\ \A k \in Levels(Layers) :
              WrapperOK(Layers, place, writer, statusWriters, response[r], r, k)

\* A write is noted as it is heard.
LEMMA TellsOn ==
    ASSUME NEW s, NEW st \in Nat, NEW code \in Nat, NEW resp \in Responses(s), NEW header,
           Tells(st, resp)
    PROVE  Tells(FirstStatus(st, code), Heard(resp, code, header))
<1>1. resp.status \in Nat
  BY DEF Responses
<1>2. /\ Heard(resp, code, header).status =
            IF resp.status # 0 \/ Informational(code) THEN resp.status ELSE code
      /\ Heard(resp, code, header).flushed = resp.flushed
  BY DEF Heard, Committed, Responses
<1> HIDE DEF Heard
<1> QED
  BY <1>1, <1>2 DEF Tells, FirstStatus, Informational

\* It is noted by the writers of the goroutine's own levels.
LEMMA StatusesAre ==
    ASSUME Structure, NEW g \in Routines, NEW code, NEW header, Writes(g, code, header),
           NEW r \in Requests, NEW j \in Levels(Layers), Held(Layers, place, r, j)
    PROVE  /\ writer[r][j][2] \in Objects /\ statusWriters[writer[r][j][2]].status \in Nat
           /\ statusWriters'[writer[r][j][2]].status =
                IF r = g[1] /\ j \in Mine(Layers, place[g].at)
                THEN FirstStatus(statusWriters[writer[r][j][2]].status, code)
                ELSE statusWriters[writer[r][j][2]].status
<1> DEFINE o == writer[r][j][2]
<1>1. o \in Objects /\ writer[r][j] = StatusOf(o)
  <2>1. StatusOK(Layers, place, writer, statusWriters, freeStatus, r, j)
    BY DEF Structure, LevelOK
  <2> QED
    BY <2>1 DEF StatusOK, Held
<1>2. code \in Nat /\ statusWriters' = Noted(Path(W(g)), code) /\ Runs(g)
  BY DEF Writes
<1> HIDE DEF o
<1>3. statusWriters'[o].status = IF StatusOf(o) \in Path(W(g))
                                 THEN FirstStatus(statusWriters[o].status, code)
                                 ELSE statusWriters[o].status
  BY <1>1, <1>2, NotedKeeps
<1>4. ASSUME StatusOf(o) \in Path(W(g)) PROVE r = g[1] /\ j \in Mine(Layers, place[g].at)
  <2>1. StatusOf(o) # Bottom(g)
    BY Kinds DEF Bottom
  <2>2. \A p : StatusOf(o) # ParamOf(p)
    BY Kinds
  <2>3. PICK i \in Mine(Layers, place[g].at) :
            Held(Layers, place, g[1], i) /\ StatusOf(o) = writer[g[1]][i]
    BY <1>2, <1>4, <2>1, <2>2, OnPath
  <2>4. i \in Levels(Layers) /\ g[1] \in Requests
    BY DEF Mine, Routines
  <2> QED
    BY <1>1, <2>3, <2>4 DEF Structure, OwnStatus
<1>5. ASSUME r = g[1], j \in Mine(Layers, place[g].at) PROVE StatusOf(o) \in Path(W(g))
  <2>1. Layers[j - 1] \in Logs
    BY DEF Held, Made
  <2>2. j \in Makers(Layers, place[g].at)
    BY <1>5, <2>1 DEF Makers, Logs, Passing
  <2>3. writer[g[1]][j] \in Stack(g)
    BY <2>2 DEF Stack
  <2> QED
    BY <1>1, <1>2, <1>5, <2>3, PathIs
<1>6. statusWriters[o].status \in Nat
  BY <1>1 DEF Structure, TypeOK
<1> QED
  BY <1>1, <1>3, <1>4, <1>5, <1>6 DEF o

\* Steps that leave the writers' statuses and the responses alone
LEMMA WrappersQuiet ==
    ASSUME Structure, Wrappers, NEW g \in Routines, NEW n, Moves(g, n), Quietly,
           ~Held(Layers, place', g[1], n), NEW r \in Requests, NEW k \in Levels(Layers)
    PROVE  WrapperOK(Layers, place', writer', statusWriters', response'[r], r, k)
<1> SUFFICES ASSUME Held(Layers, place', r, k), Side(Layers, k) = "conn"
             PROVE  Tells(statusWriters'[writer'[r][k][2]].status, response'[r])
  BY DEF WrapperOK
<1>1. ~(r = g[1] /\ k = n)
  OBVIOUS
<1>2. Held(Layers, place, r, k) /\ writer'[r][k] = writer[r][k]
  BY <1>1, InUse
<1>3. Tells(statusWriters[writer[r][k][2]].status, response[r])
  BY <1>2 DEF Wrappers, WrapperOK
<1> QED
  BY <1>2, <1>3 DEF Quietly

\* Steps that write
LEMMA WrappersWritten ==
    ASSUME Structure, HeadersOK, Wrappers, NEW g \in Routines, NEW n, Moves(g, n),
           ~Held(Layers, place', g[1], n), NEW code, NEW header, Writes(g, code, header),
           \A j \in Levels(Layers) :
                Held(Layers, place', g[1], j) /\ Side(Layers, j) = "conn" /\ g[2] = "conn"
                    => j <= place[g].at,
           NEW r \in Requests, NEW k \in Levels(Layers)
    PROVE  WrapperOK(Layers, place', writer', statusWriters', response'[r], r, k)
<1> SUFFICES ASSUME Held(Layers, place', r, k), Side(Layers, k) = "conn"
             PROVE  Tells(statusWriters'[writer'[r][k][2]].status, response'[r])
  BY DEF WrapperOK
<1> DEFINE st == statusWriters[writer[r][k][2]].status
<1>1. ~(r = g[1] /\ k = n)
  OBVIOUS
<1>2. Held(Layers, place, r, k) /\ writer'[r][k] = writer[r][k]
  BY <1>1, InUse
<1>3. Tells(st, response[r]) /\ response[r] \in Responses(setup)
  BY <1>2 DEF Wrappers, WrapperOK, HeadersOK
<1>4. /\ st \in Nat
      /\ statusWriters'[writer[r][k][2]].status =
            IF r = g[1] /\ k \in Mine(Layers, place[g].at) THEN FirstStatus(st, code) ELSE st
  BY <1>2, StatusesAre
<1>5. response'[r] = IF r = g[1] /\ g[2] = "conn" THEN Heard(response[r], code, header)
                                                  ELSE response[r]
  <2>1. AnswersOf(g, code, header)
    BY AnswersAre DEF Writes
  <2> QED
    BY <2>1 DEF AnswersOf
<1>6. Side(Layers, place[g].at) = g[2] /\ code \in Nat
  BY DEF Writes, Runs, Routine
<1>7. r = g[1] => (k \in Mine(Layers, place[g].at) <=> g[2] = "conn")
  BY <1>6 DEF Mine
<1> HIDE DEF st
<1>8. CASE r = g[1] /\ g[2] = "conn"
  <2>1. Tells(FirstStatus(st, code), Heard(response[r], code, header))
    BY <1>3, <1>4, <1>6, TellsOn
  <2> QED
    BY <1>2, <1>4, <1>5, <1>7, <1>8, <2>1
<1>9. CASE ~(r = g[1] /\ g[2] = "conn")
  BY <1>2, <1>3, <1>4, <1>5, <1>7, <1>9
<1> QED
  BY <1>8, <1>9

\* A log that puts its writer back
LEMMA WrappersSettled ==
    ASSUME Structure, Wrappers, NEW g \in Routines, LogAccess(g) \/ FormatLine(g),
           NEW r \in Requests, NEW k \in Levels(Layers)
    PROVE  WrapperOK(Layers, place', writer', statusWriters', response'[r], r, k)
<1> SUFFICES ASSUME Held(Layers, place', r, k), Side(Layers, k) = "conn"
             PROVE  Tells(statusWriters'[writer'[r][k][2]].status, response'[r])
  BY DEF WrapperOK
<1>1. /\ place[g].at \in DOMAIN Layers /\ Layers[place[g].at] \in Logs
      /\ place[g].going \in {"out", "up"} /\ Settle(g)
  BY DEF LogAccess, FormatLine, Is, Logs
<1>2. Moves(g, 0) /\ ~Held(Layers, place', g[1], place[g].at + 1)
  BY LogAccessMoves, FormatLineIs
<1>3. /\ Held(Layers, place, r, k) /\ writer'[r][k] = writer[r][k]
      /\ writer[r][k][2] \in Objects /\ writer[r][k][2] # Below(g)[2]
  BY <1>1, <1>2, SettleSpares
<1>4. Tells(statusWriters[writer[r][k][2]].status, response[r])
  BY <1>3 DEF Wrappers, WrapperOK
<1>5. statusWriters'[writer[r][k][2]] = statusWriters[writer[r][k][2]] /\ response' = response
  BY <1>1, <1>3 DEF Settle, Structure, TypeOK
<1> QED
  BY <1>3, <1>4, <1>5

\* A log that takes one
LEMMA WrappersTaken ==
    ASSUME Structure, Wrappers, NEW g \in Routines, EnterLog(g),
           NEW r \in Requests, NEW k \in Levels(Layers)
    PROVE  WrapperOK(Layers, place', writer', statusWriters', response'[r], r, k)
<1> DEFINE n == place[g].at + 1
           o == Get(freeStatus)
<1> SUFFICES ASSUME Held(Layers, place', r, k), Side(Layers, k) = "conn"
             PROVE  Tells(statusWriters'[writer'[r][k][2]].status, response'[r])
  BY DEF WrapperOK
<1>1. /\ place[g].at \in DOMAIN Layers /\ place[g].going = "in" /\ place[g].at \in Nat
      /\ Layers[place[g].at] \in Logs
      /\ o \in freeStatus /\ o \in Objects /\ Call(g, StatusOf(o)) /\ StepMoves(g, n)
      /\ g[1] \in Requests
  BY EnterLogMoves
<1>2. /\ statusWriters' = [statusWriters EXCEPT ![o] = [under |-> W(g), status |-> 0]]
      /\ response' = response
  BY DEF EnterLog
<1>3. statusWriters \in [Objects -> [under : Writers, status : Nat]]
  BY DEF Structure, TypeOK
<1> HIDE DEF o
<1>4. CASE r = g[1] /\ k = n
  <2>1. writer'[g[1]][n] = StatusOf(o)
    <3>1. StatusOf(o) \in Writers /\ Layers[place[g].at] # "timeout"
      BY <1>1 DEF Writers, Logs
    <3> QED
      BY <1>1, <3>1, Calling
  <2>2. statusWriters'[o].status = 0
    BY <1>1, <1>2, <1>3
  <2>3. response[r].status = 0
    <3>1. FreshOK(Layers, place[<<r, "conn">>], response[r])
      BY DEF Wrappers
    <3>2. Len(Layers) \in Nat /\ DOMAIN Layers = 1 .. Len(Layers)
      BY SetupFacts DEF Structure, TypeOK
    <3>3. g[2] = "conn"
      <4>1. Runs(g)
        BY <1>1, LayerRuns DEF Going, Logs
      <4>2. Side(Layers, place[g].at) = g[2] /\ place[g].at \in Levels(Layers)
        BY <4>1 DEF Runs, Routine
      <4>3. ChainOK(Layers) /\ place[g].at <= k
        BY <1>1, <1>4, SetupFacts DEF Structure, TypeOK
      <4> QED
        BY <4>2, <4>3, SidesAscend
    <3>4. g = <<r, "conn">>
      BY <1>4, <3>3 DEF Routines
    <3> QED
      BY <1>1, <3>1, <3>2, <3>4 DEF FreshOK
  <2>4. StatusOf(o)[2] = o
    BY DEF StatusOf
  <2> QED
    BY <1>2, <1>4, <2>1, <2>2, <2>3, <2>4 DEF Tells, Informational
<1>5. CASE ~(r = g[1] /\ k = n)
  <2>1. /\ Held(Layers, place, r, k) /\ writer'[r][k] = writer[r][k]
        /\ writer[r][k][2] \in Objects \ freeStatus
    BY <1>1, <1>5, InUse DEF StepMoves
  <2>2. Tells(statusWriters[writer[r][k][2]].status, response[r])
    BY <2>1 DEF Wrappers, WrapperOK
  <2>3. statusWriters'[writer[r][k][2]] = statusWriters[writer[r][k][2]]
    BY <1>1, <1>2, <1>3, <2>1
  <2> QED
    BY <1>2, <2>1, <2>2, <2>3
<1> QED
  BY <1>4, <1>5

\* The rest of Wrappers is about the goroutine of the connection that moves.
LEMMA WrappersAfter ==
    ASSUME Structure, Wrappers, setup' = setup, NEW g \in Routines,
           \A r \in Requests : <<r, "conn">> # g => place'[<<r, "conn">>] = place[<<r, "conn">>],
           \A r \in Requests : <<r, "conn">> # g => response'[r] = response[r],
           g = <<g[1], "conn">> => FreshOK(Layers, place'[g], response'[g[1]]),
           \A r \in Requests : \A k \in Levels(Layers) :
              WrapperOK(Layers, place', writer', statusWriters', response'[r], r, k)
    PROVE  Wrappers'
<1>1. Layers' = Layers
  BY DEF Layers
<1>2. ASSUME NEW r \in Requests PROVE FreshOK(Layers, place'[<<r, "conn">>], response'[r])
  <2>1. CASE <<r, "conn">> = g
    BY <2>1
  <2>2. CASE <<r, "conn">> # g
    BY <2>2 DEF Wrappers
  <2> QED
    BY <2>1, <2>2
<1> QED
  BY <1>1, <1>2, ZenonT(30) DEF Wrappers

\* Whose response changes
LEMMA OthersAnswers ==
    ASSUME Structure, NEW g \in Routines,
           Quietly \/ \E code, header : Writes(g, code, header),
           NEW r \in Requests, <<r, "conn">> # g
    PROVE  response'[r] = response[r]
<1>1. ASSUME NEW code, NEW header, Writes(g, code, header) PROVE response'[r] = response[r]
  <2>1. AnswersOf(g, code, header)
    BY <1>1, AnswersAre DEF Writes
  <2>2. ~(r = g[1] /\ g[2] = "conn")
    BY DEF Routines
  <2> QED
    BY <2>1, <2>2 DEF AnswersOf
<1> QED
  BY <1>1 DEF Quietly

\* Steps of a goroutine that comes to be somewhere, and does not let a log in
LEMMA WrappersMoved ==
    ASSUME Structure, HeadersOK, Wrappers, setup' = setup, NEW g \in Routines, NEW n,
           StepMoves(g, n), ~Held(Layers, place', g[1], n),
           Quietly \/ \E code, header : Writes(g, code, header),
           g = <<g[1], "conn">> => FreshOK(Layers, place'[g], response'[g[1]]),
           NEW top \in Nat, Top(place'[g]) <= top, top = n \/ top <= place[g].at
    PROVE  Wrappers'
<1>1. ASSUME NEW j \in Levels(Layers), Held(Layers, place', g[1], j), Side(Layers, j) = "conn",
             g[2] = "conn"
      PROVE  j <= place[g].at
  <2>1. Routine(Layers, g[1], j) = g /\ j \in Nat
    BY <1>1 DEF Routine, Routines, Levels
  <2>2. j <= Top(place'[g]) /\ j # n
    BY <1>1, <2>1 DEF Held, Made, Live
  <2>3. Top(place'[g]) \in Nat /\ place[g].at \in Nat
    BY DEF Top, StepMoves, Moves, Structure, RoutinesOK, IsPlaces
  <2>4. n \in Nat /\ n # 0 => n = place[g].at + 1
    BY DEF StepMoves
  <2> QED
    BY <2>1, <2>2, <2>3, <2>4
<1>2. ASSUME NEW r \in Requests, NEW k \in Levels(Layers)
      PROVE  WrapperOK(Layers, place', writer', statusWriters', response'[r], r, k)
  BY <1>1, WrappersQuiet, WrappersWritten DEF StepMoves
<1> QED
  BY <1>2, OthersAnswers, WrappersAfter DEF StepMoves

\* Wrappers is kept, kind by kind.
LEMMA WrappersStep ==
    ASSUME Structure, HeadersOK, BuffersOK, Wrappers, NEW g \in Routines, Step(g) \/ Handler(g)
    PROVE  Wrappers'
<1>1. /\ IsPlaces(place) /\ place[g].at \in Nat /\ Len(Layers) \in Nat
      /\ DOMAIN Layers = 1 .. Len(Layers)
      /\ 0 \notin Levels(Layers) /\ ~Held(Layers, place', g[1], 0)
      /\ g[1] \in Requests
  BY SetupFacts DEF Structure, TypeOK, RoutinesOK, IsPlaces, Levels, Held, Made, Routines
<1>2. FreshOK(Layers, place[<<g[1], "conn">>], response[g[1]])
  BY <1>1 DEF Wrappers
<1>3. CASE Enters(g)
  <2>1. /\ setup' = setup /\ StepMoves(g, place[g].at + 1)
        /\ place[g].at \in DOMAIN Layers /\ place[g].going = "in"
        /\ Layers[place[g].at] \notin Logs
        /\ place'[g] \in {At(place[g].at + 1, "in"), At(place[g].at, "wait")}
        /\ Quietly \/ \E header : Writes(g, 0, header)
    BY <1>3 DEF Enters, LogsNothing
  <2>2. ~Held(Layers, place', g[1], place[g].at + 1)
    BY <1>1, <2>1 DEF Held, Made
  <2>3. Top(place'[g]) <= place[g].at + 1
    BY <1>1, <2>1 DEF Top, At
  <2>4. ASSUME g = <<g[1], "conn">> PROVE FreshOK(Layers, place'[g], response'[g[1]])
    <3>1. response[g[1]].status = 0
      BY <1>1, <1>2, <2>1, <2>4 DEF FreshOK
    <3>2. ASSUME NEW header, Writes(g, 0, header) PROVE response'[g[1]].status = 0
      <4>1. AnswersOf(g, 0, header)
        BY <3>2, AnswersAre DEF Writes
      <4>2. response'[g[1]] = Heard(response[g[1]], 0, header)
        <5>1. g[2] = "conn"
          BY <2>4
        <5> QED
          BY <1>1, <4>1, <5>1 DEF AnswersOf
      <4>3. response[g[1]] \in Responses(setup)
        BY <1>1 DEF HeadersOK
      <4> QED
        BY <3>1, <4>2, <4>3 DEF Heard, Committed, Informational, Responses
    <3>3. Quietly => response'[g[1]].status = 0
      BY <3>1 DEF Quietly
    <3> QED
      BY <2>1, <3>2, <3>3 DEF FreshOK
  <2> QED
    BY <1>1, <2>1, <2>2, <2>3, <2>4, WrappersMoved
<1>4. ASSUME setup' = setup, StepMoves(g, 0), Quietly \/ \E code, header : Writes(g, code, header),
             NEW how \in {"out", "up"}, place'[g] = At(place[g].at - 1, how)
      PROVE  Wrappers'
  <2>1. Top(place'[g]) <= place[g].at
    BY <1>1, <1>4 DEF Top, At
  <2>2. FreshOK(Layers, place'[g], response'[g[1]])
    BY <1>4 DEF FreshOK, At
  <2> QED
    BY <1>1, <1>4, <2>1, <2>2, WrappersMoved
<1>5. CASE TurnsBack(g)
  BY <1>4, <1>5 DEF TurnsBack, LogsNothing
<1>6. CASE Passes(g)
  BY <1>4, <1>6, PassesOut DEF Passes, LogsNothing
<1>7. CASE HandlerWrites(g)
  <2>1. place' = place /\ writer' = writer /\ setup' = setup
    BY <1>7 DEF HandlerWrites, context
  <2>2. PICK code \in setup.codes : WriteHeader(W(g), code)
    BY <1>7 DEF HandlerWrites
  <2>3. code \in Nat
    BY SetupFacts DEF Structure, TypeOK
  <2>4. Writes(g, code, HeaderOf(W(g)))
    BY <1>7, <2>2, <2>3, HandlerRuns DEF HandlerWrites, Writes, WriteHeader, Write
  <2>5. place[g].at = Len(Layers) + 1 /\ place[g].going = "in"
    BY <1>7 DEF HandlerWrites, InHandler, At, Inner
  <2>6. Top(place'[g]) <= place[g].at
    BY <1>1, <2>1, <2>5 DEF Top
  <2>7. FreshOK(Layers, place'[g], response'[g[1]])
    BY <2>1, <2>5 DEF FreshOK
  <2>8. StepMoves(g, 0)
    BY <2>1, NoStep
  <2> QED
    BY <1>1, <2>1, <2>4, <2>6, <2>7, <2>8, WrappersMoved
<1>8. CASE EnterLog(g)
  <2>1. /\ setup' = setup /\ StepMoves(g, place[g].at + 1)
        /\ place[g].at \in DOMAIN Layers /\ place[g].going = "in"
    BY <1>8, EnterLogMoves DEF LogsNothing
  <2>2. response' = response
    BY <1>8 DEF EnterLog
  <2>3. g = <<g[1], "conn">> => FreshOK(Layers, place'[g], response'[g[1]])
    BY <1>1, <1>2, <2>1, <2>2 DEF FreshOK
  <2>4. \A r \in Requests : \A k \in Levels(Layers) :
            WrapperOK(Layers, place', writer', statusWriters', response'[r], r, k)
    BY <1>8, WrappersTaken
  <2>5. \A r \in Requests : <<r, "conn">> # g => response'[r] = response[r]
    BY <2>2
  <2> QED
    BY <2>1, <2>3, <2>4, <2>5, WrappersAfter DEF StepMoves
<1>9. CASE LogAccess(g) \/ FormatLine(g)
  <2>1. /\ setup' = setup /\ StepMoves(g, 0) /\ response' = response
        /\ place'[g].going \notin {"absent", "in"}
    <3>1. Settle(g)
      BY <1>9 DEF LogAccess, FormatLine
    <3>2. ASSUME LogAccess(g)
          PROVE  setup' = setup /\ StepMoves(g, 0) /\ place'[g].going \notin {"absent", "in"}
      <4>1. Accessed(g)
        BY <3>2, LogAccessIs
      <4> QED
        BY <4>1 DEF Accessed, At
    <3>3. ASSUME FormatLine(g)
          PROVE  setup' = setup /\ StepMoves(g, 0) /\ place'[g].going \notin {"absent", "in"}
      <4>1. Formatted(g)
        BY <3>3, FormattedIs
      <4> QED
        BY <4>1 DEF Formatted, At
    <3> QED
      BY <1>9, <3>1, <3>2, <3>3 DEF Settle
  <2>2. FreshOK(Layers, place'[g], response'[g[1]])
    BY <2>1 DEF FreshOK
  <2>3. \A r \in Requests : \A k \in Levels(Layers) :
            WrapperOK(Layers, place', writer', statusWriters', response'[r], r, k)
    BY <1>9, WrappersSettled
  <2>4. \A r \in Requests : <<r, "conn">> # g => response'[r] = response[r]
    BY <2>1
  <2> QED
    BY <2>1, <2>2, <2>3, <2>4, WrappersAfter DEF StepMoves
<1>10. CASE WriteLine(g) \/ WriterPanics(g)
  <2>1. LineDone(g)
    BY <1>10, LineIsDone
  <2>2. setup' = setup /\ StepMoves(g, 0) /\ Quietly
        /\ \E how \in {"out", "up"} : place'[g] = At(place[g].at - 1, how)
    BY <2>1 DEF LineDone
  <2> QED
    BY <1>4, <2>2
<1>11. CASE HandlerFlushes(g)
  <2>1. /\ UNCHANGED <<context, place, writer, statusWriters>> /\ g = <<g[1], "conn">>
        /\ response' = [r \in Requests |-> IF r = g[1] THEN Flushed(response[r]) ELSE response[r]]
    BY <1>11, FlushIs
  <2>2. place[g].at = Len(Layers) + 1
    BY <1>11 DEF HandlerFlushes, InHandler, At, Inner
  <2>3. FreshOK(Layers, place'[g], response'[g[1]])
    BY <2>1, <2>2 DEF FreshOK
  <2>4. \A r \in Requests : <<r, "conn">> # g => response'[r] = response[r]
    BY <2>1
  <2>5. ASSUME NEW r \in Requests, NEW k \in Levels(Layers)
        PROVE  WrapperOK(Layers, place', writer', statusWriters', response'[r], r, k)
    <3>1. WrapperOK(Layers, place, writer, statusWriters, response[r], r, k)
      BY DEF Wrappers
    <3>2. CASE r = g[1]
      <4>1. response[r] \in Responses(setup)
        BY DEF HeadersOK
      <4>2. Flushed(response[r]).flushed
        <5>1. DOMAIN Committed(response[r], 200) = {"header", "status", "sent", "flushed"}
          BY <4>1 DEF Committed, Responses
        <5> QED
          BY <5>1 DEF Flushed
      <4>3. response'[r].flushed
        <5>1. response'[r] = Flushed(response[r])
          BY <2>1, <3>2
        <5> QED
          BY <4>2, <5>1
      <4> QED
        BY <4>3 DEF WrapperOK, Tells
    <3>3. CASE r # g[1]
      <4>1. response'[r] = response[r]
        BY <2>1, <3>3
      <4> QED
        BY <2>1, <3>1, <4>1
    <3> QED
      BY <3>2, <3>3
  <2> QED
    BY <2>1, <2>3, <2>4, <2>5, WrappersAfter DEF context
<1> QED
  BY <1>3, <1>5, <1>6, <1>7, <1>8, <1>9, <1>10, <1>11, StepKinds

\* A request that arrives has no response yet, and one that ends has left its logs.
LEMMA WrappersNext ==
    ASSUME Structure, HeadersOK, BuffersOK, Wrappers, [Next]_vars
    PROVE  Wrappers'
<1>1. ASSUME NEW r \in Requests, Arrive(r) PROVE Wrappers'
  <2> DEFINE g == <<r, "conn">>
  <2>1. /\ setup' = setup /\ Quietly
        /\ g \in Routines /\ Moves(g, 1) /\ place[g] = At(0, "absent")
        /\ Moved(place, place', g, At(1, "in"))
    BY <1>1, ArriveIs DEF Arrive, context, pools, Quietly
  <2>2. g[1] = r /\ ~Held(Layers, place', g[1], 1) /\ 0 # Len(Layers) + 1
    BY SetupFacts DEF Held, Made, Structure, TypeOK
  <2>3. place'[g] = At(1, "in") /\ \A h \in Routines : h # g => place'[h] = place[h]
    BY <2>1 DEF Moved, Structure, RoutinesOK, IsPlaces
  <2>4. \A q \in Requests : <<q, "conn">> # g => place'[<<q, "conn">>] = place[<<q, "conn">>]
    BY <2>3 DEF Routines
  <2> HIDE DEF g
  <2>5. \A q \in Requests : \A k \in Levels(Layers) :
            WrapperOK(Layers, place', writer', statusWriters', response'[q], q, k)
    BY <2>1, <2>2, WrappersQuiet
  <2>6. FreshOK(Layers, place'[g], response'[g[1]])
    <3>1. FreshOK(Layers, place[g], response[r])
      BY DEF Wrappers, g
    <3> QED
      BY <2>1, <2>2, <3>1 DEF FreshOK, Quietly, At
  <2>7. \A q \in Requests : <<q, "conn">> # g => response'[q] = response[q]
    BY <2>1 DEF Quietly
  <2> QED
    BY <2>1, <2>4, <2>5, <2>6, <2>7, WrappersAfter
<1>2. ASSUME NEW r \in Requests, Finish(r) PROVE Wrappers'
  <2> DEFINE g == <<r, "conn">>
  <2>1. /\ setup' = setup /\ statusWriters' = statusWriters
        /\ response' = response \/ response' = [response EXCEPT ![r] = Committed(@, 200)]
    BY <1>2 DEF Finish, context, pools
  <2>2. StepMoves(g, 0) /\ \E how \in {"done", "aborted"} : place'[g] = At(0, how)
    BY <1>2, FinishStep
  <2>3. g[1] = r /\ g \in Routines
    BY DEF Routines
  <2>4. \A q \in Requests : q # r => response'[q] = response[q]
    BY <2>1 DEF HeadersOK
  <2>5. ASSUME NEW q \in Requests, NEW k \in Levels(Layers)
        PROVE  WrapperOK(Layers, place', writer', statusWriters', response'[q], q, k)
    <3> SUFFICES ASSUME Held(Layers, place', q, k), Side(Layers, k) = "conn"
                 PROVE  Tells(statusWriters'[writer'[q][k][2]].status, response'[q])
      BY DEF WrapperOK
    <3>1. q # r
      <4>1. Top(place'[g]) = 1
        BY <2>2 DEF Top, At
      <4>2. ASSUME q = r PROVE k <= Top(place'[g]) /\ k > 1
        BY <4>2 DEF Held, Made, Live, Routine
      <4>3. k \in Nat
        BY DEF Levels
      <4> QED
        BY <4>1, <4>2, <4>3
    <3> HIDE DEF g
    <3>2. Moves(g, 0) /\ ~(q = g[1] /\ k = 0)
      BY <2>2, <2>3, <3>1 DEF StepMoves
    <3>3. Held(Layers, place, q, k) /\ writer'[q][k] = writer[q][k]
      BY <3>2, InUse
    <3>4. Tells(statusWriters[writer[q][k][2]].status, response[q])
      BY <3>3 DEF Wrappers, WrapperOK
    <3> QED
      BY <2>1, <2>4, <3>1, <3>3, <3>4
  <2>6. FreshOK(Layers, place'[g], response'[g[1]])
    BY <2>2 DEF FreshOK, At
  <2>7. \A q \in Requests : <<q, "conn">> # g => response'[q] = response[q]
    BY <2>4
  <2>8. \A q \in Requests : <<q, "conn">> # g => place'[<<q, "conn">>] = place[<<q, "conn">>]
    BY <2>2 DEF StepMoves
  <2> HIDE DEF g
  <2> QED
    BY <2>1, <2>3, <2>5, <2>6, <2>7, <2>8, WrappersAfter
<1>3. ASSUME UNCHANGED vars PROVE Wrappers'
  <2>1. /\ UNCHANGED <<place, writer, statusWriters, response>>
        /\ Layers' = Layers
    BY <1>3 DEF vars, context, pools, Layers
  <2> QED
    BY <2>1, ZenonT(30) DEF Wrappers
<1> QED
  BY <1>1, <1>2, <1>3, WrappersStep DEF Next, Quiet

\* At first nothing is written, and no log has a writer.
LEMMA WrappersInit ==
    ASSUME Init
    PROVE  Wrappers
<1>1. \A r \in Requests : response[r].status = 0
  BY DEF Init, NoResponse
<1>2. ASSUME NEW r \in Requests, NEW k \in Levels(Layers) PROVE ~Held(Layers, place, r, k)
  <2>1. place[Routine(Layers, r, k)] = At(0, "absent")
    BY DEF Init, Routine, Routines, Side
  <2>2. Top(place[Routine(Layers, r, k)]) = 0
    BY <2>1 DEF Top, At
  <2>3. k > 1 => ~(k <= 0)
    BY DEF Levels
  <2> QED
    BY <2>2, <2>3 DEF Held, Made, Live
<1> QED
  BY <1>1, <1>2 DEF Wrappers, WrapperOK, FreshOK

-----------------------------------------------------------------------------
(* What is logged is what the client has got or will get.                  *)

\* The status agrees with the response: it is that of the response, or there is
\* none yet and the way back will end with it.  (That of a flush is not noted.)
Agreed(p, resp, status) ==
    \/ resp.flushed
    \/ Informational(status) \/ resp.status = status
    \/ /\ resp.status = 0
       /\ \/ status = 200 /\ p.going \in {"out", "logOut"}
          \/ status = 500 /\ p.going \in {"up", "logUp", "aborted"}

\* The id is that of the response, if it has one.
SameID(resp, id) == /\ resp.header.id # NoID => resp.header.id = id
                    /\ resp.sent.id # NoID => resp.sent.id = id

\* The entries of the logs that no Timeout encloses, and the one to come: user code
\* further out may yet answer a panic in another way.
EntryOK(s, p, resp, x) ==
    s.writerPanics \/ Agreed(p, resp, x.status) \/ (x.status = 500 /\ Overruled(s, x.layer))

EntriesOK(s, p, resp, log) ==
    \A i \in DOMAIN log : Side(s.layers, log[i].layer) = "conn" =>
        /\ EntryOK(s, p, resp, log[i])
        /\ s.layers[log[i].layer] = "line" => SameID(resp, log[i].id)

PendingOK(s, p, resp, e) ==
    Waiting(p) => /\ s.writerPanics \/ Agreed(p, resp, e.status)
                  /\ SameID(resp, e.id)

\* CORS answers a preflight, which does not get to what is behind.
Refused(s, r, k) == /\ \E j \in 1 .. k - 1 : s.layers[j] = "cors"
                    /\ s.sent[r].preflight /\ s.sent[r].origin # NoOrigin

HasEntry(log, k) == \E i \in DOMAIN log : log[i].layer = k

\* Each of these logs that the way back has passed has logged.
Full(s, r, p, log) ==
    ~s.writerPanics /\ Back(p) =>
        \A k \in DOMAIN s.layers :
            s.layers[k] \in Logs /\ Side(s.layers, k) = "conn" /\ k > p.at /\ ~Refused(s, r, k)
                => HasEntry(log, k)

AccountOK(s, r, p, resp, log, e) ==
    /\ EntriesOK(s, p, resp, log)
    /\ PendingOK(s, p, resp, e)
    /\ Full(s, r, p, log)
    /\ p.going = "done" => resp.status # 0

Accounts ==
    \A r \in Requests :
        AccountOK(setup, r, place[<<r, "conn">>], response[r], logged[r], entry[<<r, "conn">>])

\* A request that has not turned back has no such entries.
LEMMA NoEntriesYet ==
    ASSUME LoggedOnce, NEW r \in Requests, ~Back(place[<<r, "conn">>]), NEW i \in DOMAIN logged[r]
    PROVE  Side(setup.layers, logged[r][i].layer) # "conn"
<1>1. Back(place[Routine(Layers, r, logged[r][i].layer)])
  BY DEF LoggedOnce, OnceOK
<1> QED
  BY <1>1 DEF Routine, Layers

\* So its account is right as long as it goes in,
LEMMA AccountIn ==
    ASSUME NEW s, NEW r, NEW p, NEW resp, NEW log, NEW e, ~Back(p),
           \A i \in DOMAIN log : Side(s.layers, log[i].layer) # "conn"
    PROVE  AccountOK(s, r, p, resp, log, e)
BY DEF AccountOK, EntriesOK, PendingOK, Full, Back, Going, Waiting

\* and when it turns back.
LEMMA AccountTurns ==
    ASSUME NEW s, s.layers \in Seq(LayerKinds), NEW r, NEW k \in Nat, NEW how \in {"out", "up"},
           NEW resp, NEW log, NEW e,
           \A i \in DOMAIN log : Side(s.layers, log[i].layer) # "conn",
           \A j \in DOMAIN s.layers :
              j >= k /\ s.layers[j] \in Logs /\ Side(s.layers, j) = "conn" => Refused(s, r, j)
    PROVE  AccountOK(s, r, At(k - 1, how), resp, log, e)
<1> DEFINE p == At(k - 1, how)
<1>1. p.at = k - 1 /\ p.going \in {"out", "up"}
  BY DEF At
<1> HIDE DEF p
<1>2. \A j \in DOMAIN s.layers : j \in Nat /\ (j > p.at => j >= k)
  BY <1>1
<1>3. Full(s, r, p, log)
  BY <1>2 DEF Full
<1>4. AccountOK(s, r, p, resp, log, e)
  BY <1>1, <1>3 DEF AccountOK, EntriesOK, PendingOK, Waiting
<1> QED
  BY <1>4 DEF p

\* Entries stay right when what they agree with stays,
Carries(s, p, p2, resp, resp2) ==
    /\ \A status \in Nat \ {0} :
          s.writerPanics \/ (Agreed(p, resp, status) => Agreed(p2, resp2, status))
    /\ \A id : SameID(resp, id) => SameID(resp2, id)

\* Entries that agree with what the response is to be agree with what it comes to be.
LEMMA EntriesCarried ==
    ASSUME NEW s, NEW p, NEW p2, NEW resp, NEW resp2, Carries(s, p, p2, resp, resp2),
           NEW log \in Seq(Entries(s)), EntriesOK(s, p, resp, log)
    PROVE  EntriesOK(s, p2, resp2, log)
<1> SUFFICES ASSUME NEW i \in DOMAIN log, Side(s.layers, log[i].layer) = "conn"
             PROVE  /\ EntryOK(s, p2, resp2, log[i])
                    /\ s.layers[log[i].layer] = "line" => SameID(resp2, log[i].id)
  BY DEF EntriesOK
<1>1. log[i] \in Entries(s)
  OBVIOUS
<1>2. log[i].status \in Nat \ {0}
  BY <1>1 DEF Entries
<1> QED
  BY <1>2 DEF EntriesOK, EntryOK, Carries

\* and one may be added
LEMMA EntriesMore ==
    ASSUME NEW s, NEW p, NEW resp, NEW log \in Seq(Entries(s)), EntriesOK(s, p, resp, log),
           NEW x,
           Side(s.layers, x.layer) = "conn" =>
                /\ EntryOK(s, p, resp, x)
                /\ s.layers[x.layer] = "line" => SameID(resp, x.id)
    PROVE  EntriesOK(s, p, resp, Append(log, x))
<1> DEFINE new == Append(log, x)
           n == Len(log)
<1>1. /\ n \in Nat /\ DOMAIN new = 1 .. n + 1 /\ DOMAIN log = 1 .. n
      /\ new[n + 1] = x /\ \A i \in 1 .. n : new[i] = log[i]
  OBVIOUS
<1> HIDE DEF new, n
<1>2. \A i \in DOMAIN new : i \in DOMAIN log \/ i = n + 1
  BY <1>1
<1>3. EntriesOK(s, p, resp, new)
  BY <1>1, <1>2 DEF EntriesOK
<1> QED
  BY <1>3 DEF new

\* (an entry more is no entry less).
LEMMA EntryMore ==
    ASSUME NEW S, NEW log \in Seq(S), NEW x
    PROVE  /\ HasEntry(Append(log, x), x.layer)
           /\ \A k : HasEntry(log, k) => HasEntry(Append(log, x), k)
<1> DEFINE new == Append(log, x)
           n == Len(log)
<1>1. /\ n \in Nat /\ DOMAIN new = 1 .. n + 1 /\ DOMAIN log = 1 .. n
      /\ new[n + 1] = x /\ \A i \in 1 .. n : new[i] = log[i]
  OBVIOUS
<1> HIDE DEF new, n
<1>2. n + 1 \in DOMAIN new /\ \A i \in DOMAIN log : i \in DOMAIN new
  BY <1>1
<1>3. HasEntry(new, x.layer) /\ \A k : HasEntry(log, k) => HasEntry(new, k)
  BY <1>1, <1>2 DEF HasEntry
<1> QED
  BY <1>3 DEF new

\* The way back passes what is no log, or one that logs.
LEMMA FullStays ==
    ASSUME NEW s, s.layers \in Seq(LayerKinds), NEW r, NEW p, NEW p2, Back(p), NEW log, NEW log2,
           Full(s, r, p, log), p.at \in Nat,
           \A k : HasEntry(log, k) => HasEntry(log2, k),
           \/ p2.at = p.at
           \/ p2.at = p.at - 1 /\ (s.layers[p.at] \in Logs => s.writerPanics \/ HasEntry(log2, p.at))
    PROVE  Full(s, r, p2, log2)
<1> SUFFICES ASSUME ~s.writerPanics, NEW k \in DOMAIN s.layers, s.layers[k] \in Logs,
                    Side(s.layers, k) = "conn", k > p2.at, ~Refused(s, r, k)
             PROVE  HasEntry(log2, k)
  BY DEF Full
<1>1. k \in Nat
  OBVIOUS
<1>2. CASE k > p.at
  BY <1>2 DEF Full
<1>3. CASE k = p.at
  BY <1>1, <1>3
<1> QED
  BY <1>1, <1>2, <1>3

\* What is on its way back, or waits for the mutex, has the same response to come.
LEMMA SameWay ==
    ASSUME NEW s, NEW p, NEW p2, NEW resp,
           p.going \in {"out", "logOut"} => p2.going \in {"out", "logOut"},
           p.going \in {"up", "logUp", "aborted"} => p2.going \in {"up", "logUp", "aborted"}
    PROVE  Carries(s, p, p2, resp, resp)
BY DEF Carries, Agreed

\* User code answers a panic with 500, or lets it go on, or overrules all entries:
\* they are of logs further in.
LEMMA PanicAnswered ==
    ASSUME NEW s, NEW p, p.at \in Nat \ {0}, p.going = "up", NEW p2,
           NEW rescue \in Answers, rescue \in Rescues(s, p.at), p2.going = rescue.how,
           NEW resp \in Responses(s), NEW log \in Seq(Entries(s)), EntriesOK(s, p, resp, log),
           \A i \in DOMAIN log : Side(s.layers, log[i].layer) = "conn" =>
                log[i].layer \in Nat /\ p.at < log[i].layer
    PROVE  EntriesOK(s, p2, Heard(resp, rescue.code, resp.header), log)
<1> DEFINE code  == rescue.code
           resp2 == Heard(resp, code, resp.header)
<1>1. /\ resp2.status = IF resp.status # 0 \/ Informational(code) THEN resp.status ELSE code
      /\ resp2.header = resp.header /\ resp2.flushed = resp.flushed
      /\ resp2.sent \in {resp.sent, resp.header}
  BY DEF Heard, Committed, Responses
<1>2. code \in Nat
  BY DEF Answers
<1> HIDE DEF resp2
<1>3. ASSUME Means500(rescue) PROVE Carries(s, p, p2, resp, resp2)
  BY <1>1, <1>2, <1>3 DEF Means500, Carries, Agreed, SameID, Informational
<1>4. ASSUME ~Means500(rescue) PROVE EntriesOK(s, p2, resp2, log)
  <2> SUFFICES ASSUME NEW i \in DOMAIN log, Side(s.layers, log[i].layer) = "conn"
               PROVE  /\ EntryOK(s, p2, resp2, log[i])
                      /\ s.layers[log[i].layer] = "line" => SameID(resp2, log[i].id)
    BY DEF EntriesOK
  <2>1. /\ EntryOK(s, p, resp, log[i])
        /\ s.layers[log[i].layer] = "line" => SameID(resp, log[i].id)
    BY DEF EntriesOK
  <2>2. p.at \in 1 .. log[i].layer - 1
    OBVIOUS
  <2>3. Overruled(s, log[i].layer)
    BY <1>4, <2>2 DEF Overruled
  <2>4. Agreed(p, resp, log[i].status) => Agreed(p2, resp2, log[i].status) \/ log[i].status = 500
    <3>1. log[i] \in Entries(s)
      OBVIOUS
    <3>2. log[i].status \in Nat \ {0}
      BY <3>1 DEF Entries
    <3> QED
      BY <1>1, <3>2 DEF Agreed
  <2> QED
    BY <1>1, <2>1, <2>3, <2>4 DEF EntryOK, SameID
<1>5. EntriesOK(s, p2, resp2, log)
  BY <1>3, <1>4, EntriesCarried
<1> QED
  BY <1>5 DEF resp2

\* and a return with 200 at last.
LEMMA ReturnEnds ==
    ASSUME NEW s, NEW p, NEW p2, NEW resp \in Responses(s), p.going = "out"
    PROVE  /\ Carries(s, p, p2, resp, Committed(resp, 200))
           /\ Committed(resp, 200).status # 0
<1> DEFINE resp2 == Committed(resp, 200)
<1>1. /\ resp2.status = IF resp.status # 0 THEN resp.status ELSE 200
      /\ resp2.header = resp.header /\ resp2.flushed = resp.flushed
      /\ resp2.sent \in {resp.sent, resp.header}
  BY DEF Committed, Informational, Responses
<1> HIDE DEF resp2
<1>2. Carries(s, p, p2, resp, resp2) /\ resp2.status # 0
  BY <1>1 DEF Carries, Agreed, SameID
<1> QED
  BY <1>2 DEF resp2

\* The accounts of requests that are not g's stay right, for g logs at most what
\* a Timeout encloses.
LEMMA AccountsAfter ==
    ASSUME LoggedOnce, Accounts, setup' = setup, NEW g \in Routines,
           \A r \in Requests : <<r, "conn">> # g =>
              /\ place'[<<r, "conn">>] = place[<<r, "conn">>] /\ response'[r] = response[r]
              /\ entry'[<<r, "conn">>] = entry[<<r, "conn">>]
              /\ \/ logged'[r] = logged[r]
                 \/ \E x : Side(setup.layers, x.layer) # "conn" /\ logged'[r] = Append(logged[r], x),
           g = <<g[1], "conn">> =>
              AccountOK(setup, g[1], place'[g], response'[g[1]], logged'[g[1]], entry'[g])
    PROVE  Accounts'
<1>1. ASSUME NEW r \in Requests, <<r, "conn">> # g
      PROVE  AccountOK(setup, r, place'[<<r, "conn">>], response'[r], logged'[r], entry'[<<r, "conn">>])
  <2> DEFINE p    == place[<<r, "conn">>]
             resp == response[r]
             log  == logged[r]
             e    == entry[<<r, "conn">>]
  <2>1. AccountOK(setup, r, p, resp, log, e) /\ log \in Seq(Entries(setup))
    BY DEF Accounts, LoggedOnce, EntriesTyped
  <2>2. place'[<<r, "conn">>] = p /\ response'[r] = resp /\ entry'[<<r, "conn">>] = e
    BY <1>1
  <2>3. CASE logged'[r] = log
    BY <2>1, <2>2, <2>3
  <2>4. ASSUME NEW x, Side(setup.layers, x.layer) # "conn", logged'[r] = Append(log, x)
        PROVE  AccountOK(setup, r, p, resp, logged'[r], e)
    <3> HIDE DEF p, resp, log, e
    <3>1. EntriesOK(setup, p, resp, Append(log, x))
      BY <2>1, <2>4, EntriesMore DEF AccountOK
    <3>2. \A k : HasEntry(log, k) => HasEntry(Append(log, x), k)
      BY <2>1, EntryMore
    <3>3. Full(setup, r, p, Append(log, x))
      BY <2>1, <3>2 DEF AccountOK, Full
    <3> QED
      BY <2>1, <2>4, <3>1, <3>3 DEF AccountOK
  <2> QED
    BY <1>1, <2>2, <2>3, <2>4
<1>2. ASSUME NEW r \in Requests, <<r, "conn">> = g
      PROVE  AccountOK(setup, r, place'[<<r, "conn">>], response'[r], logged'[r], entry'[<<r, "conn">>])
  <2>1. g[1] = r
    BY <1>2
  <2> QED
    BY <1>2, <2>1
<1> QED
  BY <1>1, <1>2, Zenon DEF Accounts

\* (when g logs nothing)
LEMMA AccountsAlone ==
    ASSUME Structure, LoggedOnce, Accounts, NEW g \in Routines, NEW n, StepMoves(g, n), LogsNothing,
           Quietly \/ \E code, header : Writes(g, code, header),
           g = <<g[1], "conn">> =>
              AccountOK(setup, g[1], place'[g], response'[g[1]], logged[g[1]], entry[g])
    PROVE  Accounts'
<1>1. \A r \in Requests : <<r, "conn">> # g =>
          /\ place'[<<r, "conn">>] = place[<<r, "conn">>] /\ response'[r] = response[r]
  BY OthersAnswers DEF StepMoves
<1> QED
  BY <1>1, AccountsAfter DEF LogsNothing

\* The account of a request whose way back goes on, without a log
LEMMA AccountGoesOn ==
    ASSUME NEW s, s.layers \in Seq(LayerKinds), NEW r, NEW p, NEW p2, Back(p), p.at \in Nat,
           NEW resp, NEW resp2, NEW log, NEW e, AccountOK(s, r, p, resp, log, e),
           EntriesOK(s, p2, resp2, log),
           \/ p2.at = p.at
           \/ p2.at = p.at - 1 /\ s.layers[p.at] \notin Logs,
           ~Waiting(p2), p2.going = "done" => resp2.status # 0
    PROVE  AccountOK(s, r, p2, resp2, log, e)
<1>1. Full(s, r, p2, log)
  BY FullStays DEF AccountOK
<1> QED
  BY <1>1 DEF AccountOK, PendingOK

\* and when it has come to a log
LEMMA AccountLogged ==
    ASSUME NEW s, s.layers \in Seq(LayerKinds), NEW r, NEW p, NEW p2, Back(p), p.at \in Nat,
           NEW resp, Carries(s, p, p2, resp, resp),
           NEW log \in Seq(Entries(s)), NEW e, NEW e2, AccountOK(s, r, p, resp, log, e),
           p2.at = p.at - 1, ~Waiting(p2), p2.going # "done",
           NEW x, x.layer = p.at, s.writerPanics \/ Agreed(p2, resp, x.status),
           s.layers[p.at] = "line" => SameID(resp, x.id)
    PROVE  AccountOK(s, r, p2, resp, Append(log, x), e2)
<1>1. EntriesOK(s, p2, resp, log)
  BY EntriesCarried DEF AccountOK
<1>2. EntriesOK(s, p2, resp, Append(log, x))
  BY <1>1, EntriesMore DEF EntryOK
<1>3. HasEntry(Append(log, x), p.at) /\ \A k : HasEntry(log, k) => HasEntry(Append(log, x), k)
  BY EntryMore
<1>4. Full(s, r, p2, Append(log, x))
  BY <1>3, FullStays DEF AccountOK
<1> QED
  BY <1>2, <1>4 DEF AccountOK, PendingOK

\* What a log of the request's own goroutine will log is right.
LEMMA StatusAgrees ==
    ASSUME Structure, Wrappers, NEW g \in Routines, g[2] = "conn", place[g].at \in DOMAIN Layers,
           Layers[place[g].at] \in Logs, place[g].going \in {"out", "up"}
    PROVE  Agreed(place[g], response[g[1]], Status(g))
<1>1. /\ place[g].at + 1 \in Levels(Layers) /\ g[1] \in Requests
      /\ Held(Layers, place, g[1], place[g].at + 1)
      /\ Below(g) = writer[g[1]][place[g].at + 1]
  BY HeldBelow
<1>2. Side(Layers, place[g].at + 1) = "conn"
  <2>1. Routine(Layers, g[1], place[g].at + 1) = g
    BY BelowIs DEF Going
  <2> QED
    BY <2>1 DEF Routine
<1>3. Tells(statusWriters[Below(g)[2]].status, response[g[1]])
  BY <1>1, <1>2 DEF Wrappers, WrapperOK
<1> QED
  BY <1>3 DEF Tells, Agreed, Status, StatusToLog

\* The account that a step of g is about, when g is of a connection
LEMMA OwnAccount ==
    ASSUME Structure, HeadersOK, LoggedOnce, Accounts, NEW g \in Routines
    PROVE  /\ g[1] \in Requests /\ g = <<g[1], g[2]>> /\ setup.layers \in Seq(LayerKinds)
           /\ Layers = setup.layers /\ place[g].at \in Nat
           /\ response[g[1]] \in Responses(setup) /\ logged[g[1]] \in Seq(Entries(setup))
           /\ logged \in [Requests -> Seq(Entries(setup))] /\ entry \in [Routines -> Pending(setup)]
           /\ g[2] = "conn" =>
                /\ AccountOK(setup, g[1], place[g], response[g[1]], logged[g[1]], entry[g])
                /\ ~Back(place[g]) => \A i \in DOMAIN logged[g[1]] :
                                         Side(setup.layers, logged[g[1]][i].layer) # "conn"
<1>1. g[1] \in Requests /\ g = <<g[1], g[2]>>
  BY DEF Routines
<1>2. setup.layers \in Seq(LayerKinds) /\ Layers = setup.layers
  BY SetupFacts DEF Structure, TypeOK, ChainOK, Layers
<1>3. place[g].at \in Nat
  BY DEF Structure, RoutinesOK, IsPlaces
<1>4. /\ response[g[1]] \in Responses(setup) /\ logged[g[1]] \in Seq(Entries(setup))
      /\ logged \in [Requests -> Seq(Entries(setup))] /\ entry \in [Routines -> Pending(setup)]
  BY <1>1 DEF HeadersOK, LoggedOnce, EntriesTyped
<1>5. ASSUME g[2] = "conn"
      PROVE  /\ AccountOK(setup, g[1], place[g], response[g[1]], logged[g[1]], entry[g])
             /\ ~Back(place[g]) => \A i \in DOMAIN logged[g[1]] :
                                      Side(setup.layers, logged[g[1]][i].layer) # "conn"
  <2>1. g = <<g[1], "conn">>
    BY <1>1, <1>5
  <2>2. AccountOK(setup, g[1], place[<<g[1], "conn">>], response[g[1]], logged[g[1]],
                  entry[<<g[1], "conn">>])
    BY <1>1 DEF Accounts
  <2>3. ~Back(place[<<g[1], "conn">>]) => \A i \in DOMAIN logged[g[1]] :
                                      Side(setup.layers, logged[g[1]][i].layer) # "conn"
    BY <1>1, NoEntriesYet
  <2> QED
    BY <2>1, <2>2, <2>3
<1> QED
  BY <1>1, <1>2, <1>3, <1>4, <1>5

\* What a layer passes
LEMMA AccountsPassed ==
    ASSUME Structure, HeadersOK, LoggedOnce, Accounts, NEW g \in Routines, Passes(g)
    PROVE  Accounts'
<1> DEFINE p    == place[g]
           resp == response[g[1]]
<1>1. /\ LogsNothing /\ p.going \in {"out", "up"}
      /\ p.at \in DOMAIN Layers /\ Layers[p.at] \notin Logs
      /\ StepMoves(g, 0)
      /\ \/ place'[g] = At(p.at - 1, p.going) /\ Quietly
         \/ \E rescue \in Rescues(setup, p.at) :
               /\ p.going = "up" /\ rescue \in Answers
               /\ place'[g] = At(p.at - 1, rescue.how)
               /\ Writes(g, rescue.code, HeaderOf(W(g)))
  BY DEF Passes
<1>2. /\ g[1] \in Requests /\ g = <<g[1], g[2]>> /\ setup.layers \in Seq(LayerKinds)
      /\ Layers = setup.layers /\ p.at \in Nat
      /\ resp \in Responses(setup) /\ logged[g[1]] \in Seq(Entries(setup))
      /\ g[2] = "conn" => AccountOK(setup, g[1], p, resp, logged[g[1]], entry[g])
  BY OwnAccount
<1>3. ASSUME g[2] = "conn"
      PROVE  EntriesOK(setup, place'[g], response'[g[1]], logged[g[1]])
  <2>1. EntriesOK(setup, p, resp, logged[g[1]])
    BY <1>2, <1>3 DEF AccountOK
  <2>2. ASSUME place'[g] = At(p.at - 1, p.going), Quietly
        PROVE  EntriesOK(setup, place'[g], response'[g[1]], logged[g[1]])
    <3>1. response'[g[1]] = resp
      BY <2>2 DEF Quietly
    <3>2. place'[g].going = p.going
      BY <2>2 DEF At
    <3> HIDE DEF p, resp
    <3>3. Carries(setup, p, place'[g], resp, resp)
      BY <3>2, SameWay
    <3> QED
      BY <1>2, <2>1, <3>1, <3>3, EntriesCarried
  <2>3. ASSUME NEW rescue \in Rescues(setup, p.at), p.going = "up", rescue \in Answers,
               place'[g] = At(p.at - 1, rescue.how), Writes(g, rescue.code, HeaderOf(W(g)))
        PROVE  EntriesOK(setup, place'[g], response'[g[1]], logged[g[1]])
    <3>1. AnswersOf(g, rescue.code, HeaderOf(W(g))) /\ Runs(g)
      BY <2>3, AnswersAre DEF Writes
    <3>2. HeaderOf(W(g)) = resp.header
      BY <1>3, <3>1, EndsAt
    <3>3. response'[g[1]] = Heard(resp, rescue.code, resp.header)
      BY <1>2, <1>3, <3>1, <3>2 DEF AnswersOf
    <3>4. p.at \in Nat \ {0} /\ place'[g].going = rescue.how
      BY <1>1, <1>2, <2>3, SetupFacts DEF At, Structure, TypeOK
    <3>5. ASSUME NEW i \in DOMAIN logged[g[1]], Side(setup.layers, logged[g[1]][i].layer) = "conn"
          PROVE  logged[g[1]][i].layer \in Nat /\ p.at < logged[g[1]][i].layer
      <4>1. logged[g[1]][i].layer \in DOMAIN setup.layers
        BY <1>2, EntryLayers DEF LoggedOnce
      <4>2. Routine(Layers, g[1], logged[g[1]][i].layer) = g
        BY <1>2, <1>3, <3>5 DEF Routine
      <4>3. OnceOK(Layers, place, g[1], logged[g[1]])
        BY <1>2 DEF LoggedOnce
      <4> QED
        BY <1>2, <4>1, <4>2, <4>3 DEF OnceOK
    <3> HIDE DEF p, resp
    <3>6. EntriesOK(setup, place'[g], Heard(resp, rescue.code, resp.header), logged[g[1]])
      BY <1>2, <2>1, <2>3, <3>4, <3>5, PanicAnswered
    <3> QED
      BY <3>3, <3>6
  <2> QED
    BY <1>1, <2>2, <2>3
<1>4. Back(p) /\ ~Waiting(place'[g]) /\ place'[g].at = p.at - 1 /\ place'[g].going # "done"
  <2>1. PICK how \in {"out", "up"} : place'[g] = At(p.at - 1, how)
    BY PassesOut
  <2> QED
    BY <1>1, <2>1 DEF Back, Going, Waiting, At
<1> HIDE DEF p, resp
<1>5. ASSUME g[2] = "conn"
      PROVE  AccountOK(setup, g[1], place'[g], response'[g[1]], logged[g[1]], entry[g])
  BY <1>1, <1>2, <1>3, <1>4, <1>5, AccountGoesOn
<1>6. g = <<g[1], "conn">> => g[2] = "conn"
  OBVIOUS
<1>7. Quietly \/ \E code, header : Writes(g, code, header)
  BY <1>1
<1> QED
  BY <1>1, <1>5, <1>6, <1>7, AccountsAlone

\* What AccessLog logs
LEMMA AccountsAccessed ==
    ASSUME Structure, HeadersOK, LoggedOnce, Wrappers, Accounts, NEW g \in Routines, LogAccess(g)
    PROVE  Accounts'
<1> DEFINE p    == place[g]
           resp == response[g[1]]
           x    == [layer |-> place[g].at, status |-> Status(g), id |-> NoID]
<1>1. /\ setup' = setup /\ entry' = entry
      /\ p.at \in DOMAIN Layers /\ Layers[p.at] = "access"
      /\ p.going \in {"out", "up"}
      /\ StepMoves(g, 0) /\ place'[g] = At(p.at - 1, p.going)
      /\ logged' = [logged EXCEPT ![g[1]] = Append(@, x)]
  <2>1. Accessed(g)
    BY LogAccessIs
  <2> QED
    BY <2>1 DEF Accessed
<1>2. response' = response
  BY DEF LogAccess, Settle
<1>3. /\ g[1] \in Requests /\ g = <<g[1], g[2]>> /\ setup.layers \in Seq(LayerKinds)
      /\ Layers = setup.layers /\ p.at \in Nat
      /\ logged[g[1]] \in Seq(Entries(setup))
      /\ logged \in [Requests -> Seq(Entries(setup))]
      /\ g[2] = "conn" => AccountOK(setup, g[1], p, resp, logged[g[1]], entry[g])
  BY OwnAccount
<1>4. /\ Carries(setup, p, place'[g], resp, resp) /\ Back(p) /\ ~Waiting(place'[g])
      /\ place'[g].at = p.at - 1 /\ place'[g].going # "done"
      /\ place'[g].going = p.going
  BY <1>1, SameWay DEF Back, Going, Waiting, At
<1>5. ASSUME g[2] = "conn" PROVE Agreed(place'[g], resp, x.status)
  <2>1. Agreed(p, resp, Status(g))
    BY <1>1, <1>5, StatusAgrees DEF Logs
  <2> QED
    BY <1>4, <2>1 DEF Agreed
<1>6. x.layer = p.at
  OBVIOUS
<1>7. Runs(g)
  BY <1>1, LayerRuns DEF Going
<1> HIDE DEF p, resp, x
<1>8. logged'[g[1]] = Append(logged[g[1]], x) /\ \A r \in Requests : r # g[1] => logged'[r] = logged[r]
  BY <1>1, <1>3
<1>9. ASSUME g[2] = "conn"
      PROVE  AccountOK(setup, g[1], place'[g], resp, Append(logged[g[1]], x), entry[g])
  <2>1. setup.layers[p.at] # "line"
    BY <1>1, <1>3
  <2> QED
    BY <1>1, <1>3, <1>4, <1>5, <1>6, <1>9, <2>1, AccountLogged
<1>10. ASSUME g[2] # "conn" PROVE Side(setup.layers, x.layer) # "conn"
  BY <1>3, <1>6, <1>7, <1>10 DEF Runs, Routine, p
<1>11. ASSUME NEW r \in Requests, <<r, "conn">> # g
       PROVE  \/ logged'[r] = logged[r]
              \/ Side(setup.layers, x.layer) # "conn" /\ logged'[r] = Append(logged[r], x)
  <2>1. r # g[1] \/ g[2] # "conn"
    BY <1>3, <1>11
  <2> QED
    BY <1>8, <1>10, <2>1
<1>12. g = <<g[1], "conn">> =>
          AccountOK(setup, g[1], place'[g], response'[g[1]], logged'[g[1]], entry'[g])
  <2>1. g = <<g[1], "conn">> => g[2] = "conn"
    OBVIOUS
  <2> QED
    BY <1>1, <1>2, <1>8, <1>9, <2>1 DEF resp
<1> QED
  BY <1>1, <1>2, <1>11, <1>12, AccountsAfter DEF StepMoves

\* What Logger has formatted
LEMMA AccountsFormatted ==
    ASSUME Structure, HeadersOK, LoggedOnce, Wrappers, Accounts, NEW g \in Routines, FormatLine(g)
    PROVE  Accounts'
<1> DEFINE p    == place[g]
           resp == response[g[1]]
           e    == [status |-> Status(g), id |-> requestID[g[1]]]
           log  == logged[g[1]]
           to   == IF p.going = "up" THEN "logUp" ELSE "logOut"
<1>1. /\ setup' = setup /\ logged' = logged
      /\ p.at \in DOMAIN Layers /\ Layers[p.at] = "line"
      /\ p.going \in {"out", "up"}
      /\ StepMoves(g, 0) /\ place'[g] = At(p.at, to)
      /\ entry' = [entry EXCEPT ![g] = e]
  <2>1. Formatted(g)
    BY FormattedIs
  <2> QED
    BY <2>1 DEF Formatted
<1>2. response' = response
  BY DEF FormatLine, Settle
<1>3. /\ g[1] \in Requests /\ g = <<g[1], g[2]>> /\ setup.layers \in Seq(LayerKinds)
      /\ p.at \in Nat /\ log \in Seq(Entries(setup))
      /\ entry \in [Routines -> Pending(setup)]
      /\ g[2] = "conn" => AccountOK(setup, g[1], p, resp, log, entry[g])
  BY OwnAccount
<1>4. /\ Carries(setup, p, place'[g], resp, resp) /\ Back(p) /\ Back(place'[g])
      /\ place'[g].at = p.at /\ place'[g].going # "done"
      /\ p.going = "up" => place'[g].going = "logUp"
      /\ p.going = "out" => place'[g].going = "logOut"
  BY <1>1, SameWay DEF Back, Going, At
<1>5. ASSUME g[2] = "conn" PROVE Agreed(place'[g], resp, e.status)
  <2>1. Agreed(p, resp, Status(g))
    BY <1>1, <1>5, StatusAgrees DEF Logs
  <2> QED
    BY <1>1, <1>4, <2>1 DEF Agreed
<1>6. SameID(resp, e.id)
  <2>1. RequestOK(setup, g[1], requestID[g[1]], resp, buffer[g[1]])
    BY <1>3 DEF HeadersOK
  <2> QED
    BY <2>1 DEF RequestOK, HeaderOK, SameID
<1>7. entry'[g] = e /\ \A h \in Routines : h # g => entry'[h] = entry[h]
  BY <1>1, <1>3
<1> HIDE DEF p, resp, e, log, to
<1>8. ASSUME g[2] = "conn"
      PROVE  AccountOK(setup, g[1], place'[g], resp, log, e)
  <2>1. AccountOK(setup, g[1], p, resp, log, entry[g])
    BY <1>3, <1>8
  <2>2. EntriesOK(setup, place'[g], resp, log)
    BY <1>3, <1>4, <2>1, EntriesCarried DEF AccountOK
  <2>3. Full(setup, g[1], place'[g], log)
    BY <1>3, <1>4, <2>1, FullStays DEF AccountOK
  <2> QED
    BY <1>4, <1>5, <1>6, <1>8, <2>2, <2>3 DEF AccountOK, PendingOK
<1>9. g = <<g[1], "conn">> =>
          AccountOK(setup, g[1], place'[g], response'[g[1]], logged'[g[1]], entry'[g])
  <2>1. g = <<g[1], "conn">> => g[2] = "conn"
    OBVIOUS
  <2> QED
    BY <1>1, <1>2, <1>7, <1>8, <2>1 DEF resp, log
<1>10. \A r \in Requests : <<r, "conn">> # g => entry'[<<r, "conn">>] = entry[<<r, "conn">>]
  BY <1>7 DEF Routines
<1> QED
  BY <1>1, <1>2, <1>9, <1>10, AccountsAfter DEF StepMoves

\* and writes
LEMMA AccountsWritten ==
    ASSUME Structure, HeadersOK, LoggedOnce, Accounts, NEW g \in Routines,
           WriteLine(g) \/ WriterPanics(g)
    PROVE  Accounts'
<1> DEFINE p    == place[g]
           resp == response[g[1]]
           log  == logged[g[1]]
           x    == [layer |-> place[g].at, status |-> entry[g].status, id |-> entry[g].id]
           back == IF p.going = "logUp" THEN "up" ELSE "out"
<1>1. /\ setup' = setup
      /\ p.at \in DOMAIN Layers /\ Layers[p.at] = "line"
      /\ p.going \in {"logOut", "logUp"} /\ Runs(g)
      /\ StepMoves(g, 0) /\ entry' = [entry EXCEPT ![g] = NoEntry]
      /\ Quietly
      /\ \/ logged' = [logged EXCEPT ![g[1]] = Append(@, x)] /\ place'[g] = At(p.at - 1, back)
         \/ setup.writerPanics /\ logged' = logged /\ place'[g] = At(p.at - 1, "up")
  <2>1. LineDone(g)
    BY LineIsDone
  <2> QED
    BY <2>1 DEF LineDone
<1>2. response' = response
  BY <1>1 DEF Quietly
<1>3. /\ g[1] \in Requests /\ g = <<g[1], g[2]>> /\ setup.layers \in Seq(LayerKinds)
      /\ Layers = setup.layers /\ p.at \in Nat /\ log \in Seq(Entries(setup))
      /\ logged \in [Requests -> Seq(Entries(setup))]
      /\ entry \in [Routines -> Pending(setup)]
      /\ g[2] = "conn" => AccountOK(setup, g[1], p, resp, log, entry[g])
  BY OwnAccount
<1>4. \A h \in Routines : h # g => entry'[h] = entry[h]
  BY <1>1, <1>3
<1>5. /\ Back(p) /\ Waiting(p) /\ ~Waiting(place'[g])
      /\ place'[g].at = p.at - 1 /\ place'[g].going # "done"
  BY <1>1 DEF Back, Going, Waiting, At
<1>6. x.layer = p.at /\ x.status = entry[g].status /\ x.id = entry[g].id
  OBVIOUS
<1>7. ASSUME g[2] # "conn" PROVE Side(setup.layers, x.layer) # "conn"
  BY <1>1, <1>3, <1>6, <1>7 DEF Runs, Routine
<1>8. \/ logged'[g[1]] = Append(log, x) \/ logged'[g[1]] = log
  BY <1>1, <1>3
<1>9. \A r \in Requests : r # g[1] => logged'[r] = logged[r]
  BY <1>1, <1>3
<1> HIDE DEF p, resp, x, log, back
<1>10. ASSUME g[2] = "conn"
       PROVE  AccountOK(setup, g[1], place'[g], resp, logged'[g[1]], entry'[g])
  <2>1. AccountOK(setup, g[1], p, resp, log, entry[g])
    BY <1>3, <1>10
  <2>2. PendingOK(setup, p, resp, entry[g])
    BY <2>1 DEF AccountOK
  <2>3. ASSUME logged' = [logged EXCEPT ![g[1]] = Append(@, x)], place'[g] = At(p.at - 1, back)
        PROVE  AccountOK(setup, g[1], place'[g], resp, logged'[g[1]], entry'[g])
    <3>1. /\ p.going = "logOut" => place'[g].going = "out"
          /\ p.going = "logUp" => place'[g].going = "up"
      BY <2>3 DEF back, At
    <3>2. Carries(setup, p, place'[g], resp, resp)
      BY <1>1, <3>1, SameWay
    <3>3. setup.writerPanics \/ Agreed(place'[g], resp, x.status)
      BY <1>1, <1>5, <1>6, <2>2, <3>1 DEF PendingOK, Agreed
    <3>4. SameID(resp, x.id)
      BY <1>5, <1>6, <2>2 DEF PendingOK
    <3>5. logged'[g[1]] = Append(log, x)
      BY <1>3, <2>3 DEF log
    <3> QED
      BY <1>3, <1>5, <1>6, <2>1, <3>2, <3>3, <3>4, <3>5, AccountLogged
  <2>4. ASSUME setup.writerPanics, logged' = logged
        PROVE  AccountOK(setup, g[1], place'[g], resp, logged'[g[1]], entry'[g])
    <3>1. Carries(setup, p, place'[g], resp, resp)
      BY <2>4 DEF Carries
    <3>2. EntriesOK(setup, place'[g], resp, log)
      BY <1>3, <2>1, <3>1, EntriesCarried DEF AccountOK
    <3>3. Full(setup, g[1], place'[g], log)
      BY <2>4 DEF Full
    <3>4. AccountOK(setup, g[1], place'[g], resp, log, entry'[g])
      BY <1>5, <3>2, <3>3 DEF AccountOK, PendingOK
    <3> QED
      BY <2>4, <3>4 DEF log
  <2> QED
    BY <1>1, <2>3, <2>4
<1>11. ASSUME NEW r \in Requests, <<r, "conn">> # g
       PROVE  /\ entry'[<<r, "conn">>] = entry[<<r, "conn">>]
              /\ \/ logged'[r] = logged[r]
                 \/ Side(setup.layers, x.layer) # "conn" /\ logged'[r] = Append(logged[r], x)
  <2>1. r # g[1] \/ g[2] # "conn"
    BY <1>3, <1>11
  <2>2. entry'[<<r, "conn">>] = entry[<<r, "conn">>]
    BY <1>4, <1>11 DEF Routines
  <2>3. r = g[1] => logged'[r] = Append(logged[r], x) \/ logged'[r] = logged[r]
    BY <1>8 DEF log
  <2> QED
    BY <1>7, <1>9, <2>1, <2>2, <2>3
<1>12. g = <<g[1], "conn">> =>
          AccountOK(setup, g[1], place'[g], response'[g[1]], logged'[g[1]], entry'[g])
  <2>1. g = <<g[1], "conn">> => g[2] = "conn"
    OBVIOUS
  <2> QED
    BY <1>2, <1>10, <2>1 DEF resp
<1> QED
  BY <1>1, <1>2, <1>11, <1>12, AccountsAfter DEF StepMoves

\* Accounts is kept, kind by kind.
LEMMA AccountsStep ==
    ASSUME Structure, HeadersOK, BuffersOK, LoggedOnce, Wrappers, Accounts,
           NEW g \in Routines, Step(g) \/ Handler(g)
    PROVE  Accounts'
<1>1. /\ g[1] \in Requests /\ setup.layers \in Seq(LayerKinds) /\ Layers = setup.layers
      /\ place[g].at \in Nat
      /\ g[2] = "conn" /\ ~Back(place[g]) => \A i \in DOMAIN logged[g[1]] :
                                  Side(setup.layers, logged[g[1]][i].layer) # "conn"
  BY OwnAccount
<1>2. ASSUME LogsNothing, place[g].going = "in", ~Back(place'[g]), NEW n, StepMoves(g, n),
             Quietly \/ \E code, header : Writes(g, code, header)
      PROVE  Accounts'
  <2>1. ~Back(place[g])
    BY <1>2 DEF Back, Going
  <2>2. ASSUME g = <<g[1], "conn">>
        PROVE  AccountOK(setup, g[1], place'[g], response'[g[1]], logged[g[1]], entry[g])
    <3>1. g[2] = "conn"
      BY <2>2
    <3> QED
      BY <1>1, <1>2, <2>1, <3>1, AccountIn
  <2> QED
    BY <1>2, <2>2, AccountsAlone
<1>3. CASE Enters(g)
  <2>1. /\ LogsNothing /\ place[g].going = "in" /\ StepMoves(g, place[g].at + 1)
        /\ place'[g] \in {At(place[g].at + 1, "in"), At(place[g].at, "wait")}
        /\ Quietly \/ \E code, header : Writes(g, code, header)
    BY <1>3 DEF Enters
  <2>2. ~Back(place'[g])
    BY <2>1 DEF Back, Going, At
  <2> QED
    BY <1>2, <2>1, <2>2
<1>4. CASE TurnsBack(g)
  <2>1. /\ LogsNothing /\ place[g].going \in {"in", "wait"} /\ StepMoves(g, 0)
        /\ Quietly \/ \E code, header : Writes(g, code, header)
        /\ \A k \in DOMAIN Layers :
              k >= place[g].at /\ Layers[k] \in Logs /\ Side(Layers, k) = "conn" =>
                Refused(setup, g[1], k)
    BY <1>1, <1>4 DEF TurnsBack, Before, Refused
  <2>2. PICK how \in {"out", "up"} : place'[g] = At(place[g].at - 1, how)
    BY <1>4 DEF TurnsBack
  <2>3. ~Back(place[g])
    BY <2>1 DEF Back, Going
  <2>4. ASSUME g = <<g[1], "conn">>
        PROVE  AccountOK(setup, g[1], place'[g], response'[g[1]], logged[g[1]], entry[g])
    <3>1. g[2] = "conn"
      BY <2>4
    <3> QED
      BY <1>1, <2>1, <2>2, <2>3, <3>1, AccountTurns
  <2> QED
    BY <2>1, <2>4, AccountsAlone
<1>5. CASE Passes(g)
  BY <1>5, AccountsPassed
<1>6. CASE HandlerWrites(g)
  <2>1. place' = place /\ writer' = writer /\ LogsNothing
    BY <1>6 DEF HandlerWrites, LogsNothing, context
  <2>2. PICK code \in setup.codes : WriteHeader(W(g), code)
    BY <1>6 DEF HandlerWrites
  <2>3. code \in Nat
    BY SetupFacts DEF Structure, TypeOK
  <2>4. Writes(g, code, HeaderOf(W(g)))
    BY <1>6, <2>2, <2>3, HandlerRuns DEF HandlerWrites, Writes, WriteHeader, Write
  <2>5. place[g].going = "in" /\ ~Back(place'[g])
    BY <1>6, <2>1 DEF HandlerWrites, InHandler, At, Back, Going
  <2>6. StepMoves(g, 0)
    BY <2>1, NoStep
  <2> QED
    BY <1>2, <2>1, <2>4, <2>5, <2>6
<1>7. CASE EnterLog(g)
  <2>1. /\ LogsNothing /\ place[g].going = "in" /\ StepMoves(g, place[g].at + 1)
        /\ place'[g] = At(place[g].at + 1, "in")
    BY <1>7, EnterLogMoves
  <2>2. ~Back(place'[g]) /\ ~Back(place[g])
    BY <2>1 DEF Back, Going, At
  <2>3. response' = response
    BY <1>7 DEF EnterLog
  <2>4. ASSUME g = <<g[1], "conn">>
        PROVE  AccountOK(setup, g[1], place'[g], response'[g[1]], logged[g[1]], entry[g])
    <3>1. g[2] = "conn"
      BY <2>4
    <3> QED
      BY <1>1, <2>2, <3>1, AccountIn
  <2>5. /\ setup' = setup /\ entry' = entry /\ logged' = logged
        /\ \A r \in Requests : <<r, "conn">> # g => place'[<<r, "conn">>] = place[<<r, "conn">>]
    BY <2>1 DEF LogsNothing, StepMoves
  <2> QED
    BY <2>3, <2>4, <2>5, AccountsAfter
<1>8. CASE LogAccess(g)
  BY <1>8, AccountsAccessed
<1>9. CASE FormatLine(g)
  BY <1>9, AccountsFormatted
<1>10. CASE WriteLine(g) \/ WriterPanics(g)
  BY <1>10, AccountsWritten
<1>11. CASE HandlerFlushes(g)
  <2>1. /\ UNCHANGED <<context, place, entry, logged>> /\ g = <<g[1], "conn">>
        /\ response' = [r \in Requests |-> IF r = g[1] THEN Flushed(response[r]) ELSE response[r]]
    BY <1>11, FlushIs
  <2>2. g[2] = "conn" /\ ~Back(place[g]) /\ ~Back(place'[g])
    BY <1>11, <2>1 DEF HandlerFlushes, InHandler, At, Back, Going
  <2>3. AccountOK(setup, g[1], place'[g], response'[g[1]], logged[g[1]], entry[g])
    BY <1>1, <2>2, AccountIn
  <2>4. /\ setup' = setup /\ entry' = entry /\ logged' = logged /\ place' = place
        /\ \A r \in Requests : <<r, "conn">> # g => response'[r] = response[r]
    BY <2>1 DEF context
  <2> QED
    BY <2>3, <2>4, AccountsAfter
<1> QED
  BY <1>3, <1>4, <1>5, <1>6, <1>7, <1>8, <1>9, <1>10, <1>11, StepKinds

\* So do arrivals and the ends of requests.
LEMMA AccountsNext ==
    ASSUME Structure, HeadersOK, BuffersOK, LoggedOnce, Wrappers, Accounts, [Next]_vars
    PROVE  Accounts'
<1>1. ASSUME NEW r \in Requests, Arrive(r) PROVE Accounts'
  <2> DEFINE g == <<r, "conn">>
  <2>1. /\ LogsNothing /\ response' = response
        /\ g \in Routines /\ g[1] = r /\ place[g] = At(0, "absent")
        /\ Moved(place, place', g, At(1, "in"))
    BY <1>1, ArriveIs DEF Arrive, LogsNothing, context
  <2>2. place'[g] = At(1, "in") /\ \A h \in Routines : h # g => place'[h] = place[h]
    BY <2>1 DEF Moved, Structure, RoutinesOK, IsPlaces
  <2>3. \A q \in Requests : <<q, "conn">> # g => place'[<<q, "conn">>] = place[<<q, "conn">>]
    BY <2>2 DEF Routines
  <2>4. ~Back(place[g]) /\ ~Back(place'[g])
    BY <2>1, <2>2 DEF Back, Going, At
  <2>5. \A i \in DOMAIN logged[r] : Side(setup.layers, logged[r][i].layer) # "conn"
    BY <2>4, NoEntriesYet
  <2> HIDE DEF g
  <2>6. AccountOK(setup, g[1], place'[g], response'[g[1]], logged'[g[1]], entry'[g])
    BY <2>1, <2>4, <2>5, AccountIn DEF LogsNothing
  <2> QED
    BY <2>1, <2>3, <2>6, AccountsAfter DEF LogsNothing
<1>2. ASSUME NEW r \in Requests, Finish(r) PROVE Accounts'
  <2> DEFINE g    == <<r, "conn">>
             p    == place[g]
             resp == response[r]
  <2>1. /\ LogsNothing /\ p.at = 0 /\ p.going \in {"out", "up"}
        /\ response' = IF p.going = "up" THEN response
                       ELSE [response EXCEPT ![r] = Committed(@, 200)]
    BY <1>2 DEF Finish, LogsNothing, context
  <2>2. /\ StepMoves(g, 0)
        /\ place'[g] = At(0, IF p.going = "out" THEN "done" ELSE "aborted")
    BY <1>2, FinishStep
  <2>3. g[1] = r /\ g[2] = "conn" /\ g \in Routines
    BY DEF Routines
  <2>4. /\ setup.layers \in Seq(LayerKinds)
        /\ resp \in Responses(setup) /\ logged[r] \in Seq(Entries(setup))
        /\ AccountOK(setup, r, p, resp, logged[r], entry[g])
    BY <2>3, OwnAccount
  <2>5. response'[r] = (IF p.going = "up" THEN resp ELSE Committed(resp, 200))
        /\ \A q \in Requests : q # r => response'[q] = response[q]
    BY <2>1 DEF HeadersOK
  <2>6. \A q \in Requests : <<q, "conn">> # g => q # r
    OBVIOUS
  <2>7. /\ Back(p) /\ ~Waiting(place'[g]) /\ place'[g].at = p.at
        /\ place'[g].going = IF p.going = "out" THEN "done" ELSE "aborted"
    BY <2>1, <2>2 DEF Back, Going, Waiting, At
  <2> HIDE DEF g, p, resp
  <2>8. Carries(setup, p, place'[g], resp, response'[r])
        /\ (place'[g].going = "done" => response'[r].status # 0)
    <3>1. CASE p.going = "up"
      <4>1. Carries(setup, p, place'[g], resp, resp)
        BY <2>7, <3>1, SameWay
      <4> QED
        BY <2>5, <2>7, <3>1, <4>1
    <3>2. CASE p.going = "out"
      <4>1. Carries(setup, p, place'[g], resp, Committed(resp, 200))
            /\ Committed(resp, 200).status # 0
        BY ZenonT(40), <2>4, <3>2, ReturnEnds
      <4> QED
        BY <2>5, <3>2, <4>1
    <3> QED
      BY <2>1, <3>1, <3>2
  <2>12. EntriesOK(setup, place'[g], response'[r], logged[r])
    BY <2>4, <2>8, EntriesCarried DEF AccountOK
  <2>9. AccountOK(setup, r, place'[g], response'[r], logged[r], entry[g])
    BY <2>1, <2>4, <2>7, <2>8, <2>12, AccountGoesOn
  <2>10. AccountOK(setup, g[1], place'[g], response'[g[1]], logged'[g[1]], entry'[g])
    BY <2>1, <2>3, <2>9 DEF LogsNothing
  <2>11. \A q \in Requests : <<q, "conn">> # g =>
            /\ place'[<<q, "conn">>] = place[<<q, "conn">>] /\ response'[q] = response[q]
            /\ entry'[<<q, "conn">>] = entry[<<q, "conn">>] /\ logged'[q] = logged[q]
    BY <2>1, <2>2, <2>5, <2>6 DEF StepMoves, LogsNothing
  <2> QED
    BY <2>1, <2>3, <2>10, <2>11, AccountsAfter DEF LogsNothing
<1>3. ASSUME UNCHANGED vars PROVE Accounts'
  <2>1. UNCHANGED <<setup, place, response, logged, entry>>
    BY <1>3 DEF vars, context
  <2> QED
    BY <2>1, ZenonT(30) DEF Accounts
<1> QED
  BY <1>1, <1>2, <1>3, AccountsStep DEF Next, Quiet

\* At first there are no entries.
LEMMA AccountsInit ==
    ASSUME Init
    PROVE  Accounts
<1> SUFFICES ASSUME NEW r \in Requests
             PROVE  AccountOK(setup, r, place[<<r, "conn">>], response[r], logged[r], entry[<<r, "conn">>])
  BY Zenon DEF Accounts
<1>1. place[<<r, "conn">>] = At(0, "absent") /\ logged[r] = <<>>
  BY DEF Init, Routines
<1>2. ~Back(place[<<r, "conn">>]) /\ DOMAIN logged[r] = {}
  BY <1>1 DEF Back, Going, At
<1> QED
  BY <1>2, AccountIn

\* The entries of layer k
EntriesAt(log, k) == {i \in DOMAIN log : log[i].layer = k}

\* LoggedAsSent follows: the entries of a layer are one or none,
LEMMA OneEntry ==
    ASSUME NEW ls, NEW pl, NEW r, NEW log, OnceOK(ls, pl, r, log), NEW k
    PROVE  Cardinality(EntriesAt(log, k)) <= 1
<1> DEFINE E == EntriesAt(log, k)
<1>1. CASE E = {}
  BY <1>1, FS_EmptySet
<1>2. CASE E # {}
  <2>1. PICK i \in E : TRUE
    BY <1>2
  <2>2. \A j \in E : j = i
    BY <2>1 DEF OnceOK, EntriesAt
  <2>3. E = {i}
    BY <2>1, <2>2
  <2> HIDE DEF E
  <2>4. Cardinality(E) = 1
    BY <2>3, FS_Singleton
  <2> QED
    BY <2>4 DEF E
<1> QED
  BY <1>1, <1>2

\* and when the request has ended they are there and say what was sent.
LEMMA AsItWasSent ==
    ASSUME Structure, LoggedOnce, Accounts, NEW r \in Requests, Ended(r), ~setup.writerPanics,
           NEW k \in Reached(r, Logs), ~Before("timeout", k)
    PROVE  /\ HasEntry(logged[r], k)
           /\ \A i \in DOMAIN logged[r] : logged[r][i].layer = k =>
                 /\ ~Informational(logged[r][i].status) /\ ~response[r].flushed =>
                        \/ logged[r][i].status =
                              IF response[r].status = 0 THEN 500 ELSE response[r].status
                        \/ logged[r][i].status = 500 /\ Overruled(setup, k)
                 /\ Layers[k] = "line" /\ response[r].sent.id # NoID =>
                        logged[r][i].id = response[r].sent.id
<1> DEFINE p == place[<<r, "conn">>]
<1>1. p.going \in {"done", "aborted"} /\ p.at = 0
  <2>1. <<r, "conn">> \in Routines
    BY DEF Routines
  <2> QED
    BY <2>1 DEF Ended, Structure, RoutinesOK, RoutineOK
<1>2. AccountOK(setup, r, p, response[r], logged[r], entry[<<r, "conn">>])
  BY DEF Accounts
<1>3. /\ k \in DOMAIN setup.layers /\ setup.layers[k] \in Logs /\ Layers = setup.layers
      /\ ~Refused(setup, r, k)
  BY DEF Reached, Before, Refused, Layers
<1>4. k \in Nat /\ k > 0
  BY SetupFacts DEF Structure, TypeOK, Reached
<1>5. Side(setup.layers, k) = "conn"
  BY DEF Before, Side, Layers
<1> HIDE DEF p
<1>6. HasEntry(logged[r], k)
  BY <1>1, <1>2, <1>3, <1>4, <1>5 DEF AccountOK, Full, Back
<1>7. ASSUME NEW i \in DOMAIN logged[r], logged[r][i].layer = k
      PROVE  /\ ~Informational(logged[r][i].status) /\ ~response[r].flushed =>
                    \/ logged[r][i].status =
                          IF response[r].status = 0 THEN 500 ELSE response[r].status
                    \/ logged[r][i].status = 500 /\ Overruled(setup, k)
             /\ Layers[k] = "line" /\ response[r].sent.id # NoID =>
                    logged[r][i].id = response[r].sent.id
  <2>1. logged[r][i].status \in Nat \ {0}
    <3>1. logged[r][i] \in Entries(setup)
      BY EntryLayers DEF LoggedOnce
    <3> QED
      BY <3>1 DEF Entries
  <2>2. /\ EntryOK(setup, p, response[r], logged[r][i])
        /\ setup.layers[k] = "line" => SameID(response[r], logged[r][i].id)
    BY <1>2, <1>5, <1>7 DEF AccountOK, EntriesOK
  <2> QED
    BY <1>1, <1>3, <1>7, <2>1, <2>2 DEF EntryOK, Agreed, SameID
<1> QED
  BY <1>6, <1>7

\* LoggedAsSent: each layer logs a request once, with the id that was sent, and the
\* status, unless it was flushed, informational or overruled.
LEMMA LogsAreRight ==
    ASSUME Structure, LoggedOnce, Accounts
    PROVE  LoggedAsSent
<1> DEFINE E(r, k) == {i \in DOMAIN logged[r] : logged[r][i].layer = k}
           Told(r) == IF response[r].status = 0 THEN 500 ELSE response[r].status
<1> SUFFICES ASSUME NEW r \in DOMAIN setup.sent
             PROVE  /\ \A k \in DOMAIN Layers : Cardinality(E(r, k)) <= 1
                    /\ Ended(r) /\ ~setup.writerPanics =>
                         \A k \in Reached(r, {"access", "line"}) : ~Before("timeout", k) =>
                            /\ E(r, k) # {}
                            /\ \A i \in E(r, k) :
                                  /\ ~Informational(logged[r][i].status) /\ ~response[r].flushed =>
                                        \/ logged[r][i].status = Told(r)
                                        \/ logged[r][i].status = 500 /\ Overruled(setup, k)
                                  /\ Layers[k] = "line" /\ response[r].sent.id # NoID =>
                                        logged[r][i].id = response[r].sent.id
  BY DEF LoggedAsSent
<1>1. r \in Requests
  BY SetupFacts DEF Structure, TypeOK
<1>2. \A k \in DOMAIN Layers : Cardinality(E(r, k)) <= 1
  <2>1. OnceOK(Layers, place, r, logged[r])
    BY <1>1 DEF LoggedOnce
  <2>2. ASSUME NEW k
        PROVE  Cardinality(E(r, k)) <= 1
    <3>1. Cardinality(EntriesAt(logged[r], k)) <= 1
      BY <2>1, OneEntry
    <3> QED
      BY <3>1 DEF EntriesAt
  <2> QED
    BY <2>2
<1>3. ASSUME Ended(r), ~setup.writerPanics, NEW k \in Reached(r, {"access", "line"}),
             ~Before("timeout", k)
      PROVE  /\ E(r, k) # {}
             /\ \A i \in E(r, k) :
                   /\ ~Informational(logged[r][i].status) /\ ~response[r].flushed =>
                         \/ logged[r][i].status = Told(r)
                         \/ logged[r][i].status = 500 /\ Overruled(setup, k)
                   /\ Layers[k] = "line" /\ response[r].sent.id # NoID =>
                         logged[r][i].id = response[r].sent.id
  <2>1. k \in Reached(r, Logs)
    BY <1>3 DEF Logs
  <2>2. /\ HasEntry(logged[r], k)
        /\ \A i \in DOMAIN logged[r] : logged[r][i].layer = k =>
              /\ ~Informational(logged[r][i].status) /\ ~response[r].flushed =>
                    \/ logged[r][i].status = Told(r)
                    \/ logged[r][i].status = 500 /\ Overruled(setup, k)
              /\ Layers[k] = "line" /\ response[r].sent.id # NoID =>
                     logged[r][i].id = response[r].sent.id
    BY <1>1, <1>3, <2>1, AsItWasSent
  <2> QED
    BY <2>2 DEF HasEntry
<1> QED
  BY <1>2, <1>3

-----------------------------------------------------------------------------
(* The theorems *)

IInv == Structure /\ HeadersOK /\ LoggedOnce /\ Wrappers /\ Accounts

\* The inductive invariant: where goroutines are and what their writers wrap, the
\* headers, and the logs' entries, writers and accounts.
THEOREM Inductive == Spec => []IInv
<1>1. Init => IInv
  BY StructureInit, HeadersInit, LoggedOnceInit, WrappersInit, AccountsInit DEF IInv
<1>2. IInv /\ [Next]_vars => IInv'
  <2>1. HeadersOK => BuffersOK
    BY DEF HeadersOK, BuffersOK, Buffers
  <2> QED
    BY <2>1, StructureNext, HeadersNext, LoggedOnceNext, WrappersNext, AccountsNext DEF IInv
<1> QED
  BY <1>1, <1>2, PTL DEF Spec

\* A handler never reads the path values of another request, in chains of any kind;
\* and it takes as its client the last hop that is not a trusted proxy, if the peer
\* is not trusted or the proxies keep to one line of X-Forwarded-For.
THEOREM SeesItsRequest == Spec => []HandlerSeesItsRequest
<1>1. IInv => HandlerSeesItsRequest
  BY SeesOwn DEF IInv
<1> QED
  BY Inductive, <1>1, PTL

\* No response lets in an origin that CORS's options do not name.
THEOREM OnlyAllowedOrigins == Spec => []OriginsAreAllowed
<1>1. IInv => OriginsAreAllowed
  BY OriginsOK DEF IInv
<1> QED
  BY Inductive, <1>1, PTL

\* AccessLog and Logger log each request once, with the id that the client gets, and
\* its status, whatever a Handler of Recovery and a PanicHandler do: but for a 500
\* that one of them further out has overruled, informational statuses and Flush.
THEOREM LogsAsSent == Spec => []LoggedAsSent
<1>1. IInv => LoggedAsSent
  BY LogsAreRight DEF IInv
<1> QED
  BY Inductive, <1>1, PTL
=============================================================================
