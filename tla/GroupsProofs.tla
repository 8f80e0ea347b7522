----------------------------- MODULE GroupsProofs ------------------------------
(***************************************************************************)
(* Middleware lists of module Groups, for any programs: whatever slices    *)
(* share, a list holds what was asked for.                                 *)
(***************************************************************************)
EXTENDS Groups, OperatorProofs

Heaps == Seq(Seq(Middleware))

\* A slice lies within its array.
WithinArray(h, s) ==
    /\ s.arr \in 0 .. Len(h) /\ s.len \in Nat
    /\ IF s.arr = 0 THEN s.len = 0 ELSE s.len <= Len(h[s.arr])

IsSequence(s) == s \in Seq({s[i] : i \in DOMAIN s})

IsSlice(s)     == s = [arr |-> s.arr, len |-> s.len]
IsGroup(group) ==
    group = [host |-> group.host, prefix |-> group.prefix, middlewares |-> group.middlewares,
             asked |-> group.asked, under |-> group.under]

SlicesOK ==
    /\ program \in Programs
    /\ heap \in Heaps /\ globals \in Seq(Middleware)
    /\ IsSlice(common) /\ WithinArray(heap, common) /\ common.arr # 0 /\ common.len # 0
    /\ IsSlice(middlewares) /\ WithinArray(heap, middlewares)

GroupsOK ==
    /\ IsSequence(groups)
    /\ \A g \in DOMAIN groups :
          /\ IsGroup(groups[g]) /\ groups[g].asked \in Seq(Middleware)
          /\ IsSlice(groups[g].middlewares) /\ WithinArray(heap, groups[g].middlewares)

\* No two lists share an array, nor a list and the program's own slice.
Separate ==
    /\ middlewares.arr # common.arr
    /\ \A g \in DOMAIN groups :
          LET arr == groups[g].middlewares.arr
          IN  /\ arr # common.arr /\ arr # 0 /\ arr # middlewares.arr
              /\ \A h \in DOMAIN groups : groups[h].middlewares.arr = arr => h = g

IInv == SlicesOK /\ GroupsOK /\ Separate /\ MiddlewaresAsAsked

-----------------------------------------------------------------------------
(* Slices *)

\* The elements of a slice are those of the first part of its array.
LEMMA ElementsOf ==
    ASSUME NEW h \in Heaps, NEW s, WithinArray(h, s)
    PROVE  /\ Elements(h, s) \in Seq(Middleware) /\ Len(Elements(h, s)) = s.len
           /\ \A i \in 1 .. s.len : Elements(h, s)[i] = h[s.arr][i]
<1>1. CASE s.arr = 0
  BY <1>1 DEF WithinArray, Elements
<1>2. CASE s.arr # 0
  <2> DEFINE a == h[s.arr]
  <2>1. a \in Seq(Middleware) /\ s.len \in Nat /\ s.len <= Len(a)
    BY <1>2 DEF WithinArray, Heaps
  <2>2. Elements(h, s) = SubSeq(a, 1, s.len)
    BY <1>2 DEF Elements
  <2> HIDE DEF a
  <2>3. \A i \in 1 .. s.len : a[i] \in Middleware
    BY <2>1
  <2>4. /\ Elements(h, s) \in Seq(Middleware) /\ Len(Elements(h, s)) = s.len
        /\ \A i \in 1 .. s.len : Elements(h, s)[i] = a[i]
    BY <2>1, <2>2, <2>3, SubSeqProperties
  <2> QED
    BY <2>4 DEF a
<1> QED
  BY <1>1, <1>2

\* A slice whose array nobody writes to keeps its elements.
LEMMA Kept ==
    ASSUME NEW h \in Heaps, NEW after \in Heaps, Len(h) <= Len(after),
           NEW s, WithinArray(h, s), s.arr # 0 => after[s.arr] = h[s.arr]
    PROVE  WithinArray(after, s) /\ Elements(after, s) = Elements(h, s)
<1>1. Len(h) \in Nat /\ Len(after) \in Nat
  BY DEF Heaps
<1> QED
  BY <1>1 DEF WithinArray, Elements

\* A new array holds the values it is made for, and no array before it changes.
LEMMA NewArray ==
    ASSUME NEW h \in Heaps, NEW values \in Seq(Middleware), NEW spare \in Nat,
           NEW made, made = Made(h, values, spare)
    PROVE  /\ made.heap \in Heaps /\ Len(made.heap) = Len(h) + 1
           /\ \A i \in 1 .. Len(h) : made.heap[i] = h[i]
           /\ made.slice = [arr |-> Len(h) + 1, len |-> Len(values)]
           /\ WithinArray(made.heap, made.slice)
           /\ Elements(made.heap, made.slice) = values
<1> DEFINE array == values \o Room(spare)
           slice == [arr |-> Len(h) + 1, len |-> Len(values)]
<1>1. Room(spare) \in Seq(Middleware)
  BY MiddlewareAssumption DEF Room
<1>2. /\ array \in Seq(Middleware) /\ Len(values) <= Len(array)
      /\ \A i \in 1 .. Len(values) : array[i] = values[i]
  BY <1>1, ConcatProperties
<1>3. made.heap = Append(h, array) /\ made.slice = slice
  BY DEF Made
<1> HIDE DEF array
<1>4. /\ made.heap \in Heaps /\ Len(made.heap) = Len(h) + 1
      /\ \A i \in 1 .. Len(h) : made.heap[i] = h[i]
      /\ made.heap[Len(h) + 1] = array
  BY <1>2, <1>3 DEF Heaps
<1>5. WithinArray(made.heap, made.slice)
  BY <1>2, <1>3, <1>4 DEF WithinArray, Heaps
<1>6. Elements(made.heap, made.slice) = values
  <2>1. /\ Elements(made.heap, made.slice) \in Seq(Middleware)
        /\ Len(Elements(made.heap, made.slice)) = Len(values)
        /\ \A i \in 1 .. Len(values) : Elements(made.heap, made.slice)[i] = array[i]
    <3>1. made.slice.arr = Len(h) + 1 /\ made.slice.len = Len(values)
      BY <1>3
    <3> QED
      BY <1>4, <1>5, <3>1, ElementsOf
  <2> QED
    BY <1>2, <2>1, SeqEqual
<1> QED
  BY <1>3, <1>4, <1>5, <1>6

\* append: the slice has its elements and the new ones, in its own array or in a
\* new one, and no other array changes.
LEMMA AppendedTo ==
    ASSUME NEW h \in Heaps, NEW s, IsSlice(s), WithinArray(h, s),
           NEW values \in Seq(Middleware), NEW spare \in Nat,
           NEW after, after = Appended(h, s, values, spare)
    PROVE  /\ after.heap \in Heaps /\ Len(h) <= Len(after.heap)
           /\ \A i \in 1 .. Len(h) : i # s.arr => after.heap[i] = h[i]
           /\ IsSlice(after.slice) /\ WithinArray(after.heap, after.slice)
           /\ after.slice.arr = s.arr \/ after.slice.arr > Len(h)
           /\ after.slice.len = s.len + Len(values)
           /\ Elements(after.heap, after.slice) = Elements(h, s) \o values
<1> DEFINE old == Elements(h, s)
           len == s.len + Len(values)
<1>0. /\ old \in Seq(Middleware) /\ Len(old) = s.len /\ s.len \in Nat
      /\ Len(h) \in Nat /\ Len(values) \in Nat /\ len \in Nat
  BY ElementsOf DEF WithinArray, Heaps
<1>1. CASE values = <<>>
  <2>1. after.heap = h /\ after.slice = s /\ Len(values) = 0
    BY <1>1 DEF Appended
  <2>2. old \o values = old
    BY <1>0, <1>1, ConcatEmptySeq
  <2> QED
    BY <1>0, <2>1, <2>2
<1>2. CASE values # <<>> /\ len > Cap(h, s)
  <2> DEFINE all == old \o values
  <2>1. after = Made(h, all, spare) /\ all \in Seq(Middleware) /\ Len(all) = len
    BY ZenonT(40), <1>0, <1>2, ConcatProperties DEF Appended
  <2> HIDE DEF all, len
  <2>2. /\ after.heap \in Heaps /\ Len(after.heap) = Len(h) + 1
        /\ \A i \in 1 .. Len(h) : after.heap[i] = h[i]
        /\ after.slice = [arr |-> Len(h) + 1, len |-> Len(all)]
        /\ WithinArray(after.heap, after.slice)
        /\ Elements(after.heap, after.slice) = all
    BY <2>1, NewArray
  <2>3. IsSlice(after.slice) /\ after.slice.len = len /\ after.slice.arr > Len(h)
    BY <1>0, <2>1, <2>2 DEF IsSlice
  <2> QED
    BY SMTT(30), <1>0, <2>2, <2>3 DEF all, len
<1>3. CASE values # <<>> /\ ~(len > Cap(h, s))
  <2> DEFINE a     == h[s.arr]
             front == SubSeq(a, 1, s.len)
             both  == front \o values
             back  == SubSeq(a, len + 1, Len(a))
             new   == both \o back
  <2>1. Len(values) > 0
    BY <1>0, <1>3, EmptySeq
  <2>2. s.arr \in 1 .. Len(h) /\ len <= Len(a) /\ a \in Seq(Middleware) /\ old = front
    BY SMTT(30), <1>0, <1>3, <2>1 DEF WithinArray, Cap, Heaps, Elements
  <2>3. /\ after.heap = [h EXCEPT ![s.arr] = new]
        /\ after.slice = [s EXCEPT !.len = len]
    BY <1>3, <2>2 DEF Appended
  <2>4. /\ front \in Seq(Middleware) /\ both \in Seq(Middleware) /\ Len(both) = len
    BY <1>0, <2>2, ConcatProperties
  <2>5. back \in Seq(Middleware) /\ Len(back) = Len(a) - len
    <3>1. \A i \in len + 1 .. Len(a) : a[i] \in Middleware
      BY SMTT(30), <1>0, <2>2
    <3>2. len + 1 \in Int /\ Len(a) \in Int
      BY <1>0, <2>2
    <3>3. /\ back \in Seq(Middleware)
          /\ Len(back) = IF len + 1 <= Len(a) THEN Len(a) - (len + 1) + 1 ELSE 0
      BY <3>1, <3>2, SubSeqProperties
    <3> HIDE DEF a, back, len
    <3> QED
      BY <1>0, <2>2, <3>2, <3>3
  <2> HIDE DEF a, len, front, back, both
  <2>6. /\ new \in Seq(Middleware) /\ Len(new) = Len(a)
        /\ \A i \in 1 .. len : new[i] = both[i]
    <3>1. /\ new \in Seq(Middleware) /\ Len(new) = Len(both) + Len(back)
          /\ \A i \in 1 .. Len(both) + Len(back) :
                new[i] = IF i <= Len(both) THEN both[i] ELSE back[i - Len(both)]
      BY <2>4, <2>5, ConcatProperties
    <3>2. Len(both) + Len(back) = Len(a) /\ len <= Len(a) /\ len \in Nat /\ Len(a) \in Nat
      BY <1>0, <2>2, <2>4, <2>5
    <3> QED
      BY <2>4, <3>1, <3>2
  <2> HIDE DEF new
  <2>7. /\ after.heap \in Heaps /\ Len(after.heap) = Len(h)
        /\ \A i \in 1 .. Len(h) : i # s.arr => after.heap[i] = h[i]
        /\ after.heap[s.arr] = new
    BY <2>2, <2>3, <2>6, ExceptSeq DEF Heaps
  <2>8. after.slice = [arr |-> s.arr, len |-> len]
    BY <2>3 DEF IsSlice
  <2>9. WithinArray(after.heap, after.slice)
    BY <1>0, <2>2, <2>6, <2>7, <2>8 DEF WithinArray
  <2>10. Elements(after.heap, after.slice) = both
    <3>1. /\ Elements(after.heap, after.slice) \in Seq(Middleware)
          /\ Len(Elements(after.heap, after.slice)) = len
          /\ \A i \in 1 .. len : Elements(after.heap, after.slice)[i] = new[i]
      BY <2>7, <2>8, <2>9, ElementsOf
    <3> QED
      BY <2>4, <2>6, <3>1, SeqEqual
  <2>11. both = old \o values
    BY <2>2 DEF both
  <2>12. IsSlice(after.slice) /\ after.slice.len = len /\ after.slice.arr = s.arr
    BY <2>8 DEF IsSlice
  <2> QED
    BY <1>0, <2>7, <2>9, <2>10, <2>11, <2>12 DEF len
<1> QED
  BY <1>1, <1>2, <1>3

-----------------------------------------------------------------------------
(* Steps *)

\* What a call is passed is a list of middlewares.
LEMMA ArgumentType ==
    ASSUME IInv, NEW arg \in Arguments
    PROVE  Wanted(arg) \in Seq(Middleware) /\ (arg # Common => arg \in Seq(Middleware))
<1>1. \A list \in program.lists : list \in Seq(Middleware)
  BY ProgramsAssumption DEF IInv, SlicesOK
<1> QED
  BY <1>1, ElementsOf DEF IInv, SlicesOK, Arguments, Wanted

\* The room a call leaves in a new array is a number.
LEMMA SpareType ==
    ASSUME IInv, NEW spare \in program.spares
    PROVE  spare \in Nat
BY ProgramsAssumption DEF IInv, SlicesOK

\* A call that only makes arrays leaves every list as it is.
LEMMA Untouched ==
    ASSUME IInv, heap' \in Heaps, Len(heap) <= Len(heap'),
           \A i \in 1 .. Len(heap) : heap'[i] = heap[i],
           NEW s, WithinArray(heap, s)
    PROVE  WithinArray(heap', s) /\ Elements(heap', s) = Elements(heap, s)
<1>1. heap \in Heaps /\ (s.arr # 0 => s.arr \in 1 .. Len(heap))
  BY DEF IInv, SlicesOK, WithinArray, Heaps
<1> QED
  BY <1>1, Kept

\* Router.Use appends to the router's own array.
LEMMA UseStep ==
    ASSUME IInv, NEW arg \in Arguments, NEW spare \in program.spares, Use(arg, spare)
    PROVE  IInv'
<1> DEFINE after == Appended(heap, middlewares, Wanted(arg), spare)
           values == Wanted(arg)
<1>1. /\ heap' = after.heap /\ middlewares' = after.slice /\ globals' = globals \o values
      /\ routes = {} /\ routes' = {} /\ UNCHANGED <<program, common, groups>>
  BY DEF Use, Call
<1>2. values \in Seq(Middleware) /\ spare \in Nat
  BY ArgumentType, SpareType
<1> HIDE DEF values
<1>3. /\ heap' \in Heaps /\ Len(heap) <= Len(heap')
      /\ \A i \in 1 .. Len(heap) : i # middlewares.arr => heap'[i] = heap[i]
      /\ IsSlice(middlewares') /\ WithinArray(heap', middlewares')
      /\ middlewares'.arr = middlewares.arr \/ middlewares'.arr > Len(heap)
      /\ Elements(heap', middlewares') = Elements(heap, middlewares) \o values
  <2>1. after = Appended(heap, middlewares, values, spare)
    BY DEF values
  <2> HIDE DEF after
  <2> QED
    BY SMTT(30), <1>1, <1>2, <2>1, AppendedTo DEF IInv, SlicesOK
<1> HIDE DEF after
<1>4. ASSUME NEW s, WithinArray(heap, s), s.arr # 0, s.arr # middlewares.arr
      PROVE  /\ WithinArray(heap', s) /\ Elements(heap', s) = Elements(heap, s)
             /\ s.arr # middlewares'.arr
  <2>1. heap \in Heaps /\ s.arr \in 1 .. Len(heap) /\ Len(heap) \in Nat
    BY <1>4 DEF IInv, SlicesOK, WithinArray, Heaps
  <2> QED
    BY <1>3, <1>4, <2>1, Kept
<1>5. globals' \in Seq(Middleware)
  BY <1>1, <1>2, ConcatProperties DEF IInv, SlicesOK
<1>6. SlicesOK'
  BY <1>1, <1>3, <1>4, <1>5 DEF IInv, SlicesOK, Separate
<1>7. GroupsOK' /\ Separate'
  BY <1>1, <1>4 DEF IInv, GroupsOK, SlicesOK, Separate
<1>8. MiddlewaresAsAsked'
  BY <1>1, <1>3, <1>4 DEF IInv, MiddlewaresAsAsked, GroupsOK, Separate
<1> QED
  BY <1>6, <1>7, <1>8 DEF IInv

\* A group is made with a new array of its own.
LEMMA GroupAdded ==
    ASSUME IInv, heap' \in Heaps, Len(heap) <= Len(heap'),
           \A i \in 1 .. Len(heap) : heap'[i] = heap[i],
           NEW group, IsGroup(group), groups' = Append(groups, group),
           IsSlice(group.middlewares), WithinArray(heap', group.middlewares),
           group.middlewares.arr > Len(heap), group.asked \in Seq(Middleware),
           Elements(heap', group.middlewares) = group.asked,
           UNCHANGED <<program, common, middlewares, routes, globals>>
    PROVE  IInv'
<1> DEFINE N == Len(groups)
           Old == {groups[g] : g \in DOMAIN groups}
<1>1. groups \in Seq(Old) /\ DOMAIN groups = 1 .. N /\ N \in Nat
  BY DEF IInv, GroupsOK, IsSequence
<1>2. /\ groups' \in Seq(Old \cup {group}) /\ DOMAIN groups' = 1 .. N + 1
      /\ \A g \in 1 .. N : groups'[g] = groups[g]
      /\ groups'[N + 1] = group
  <2>1. groups \in Seq(Old \cup {group}) /\ group \in Old \cup {group}
    BY <1>1, SeqMonotonic
  <2> HIDE DEF Old
  <2> QED
    BY <1>1, <2>1
<1>3. IsSequence(groups')
  <2>1. Old \cup {group} = {groups'[g] : g \in DOMAIN groups'}
    BY <1>1, <1>2
  <2> QED
    BY <1>2, <2>1 DEF IsSequence
<1>4. \A s : WithinArray(heap, s) =>
               /\ WithinArray(heap', s) /\ Elements(heap', s) = Elements(heap, s)
               /\ s.arr # group.middlewares.arr
  <2> SUFFICES ASSUME NEW s, WithinArray(heap, s)
               PROVE  /\ WithinArray(heap', s) /\ Elements(heap', s) = Elements(heap, s)
                      /\ s.arr # group.middlewares.arr
    OBVIOUS
  <2>1. s.arr <= Len(heap) /\ Len(heap) \in Nat /\ group.middlewares.arr \in Nat
    BY SMTT(30) DEF WithinArray, IInv, SlicesOK, Heaps
  <2> QED
    BY <2>1, Untouched
<1> HIDE DEF N, Old
<1>5. SlicesOK'
  BY <1>4 DEF IInv, SlicesOK
<1>6. ASSUME NEW g \in DOMAIN groups'
      PROVE  \/ g \in DOMAIN groups /\ groups'[g] = groups[g]
             \/ g \notin DOMAIN groups /\ g = N + 1 /\ groups'[g] = group
  BY <1>1, <1>2
<1>7. GroupsOK'
  BY <1>3, <1>4, <1>6 DEF IInv, GroupsOK
<1>8. Separate'
  <2>1. WithinArray(heap, common) /\ WithinArray(heap, middlewares)
        /\ \A g \in DOMAIN groups : WithinArray(heap, groups[g].middlewares)
    BY DEF IInv, SlicesOK, GroupsOK
  <2>2. group.middlewares.arr # 0
    BY DEF IInv, SlicesOK, Heaps
  <2> QED
    BY <1>4, <1>6, <2>1, <2>2 DEF IInv, Separate
<1>9. MiddlewaresAsAsked'
  BY <1>4, <1>6 DEF IInv, MiddlewaresAsAsked, SlicesOK, GroupsOK
<1> QED
  BY <1>5, <1>7, <1>8, <1>9 DEF IInv

\* newGroup copies: the group's array is new and holds what the list held.
LEMMA NewGroup ==
    ASSUME IInv, NEW given \in Heaps, Len(heap) <= Len(given),
           \A i \in 1 .. Len(heap) : given[i] = heap[i],
           NEW s, WithinArray(given, s), NEW made, made = newGroup(given, s)
    PROVE  /\ made.heap \in Heaps /\ Len(heap) <= Len(made.heap)
           /\ \A i \in 1 .. Len(heap) : made.heap[i] = heap[i]
           /\ IsSlice(made.slice) /\ WithinArray(made.heap, made.slice)
           /\ made.slice.arr > Len(heap)
           /\ Elements(made.heap, made.slice) = Elements(given, s)
<1> DEFINE values == Elements(given, s)
<1>1. values \in Seq(Middleware) /\ made = Made(given, values, 0)
  BY ElementsOf DEF newGroup
<1>2. Len(heap) \in Nat /\ Len(given) \in Nat
  BY DEF IInv, SlicesOK, Heaps
<1> HIDE DEF values
<1>3. /\ made.heap \in Heaps /\ Len(made.heap) = Len(given) + 1
      /\ \A i \in 1 .. Len(given) : made.heap[i] = given[i]
      /\ made.slice = [arr |-> Len(given) + 1, len |-> Len(values)]
      /\ WithinArray(made.heap, made.slice)
      /\ Elements(made.heap, made.slice) = values
  BY <1>1, NewArray
<1>4. IsSlice(made.slice) /\ made.slice.arr > Len(heap)
  BY <1>2, <1>3 DEF IsSlice
<1>5. \A i \in 1 .. Len(heap) : made.heap[i] = heap[i]
  BY <1>2, <1>3
<1> QED
  BY <1>2, <1>3, <1>4, <1>5 DEF values

\* A list written out is passed in an array of its own, the common one as it is.
LEMMA PassedOn ==
    ASSUME IInv, NEW arg \in Arguments, NEW given, given = Passed(heap, arg)
    PROVE  /\ given.heap \in Heaps /\ Len(heap) <= Len(given.heap)
           /\ \A i \in 1 .. Len(heap) : given.heap[i] = heap[i]
           /\ WithinArray(given.heap, given.slice)
           /\ Elements(given.heap, given.slice) = Wanted(arg)
<1>1. heap \in Heaps /\ Len(heap) \in Nat /\ WithinArray(heap, common)
  BY DEF IInv, SlicesOK, Heaps
<1>2. CASE arg = Common
  BY <1>1, <1>2 DEF Passed, Wanted
<1>3. CASE arg # Common
  <2>1. arg \in Seq(Middleware) /\ given = Made(heap, arg, 0) /\ Wanted(arg) = arg
    BY <1>3, ArgumentType DEF Passed, Wanted
  <2>2. /\ given.heap \in Heaps /\ Len(given.heap) = Len(heap) + 1
        /\ \A i \in 1 .. Len(heap) : given.heap[i] = heap[i]
        /\ given.slice = [arr |-> Len(heap) + 1, len |-> Len(arg)]
        /\ WithinArray(given.heap, given.slice)
        /\ Elements(given.heap, given.slice) = arg
    BY <1>1, <2>1, NewArray
  <2> QED
    BY <1>1, <2>1, <2>2
<1> QED
  BY <1>2, <1>3

\* The groups that are made: for a host, with a prefix, inside of a group.
LEMMA HostStep ==
    ASSUME IInv, NEW host, Host(host)
    PROVE  IInv'
<1> DEFINE made == newGroup(heap, NilSlice)
           group == [host |-> host, prefix |-> <<>>, middlewares |-> made.slice,
                     asked |-> <<>>, under |-> <<>>]
<1>1. heap \in Heaps /\ Len(heap) \in Nat
  BY DEF IInv, SlicesOK, Heaps
<1>2. WithinArray(heap, NilSlice) /\ Elements(heap, NilSlice) = <<>>
  BY <1>1 DEF WithinArray, NilSlice, Elements
<1>3. /\ heap' = made.heap /\ groups' = Append(groups, group)
      /\ UNCHANGED <<program, common, middlewares, routes, globals>>
  BY DEF Host, Call
<1>4. made = newGroup(heap, NilSlice)
  OBVIOUS
<1> HIDE DEF made
<1>5. /\ made.heap \in Heaps /\ Len(heap) <= Len(made.heap)
      /\ \A i \in 1 .. Len(heap) : made.heap[i] = heap[i]
      /\ IsSlice(made.slice) /\ WithinArray(made.heap, made.slice)
      /\ made.slice.arr > Len(heap)
      /\ Elements(made.heap, made.slice) = <<>>
  BY <1>1, <1>2, <1>4, NewGroup
<1>6. /\ IsGroup(group) /\ group.middlewares = made.slice
      /\ group.asked = <<>> /\ group.asked \in Seq(Middleware)
  BY DEF IsGroup
<1> HIDE DEF group
<1> QED
  BY <1>3, <1>5, <1>6, GroupAdded

\* A group with a prefix and the middlewares it is given.
LEMMA GroupStep ==
    ASSUME IInv, NEW text, NEW arg \in Arguments, Group(text, arg)
    PROVE  IInv'
<1> DEFINE given == Passed(heap, arg)
           made  == newGroup(given.heap, given.slice)
           group == [host |-> NoHost, prefix |-> cleanPrefix(text), middlewares |-> made.slice,
                     asked |-> Wanted(arg), under |-> Resolved(text.path)]
<1>1. /\ heap' = made.heap /\ groups' = Append(groups, group)
      /\ UNCHANGED <<program, common, middlewares, routes, globals>>
  BY DEF Group, Call
<1>2. given = Passed(heap, arg) /\ made = newGroup(given.heap, given.slice)
  OBVIOUS
<1>3. /\ IsGroup(group) /\ group.middlewares = made.slice /\ group.asked = Wanted(arg)
  BY DEF IsGroup
<1> HIDE DEF given, made, group
<1>4. /\ given.heap \in Heaps /\ Len(heap) <= Len(given.heap)
      /\ \A i \in 1 .. Len(heap) : given.heap[i] = heap[i]
      /\ WithinArray(given.heap, given.slice)
      /\ Elements(given.heap, given.slice) = Wanted(arg)
  BY <1>2, PassedOn
<1>5. /\ made.heap \in Heaps /\ Len(heap) <= Len(made.heap)
      /\ \A i \in 1 .. Len(heap) : made.heap[i] = heap[i]
      /\ IsSlice(made.slice) /\ WithinArray(made.heap, made.slice)
      /\ made.slice.arr > Len(heap)
      /\ Elements(made.heap, made.slice) = Wanted(arg)
  BY <1>2, <1>4, NewGroup
<1> QED
  BY <1>1, <1>3, <1>5, ArgumentType, GroupAdded

\* A group inside of a group: the parent's middlewares and then its own.
LEMMA SubgroupStep ==
    ASSUME IInv, NEW g \in DOMAIN groups, NEW text, NEW arg \in Arguments,
           Subgroup(g, text, arg)
    PROVE  IInv'
<1> DEFINE parent   == groups[g]
           values   == Elements(heap, parent.middlewares) \o Wanted(arg)
           combined == Made(heap, values, 0)
           made     == newGroup(combined.heap, combined.slice)
           prefix   == IF cleanPrefix(text) = <<>> THEN parent.prefix
                       ELSE joinPaths(parent.prefix,
                                      [rooted |-> TRUE, path |-> cleanPrefix(text)]).path
           group    == [host |-> parent.host, prefix |-> prefix, middlewares |-> made.slice,
                        asked |-> parent.asked \o Wanted(arg),
                        under |-> parent.under \o Resolved(text.path)]
<1>1. /\ heap' = made.heap /\ groups' = Append(groups, group)
      /\ UNCHANGED <<program, common, middlewares, routes, globals>>
  BY DEF Subgroup, Call
<1>2. combined = Made(heap, values, 0) /\ made = newGroup(combined.heap, combined.slice)
  OBVIOUS
<1>3. /\ IsGroup(group) /\ group.middlewares = made.slice
      /\ group.asked = parent.asked \o Wanted(arg)
  BY DEF IsGroup
<1>4. /\ values = parent.asked \o Wanted(arg)
      /\ parent.asked \in Seq(Middleware) /\ Wanted(arg) \in Seq(Middleware)
  BY ArgumentType DEF IInv, GroupsOK, MiddlewaresAsAsked
<1>5. values \in Seq(Middleware)
  BY <1>4, ConcatProperties
<1> HIDE DEF parent, values, combined, made, group
<1>6. heap \in Heaps /\ Len(heap) \in Nat
  BY DEF IInv, SlicesOK, Heaps
<1>7. /\ combined.heap \in Heaps /\ Len(combined.heap) = Len(heap) + 1
      /\ \A i \in 1 .. Len(heap) : combined.heap[i] = heap[i]
      /\ combined.slice = [arr |-> Len(heap) + 1, len |-> Len(values)]
      /\ WithinArray(combined.heap, combined.slice)
      /\ Elements(combined.heap, combined.slice) = values
  BY <1>2, <1>5, <1>6, NewArray
<1>8. /\ made.heap \in Heaps /\ Len(heap) <= Len(made.heap)
      /\ \A i \in 1 .. Len(heap) : made.heap[i] = heap[i]
      /\ IsSlice(made.slice) /\ WithinArray(made.heap, made.slice)
      /\ made.slice.arr > Len(heap)
      /\ Elements(made.heap, made.slice) = values
  <2>1. Len(heap) <= Len(combined.heap)
    BY <1>6, <1>7
  <2> QED
    BY <1>2, <1>7, <2>1, NewGroup
<1> QED
  BY <1>1, <1>3, <1>4, <1>5, <1>8, GroupAdded

\* Group.Use appends to the group's own array.
LEMMA GroupUseStep ==
    ASSUME IInv, NEW g \in DOMAIN groups, NEW arg \in Arguments, NEW spare \in program.spares,
           GroupUse(g, arg, spare)
    PROVE  IInv'
<1> DEFINE old    == groups[g].middlewares
           values == Wanted(arg)
           after  == Appended(heap, old, values, spare)
<1>1. /\ heap' = after.heap
      /\ groups' = [groups EXCEPT ![g].middlewares = after.slice, ![g].asked = @ \o values]
      /\ UNCHANGED <<program, common, middlewares, routes, globals>>
  BY DEF GroupUse, Call
<1>2. after = Appended(heap, old, values, spare)
  OBVIOUS
<1> HIDE DEF after
<1>3. /\ groups'[g].middlewares = after.slice /\ groups'[g].asked = groups[g].asked \o values
      /\ IsGroup(groups'[g])
  <2>1. groups[g] = [host |-> groups[g].host, prefix |-> groups[g].prefix, middlewares |-> old,
                     asked |-> groups[g].asked, under |-> groups[g].under]
    BY DEF IInv, GroupsOK, IsGroup
  <2>2. groups'[g] = [[groups[g] EXCEPT !.middlewares = after.slice]
                         EXCEPT !.asked = groups[g].asked \o values]
    BY <1>1, <2>1
  <2>3. groups'[g] = [host |-> groups[g].host, prefix |-> groups[g].prefix,
                      middlewares |-> after.slice,
                      asked |-> groups[g].asked \o values, under |-> groups[g].under]
    BY <2>1, <2>2
  <2> QED
    BY <2>3 DEF IsGroup
<1>4. DOMAIN groups' = DOMAIN groups /\ \A h \in DOMAIN groups \ {g} : groups'[h] = groups[h]
  BY <1>1
<1>5. /\ values \in Seq(Middleware) /\ spare \in Nat
      /\ IsSlice(old) /\ WithinArray(heap, old) /\ heap \in Heaps
      /\ old.arr \in 1 .. Len(heap) /\ Len(heap) \in Nat
  BY ArgumentType, SpareType DEF IInv, GroupsOK, SlicesOK, Separate, WithinArray, Heaps
<1> HIDE DEF values, old
<1>6. /\ heap' \in Heaps /\ Len(heap) <= Len(heap')
      /\ \A i \in 1 .. Len(heap) : i # old.arr => heap'[i] = heap[i]
      /\ IsSlice(after.slice) /\ WithinArray(heap', after.slice)
      /\ after.slice.arr = old.arr \/ after.slice.arr > Len(heap)
      /\ Elements(heap', after.slice) = Elements(heap, old) \o values
  <2>1. /\ after.heap \in Heaps /\ Len(heap) <= Len(after.heap)
        /\ \A i \in 1 .. Len(heap) : i # old.arr => after.heap[i] = heap[i]
        /\ IsSlice(after.slice) /\ WithinArray(after.heap, after.slice)
        /\ after.slice.arr = old.arr \/ after.slice.arr > Len(heap)
        /\ after.slice.len = old.len + Len(values)
        /\ Elements(after.heap, after.slice) = Elements(heap, old) \o values
    BY SMTT(30), <1>2, <1>5, AppendedTo
  <2> QED
    BY <1>1, <2>1
<1>7. ASSUME NEW s, WithinArray(heap, s), s.arr # old.arr
      PROVE  /\ WithinArray(heap', s) /\ Elements(heap', s) = Elements(heap, s)
             /\ s.arr # after.slice.arr
  <2>1. s.arr # 0 => s.arr \in 1 .. Len(heap)
    BY <1>5, <1>7 DEF WithinArray
  <2>2. s.arr <= Len(heap)
    BY <1>5, <1>7 DEF WithinArray
  <2> QED
    BY <1>5, <1>6, <1>7, <2>1, <2>2, Kept
<1>8. SlicesOK'
  BY <1>1, <1>6, <1>7 DEF IInv, SlicesOK, Separate, old
<1>9. GroupsOK'
  <2>1. IsSequence(groups')
    <3> DEFINE S == {groups[h] : h \in DOMAIN groups} \cup {groups'[g]}
    <3>1. groups \in Seq(S) /\ DOMAIN groups = 1 .. Len(groups)
      BY SeqMonotonic DEF IInv, GroupsOK, IsSequence
    <3>2. groups' = [groups EXCEPT ![g] = groups'[g]]
      BY <1>1, <1>4
    <3> HIDE DEF S
    <3>3. groups'[g] \in S
      BY DEF S
    <3>4. groups' \in Seq(S)
      BY <3>1, <3>2, <3>3, ExceptSeq
    <3> QED
      BY <3>4 DEF IsSequence
  <2>2. groups'[g].asked \in Seq(Middleware)
    BY <1>3, <1>5, ConcatProperties DEF IInv, GroupsOK
  <2>3. ASSUME NEW h \in DOMAIN groups, h # g
        PROVE  groups[h].middlewares.arr # old.arr
    BY <2>3 DEF IInv, Separate, old
  <2>4. ASSUME NEW h \in DOMAIN groups'
        PROVE  /\ IsGroup(groups'[h]) /\ groups'[h].asked \in Seq(Middleware)
               /\ IsSlice(groups'[h].middlewares) /\ WithinArray(heap', groups'[h].middlewares)
    <3>1. CASE h = g
      BY <1>3, <1>6, <2>2, <3>1
    <3>2. CASE h # g
      BY <1>4, <1>7, <2>3, <3>2 DEF IInv, GroupsOK
    <3> QED
      BY <3>1, <3>2
  <2> QED
    BY <2>1, <2>4 DEF GroupsOK
<1>10. Separate'
  <2>1. \A h \in DOMAIN groups : h # g => groups[h].middlewares.arr # old.arr
    BY DEF IInv, Separate, old
  <2>2. common.arr # old.arr /\ middlewares.arr # old.arr
    BY DEF IInv, Separate, old
  <2>3. \A h \in DOMAIN groups :
           h # g => /\ WithinArray(heap, groups[h].middlewares)
                    /\ groups[h].middlewares.arr # after.slice.arr
    BY <1>7, <2>1 DEF IInv, GroupsOK
  <2>4. common.arr # after.slice.arr /\ middlewares.arr # after.slice.arr
    BY <1>7, <2>2 DEF IInv, SlicesOK
  <2>5. after.slice.arr # 0
    BY <1>5, <1>6
  <2> QED
    BY <1>1, <1>3, <1>4, <2>3, <2>4, <2>5 DEF IInv, Separate
<1>11. MiddlewaresAsAsked'
  <2>1. Elements(heap', groups'[g].middlewares) = groups'[g].asked
    BY <1>3, <1>6 DEF IInv, MiddlewaresAsAsked, old
  <2>2. ASSUME NEW h \in DOMAIN groups, h # g
        PROVE  Elements(heap', groups[h].middlewares) = groups[h].asked
    BY <1>7, <2>2 DEF IInv, MiddlewaresAsAsked, GroupsOK, Separate, old
  <2>3. Elements(heap', middlewares) = globals
    BY <1>7 DEF IInv, MiddlewaresAsAsked, SlicesOK, Separate, old
  <2> QED
    BY <1>1, <1>4, <2>1, <2>2, <2>3 DEF IInv, MiddlewaresAsAsked
<1> QED
  BY <1>8, <1>9, <1>10, <1>11 DEF IInv

\* A registration composes the handler with the lists as they are then.
LEMMA HandleStep ==
    ASSUME IInv, NEW g \in DOMAIN groups, NEW text, Handle(g, text)
    PROVE  IInv'
<1> DEFINE joined == joinPaths(groups[g].prefix, text)
           new    == [host |-> groups[g].host, method |-> "GET", pattern |-> joined.path,
                      chain |-> Chain(groups[g].middlewares), asked |-> groups[g].asked,
                      under |-> groups[g].under, given |-> text]
<1>1. /\ routes' = routes \cup {new}
      /\ UNCHANGED <<program, heap, common, middlewares, groups, globals>>
  BY DEF Handle, Call
<1>2. new.chain = globals \o new.asked
  BY DEF IInv, MiddlewaresAsAsked, Chain
<1> HIDE DEF new
<1>3. SlicesOK' /\ GroupsOK' /\ Separate'
  BY <1>1 DEF IInv, SlicesOK, GroupsOK, Separate
<1>4. MiddlewaresAsAsked'
  BY <1>1, <1>2 DEF IInv, MiddlewaresAsAsked
<1> QED
  BY <1>3, <1>4 DEF IInv

\* The pprof endpoints have the router's middlewares alone.
LEMMA PprofStep ==
    ASSUME IInv, NEW text, RegisterPprof(text)
    PROVE  IInv'
<1>1. UNCHANGED <<program, heap, common, middlewares, groups, globals>>
  BY DEF RegisterPprof, Call
<1>2. Chain(NilSlice) = globals \o <<>>
  BY DEF IInv, MiddlewaresAsAsked, Chain, NilSlice, Elements
<1>3. \A r \in routes' \ routes : r.chain = Chain(NilSlice) /\ r.asked = <<>>
  BY DEF RegisterPprof
<1>4. SlicesOK' /\ GroupsOK' /\ Separate'
  BY <1>1 DEF IInv, SlicesOK, GroupsOK, Separate
<1>5. MiddlewaresAsAsked'
  BY <1>1, <1>2, <1>3 DEF IInv, MiddlewaresAsAsked
<1> QED
  BY <1>4, <1>5 DEF IInv

\* What the program does with its own slice stays in that slice's array.
LEMMA OwnSliceStep ==
    ASSUME IInv, heap' \in Heaps, Len(heap) <= Len(heap'),
           \A i \in 1 .. Len(heap) : i # common.arr => heap'[i] = heap[i],
           IsSlice(common'), WithinArray(heap', common'), common'.len # 0,
           common'.arr = common.arr \/ common'.arr > Len(heap),
           UNCHANGED <<program, middlewares, groups, routes, globals>>
    PROVE  IInv'
<1>1. heap \in Heaps /\ Len(heap) \in Nat /\ common.arr \in 1 .. Len(heap)
  BY SMTT(30) DEF IInv, SlicesOK, WithinArray, Heaps
<1>2. ASSUME NEW s, WithinArray(heap, s), s.arr # common.arr
      PROVE  /\ WithinArray(heap', s) /\ Elements(heap', s) = Elements(heap, s)
             /\ s.arr # common'.arr
  <2>1. (s.arr # 0 => s.arr \in 1 .. Len(heap)) /\ s.arr <= Len(heap)
    BY <1>1, <1>2 DEF WithinArray
  <2> QED
    BY <1>1, <1>2, <2>1, Kept
<1>3. SlicesOK'
  BY <1>1, <1>2 DEF IInv, SlicesOK, Separate
<1>4. GroupsOK' /\ Separate'
  BY <1>2 DEF IInv, GroupsOK, SlicesOK, Separate
<1>5. MiddlewaresAsAsked'
  BY <1>2 DEF IInv, MiddlewaresAsAsked, SlicesOK, GroupsOK, Separate
<1> QED
  BY <1>3, <1>4, <1>5 DEF IInv

\* The program appends to its own slice.
LEMMA AppendCommonStep ==
    ASSUME IInv, NEW spare \in program.spares, AppendCommon(spare)
    PROVE  IInv'
<1> DEFINE values == <<"more">>
           after  == Appended(heap, common, values, spare)
<1>1. /\ heap' = after.heap /\ common' = after.slice
      /\ UNCHANGED <<program, middlewares, groups, routes, globals>>
  BY DEF AppendCommon, Call
<1>2. after = Appended(heap, common, values, spare)
  OBVIOUS
<1>3. values \in Seq(Middleware) /\ spare \in Nat
  BY MiddlewareAssumption, SpareType
<1>4. Len(values) = 1
  OBVIOUS
<1> HIDE DEF values, after
<1>5. IsSlice(common) /\ WithinArray(heap, common) /\ heap \in Heaps /\ common.len \in Nat
  BY DEF IInv, SlicesOK, WithinArray
<1>6. /\ after.heap \in Heaps /\ Len(heap) <= Len(after.heap)
      /\ \A i \in 1 .. Len(heap) : i # common.arr => after.heap[i] = heap[i]
      /\ IsSlice(after.slice) /\ WithinArray(after.heap, after.slice)
      /\ after.slice.arr = common.arr \/ after.slice.arr > Len(heap)
      /\ after.slice.len = common.len + Len(values)
      /\ Elements(after.heap, after.slice) = Elements(heap, common) \o values
  BY SMTT(30), <1>2, <1>3, <1>5, AppendedTo
<1>7. after.slice.len # 0
  BY <1>4, <1>5, <1>6
<1> QED
  BY <1>1, <1>6, <1>7, OwnSliceStep

\* The program assigns to an element of its own slice.
LEMMA AssignCommonStep ==
    ASSUME IInv, AssignCommon
    PROVE  IInv'
<1> DEFINE new == [heap[common.arr] EXCEPT ![1] = "other"]
<1>1. /\ heap' = [heap EXCEPT ![common.arr] = new]
      /\ UNCHANGED <<program, common, middlewares, groups, routes, globals>>
  BY DEF AssignCommon, Call
<1>2. /\ heap \in Heaps /\ common.arr \in 1 .. Len(heap) /\ Len(heap) \in Nat
      /\ heap[common.arr] \in Seq(Middleware) /\ 1 \in 1 .. Len(heap[common.arr])
      /\ IsSlice(common) /\ WithinArray(heap, common) /\ common.len # 0
  BY SMTT(30) DEF IInv, SlicesOK, WithinArray, Heaps
<1>3. new \in Seq(Middleware) /\ Len(new) = Len(heap[common.arr])
  BY <1>2, MiddlewareAssumption, ExceptSeq
<1> HIDE DEF new
<1>4. /\ heap' \in Heaps /\ Len(heap') = Len(heap)
      /\ \A i \in 1 .. Len(heap) : heap'[i] = IF i = common.arr THEN new ELSE heap[i]
  BY <1>1, <1>2, <1>3, ExceptSeq DEF Heaps
<1>5. WithinArray(heap', common)
  BY <1>2, <1>3, <1>4 DEF WithinArray
<1>6. /\ Len(heap) <= Len(heap') /\ \A i \in 1 .. Len(heap) : i # common.arr => heap'[i] = heap[i]
  BY <1>2, <1>4
<1> QED
  BY <1>1, <1>2, <1>4, <1>5, <1>6, OwnSliceStep

-----------------------------------------------------------------------------
(* Theorems *)

\* The invariant holds when the program starts, with nothing but its own slice.
LEMMA InitOK == Init => IInv
<1> SUFFICES ASSUME Init PROVE IInv
  OBVIOUS
<1>1. PICK spare \in program.spares : heap = <<(<<"common">> \o Room(spare))>>
  BY Zenon DEF Init
<1> DEFINE array == <<"common">> \o Room(spare)
<1>2. program \in Programs /\ spare \in Nat
  BY <1>1, ProgramsAssumption DEF Init
<1>3. array \in Seq(Middleware) /\ Len(array) >= 1
  <2>1. Room(spare) \in Seq(Middleware) /\ Len(Room(spare)) = spare
    BY <1>2, MiddlewareAssumption DEF Room
  <2>2. <<"common">> \in Seq(Middleware) /\ Len(<<"common">>) = 1
    BY MiddlewareAssumption
  <2> QED
    BY <1>2, <2>1, <2>2, ConcatProperties
<1> HIDE DEF array
<1>4. heap = <<array>>
  BY <1>1 DEF array
<1>5. heap \in Heaps /\ Len(heap) = 1 /\ heap[1] = array
  BY <1>3, <1>4 DEF Heaps
<1>6. /\ common = [arr |-> 1, len |-> 1] /\ middlewares = [arr |-> 0, len |-> 0]
      /\ groups = <<>> /\ routes = {} /\ globals = <<>>
  BY DEF Init, NilSlice
<1>7. SlicesOK
  <2>1. /\ IsSlice(common) /\ common.arr = 1 /\ common.len = 1
        /\ IsSlice(middlewares) /\ middlewares.arr = 0 /\ middlewares.len = 0
    BY <1>6 DEF IsSlice
  <2>2. WithinArray(heap, common) /\ WithinArray(heap, middlewares)
    BY <1>3, <1>5, <2>1 DEF WithinArray
  <2>3. globals \in Seq(Middleware)
    BY <1>6
  <2> QED
    BY <1>2, <1>5, <2>1, <2>2, <2>3 DEF SlicesOK
<1>8. GroupsOK
  <2>1. DOMAIN groups = {} /\ IsSequence(groups)
    BY <1>6 DEF IsSequence
  <2> QED
    BY <2>1 DEF GroupsOK
<1>9. Separate /\ MiddlewaresAsAsked
  BY <1>6 DEF Separate, MiddlewaresAsAsked, Elements
<1> QED
  BY <1>7, <1>8, <1>9 DEF IInv

\* Every operation keeps the invariant.
LEMMA KeptInv == IInv /\ [Next]_vars => IInv'
<1> SUFFICES ASSUME IInv, [Next]_vars PROVE IInv'
  OBVIOUS
<1>1. CASE UNCHANGED vars
  BY <1>1 DEF vars, IInv, SlicesOK, GroupsOK, Separate, MiddlewaresAsAsked
<1>2. CASE Next
  BY <1>1, <1>2, UseStep, HostStep, GroupStep, SubgroupStep, GroupUseStep, HandleStep,
     PprofStep, AppendCommonStep, AssignCommonStep DEF Next, Stopped
<1> QED
  BY <1>1, <1>2

\* The inductive invariant: every slice lies within its array, no two owners
\* share one, and each list holds what was asked for.
THEOREM Inductive == Spec => []IInv
BY InitOK, KeptInv, PTL DEF Spec

\* However slices share arrays, a list holds what the program asked for, and a
\* route keeps the chain it was registered with.
THEOREM AsAsked == Spec => []MiddlewaresAsAsked
<1>1. IInv => MiddlewaresAsAsked
  BY DEF IInv
<1> QED
  BY Inductive, <1>1, PTL

\* No append to a list and no write of the program to its own slice can reach
\* another list: no two of them have an array in common.
THEOREM Separated == Spec => []Separate
<1>1. IInv => Separate
  BY DEF IInv
<1> QED
  BY Inductive, <1>1, PTL

-----------------------------------------------------------------------------
(* Prefixes *)

\* A group's prefix is what the texts it was made from resolve to.
PrefixesOK ==
    \A g \in DOMAIN groups : groups[g].prefix \in Seq(Plain) /\ groups[g].prefix = groups[g].under

\* cleanPrefix makes of a text what it resolves to as an absolute path.
LEMMA PrefixOfText ==
    ASSUME NEW text \in PathText
    PROVE  cleanPrefix(text) = Resolved(text.path) /\ Resolved(text.path) \in Seq(Plain)
<1> DEFINE r == Resolved(text.path)
           clean == CleanPath(text.path)
<1>1. text.path \in Seq(Piece)
  BY DEF PathText
<1>2. r \in Seq(Plain)
  <2>1. PICK f : Resolves(f, text.path) /\ r = f[Len(text.path)]
    BY <1>1, PathResolved
  <2> QED
    BY <1>1, <2>1 DEF Resolves
<1>3. clean = IF r = <<>> THEN Root ELSE IF LastOf(text.path) = Empty THEN Append(r, Empty) ELSE r
  BY DEF CleanPath
<1> HIDE DEF r, clean
<1>4. CASE r = <<>>
  BY <1>2, <1>3, <1>4 DEF cleanPrefix, r, clean
<1>5. CASE r # <<>>
  <2>1. LastOf(r) # Empty /\ LastOf(Append(r, Empty)) = Empty
    BY <1>2, <1>5, MadeClean
  <2>2. text # NoText
    <3>1. Root \in Seq(Piece) /\ Len(Root) = 1 /\ Root[1] = Empty
      BY EmptyAssumption DEF Root
    <3>2. PICK f : Resolves(f, Root) /\ Resolved(Root) = f[Len(Root)]
      BY <3>1, PathResolved
    <3>3. 1 \in 1 .. Len(Root) /\ 1 - 1 = 0
      BY <3>1
    <3>4. f[1] = f[0] /\ f[0] = <<>>
      BY <3>1, <3>2, <3>3 DEF Resolves
    <3> QED
      BY <1>5, <3>1, <3>2, <3>4 DEF NoText, r
  <2>3. clean # Root
    <3>1. Len(Root) = 1 /\ LastOf(Root) = Empty /\ Len(Append(r, Empty)) = Len(r) + 1 /\ Len(r) > 0
      BY <1>2, <1>5 DEF Root, LastOf
    <3> QED
      BY <1>2, <1>3, <1>5, <2>1, <3>1
  <2>4. FrontOf(Append(r, Empty)) = r
    BY <1>2, MadeClean, <2>1 DEF Body
  <2> QED
    BY <1>2, <1>3, <1>5, <2>1, <2>2, <2>3, <2>4 DEF cleanPrefix, r, clean
<1> QED
  BY <1>4, <1>5

\* A clean path that begins with a prefix ends with a clean path, and its parts
\* are those of both.
LEMMA PlainStart ==
    ASSUME NEW prefix \in Seq(Plain), NEW path \in Seq(Piece) \ {<<>>},
           CleanForm(prefix \o path)
    PROVE  /\ Parts(prefix \o path) = prefix \o Parts(path)
           /\ LastOf(prefix \o path) = LastOf(path)
           /\ Len(prefix \o path) = Len(prefix) + Len(path) /\ Len(path) > 0
<1> DEFINE p == prefix \o path
           N == Len(prefix)
           M == Len(path)
<1>1. prefix \in Seq(Piece) /\ N \in Nat /\ M \in Nat /\ M > 0
  BY DEF Plain
<1>2. /\ p \in Seq(Piece) /\ Len(p) = N + M
      /\ \A i \in 1 .. N : p[i] = prefix[i]
      /\ \A i \in 1 .. M : p[N + i] = path[i]
  BY <1>1, ConcatProperties
<1> HIDE DEF p
<1>3. LastOf(p) = LastOf(path)
  BY <1>1, <1>2 DEF LastOf
<1>4. CleanForm(path)
  <2>1. ASSUME NEW i \in 1 .. M
        PROVE  path[i] # Dot /\ path[i] # Up /\ (path[i] = Empty => i = M)
    <3>1. N + i \in 1 .. Len(p) /\ p[N + i] = path[i]
      BY <1>1, <1>2
    <3>2. CleanForm(p)
      BY DEF p
    <3> QED
      BY <1>1, <1>2, <3>1, <3>2 DEF CleanForm
  <2> QED
    BY <1>1, <2>1 DEF CleanForm
<1>5. Parts(p) = Body(p) /\ Parts(path) = Body(path)
  BY <1>4, CleanParts DEF p
<1>6. Body(p) = prefix \o Body(path)
  <2>1. CASE LastOf(path) # Empty
    BY <1>3, <2>1 DEF Body, p
  <2>2. CASE LastOf(path) = Empty
    <3>1. Body(p) = FrontOf(p) /\ Body(path) = FrontOf(path)
      BY <1>3, <2>2 DEF Body
    <3>2. M - 1 \in 0 .. M /\ N + M - 1 \in 0 .. N + M
      BY <1>1
    <3>3. /\ FrontOf(path) \in Seq(Piece) /\ Len(FrontOf(path)) = M - 1
          /\ \A i \in 1 .. M - 1 : FrontOf(path)[i] = path[i]
      BY <1>1, <3>2, PrefixOf DEF FrontOf
    <3>4. /\ FrontOf(p) \in Seq(Piece) /\ Len(FrontOf(p)) = N + M - 1
          /\ \A i \in 1 .. N + M - 1 : FrontOf(p)[i] = p[i]
      BY <1>2, <3>2, PrefixOf DEF FrontOf
    <3> DEFINE a == FrontOf(path)
               b == FrontOf(p)
               c == prefix \o a
    <3>10. a \in Seq(Piece) /\ Len(a) \in Nat
      BY <3>3
    <3> HIDE DEF a, b
    <3>5. /\ c \in Seq(Piece) /\ Len(c) = N + Len(a)
          /\ \A i \in 1 .. N : c[i] = prefix[i]
          /\ \A i \in 1 .. Len(a) : c[N + i] = a[i]
      BY <1>1, <3>10, ConcatProperties
    <3> HIDE DEF c
    <3>6. Len(c) = Len(b)
      BY <1>1, <3>3, <3>4, <3>5 DEF a, b
    <3>7. ASSUME NEW i \in 1 .. Len(b) PROVE b[i] = c[i]
      <4>1. i \in 1 .. N + M - 1 /\ b[i] = p[i]
        BY <3>4 DEF b
      <4>2. CASE i <= N
        BY <1>1, <1>2, <3>5, <4>1, <4>2
      <4>3. CASE ~(i <= N)
        <5>1. i - N \in 1 .. M - 1 /\ i - N \in 1 .. M /\ N + (i - N) = i
          BY <1>1, <4>1, <4>3
        <5>2. Len(a) = M - 1 /\ a[i - N] = path[i - N]
          BY <3>3, <5>1 DEF a
        <5>3. p[N + (i - N)] = path[i - N] /\ c[N + (i - N)] = a[i - N]
          BY <1>2, <3>5, <5>1, <5>2
        <5> QED
          BY <4>1, <5>1, <5>2, <5>3
      <4> QED
        BY <4>2, <4>3
    <3>8. b = c
      BY <3>4, <3>5, <3>6, <3>7, SeqEqual DEF b
    <3> QED
      BY <3>1, <3>8 DEF a, b, c
  <2> QED
    BY <2>1, <2>2
<1> QED
  BY <1>1, <1>2, <1>3, <1>5, <1>6 DEF p

\* What RoutesUnderPrefix says of a route
Under(r) ==
    /\ Parts(r.pattern) = r.under \o Parts(r.given.path)
    /\ Slashed(r.pattern) <=>
          r.given # NoText /\ LastOf(r.given.path) = Empty /\ Parts(r.pattern) # <<>>

\* A pattern that is registered under a prefix lies under it.
LEMMA JoinedUnder ==
    ASSUME NEW prefix \in Seq(Plain), NEW text \in PathText, NEW r,
           joinPaths(prefix, text).rooted, r.pattern = joinPaths(prefix, text).path,
           CleanPath(r.pattern) = r.pattern, r.under = prefix, r.given = text
    PROVE  Under(r)
<1> DEFINE p    == r.pattern
           path == text.path
<1>1. path \in Seq(Piece) \ {<<>>} /\ prefix \in Seq(Piece) /\ Len(prefix) \in Nat
  BY DEF PathText, Plain
<1>2. CASE prefix = <<>>
  <2>1. p = path /\ text # NoText
    BY <1>2 DEF joinPaths, NoText
  <2>2. p \in Seq(Piece) /\ Len(p) > 0 /\ Len(p) \in Nat
    BY <1>1, <2>1
  <2>3. CleanForm(p)
    BY <2>2, CleanIsClean
  <2>4. Parts(p) = Body(p)
    BY <2>3, CleanParts
  <2>5. Parts(p) = <<>> \o Parts(path)
    <3>1. Parts(path) \in Seq(Piece)
      BY <1>1, PartsType
    <3> QED
      BY <2>1, <3>1, ConcatEmptySeq
  <2>6. LastOf(p) = Empty => (Len(p) > 1 <=> Body(p) # <<>>)
    <3>1. Len(p) - 1 \in 0 .. Len(p)
      BY <2>2
    <3>2. Len(FrontOf(p)) = Len(p) - 1 /\ FrontOf(p) \in Seq(Piece)
      BY <2>2, <3>1, PrefixOf DEF FrontOf
    <3> QED
      BY <2>2, <3>2 DEF Body
  <2> QED
    BY <1>2, <2>1, <2>4, <2>5, <2>6 DEF Under, Slashed
<1>3. CASE prefix # <<>> /\ text = NoText
  <2>1. p = prefix /\ path = Root
    BY <1>3 DEF joinPaths, NoText
  <2>2. /\ CleanForm(prefix) /\ Body(prefix) = prefix /\ LastOf(prefix) # Empty
    BY <1>3, MadeClean
  <2>3. Parts(p) = prefix
    BY <2>1, <2>2, CleanParts
  <2>4. Parts(Root) = <<>>
    <3>1. <<>> \in Seq(Plain)
      OBVIOUS
    <3>2. CleanForm(Append(<<>>, Empty)) /\ Body(Append(<<>>, Empty)) = <<>>
      BY <3>1, MadeClean
    <3>3. Append(<<>>, Empty) = Root
      BY DEF Root
    <3> QED
      BY <3>2, <3>3, CleanParts
  <2>5. prefix \o Parts(Root) = prefix
    BY <1>1, <2>4, ConcatEmptySeq
  <2> QED
    BY <1>3, <2>1, <2>2, <2>3, <2>5 DEF Under, Slashed
<1>4. CASE prefix # <<>> /\ text # NoText
  <2>1. p = prefix \o path
    BY <1>4 DEF joinPaths
  <2>2. p \in Seq(Piece)
    BY <1>1, <2>1, ConcatProperties
  <2>3. CleanForm(p)
    BY <2>2, CleanIsClean
  <2> HIDE DEF p, path
  <2>4. /\ Parts(p) = prefix \o Parts(path)
        /\ LastOf(p) = LastOf(path)
        /\ Len(p) = Len(prefix) + Len(path) /\ Len(path) > 0
    BY <1>1, <2>1, <2>3, PlainStart
  <2>5. Parts(path) \in Seq(Piece)
    BY <1>1, PartsType
  <2>6. Len(prefix \o Parts(path)) = Len(prefix) + Len(Parts(path)) /\ Len(Parts(path)) \in Nat
    BY <1>1, <2>5, ConcatProperties
  <2>7. Parts(p) # <<>> /\ Len(p) > 1
    BY <1>1, <1>4, <2>4, <2>6
  <2> QED
    BY <1>4, <2>4, <2>7 DEF Under, Slashed, p, path
<1> QED
  BY <1>2, <1>3, <1>4

\* The texts that a program passes are texts.
LEMMA TextType ==
    ASSUME program \in Programs
    PROVE  program.prefixes \subseteq PathText /\ program.patterns \subseteq PathText
BY ProgramsAssumption

\* The prefixes of nested groups are put together as they were resolved.
LEMMA SubgroupPrefix ==
    ASSUME NEW parent \in Seq(Plain), NEW text \in PathText
    PROVE  (IF cleanPrefix(text) = <<>> THEN parent
            ELSE joinPaths(parent, [rooted |-> TRUE, path |-> cleanPrefix(text)]).path)
              = parent \o Resolved(text.path)
           /\ parent \o Resolved(text.path) \in Seq(Plain)
<1> DEFINE clean == cleanPrefix(text)
           given == [rooted |-> TRUE, path |-> clean]
<1>1. clean = Resolved(text.path) /\ clean \in Seq(Plain)
  BY PrefixOfText
<1>2. given # NoText /\ given.path = clean
  <2>1. given.rooted = TRUE /\ NoText.rooted = FALSE
    BY DEF NoText
  <2> QED
    BY <2>1
<1> HIDE DEF clean, given
<1>3. clean = <<>> => parent \o clean = parent
  BY ConcatEmptySeq
<1>4. joinPaths(parent, given).path = parent \o clean
  <2>1. CASE parent = <<>>
    <3>1. <<>> \o clean = clean
      BY <1>1, ConcatEmptySeq
    <3> QED
      BY <1>2, <2>1, <3>1 DEF joinPaths
  <2>2. CASE parent # <<>>
    BY <1>2, <2>2 DEF joinPaths
  <2> QED
    BY <2>1, <2>2
<1>5. parent \o clean \in Seq(Plain)
  BY <1>1, ConcatProperties
<1> QED
  BY <1>1, <1>3, <1>4, <1>5 DEF clean, given

UnderInv == IInv /\ PrefixesOK /\ RoutesUnderPrefix

\* A new group's prefix is what its texts resolve to.
LEMMA PrefixKept ==
    ASSUME IInv, PrefixesOK, NEW group, groups' = Append(groups, group),
           group.prefix \in Seq(Plain), group.prefix = group.under
    PROVE  PrefixesOK'
<1>1. PICK S : groups \in Seq(S)
  BY DEF IInv, GroupsOK, IsSequence
<1>2. /\ DOMAIN groups = 1 .. Len(groups) /\ DOMAIN groups' = 1 .. Len(groups) + 1
      /\ \A g \in 1 .. Len(groups) : groups'[g] = groups[g]
      /\ groups'[Len(groups) + 1] = group /\ Len(groups) \in Nat
  BY <1>1
<1> QED
  BY <1>2 DEF PrefixesOK

\* The groups' prefixes: no operation but the making of a group has any to do
\* with them.
LEMMA PrefixStep == IInv /\ IInv' /\ PrefixesOK /\ [Next]_vars => PrefixesOK'
<1> SUFFICES ASSUME IInv, IInv', PrefixesOK, [Next]_vars PROVE PrefixesOK'
  OBVIOUS
<1>0. program \in Programs
  BY DEF IInv, SlicesOK
<1>1. CASE UNCHANGED groups
  BY <1>1 DEF PrefixesOK
<1>2. ASSUME NEW host, Host(host) PROVE PrefixesOK'
  <2> DEFINE group == [host |-> host, prefix |-> <<>>, middlewares |-> newGroup(heap, NilSlice).slice,
                       asked |-> <<>>, under |-> <<>>]
  <2>1. groups' = Append(groups, group)
    BY <1>2 DEF Host
  <2>2. group.prefix = <<>> /\ group.under = <<>> /\ <<>> \in Seq(Plain)
    OBVIOUS
  <2> HIDE DEF group
  <2> QED
    BY <2>1, <2>2, PrefixKept
<1>3. ASSUME NEW text \in program.prefixes, NEW arg, Group(text, arg) PROVE PrefixesOK'
  <2> DEFINE given == Passed(heap, arg)
             group == [host |-> NoHost, prefix |-> cleanPrefix(text),
                       middlewares |-> newGroup(given.heap, given.slice).slice,
                       asked |-> Wanted(arg), under |-> Resolved(text.path)]
  <2>1. groups' = Append(groups, group)
    BY <1>3 DEF Group
  <2>2. group.prefix = cleanPrefix(text) /\ group.under = Resolved(text.path)
    OBVIOUS
  <2>3. text \in PathText
    BY <1>0, TextType
  <2> HIDE DEF group
  <2> QED
    BY <2>1, <2>2, <2>3, PrefixOfText, PrefixKept
<1>4. ASSUME NEW g \in DOMAIN groups, NEW text \in program.prefixes, NEW arg, Subgroup(g, text, arg)
      PROVE  PrefixesOK'
  <2> DEFINE parent   == groups[g]
             combined == Made(heap, Elements(heap, parent.middlewares) \o Wanted(arg), 0)
             prefix   == IF cleanPrefix(text) = <<>> THEN parent.prefix
                         ELSE joinPaths(parent.prefix,
                                        [rooted |-> TRUE, path |-> cleanPrefix(text)]).path
             group    == [host |-> parent.host, prefix |-> prefix,
                          middlewares |-> newGroup(combined.heap, combined.slice).slice,
                          asked |-> parent.asked \o Wanted(arg),
                          under |-> parent.under \o Resolved(text.path)]
  <2>1. groups' = Append(groups, group)
    BY <1>4 DEF Subgroup
  <2>2. group.prefix = prefix /\ group.under = parent.under \o Resolved(text.path)
    OBVIOUS
  <2>3. text \in PathText
    BY <1>0, TextType
  <2>4. parent.prefix \in Seq(Plain) /\ parent.prefix = parent.under
    BY DEF PrefixesOK
  <2>5. /\ prefix = parent.prefix \o Resolved(text.path)
        /\ parent.prefix \o Resolved(text.path) \in Seq(Plain)
    BY <2>3, <2>4, SubgroupPrefix
  <2> HIDE DEF group, prefix, parent
  <2> QED
    BY <2>1, <2>2, <2>4, <2>5, PrefixKept
<1>5. ASSUME NEW g \in DOMAIN groups, NEW arg, NEW spare, GroupUse(g, arg, spare)
      PROVE  PrefixesOK'
  <2> DEFINE after == Appended(heap, groups[g].middlewares, Wanted(arg), spare)
  <2>1. groups' = [groups EXCEPT ![g].middlewares = after.slice, ![g].asked = @ \o Wanted(arg)]
    BY <1>5 DEF GroupUse
  <2> HIDE DEF after
  <2>2. DOMAIN groups' = DOMAIN groups /\ \A h \in DOMAIN groups \ {g} : groups'[h] = groups[h]
    BY <2>1
  <2>3. groups[g] = [host |-> groups[g].host, prefix |-> groups[g].prefix,
                     middlewares |-> groups[g].middlewares, asked |-> groups[g].asked,
                     under |-> groups[g].under]
    BY DEF IInv, GroupsOK, IsGroup
  <2>4. groups'[g].prefix = groups[g].prefix /\ groups'[g].under = groups[g].under
    BY <2>1, <2>3
  <2> QED
    BY <2>2, <2>4 DEF PrefixesOK
<1> QED
  BY <1>1, <1>2, <1>3, <1>4, <1>5
     DEF Next, vars, Use, Handle, RegisterPprof, AppendCommon, AssignCommon, Stopped

\* The base of the pprof paths is a prefix too, and not "/".
LEMMA PprofPrefix ==
    ASSUME NEW text \in PathText
    PROVE  PprofBase(text) \in Seq(Plain) /\ PprofBase(text) # <<>>
<1>1. cleanPrefix(text) \in Seq(Plain)
  BY PrefixOfText
<1>2. Static("debug") \in Piece /\ Static("pprof") \in Piece
  BY PprofAssumption DEF Piece, Static
<1>3. Static("debug") \notin {Empty, Dot, Up} /\ Static("pprof") \notin {Empty, Dot, Up}
  BY Zenon DEF Static, Empty, Dot, Up
<1>4. <<Static("debug"), Static("pprof")>> \in Seq(Plain)
  BY <1>2, <1>3 DEF Plain
<1>5. <<Static("debug"), Static("pprof")>> # <<>>
  OBVIOUS
<1> QED
  BY <1>1, <1>4, <1>5 DEF PprofBase

\* A new route lies under its prefix.
LEMMA RoutesStep == UnderInv /\ [Next]_vars => RoutesUnderPrefix'
<1> SUFFICES ASSUME UnderInv, [Next]_vars PROVE RoutesUnderPrefix'
  OBVIOUS
<1>0. program \in Programs
  BY DEF UnderInv, IInv, SlicesOK
<1>1. (\A r \in routes' \ routes : Under(r)) => RoutesUnderPrefix'
  <2>1. \A r \in routes : Under(r)
    BY DEF UnderInv, RoutesUnderPrefix, Under
  <2>2. RoutesUnderPrefix' <=> \A r \in routes' : Under(r)
    BY DEF RoutesUnderPrefix, Under
  <2> QED
    BY <2>1, <2>2
<1>2. CASE UNCHANGED routes
  BY <1>1, <1>2
<1>3. ASSUME NEW g \in DOMAIN groups, NEW text \in program.patterns, Handle(g, text)
      PROVE  \A r \in routes' \ routes : Under(r)
  <2> DEFINE group  == groups[g]
             joined == joinPaths(group.prefix, text)
             chain  == Chain(group.middlewares)
             new    == [host |-> group.host, method |-> "GET", pattern |-> joined.path,
                        chain |-> chain, asked |-> group.asked, under |-> group.under,
                        given |-> text]
  <2>1. routes' = routes \cup {new} /\ joined.rooted /\ CleanPath(joined.path) = joined.path
    BY <1>3 DEF Handle, Registrable
  <2>2. new.pattern = joined.path /\ new.under = group.under /\ new.given = text
    OBVIOUS
  <2>3. group.prefix \in Seq(Plain) /\ group.prefix = group.under
    BY DEF UnderInv, PrefixesOK
  <2>4. text \in PathText
    BY <1>0, TextType
  <2> HIDE DEF new, group
  <2>5. Under(new)
    BY <2>1, <2>2, <2>3, <2>4, JoinedUnder
  <2> QED
    BY <2>1, <2>5
<1>4. ASSUME NEW text \in program.prefixes, RegisterPprof(text)
      PROVE  \A r \in routes' \ routes : Under(r)
  <2> DEFINE base     == PprofBase(text)
             path(n)  == Append(base, Static(Endpoints[n][2]))
             chain    == Chain(NilSlice)
             given(n) == [rooted |-> TRUE, path |-> <<Static(Endpoints[n][2])>>]
             route(n) == [host |-> NoHost, method |-> Endpoints[n][1], pattern |-> path(n),
                          chain |-> chain, asked |-> <<>>, under |-> base, given |-> given(n)]
             fits(n)  == Registrable(routes, NoHost, Endpoints[n][1],
                                     [rooted |-> TRUE, path |-> path(n)], chain)
             first    == {k \in 1 .. Len(Endpoints) : \A j \in 1 .. k : fits(j)}
  <2>1. routes' = routes \cup {route(n) : n \in first}
    BY <1>4 DEF RegisterPprof
  <2>2. base \in Seq(Plain) /\ base # <<>>
    <3>1. text \in PathText
      BY <1>0, TextType
    <3> QED
      BY <3>1, PprofPrefix
  <2>3. DOMAIN Endpoints = 1 .. Len(Endpoints)
    BY DEF Endpoints
  <2>4. ASSUME NEW n \in first PROVE Under(route(n))
    <3>1. n \in 1 .. Len(Endpoints) /\ n \in Nat /\ n > 0 /\ fits(n)
      BY <2>3
    <3>2. CleanPath(path(n)) = path(n)
      BY <3>1 DEF Registrable
    <3>3. Static(Endpoints[n][2]) \in Piece
      <4>1. Endpoints[n][2] \in STRING
        BY <2>3, <3>1, PprofAssumption
      <4> QED
        BY <4>1 DEF Piece, Static
    <3> DEFINE x == Static(Endpoints[n][2])
               gave == given(n)
               new == route(n)
    <3>4. gave \in PathText /\ gave.rooted = TRUE /\ gave.path = <<x>> /\ gave # NoText
      <4>1. gave.rooted = TRUE /\ gave.path = <<x>> /\ gave = [rooted |-> TRUE, path |-> <<x>>]
        OBVIOUS
      <4>2. <<x>> \in Seq(Piece) \ {<<>>}
        BY <3>3
      <4> HIDE DEF x, gave
      <4>3. NoText.rooted = FALSE
        BY DEF NoText
      <4> QED
        BY <4>1, <4>2, <4>3 DEF PathText
    <3>5. new.pattern = path(n) /\ new.under = base /\ new.given = gave
      OBVIOUS
    <3>6. joinPaths(base, gave).rooted /\ joinPaths(base, gave).path = base \o <<x>>
      <4> HIDE DEF gave, base, x
      <4> QED
        BY <2>2, <3>4 DEF joinPaths
    <3>7. base \o <<x>> = Append(base, x)
      <4>1. base \in Seq(Piece) /\ x \in Piece
        BY <2>2, <3>3 DEF Plain
      <4> HIDE DEF base, x
      <4> QED
        BY <4>1, AppendIsConcat
    <3>8. new.pattern = joinPaths(base, gave).path /\ CleanPath(new.pattern) = new.pattern
      BY <3>2, <3>5, <3>6, <3>7
    <3> HIDE DEF new, gave, base
    <3>9. Under(new)
      BY <2>2, <3>4, <3>5, <3>6, <3>8, JoinedUnder
    <3> QED
      BY <3>9 DEF new
  <2> HIDE DEF route, first
  <2> QED
    BY <2>1, <2>4
<1>5. /\ \A arg, spare : Use(arg, spare) => UNCHANGED routes
      /\ \A host : Host(host) => UNCHANGED routes
      /\ \A text, arg : Group(text, arg) => UNCHANGED routes
  BY DEF Use, Host, Group
<1>6. /\ \A g, text, arg : Subgroup(g, text, arg) => UNCHANGED routes
      /\ \A g, arg, spare : GroupUse(g, arg, spare) => UNCHANGED routes
  BY DEF Subgroup, GroupUse
<1>7. /\ \A spare : AppendCommon(spare) => UNCHANGED routes
      /\ AssignCommon => UNCHANGED routes
  BY DEF AppendCommon, AssignCommon
<1>8. UNCHANGED vars \/ Stopped => UNCHANGED routes
  BY DEF vars, Stopped
<1> QED
  BY <1>1, <1>2, <1>3, <1>4, <1>5, <1>6, <1>7, <1>8 DEF Next

\* Whatever prefixes are nested, a route lies under those of its group, each taken
\* as an absolute path; pprof's routes lie under their base.
THEOREM RoutesUnder == Spec => []RoutesUnderPrefix
<1>1. Init => UnderInv
  BY InitOK DEF Init, UnderInv, PrefixesOK, RoutesUnderPrefix
<1>2. UnderInv /\ [Next]_vars => UnderInv'
  <2>1. IInv /\ [Next]_vars => IInv'
    BY KeptInv
  <2> QED
    BY <2>1, PrefixStep, RoutesStep DEF UnderInv
<1>3. UnderInv => RoutesUnderPrefix
  BY DEF UnderInv
<1> QED
  BY <1>1, <1>2, <1>3, PTL DEF Spec
=============================================================================
