----------------------- MODULE TelemetryDetails_proofs -----------------------
(***************************************************************************)
(* Proofs about the details dialogue, for any keys, states, times and      *)
(* bounds: values are written to the keys they were read from or entered   *)
(* for, and schedules keep states that the device knows, in order of time. *)
(***************************************************************************)
EXTENDS TelemetryDetails, FiniteSetTheorems, SequenceTheorems, TLAPS

(***************************************************************************)
(* Order and numbers                                                       *)
(***************************************************************************)

\* Of some numbers up to another one is the least.
LEMMA LeastOf == ASSUME NEW N \in Nat, NEW B \in SUBSET (0 .. N), B # {} PROVE \E m \in B : \A k \in 0 .. m - 1 : k \notin B
<1>1. IsWellFoundedOn(OpToRel(<,Nat), Nat)
  BY NatLessThanWellFounded
<1>2. B \subseteq Nat
  OBVIOUS
<1>3. PICK m \in B : \A k \in B : <<k, m>> \notin OpToRel(<,Nat)
  BY <1>1, <1>2, WFMin, Zenon
<1>4. ASSUME NEW k \in B PROVE ~ (k < m)
  <2>1. <<k, m>> \in Nat \X Nat /\ <<k, m>> \notin OpToRel(<,Nat)
    BY <1>2, <1>3
  <2> QED BY <2>1, Zenon DEF OpToRel
<1> QED BY <1>2, <1>4

\* A set of numbers has a smallest one.
LEMMA SmallestOf == ASSUME NEW S \in SUBSET Nat, S # {} PROVE \E m \in S : \A k \in S : m <= k
<1>1. PICK N \in S : TRUE
  OBVIOUS
<1> DEFINE B == {k \in S : k <= N}
<1>2. N \in Nat /\ B \in SUBSET (0 .. N) /\ B # {}
  <2>1. N \in Nat /\ N <= N /\ N \in S
    BY <1>1
  <2>2. \A k \in B : k \in 0 .. N
    BY <2>1
  <2>3. N \in B
    BY <2>1
  <2> QED BY <2>1, <2>2, <2>3
<1> HIDE DEF B
<1>3. PICK m \in B : \A k \in 0 .. m - 1 : k \notin B
  BY <1>2, LeastOf
<1>4. m \in S /\ m <= N
  BY <1>3 DEF B
<1>5. ASSUME NEW k \in S PROVE m <= k
  <2>1. k < m => k \in 0 .. m - 1 /\ k \in B
    BY <1>2, <1>4 DEF B
  <2> QED BY <1>3, <1>4, <2>1
<1> QED BY <1>4, <1>5

\* The first of the times there are.
LEMMA FirstIsTime == FirstTime \in Times /\ FirstTime \in Nat
BY ConstantsAssumption, SmallestOf DEF FirstTime, ConstantsAssumption

\* Entries in order of time, each with all before it.
Rising(s) == \A i, j \in DOMAIN s : i < j => s[i].time <= s[j].time

\* There is a place for an entry among entries in order.
LEMMA Placed ==
  ASSUME NEW S, \A e \in S : e.time \in Nat, NEW s \in Seq(S), Rising(s), NEW e \in S
  PROVE  /\ Place(s, e) \in 0 .. Len(s)
         /\ \A i \in 1 .. Place(s, e) : s[i].time <= e.time
         /\ \A i \in Place(s, e) + 1 .. Len(s) : e.time < s[i].time
<1> DEFINE n == Len(s)
           B == {i \in 1 .. n : e.time < s[i].time}
           Fits(k) == (\A i \in 1 .. k : s[i].time <= e.time) /\ (\A i \in k + 1 .. n : e.time < s[i].time)
<1>1. n \in Nat /\ DOMAIN s = 1 .. n /\ e.time \in Nat /\ \A i \in 1 .. n : s[i].time \in Nat
  OBVIOUS
<1>2. B \in SUBSET (0 .. n)
  OBVIOUS
<1>3. \E k \in 0 .. n : Fits(k)
  <2>1. CASE B = {}
    <3>1. Fits(n)
      BY <1>1, <2>1
    <3> HIDE DEF Fits
    <3> QED BY <1>1, <3>1
  <2>2. CASE B # {}
    <3> HIDE DEF B, n
    <3>1. PICK m \in B : \A k \in 0 .. m - 1 : k \notin B
      BY <1>1, <1>2, <2>2, LeastOf
    <3>2. m \in 1 .. n /\ e.time < s[m].time /\ m - 1 \in 0 .. n
      BY <1>1, <3>1 DEF B
    <3>3. ASSUME NEW i \in 1 .. m - 1 PROVE s[i].time <= e.time
      <4>1. i \in 0 .. m - 1 /\ i \in 1 .. n
        BY <1>1, <3>2
      <4>2. i \notin B
        BY <3>1, <4>1
      <4>3. ~ (e.time < s[i].time)
        BY <4>1, <4>2 DEF B
      <4> QED BY <1>1, <4>1, <4>3
    <3>4. ASSUME NEW i \in m - 1 + 1 .. n PROVE e.time < s[i].time
      <4>1. i = m \/ (m < i /\ i \in 1 .. n)
        BY <1>1, <3>2
      <4>2. CASE i = m
        BY <3>2, <4>2
      <4>3. CASE i # m
        <5>1. s[m].time <= s[i].time
          BY <1>1, <3>2, <4>1, <4>3 DEF Rising
        <5> QED BY <1>1, <3>2, <4>1, <4>3, <5>1
      <4> QED BY <4>2, <4>3
    <3> QED BY <3>2, <3>3, <3>4
  <2> QED BY <2>1, <2>2
<1>4. Place(s, e) = CHOOSE k \in 0 .. n : Fits(k)
  BY DEF Place
<1> HIDE DEF Fits, n
<1>5. Place(s, e) \in 0 .. n /\ Fits(Place(s, e))
  BY <1>3, <1>4
<1> QED BY <1>5 DEF Fits, n

\* What is inserted at its place leaves the entries in order, and adds no other.
LEMMA InsertedRises ==
  ASSUME NEW S, \A e \in S : e.time \in Nat, NEW s \in Seq(S), Rising(s), NEW e \in S
  PROVE  Inserted(s, e) \in Seq(S) /\ Rising(Inserted(s, e))
<1> DEFINE n == Len(s)
           k == Place(s, e)
           r == Inserted(s, e)
           At(i) == IF i <= k THEN s[i] ELSE IF i = k + 1 THEN e ELSE s[i - 1]
<1>1. n \in Nat /\ DOMAIN s = 1 .. n /\ e.time \in Nat /\ \A i \in 1 .. n : s[i] \in S /\ s[i].time \in Nat
  OBVIOUS
<1>2. k \in 0 .. n /\ (\A i \in 1 .. k : s[i].time <= e.time) /\ (\A i \in k + 1 .. n : e.time < s[i].time)
  BY Placed
<1>3. r = [i \in 1 .. n + 1 |-> At(i)]
  BY DEF Inserted
<1> HIDE DEF n, k, r
<1>4. \A i \in 1 .. n + 1 : (i <= k => i \in 1 .. n /\ i \in 1 .. k) /\ (i > k + 1 => i - 1 \in 1 .. n /\ i - 1 \in k + 1 .. n)
  BY <1>1, <1>2
<1>5. \A i \in 1 .. n + 1 : At(i) \in S
  BY <1>1, <1>2, <1>4
<1>6. r \in Seq(S)
  <2>1. n + 1 \in Nat
    BY <1>1
  <2> HIDE DEF At
  <2> QED BY <1>3, <1>5, <2>1, IsASeq
<1>7. DOMAIN r = 1 .. n + 1 /\ \A i \in 1 .. n + 1 : r[i] = At(i)
  BY <1>3
<1>8. ASSUME NEW i \in 1 .. n + 1, NEW j \in 1 .. n + 1, i < j PROVE At(i).time <= At(j).time
  <2>1. CASE j <= k
    <3>1. i <= k /\ i \in 1 .. n /\ j \in 1 .. n
      BY <1>2, <1>4, <1>8, <2>1
    <3> QED BY <1>1, <1>8, <2>1, <3>1 DEF Rising
  <2>2. CASE i <= k /\ j = k + 1
    <3>1. At(i) = s[i] /\ At(j) = e /\ i \in 1 .. k
      BY <1>2, <1>4, <2>2
    <3> QED BY <1>2, <3>1
  <2>3. CASE i <= k /\ j > k + 1
    <3>1. At(i) = s[i] /\ At(j) = s[j - 1] /\ i \in 1 .. n /\ j - 1 \in 1 .. n /\ i < j - 1
      BY <1>2, <1>4, <2>3
    <3> HIDE DEF At
    <3> QED BY <1>1, <3>1 DEF Rising
  <2>4. CASE i = k + 1
    <3>1. At(i) = e /\ At(j) = s[j - 1] /\ j - 1 \in 1 .. n /\ j - 1 \in k + 1 .. n
      BY <1>2, <1>4, <1>8, <2>4
    <3>2. e.time < s[j - 1].time
      BY <1>2, <3>1
    <3> HIDE DEF At
    <3> QED BY <1>1, <3>1, <3>2
  <2>5. CASE i > k + 1
    <3>1. At(i) = s[i - 1] /\ At(j) = s[j - 1] /\ i - 1 \in 1 .. n /\ j - 1 \in 1 .. n /\ i - 1 < j - 1
      BY <1>2, <1>4, <1>8, <2>5
    <3> HIDE DEF At
    <3> QED BY <1>1, <3>1 DEF Rising
  <2> QED BY <1>1, <1>2, <1>8, <2>1, <2>2, <2>3, <2>4, <2>5
<1>9. Rising(r)
  <2> HIDE DEF At
  <2> QED BY <1>7, <1>8 DEF Rising
<1> QED BY <1>6, <1>9 DEF r

\* f has the first entries of a sequence in order, for as many as n.
Orders(s, n, f) == f = [i \in 0 .. n |-> IF i = 0 THEN <<>> ELSE Inserted(f[i - 1], s[i])]

\* There is such a function for each number of them.
LEMMA SomeOrders == ASSUME NEW s, NEW N \in Nat PROVE \E f : Orders(s, N, f)
<1> DEFINE B == {n \in 0 .. N : ~\E f : Orders(s, n, f)}
<1>1. SUFFICES ASSUME B # {} PROVE FALSE
  OBVIOUS
<1>2. B \in SUBSET (0 .. N)
  OBVIOUS
<1> HIDE DEF B
<1>3. PICK m \in B : \A k \in 0 .. m - 1 : k \notin B
  BY <1>1, <1>2, LeastOf
<1>4. m \in 0 .. N /\ ~\E f : Orders(s, m, f)
  BY <1>3 DEF B
<1>5. CASE m = 0
  <2>1. Orders(s, 0, [i \in 0 .. 0 |-> <<>>])
    BY DEF Orders
  <2> QED BY <1>4, <1>5, <2>1
<1>6. CASE m # 0
  <2>1. m - 1 \in 0 .. m - 1 /\ m - 1 \in 0 .. N
    BY <1>4, <1>6
  <2>2. PICK f : Orders(s, m - 1, f)
    BY <1>3, <2>1 DEF B
  <2> DEFINE e == Inserted(f[m - 1], s[m])
             g == [i \in 0 .. m |-> IF i = m THEN e ELSE f[i]]
  <2>3. \A i \in 0 .. m - 1 : g[i] = f[i]
    BY <1>4
  <2>4. \A i \in 0 .. m - 1 : f[i] = IF i = 0 THEN <<>> ELSE Inserted(f[i - 1], s[i])
    BY <2>2 DEF Orders
  <2>5. ASSUME NEW i \in 0 .. m PROVE g[i] = IF i = 0 THEN <<>> ELSE Inserted(g[i - 1], s[i])
    <3>1. CASE i = m
      <4>1. g[m] = e /\ g[m - 1] = f[m - 1]
        BY <1>4, <2>1, <2>3
      <4> QED BY <1>6, <3>1, <4>1
    <3>2. CASE i # m
      <4>1. i \in 0 .. m - 1 /\ (i # 0 => i - 1 \in 0 .. m - 1)
        BY <1>4, <3>2
      <4> HIDE DEF g
      <4> QED BY <2>3, <2>4, <4>1
    <3> QED BY <3>1, <3>2
  <2>6. g = [i \in 0 .. m |-> g[i]]
    OBVIOUS
  <2> HIDE DEF g, e
  <2>7. Orders(s, m, g)
    BY <2>5, <2>6 DEF Orders
  <2> QED BY <1>4, <2>7
<1> QED BY <1>5, <1>6

\* Entries are sorted by time, and no other comes in (saveSchedule).
LEMMA InOrderRises ==
  ASSUME NEW S, \A e \in S : e.time \in Nat, NEW s \in Seq(S)
  PROVE  InOrder(s) \in Seq(S) /\ Rising(InOrder(s))
<1> DEFINE n == Len(s)
           f == CHOOSE g : Orders(s, n, g)
           Good(r) == r \in Seq(S) /\ Rising(r)
           B == {i \in 0 .. n : ~Good(f[i])}
<1>1. n \in Nat /\ n \in 0 .. n /\ \A i \in 1 .. n : s[i] \in S
  OBVIOUS
<1>2. InOrder(s) = f[n]
  BY DEF InOrder, Orders
<1> HIDE DEF n
<1>3. Orders(s, n, f)
  BY <1>1, SomeOrders
<1> HIDE DEF f
<1>4. \A i \in 0 .. n : f[i] = IF i = 0 THEN <<>> ELSE Inserted(f[i - 1], s[i])
  BY <1>3 DEF Orders
<1>5. B = {}
  <2> SUFFICES ASSUME B # {} PROVE FALSE
    OBVIOUS
  <2>1. B \in SUBSET (0 .. n)
    OBVIOUS
  <2> HIDE DEF B, Good
  <2>2. PICK m \in B : \A k \in 0 .. m - 1 : k \notin B
    BY <1>1, <2>1, LeastOf
  <2>3. m \in 0 .. n /\ ~Good(f[m])
    BY <2>2 DEF B
  <2>4. CASE m = 0
    <3>1. f[m] = <<>>
      BY <1>4, <2>3, <2>4
    <3>2. Good(<<>>)
      BY DEF Good, Rising
    <3> QED BY <2>3, <3>1, <3>2
  <2>5. CASE m # 0
    <3>1. m - 1 \in 0 .. m - 1 /\ m - 1 \in 0 .. n /\ m \in 1 .. n
      BY <1>1, <2>3, <2>5
    <3>2. Good(f[m - 1])
      BY <2>2, <3>1 DEF B
    <3>3. f[m] = Inserted(f[m - 1], s[m]) /\ s[m] \in S
      BY <1>1, <1>4, <2>3, <2>5, <3>1
    <3> DEFINE r == f[m - 1]
               e == s[m]
    <3>4. Good(r) /\ e \in S
      BY <3>2, <3>3
    <3> HIDE DEF r, e
    <3>5. Good(Inserted(r, e))
      BY <3>4, InsertedRises DEF Good
    <3> QED BY <2>3, <3>3, <3>5 DEF r, e
  <2> QED BY <2>4, <2>5
<1> QED BY <1>1, <1>2, <1>5

\* An identity is found, whatever the requests are.
LEMMA NextIdFound == ASSUME IsFiniteSet(tasks), NEW op PROVE NextId(op) \in Nat \ {0}
<1> DEFINE T == {t \in tasks : t.op \in Like(op)}
           L == {t.id : t \in T}
           K == Cardinality(tasks) + 1
           B == {i \in 1 .. K : i \notin L}
           Free(i) == \A t \in tasks : t.op \in Like(op) => t.id # i
<1>1. IsFiniteSet(T) /\ Cardinality(T) <= Cardinality(tasks) /\ Cardinality(tasks) \in Nat /\ Cardinality(T) \in Nat
  BY FS_Subset, FS_CardinalityType
<1>2. IsFiniteSet(L) /\ Cardinality(L) <= Cardinality(T) /\ Cardinality(L) \in Nat
  <2> DEFINE g == [t \in T |-> t.id]
  <2>1. g \in Surjection(T, L)
    BY DEF Surjection
  <2> HIDE DEF g, T, L
  <2> QED BY <1>1, <2>1, FS_Surjection, FS_CardinalityType
<1>3. K \in Nat /\ IsFiniteSet(1 .. K) /\ Cardinality(1 .. K) = K
  <2>1. K \in Nat
    BY <1>1
  <2> HIDE DEF K
  <2> QED BY <2>1, FS_Interval
<1>4. \A i : i \in L <=> ~Free(i)
  OBVIOUS
<1> HIDE DEF L, T
<1>5. B # {}
  <2> SUFFICES ASSUME B = {} PROVE FALSE
    OBVIOUS
  <2>1. 1 .. K \subseteq L
    OBVIOUS
  <2>2. Cardinality(1 .. K) <= Cardinality(L)
    BY <1>2, <2>1, FS_Subset
  <2> QED BY <1>1, <1>2, <1>3, <2>2
<1>6. B \in SUBSET (0 .. K)
  BY <1>3
<1> HIDE DEF B, Free, K
<1>7. PICK m \in B : \A n \in 0 .. m - 1 : n \notin B
  BY <1>3, <1>5, <1>6, LeastOf
<1>8. m \in 1 .. K /\ Free(m)
  BY <1>4, <1>7 DEF B
<1>9. ASSUME NEW j \in 1 .. m - 1 PROVE \E t \in tasks : t.op \in Like(op) /\ t.id = j
  <2>1. j \in 0 .. m - 1 /\ j \in 1 .. K
    BY <1>3, <1>8
  <2>2. ~Free(j)
    BY <1>4, <1>7, <2>1 DEF B
  <2> QED BY <2>2 DEF Free
<1>10. NextId(op) \in 1 .. K
  <2>1. NextId(op) = CHOOSE i \in 1 .. K : Free(i) /\ \A j \in 1 .. i - 1 : \E t \in tasks : t.op \in Like(op) /\ t.id = j
    BY DEF NextId, K, Free
  <2> QED BY <1>8, <1>9, <2>1
<1> QED BY <1>3, <1>10

(***************************************************************************)
(* Types                                                                   *)
(***************************************************************************)

\* What requests are for.
Ops == Opening \cup {"reload", "refresh", "write", "save"}

\* A new request is one.
LEMMA TaskTyped ==
  ASSUME IsFiniteSet(tasks), NEW op \in Ops, NEW k \in Keys \cup {NoKey}, NEW v \in Nat
  PROVE  Task(op, k, v) \in Tasks /\ Task(op, k, v).op = op /\ Task(op, k, v).key = k
<1>1. NextId(op) \in Nat \ {0}
  BY NextIdFound
<1>2. <<>> \in Seq(Entries)
  OBVIOUS
<1> QED BY <1>1, <1>2 DEF Task, Tasks, Ops

\* What a key's value is, as a text.
Texts == {x \in [key : Keys \cup {NoKey}, val : Nat, raw : BOOLEAN] : x.raw \/ x.val > 0}

\* No text is a text.
LEMMA NoTextTyped == NoText \in Texts /\ NoText.key = NoKey
BY DEF NoText, Texts

\* So is a value of a key.
LEMMA LatestTyped ==
  ASSUME NEW k \in Keys, NEW v \in Nat, Kind[k] = "enum" => v > 0
  PROVE  Latest(k, v) \in Texts /\ Latest(k, v).key = k
BY DEF Latest, Texts

\* A number that is read back from its text is one.
LEMMA ParseFloatTyped == ASSUME NEW v \in Nat PROVE ParseFloat(v) \in Nat
<1>1. v \div 1000000 \in Nat /\ v \div 10 \in Nat /\ v \div 1000 \in Nat
  OBVIOUS
<1>2. (v \div 1000000) * 1000 \in Nat /\ (v \div 10) * 10 \in Nat /\ (v \div 1000) * 1000 \in Nat
  BY <1>1
<1> QED BY <1>1, <1>2 DEF ParseFloat

\* An input takes a number from any text.
LEMMA FilledTyped == ASSUME NEW kind, NEW text \in Texts PROVE Filled(kind, text) \in Nat
<1>1. text.val \in Nat /\ text.raw \in BOOLEAN /\ (text.raw \/ text.val > 0)
  BY DEF Texts
<1>2. Ordinal(text) \in Nat
  <2>1. (text.val + 500) \div 1000 \in Nat
    BY <1>1
  <2> QED BY <1>1, <2>1 DEF Ordinal
<1>3. Thousandths(text) \in Nat
  <2>1. text.val * 1000 \in Nat
    BY <1>1
  <2> QED BY <1>1, <2>1, ParseFloatTyped DEF Thousandths
<1>4. NoOption \in Nat
  BY ConstantsAssumption DEF ConstantsAssumption, NoOption
<1>5. ~text.raw => text.val - 1 \in Nat
  BY <1>1
<1> QED BY <1>2, <1>3, <1>4, <1>5 DEF Filled

\* The inputs with one filled from a text.
Inputs == [Groups -> [val : Nat, from : Keys \cup {NoKey}]]

\* They are filled with numbers.
LEMMA FillTyped ==
  ASSUME inputs \in Inputs, NEW k \in Keys, Kind[k] # "schedule", NEW text \in Texts
  PROVE  Kind[k] \in Groups /\ Fill(k, text) \in Inputs /\ Fill(k, text)[Kind[k]].from = text.key
<1>1. Kind[k] \in Groups
  BY ConstantsAssumption DEF ConstantsAssumption, Kinds, Groups
<1>2. Filled(Kind[k], text) \in Nat /\ text.key \in Keys \cup {NoKey}
  BY FilledTyped DEF Texts
<1> QED BY <1>1, <1>2 DEF Fill, Inputs

\* What is sent is a number.
LEMMA SubmittedTyped == ASSUME inputs \in Inputs, group \in Groups PROVE Submitted \in Nat
<1>1. \A g \in Groups : inputs[g].val \in Nat
  BY DEF Inputs
<1> QED BY <1>1 DEF Submitted, Groups

\* The types and what is sound of the dialogue, in parts: what is shown,
Shown(m, o, c, s, h, r, w) ==
    /\ m \in BOOLEAN /\ o \in BOOLEAN /\ r \in BOOLEAN
    /\ c \in Keys \cup {NoKey} /\ s = c /\ m = (c # NoKey) /\ h \in Keys \cup {NoKey, NoChart}
    /\ w \in [mode : {"realtime", "history"}, set : BOOLEAN]
\* what is edited,
Edited(l, g, i, e, s) == l \in Texts /\ g \in Groups \cup {"none"} /\ i \in Inputs /\ e \in BOOLEAN /\ s \in BOOLEAN
\* the schedule,
Scheduled(s, e, v) == s \in Schedules /\ e \in BOOLEAN /\ v \in BOOLEAN
\* one request,
Asks(t) == t \in Tasks /\ (t.op \in {"latest", "props", "refresh", "write", "save"} => t.key \in Keys)
\* and all of them with the timeouts,
Pending(ts, rs) == IsFiniteSet(ts) /\ (\A t \in ts : Asks(t)) /\ rs \subseteq {"reload", "leave", "schedule"} \X Keys
\* and the devices.
Devices(d, s) == d \in [Keys -> Nat] /\ (\A k \in Keys : Kind[k] = "enum" => d[k] > 0) /\ s \in [Keys -> Seq(Entries)]

\* All parts.
Sound ==
    /\ Shown(modal, overlay, current, sidebar, chart, timer, tw)
    /\ Edited(live, group, inputs, editing, saving)
    /\ Scheduled(sched, schedEditing, schedSaving)
    /\ Pending(tasks, timers)
    /\ Devices(dev, devSched)

\* They are the types and what is sound.
LEMMA SoundIs == Sound <=> TypeOK /\ DialogueSound
<1>1. Edited(live, group, inputs, editing, saving)
      <=> /\ live \in [key : Keys \cup {NoKey}, val : Nat, raw : BOOLEAN] /\ (live.raw \/ live.val > 0)
          /\ group \in Groups \cup {"none"} /\ inputs \in [Groups -> [val : Nat, from : Keys \cup {NoKey}]]
          /\ editing \in BOOLEAN /\ saving \in BOOLEAN
  BY DEF Edited, Texts, Inputs
<1>2. (\A t \in tasks : Asks(t)) <=> /\ tasks \subseteq Tasks
                                     /\ \A t \in tasks : t.op \in {"latest", "props", "refresh", "write", "save"} => t.key \in Keys
  BY DEF Asks
<1>3. Shown(modal, overlay, current, sidebar, chart, timer, tw)
      <=> /\ modal \in BOOLEAN /\ overlay \in BOOLEAN /\ timer \in BOOLEAN
          /\ current \in Keys \cup {NoKey} /\ sidebar \in Keys \cup {NoKey} /\ chart \in Keys \cup {NoKey, NoChart}
          /\ tw \in [mode : {"realtime", "history"}, set : BOOLEAN]
          /\ sidebar = current /\ modal = (current # NoKey)
  BY DEF Shown
<1> QED BY <1>1, <1>2, <1>3 DEF Sound, TypeOK, DialogueSound, Scheduled, Pending, Devices

\* Another request is made.
LEMMA Asked ==
  ASSUME Pending(tasks, timers), NEW op \in Ops, NEW k \in Keys \cup {NoKey}, NEW v \in Nat,
         op \in {"latest", "props", "refresh", "write", "save"} => k \in Keys
  PROVE  Pending(tasks \cup {Task(op, k, v)}, timers)
<1>1. IsFiniteSet(tasks)
  BY DEF Pending
<1>2. Asks(Task(op, k, v))
  BY <1>1, TaskTyped DEF Asks
<1>3. IsFiniteSet(tasks \cup {Task(op, k, v)})
  BY <1>1, FS_AddElement
<1> QED BY <1>2, <1>3 DEF Pending

\* One is answered, and some timeouts fire.
LEMMA Answered ==
  ASSUME Pending(tasks, timers), NEW t, NEW rs \in SUBSET ({"reload", "leave", "schedule"} \X Keys)
  PROVE  Pending(tasks \ {t}, rs)
<1>1. IsFiniteSet(tasks \ {t})
  BY FS_RemoveElement DEF Pending
<1> QED BY <1>1 DEF Pending

\* One is answered, and asks for something else.
LEMMA AnsweredOn ==
  ASSUME Pending(tasks, timers), NEW t, NEW u, Asks(u)
  PROVE  Pending((tasks \ {t}) \cup {u}, timers)
<1>1. IsFiniteSet((tasks \ {t}) \cup {u})
  BY FS_RemoveElement, FS_AddElement DEF Pending
<1> QED BY <1>1 DEF Pending

\* States are counted from another one.
LEMMA Recounted ==
  ASSUME NEW s \in Seq(Entries)
  PROVE  /\ [i \in DOMAIN s |-> [s[i] EXCEPT !.val = @ - 1]] \in Seq(Entries)
         /\ [i \in DOMAIN s |-> [s[i] EXCEPT !.val = @ + 1]] \in Seq(Entries)
<1>1. DOMAIN s = 1 .. Len(s) /\ Len(s) \in Nat
  OBVIOUS
<1>2. ASSUME NEW e \in Entries PROVE [e EXCEPT !.val = @ - 1] \in Entries /\ [e EXCEPT !.val = @ + 1] \in Entries
  BY DEF Entries
<1>3. \A i \in 1 .. Len(s) : s[i] \in Entries
  OBVIOUS
<1> DEFINE Down(i) == [s[i] EXCEPT !.val = @ - 1]
           Up(i) == [s[i] EXCEPT !.val = @ + 1]
<1>4. \A i \in 1 .. Len(s) : Down(i) \in Entries /\ Up(i) \in Entries
  BY <1>2, <1>3
<1>5. [i \in DOMAIN s |-> [s[i] EXCEPT !.val = @ - 1]] = [i \in 1 .. Len(s) |-> Down(i)]
  BY <1>1
<1>6. [i \in DOMAIN s |-> [s[i] EXCEPT !.val = @ + 1]] = [i \in 1 .. Len(s) |-> Up(i)]
  BY <1>1
<1> HIDE DEF Down, Up
<1>7. [i \in 1 .. Len(s) |-> Down(i)] \in Seq(Entries) /\ [i \in 1 .. Len(s) |-> Up(i)] \in Seq(Entries)
  BY <1>1, <1>4, IsASeq
<1> QED BY <1>5, <1>6, <1>7

\* What is loaded, what is sent and what is typed are schedules.
LEMMA SchedulesTyped ==
  /\ \A s \in Seq(Entries) : Decoded(s) \in Seq(Entries)
  /\ \A c : c.entries \in Seq(Entries) => Coded(c) \in Seq(Entries)
  /\ \A s \in Seq(Entries) : InOrder(s) \in Seq(Entries)
  /\ \A s \in Seq(Entries) : \A i \in DOMAIN s : Without(s, i) \in Seq(Entries)
<1>1. ASSUME NEW s \in Seq(Entries) PROVE Decoded(s) \in Seq(Entries)
  BY Recounted DEF Decoded
<1>2. ASSUME NEW c, c.entries \in Seq(Entries) PROVE Coded(c) \in Seq(Entries)
  <2> DEFINE s == c.entries
  <2>1. s \in Seq(Entries)
    BY <1>2
  <2>2. Coded(c) = IF c.type = "enumerated" THEN [i \in DOMAIN s |-> [s[i] EXCEPT !.val = @ + 1]] ELSE s
    BY DEF Coded
  <2> HIDE DEF s
  <2> QED BY <2>1, <2>2, Recounted
<1>3. ASSUME NEW s \in Seq(Entries) PROVE InOrder(s) \in Seq(Entries)
  <2>1. \A e \in Entries : e.time \in Nat
    BY DEF Entries
  <2> QED BY <2>1, InOrderRises
<1>4. ASSUME NEW s \in Seq(Entries), NEW i \in DOMAIN s PROVE Without(s, i) \in Seq(Entries)
  <2>1. Len(s) - 1 \in Nat /\ i \in 1 .. Len(s)
    OBVIOUS
  <2>2. ASSUME NEW j \in 1 .. Len(s) - 1 PROVE (IF j < i THEN s[j] ELSE s[j + 1]) \in Entries
    <3>1. j \in 1 .. Len(s) /\ j + 1 \in 1 .. Len(s)
      BY <2>1
    <3> QED BY <3>1
  <2> QED BY <2>1, <2>2, IsASeq DEF Without
<1> QED BY <1>1, <1>2, <1>3, <1>4

\* Leaving edit mode fills an input.
LEMMA LeaveTyped ==
  ASSUME Edited(live, group, inputs, editing, saving), current \in Keys \cup {NoKey}, LeaveEdit
  PROVE  inputs' \in Inputs /\ editing' = FALSE
<1>1. CASE current # NoKey /\ Kind[current] # "schedule"
  <2>1. Fill(current, live) \in Inputs
    BY <1>1, FillTyped DEF Edited
  <2> QED BY <1>1, <2>1 DEF LeaveEdit
<1>2. CASE ~(current # NoKey /\ Kind[current] # "schedule")
  BY <1>2 DEF LeaveEdit, Edited
<1> QED BY <1>1, <1>2

\* What an input may be set to.
LEMMA InputTyped == InputValues \subseteq Nat
BY ConstantsAssumption DEF ConstantsAssumption, InputValues

\* The dialogue is sound when it appears.
LEMMA SoundInit == ASSUME Init PROVE Sound
<1>1. Edited(live, group, inputs, editing, saving)
  BY NoTextTyped DEF Init, Edited, Inputs
<1>2. Devices(dev, devSched)
  <2>1. PICK low \in Numbers : \A x \in Numbers : low <= x
    BY ConstantsAssumption, SmallestOf DEF ConstantsAssumption
  <2> DEFINE n == CHOOSE n \in Numbers : \A m \in Numbers : n <= m
  <2>2. n \in Nat
    BY <2>1, ConstantsAssumption DEF ConstantsAssumption
  <2> HIDE DEF n
  <2>3. dev = [k \in Keys |-> IF Kind[k] = "number" THEN n ELSE 1]
    BY DEF Init, n
  <2>4. dev \in [Keys -> Nat] /\ (\A k \in Keys : Kind[k] = "enum" => dev[k] > 0)
    BY <2>2, <2>3
  <2>5. [time |-> FirstTime, val |-> 1] \in Entries
    BY FirstIsTime DEF Entries
  <2>6. <<[time |-> FirstTime, val |-> 1]>> \in Seq(Entries) /\ <<>> \in Seq(Entries)
    BY <2>5
  <2>7. devSched \in [Keys -> Seq(Entries)]
    BY <2>6 DEF Init
  <2> QED BY <2>4, <2>7 DEF Devices
<1>3. Pending(tasks, timers)
  BY FS_EmptySet DEF Init, Pending
<1>4. Shown(modal, overlay, current, sidebar, chart, timer, tw)
  BY DEF Init, Shown
<1>5. Scheduled(sched, schedEditing, schedSaving)
  <2>1. sched = [key |-> NoKey, type |-> "real", entries |-> <<>>] /\ <<>> \in Seq(Entries)
    BY DEF Init
  <2>2. schedEditing = FALSE /\ schedSaving = FALSE
    BY DEF Init
  <2> QED BY <2>1, <2>2 DEF Scheduled, Schedules
<1> QED BY <1>1, <1>2, <1>3, <1>4, <1>5 DEF Sound

\* The dialogue stays sound while the user does something.
LEMMA SoundUser == ASSUME Sound, User PROVE Sound'
<1>0. /\ Shown(modal, overlay, current, sidebar, chart, timer, tw)
      /\ Edited(live, group, inputs, editing, saving)
      /\ Scheduled(sched, schedEditing, schedSaving)
      /\ Pending(tasks, timers)
      /\ Devices(dev, devSched)
  BY DEF Sound
<1>c. current \in Keys \cup {NoKey} /\ NoKey \notin Keys
  BY <1>0, ConstantsAssumption DEF Shown, ConstantsAssumption
<1>1. ASSUME NEW k \in Keys, Open(k) PROVE Sound'
  <2>1. Shown(modal, overlay, current, sidebar, chart, timer, tw)'
    BY <1>0, <1>1, <1>c DEF Open, Shown
  <2>2. Edited(live, group, inputs, editing, saving)'
    BY <1>0, <1>1, NoTextTyped DEF Open, Edited
  <2>3. Scheduled(sched, schedEditing, schedSaving)'
    BY <1>0, <1>1 DEF Open, Scheduled, schedule
  <2>4. Pending(tasks, timers)'
    <3>1. Pending(tasks \cup {Task("latest", k, 0)}, timers)
      BY <1>0, Asked DEF Ops, Opening
    <3>2. tasks' = tasks \cup {Task("latest", k, 0)} /\ timers' = timers
      BY <1>1 DEF Open
    <3> QED BY <3>1, <3>2 DEF Pending
  <2>5. Devices(dev, devSched)'
    BY <1>0, <1>1 DEF Open, Devices
  <2> QED BY <2>1, <2>2, <2>3, <2>4, <2>5 DEF Sound
<1>2. CASE Close
  <2>1. Shown(modal, overlay, current, sidebar, chart, timer, tw)'
    BY <1>0, <1>2, <1>c DEF Close, Shown
  <2>2. Edited(live, group, inputs, editing, saving)'
    BY <1>0, <1>2, NoTextTyped DEF Close, Edited
  <2>3. Scheduled(sched, schedEditing, schedSaving)'
    BY <1>0, <1>2 DEF Close, Scheduled, Schedules
  <2>4. Pending(tasks, timers)' /\ Devices(dev, devSched)'
    BY <1>0, <1>2 DEF Close, Pending, Devices, world
  <2> QED BY <2>1, <2>2, <2>3, <2>4 DEF Sound
<1>3. ASSUME NEW m \in {"realtime", "history"}, ClickMode(m) \/ ApplyWindow(m) PROVE Sound'
  <2>1. Shown(modal, overlay, current, sidebar, chart, timer, tw)'
    <3>1. modal' = modal /\ overlay' = overlay /\ timer' = timer /\ current' = current /\ sidebar' = sidebar /\ chart' = chart
      BY <1>3 DEF ClickMode, ApplyWindow
    <3>2. tw' \in [mode : {"realtime", "history"}, set : BOOLEAN]
      <4>1. tw \in [mode : {"realtime", "history"}, set : BOOLEAN]
        BY <1>0 DEF Shown
      <4>2. CASE ClickMode(m)
        BY <4>1, <4>2 DEF ClickMode
      <4>3. CASE ApplyWindow(m)
        <5>1. (tw.set \/ m = "history") \in BOOLEAN
          OBVIOUS
        <5> QED BY <4>3, <5>1 DEF ApplyWindow
      <4> QED BY <1>3, <4>2, <4>3
    <3> QED BY <1>0, <3>1, <3>2 DEF Shown
  <2>2. Edited(live, group, inputs, editing, saving)'
    BY <1>0, <1>3 DEF ClickMode, ApplyWindow, Edited, edit
  <2>3. Scheduled(sched, schedEditing, schedSaving)'
    BY <1>0, <1>3 DEF ClickMode, ApplyWindow, Scheduled, schedule
  <2>4. Pending(tasks, timers)'
    <3>1. Pending(tasks \cup {Reload}, timers)
      BY <1>0, <1>c, Asked DEF Ops, Reload
    <3>2. tasks' \in {tasks, tasks \cup {Reload}} /\ timers' = timers
      BY <1>3 DEF ClickMode, ApplyWindow, world
    <3> QED BY <1>0, <3>1, <3>2 DEF Pending
  <2>5. Devices(dev, devSched)'
    BY <1>0, <1>3 DEF ClickMode, ApplyWindow, world, Devices
  <2> QED BY <2>1, <2>2, <2>3, <2>4, <2>5 DEF Sound
<1>4. CASE StartEdit \/ CancelEdit
  <2>1. Shown(modal, overlay, current, sidebar, chart, timer, tw)'
    BY <1>0, <1>4 DEF StartEdit, CancelEdit, Shown, view
  <2>2. Edited(live, group, inputs, editing, saving)'
    <3>1. CASE StartEdit
      BY <1>0, <3>1 DEF StartEdit, Edited
    <3>2. CASE CancelEdit
      BY <1>0, <1>c, <3>2, LeaveTyped DEF CancelEdit, Edited
    <3> QED BY <1>4, <3>1, <3>2
  <2>3. Scheduled(sched, schedEditing, schedSaving)'
    BY <1>0, <1>4 DEF StartEdit, CancelEdit, Scheduled, schedule
  <2>4. Pending(tasks, timers)' /\ Devices(dev, devSched)'
    BY <1>0, <1>4 DEF StartEdit, CancelEdit, Pending, Devices, world
  <2> QED BY <2>1, <2>2, <2>3, <2>4 DEF Sound
<1>5. CASE SubmitEdit
  <2>1. Shown(modal, overlay, current, sidebar, chart, timer, tw)'
    BY <1>0, <1>5 DEF SubmitEdit, Shown, view
  <2>2. Edited(live, group, inputs, editing, saving)'
    BY <1>0, <1>5 DEF SubmitEdit, Edited
  <2>3. Scheduled(sched, schedEditing, schedSaving)'
    BY <1>0, <1>5 DEF SubmitEdit, Scheduled, schedule
  <2>4. Pending(tasks, timers)'
    <3>1. current \in Keys
      BY <1>0, <1>5 DEF SubmitEdit, Shown
    <3>2. Submitted \in Nat
      BY <1>0, <1>5, SubmittedTyped DEF SubmitEdit, Edited
    <3>3. Pending(tasks \cup {Task("write", current, Submitted)}, timers)
      BY <1>0, <3>1, <3>2, Asked DEF Ops
    <3>4. tasks' = tasks \cup {Task("write", current, Submitted)} /\ timers' = timers
      BY <1>5 DEF SubmitEdit
    <3> QED BY <3>3, <3>4 DEF Pending
  <2>5. Devices(dev, devSched)'
    BY <1>0, <1>5 DEF SubmitEdit, Devices
  <2> QED BY <2>1, <2>2, <2>3, <2>4, <2>5 DEF Sound
<1>6. ASSUME NEW v \in InputValues, SetInput(v) PROVE Sound'
  <2>1. Shown(modal, overlay, current, sidebar, chart, timer, tw)'
    BY <1>0, <1>6 DEF SetInput, Shown, view
  <2>2. Edited(live, group, inputs, editing, saving)'
    <3>1. v \in Nat
      BY InputTyped
    <3>2. inputs' \in Inputs
      BY <1>0, <1>c, <1>6, <3>1 DEF SetInput, Edited, Inputs
    <3> QED BY <1>0, <1>6, <3>2 DEF SetInput, Edited
  <2>3. Scheduled(sched, schedEditing, schedSaving)'
    BY <1>0, <1>6 DEF SetInput, Scheduled, schedule
  <2>4. Pending(tasks, timers)' /\ Devices(dev, devSched)'
    BY <1>0, <1>6 DEF SetInput, Pending, Devices, world
  <2> QED BY <2>1, <2>2, <2>3, <2>4 DEF Sound
<1>7. ASSUME NEW on \in BOOLEAN, ToggleSchedule(on) PROVE Sound'
  <2>1. Shown(modal, overlay, current, sidebar, chart, timer, tw)'
    BY <1>0, <1>7 DEF ToggleSchedule, Shown, view
  <2>2. Edited(live, group, inputs, editing, saving)'
    BY <1>0, <1>7 DEF ToggleSchedule, Edited, edit
  <2>3. Scheduled(sched, schedEditing, schedSaving)'
    BY <1>0, <1>7 DEF ToggleSchedule, Scheduled
  <2>4. Pending(tasks, timers)' /\ Devices(dev, devSched)'
    BY <1>0, <1>7 DEF ToggleSchedule, Pending, Devices, world
  <2> QED BY <2>1, <2>2, <2>3, <2>4 DEF Sound
<1>8. ASSUME NEW es \in Seq(Entries), EditEntries(es) PROVE Sound'
  <2>1. Shown(modal, overlay, current, sidebar, chart, timer, tw)'
    BY <1>0, <1>8 DEF EditEntries, Shown, view
  <2>2. Edited(live, group, inputs, editing, saving)'
    BY <1>0, <1>8 DEF EditEntries, Edited, edit
  <2>3. Scheduled(sched, schedEditing, schedSaving)'
    <3>1. sched' = [sched EXCEPT !.entries = es] /\ schedEditing' = schedEditing /\ schedSaving' = schedSaving
      BY <1>8 DEF EditEntries
    <3>2. Scheduled([sched EXCEPT !.entries = es], schedEditing, schedSaving)
      BY <1>0 DEF Scheduled, Schedules
    <3> QED BY <3>1, <3>2 DEF Scheduled
  <2>4. Pending(tasks, timers)' /\ Devices(dev, devSched)'
    BY <1>0, <1>8 DEF EditEntries, Pending, Devices, world
  <2> QED BY <2>1, <2>2, <2>3, <2>4 DEF Sound
<1>9. CASE SaveSchedule
  <2> DEFINE sorted == [sched EXCEPT !.entries = InOrder(@)]
             task == [Task("save", sched.key, 0) EXCEPT !.entries = Coded(sorted)]
  <2>1. Shown(modal, overlay, current, sidebar, chart, timer, tw)'
    BY <1>0, <1>9 DEF SaveSchedule, Shown, view
  <2>2. Edited(live, group, inputs, editing, saving)'
    BY <1>0, <1>9 DEF SaveSchedule, Edited, edit
  <2>6. sched \in Schedules
    BY <1>0 DEF Scheduled
  <2>7. sched.entries \in Seq(Entries)
    BY <2>6 DEF Schedules
  <2>8. InOrder(sched.entries) \in Seq(Entries)
    BY <2>7, SchedulesTyped
  <2>9. sorted \in Schedules /\ sorted.entries = InOrder(sched.entries)
    BY <2>6, <2>8 DEF Schedules
  <2>10. sched' = sorted /\ schedSaving' = TRUE /\ schedEditing' = schedEditing /\ sched.key # NoKey
         /\ tasks' = tasks \cup {task} /\ timers' = timers /\ dev' = dev /\ devSched' = devSched
    BY <1>9 DEF SaveSchedule
  <2> HIDE DEF sorted
  <2>3. Scheduled(sched, schedEditing, schedSaving)'
    BY <1>0, <2>9, <2>10 DEF Scheduled
  <2>4. Pending(tasks, timers)'
    <3>1. sched.key \in Keys
      BY <2>6, <2>10 DEF Schedules
    <3>2. Task("save", sched.key, 0) \in Tasks /\ Task("save", sched.key, 0).op = "save" /\ Task("save", sched.key, 0).key = sched.key
      BY <1>0, <3>1, TaskTyped DEF Pending, Ops
    <3>3. Coded(sorted) \in Seq(Entries)
      BY <2>8, <2>9, SchedulesTyped
    <3>4. task \in Tasks /\ task.op = "save" /\ task.key = sched.key
      BY <3>2, <3>3 DEF Tasks
    <3> HIDE DEF task
    <3>5. IsFiniteSet(tasks \cup {task})
      BY <1>0, FS_AddElement DEF Pending
    <3>6. Pending(tasks \cup {task}, timers)
      BY <1>0, <3>1, <3>4, <3>5 DEF Pending, Asks
    <3> QED BY <2>10, <3>6 DEF Pending
  <2>5. Devices(dev, devSched)'
    BY <1>0, <2>10 DEF Devices
  <2> QED BY <2>1, <2>2, <2>3, <2>4, <2>5 DEF Sound
<1>10. sched.entries \in Seq(Entries)
  BY <1>0 DEF Scheduled, Schedules
<1>11. CASE AddEntry
  <2> DEFINE n == Len(sched.entries)
             e == IF n = 0 THEN [time |-> FirstTime, val |-> 0] ELSE sched.entries[n]
  <2>1. e \in Entries
    <3> DEFINE s == sched.entries
    <3>1. s \in Seq(Entries) /\ n = Len(s)
      BY <1>10
    <3> HIDE DEF s
    <3>2. n # 0 => s[n] \in Entries
      BY <3>1
    <3>3. [time |-> FirstTime, val |-> 0] \in Entries
      BY FirstIsTime DEF Entries
    <3> QED BY <3>2, <3>3 DEF s
  <2>2. EditEntries(Append(sched.entries, e))
    BY <1>11 DEF AddEntry
  <2> HIDE DEF e
  <2>3. Append(sched.entries, e) \in Seq(Entries)
    BY <1>10, <2>1
  <2> QED BY <1>8, <2>2, <2>3
<1>12. ASSUME NEW i \in 1 .. MaxEntries, RemoveEntry(i) PROVE Sound'
  <2>1. i \in DOMAIN sched.entries /\ EditEntries(Without(sched.entries, i))
    BY <1>12 DEF RemoveEntry
  <2>2. Without(sched.entries, i) \in Seq(Entries)
    BY <1>10, <2>1, SchedulesTyped
  <2> QED BY <1>8, <2>1, <2>2
<1>13. ASSUME NEW i, NEW field, NEW v, UpdateEntry(i, field, v),
              \/ field = "val" /\ v \in 0 .. States - 1
              \/ field = "time" /\ v \in Times
       PROVE  Sound'
  <2> DEFINE s == sched.entries
             e == [s[i] EXCEPT ![field] = v]
  <2>1. i \in DOMAIN s /\ EditEntries([s EXCEPT ![i] = e])
    BY <1>13 DEF UpdateEntry
  <2>2. s \in Seq(Entries)
    BY <1>10
  <2>3. s[i] \in Entries
    BY <2>1, <2>2
  <2>4. v \in Int /\ (field = "time" => v \in Nat)
    <3>1. Times \subseteq Nat
      BY ConstantsAssumption DEF ConstantsAssumption
    <3>2. CASE field = "val" /\ v \in 0 .. States - 1
      BY <3>2
    <3>3. CASE field = "time" /\ v \in Times
      BY <3>1, <3>3
    <3> QED BY <1>13, <3>2, <3>3
  <2>5. e \in Entries
    BY <1>13, <2>3, <2>4 DEF Entries
  <2> HIDE DEF e, s
  <2>6. [s EXCEPT ![i] = e] \in Seq(Entries)
    BY <2>1, <2>2, <2>5
  <2> QED BY <1>8, <2>1, <2>6
<1>14. User => \/ \E k \in Keys : Open(k)
               \/ Close
               \/ \E m \in {"realtime", "history"} : ClickMode(m) \/ ApplyWindow(m)
               \/ StartEdit \/ CancelEdit \/ SubmitEdit
               \/ \E v \in InputValues : SetInput(v)
               \/ \E on \in BOOLEAN : ToggleSchedule(on)
               \/ AddEntry \/ SaveSchedule
               \/ \E i \in 1..MaxEntries : \/ RemoveEntry(i)
                                           \/ \E v \in 0..(States - 1) : UpdateEntry(i, "val", v)
                                           \/ \E v \in Times : UpdateEntry(i, "time", v)
  BY Zenon DEF User, OpenFromPage, OpenFromSidebar
<1> QED BY <1>1, <1>2, <1>3, <1>4, <1>5, <1>6, <1>7, <1>9, <1>11, <1>12, <1>13, <1>14

\* The dialogue stays sound when a request of an opening is answered.
LEMMA SoundOpening == ASSUME Sound, NEW t \in tasks, OpenValue(t) \/ OpenProps(t) \/ OpenHistory(t) PROVE Sound'
<1>0. /\ Shown(modal, overlay, current, sidebar, chart, timer, tw)
      /\ Edited(live, group, inputs, editing, saving)
      /\ Scheduled(sched, schedEditing, schedSaving)
      /\ Pending(tasks, timers)
      /\ Devices(dev, devSched)
  BY DEF Sound
<1>a. Asks(t)
  BY <1>0 DEF Pending
<1>t. t \in [id : Nat \ {0}, op : Ops, key : Keys \cup {NoKey}, val : Nat, entries : Seq(Entries)]
  BY <1>a DEF Asks, Tasks, Ops
<1>r. timers \subseteq {"reload", "leave", "schedule"} \X Keys
  BY <1>0 DEF Pending
<1>1. CASE OpenValue(t)
  <2>1. Shown(modal, overlay, current, sidebar, chart, timer, tw)'
    BY <1>0, <1>1 DEF OpenValue, Shown
  <2>2. Edited(live, group, inputs, editing, saving)'
    <3>1. PICK text \in {Latest(t.key, dev[t.key]), NoText} :
             /\ live' = IF text = NoText THEN live ELSE text
             /\ IF Kind[t.key] = "schedule" THEN UNCHANGED <<inputs, group>>
                ELSE inputs' = Fill(t.key, text) /\ group' = Kind[t.key]
      BY <1>1 DEF OpenValue
    <3>2. t.key \in Keys
      BY <1>1, <1>a DEF OpenValue, Asks
    <3>3. dev[t.key] \in Nat /\ (Kind[t.key] = "enum" => dev[t.key] > 0)
      BY <1>0, <3>2 DEF Devices
    <3>4. text \in Texts
      BY <3>2, <3>3, LatestTyped, NoTextTyped
    <3>5. live' \in Texts
      BY <1>0, <3>1, <3>4 DEF Edited
    <3>6. group' \in Groups \cup {"none"} /\ inputs' \in Inputs
      <4>1. CASE Kind[t.key] = "schedule"
        BY <1>0, <3>1, <4>1 DEF Edited
      <4>2. CASE Kind[t.key] # "schedule"
        <5>1. Kind[t.key] \in Groups /\ Fill(t.key, text) \in Inputs
          BY <1>0, <3>2, <3>4, <4>2, FillTyped DEF Edited
        <5> QED BY <3>1, <4>2, <5>1
      <4> QED BY <4>1, <4>2
    <3>7. editing' = editing /\ saving' = saving
      BY <1>1 DEF OpenValue
    <3> QED BY <1>0, <3>5, <3>6, <3>7 DEF Edited
  <2>3. Scheduled(sched, schedEditing, schedSaving)'
    BY <1>0, <1>1 DEF OpenValue, Scheduled, schedule
  <2>4. Pending(tasks, timers)'
    <3>1. t.key \in Keys
      BY <1>1, <1>a DEF OpenValue, Asks
    <3>2. Asks([t EXCEPT !.op = "props"])
      <4>1. [t EXCEPT !.op = "props"] \in Tasks
        BY <1>t DEF Tasks, Ops, Opening
      <4>2. [t EXCEPT !.op = "props"].key = t.key
        BY <1>t
      <4> QED BY <3>1, <4>1, <4>2 DEF Asks
    <3>3. tasks' = (tasks \ {t}) \cup {[t EXCEPT !.op = "props"]} /\ timers' = timers
      BY <1>1 DEF OpenValue, Go
    <3>4. Pending((tasks \ {t}) \cup {[t EXCEPT !.op = "props"]}, timers)
      BY <1>0, <3>2, AnsweredOn
    <3> QED BY <3>3, <3>4 DEF Pending
  <2>5. Devices(dev, devSched)'
    BY <1>0, <1>1 DEF OpenValue, Devices
  <2> QED BY <2>1, <2>2, <2>3, <2>4, <2>5 DEF Sound
<1>2. CASE OpenProps(t)
  <2>1. Shown(modal, overlay, current, sidebar, chart, timer, tw)'
    BY <1>0, <1>2 DEF OpenProps, Shown
  <2>2. Edited(live, group, inputs, editing, saving)'
    BY <1>0, <1>2 DEF OpenProps, Edited, edit
  <2>3. Scheduled(sched, schedEditing, schedSaving)'
    <3>1. t.key \in Keys
      BY <1>2, <1>a DEF OpenProps, Asks
    <3>2. CASE UNCHANGED schedule
      BY <1>0, <3>2 DEF Scheduled, schedule
    <3>3. ASSUME NEW ok \in BOOLEAN, LoadSchedule(t.key, ok) PROVE Scheduled(sched, schedEditing, schedSaving)'
      <4>1. devSched[t.key] \in Seq(Entries)
        BY <1>0, <3>1 DEF Devices
      <4>2. Decoded(devSched[t.key]) \in Seq(Entries) /\ <<>> \in Seq(Entries)
        BY <4>1, SchedulesTyped
      <4>3. sched' \in Schedules
        BY <3>1, <3>3, <4>2 DEF LoadSchedule, Schedules
      <4> QED BY <3>3, <4>3 DEF LoadSchedule, Scheduled
    <3> QED BY <1>2, <3>2, <3>3 DEF OpenProps
  <2>4. Pending(tasks, timers)'
    <3> DEFINE u == [t EXCEPT !.op = "history", !.key = current]
    <3>1. current \in Keys \cup {NoKey}
      BY <1>0 DEF Shown
    <3>2. Asks(u)
      <4>1. u \in Tasks /\ u.op = "history"
        BY <1>t, <3>1 DEF Tasks, Ops, Opening
      <4> HIDE DEF u
      <4> QED BY <4>1 DEF Asks
    <3>3. tasks' = (tasks \ {t}) \cup {u} /\ timers' = timers
      BY <1>2 DEF OpenProps
    <3> HIDE DEF u
    <3>4. Pending((tasks \ {t}) \cup {u}, timers)
      BY <1>0, <3>2, AnsweredOn
    <3> QED BY <3>3, <3>4 DEF Pending
  <2>5. Devices(dev, devSched)'
    BY <1>0, <1>2 DEF OpenProps, Devices
  <2> QED BY <2>1, <2>2, <2>3, <2>4, <2>5 DEF Sound
<1>3. CASE OpenHistory(t)
  <2>1. Shown(modal, overlay, current, sidebar, chart, timer, tw)'
    <3>1. t.key \in Keys \cup {NoKey}
      BY <1>t
    <3> QED BY <1>0, <1>3, <3>1 DEF OpenHistory, Shown
  <2>2. Edited(live, group, inputs, editing, saving)'
    BY <1>0, <1>3 DEF OpenHistory, Edited, edit
  <2>3. Scheduled(sched, schedEditing, schedSaving)'
    BY <1>0, <1>3 DEF OpenHistory, Scheduled, schedule
  <2>4. Pending(tasks, timers)'
    <3>1. tasks' = tasks \ {t} /\ timers' = timers
      BY <1>3 DEF OpenHistory
    <3>2. Pending(tasks \ {t}, timers)
      BY <1>0, <1>r, Answered
    <3> QED BY <3>1, <3>2 DEF Pending
  <2>5. Devices(dev, devSched)'
    BY <1>0, <1>3 DEF OpenHistory, Devices
  <2> QED BY <2>1, <2>2, <2>3, <2>4, <2>5 DEF Sound
<1> QED BY <1>1, <1>2, <1>3

\* So it does when data, or the outcome of a write, arrive.
LEMMA SoundAnswer ==
  ASSUME Sound, NEW t \in tasks,
         FinishReload(t) \/ FinishRefresh(t) \/ FailRefresh(t) \/ AcceptWrite(t) \/ RefuseWrite(t) \/ AcceptSchedule(t) \/ RefuseSchedule(t)
  PROVE  Sound'
<1>0. /\ Shown(modal, overlay, current, sidebar, chart, timer, tw)
      /\ Edited(live, group, inputs, editing, saving)
      /\ Scheduled(sched, schedEditing, schedSaving)
      /\ Pending(tasks, timers)
      /\ Devices(dev, devSched)
  BY DEF Sound
<1>a. Asks(t)
  BY <1>0 DEF Pending
<1>t. t.key \in Keys \cup {NoKey} /\ t.val \in Nat /\ t.entries \in Seq(Entries)
  BY <1>a DEF Asks, Tasks
<1>k. t.op \in {"refresh", "write", "save"} => t.key \in Keys
  BY <1>a DEF Asks
<1>r. timers \subseteq {"reload", "leave", "schedule"} \X Keys
  BY <1>0 DEF Pending
<1>1. Shown(modal, overlay, current, sidebar, chart, timer, tw)'
  <2>1. modal' = modal /\ overlay' = overlay /\ current' = current /\ sidebar' = sidebar /\ timer' = timer /\ tw' = tw
    BY DEF FinishReload, FinishRefresh, FailRefresh, AcceptWrite, RefuseWrite, AcceptSchedule, RefuseSchedule, view
  <2>2. chart' \in {chart, t.key, NoChart}
    BY DEF FinishReload, FinishRefresh, FailRefresh, AcceptWrite, RefuseWrite, AcceptSchedule, RefuseSchedule, view
  <2> QED BY <1>0, <1>t, <2>1, <2>2 DEF Shown
<1>2. Edited(live, group, inputs, editing, saving)'
  <2>1. group' = group /\ inputs' = inputs /\ editing' = editing /\ saving' \in {saving, FALSE}
    BY DEF FinishReload, FinishRefresh, FailRefresh, AcceptWrite, RefuseWrite, AcceptSchedule, RefuseSchedule, edit
  <2>2. \/ live' = live
        \/ t.op = "refresh" /\ live' = Latest(t.key, dev[t.key])
        \/ t.op = "write" /\ live' = [key |-> t.key, val |-> t.val, raw |-> TRUE]
    BY DEF FinishReload, FinishRefresh, FailRefresh, AcceptWrite, RefuseWrite, AcceptSchedule, RefuseSchedule, edit
  <2>3. live' \in Texts
    <3>1. t.op = "refresh" => Latest(t.key, dev[t.key]) \in Texts
      BY <1>0, <1>k, LatestTyped DEF Devices
    <3>2. [key |-> t.key, val |-> t.val, raw |-> TRUE] \in Texts
      BY <1>t DEF Texts
    <3> QED BY <1>0, <2>2, <3>1, <3>2 DEF Edited
  <2> QED BY <1>0, <2>1, <2>3 DEF Edited
<1>3. Scheduled(sched, schedEditing, schedSaving)'
  <2>1. sched' = sched /\ schedEditing' = schedEditing /\ schedSaving' \in {schedSaving, FALSE}
    BY DEF FinishReload, FinishRefresh, FailRefresh, AcceptWrite, RefuseWrite, AcceptSchedule, RefuseSchedule, schedule
  <2> QED BY <1>0, <2>1 DEF Scheduled
<1>4. Pending(tasks, timers)'
  <2>1. tasks' = tasks \ {t}
    BY DEF FinishReload, FinishRefresh, FailRefresh, AcceptWrite, RefuseWrite, AcceptSchedule, RefuseSchedule
  <2>2. timers' \subseteq {"reload", "leave", "schedule"} \X Keys
    <3>1. CASE AcceptWrite(t)
      <4>1. t.key \in Keys
        BY <1>k, <3>1 DEF AcceptWrite
      <4>2. timers' \subseteq timers \cup {<<"leave", t.key>>, <<"reload", t.key>>}
        BY <3>1 DEF AcceptWrite
      <4> QED BY <1>r, <4>1, <4>2
    <3>2. CASE AcceptSchedule(t)
      <4>1. t.key \in Keys
        BY <1>k, <3>2 DEF AcceptSchedule
      <4>2. timers' = timers \cup {<<"schedule", t.key>>}
        BY <3>2 DEF AcceptSchedule
      <4> QED BY <1>r, <4>1, <4>2
    <3>3. CASE FinishReload(t) \/ FinishRefresh(t) \/ FailRefresh(t) \/ RefuseWrite(t) \/ RefuseSchedule(t)
      BY <1>r, <3>3 DEF FinishReload, FinishRefresh, FailRefresh, RefuseWrite, RefuseSchedule
    <3> QED BY <3>1, <3>2, <3>3
  <2> DEFINE rs == timers'
  <2>3. Pending(tasks \ {t}, rs)
    <3>1. rs \in SUBSET ({"reload", "leave", "schedule"} \X Keys)
      BY <2>2
    <3> HIDE DEF rs
    <3> QED BY <1>0, <3>1, Answered
  <2> QED BY <2>1, <2>3 DEF Pending
<1>5. Devices(dev, devSched)'
  <2>1. \/ dev' = dev
        \/ Valid(t.key, t.val) /\ dev' = [dev EXCEPT ![t.key] = t.val]
    BY DEF FinishReload, FinishRefresh, FailRefresh, AcceptWrite, RefuseWrite, AcceptSchedule, RefuseSchedule
  <2>2. \/ devSched' = devSched
        \/ devSched' = [devSched EXCEPT ![t.key] = t.entries]
    BY DEF FinishReload, FinishRefresh, FailRefresh, AcceptWrite, RefuseWrite, AcceptSchedule, RefuseSchedule
  <2>3. dev' \in [Keys -> Nat] /\ \A k \in Keys : Kind[k] = "enum" => dev'[k] > 0
    <3>1. CASE dev' = dev
      BY <1>0, <3>1 DEF Devices
    <3>2. CASE Valid(t.key, t.val) /\ dev' = [dev EXCEPT ![t.key] = t.val]
      <4>1. Kind[t.key] = "enum" => t.val > 0
        <5>1. Kind[t.key] = "enum" => t.val \in 1 .. States
          BY <3>2 DEF Valid
        <5> QED BY <5>1, ConstantsAssumption DEF ConstantsAssumption
      <4> QED BY <1>0, <1>t, <3>2, <4>1 DEF Devices
    <3> QED BY <2>1, <3>1, <3>2
  <2>4. devSched' \in [Keys -> Seq(Entries)]
    BY <1>0, <1>t, <2>2 DEF Devices
  <2> QED BY <2>3, <2>4 DEF Devices
<1> QED BY <1>1, <1>2, <1>3, <1>4, <1>5 DEF Sound

\* And when time passes.
LEMMA SoundTime == ASSUME Sound, Tick \/ \E k \in Keys : Timeout(k) PROVE Sound'
<1>0. /\ Shown(modal, overlay, current, sidebar, chart, timer, tw)
      /\ Edited(live, group, inputs, editing, saving)
      /\ Scheduled(sched, schedEditing, schedSaving)
      /\ Pending(tasks, timers)
      /\ Devices(dev, devSched)
  BY DEF Sound
<1>c. current \in Keys \cup {NoKey}
  BY <1>0 DEF Shown
<1>r. timers \subseteq {"reload", "leave", "schedule"} \X Keys
  BY <1>0 DEF Pending
<1>1. CASE Tick
  <2>1. Shown(modal, overlay, current, sidebar, chart, timer, tw)' /\ Edited(live, group, inputs, editing, saving)'
    BY <1>0, <1>1 DEF Tick, Shown, Edited, view, edit
  <2>2. Scheduled(sched, schedEditing, schedSaving)' /\ Devices(dev, devSched)'
    BY <1>0, <1>1 DEF Tick, Scheduled, Devices, schedule
  <2>3. Pending(tasks \cup {Task("refresh", current, 0)}, timers)
    BY <1>0, <1>1, <1>c, Asked DEF Tick, Ops
  <2>4. tasks' = tasks \cup {Task("refresh", current, 0)} /\ timers' = timers
    BY <1>1 DEF Tick
  <2>5. Pending(tasks, timers)'
    BY <2>3, <2>4 DEF Pending
  <2> QED BY <2>1, <2>2, <2>5 DEF Sound
<1>2. ASSUME NEW k \in Keys, ReloadTimeout(k) PROVE Sound'
  <2>1. Shown(modal, overlay, current, sidebar, chart, timer, tw)' /\ Edited(live, group, inputs, editing, saving)'
    BY <1>0, <1>2 DEF ReloadTimeout, Shown, Edited, view, edit
  <2>2. Scheduled(sched, schedEditing, schedSaving)' /\ Devices(dev, devSched)'
    BY <1>0, <1>2 DEF ReloadTimeout, Scheduled, Devices, schedule
  <2>3. Pending(tasks \cup {Reload}, timers)
    BY <1>0, <1>c, Asked DEF Reload, Ops
  <2>4. tasks' = tasks \cup {Reload} /\ timers' \subseteq timers
    BY <1>2 DEF ReloadTimeout
  <2>5. Pending(tasks, timers)'
    BY <1>r, <2>3, <2>4 DEF Pending
  <2> QED BY <2>1, <2>2, <2>5 DEF Sound
<1>3. ASSUME NEW k \in Keys, LeaveTimeout(k) PROVE Sound'
  <2>1. Shown(modal, overlay, current, sidebar, chart, timer, tw)'
    BY <1>0, <1>3 DEF LeaveTimeout, Shown, view
  <2>2. Edited(live, group, inputs, editing, saving)'
    <3>1. inputs' \in Inputs /\ editing' = FALSE
      BY <1>0, <1>3, <1>c, LeaveTyped DEF LeaveTimeout
    <3>2. live' = live /\ group' = group /\ saving' = FALSE
      BY <1>3 DEF LeaveTimeout
    <3> QED BY <1>0, <3>1, <3>2 DEF Edited
  <2>3. Scheduled(sched, schedEditing, schedSaving)' /\ Devices(dev, devSched)'
    BY <1>0, <1>3 DEF LeaveTimeout, Scheduled, Devices, schedule
  <2>4. tasks' = tasks /\ timers' \subseteq timers
    BY <1>3 DEF LeaveTimeout
  <2>5. Pending(tasks, timers)'
    BY <1>0, <1>r, <2>4 DEF Pending
  <2> QED BY <2>1, <2>2, <2>3, <2>5 DEF Sound
<1>4. ASSUME NEW k \in Keys, ScheduleTimeout(k) PROVE Sound'
  <2>1. Shown(modal, overlay, current, sidebar, chart, timer, tw)' /\ Edited(live, group, inputs, editing, saving)'
    BY <1>0, <1>4 DEF ScheduleTimeout, Shown, Edited, view, edit
  <2>2. Scheduled(sched, schedEditing, schedSaving)' /\ Devices(dev, devSched)'
    BY <1>0, <1>4 DEF ScheduleTimeout, Scheduled, Devices
  <2>3. tasks' = tasks /\ timers' \subseteq timers
    BY <1>4 DEF ScheduleTimeout
  <2>4. Pending(tasks, timers)'
    BY <1>0, <1>r, <2>3 DEF Pending
  <2> QED BY <2>1, <2>2, <2>4 DEF Sound
<1> QED BY <1>1, <1>2, <1>3, <1>4 DEF Timeout

(***************************************************************************)
(* Values of their own key                                                 *)
(***************************************************************************)

\* One opening at most is under way, behind the overlay and for the key that is open.
Alone(ts, o, c) ==
    /\ \A t, u \in ts : t.op \in Opening /\ u.op \in Opening => t = u
    /\ \A t \in ts : t.op \in Opening => o /\ t.key = c
\* The text and the visible input are of the key that is open.
Texted(l, c, g, i) ==
    /\ l.key \in {c, NoKey}
    /\ c # NoKey /\ g # "none" => g = Kind[c] /\ i[g].from \in {c, NoKey}

\* These are the parts of what holds while nothing strayed.
LEMMA TextsAre == TextsOwn <=> (~strayed => Alone(tasks, overlay, current) /\ Texted(live, current, group, inputs))
BY DEF TextsOwn, Alone, Texted

\* Other requests come and go beside an opening.
LEMMA AloneKept ==
  ASSUME NEW ts, NEW o, NEW c, Alone(ts, o, c), NEW us, \A u \in us : u \in ts \/ u.op \notin Opening
  PROVE  Alone(us, o, c)
BY DEF Alone

\* An opening goes on alone.
LEMMA AloneOn ==
  ASSUME NEW ts, NEW o, NEW c, Alone(ts, o, c), NEW t \in ts, t.op \in Opening, NEW u, u.key = c
  PROVE  Alone((ts \ {t}) \cup {u}, o, c)
BY DEF Alone

\* When it has ended there is none.
LEMMA AloneEnds ==
  ASSUME NEW ts, NEW o, NEW c, Alone(ts, o, c), NEW t \in ts, t.op \in Opening, NEW p, NEW k
  PROVE  Alone(ts \ {t}, p, k)
BY DEF Alone

\* Without an overlay there is none.
LEMMA NoneOpening == ASSUME NEW ts, NEW o, NEW c, Alone(ts, o, c), ~o PROVE \A t \in ts : t.op \notin Opening
BY DEF Alone

\* No request but an opening is one.
LEMMA NotOpening ==
  ASSUME Sound, NEW op \in {"reload", "refresh", "write", "save"}, NEW k \in Keys \cup {NoKey}, NEW v \in Nat
  PROVE  Task(op, k, v).op \notin Opening
<1>1. Task(op, k, v).op = op
  BY TaskTyped DEF Ops, Sound, Pending
<1> QED BY <1>1 DEF Opening

\* Leaving edit mode fills the input of the key that is open from its text.
LEMMA LeaveTexted ==
  ASSUME Sound, Texted(live, current, group, inputs), LeaveEdit
  PROVE  Texted(live, current, group, inputs')
<1>1. CASE current # NoKey /\ Kind[current] # "schedule"
  <2>1. current \in Keys /\ inputs \in Inputs /\ live \in Texts
    BY <1>1 DEF Sound, Shown, Edited
  <2>2. inputs' = Fill(current, live)
    BY <1>1 DEF LeaveEdit
  <2>3. inputs'[Kind[current]].from = live.key
    BY <1>1, <2>1, <2>2, FillTyped
  <2> QED BY <2>3 DEF Texted
<1>2. CASE ~(current # NoKey /\ Kind[current] # "schedule")
  BY <1>2 DEF LeaveEdit
<1> QED BY <1>1, <1>2

\* At first nothing is shown.
LEMMA TextsInit == ASSUME Init PROVE TextsOwn /\ OwnValue
BY DEF Init, TextsOwn, OwnValue, NoText

\* Text and input stay the open key's whatever the user does.
LEMMA TextsUser == ASSUME Sound, TextsOwn, OwnValue, User PROVE TextsOwn' /\ OwnValue'
<1> DEFINE T == Alone(tasks, overlay, current) /\ Texted(live, current, group, inputs)
<1>c. current \in Keys \cup {NoKey} /\ NoKey \notin Keys /\ modal = (current # NoKey)
  BY ConstantsAssumption DEF Sound, Shown, ConstantsAssumption
<1>0. ~strayed => Alone(tasks, overlay, current) /\ Texted(live, current, group, inputs)
  BY TextsAre
<1>n. TextsOwn' <=> (~strayed' => Alone(tasks', overlay', current') /\ Texted(live', current', group', inputs'))
  BY DEF TextsOwn, Alone, Texted
<1>1. ASSUME NEW k \in Keys, Open(k) PROVE TextsOwn' /\ OwnValue'
  <2>1. strayed' = (strayed \/ overlay) /\ current' = k /\ overlay' = TRUE /\ live' = NoText /\ group' = "none" /\ inputs' = inputs
        /\ tasks' = tasks \cup {Task("latest", k, 0)} /\ sent' = sent
    BY <1>1 DEF Open
  <2>2. OwnValue'
    BY <2>1 DEF OwnValue
  <2>3. ASSUME ~strayed' PROVE Alone(tasks', overlay', current') /\ Texted(live', current', group', inputs')
    <3>0. ~strayed /\ ~overlay
      BY <2>1, <2>3, Zenon
    <3>1. \A t \in tasks : t.op \notin Opening
      BY <1>0, <3>0, NoneOpening
    <3>2. Task("latest", k, 0).key = k
      BY TaskTyped DEF Ops, Opening, Sound, Pending
    <3>3. Alone(tasks', overlay', current')
      BY <2>1, <3>1, <3>2 DEF Alone
    <3>4. Texted(live', current', group', inputs')
      BY <2>1, NoTextTyped DEF Texted
    <3> QED BY <3>3, <3>4
  <2> QED BY <1>n, <2>2, <2>3
<1>2. CASE Close
  <2>1. strayed' = strayed /\ current' = NoKey /\ ~overlay /\ overlay' = overlay /\ live' = NoText /\ tasks' = tasks /\ sent' = sent
    BY <1>2 DEF Close, history, world
  <2>2. OwnValue'
    BY <2>1 DEF OwnValue
  <2>3. ASSUME ~strayed' PROVE Alone(tasks', overlay', current') /\ Texted(live', current', group', inputs')
    <3>1. \A t \in tasks : t.op \notin Opening
      BY <1>0, <2>1, <2>3, NoneOpening
    <3>3. Alone(tasks', overlay', current')
      BY <2>1, <3>1 DEF Alone
    <3>4. Texted(live', current', group', inputs')
      BY <2>1, NoTextTyped DEF Texted
    <3> QED BY <3>3, <3>4
  <2> QED BY <1>n, <2>2, <2>3
<1>3. ASSUME overlay' = overlay, current' = current, strayed' = strayed, live' = live, group' = group, inputs' = inputs,
             \A t \in tasks' : t \in tasks \/ t.op \notin Opening
      PROVE  TextsOwn'
  <2>1. ~strayed => Alone(tasks', overlay', current')
    <3>1. ~strayed => Alone(tasks', overlay, current)
      BY <1>0, <1>3, AloneKept
    <3> QED BY <1>3, <3>1
  <2> QED BY <1>0, <1>3, <1>n, <2>1
<1>4. ASSUME NEW m \in {"realtime", "history"}, ClickMode(m) \/ ApplyWindow(m) PROVE TextsOwn' /\ OwnValue'
  <2>1. overlay' = overlay /\ current' = current /\ strayed' = strayed /\ live' = live /\ group' = group /\ inputs' = inputs /\ sent' = sent
    BY <1>4 DEF ClickMode, ApplyWindow, edit, history
  <2>2. \A t \in tasks' : t \in tasks \/ t.op \notin Opening
    <3>1. Reload.op \notin Opening
      BY <1>c, NotOpening DEF Reload
    <3>2. tasks' \in {tasks, tasks \cup {Reload}}
      BY <1>4 DEF ClickMode, ApplyWindow, world
    <3> QED BY <3>1, <3>2
  <2> QED BY <1>3, <2>1, <2>2 DEF OwnValue
<1>5. CASE StartEdit
  <2>1. overlay' = overlay /\ current' = current /\ strayed' = strayed /\ live' = live /\ group' = group /\ inputs' = inputs /\ sent' = sent
        /\ tasks' = tasks
    BY <1>5 DEF StartEdit, view, history, world
  <2> QED BY <1>3, <2>1 DEF OwnValue
<1>6. CASE CancelEdit
  <2>1. overlay' = overlay /\ current' = current /\ strayed' = strayed /\ live' = live /\ group' = group /\ sent' = sent /\ tasks' = tasks /\ LeaveEdit
    BY <1>6 DEF CancelEdit, view, history, world
  <2>2. ~strayed => Texted(live, current, group, inputs')
    BY <1>0, <2>1, LeaveTexted
  <2> QED BY <1>0, <1>n, <2>1, <2>2 DEF OwnValue
<1>7. CASE SubmitEdit
  <2>1. overlay' = overlay /\ current' = current /\ strayed' = strayed /\ live' = live /\ group' = group /\ inputs' = inputs
        /\ tasks' = tasks \cup {Task("write", current, Submitted)} /\ sent' = [key |-> current, from |-> inputs[group].from]
    BY <1>7 DEF SubmitEdit, view
  <2>2. Submitted \in Nat
    BY <1>7, SubmittedTyped DEF SubmitEdit, Sound, Edited
  <2>3. \A t \in tasks' : t \in tasks \/ t.op \notin Opening
    BY <1>c, <2>1, <2>2, NotOpening
  <2>4. current # NoKey /\ group # "none"
    BY <1>7, <1>c DEF SubmitEdit
  <2>5. ~strayed => sent'.from \in {sent'.key, NoKey}
    BY <1>0, <2>1, <2>4 DEF Texted
  <2>6. OwnValue'
    BY <2>1, <2>5 DEF OwnValue
  <2> QED BY <1>3, <2>1, <2>3, <2>6
<1>8. ASSUME NEW v \in InputValues, SetInput(v) PROVE TextsOwn' /\ OwnValue'
  <2>1. overlay' = overlay /\ current' = current /\ strayed' = strayed /\ live' = live /\ group' = group /\ sent' = sent /\ tasks' = tasks
        /\ inputs' = [inputs EXCEPT ![group] = [val |-> v, from |-> current]] /\ group # "none"
    BY <1>8 DEF SetInput, view, history, world
  <2>2. group \in Groups /\ inputs \in Inputs
    BY <2>1 DEF Sound, Edited
  <2>3. inputs'[group].from = current
    BY <2>1, <2>2 DEF Inputs
  <2>4. ~strayed => Texted(live, current, group, inputs')
    BY <1>0, <2>3 DEF Texted
  <2> QED BY <1>0, <1>n, <2>1, <2>4 DEF OwnValue
<1>9. ASSUME NEW es, EditEntries(es) PROVE TextsOwn' /\ OwnValue'
  <2>1. overlay' = overlay /\ current' = current /\ strayed' = strayed /\ live' = live /\ group' = group /\ inputs' = inputs /\ sent' = sent
        /\ tasks' = tasks
    BY <1>9 DEF EditEntries, view, edit, history, world
  <2> QED BY <1>3, <2>1 DEF OwnValue
<1>10. ASSUME NEW on \in BOOLEAN, ToggleSchedule(on) PROVE TextsOwn' /\ OwnValue'
  <2>1. overlay' = overlay /\ current' = current /\ strayed' = strayed /\ live' = live /\ group' = group /\ inputs' = inputs /\ sent' = sent
        /\ tasks' = tasks
    BY <1>10 DEF ToggleSchedule, view, edit, history, world
  <2> QED BY <1>3, <2>1 DEF OwnValue
<1>11. CASE SaveSchedule
  <2> DEFINE e == Coded([sched EXCEPT !.entries = InOrder(@)])
             u == [Task("save", sched.key, 0) EXCEPT !.entries = e]
  <2>1. overlay' = overlay /\ current' = current /\ strayed' = strayed /\ live' = live /\ group' = group /\ inputs' = inputs /\ sent' = sent
        /\ tasks' = tasks \cup {u}
    BY <1>11 DEF SaveSchedule, view, edit
  <2>2. sched.key \in Keys \cup {NoKey}
    BY DEF Sound, Scheduled, Schedules
  <2>3. Task("save", sched.key, 0).op \notin Opening
    BY <2>2, NotOpening
  <2>4. u.op = Task("save", sched.key, 0).op
    BY DEF Task
  <2> HIDE DEF u
  <2>5. \A t \in tasks' : t \in tasks \/ t.op \notin Opening
    BY <2>1, <2>3, <2>4
  <2> QED BY <1>3, <2>1, <2>5 DEF OwnValue
<1>12. User => \/ \E k \in Keys : Open(k)
               \/ Close
               \/ \E m \in {"realtime", "history"} : ClickMode(m) \/ ApplyWindow(m)
               \/ StartEdit \/ CancelEdit \/ SubmitEdit
               \/ \E v \in InputValues : SetInput(v)
               \/ \E on \in BOOLEAN : ToggleSchedule(on)
               \/ SaveSchedule
               \/ \E es : EditEntries(es)
  BY Zenon DEF User, OpenFromPage, OpenFromSidebar, AddEntry, RemoveEntry, UpdateEntry
<1> QED BY <1>1, <1>2, <1>4, <1>5, <1>6, <1>7, <1>8, <1>9, <1>10, <1>11, <1>12

\* They stay so whatever answers come.
LEMMA TextsAnswer == ASSUME Sound, TextsOwn, OwnValue, NEW t \in tasks, Answer(t) PROVE TextsOwn' /\ OwnValue'
<1>0. ~strayed => Alone(tasks, overlay, current) /\ Texted(live, current, group, inputs)
  BY TextsAre
<1>n. TextsOwn' <=> (~strayed' => Alone(tasks', overlay', current') /\ Texted(live', current', group', inputs'))
  BY DEF TextsOwn, Alone, Texted
<1>c. current \in Keys \cup {NoKey} /\ NoKey \notin Keys
  BY ConstantsAssumption DEF Sound, Shown, ConstantsAssumption
<1>a. Asks(t)
  BY DEF Sound, Pending
<1>1. CASE OpenValue(t)
  <2>1. overlay' = overlay /\ current' = current /\ strayed' = strayed /\ sent' = sent
        /\ tasks' = (tasks \ {t}) \cup {[t EXCEPT !.op = "props"]} /\ t.op \in Opening
    BY <1>1 DEF OpenValue, Go, history, Opening
  <2>2. PICK text \in {Latest(t.key, dev[t.key]), NoText} :
           /\ live' = IF text = NoText THEN live ELSE text
           /\ IF Kind[t.key] = "schedule" THEN UNCHANGED <<inputs, group>>
              ELSE inputs' = Fill(t.key, text) /\ group' = Kind[t.key]
    BY <1>1 DEF OpenValue
  <2>3. t.key \in Keys
    BY <1>1, <1>a DEF OpenValue, Asks
  <2>4. dev[t.key] \in Nat /\ (Kind[t.key] = "enum" => dev[t.key] > 0)
    BY <2>3 DEF Sound, Devices
  <2>5. text \in Texts /\ text.key \in {t.key, NoKey}
    BY <2>3, <2>4, LatestTyped, NoTextTyped
  <2>6. ASSUME ~strayed PROVE Alone(tasks', overlay', current') /\ Texted(live', current', group', inputs')
    <3>1. t.key = current /\ Alone(tasks, overlay, current) /\ Texted(live, current, group, inputs)
      BY <1>0, <2>1, <2>6 DEF Alone
    <3>2. [t EXCEPT !.op = "props"].key = current
      BY <1>a, <3>1 DEF Asks, Tasks
    <3>3. Alone(tasks', overlay', current')
      <4> DEFINE u == [t EXCEPT !.op = "props"]
      <4>1. u.key = current
        BY <3>2
      <4> HIDE DEF u
      <4>2. Alone((tasks \ {t}) \cup {u}, overlay, current)
        BY <2>1, <3>1, <4>1, AloneOn
      <4> QED BY <2>1, <4>2 DEF u
    <3>4. live'.key \in {current, NoKey}
      BY <2>2, <2>5, <3>1 DEF Texted
    <3>5. group' # "none" => group' = Kind[current] /\ inputs'[group'].from \in {current, NoKey}
      <4>1. CASE Kind[t.key] = "schedule"
        BY <1>c, <2>2, <2>3, <3>1, <4>1 DEF Texted
      <4>2. CASE Kind[t.key] # "schedule"
        <5>1. Fill(t.key, text)[Kind[t.key]].from = text.key
          BY <2>3, <2>5, <4>2, FillTyped DEF Sound, Edited
        <5>2. inputs' = Fill(t.key, text) /\ group' = Kind[t.key]
          BY <2>2, <4>2
        <5> QED BY <2>5, <3>1, <5>1, <5>2
      <4> QED BY <4>1, <4>2
    <3>6. Texted(live', current', group', inputs')
      BY <2>1, <3>4, <3>5 DEF Texted
    <3> QED BY <3>3, <3>6
  <2> QED BY <1>n, <2>1, <2>6 DEF OwnValue
<1>2. CASE OpenProps(t)
  <2> DEFINE u == [t EXCEPT !.op = "history", !.key = current]
  <2>1. overlay' = overlay /\ current' = current /\ strayed' = strayed /\ sent' = sent /\ live' = live /\ group' = group /\ inputs' = inputs
        /\ tasks' = (tasks \ {t}) \cup {u} /\ t.op \in Opening
    BY <1>2 DEF OpenProps, edit, history, Opening
  <2>2. u.key = current
    BY <1>a DEF Asks, Tasks
  <2> HIDE DEF u
  <2>3. ~strayed => Alone((tasks \ {t}) \cup {u}, overlay, current)
    BY <1>0, <2>1, <2>2, AloneOn
  <2> QED BY <1>0, <1>n, <2>1, <2>3 DEF OwnValue
<1>3. CASE OpenHistory(t)
  <2>1. current' = current /\ strayed' = strayed /\ sent' = sent /\ live' = live /\ group' = group /\ inputs' = inputs
        /\ tasks' = tasks \ {t} /\ t.op \in Opening
    BY <1>3 DEF OpenHistory, edit, history, Opening
  <2> DEFINE o == overlay'
  <2>2. ~strayed => Alone(tasks \ {t}, o, current)
    <3> HIDE DEF o
    <3> QED BY <1>0, <2>1, AloneEnds
  <2> QED BY <1>0, <1>n, <2>1, <2>2 DEF OwnValue
<1>4. ASSUME overlay' = overlay, current' = current, tasks' = tasks \ {t}, group' = group, inputs' = inputs, ~strayed' => ~strayed,
             ~strayed' => live' = live \/ live'.key = current
      PROVE  TextsOwn'
  <2>1. ~strayed' => Alone(tasks', overlay', current')
    <3>1. ~strayed => Alone(tasks', overlay, current)
      BY <1>0, <1>4, AloneKept
    <3> QED BY <1>4, <3>1
  <2>2. ~strayed' => Texted(live', current', group', inputs')
    BY <1>0, <1>4 DEF Texted
  <2> QED BY <1>n, <2>1, <2>2
<1>5. CASE FinishReload(t) \/ FailRefresh(t) \/ RefuseWrite(t) \/ AcceptSchedule(t) \/ RefuseSchedule(t)
  <2>1. overlay' = overlay /\ current' = current /\ tasks' = tasks \ {t} /\ group' = group /\ inputs' = inputs /\ strayed' = strayed
        /\ live' = live /\ sent' = sent
    BY <1>5 DEF FinishReload, FailRefresh, RefuseWrite, AcceptSchedule, RefuseSchedule, view, edit, history
  <2> QED BY <1>4, <2>1 DEF OwnValue
<1>6. CASE FinishRefresh(t)
  <2>1. overlay' = overlay /\ current' = current /\ tasks' = tasks \ {t} /\ group' = group /\ inputs' = inputs /\ strayed' = strayed
        /\ live' = (IF t.key = current THEN Latest(t.key, dev[t.key]) ELSE live) /\ sent' = sent
    BY <1>6 DEF FinishRefresh, history
  <2>2. Latest(t.key, dev[t.key]).key = t.key
    BY DEF Latest
  <2> QED BY <1>4, <2>1, <2>2 DEF OwnValue
<1>7. CASE AcceptWrite(t)
  <2>1. overlay' = overlay /\ current' = current /\ tasks' = tasks \ {t} /\ group' = group /\ inputs' = inputs
        /\ strayed' = (strayed \/ t.key # current) /\ sent' = sent
        /\ (live' = live \/ live' = [key |-> t.key, val |-> t.val, raw |-> TRUE])
    BY <1>7 DEF AcceptWrite, Strays, view
  <2>2. ~strayed' => ~strayed /\ t.key = current
    BY <2>1, Zenon
  <2>3. live' = live \/ live'.key = t.key
    BY <2>1
  <2> QED BY <1>4, <2>1, <2>2, <2>3 DEF OwnValue
<1> QED BY <1>1, <1>2, <1>3, <1>5, <1>6, <1>7 DEF Answer

\* And while time passes.
LEMMA TextsTime == ASSUME Sound, TextsOwn, OwnValue, Tick \/ \E k \in Keys : Timeout(k) PROVE TextsOwn' /\ OwnValue'
<1>0. ~strayed => Alone(tasks, overlay, current) /\ Texted(live, current, group, inputs)
  BY TextsAre
<1>n. TextsOwn' <=> (~strayed' => Alone(tasks', overlay', current') /\ Texted(live', current', group', inputs'))
  BY DEF TextsOwn, Alone, Texted
<1>c. current \in Keys \cup {NoKey}
  BY DEF Sound, Shown
<1>1. ASSUME overlay' = overlay, current' = current, ~strayed' => ~strayed, live' = live, group' = group,
             ~strayed => Texted(live, current, group, inputs'),
             \A t \in tasks' : t \in tasks \/ t.op \notin Opening
      PROVE  TextsOwn'
  <2>1. ~strayed => Alone(tasks', overlay', current')
    <3>1. ~strayed => Alone(tasks', overlay, current)
      BY <1>0, <1>1, AloneKept
    <3> QED BY <1>1, <3>1
  <2> QED BY <1>0, <1>1, <1>n, <2>1
<1>2. CASE Tick \/ \E k \in Keys : ReloadTimeout(k)
  <2>1. overlay' = overlay /\ current' = current /\ strayed' = strayed /\ live' = live /\ group' = group /\ inputs' = inputs /\ sent' = sent
        /\ tasks' \in {tasks \cup {Task("refresh", current, 0)}, tasks \cup {Task("reload", current, 0)}}
    BY <1>2 DEF Tick, ReloadTimeout, Reload, view, edit, history
  <2>2. Task("refresh", current, 0).op \notin Opening /\ Task("reload", current, 0).op \notin Opening
    BY <1>c, NotOpening
  <2>3. \A t \in tasks' : t \in tasks \/ t.op \notin Opening
    BY <2>1, <2>2
  <2> QED BY <1>0, <1>1, <2>1, <2>3 DEF OwnValue
<1>3. ASSUME NEW k \in Keys, LeaveTimeout(k) PROVE TextsOwn' /\ OwnValue'
  <2>1. overlay' = overlay /\ current' = current /\ strayed' = (strayed \/ k # current) /\ live' = live /\ group' = group /\ sent' = sent
        /\ tasks' = tasks /\ LeaveEdit
    BY <1>3 DEF LeaveTimeout, Strays, view
  <2>2. ~strayed => Texted(live, current, group, inputs')
    BY <1>0, <2>1, LeaveTexted
  <2> QED BY <1>1, <2>1, <2>2 DEF OwnValue
<1>4. ASSUME NEW k \in Keys, ScheduleTimeout(k) PROVE TextsOwn' /\ OwnValue'
  <2>1. overlay' = overlay /\ current' = current /\ strayed' = strayed /\ live' = live /\ group' = group /\ inputs' = inputs /\ sent' = sent
        /\ tasks' = tasks
    BY <1>4 DEF ScheduleTimeout, view, edit, history
  <2> QED BY <1>0, <1>1, <2>1 DEF OwnValue
<1> QED BY <1>2, <1>3, <1>4 DEF Timeout

(***************************************************************************)
(* Schedules that the devices know                                         *)
(***************************************************************************)

\* Entries that the editor can show.
Showable == {e \in Entries : e.val \in 0 .. States - 1}
AllShowable(s) == \A i \in DOMAIN s : s[i].val \in 0 .. States - 1

\* They make up what it shows.
LEMMA ShowableEntries ==
  /\ \A s \in Seq(Entries) : AllShowable(s) => s \in Seq(Showable)
  /\ \A s \in Seq(Showable) : s \in Seq(Entries) /\ AllShowable(s)
<1>1. ASSUME NEW s \in Seq(Entries), AllShowable(s) PROVE s \in Seq(Showable)
  <2>1. \A i \in 1 .. Len(s) : s[i] \in Showable
    BY <1>1 DEF AllShowable, Showable
  <2>2. s = [i \in 1 .. Len(s) |-> s[i]] /\ Len(s) \in Nat
    OBVIOUS
  <2> QED BY <2>1, <2>2, IsASeq
<1>2. ASSUME NEW s \in Seq(Showable) PROVE s \in Seq(Entries) /\ AllShowable(s)
  <2>1. \A i \in 1 .. Len(s) : s[i] \in Showable
    OBVIOUS
  <2>2. s = [i \in 1 .. Len(s) |-> s[i]] /\ Len(s) \in Nat /\ DOMAIN s = 1 .. Len(s)
    OBVIOUS
  <2>3. \A i \in 1 .. Len(s) : s[i] \in Entries /\ s[i].val \in 0 .. States - 1
    BY <2>1 DEF Showable
  <2>4. s \in Seq(Entries)
    BY <2>2, <2>3, IsASeq
  <2> QED BY <2>2, <2>3, <2>4 DEF AllShowable
<1> QED BY <1>1, <1>2

\* What a device knows can be shown when it is counted from zero.
LEMMA DecodedShowable == ASSUME NEW s \in Seq(Entries), KnownInOrder(s) PROVE AllShowable(Decoded(s))
<1>1. ASSUME NEW i \in DOMAIN s PROVE [s[i] EXCEPT !.val = @ - 1].val \in 0 .. States - 1
  <2> DEFINE e == s[i]
  <2>1. e \in Entries /\ e.val \in 1 .. States
    BY DEF KnownInOrder
  <2>2. [e EXCEPT !.val = @ - 1].val = e.val - 1
    BY <2>1 DEF Entries
  <2> HIDE DEF e
  <2>3. e.val - 1 \in 0 .. States - 1
    BY <2>1, ConstantsAssumption DEF ConstantsAssumption
  <2> QED BY <2>2, <2>3 DEF e
<1> QED BY <1>1 DEF Decoded, AllShowable

\* What the editor shows is known to the device once it is sorted and counted from one.
LEMMA CodedKnown ==
  ASSUME NEW c \in Schedules, c.type = "enumerated", AllShowable(c.entries), Rising(c.entries)
  PROVE  KnownInOrder(Coded(c))
<1> DEFINE s == c.entries
           r == Coded(c)
           Up(i) == [s[i] EXCEPT !.val = @ + 1]
<1>1. s \in Seq(Entries) /\ AllShowable(s) /\ Rising(s)
  BY DEF Schedules
<1>2. r = [i \in DOMAIN s |-> Up(i)]
  BY DEF Coded
<1> HIDE DEF s, r
<1>3. DOMAIN s = 1 .. Len(s) /\ Len(s) \in Nat /\ \A i \in DOMAIN s : s[i] \in Entries
  BY <1>1
<1>4. ASSUME NEW i \in DOMAIN s PROVE Up(i).val \in 1 .. States /\ Up(i).time = s[i].time
  <2> DEFINE e == s[i]
  <2>1. e \in Entries /\ e.val \in 0 .. States - 1
    BY <1>1, <1>3 DEF AllShowable
  <2>2. [e EXCEPT !.val = @ + 1].val = e.val + 1 /\ [e EXCEPT !.val = @ + 1].time = e.time
    BY <2>1 DEF Entries
  <2> HIDE DEF e
  <2>3. e.val + 1 \in 1 .. States
    BY <2>1, ConstantsAssumption DEF ConstantsAssumption
  <2> QED BY <2>2, <2>3 DEF e
<1> HIDE DEF Up
<1>5. ASSUME NEW i \in DOMAIN r, i > 1 PROVE r[i - 1].time <= r[i].time
  <2>1. i \in DOMAIN s /\ i - 1 \in DOMAIN s /\ i - 1 < i
    BY <1>2, <1>3, <1>5
  <2>2. s[i - 1].time <= s[i].time
    BY <1>1, <2>1 DEF Rising
  <2> QED BY <1>2, <1>4, <2>1, <2>2
<1>6. \A i \in DOMAIN r : r[i].val \in 1 .. States
  BY <1>2, <1>4
<1> QED BY <1>5, <1>6 DEF KnownInOrder, r

\* A request that is none to save has nothing to check.
Knows(ts) == \A t \in ts : t.op = "save" => KnownInOrder(t.entries)

\* No request is one to save but that of the editor.
LEMMA NotSaving ==
  ASSUME Sound, NEW op \in Ops, op # "save", NEW k \in Keys \cup {NoKey}, NEW v \in Nat
  PROVE  Task(op, k, v).op # "save"
<1>1. Task(op, k, v).op = op
  BY TaskTyped DEF Sound, Pending
<1> QED BY <1>1

\* At first the devices have one entry each, and the editor has none.
LEMMA SchedulesInit == ASSUME Init PROVE SchedulesCoded
<1>1. 1 \in 1 .. States
  BY ConstantsAssumption DEF ConstantsAssumption
<1>2. ASSUME NEW k \in Keys PROVE KnownInOrder(devSched[k])
  <2>1. devSched[k] = <<[time |-> FirstTime, val |-> 1]>> \/ devSched[k] = <<>>
    BY DEF Init
  <2>2. KnownInOrder(<<>>)
    BY DEF KnownInOrder
  <2>3. KnownInOrder(<<[time |-> FirstTime, val |-> 1]>>)
    BY <1>1 DEF KnownInOrder
  <2> QED BY <2>1, <2>2, <2>3
<1>3. tasks = {} /\ \A i \in DOMAIN sched.entries : sched.entries[i].val \in 0 .. States - 1
  BY DEF Init
<1> QED BY <1>2, <1>3 DEF SchedulesCoded

\* The user changes what is edited only, and sends it sorted and counted from one.
LEMMA SchedulesUser == ASSUME Sound, SchedulesCoded, User PROVE SchedulesCoded'
<1> DEFINE All == \A k \in Keys : KnownInOrder(devSched[k])
<1>0. ~blind => All /\ Knows(tasks) /\ AllShowable(sched.entries)
  BY DEF SchedulesCoded, Knows, AllShowable
<1>n. SchedulesCoded' <=> (~blind' => (\A k \in Keys : KnownInOrder(devSched'[k])) /\ Knows(tasks') /\ AllShowable(sched'.entries))
  BY DEF SchedulesCoded, KnownInOrder, Knows, AllShowable
<1>s. sched \in Schedules /\ sched.entries \in Seq(Entries)
  BY DEF Sound, Scheduled, Schedules
<1>c. current \in Keys \cup {NoKey}
  BY DEF Sound, Shown
<1>1. ASSUME blind' = blind, devSched' = devSched, sched'.entries = sched.entries, \A t \in tasks' : t \in tasks \/ t.op # "save"
      PROVE  SchedulesCoded'
  <2>1. ~blind => Knows(tasks')
    BY <1>0, <1>1 DEF Knows
  <2> QED BY <1>0, <1>1, <1>n, <2>1
<1>2. ASSUME NEW k \in Keys, Open(k) PROVE SchedulesCoded'
  <2>1. blind' = blind /\ devSched' = devSched /\ sched' = sched /\ tasks' = tasks \cup {Task("latest", k, 0)}
    BY <1>2 DEF Open, schedule
  <2>2. Task("latest", k, 0).op # "save"
    BY NotSaving DEF Ops, Opening
  <2> QED BY <1>1, <2>1, <2>2
<1>3. CASE Close
  <2>1. blind' = blind /\ devSched' = devSched /\ tasks' = tasks /\ sched' = [sched EXCEPT !.key = NoKey, !.type = "real"]
    BY <1>3 DEF Close, history, world
  <2>2. sched'.entries = sched.entries
    BY <1>s, <2>1 DEF Schedules
  <2> QED BY <1>1, <2>1, <2>2
<1>4. ASSUME NEW m \in {"realtime", "history"}, ClickMode(m) \/ ApplyWindow(m) PROVE SchedulesCoded'
  <2>1. blind' = blind /\ devSched' = devSched /\ sched' = sched /\ tasks' \in {tasks, tasks \cup {Reload}}
    BY <1>4 DEF ClickMode, ApplyWindow, schedule, history, world
  <2>2. Reload.op # "save"
    BY <1>c, NotSaving DEF Ops, Reload
  <2> QED BY <1>1, <2>1, <2>2
<1>5. CASE StartEdit \/ CancelEdit
  <2>1. blind' = blind /\ devSched' = devSched /\ sched' = sched /\ tasks' = tasks
    BY <1>5 DEF StartEdit, CancelEdit, schedule, history, world
  <2> QED BY <1>1, <2>1
<1>6. CASE SubmitEdit
  <2>1. blind' = blind /\ devSched' = devSched /\ sched' = sched /\ tasks' = tasks \cup {Task("write", current, Submitted)}
    BY <1>6 DEF SubmitEdit, schedule
  <2>2. Submitted \in Nat
    BY <1>6, SubmittedTyped DEF SubmitEdit, Sound, Edited
  <2>3. Task("write", current, Submitted).op # "save"
    BY <1>c, <2>2, NotSaving DEF Ops
  <2> QED BY <1>1, <2>1, <2>3
<1>7. ASSUME NEW v \in InputValues, SetInput(v) PROVE SchedulesCoded'
  <2>1. blind' = blind /\ devSched' = devSched /\ sched' = sched /\ tasks' = tasks
    BY <1>7 DEF SetInput, schedule, history, world
  <2> QED BY <1>1, <2>1
<1>8. ASSUME NEW on \in BOOLEAN, ToggleSchedule(on) PROVE SchedulesCoded'
  <2>1. blind' = blind /\ devSched' = devSched /\ sched' = sched /\ tasks' = tasks
    BY <1>8 DEF ToggleSchedule, history, world
  <2> QED BY <1>1, <2>1
<1>9. ASSUME NEW es, EditEntries(es), ~blind => AllShowable(es) PROVE SchedulesCoded'
  <2>1. blind' = blind /\ devSched' = devSched /\ sched' = [sched EXCEPT !.entries = es] /\ tasks' = tasks
    BY <1>9 DEF EditEntries, history, world
  <2>2. sched'.entries = es
    BY <1>s, <2>1 DEF Schedules
  <2> QED BY <1>0, <1>9, <1>n, <2>1, <2>2
<1>10. CASE SaveSchedule
  <2> DEFINE sorted == [sched EXCEPT !.entries = InOrder(@)]
             task == [Task("save", sched.key, 0) EXCEPT !.entries = Coded(sorted)]
  <2>1. sched' = sorted /\ tasks' = tasks \cup {task} /\ devSched' = devSched /\ blind' = (blind \/ sched.type = "real")
    BY <1>10 DEF SaveSchedule
  <2>2. InOrder(sched.entries) \in Seq(Entries) /\ Rising(InOrder(sched.entries))
    <3>1. \A e \in Entries : e.time \in Nat
      BY DEF Entries
    <3> QED BY <1>s, <3>1, InOrderRises
  <2>3. sorted \in Schedules /\ sorted.entries = InOrder(sched.entries) /\ sorted.type = sched.type
    BY <1>s, <2>2 DEF Schedules
  <2>4. sched.key \in Keys \cup {NoKey} /\ sched.type \in {"real", "enumerated"}
    BY <1>s DEF Schedules
  <2>5. task.entries = Coded(sorted)
    BY DEF Task
  <2> HIDE DEF sorted, task
  <2>6. ASSUME ~blind' PROVE (\A k \in Keys : KnownInOrder(devSched'[k])) /\ Knows(tasks') /\ AllShowable(sched'.entries)
    <3>0. ~blind /\ sched.type # "real"
      BY <2>1, <2>6, Zenon
    <3>1. All /\ Knows(tasks) /\ AllShowable(sched.entries) /\ sched.type = "enumerated"
      BY <1>0, <2>4, <3>0
    <3>2. AllShowable(InOrder(sched.entries))
      <4>1. sched.entries \in Seq(Showable)
        BY <1>s, <3>1, ShowableEntries
      <4>2. \A e \in Showable : e.time \in Nat
        BY DEF Showable, Entries
      <4>3. InOrder(sched.entries) \in Seq(Showable)
        BY <4>1, <4>2, InOrderRises
      <4> QED BY <4>3, ShowableEntries
    <3>3. KnownInOrder(Coded(sorted))
      BY <2>2, <2>3, <3>1, <3>2, CodedKnown
    <3>4. Knows(tasks')
      BY <2>1, <2>5, <3>1, <3>3 DEF Knows
    <3> QED BY <2>1, <2>3, <3>1, <3>2, <3>4
  <2> QED BY <1>n, <2>6
<1>11. CASE AddEntry
  <2> DEFINE s == sched.entries
             n == Len(s)
             e == IF n = 0 THEN [time |-> FirstTime, val |-> 0] ELSE s[n]
  <2>1. EditEntries(Append(s, e))
    BY <1>11 DEF AddEntry
  <2>2. s \in Seq(Entries) /\ (~blind => AllShowable(s))
    BY <1>0, <1>s
  <2>3. ASSUME ~blind PROVE AllShowable(Append(s, e))
    <3> HIDE DEF s
    <3>1. n \in Nat /\ (n # 0 => n \in DOMAIN s)
      BY <2>2
    <3>2. e.val \in 0 .. States - 1
      <4>1. 0 \in 0 .. States - 1
        BY ConstantsAssumption DEF ConstantsAssumption
      <4> QED BY <2>2, <2>3, <3>1, <4>1 DEF AllShowable
    <3> HIDE DEF e
    <3>3. \A i \in DOMAIN Append(s, e) : (i \in DOMAIN s /\ Append(s, e)[i] = s[i]) \/ Append(s, e)[i] = e
      BY <2>2
    <3> QED BY <2>2, <2>3, <3>2, <3>3 DEF AllShowable
  <2> QED BY <1>9, <2>1, <2>3
<1>12. ASSUME NEW i \in 1 .. MaxEntries, RemoveEntry(i) PROVE SchedulesCoded'
  <2> DEFINE s == sched.entries
  <2>1. i \in DOMAIN s /\ EditEntries(Without(s, i))
    BY <1>12 DEF RemoveEntry
  <2>2. s \in Seq(Entries) /\ (~blind => AllShowable(s))
    BY <1>0, <1>s
  <2>3. ASSUME ~blind PROVE AllShowable(Without(s, i))
    <3> HIDE DEF s
    <3>1. i \in 1 .. Len(s) /\ Len(s) \in Nat /\ DOMAIN s = 1 .. Len(s)
      BY <2>1, <2>2
    <3>2. ASSUME NEW j \in 1 .. Len(s) - 1 PROVE (IF j < i THEN s[j] ELSE s[j + 1]).val \in 0 .. States - 1
      <4>1. j \in 1 .. Len(s) /\ j + 1 \in 1 .. Len(s)
        BY <3>1
      <4> QED BY <2>2, <2>3, <3>1, <4>1 DEF AllShowable
    <3> QED BY <3>2 DEF Without, AllShowable
  <2> QED BY <1>9, <2>1, <2>3
<1>13. ASSUME NEW i, NEW field, NEW v, UpdateEntry(i, field, v),
              \/ field = "val" /\ v \in 0 .. States - 1
              \/ field = "time" /\ v \in Times
       PROVE  SchedulesCoded'
  <2> DEFINE s == sched.entries
             e == [s[i] EXCEPT ![field] = v]
  <2>1. i \in DOMAIN s /\ EditEntries([s EXCEPT ![i] = e])
    BY <1>13 DEF UpdateEntry
  <2>2. s \in Seq(Entries) /\ (~blind => AllShowable(s))
    BY <1>0, <1>s
  <2>3. ASSUME ~blind PROVE AllShowable([s EXCEPT ![i] = e])
    <3>1. s[i] \in Entries /\ s[i].val \in 0 .. States - 1
      BY <2>1, <2>2, <2>3 DEF AllShowable
    <3>2. e.val \in 0 .. States - 1
      BY <1>13, <3>1 DEF Entries
    <3> HIDE DEF e, s
    <3>3. \A j \in DOMAIN s : [s EXCEPT ![i] = e][j] = IF j = i THEN e ELSE s[j]
      BY <2>1
    <3> QED BY <2>2, <2>3, <3>2, <3>3 DEF AllShowable
  <2> QED BY <1>9, <2>1, <2>3
<1>14. User => \/ \E k \in Keys : Open(k)
               \/ Close
               \/ \E m \in {"realtime", "history"} : ClickMode(m) \/ ApplyWindow(m)
               \/ StartEdit \/ CancelEdit \/ SubmitEdit
               \/ \E v \in InputValues : SetInput(v)
               \/ \E on \in BOOLEAN : ToggleSchedule(on)
               \/ AddEntry \/ SaveSchedule
               \/ \E i \in 1..MaxEntries : \/ RemoveEntry(i)
                                           \/ \E v \in 0..(States - 1) : UpdateEntry(i, "val", v)
                                           \/ \E v \in Times : UpdateEntry(i, "time", v)
  BY Zenon DEF User, OpenFromPage, OpenFromSidebar
<1> QED BY <1>2, <1>3, <1>4, <1>5, <1>6, <1>7, <1>8, <1>10, <1>11, <1>12, <1>13, <1>14

\* A schedule is loaded as the device has it, and a device takes what was sent.
LEMMA SchedulesAnswer == ASSUME Sound, SchedulesCoded, NEW t \in tasks, Answer(t) PROVE SchedulesCoded'
<1> DEFINE All == \A k \in Keys : KnownInOrder(devSched[k])
<1>0. ~blind => All /\ Knows(tasks) /\ AllShowable(sched.entries)
  BY DEF SchedulesCoded, Knows, AllShowable
<1>n. SchedulesCoded' <=> (~blind' => (\A k \in Keys : KnownInOrder(devSched'[k])) /\ Knows(tasks') /\ AllShowable(sched'.entries))
  BY DEF SchedulesCoded, KnownInOrder, Knows, AllShowable
<1>a. Asks(t)
  BY DEF Sound, Pending
<1>1. ASSUME blind' = blind, devSched' = devSched, ~blind => AllShowable(sched'.entries), \A u \in tasks' : u \in tasks \/ u.op # "save"
      PROVE  SchedulesCoded'
  <2>1. ~blind => Knows(tasks')
    BY <1>0, <1>1 DEF Knows
  <2> QED BY <1>0, <1>1, <1>n, <2>1
<1>2. CASE OpenValue(t)
  <2>1. blind' = blind /\ devSched' = devSched /\ sched' = sched /\ tasks' = (tasks \ {t}) \cup {[t EXCEPT !.op = "props"]}
    BY <1>2 DEF OpenValue, Go, schedule, history
  <2>2. [t EXCEPT !.op = "props"].op # "save"
    BY <1>a DEF Asks, Tasks
  <2> QED BY <1>0, <1>1, <2>1, <2>2
<1>3. CASE OpenProps(t)
  <2> DEFINE u == [t EXCEPT !.op = "history", !.key = current]
  <2>1. blind' = blind /\ devSched' = devSched /\ tasks' = (tasks \ {t}) \cup {u}
    BY <1>3 DEF OpenProps, history
  <2>2. u.op # "save"
    BY <1>a DEF Asks, Tasks
  <2> HIDE DEF u
  <2>3. t.key \in Keys
    BY <1>3, <1>a DEF OpenProps, Asks
  <2>4. ASSUME ~blind PROVE AllShowable(sched'.entries)
    <3>1. CASE UNCHANGED schedule
      BY <1>0, <2>4, <3>1 DEF schedule
    <3>2. ASSUME NEW ok \in BOOLEAN, LoadSchedule(t.key, ok) PROVE AllShowable(sched'.entries)
      <4>1. sched'.entries = Decoded(devSched[t.key]) \/ sched'.entries = <<>>
        BY <3>2 DEF LoadSchedule
      <4>2. devSched[t.key] \in Seq(Entries) /\ KnownInOrder(devSched[t.key])
        BY <1>0, <2>3, <2>4 DEF Sound, Devices
      <4>3. AllShowable(Decoded(devSched[t.key])) /\ AllShowable(<<>>)
        BY <4>2, DecodedShowable DEF AllShowable
      <4> QED BY <4>1, <4>3
    <3> QED BY <1>3, <3>1, <3>2 DEF OpenProps
  <2> QED BY <1>1, <2>1, <2>2, <2>4
<1>4. CASE OpenHistory(t) \/ FinishReload(t) \/ FinishRefresh(t) \/ FailRefresh(t) \/ AcceptWrite(t) \/ RefuseWrite(t)
  <2>1. blind' = blind /\ devSched' = devSched /\ sched' = sched /\ tasks' = tasks \ {t}
    BY <1>4 DEF OpenHistory, FinishReload, FinishRefresh, FailRefresh, AcceptWrite, RefuseWrite, schedule, history
  <2> QED BY <1>0, <1>1, <2>1
<1>5. CASE AcceptSchedule(t) \/ RefuseSchedule(t)
  <2>1. blind' = blind /\ sched' = sched /\ tasks' = tasks \ {t} /\ t.op = "save" /\ devSched' \in {devSched, [devSched EXCEPT ![t.key] = t.entries]}
    BY <1>5 DEF AcceptSchedule, RefuseSchedule, schedule, history
  <2>2. DOMAIN devSched = Keys
    BY DEF Sound, Devices
  <2>3. ASSUME ~blind PROVE (\A k \in Keys : KnownInOrder(devSched'[k])) /\ Knows(tasks')
    <3>1. KnownInOrder(t.entries) /\ All /\ Knows(tasks)
      BY <1>0, <2>1, <2>3 DEF Knows
    <3>2. \A k \in Keys : devSched'[k] = devSched[k] \/ devSched'[k] = t.entries
      BY <2>1, <2>2
    <3>3. \A k \in Keys : KnownInOrder(devSched'[k])
      BY <3>1, <3>2
    <3>4. Knows(tasks')
      BY <2>1, <3>1 DEF Knows
    <3> QED BY <3>3, <3>4
  <2> QED BY <1>0, <1>n, <2>1, <2>3
<1> QED BY <1>2, <1>3, <1>4, <1>5 DEF Answer

\* Time changes none.
LEMMA SchedulesTime == ASSUME Sound, SchedulesCoded, Tick \/ \E k \in Keys : Timeout(k) PROVE SchedulesCoded'
<1>0. ~blind => (\A k \in Keys : KnownInOrder(devSched[k])) /\ Knows(tasks) /\ AllShowable(sched.entries)
  BY DEF SchedulesCoded, Knows, AllShowable
<1>n. SchedulesCoded' <=> (~blind' => (\A k \in Keys : KnownInOrder(devSched'[k])) /\ Knows(tasks') /\ AllShowable(sched'.entries))
  BY DEF SchedulesCoded, KnownInOrder, Knows, AllShowable
<1>c. current \in Keys \cup {NoKey}
  BY DEF Sound, Shown
<1>1. blind' = blind /\ devSched' = devSched /\ sched' = sched
  BY DEF Tick, Timeout, ReloadTimeout, LeaveTimeout, ScheduleTimeout, schedule, history
<1>2. tasks' \in {tasks, tasks \cup {Task("refresh", current, 0)}, tasks \cup {Task("reload", current, 0)}}
  BY DEF Tick, Timeout, ReloadTimeout, LeaveTimeout, ScheduleTimeout, Reload
<1>3. Task("refresh", current, 0).op # "save" /\ Task("reload", current, 0).op # "save"
  BY <1>c, NotSaving DEF Ops
<1>4. ~blind => Knows(tasks')
  BY <1>0, <1>2, <1>3 DEF Knows
<1> QED BY <1>0, <1>1, <1>4, <1>n

(***************************************************************************)
(* The theorems                                                            *)
(***************************************************************************)

\* What holds of the dialogue is about its variables only.
LEMMA DialogueUnchanged ==
  ASSUME UNCHANGED vars
  PROVE  (Sound => Sound') /\ (TextsOwn /\ OwnValue => TextsOwn' /\ OwnValue') /\ (SchedulesCoded => SchedulesCoded')
<1>1. UNCHANGED <<modal, overlay, current, sidebar, chart, timer, tw, live, group, inputs, editing, saving, sched, schedEditing, schedSaving,
                  tasks, timers, dev, devSched, acts, strayed, blind, sent>>
  BY DEF vars, view, edit, schedule, world, history
<1>2. Sound => Sound'
  BY <1>1 DEF Sound, Shown, Edited, Scheduled, Pending, Devices
<1>3. TextsOwn /\ OwnValue => TextsOwn' /\ OwnValue'
  BY <1>1 DEF TextsOwn, OwnValue
<1>4. SchedulesCoded => SchedulesCoded'
  BY <1>1 DEF SchedulesCoded, KnownInOrder
<1> QED BY <1>2, <1>3, <1>4

\* The dialogue stays sound.
LEMMA SoundAlways == Spec => []Sound
<1>1. Sound /\ [Next]_vars => Sound'
  <2> SUFFICES ASSUME Sound, [Next]_vars PROVE Sound'
    OBVIOUS
  <2>1. CASE UNCHANGED vars
    BY <2>1, DialogueUnchanged
  <2>2. CASE User
    BY <2>2, SoundUser
  <2>3. CASE \E t \in tasks : Answer(t)
    BY <2>3, SoundOpening, SoundAnswer DEF Answer
  <2>4. CASE Tick \/ \E k \in Keys : Timeout(k)
    BY <2>4, SoundTime
  <2> QED BY <2>1, <2>2, <2>3, <2>4 DEF Next
<1> QED BY SoundInit, <1>1, PTL DEF Spec

\* Globals, elements, requests and timeouts have the values the code gives them, and a value is written to the key it was
\* read from or entered for, whatever is opened, closed, refreshed or late in between (ValuesOwned).
THEOREM ValuesStayOwned == Spec => []ValuesOwned
<1>1. Sound /\ TextsOwn /\ OwnValue /\ [Next]_vars => TextsOwn' /\ OwnValue'
  <2> SUFFICES ASSUME Sound, TextsOwn, OwnValue, [Next]_vars PROVE TextsOwn' /\ OwnValue'
    OBVIOUS
  <2>1. CASE UNCHANGED vars
    BY <2>1, DialogueUnchanged
  <2>2. CASE User
    BY <2>2, TextsUser
  <2>3. CASE \E t \in tasks : Answer(t)
    BY <2>3, TextsAnswer
  <2>4. CASE Tick \/ \E k \in Keys : Timeout(k)
    BY <2>4, TextsTime
  <2> QED BY <2>1, <2>2, <2>3, <2>4 DEF Next
<1>2. Sound /\ OwnValue => ValuesOwned
  BY SoundIs DEF ValuesOwned
<1> QED BY SoundAlways, TextsInit, <1>1, <1>2, PTL DEF Spec

\* The schedules of the devices are of states they know, in order of time, unless one was saved whose properties had not
\* been loaded (ScheduleCoded).
THEOREM SchedulesStayCoded == Spec => []ScheduleCoded
<1>1. Sound /\ SchedulesCoded /\ [Next]_vars => SchedulesCoded'
  <2> SUFFICES ASSUME Sound, SchedulesCoded, [Next]_vars PROVE SchedulesCoded'
    OBVIOUS
  <2>1. CASE UNCHANGED vars
    BY <2>1, DialogueUnchanged
  <2>2. CASE User
    BY <2>2, SchedulesUser
  <2>3. CASE \E t \in tasks : Answer(t)
    BY <2>3, SchedulesAnswer
  <2>4. CASE Tick \/ \E k \in Keys : Timeout(k)
    BY <2>4, SchedulesTime
  <2> QED BY <2>1, <2>2, <2>3, <2>4 DEF Next
<1>2. SchedulesCoded => ScheduleCoded
  BY DEF SchedulesCoded, ScheduleCoded
<1> QED BY SoundAlways, SchedulesInit, <1>1, <1>2, PTL DEF Spec
=============================================================================
