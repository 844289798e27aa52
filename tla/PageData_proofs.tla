---------------------------- MODULE PageData_proofs ----------------------------
(***************************************************************************)
(* Proofs about the pages that list, configure and import: what the list   *)
(* of telemetries and the tree of assets listen to, the ids of the         *)
(* configuration's override, and what of a file is stored and how its      *)
(* numbers are read, each from an inductive invariant of its module, for   *)
(* any points, keys, hosts, files and bounds.                              *)
(***************************************************************************)
EXTENDS Pages, Functions, FiniteSetTheorems, SequenceTheorems, TLAPS

(***************************************************************************)
(* Lists of what is shown                                                  *)
(***************************************************************************)

\* An entry of a sequence is what the sequence is of.
LEMMA EntryOf == ASSUME NEW S, NEW s \in Seq(S), NEW i \in DOMAIN s PROVE s[i] \in S
OBVIOUS

\* Of some numbers up to another one is the least.
LEMMA Least == ASSUME NEW N \in Nat, NEW B \in SUBSET (0 .. N), B # {} PROVE \E m \in B : \A k \in 0 .. m - 1 : k \notin B
<1>1. IsWellFoundedOn(OpToRel(<,Nat), Nat)
  BY NatLessThanWellFounded
<1>2. B \subseteq Nat
  OBVIOUS
<1>3. PICK m \in B : \A k \in B : <<k, m>> \notin OpToRel(<,Nat)
  BY <1>1, <1>2, WFMin, Zenon
<1>4. ASSUME NEW k \in B PROVE ~ (k < m)
  <2>1. <<k, m>> \in Nat \X Nat /\ <<k, m>> \notin OpToRel(<,Nat)
    BY <1>2, <1>3
  <2> QED BY <2>1, Zenon DEF OpToRel
<1> QED BY <1>2, <1>4

\* f has what is left of the first entries of a sequence, for as many as n.
Leaves(ps, search, n, f) ==
  f = [i \in 0 .. n |-> IF i = 0 THEN <<>> ELSE IF ps[i] \in search THEN Append(f[i - 1], ps[i]) ELSE f[i - 1]]

\* A function that leaves some of a sequence has sequences for values.
LEMMA LeavesSequences ==
  ASSUME NEW S, NEW ps \in Seq(S), NEW search, NEW n \in 0 .. Len(ps), NEW f, Leaves(ps, search, n, f)
  PROVE  \A i \in 0 .. n : f[i] \in Seq(S)
<1> DEFINE B == {i \in 0 .. n : f[i] \notin Seq(S)}
<1>1. SUFFICES ASSUME B # {} PROVE FALSE
  OBVIOUS
<1>2. B \in SUBSET (0 .. n) /\ n \in Nat
  OBVIOUS
<1> HIDE DEF B
<1>3. PICK m \in B : \A k \in 0 .. m - 1 : k \notin B
  BY <1>1, <1>2, Least
<1>4. m \in 0 .. n /\ f[m] \notin Seq(S)
  BY <1>3 DEF B
<1>5. f[m] = IF m = 0 THEN <<>> ELSE IF ps[m] \in search THEN Append(f[m - 1], ps[m]) ELSE f[m - 1]
  BY <1>4 DEF Leaves
<1>6. m # 0
  BY <1>4, <1>5
<1>7. m - 1 \in 0 .. m - 1 /\ m - 1 \in 0 .. n /\ m \in 1 .. Len(ps)
  BY <1>4, <1>6
<1>8. f[m - 1] \in Seq(S) /\ ps[m] \in S
  BY <1>3, <1>7 DEF B
<1> QED BY <1>4, <1>5, <1>6, <1>8

\* There is one for every sequence.
LEMMA SomeLeaves == ASSUME NEW S, NEW ps \in Seq(S), NEW search PROVE \E f : Leaves(ps, search, Len(ps), f)
<1> DEFINE B == {n \in 0 .. Len(ps) : ~\E f : Leaves(ps, search, n, f)}
<1>o. Len(ps) \in 0 .. Len(ps)
  OBVIOUS
<1>1. SUFFICES ASSUME B # {} PROVE FALSE
  BY <1>o
<1>2. B \in SUBSET (0 .. Len(ps)) /\ Len(ps) \in Nat
  OBVIOUS
<1> HIDE DEF B
<1>3. PICK m \in B : \A k \in 0 .. m - 1 : k \notin B
  BY <1>1, <1>2, Least
<1>4. m \in 0 .. Len(ps) /\ ~\E f : Leaves(ps, search, m, f)
  BY <1>3 DEF B
<1>5. CASE m = 0
  <2>1. Leaves(ps, search, 0, [i \in 0 .. 0 |-> <<>>])
    BY DEF Leaves
  <2> QED BY <1>4, <1>5, <2>1
<1>6. CASE m # 0
  <2>1. m - 1 \in 0 .. m - 1 /\ m - 1 \in 0 .. Len(ps)
    BY <1>4, <1>6
  <2>2. PICK f : Leaves(ps, search, m - 1, f)
    BY <1>3, <2>1 DEF B
  <2> DEFINE e == IF ps[m] \in search THEN Append(f[m - 1], ps[m]) ELSE f[m - 1]
             g == [i \in 0 .. m |-> IF i = m THEN e ELSE f[i]]
  <2>3. \A i \in 0 .. m - 1 : g[i] = f[i]
    BY <1>4
  <2>4. \A i \in 0 .. m - 1 : f[i] = IF i = 0 THEN <<>> ELSE IF ps[i] \in search THEN Append(f[i - 1], ps[i]) ELSE f[i - 1]
    BY <2>2 DEF Leaves
  <2>5. \A i \in 0 .. m : g[i] = IF i = 0 THEN <<>> ELSE IF ps[i] \in search THEN Append(g[i - 1], ps[i]) ELSE g[i - 1]
    <3> SUFFICES ASSUME NEW i \in 0 .. m
                 PROVE  g[i] = IF i = 0 THEN <<>> ELSE IF ps[i] \in search THEN Append(g[i - 1], ps[i]) ELSE g[i - 1]
      OBVIOUS
    <3>1. CASE i = m
      <4>1. g[m] = e /\ g[m - 1] = f[m - 1]
        BY <1>4, <2>1, <2>3
      <4> QED BY <1>6, <3>1, <4>1
    <3>2. CASE i # m
      <4>1. i \in 0 .. m - 1 /\ (i # 0 => i - 1 \in 0 .. m - 1)
        BY <1>4, <3>2
      <4> HIDE DEF g
      <4> QED BY <2>3, <2>4, <4>1
    <3> QED BY <3>1, <3>2
  <2>6. g = [i \in 0 .. m |-> g[i]]
    OBVIOUS
  <2> HIDE DEF g, e
  <2>7. Leaves(ps, search, m, g)
    BY <2>5, <2>6 DEF Leaves
  <2> QED BY <1>4, <2>7
<1> QED BY <1>5, <1>6

\* Those are some of the first i entries of a sequence, which are searched for.
Chosen(some, ps, search, i) == \A j \in DOMAIN some : \E k \in 1 .. i : some[j] = ps[k] /\ ps[k] \in search

\* What is left is of the entries so far, and is what is searched for.
LEMMA LeavesSome ==
  ASSUME NEW S, NEW ps \in Seq(S), NEW search, NEW n \in 0 .. Len(ps), NEW f, Leaves(ps, search, n, f)
  PROVE  \A i \in 0 .. n : Chosen(f[i], ps, search, i)
<1> DEFINE Of(i) == \A j \in DOMAIN f[i] : \E k \in 1 .. i : f[i][j] = ps[k] /\ ps[k] \in search
           B == {i \in 0 .. n : ~Of(i)}
<1>1. SUFFICES ASSUME B # {} PROVE FALSE
  BY DEF Chosen
<1>2. B \in SUBSET (0 .. n) /\ n \in Nat
  OBVIOUS
<1> HIDE DEF B
<1>3. PICK m \in B : \A k \in 0 .. m - 1 : k \notin B
  BY <1>1, <1>2, Least
<1>4. m \in 0 .. n /\ ~Of(m)
  BY <1>3 DEF B
<1>5. f[m] = IF m = 0 THEN <<>> ELSE IF ps[m] \in search THEN Append(f[m - 1], ps[m]) ELSE f[m - 1]
  BY <1>4 DEF Leaves
<1>6. m # 0
  <2>1. DOMAIN (<<>>) = {}
    OBVIOUS
  <2> QED BY <1>4, <1>5, <2>1
<1>7. m - 1 \in 0 .. m - 1 /\ m - 1 \in 0 .. n /\ m \in 1 .. Len(ps) /\ m \in 1 .. m
  BY <1>4, <1>6
<1>8. Of(m - 1)
  BY <1>3, <1>7 DEF B
<1>9. \A j \in DOMAIN f[m - 1] : \E k \in 1 .. m : f[m - 1][j] = ps[k] /\ ps[k] \in search
  <2>1. 1 .. m - 1 \subseteq 1 .. m
    BY <1>7
  <2> QED BY <1>8, <2>1
<1>10. f[m - 1] \in Seq(S)
  BY <1>7, LeavesSequences
<1> DEFINE e == f[m - 1]
<1>11. ASSUME ps[m] \in search PROVE Of(m)
  <2>1. f[m] = Append(e, ps[m])
    BY <1>5, <1>6, <1>11
  <2> HIDE DEF e
  <2>2. e \in Seq(S)
    BY <1>10 DEF e
  <2>3. \A j \in DOMAIN f[m] : (j \in DOMAIN e /\ f[m][j] = e[j]) \/ f[m][j] = ps[m]
    BY <2>1, <2>2
  <2>4. \A j \in DOMAIN e : \E k \in 1 .. m : e[j] = ps[k] /\ ps[k] \in search
    BY <1>9 DEF e
  <2> QED BY <1>7, <1>11, <2>3, <2>4
<1>12. ASSUME ps[m] \notin search PROVE Of(m)
  <2>1. f[m] = f[m - 1]
    BY <1>5, <1>6, <1>12
  <2> QED BY <1>9, <2>1
<1> QED BY <1>4, <1>11, <1>12

\* The ids of entries that have ids of their own stay so.
LEMMA LeavesApart ==
  ASSUME NEW S, NEW ps \in Seq(S), \A i, j \in DOMAIN ps : ps[i].id = ps[j].id => i = j,
         NEW search, NEW n \in 0 .. Len(ps), NEW f, Leaves(ps, search, n, f)
  PROVE  \A i \in 0 .. n : \A a, b \in DOMAIN f[i] : f[i][a].id = f[i][b].id => a = b
<1> DEFINE Own(i) == \A a, b \in DOMAIN f[i] : f[i][a].id = f[i][b].id => a = b
           B == {i \in 0 .. n : ~Own(i)}
<1>1. SUFFICES ASSUME B # {} PROVE FALSE
  OBVIOUS
<1>2. B \in SUBSET (0 .. n) /\ n \in Nat
  OBVIOUS
<1> HIDE DEF B
<1>3. PICK m \in B : \A k \in 0 .. m - 1 : k \notin B
  BY <1>1, <1>2, Least
<1>4. m \in 0 .. n /\ ~Own(m)
  BY <1>3 DEF B
<1>5. f[m] = IF m = 0 THEN <<>> ELSE IF ps[m] \in search THEN Append(f[m - 1], ps[m]) ELSE f[m - 1]
  BY <1>4 DEF Leaves
<1>6. m # 0
  <2>1. DOMAIN (<<>>) = {}
    OBVIOUS
  <2> QED BY <1>4, <1>5, <2>1
<1>7. m - 1 \in 0 .. m - 1 /\ m - 1 \in 0 .. n /\ m \in 1 .. Len(ps)
  BY <1>4, <1>6
<1>8. Own(m - 1)
  BY <1>3, <1>7 DEF B
<1> DEFINE e == f[m - 1]
<1>9. e \in Seq(S) /\ \A j \in DOMAIN e : \E k \in 1 .. m - 1 : e[j] = ps[k]
  <2>1. f[m - 1] \in Seq(S)
    BY <1>7, LeavesSequences
  <2>2. Chosen(f[m - 1], ps, search, m - 1)
    BY <1>7, LeavesSome
  <2>3. \A j \in DOMAIN f[m - 1] : \E k \in 1 .. m - 1 : f[m - 1][j] = ps[k] /\ ps[k] \in search
    BY <2>2 DEF Chosen
  <2> QED BY <2>1, <2>3
<1>10. Own(m - 1) <=> \A a, b \in DOMAIN e : e[a].id = e[b].id => a = b
  OBVIOUS
<1>11. ASSUME ps[m] \in search PROVE Own(m)
  <2>1. f[m] = Append(e, ps[m])
    BY <1>5, <1>6, <1>11
  <2> HIDE DEF e
  <2>2. \A j \in DOMAIN e : e[j].id # ps[m].id
    <3> SUFFICES ASSUME NEW j \in DOMAIN e PROVE e[j].id # ps[m].id
      OBVIOUS
    <3>1. PICK k \in 1 .. m - 1 : e[j] = ps[k]
      BY <1>9
    <3>2. k \in DOMAIN ps /\ m \in DOMAIN ps /\ k # m
      BY <1>7, <3>1
    <3> QED BY <3>1, <3>2
  <2>3. \A j \in DOMAIN f[m] : (j \in DOMAIN e /\ f[m][j] = e[j]) \/ (j = Len(e) + 1 /\ f[m][j] = ps[m])
    BY <2>1, <1>9
  <2>4. \A a, b \in DOMAIN e : e[a].id = e[b].id => a = b
    BY <1>8, <1>10
  <2> QED BY <2>2, <2>3, <2>4
<1>12. ASSUME ps[m] \notin search PROVE Own(m)
  <2>1. f[m] = f[m - 1]
    BY <1>5, <1>6, <1>12
  <2> QED BY <1>8, <2>1
<1> QED BY <1>4, <1>11, <1>12

\* So what is left of a sequence is one.
LEMMA FilteredSequence ==
  ASSUME NEW S, NEW ps \in Seq(S), NEW search
  PROVE  List!FilteredPoints(ps, search) \in Seq(S)
<1> DEFINE f == CHOOSE g : Leaves(ps, search, Len(ps), g)
<1>1. List!FilteredPoints(ps, search) = f[Len(ps)]
  BY DEF List!FilteredPoints, Leaves
<1>2. Leaves(ps, search, Len(ps), f)
  BY SomeLeaves
<1>3. Len(ps) \in 0 .. Len(ps)
  OBVIOUS
<1> HIDE DEF f
<1> QED BY <1>1, <1>2, <1>3, LeavesSequences

\* The list is a sequence, however it is searched and sorted.
LEMMA SortedSequence ==
  ASSUME NEW all, NEW search, NEW field \in Fields, NEW dir, NEW values \in ValueOrders
  PROVE  List!SortedPoints(all, search, field, dir, values) \in Seq(Points)
<1> DEFINE s == IF ~all THEN <<>> ELSE List!FilteredPoints(IF field = "value" THEN values ELSE Orders[field], search)
<1>1. (IF field = "value" THEN values ELSE Orders[field]) \in Seq(Points)
  BY PagesAssumption
<1>2. s \in Seq(Points)
  BY <1>1, FilteredSequence
<1>3. List!SortedPoints(all, search, field, dir, values) = IF dir = 1 THEN s ELSE [i \in DOMAIN s |-> s[Len(s) - i + 1]]
  BY DEF List!SortedPoints
<1> HIDE DEF s
<1>4. [i \in DOMAIN s |-> s[Len(s) - i + 1]] \in Seq(Points)
  <2>1. Len(s) \in Nat /\ \A i \in 1 .. Len(s) : s[Len(s) - i + 1] \in Points
    BY <1>2
  <2> QED BY <2>1, IsASeq
<1> QED BY <1>2, <1>3, <1>4

\* The rows about a viewport include all that are in it (visibleSlice).
LEMMA SliceDrawn ==
  ASSUME NEW S, NEW s \in Seq(S), NEW top \in Nat, NEW h \in Nat, NEW shown \in Nat, shown <= h,
         NEW i \in DOMAIN s, i * 60 > top, (i - 1) * 60 < top + shown
  PROVE  s[i] \in List!Range(List!VisibleSlice(s, top, h))
<1> DEFINE start == top \div 60 - 10
           end == (top + h + 60 - 1) \div 60 + 10
           a == (IF start < 0 THEN 0 ELSE start) + 1
           b == IF end < Len(s) THEN end + 1 ELSE Len(s)
<1>1. List!VisibleSlice(s, top, h) = SubSeq(s, a, b)
  BY DEF List!VisibleSlice, List!ROW_HEIGHT, List!BUFFER_ROWS
<1>2. i \in 1 .. Len(s) /\ Len(s) \in Nat
  OBVIOUS
<1>3. a \in Nat /\ a >= 1 /\ a <= i
  BY <1>2
<1>4. b \in Nat /\ i <= b /\ b <= Len(s)
  BY <1>2
<1>e. s \in Seq(S) /\ a \in Int /\ b \in Int /\ \A k \in a .. b : s[k] \in S
  BY <1>3, <1>4
<1> HIDE DEF a, b
<1>5. /\ SubSeq(s, a, b) \in Seq(S)
      /\ Len(SubSeq(s, a, b)) = IF a <= b THEN b - a + 1 ELSE 0
      /\ \A k \in 1 .. b - a + 1 : SubSeq(s, a, b)[k] = s[a + k - 1]
  BY <1>e, SubSeqProperties
<1>6. /\ i - a + 1 \in 1 .. b - a + 1
      /\ a + (i - a + 1) - 1 = i
      /\ a <= b
  <2>1. i \in Int /\ a \in Int /\ b \in Int /\ 1 <= a /\ a <= i /\ i <= b
    BY <1>2, <1>3, <1>4
  <2> QED BY ONLY <2>1
<1> DEFINE r == SubSeq(s, a, b)
           j == i - a + 1
<1>7. r \in Seq(S) /\ Len(r) = b - a + 1 /\ r[j] = s[i] /\ j \in 1 .. Len(r)
  BY <1>5, <1>6
<1> HIDE DEF r, j
<1>8. s[i] \in {r[k] : k \in DOMAIN r}
  BY <1>7
<1> QED BY <1>1, <1>8 DEF List!Range, r

(***************************************************************************)
(* The list of telemetries                                                 *)
(***************************************************************************)

\* The list is a sequence in every state of the page.
LEMMA ListSorted ==
  ASSUME v5 \in Fields, v7 \in ValueOrders PROVE List!Sorted \in Seq(Points)
BY SortedSequence DEF List!Sorted

\* And after every step.
LEMMA ListSortedNext ==
  ASSUME v5' \in Fields, v7' \in ValueOrders PROVE List!Sorted' \in Seq(Points)
BY SortedSequence DEF List!Sorted

\* The page begins with no rows and no listener.
LEMMA ListInit == ASSUME List!Init PROVE List!Listening
<1>1. /\ v1 = TRUE /\ v3 = FALSE /\ v5 = "name" /\ v6 = 1 /\ v7 \in ValueOrders
      /\ v8 \in Heights /\ v9 = 500 /\ v10 = 0 /\ v12 = {} /\ v13 = 0
  BY DEF List!Init
<1>2. List!Sorted = <<>>
  BY <1>1 DEF List!Sorted, List!SortedPoints
<1>3. List!VisibleSlice(<<>>, 0, 500) = SubSeq(<<>>, 1, 0)
  BY DEF List!VisibleSlice, List!ROW_HEIGHT, List!BUFFER_ROWS
<1>4. SubSeq(<<>>, 1, 0) = <<>>
  BY SubSeqEmpty
<1>5. List!VisibleKeys = <<>>
  BY <1>1, <1>2, <1>3, <1>4 DEF List!VisibleKeys
<1> QED BY <1>1, <1>5, PagesAssumption DEF List!Listening

\* When the rows that are drawn change, the listener is replaced by one for these (the effect on visibleKeys).
LEMMA Relistens ==
  ASSUME List!Listening, v1, v1' = v1, List!Relisten
  PROVE  /\ v12' = IF v1' /\ List!VisibleKeys' # <<>> THEN {[id |-> v13', keys |-> List!VisibleKeys']} ELSE {}
         /\ v13' \in Nat
<1>1. v12 = IF List!VisibleKeys # <<>> THEN {[id |-> v13, keys |-> List!VisibleKeys]} ELSE {}
  BY DEF List!Listening
<1>2. v13 \in Nat
  BY DEF List!Listening
<1>3. CASE List!VisibleKeys' = List!VisibleKeys
  BY <1>1, <1>2, <1>3 DEF List!Relisten
<1>4. CASE List!VisibleKeys' # List!VisibleKeys
  <2>1. /\ v13' = v13 + 1
        /\ v12' = {l \in v12 : l.id # v13} \cup
                  (IF List!VisibleKeys' = <<>> THEN {} ELSE {[id |-> v13', keys |-> List!VisibleKeys']})
    BY <1>4 DEF List!Relisten
  <2>2. {l \in v12 : l.id # v13} = {}
    BY <1>1
  <2> QED BY <1>2, <2>1, <2>2
<1> QED BY <1>3, <1>4

\* The browser keeps a position within the list, which is none before its top.
LEMMA Positioned ==
  ASSUME v5' \in Fields, v7' \in ValueOrders, v8' \in Nat, NEW top \in Nat PROVE List!ScrolledTo(top) \in Nat
<1>1. Len(List!Sorted') \in Nat
  BY ListSortedNext
<1> DEFINE max == Len(List!Sorted') * 60 - v8'
<1>2. max \in Int
  BY <1>1
<1>3. List!ScrolledTo(top) = IF max < 0 THEN 0 ELSE IF top < max THEN top ELSE max
  BY DEF List!ScrolledTo, List!ROW_HEIGHT
<1> HIDE DEF max
<1> QED BY <1>2, <1>3

\* However the list is searched, sorted, scrolled and resized, or values come, the one listener is for the rows drawn,
\* until the page is left (pages/telemetry.tsx).
LEMMA ListStep == ASSUME List!Listening, List!Next PROVE List!Listening'
<1>t. v5 \in Fields /\ v7 \in ValueOrders /\ v8 \in Heights /\ v8 \in Nat /\ v9 \in Nat /\ v10 \in Nat /\ v13 \in Nat
  BY PagesAssumption DEF List!Listening
<1>r. ASSUME v1, v1' = v1, List!Relisten,
             v5' \in Fields, v7' \in ValueOrders, v8' \in Heights, v9' \in Nat, v10' \in Nat
      PROVE  List!Listening'
  BY <1>r, Relistens DEF List!Listening
<1>1. CASE List!Leave
  <2>1. v12 = IF List!VisibleKeys # <<>> THEN {[id |-> v13, keys |-> List!VisibleKeys]} ELSE {}
    BY <1>1 DEF List!Leave, List!Listening
  <2>2. v12' = {l \in v12 : l.id # v13} /\ v1' = FALSE
    BY <1>1 DEF List!Leave
  <2>3. v12' = {}
    BY <2>1, <2>2
  <2>4. UNCHANGED <<v5, v7, v8, v9, v10, v13>>
    BY <1>1 DEF List!Leave, List!order, List!view
  <2> QED BY <1>t, <2>2, <2>3, <2>4 DEF List!Listening
<1>2. ASSUME NEW ok \in BOOLEAN, List!LoadPoints(ok) PROVE List!Listening'
  BY <1>2, <1>t, <1>r DEF List!LoadPoints, List!view
<1>3. ASSUME NEW s \in Searches, List!Search(s) PROVE List!Listening'
  <2>1. v1 /\ v1' = v1 /\ List!Relisten /\ v5' = v5 /\ v7' = v7 /\ v8' = v8 /\ v9' = v9 /\ v10' = List!ScrolledTo(v10)
    BY <1>3 DEF List!Search
  <2>2. v10' \in Nat
    BY <1>t, <2>1, Positioned
  <2> QED BY <1>t, <1>r, <2>1, <2>2
<1>4. ASSUME NEW f \in Fields, List!HandleSort(f) PROVE List!Listening'
  BY <1>4, <1>t, <1>r DEF List!HandleSort, List!view
<1>5. ASSUME NEW top \in Tops, List!Scroll(top) PROVE List!Listening'
  <2>1. v1 /\ v1' = v1 /\ List!Relisten /\ v5' = v5 /\ v7' = v7 /\ v8' = v8 /\ v9' = v9 /\ v10' = List!ScrolledTo(top)
    BY <1>5 DEF List!Scroll, List!order
  <2>2. top \in Nat
    BY PagesAssumption
  <2>3. v10' \in Nat
    BY <1>t, <2>1, <2>2, Positioned
  <2> QED BY <1>t, <1>r, <2>1, <2>3
<1>6. ASSUME NEW o \in ValueOrders, List!Live(o) PROVE List!Listening'
  BY <1>6, <1>t, <1>r DEF List!Live, List!view
<1>7. ASSUME NEW h \in Heights, List!Resize(h) PROVE List!Listening'
  <2>1. /\ v1 /\ v1' = v1 /\ List!Relisten /\ v5' = v5 /\ v7' = v7 /\ v8' = h /\ (v9' = h \/ v9' = v9)
        /\ v10' = List!ScrolledTo(v10)
    BY <1>7 DEF List!Resize, List!order
  <2>2. h \in Nat
    BY PagesAssumption
  <2>3. v10' \in Nat
    BY <1>t, <2>1, <2>2, Positioned
  <2> QED BY <1>t, <1>r, <2>1, <2>2, <2>3
<1> QED BY <1>1, <1>2, <1>3, <1>4, <1>5, <1>6, <1>7 DEF List!Next

\* Cardinalities as the list counts them are the library's.
LEMMA ListCardinality == \A S : List!Cardinality(S) = Cardinality(S)
BY DEF Cardinality, List!Cardinality

\* The inductive invariant implies the property: the rows in view are drawn, and the drawn listened to.
LEMMA ListKept == ASSUME List!Listening PROVE List!ListensToShown
<1>1. v12 = IF v1 /\ List!VisibleKeys # <<>> THEN {[id |-> v13, keys |-> List!VisibleKeys]} ELSE {}
  BY DEF List!Listening
<1>2. {l.keys : l \in v12} = IF v1 /\ List!VisibleKeys # <<>> THEN {List!VisibleKeys} ELSE {}
  <2>1. CASE v1 /\ List!VisibleKeys # <<>>
    BY <1>1, <2>1
  <2>2. CASE ~(v1 /\ List!VisibleKeys # <<>>)
    BY <1>1, <2>2
  <2> QED BY <2>1, <2>2
<1>3. Cardinality(v12) <= 1
  <2>1. Cardinality({}) = 0
    BY FS_EmptySet
  <2>2. Cardinality({[id |-> v13, keys |-> List!VisibleKeys]}) = 1
    BY FS_Singleton
  <2> QED BY <1>1, <2>1, <2>2
<1>4. v8 \in Nat /\ v9 \in Nat /\ v10 \in Nat /\ List!Sorted \in Seq(Points)
  BY ListSorted, PagesAssumption DEF List!Listening
<1>5. ASSUME v8 <= v9, NEW i \in DOMAIN List!Sorted, i * 60 > v10, (i - 1) * 60 < v10 + v8
      PROVE  List!Sorted[i] \in List!Range(List!VisibleKeys)
  BY <1>4, <1>5, SliceDrawn DEF List!VisibleKeys
<1>6. v8 <= v9 => List!InView \subseteq List!Range(List!VisibleKeys)
  BY <1>5 DEF List!InView, List!ROW_HEIGHT
<1> QED BY <1>2, <1>3, <1>6, ListCardinality DEF List!ListensToShown

\* A step that leaves the page's variables alone leaves it as it is.
LEMMA ListUnchanged ==
  ASSUME List!Listening, UNCHANGED <<v1, v2, v3, v4, v5, v6, v7, v8, v9, v10, v12, v13>> PROVE List!Listening'
BY DEF List!Listening, List!VisibleKeys, List!Sorted

(***************************************************************************)
(* The page of the assets                                                  *)
(***************************************************************************)

\* The page begins without a node and a listener.
LEMMA AssetsInit == ASSUME Assets!Init PROVE Assets!Listening
BY DEF Assets!Init, Assets!Listening

\* Only the listener that is to be given up is there, so that nothing is left when it goes (cleanup, subToKeys).
LEMMA NoneBeside == ASSUME Assets!Listening PROVE {l \in v10 : l.id # v11} = {}
BY DEF Assets!Listening

\* What the keys in view are listened to with, where there was no other listener (subToKeys).
LEMMA Subscribed ==
  ASSUME NEW keys, NEW ls, NEW last, Assets!SubToKeys(keys, ls, last), {l \in ls : l.id # last} = {}
  PROVE  v10' = IF keys = {} THEN {} ELSE {[id |-> v11', keys |-> keys]}
BY DEF Assets!SubToKeys

\* Another node's first keys are listened to in place of the keys before (the effect on the node).
LEMMA NodeChosen ==
  ASSUME Assets!Listening, NEW n \in {None} \cup Nodes, Assets!NodeEffect(n)
  PROVE  /\ ~v9'
         /\ v10' = IF v8' = {} THEN {} ELSE {[id |-> v11', keys |-> v8']}
         /\ v8' # {} => n # None
         /\ n # None => v8' \subseteq Assets!Range(KeysOf[n]) /\ Assets!Range(KeysOf[n]) \subseteq v12'
<1>1. ~v9'
  BY DEF Assets!NodeEffect
<1>2. Assets!Cleanup = {}
  BY NoneBeside DEF Assets!Cleanup
<1>3. CASE n = None \/ KeysOf[n] = <<>>
  <2>1. v8' = {} /\ v10' = {}
    BY <1>2, <1>3 DEF Assets!NodeEffect
  <2>2. n # None => Assets!Range(KeysOf[n]) = {}
    BY <1>3 DEF Assets!Range
  <2> QED BY <1>1, <2>1, <2>2
<1>4. CASE ~(n = None \/ KeysOf[n] = <<>>)
  <2> DEFINE s == KeysOf[n]
             m == IF Len(s) < FirstRows THEN Len(s) ELSE FirstRows
  <2>1. /\ v8' = Assets!Range(SubSeq(s, 1, m))
        /\ Assets!SubToKeys(v8', Assets!Cleanup, None)
        /\ v12' = v12 \cup Assets!Range(s)
    BY <1>4 DEF Assets!NodeEffect
  <2>2. n \in Nodes
    BY <1>4
  <2> DEFINE S == {s[i] : i \in DOMAIN s}
  <2>3. s \in Seq(S)
    BY <2>2, PagesAssumption
  <2>4. FirstRows \in Nat
    BY PagesAssumption
  <2> HIDE DEF s
  <2>5. Len(s) \in Nat /\ \A i \in 1 .. Len(s) : s[i] \in S
    BY <2>3
  <2>6. m \in Nat /\ m <= Len(s)
    BY <2>4, <2>5
  <2>7. m \in Int /\ 1 \in Int /\ \A i \in 1 .. m : s[i] \in S
    BY <2>5, <2>6
  <2> HIDE DEF m
  <2> DEFINE r == SubSeq(s, 1, m)
  <2>8. r \in Seq(S)
    <3> HIDE DEF S
    <3> QED BY <2>7, SubSeqProperties
  <2>9. Assets!Range(r) \subseteq S
    <3> HIDE DEF S, r
    <3>1. \A i \in DOMAIN r : r[i] \in S
      BY <2>8, EntryOf
    <3> QED BY <3>1 DEF Assets!Range
  <2>10. S = Assets!Range(s)
    BY DEF Assets!Range
  <2> HIDE DEF r, S
  <2>11. v10' = IF v8' = {} THEN {} ELSE {[id |-> v11', keys |-> v8']}
    BY <2>1, <1>2, Subscribed
  <2>12. v8' \subseteq Assets!Range(s) /\ Assets!Range(s) \subseteq v12'
    BY <2>1, <2>9, <2>10 DEF r
  <2> QED BY <1>1, <1>4, <2>11, <2>12 DEF s
<1> QED BY <1>3, <1>4

\* Whatever comes when of the tree, the selection, the history and the rows: there is one listener, for what is in view
\* (pages/assets.tsx).
LEMMA AssetsStep == ASSUME Assets!Listening, Assets!Next PROVE Assets!Listening'
<1>t. v6 \in {None} \cup Nodes /\ v7 \in Seq({None} \cup Nodes) /\ v4 \in {None} \cup Nodes
  BY DEF Assets!Listening
<1>1. CASE Assets!Observe
  <2>1. UNCHANGED <<v1, v2, v4, v6, v7, v8, v10, v11, v12>> /\ v1 /\ v4 # None
    BY <1>1 DEF Assets!Observe
  <2> QED BY <2>1 DEF Assets!Listening
<1>e. ASSUME NEW n \in Nodes \cup {None}, n # None, Assets!NodeEffect(n), v4' = n, v1, v1' = v1, v7' \in Seq({None} \cup Nodes),
             v6' = n
      PROVE  Assets!Listening'
  BY <1>e, NodeChosen DEF Assets!Listening
<1>2. CASE Assets!HandlePop
  <2>1. /\ v1 /\ v7 # <<>> /\ v6' = v7[Len(v7)] /\ v7' = SubSeq(v7, 1, Len(v7) - 1)
        /\ UNCHANGED <<v1, v2>>
    BY <1>2 DEF Assets!HandlePop
  <2>2. v6' \in {None} \cup Nodes
    BY <1>t, <2>1
  <2>3. v7' \in Seq({None} \cup Nodes)
    <3>1. Len(v7) - 1 \in Int /\ 1 \in Int /\ \A i \in 1 .. Len(v7) - 1 : v7[i] \in {None} \cup Nodes
      BY <1>t
    <3> QED BY <2>1, <3>1, SubSeqProperties
  <2>4. CASE v6' # None /\ v2 /\ v6' # v4
    <3>1. v4' = v6' /\ Assets!NodeEffect(v6')
      BY <1>2, <2>4 DEF Assets!HandlePop
    <3> QED BY <1>e, <2>1, <2>2, <2>3, <2>4, <3>1
  <2>5. CASE v6' # None /\ v2 /\ v6' = v4
    <3>1. v4' = v4 /\ UNCHANGED <<v8, v9, v10, v11, v12>>
      BY <1>2, <2>5 DEF Assets!HandlePop, Assets!live
    <3> QED BY <2>1, <2>2, <2>3, <2>5, <3>1 DEF Assets!Listening
  <2>6. CASE ~(v6' # None /\ v2)
    <3>1. v4' = v4 /\ UNCHANGED <<v8, v9, v10, v11, v12>>
      BY <1>2, <2>6 DEF Assets!HandlePop, Assets!live
    <3> QED BY <2>1, <2>2, <2>3, <2>6, <3>1 DEF Assets!Listening
  <2> QED BY <2>4, <2>5, <2>6
<1>3. CASE Assets!Leave
  <2>1. v1' = FALSE /\ v8' = {} /\ ~v9' /\ UNCHANGED <<v2, v4, v6, v7, v12>>
    BY <1>3 DEF Assets!Leave
  <2>2. v10' = {}
    BY <1>3, NoneBeside DEF Assets!Leave, Assets!Cleanup
  <2> QED BY <2>1, <2>2 DEF Assets!Listening
<1>4. ASSUME NEW ok \in BOOLEAN, Assets!LoadTree(ok) PROVE Assets!Listening'
  <2>1. v1 /\ v2' = (v2 \/ ok) /\ UNCHANGED <<v1, v6, v7>>
    BY <1>4 DEF Assets!LoadTree
  <2>2. CASE ok /\ v6 # None
    <3>1. v4' = v6 /\ Assets!NodeEffect(v6)
      BY <1>4, <2>2 DEF Assets!LoadTree
    <3> QED BY <1>e, <1>t, <2>1, <2>2, <3>1
  <2>3. CASE ~(ok /\ v6 # None)
    <3>1. UNCHANGED <<v4, v8, v9, v10, v11, v12>>
      BY <1>4, <2>3 DEF Assets!LoadTree, Assets!live
    <3> QED BY <2>1, <2>3, <3>1 DEF Assets!Listening
  <2> QED BY <2>2, <2>3
<1>5. ASSUME NEW n \in Nodes, Assets!HandleSelectNode(n) PROVE Assets!Listening'
  <2>1. v1 /\ v2 /\ v4' = n /\ v6' = n /\ v7' = Append(v7, v6) /\ UNCHANGED <<v1, v2>>
    BY <1>5 DEF Assets!HandleSelectNode
  <2>2. v7' \in Seq({None} \cup Nodes)
    BY <1>t, <2>1
  <2>3. CASE n = v4
    <3>1. UNCHANGED <<v8, v9, v10, v11, v12>>
      BY <1>5, <2>3 DEF Assets!HandleSelectNode, Assets!live
    <3> QED BY <2>1, <2>2, <2>3, <3>1 DEF Assets!Listening
  <2>4. CASE n # v4
    <3>1. Assets!NodeEffect(n)
      BY <1>5, <2>4 DEF Assets!HandleSelectNode
    <3>2. CASE n # None
      BY <1>e, <2>1, <2>2, <3>1, <3>2
    <3>3. CASE n = None
      BY <2>1, <2>2, <3>1, <3>3, NodeChosen DEF Assets!Listening
    <3> QED BY <3>2, <3>3
  <2> QED BY <2>3, <2>4
<1>6. ASSUME NEW n \in Nodes, Assets!ToggleExpand(n) PROVE Assets!Listening'
  <2>1. UNCHANGED <<v1, v2, v4, v6, v7, v8, v9, v10, v11, v12>>
    BY <1>6 DEF Assets!ToggleExpand, Assets!live
  <2> QED BY <2>1 DEF Assets!Listening
<1>7. ASSUME NEW ks \in SUBSET (IF v4 = None THEN {} ELSE Assets!Range(KeysOf[v4])), Assets!Scroll(ks)
      PROVE  Assets!Listening'
  <2>1. /\ v9 /\ v8' = ks /\ Assets!SubToKeys(ks, v10, v11)
        /\ UNCHANGED <<v1, v2, v4, v6, v7, v9, v12>>
    BY <1>7 DEF Assets!Scroll
  <2>2. v10' = IF ks = {} THEN {} ELSE {[id |-> v11', keys |-> ks]}
    BY <2>1, NoneBeside, Subscribed
  <2>3. v1 /\ v4 # None
    BY <2>1 DEF Assets!Listening
  <2> QED BY <2>1, <2>2, <2>3 DEF Assets!Listening
<1> QED BY <1>1, <1>2, <1>3, <1>4, <1>5, <1>6, <1>7 DEF Assets!Next

\* Cardinalities as the page counts them are the library's.
LEMMA AssetsCardinality == \A S : Assets!Cardinality(S) = Cardinality(S)
BY DEF Cardinality, Assets!Cardinality

\* The inductive invariant implies the property.
LEMMA AssetsKept == ASSUME Assets!Listening PROVE Assets!ListensToShown
<1>1. IF v8 = {} THEN v10 = {} ELSE {l.keys : l \in v10} = {v8} /\ Cardinality(v10) = 1
  <2>1. CASE v8 = {}
    BY <2>1 DEF Assets!Listening
  <2>2. CASE v8 # {}
    <3>1. v10 = {[id |-> v11, keys |-> v8]}
      BY <2>2 DEF Assets!Listening
    <3>2. Cardinality(v10) = 1
      BY <3>1, FS_Singleton
    <3> QED BY <2>2, <3>1, <3>2
  <2> QED BY <2>1, <2>2
<1>2. /\ v8 \subseteq (IF v1 /\ v4 # None THEN Assets!Range(KeysOf[v4]) ELSE {})
      /\ v8 \subseteq v12
      /\ v1 /\ v2 /\ v6 # None => v4 = v6
  BY DEF Assets!Listening
<1> QED BY <1>1, <1>2, AssetsCardinality DEF Assets!ListensToShown

\* A step that leaves the page's variables alone leaves it as it is.
LEMMA AssetsUnchanged ==
  ASSUME Assets!Listening, UNCHANGED <<v1, v2, v3, v4, v5, v6, v7, v8, v9, v10, v11, v12, v13>> PROVE Assets!Listening'
BY DEF Assets!Listening

(***************************************************************************)
(* The configuration page                                                  *)
(***************************************************************************)

\* The page's operators on sets and functions are the library's.
LEMMA ConfigLibrary ==
  \A S : /\ Config!Cardinality(S) = Cardinality(S)
         /\ Config!IsInjective(S) <=> IsInjective(S)
BY DEF Cardinality, Config!Cardinality, IsInjective, Config!IsInjective

\* A sequence is one of its own entries.
LEMMA OfItsOwn == ASSUME NEW S, NEW s \in Seq(S) PROVE s \in Seq(Config!Range(s))
<1>1. \A i \in 1 .. Len(s) : s[i] \in Config!Range(s)
  BY DEF Config!Range
<1>2. s = [i \in 1 .. Len(s) |-> s[i]]
  OBVIOUS
<1> QED BY <1>1, <1>2, IsASeq

\* A list is apart when it is a sequence whose ids are.
LEMMA ApartWhen ==
  ASSUME NEW S, NEW s \in Seq(S), \A i, j \in DOMAIN s : s[i].id = s[j].id => i = j
  PROVE  Config!Apart(s)
BY OfItsOwn DEF Config!Apart

\* One is added apart that has another id.
LEMMA AppendApart ==
  ASSUME NEW s, Config!Apart(s), NEW x, x.id \notin Config!IdsOf(s)
  PROVE  /\ Config!Apart(Append(s, x))
         /\ Config!IdsOf(Append(s, x)) = Config!IdsOf(s) \cup {x.id}
         /\ \A i \in DOMAIN Append(s, x) : Append(s, x)[i] = x \/ \E j \in DOMAIN s : Append(s, x)[i] = s[j]
<1> DEFINE R == Config!Range(s)
           r == Append(s, x)
<1>1. s \in Seq(R) /\ \A i, j \in DOMAIN s : s[i].id = s[j].id => i = j
  BY DEF Config!Apart
<1>2. \A i \in DOMAIN s : s[i].id # x.id
  BY DEF Config!IdsOf
<1> HIDE DEF R
<1>3. r \in Seq(R \cup {x})
  BY <1>1
<1>4. \A i \in DOMAIN r : (i \in DOMAIN s /\ r[i] = s[i]) \/ (i = Len(s) + 1 /\ r[i] = x)
  BY <1>1
<1>5. \A i \in DOMAIN s : i \in DOMAIN r /\ r[i] = s[i]
  BY <1>1
<1>6. Len(s) + 1 \in DOMAIN r /\ r[Len(s) + 1] = x
  BY <1>1
<1> HIDE DEF r
<1>7. \A i, j \in DOMAIN r : r[i].id = r[j].id => i = j
  BY <1>1, <1>2, <1>4
<1>8. Config!Apart(r)
  BY <1>3, <1>7, ApartWhen
<1>9. Config!IdsOf(r) = Config!IdsOf(s) \cup {x.id}
  BY <1>4, <1>5, <1>6 DEF Config!IdsOf
<1> QED BY <1>4, <1>8, <1>9 DEF r

\* One takes the place of the one with its id.
LEMMA ReplaceApart ==
  ASSUME NEW s, Config!Apart(s), NEW x, NEW k \in DOMAIN s, s[k].id = x.id
  PROVE  /\ Config!Apart([s EXCEPT ![k] = x])
         /\ Config!IdsOf([s EXCEPT ![k] = x]) = Config!IdsOf(s)
         /\ \A i \in DOMAIN [s EXCEPT ![k] = x] :
                [s EXCEPT ![k] = x][i] = x \/ \E j \in DOMAIN s : [s EXCEPT ![k] = x][i] = s[j]
<1> DEFINE R == Config!Range(s)
           r == [s EXCEPT ![k] = x]
<1>1. s \in Seq(R) /\ \A i, j \in DOMAIN s : s[i].id = s[j].id => i = j
  BY DEF Config!Apart
<1> HIDE DEF R
<1>2. r \in Seq(R \cup {x})
  BY <1>1
<1>3. DOMAIN r = DOMAIN s /\ \A i \in DOMAIN s : r[i] = IF i = k THEN x ELSE s[i]
  BY <1>1
<1> HIDE DEF r
<1>4. \A i \in DOMAIN s : r[i].id = s[i].id
  BY <1>3
<1>5. Config!Apart(r)
  BY <1>1, <1>2, <1>3, <1>4, ApartWhen
<1>6. Config!IdsOf(r) = Config!IdsOf(s)
  BY <1>3, <1>4 DEF Config!IdsOf
<1> QED BY <1>3, <1>5, <1>6 DEF r

\* So what is saved is, the first or another time (handleSaveConnection, handleSaveDevice).
LEMMA UpsertApart ==
  ASSUME NEW s, Config!Apart(s), NEW x
  PROVE  /\ Config!Apart(Config!Upsert(s, x))
         /\ Config!IdsOf(Config!Upsert(s, x)) \subseteq Config!IdsOf(s) \cup {x.id}
         /\ \A i \in DOMAIN Config!Upsert(s, x) : Config!Upsert(s, x)[i] = x \/ \E j \in DOMAIN s : Config!Upsert(s, x)[i] = s[j]
<1>1. CASE x.id \notin Config!IdsOf(s)
  BY <1>1, AppendApart DEF Config!Upsert
<1>2. CASE x.id \in Config!IdsOf(s)
  <2> DEFINE B == {i \in DOMAIN s : s[i].id = x.id}
             k == Config!IndexOf(s, x.id)
  <2>1. s \in Seq(Config!Range(s))
    BY DEF Config!Apart
  <2>2. Len(s) \in Nat /\ DOMAIN s = 1 .. Len(s)
    BY <2>1
  <2>3. B \in SUBSET (0 .. Len(s)) /\ B # {}
    BY <1>2, <2>2 DEF Config!IdsOf
  <2> HIDE DEF B
  <2>4. PICK m \in B : \A n \in 0 .. m - 1 : n \notin B
    BY <2>2, <2>3, Least
  <2>5. m \in DOMAIN s /\ s[m].id = x.id /\ \A j \in 1 .. m - 1 : s[j].id # x.id
    <3>1. m \in DOMAIN s /\ s[m].id = x.id
      BY <2>4 DEF B
    <3>2. ASSUME NEW j \in 1 .. m - 1 PROVE s[j].id # x.id
      <4>1. j \in 0 .. m - 1 /\ j \in DOMAIN s
        BY <2>2, <3>1
      <4> QED BY <2>4, <4>1 DEF B
    <3> QED BY <3>1, <3>2
  <2>6. k \in DOMAIN s /\ s[k].id = x.id
    BY <2>5 DEF Config!IndexOf
  <2>7. Config!Upsert(s, x) = [s EXCEPT ![k] = x]
    BY <1>2 DEF Config!Upsert
  <2> HIDE DEF k
  <2>8. /\ Config!Apart([s EXCEPT ![k] = x])
        /\ Config!IdsOf([s EXCEPT ![k] = x]) = Config!IdsOf(s)
        /\ \A i \in DOMAIN [s EXCEPT ![k] = x] :
               [s EXCEPT ![k] = x][i] = x \/ \E j \in DOMAIN s : [s EXCEPT ![k] = x][i] = s[j]
    BY <2>6, ReplaceApart, Zenon
  <2> QED BY <2>7, <2>8, Zenon
<1> QED BY <1>1, <1>2

\* What is left when one is deleted is apart, and was there (handleDeleteConnection, handleDeleteDevice).
LEMMA WithoutApart ==
  ASSUME NEW s, Config!Apart(s), NEW id
  PROVE  /\ Config!Apart(Config!Without(s, id))
         /\ Config!IdsOf(Config!Without(s, id)) \subseteq Config!IdsOf(s)
         /\ \A i \in DOMAIN Config!Without(s, id) : \E j \in DOMAIN s : Config!Without(s, id)[i] = s[j]
<1> DEFINE R == Config!Range(s)
           n == Len(s)
           others == {x \in R : x.id # id}
           Is(g) == g = [i \in 0 .. Len(s) |-> IF i = 0 THEN <<>> ELSE IF s[i].id # id THEN Append(g[i - 1], s[i]) ELSE g[i - 1]]
           f == CHOOSE g : Is(g)
<1>1. s \in Seq(R) /\ \A i, j \in DOMAIN s : s[i].id = s[j].id => i = j
  BY DEF Config!Apart
<1>2. Config!Without(s, id) = f[Len(s)]
  BY DEF Config!Without
<1>3. n \in Nat /\ n \in 0 .. n /\ DOMAIN s = 1 .. n
  BY <1>1
<1>4. \A i \in 1 .. n : s[i] \in others <=> s[i].id # id
  BY <1>3 DEF Config!Range
<1> HIDE DEF R, n, others
<1>5. ASSUME NEW g PROVE Is(g) <=> Leaves(s, others, n, g)
  <2>1. [i \in 0 .. n |-> IF i = 0 THEN <<>> ELSE IF s[i].id # id THEN Append(g[i - 1], s[i]) ELSE g[i - 1]]
        = [i \in 0 .. n |-> IF i = 0 THEN <<>> ELSE IF s[i] \in others THEN Append(g[i - 1], s[i]) ELSE g[i - 1]]
    <3>1. \A i \in 0 .. n : i = 0 \/ i \in 1 .. n
      BY <1>3
    <3> QED BY <1>4, <3>1
  <2> QED BY <2>1 DEF Leaves, n
<1>6. \E g : Is(g)
  <2>1. \E g : Leaves(s, others, n, g)
    BY <1>1, SomeLeaves DEF n
  <2> HIDE DEF Is
  <2> QED BY <1>5, <2>1
<1>7. Is(f)
  <2> HIDE DEF Is
  <2> QED BY <1>6
<1> HIDE DEF f, Is
<1>8. Leaves(s, others, n, f)
  BY <1>5, <1>7
<1>9. n \in 0 .. Len(s)
  BY <1>3 DEF n
<1> DEFINE r == f[n]
<1>10. r \in Seq(R)
  BY <1>1, <1>3, <1>8, <1>9, LeavesSequences
<1>11. \A a, b \in DOMAIN r : r[a].id = r[b].id => a = b
  <2>1. \A i \in 0 .. n : \A a, b \in DOMAIN f[i] : f[i][a].id = f[i][b].id => a = b
    BY <1>1, <1>8, <1>9, LeavesApart
  <2> QED BY ONLY <1>3, <2>1
<1>12. \A j \in DOMAIN r : \E k \in DOMAIN s : r[j] = s[k]
  <2>1. Chosen(f[n], s, others, n)
    BY <1>1, <1>3, <1>8, <1>9, LeavesSome
  <2> QED BY <1>3, <2>1 DEF Chosen
<1>13. Config!Without(s, id) = r
  BY <1>2 DEF n
<1> HIDE DEF r
<1>14. Config!Apart(r)
  BY <1>10, <1>11, ApartWhen
<1>15. Config!IdsOf(r) \subseteq Config!IdsOf(s)
  BY <1>12 DEF Config!IdsOf
<1> QED BY <1>12, <1>13, <1>14, <1>15

\* Devices keep their ids when only their points are replaced (loadConfig, saveConfig).
LEMMA PointsReplaced ==
  ASSUME NEW s, Config!Apart(s), \A i \in DOMAIN s : Config!HasId(s[i]),
         NEW r, r = [i \in DOMAIN s |-> r[i]], \A i \in DOMAIN s : \E ps : r[i] = [s[i] EXCEPT !.points = ps]
  PROVE  Config!Apart(r) /\ \A i \in DOMAIN r : Config!HasId(r[i])
<1>1. DOMAIN r = DOMAIN s
  OBVIOUS
<1>2. \A i \in DOMAIN s : r[i].id = s[i].id /\ Config!HasId(r[i])
  <2> SUFFICES ASSUME NEW i \in DOMAIN s PROVE r[i].id = s[i].id /\ Config!HasId(r[i])
    OBVIOUS
  <2>1. PICK ps : r[i] = [s[i] EXCEPT !.points = ps]
    OBVIOUS
  <2>2. "id" \in DOMAIN s[i] /\ "id" # "points"
    BY DEF Config!HasId
  <2> QED BY <2>1, <2>2 DEF Config!HasId
<1>3. s \in Seq(Config!Range(s)) /\ \A i, j \in DOMAIN s : s[i].id = s[j].id => i = j
  BY DEF Config!Apart
<1>4. r \in Seq({r[i] : i \in DOMAIN r})
  <2> DEFINE R == Config!Range(s)
             T == {r[i] : i \in DOMAIN r}
  <2>1. Len(s) \in Nat /\ DOMAIN s = 1 .. Len(s)
    <3> HIDE DEF R
    <3> QED BY <1>3 DEF R
  <2>2. \A i \in 1 .. Len(s) : r[i] \in T
    BY <1>1, <2>1
  <2>3. r = [i \in 1 .. Len(s) |-> r[i]]
    BY <2>1
  <2> HIDE DEF T
  <2>4. [i \in 1 .. Len(s) |-> r[i]] \in Seq(T)
    BY <2>1, <2>2, IsASeq
  <2>5. r \in Seq(T)
    BY <2>3, <2>4
  <2> QED BY <2>5 DEF T
<1>5. \A i, j \in DOMAIN r : r[i].id = r[j].id => i = j
  BY <1>1, <1>2, <1>3
<1>6. Config!Apart(r)
  BY <1>4, <1>5, ApartWhen
<1> QED BY <1>1, <1>2, <1>6

\* What is taken of the ids of a host (handleAddScannedHosts).
TakenId(s, h, n) == Config!Found(h, n) \in Config!IdsOf(s) \cup BaseIds

\* The id that is given to it.
UnusedId(s, h) ==
  CHOOSE n \in 1 .. Len(s) + Config!Cardinality(BaseIds) + 1 : ~TakenId(s, h, n) /\ \A m \in 1 .. n - 1 : TakenId(s, h, m)

\* A list has no more ids than entries.
LEMMA IdsCounted ==
  ASSUME NEW s, Config!Apart(s)
  PROVE  IsFiniteSet(Config!IdsOf(s)) /\ Cardinality(Config!IdsOf(s)) <= Len(s) /\ Len(s) \in Nat
<1> DEFINE n == Len(s)
           f == [i \in 1 .. n |-> s[i].id]
           T == Config!IdsOf(s)
           R == Config!Range(s)
<1>1. n \in Nat /\ DOMAIN s = 1 .. n
  <2>1. s \in Seq(R)
    BY DEF Config!Apart
  <2> HIDE DEF R
  <2> QED BY <2>1
<1>2. T = {s[i].id : i \in 1 .. n}
  BY <1>1 DEF Config!IdsOf
<1> HIDE DEF n, T
<1>3. f \in Surjection(1 .. n, T)
  BY <1>2 DEF Surjection
<1>4. IsFiniteSet(1 .. n) /\ Cardinality(1 .. n) = n
  BY <1>1, FS_Interval
<1> HIDE DEF f
<1>5. IsFiniteSet(T) /\ Cardinality(T) <= Cardinality(1 .. n)
  BY <1>3, <1>4, FS_Surjection
<1> QED BY <1>1, <1>4, <1>5 DEF T, n

\* Not all of as many ids as are tried are taken, so that the first that is not is found.
LEMMA SomeUnused == ASSUME NEW s, Config!Apart(s), NEW h PROVE ~TakenId(s, h, UnusedId(s, h))
<1> DEFINE T == Config!IdsOf(s) \cup BaseIds
           I == Config!IdsOf(s)
           b == Config!Cardinality(BaseIds)
           K == Len(s) + b + 1
           f == [n \in 1 .. K |-> Config!Found(h, n)]
           B == {n \in 1 .. K : ~TakenId(s, h, n)}
<1>1. b = Cardinality(BaseIds) /\ b \in Nat /\ IsFiniteSet(BaseIds)
  BY ConfigLibrary, PagesAssumption, FS_CardinalityType
<1>2. IsFiniteSet(I) /\ Cardinality(I) <= Len(s) /\ Len(s) \in Nat
  BY IdsCounted
<1>3. Cardinality(I) \in Nat
  BY <1>2, FS_CardinalityType
<1>4. IsFiniteSet(T) /\ Cardinality(T) <= Cardinality(I) + b
  <2>1. IsFiniteSet(I \cap BaseIds)
    BY <1>1, FS_Subset
  <2>2. Cardinality(I \cap BaseIds) \in Nat
    BY <2>1, FS_CardinalityType
  <2>3. IsFiniteSet(I \cup BaseIds) /\ Cardinality(I \cup BaseIds) = Cardinality(I) + Cardinality(BaseIds) - Cardinality(I \cap BaseIds)
    BY <1>1, <1>2, FS_Union
  <2> HIDE DEF I, b
  <2> QED BY <1>1, <1>3, <2>2, <2>3 DEF I
<1> HIDE DEF b, I
<1>5. K \in Nat /\ IsFiniteSet(1 .. K) /\ Cardinality(1 .. K) = K
  <2>1. K \in Nat
    BY <1>1, <1>2
  <2> HIDE DEF K
  <2> QED BY <2>1, FS_Interval
<1>6. Cardinality(T) < Cardinality(1 .. K)
  <2>1. Cardinality(T) \in Nat
    BY <1>4, FS_CardinalityType
  <2> HIDE DEF T
  <2> QED BY <1>1, <1>2, <1>3, <1>4, <1>5, <2>1
<1>7. B # {}
  <2> SUFFICES ASSUME B = {} PROVE FALSE
    OBVIOUS
  <2> HIDE DEF K
  <2>1. \A n \in 1 .. K : Config!Found(h, n) \in T
    BY DEF TakenId
  <2> HIDE DEF T
  <2>2. f \in [1 .. K -> T]
    BY <2>1
  <2> HIDE DEF f
  <2>3. \E x, y \in 1 .. K : x # y /\ f[x] = f[y]
    BY <1>4, <1>5, <1>6, <2>2, FS_PigeonHole
  <2>4. ASSUME NEW x \in 1 .. K, NEW y \in 1 .. K, f[x] = f[y] PROVE x = y
    <3>1. Config!Found(h, x) = Config!Found(h, y)
      BY <2>4 DEF f
    <3> QED BY <3>1 DEF Config!Found
  <2> QED BY <2>3, <2>4
<1> DEFINE k == K
<1>8. k \in Nat /\ B \in SUBSET (0 .. k)
  BY <1>5
<1> HIDE DEF B, K, k
<1>9. PICK m \in B : \A n \in 0 .. m - 1 : n \notin B
  BY <1>7, <1>8, Least
<1>10. m \in 1 .. K /\ ~TakenId(s, h, m)
  BY <1>9 DEF B
<1>11. \A n \in 1 .. m - 1 : TakenId(s, h, n)
  <2> SUFFICES ASSUME NEW n \in 1 .. m - 1 PROVE TakenId(s, h, n)
    OBVIOUS
  <2>1. n \in 0 .. m - 1 /\ n \in 1 .. K
    BY <1>5, <1>10
  <2> QED BY <1>9, <2>1 DEF B
<1>12. UnusedId(s, h) = CHOOSE n \in 1 .. K : ~TakenId(s, h, n) /\ \A i \in 1 .. n - 1 : TakenId(s, h, i)
  BY DEF UnusedId, K, b
<1> QED BY <1>10, <1>11, <1>12

\* g adds a connection for each of the first n of some hosts.
Adds(hs, n, g) ==
  g = [i \in 0 .. n |-> IF i = 0 THEN v3 ELSE Config!WithFound(g[i - 1], hs[i], UnusedId(g[i - 1], hs[i]))]

\* There is such a function for each number of them.
LEMMA SomeAdds == ASSUME NEW hs, NEW N \in Nat PROVE \E g : Adds(hs, N, g)
<1> DEFINE B == {n \in 0 .. N : ~\E g : Adds(hs, n, g)}
<1>1. SUFFICES ASSUME B # {} PROVE FALSE
  OBVIOUS
<1>2. B \in SUBSET (0 .. N)
  OBVIOUS
<1> HIDE DEF B
<1>3. PICK m \in B : \A k \in 0 .. m - 1 : k \notin B
  BY <1>1, <1>2, Least
<1>4. m \in 0 .. N /\ ~\E g : Adds(hs, m, g)
  BY <1>3 DEF B
<1>5. CASE m = 0
  <2>1. Adds(hs, 0, [i \in 0 .. 0 |-> v3])
    BY DEF Adds
  <2> QED BY <1>4, <1>5, <2>1
<1>6. CASE m # 0
  <2>1. m - 1 \in 0 .. m - 1 /\ m - 1 \in 0 .. N
    BY <1>4, <1>6
  <2>2. PICK f : Adds(hs, m - 1, f)
    BY <1>3, <2>1 DEF B
  <2> DEFINE e == Config!WithFound(f[m - 1], hs[m], UnusedId(f[m - 1], hs[m]))
             g == [i \in 0 .. m |-> IF i = m THEN e ELSE f[i]]
  <2>3. \A i \in 0 .. m - 1 : g[i] = f[i]
    BY <1>4
  <2>4. \A i \in 0 .. m - 1 : f[i] = IF i = 0 THEN v3 ELSE Config!WithFound(f[i - 1], hs[i], UnusedId(f[i - 1], hs[i]))
    BY <2>2 DEF Adds
  <2>5. \A i \in 0 .. m : g[i] = IF i = 0 THEN v3 ELSE Config!WithFound(g[i - 1], hs[i], UnusedId(g[i - 1], hs[i]))
    <3> SUFFICES ASSUME NEW i \in 0 .. m
                 PROVE  g[i] = IF i = 0 THEN v3 ELSE Config!WithFound(g[i - 1], hs[i], UnusedId(g[i - 1], hs[i]))
      OBVIOUS
    <3>1. CASE i = m
      <4>1. g[m] = e /\ g[m - 1] = f[m - 1]
        BY <1>4, <2>1, <2>3
      <4> QED BY <1>6, <3>1, <4>1
    <3>2. CASE i # m
      <4>1. i \in 0 .. m - 1 /\ (i # 0 => i - 1 \in 0 .. m - 1)
        BY <1>4, <3>2
      <4> HIDE DEF g
      <4> QED BY <2>3, <2>4, <4>1
    <3> QED BY <3>1, <3>2
  <2>6. g = [i \in 0 .. m |-> g[i]]
    OBVIOUS
  <2> HIDE DEF g, e
  <2>7. Adds(hs, m, g)
    BY <2>5, <2>6 DEF Adds
  <2> QED BY <1>4, <2>7
<1> QED BY <1>5, <1>6

\* Apart, and with no more of the base's ids, stays apart.
AddedApart(s) == Config!Apart(s) /\ Config!IdsOf(s) \cap BaseIds \subseteq Config!IdsOf(v3)

\* However many are added, ids are not given twice, and none of the base's is.
LEMMA AddsApart ==
  ASSUME Config!Apart(v3), NEW hs, NEW N \in Nat, NEW g, Adds(hs, N, g) PROVE \A i \in 0 .. N : AddedApart(g[i])
<1> DEFINE B == {i \in 0 .. N : ~AddedApart(g[i])}
<1>1. SUFFICES ASSUME B # {} PROVE FALSE
  OBVIOUS
<1>2. B \in SUBSET (0 .. N)
  OBVIOUS
<1> HIDE DEF B
<1>3. PICK m \in B : \A k \in 0 .. m - 1 : k \notin B
  BY <1>1, <1>2, Least
<1>4. m \in 0 .. N /\ ~AddedApart(g[m])
  BY <1>3 DEF B
<1>5. g[m] = IF m = 0 THEN v3 ELSE Config!WithFound(g[m - 1], hs[m], UnusedId(g[m - 1], hs[m]))
  BY <1>4 DEF Adds
<1>6. m # 0
  BY <1>4, <1>5 DEF AddedApart
<1>7. m - 1 \in 0 .. m - 1 /\ m - 1 \in 0 .. N
  BY <1>4, <1>6
<1>8. AddedApart(g[m - 1])
  BY <1>3, <1>7 DEF B
<1> DEFINE s == g[m - 1]
           h == hs[m]
           x == [id |-> Config!Found(h, UnusedId(s, h)), type |-> "bacnet-ip", fields |-> 0]
<1>9. g[m] = Append(s, x)
  BY <1>5, <1>6 DEF Config!WithFound
<1>10. AddedApart(s)
  BY <1>8
<1>11. x.id = Config!Found(h, UnusedId(s, h))
  OBVIOUS
<1> HIDE DEF s, h, x
<1>12. x.id \notin Config!IdsOf(s) /\ x.id \notin BaseIds
  BY <1>10, <1>11, SomeUnused DEF AddedApart, TakenId
<1>13. Config!Apart(Append(s, x)) /\ Config!IdsOf(Append(s, x)) = Config!IdsOf(s) \cup {x.id}
  BY <1>10, <1>12, AppendApart DEF AddedApart
<1>14. AddedApart(Append(s, x))
  BY <1>10, <1>12, <1>13 DEF AddedApart
<1> QED BY <1>4, <1>9, <1>14

\* So are the connections with those of the hosts that were found (handleAddScannedHosts).
LEMMA ScannedApart ==
  ASSUME Config!Apart(v3), NEW hosts \in SUBSET Hosts PROVE AddedApart(Config!HandleAddScannedHosts(hosts))
<1> DEFINE S == hosts \ Silent
           hs == Config!InSomeOrder(S)
           f == CHOOSE g : Adds(hs, Len(hs), g)
<1>1. Config!HandleAddScannedHosts(hosts) = f[Len(hs)]
  BY DEF Config!HandleAddScannedHosts, Adds, UnusedId, TakenId
<1>2. IsFiniteSet(S)
  BY PagesAssumption, FS_Subset
<1>3. Len(hs) \in Nat
  <2> DEFINE c == Cardinality(S)
  <2>1. c \in Nat /\ ExistsBijection(1 .. c, S)
    BY <1>2, FS_CardinalityType
  <2>2. \E s \in [1 .. c -> S] : IsInjective(s)
    BY <2>1 DEF ExistsBijection, Bijection, Injection
  <2>3. hs = CHOOSE s \in [1 .. c -> S] : IsInjective(s)
    BY ConfigLibrary DEF Config!InSomeOrder, Config!IsInjective, IsInjective
  <2>4. hs \in [1 .. c -> S]
    BY <2>2, <2>3
  <2> HIDE DEF hs, S, c
  <2>5. Len(hs) = c
    BY <2>1, <2>4
  <2> QED BY <2>1, <2>5
<1> HIDE DEF hs
<1>4. Adds(hs, Len(hs), f)
  BY <1>3, SomeAdds
<1>5. Len(hs) \in 0 .. Len(hs)
  BY <1>3
<1> HIDE DEF f
<1> QED BY <1>1, <1>3, <1>4, <1>5, AddsApart

\* Nothing is overridden at first.
LEMMA ConfigInit == ASSUME Config!Init PROVE Config!IdsOwned
<1>1. /\ v1.connections = <<>> /\ v1.devices = <<>> /\ v3 = <<>> /\ v4 = <<>> /\ v8 = None /\ v10 = Config!Closed /\ v13 = {}
  BY DEF Config!Init
<1>2. <<>> \in Seq({}) /\ DOMAIN (<<>>) = {}
  OBVIOUS
<1>3. Config!Apart(<<>>)
  BY <1>2, ApartWhen
<1>4. Config!IdsOf(<<>>) = {}
  BY <1>2 DEF Config!IdsOf
<1>5. v10 \in [open : BOOLEAN, scanning : BOOLEAN, result : SUBSET Hosts, selected : SUBSET Hosts]
  BY <1>1 DEF Config!Closed
<1> QED BY <1>1, <1>2, <1>3, <1>4, <1>5 DEF Config!IdsOwned

\* A step that leaves what has ids alone leaves them as they are.
LEMMA ConfigUnchanged ==
  ASSUME Config!IdsOwned, UNCHANGED <<v1, v3, v4, v8, v10, v13>> PROVE Config!IdsOwned'
BY DEF Config!IdsOwned, Config!Apart, Config!IdsOf, Config!HasId, Config!Range

\* A device that is saved has an id, as all of the others.
LEMMA DevicesSaved ==
  ASSUME NEW s, \A i \in DOMAIN s : Config!HasId(s[i]), NEW x, Config!HasId(x),
         NEW r, \A i \in DOMAIN r : r[i] = x \/ \E j \in DOMAIN s : r[i] = s[j]
  PROVE  \A i \in DOMAIN r : Config!HasId(r[i])
OBVIOUS

\* Scans, types, saves, deletions and reloads leave ids that are not given twice (pages/config.page.tsx).
LEMMA ConfigStep == ASSUME Config!IdsOwned, Config!Next PROVE Config!IdsOwned'
<1> DEFINE Scans == [open : BOOLEAN, scanning : BOOLEAN, result : SUBSET Hosts, selected : SUBSET Hosts]
           Own(c, d, by) == /\ Config!Apart(c) /\ Config!Apart(d)
                            /\ (\A i \in DOMAIN d : Config!HasId(d[i]))
                            /\ Config!IdsOf(c) \cap BaseIds \subseteq by
<1>i. /\ Own(v3, v4, v13) /\ Own(v1.connections, v1.devices, v13)
      /\ v8 # None => Config!HasId(v8)
      /\ v10 \in Scans
  BY DEF Config!IdsOwned
<1>j. ASSUME Own(v3', v4', v13'), Own(v1.connections', v1.devices', v13'), v8' # None => Config!HasId(v8'), v10' \in Scans
      PROVE  Config!IdsOwned'
  BY <1>j DEF Config!IdsOwned, Config!Apart, Config!IdsOf, Config!HasId, Config!Range
<1>e. Own(<<>>, <<>>, v13)
  <2>1. <<>> \in Seq({}) /\ DOMAIN (<<>>) = {}
    OBVIOUS
  <2>2. Config!Apart(<<>>)
    BY <2>1, ApartWhen
  <2> QED BY <2>1, <2>2 DEF Config!IdsOf
<1> HIDE DEF Own, Scans
<1>1. CASE Config!LoadConfig
  <2>1. v1' = v1 /\ v3' = v1.connections /\ v8' = v8 /\ v10' = v10 /\ v13' = v13
    BY <1>1 DEF Config!LoadConfig, Config!edited
  <2>2. /\ v4' = [i \in DOMAIN v1.devices |-> v4'[i]]
        /\ \A i \in DOMAIN v1.devices : \E ps : v4'[i] = [v1.devices[i] EXCEPT !.points = ps]
    <3> DEFINE said == CHOOSE f : f = [i \in 0 .. Len(v1.devices) |-> IF i = 0 THEN <<>> ELSE f[i - 1] \o v1.devices[i].points]
               points(i) == [j \in DOMAIN v1.devices[i].points |-> Len(said[i - 1]) + j]
    <3>1. v4' = [i \in DOMAIN v1.devices |-> [v1.devices[i] EXCEPT !.points = points(i)]]
      BY <1>1 DEF Config!LoadConfig
    <3> HIDE DEF points
    <3> QED BY <3>1
  <2>3. Config!Apart(v1.devices) /\ (\A i \in DOMAIN v1.devices : Config!HasId(v1.devices[i]))
    BY <1>i DEF Own
  <2>4. Config!Apart(v4') /\ (\A i \in DOMAIN v4' : Config!HasId(v4'[i]))
    BY <2>2, <2>3, PointsReplaced
  <2>5. Own(v3', v4', v13')
    BY <1>i, <2>1, <2>4 DEF Own
  <2> QED BY <1>i, <1>j, <2>1, <2>5
<1>k. ASSUME UNCHANGED <<v1, v3, v4, v8, v10, v13>> PROVE Config!IdsOwned'
  BY <1>k, ConfigUnchanged
<1>2. ASSUME NEW m \in ConfigModules, Config!HandleModuleToggle(m) PROVE Config!IdsOwned'
  BY <1>2, <1>k DEF Config!HandleModuleToggle, Config!edited
<1>3. CASE Config!EditConnection
  BY <1>3, <1>k DEF Config!EditConnection, Config!override
<1>4. CASE Config!ConnectionEditor
  BY <1>4, <1>k DEF Config!ConnectionEditor, Config!override
<1>5. CASE Config!HandleSaveConnection
  <2>1. v1' = v1 /\ v4' = v4 /\ v8' = v8 /\ v10' = v10 /\ v13' = v13 \cup {v7.id} /\ v3' = Config!Upsert(v3, v7)
    BY <1>5 DEF Config!HandleSaveConnection
  <2>2. Config!Apart(v3') /\ Config!IdsOf(v3') \subseteq Config!IdsOf(v3) \cup {v7.id}
    BY <1>i, <2>1, UpsertApart DEF Own
  <2>3. Own(v3', v4', v13') /\ Own(v1.connections, v1.devices, v13')
    BY <1>i, <2>1, <2>2 DEF Own
  <2> QED BY <1>i, <1>j, <2>1, <2>3
<1>6. ASSUME NEW id, Config!HandleDeleteConnection(id) PROVE Config!IdsOwned'
  <2>1. UNCHANGED <<v1, v4, v8, v10, v13>> /\ v3' = Config!Without(v3, id)
    BY <1>6 DEF Config!HandleDeleteConnection, Config!edited
  <2>2. Config!Apart(v3') /\ Config!IdsOf(v3') \subseteq Config!IdsOf(v3)
    BY <1>i, <2>1, WithoutApart DEF Own
  <2>3. Own(v3', v4', v13')
    BY <1>i, <2>1, <2>2 DEF Own
  <2> QED BY <1>i, <1>j, <2>1, <2>3
<1>s. ASSUME UNCHANGED <<v1, v3, v4, v8, v13>>, v10' \in Scans PROVE Config!IdsOwned'
  BY <1>i, <1>j, <1>s
<1>7. CASE Config!ScanModal
  <2>1. UNCHANGED <<v1, v3, v4, v8, v13>> /\ \E o \in BOOLEAN : v10' = [v10 EXCEPT !.open = o]
    BY <1>7 DEF Config!ScanModal, Config!override, Config!edited
  <2>2. v10' \in Scans
    BY <1>i, <2>1 DEF Scans
  <2> QED BY <1>s, <2>1, <2>2
<1>8. CASE Config!RunScan
  <2>1. UNCHANGED <<v1, v3, v4, v8, v13>> /\ v10' = [v10 EXCEPT !.scanning = TRUE, !.result = {}, !.selected = {}]
    BY <1>8 DEF Config!RunScan, Config!override, Config!edited
  <2>2. v10' \in Scans
    BY <1>i, <2>1 DEF Scans
  <2> QED BY <1>s, <2>1, <2>2
<1>9. ASSUME NEW hosts \in SUBSET Hosts, Config!FinishScan(hosts) PROVE Config!IdsOwned'
  <2>1. UNCHANGED <<v1, v3, v4, v8, v13>> /\ v10' = [v10 EXCEPT !.scanning = FALSE, !.result = hosts, !.selected = hosts]
    BY <1>9 DEF Config!FinishScan, Config!override, Config!edited
  <2>2. v10' \in Scans
    BY <1>i, <2>1 DEF Scans
  <2> QED BY <1>s, <2>1, <2>2
<1>10. ASSUME NEW h \in Hosts, Config!ToggleHost(h) PROVE Config!IdsOwned'
  <2> DEFINE T == IF h \in v10.selected THEN v10.selected \ {h} ELSE v10.selected \cup {h}
  <2>1. UNCHANGED <<v1, v3, v4, v8, v13>> /\ v10' = [v10 EXCEPT !.selected = T]
    BY <1>10 DEF Config!ToggleHost, Config!override, Config!edited
  <2>2. T \in SUBSET Hosts
    BY <1>i DEF Scans
  <2> HIDE DEF T
  <2>3. v10' \in Scans
    BY <1>i, <2>1, <2>2 DEF Scans
  <2> QED BY <1>s, <2>1, <2>3
<1>11. CASE Config!HandleAdd
  <2> DEFINE hosts == v10.selected \cap v10.result
  <2>1. /\ UNCHANGED <<v1, v4, v8, v13>>
        /\ v3' = Config!HandleAddScannedHosts(hosts)
        /\ v10' = [v10 EXCEPT !.open = FALSE, !.result = {}, !.selected = {}]
    BY <1>11 DEF Config!HandleAdd, Config!edited
  <2>2. hosts \in SUBSET Hosts /\ v10' \in Scans
    BY <1>i, <2>1 DEF Scans
  <2>3. Config!Apart(v3)
    BY <1>i DEF Own
  <2> HIDE DEF hosts
  <2>4. AddedApart(v3')
    BY <2>1, <2>2, <2>3, ScannedApart
  <2>5. Own(v3', v4', v13')
    BY <1>i, <2>1, <2>4 DEF Own, AddedApart
  <2> QED BY <1>i, <1>j, <2>1, <2>2, <2>5
<1>d. ASSUME UNCHANGED <<v1, v3, v4, v10, v13>>, v8' # None => Config!HasId(v8') PROVE Config!IdsOwned'
  BY <1>i, <1>j, <1>d
<1>12. CASE Config!EditDevice
  <2>1. UNCHANGED <<v1, v3, v4, v10, v13>>
    BY <1>12 DEF Config!EditDevice, Config!override
  <2> DEFINE new == [id |-> None, type |-> "virtual", connection |-> None, fields |-> 0, points |-> <<>>]
  <2>2. v8' = new \/ \E i \in DOMAIN v4 : v8' = v4[i]
    <3>1. v8' = new \/ \E i \in DOMAIN Config!DeviceList : v8' = Config!DeviceList[i]
      BY <1>12 DEF Config!EditDevice, Config!Open
    <3>2. Config!DeviceList = v4
      BY <1>12 DEF Config!EditDevice, Config!DeviceList
    <3> QED BY <3>1, <3>2
  <2>3. Config!HasId(new)
    BY DEF Config!HasId
  <2> HIDE DEF new
  <2>4. Config!HasId(v8')
    BY <1>i, <2>2, <2>3 DEF Own
  <2> QED BY <1>d, <2>1, <2>4
<1>13. CASE Config!DeviceEditor
  <2>1. UNCHANGED <<v1, v3, v4, v10, v13>> /\ v8 # None
    BY <1>13 DEF Config!DeviceEditor, Config!override
  <2>2. DOMAIN v8' = DOMAIN v8
    <3>1. CASE \E id \in Names \ {v8.id} : v8' = [v8 EXCEPT !.id = id]
      BY <3>1
    <3>2. CASE v8' = Config!FieldRenderer(v8)
      BY <3>2 DEF Config!FieldRenderer
    <3>3. CASE \E c \in BaseIds \cup Config!IdsOf(v3) : v8' = [v8 EXCEPT !.connection = c]
      BY <3>3
    <3>4. CASE \E t \in {"virtual", "janitza"} \ {v8.type} :
                 v8' = [v8 EXCEPT !.type = t, !.connection = None, !.fields = 0, !.points = IF t = "virtual" THEN @ ELSE <<>>]
      BY <3>4
    <3> QED BY <1>13, <3>1, <3>2, <3>3, <3>4 DEF Config!DeviceEditor
  <2>3. Config!HasId(v8')
    BY <1>i, <2>1, <2>2 DEF Config!HasId
  <2> QED BY <1>d, <2>1, <2>3
<1>14. CASE Config!AddPoint
  <2>1. UNCHANGED <<v1, v3, v4, v10, v13>> /\ v8 # None /\ DOMAIN v8' = DOMAIN v8
    BY <1>14 DEF Config!AddPoint
  <2>2. Config!HasId(v8')
    BY <1>i, <2>1 DEF Config!HasId
  <2> QED BY <1>d, <2>1, <2>2
<1>15. ASSUME NEW i, Config!RemovePoint(i) PROVE Config!IdsOwned'
  <2>1. UNCHANGED <<v1, v3, v4, v10, v13>> /\ v8 # None /\ DOMAIN v8' = DOMAIN v8
    BY <1>15 DEF Config!RemovePoint, Config!override
  <2>2. Config!HasId(v8')
    BY <1>i, <2>1 DEF Config!HasId
  <2> QED BY <1>d, <2>1, <2>2
<1>16. ASSUME NEW i, Config!HandleInput(i) \/ Config!HandleSelectKey(i) \/ Config!CheckFormula(i) PROVE Config!IdsOwned'
  BY <1>16, <1>k DEF Config!HandleInput, Config!HandleSelectKey, Config!CheckFormula, Config!override, Config!edited
<1>17. ASSUME NEW a, Config!FinishCheck(a) \/ Config!FinishSave(a) PROVE Config!IdsOwned'
  BY <1>17, <1>k DEF Config!FinishCheck, Config!FinishSave, Config!override, Config!edited
<1>18. CASE Config!HandleSaveDevice
  <2>1. UNCHANGED <<v1, v3, v10, v13>> /\ v8 # None /\ v8' = None /\ v4' = Config!Upsert(v4, v8)
    BY <1>18 DEF Config!HandleSaveDevice
  <2>2. Config!Apart(v4') /\ \A i \in DOMAIN v4' : v4'[i] = v8 \/ \E j \in DOMAIN v4 : v4'[i] = v4[j]
    BY <1>i, <2>1, UpsertApart DEF Own
  <2>3. \A i \in DOMAIN v4' : Config!HasId(v4'[i])
    BY <1>i, <2>1, <2>2, DevicesSaved DEF Own
  <2>4. Own(v3', v4', v13')
    BY <1>i, <2>1, <2>2, <2>3 DEF Own
  <2> QED BY <1>i, <1>j, <2>1, <2>4
<1>19. ASSUME NEW id, Config!HandleDeleteDevice(id) PROVE Config!IdsOwned'
  <2>1. UNCHANGED <<v1, v3, v8, v10, v13>> /\ v4' = Config!Without(v4, id)
    BY <1>19 DEF Config!HandleDeleteDevice, Config!edited
  <2>2. Config!Apart(v4') /\ \A i \in DOMAIN v4' : \E j \in DOMAIN v4 : v4'[i] = v4[j]
    BY <1>i, <2>1, WithoutApart DEF Own
  <2>3. Own(v3', v4', v13')
    BY <1>i, <2>1, <2>2 DEF Own
  <2> QED BY <1>i, <1>j, <2>1, <2>3
<1>20. CASE Config!EditorModal
  <2>1. UNCHANGED <<v1, v3, v4, v10, v13>> /\ (v8' = v8 \/ v8' = None)
    BY <1>20 DEF Config!EditorModal, Config!override
  <2> QED BY <1>i, <1>d, <2>1
<1>21. ASSUME NEW ok \in BOOLEAN, Config!SaveConfig(ok) PROVE Config!IdsOwned'
  <2> DEFINE sent == [i \in DOMAIN v4 |-> Config!Sent(v4[i])]
  <2>1. /\ UNCHANGED <<v3, v4, v8, v10, v13>>
        /\ v1' = IF ok THEN [connections |-> v3, devices |-> sent, modules |-> v5] ELSE v1
    BY <1>21 DEF Config!SaveConfig, Config!override, Config!edited
  <2>2. CASE ~ok
    BY <1>k, <2>1, <2>2
  <2>3. CASE ok
    <3>1. \A i \in DOMAIN v4 : \E ps : sent[i] = [v4[i] EXCEPT !.points = ps]
      <4> SUFFICES ASSUME NEW i \in DOMAIN v4 PROVE \E ps : sent[i] = [v4[i] EXCEPT !.points = ps]
        OBVIOUS
      <4> DEFINE ps == [j \in DOMAIN v4[i].points |-> v6[v4[i].points[j]]]
      <4>1. Config!Sent(v4[i]) = [v4[i] EXCEPT !.points = ps]
        BY DEF Config!Sent
      <4> HIDE DEF ps
      <4> QED BY <4>1
    <3>2. sent = [i \in DOMAIN v4 |-> sent[i]]
      OBVIOUS
    <3>3. v1'.connections = v3 /\ v1'.devices = sent
      BY <2>1, <2>3
    <3> HIDE DEF sent
    <3>4. Config!Apart(sent) /\ \A i \in DOMAIN sent : Config!HasId(sent[i])
      BY <1>i, <3>1, <3>2, PointsReplaced DEF Own
    <3>5. Own(v1'.connections, v1'.devices, v13')
      BY <1>i, <2>1, <3>3, <3>4 DEF Own
    <3>6. Own(v1.connections', v1.devices', v13')
      BY <3>5
    <3> QED BY <1>i, <1>j, <2>1, <3>6
  <2> QED BY <2>2, <2>3
<1>22. ASSUME NEW a, Config!Reload(a) PROVE Config!IdsOwned'
  <2>1. v1' = v1 /\ v3' = <<>> /\ v4' = <<>> /\ v8' = None /\ v10' = Config!Closed /\ v13' = v13
    BY <1>22 DEF Config!Reload
  <2>2. v10' \in Scans
    BY <2>1 DEF Config!Closed, Scans
  <2>3. Own(v3', v4', v13')
    BY <1>e, <2>1
  <2> QED BY <1>i, <1>j, <2>1, <2>2, <2>3
<1> QED
  BY <1>1, <1>2, <1>3, <1>4, <1>5, <1>6, <1>7, <1>8, <1>9, <1>10, <1>11, <1>12, <1>13, <1>14, <1>15, <1>16, <1>17, <1>18,
     <1>19, <1>20, <1>21, <1>22
  DEF Config!Next

\* The inductive invariant implies the property.
LEMMA ConfigKept == ASSUME Config!IdsOwned PROVE Config!OverridesApart
BY DEF Config!IdsOwned, Config!OverridesApart, Config!Apart

(***************************************************************************)
(* Numbers as they are written                                             *)
(***************************************************************************)

\* The smallest of some numbers of entries that something does not hold of, and what is left of one entry less.
LEMMA LeavesLess ==
  ASSUME NEW S, NEW ps \in Seq(S), NEW search, NEW n \in 0 .. Len(ps), NEW f, Leaves(ps, search, n, f),
         NEW B \in SUBSET (0 .. n), 0 \notin B, B # {}
  PROVE  \E m \in B : /\ m \in 1 .. n /\ m - 1 \in 0 .. n /\ m - 1 \notin B /\ m \in 1 .. Len(ps)
                      /\ f[m - 1] \in Seq(S) /\ ps[m] \in S
                      /\ f[m] = IF ps[m] \in search THEN Append(f[m - 1], ps[m]) ELSE f[m - 1]
<1>1. n \in Nat
  OBVIOUS
<1>2. PICK m \in B : \A k \in 0 .. m - 1 : k \notin B
  BY <1>1, Least
<1>3. m \in 1 .. n /\ m \in 1 .. Len(ps) /\ m - 1 \in 0 .. m - 1 /\ m - 1 \in 0 .. n /\ m \in 0 .. n /\ m # 0
  <2>1. m \in 0 .. n /\ m # 0
    OBVIOUS
  <2> QED BY <2>1
<1>4. f[m - 1] \in Seq(S)
  BY <1>3, LeavesSequences
<1>5. f[m] = IF ps[m] \in search THEN Append(f[m - 1], ps[m]) ELSE f[m - 1]
  BY <1>3 DEF Leaves
<1> QED BY <1>2, <1>3, <1>4, <1>5

\* Nothing is left of no entries.
LEMMA LeavesNone == ASSUME NEW ps, NEW search, NEW n \in Nat, NEW f, Leaves(ps, search, n, f) PROVE f[0] = <<>>
BY DEF Leaves

\* Everything is left when everything is searched for.
LEMMA LeavesAll ==
  ASSUME NEW S, NEW ps \in Seq(S), NEW search, NEW n \in 0 .. Len(ps), NEW f, Leaves(ps, search, n, f),
         \A i \in 1 .. n : ps[i] \in search
  PROVE  f[n] = SubSeq(ps, 1, n)
<1> DEFINE B == {i \in 0 .. n : f[i] # SubSeq(ps, 1, i)}
<1>1. SUFFICES ASSUME B # {} PROVE FALSE
  OBVIOUS
<1>2. 0 \notin B
  <2>1. f[0] = <<>> /\ SubSeq(ps, 1, 0) = <<>>
    BY LeavesNone, SubSeqEmpty
  <2> QED BY <2>1
<1>3. B \in SUBSET (0 .. n)
  OBVIOUS
<1> HIDE DEF B
<1>4. PICK m \in B : /\ m \in 1 .. n /\ m - 1 \in 0 .. n /\ m - 1 \notin B /\ m \in 1 .. Len(ps)
                     /\ f[m - 1] \in Seq(S) /\ ps[m] \in S
                     /\ f[m] = IF ps[m] \in search THEN Append(f[m - 1], ps[m]) ELSE f[m - 1]
  BY <1>1, <1>2, <1>3, LeavesLess
<1>5. f[m] # SubSeq(ps, 1, m) /\ f[m - 1] = SubSeq(ps, 1, m - 1)
  BY <1>4 DEF B
<1>6. f[m] = Append(SubSeq(ps, 1, m - 1), ps[m])
  BY <1>4, <1>5
<1>7. SubSeq(ps, 1, m) = SubSeq(ps, 1, m - 1) \o <<ps[m]>>
  <2>1. 1 \in 1 .. Len(ps) /\ m \in 1 .. Len(ps)
    BY <1>4
  <2> QED BY <2>1, SubSeqRecursiveSecond
<1>8. SubSeq(ps, 1, m - 1) \in Seq(S)
  BY <1>4, <1>5
<1>9. Append(SubSeq(ps, 1, m - 1), ps[m]) = SubSeq(ps, 1, m - 1) \o <<ps[m]>>
  BY <1>4, <1>8
<1> QED BY <1>5, <1>6, <1>7, <1>9

\* The first entries of two sequences are the same, and the same of them are searched for.
Alike(ps, search, qs, sought, k) == \A i \in 1 .. k : ps[i] = qs[i] /\ (ps[i] \in search <=> qs[i] \in sought)

\* As much is left of two sequences as long as the same entries are searched for.
LEMMA LeavesAgree ==
  ASSUME NEW S, NEW ps \in Seq(S), NEW search, NEW n \in 0 .. Len(ps), NEW f, Leaves(ps, search, n, f),
         NEW qs \in Seq(S), NEW sought, NEW l \in 0 .. Len(qs), NEW g, Leaves(qs, sought, l, g),
         NEW k \in 0 .. n, k <= l, Alike(ps, search, qs, sought, k)
  PROVE  f[k] = g[k]
<1>0. k \in Nat /\ k \in 0 .. k
  <2>1. n \in Nat
    OBVIOUS
  <2>2. k \in Nat
    BY <2>1
  <2> QED BY <2>2
<1> DEFINE B == {i \in 0 .. k : f[i] # g[i]}
<1>1. SUFFICES ASSUME B # {} PROVE FALSE
  <2>1. B = {}
    OBVIOUS
  <2> QED BY <1>0, <2>1
<1>2. 0 \notin B
  <2>1. n \in Nat /\ l \in Nat
    OBVIOUS
  <2>2. f[0] = <<>>
    BY <2>1, LeavesNone
  <2>3. g[0] = <<>>
    BY <2>1, LeavesNone
  <2> QED BY <2>2, <2>3
<1>3. B \in SUBSET (0 .. k) /\ k \in Nat
  BY <1>0
<1> HIDE DEF B
<1>4. PICK m \in B : \A i \in 0 .. m - 1 : i \notin B
  BY <1>1, <1>3, Least
<1>5. m \in 0 .. k /\ f[m] # g[m]
  BY <1>4 DEF B
<1>6. m \in 1 .. k /\ m - 1 \in 0 .. m - 1 /\ m - 1 \in 0 .. k
  BY <1>2, <1>4, <1>5
<1>7. f[m - 1] = g[m - 1]
  BY <1>4, <1>6 DEF B
<1>8. m \in 0 .. n /\ m # 0 /\ m \in 0 .. l
  BY <1>6
<1>9. f[m] = IF ps[m] \in search THEN Append(f[m - 1], ps[m]) ELSE f[m - 1]
  BY <1>8 DEF Leaves
<1>10. g[m] = IF qs[m] \in sought THEN Append(g[m - 1], qs[m]) ELSE g[m - 1]
  BY <1>8 DEF Leaves
<1>11. ps[m] = qs[m] /\ (ps[m] \in search <=> qs[m] \in sought)
  BY <1>6 DEF Alike
<1> QED BY <1>5, <1>7, <1>9, <1>10, <1>11

\* What is appended to two sequences is appended to the second.
LEMMA AppendApartFrom ==
  ASSUME NEW S, NEW a \in Seq(S), NEW b \in Seq(S), NEW x \in S
  PROVE  Append(a \o b, x) = a \o (b \o <<x>>)
<1>1. <<x>> \in Seq(S)
  OBVIOUS
<1>2. a \o b \in Seq(S)
  OBVIOUS
<1>3. Append(a \o b, x) = (a \o b) \o <<x>>
  BY <1>2
<1>4. (a \o b) \o <<x>> = a \o (b \o <<x>>)
  BY <1>1, ConcatAssociative
<1> QED BY <1>3, <1>4

\* An entry between two sequences is as well the last of the first as the first of the second.
LEMMA AppendBetween ==
  ASSUME NEW S, NEW a \in Seq(S), NEW b \in Seq(S), NEW x \in S
  PROVE  Append(a, x) \o b = a \o (<<x>> \o b)
<1>1. <<x>> \in Seq(S)
  OBVIOUS
<1>3. Append(a, x) = a \o <<x>>
  OBVIOUS
<1>4. (a \o <<x>>) \o b = a \o (<<x>> \o b)
  BY <1>1, ConcatAssociative
<1> QED BY <1>3, <1>4

\* From where everything is searched for, the rest is left as it is.
LEMMA LeavesRest ==
  ASSUME NEW S, NEW ps \in Seq(S), NEW search, NEW n \in 0 .. Len(ps), NEW f, Leaves(ps, search, n, f),
         NEW k \in 0 .. n, \A i \in k + 1 .. n : ps[i] \in search
  PROVE  f[n] = f[k] \o SubSeq(ps, k + 1, n)
<1>00. n \in Nat /\ n \in 0 .. n /\ n >= k
  OBVIOUS
<1> DEFINE B == {i \in 0 .. n : i >= k /\ f[i] # f[k] \o SubSeq(ps, k + 1, i)}
<1>0. f[k] \in Seq(S)
  BY LeavesSequences
<1>1. SUFFICES ASSUME B # {} PROVE FALSE
  <2>1. B = {}
    OBVIOUS
  <2>2. n \notin B
    BY <2>1
  <2> QED BY <1>00, <2>2
<1>2. k \notin B
  <2>0. k \in Int /\ k + 1 \in Int /\ k + 1 > k
    OBVIOUS
  <2>1. SubSeq(ps, k + 1, k) = <<>>
    BY <2>0, SubSeqEmpty
  <2>2. f[k] \o <<>> = f[k]
    BY <1>0
  <2> QED BY <2>1, <2>2
<1>3. B \in SUBSET (0 .. n) /\ n \in Nat
  BY <1>00
<1> HIDE DEF B
<1>4. PICK m \in B : \A i \in 0 .. m - 1 : i \notin B
  BY <1>1, <1>3, Least
<1>5. m \in 0 .. n /\ m >= k /\ f[m] # f[k] \o SubSeq(ps, k + 1, m)
  BY <1>4 DEF B
<1>6. m # k
  BY <1>2, <1>4
<1>7. m \in k + 1 .. n /\ m \in 1 .. Len(ps) /\ m - 1 \in 0 .. m - 1 /\ m - 1 \in 0 .. n /\ m - 1 >= k /\ m # 0
  BY <1>5, <1>6
<1>8. f[m - 1] = f[k] \o SubSeq(ps, k + 1, m - 1)
  BY <1>4, <1>7 DEF B
<1>9. f[m] = Append(f[m - 1], ps[m])
  <2>1. f[m] = IF m = 0 THEN <<>> ELSE IF ps[m] \in search THEN Append(f[m - 1], ps[m]) ELSE f[m - 1]
    BY <1>5 DEF Leaves
  <2> QED BY <1>7, <2>1
<1> DEFINE r == SubSeq(ps, k + 1, m - 1)
<1>10. SubSeq(ps, k + 1, m) = r \o <<ps[m]>>
  <2>1. k + 1 \in 1 .. Len(ps) /\ m \in k + 1 .. Len(ps)
    BY <1>7
  <2> QED BY <2>1, SubSeqRecursiveSecond
<1>11. r \in Seq(S)
  <2>1. k + 1 \in Int /\ m - 1 \in Int /\ \A i \in k + 1 .. m - 1 : ps[i] \in S
    BY <1>7
  <2> QED BY <2>1, SubSeqProperties
<1> HIDE DEF r
<1>12. ps[m] \in S
  BY <1>7
<1>13. Append(f[k] \o r, ps[m]) = f[k] \o (r \o <<ps[m]>>)
  BY <1>0, <1>11, <1>12, AppendApartFrom
<1> QED BY <1>5, <1>8, <1>9, <1>10, <1>13 DEF r

\* What the page leaves of a sequence is what such a function has at its end.
LEMMA FilteredLeaves ==
  ASSUME NEW S, NEW ps \in Seq(S), NEW search
  PROVE  \E f : Leaves(ps, search, Len(ps), f) /\ History!Filtered(ps, search) = f[Len(ps)]
<1> DEFINE f == CHOOSE g : Leaves(ps, search, Len(ps), g)
<1>1. History!Filtered(ps, search) = f[Len(ps)]
  BY DEF History!Filtered, Leaves
<1>2. Leaves(ps, search, Len(ps), f)
  BY SomeLeaves
<1> HIDE DEF f
<1> QED BY <1>1, <1>2

\* It is a sequence of what is searched for, each of it an entry of the sequence.
LEMMA FilteredOf ==
  ASSUME NEW S, NEW ps \in Seq(S), NEW search
  PROVE  /\ History!Filtered(ps, search) \in Seq(S)
         /\ Chosen(History!Filtered(ps, search), ps, search, Len(ps))
<1>1. PICK f : Leaves(ps, search, Len(ps), f) /\ History!Filtered(ps, search) = f[Len(ps)]
  BY FilteredLeaves
<1>2. Len(ps) \in 0 .. Len(ps)
  OBVIOUS
<1> QED BY <1>1, <1>2, LeavesSequences, LeavesSome

\* All of it is left when all of it is searched for.
LEMMA FilteredAll ==
  ASSUME NEW S, NEW ps \in Seq(S), NEW search, \A i \in 1 .. Len(ps) : ps[i] \in search
  PROVE  History!Filtered(ps, search) = ps
<1>1. PICK f : Leaves(ps, search, Len(ps), f) /\ History!Filtered(ps, search) = f[Len(ps)]
  BY FilteredLeaves
<1>2. Len(ps) \in 0 .. Len(ps)
  OBVIOUS
<1>3. f[Len(ps)] = SubSeq(ps, 1, Len(ps))
  BY <1>1, <1>2, LeavesAll
<1> QED BY <1>1, <1>3, SubSeqFull

\* Digits before a separator, the separator, and digits after it are left when these are searched for.
LEMMA FilteredNumber ==
  ASSUME NEW S, NEW s \in Seq(S), NEW last \in 1 .. Len(s), NEW digits, s[last] \notin digits,
         NEW search, \A i \in 1 .. Len(s) : s[i] \in search <=> (s[i] \in digits \/ i = last),
         \A i \in last + 1 .. Len(s) : s[i] \in digits
  PROVE  History!Filtered(s, search)
         = History!Filtered(SubSeq(s, 1, last), digits) \o (<<s[last]>> \o SubSeq(s, last + 1, Len(s)))
<1> DEFINE n == Len(s)
           p == SubSeq(s, 1, last)
           rest == SubSeq(s, last + 1, n)
<1>1. n \in Nat /\ n \in 0 .. n /\ last \in 1 .. n /\ last - 1 \in 0 .. n /\ last \in 0 .. n
  OBVIOUS
<1>2. p \in Seq(S) /\ Len(p) = last /\ \A i \in 1 .. last : p[i] = s[i]
  <2>1. 1 \in Int /\ last \in Int /\ \A i \in 1 .. last : s[i] \in S
    OBVIOUS
  <2>2. /\ p \in Seq(S)
        /\ Len(p) = IF 1 <= last THEN last - 1 + 1 ELSE 0
        /\ \A i \in 1 .. last - 1 + 1 : p[i] = s[1 + i - 1]
    BY <2>1, SubSeqProperties
  <2> HIDE DEF p
  <2> QED BY <2>2
<1>3. rest \in Seq(S)
  <2>1. last + 1 \in Int /\ n \in Int /\ \A i \in last + 1 .. n : s[i] \in S
    OBVIOUS
  <2> QED BY <2>1, SubSeqProperties
<1>4. s[last] \in S
  OBVIOUS
<1>5. PICK f : Leaves(s, search, n, f) /\ History!Filtered(s, search) = f[n]
  BY FilteredLeaves
<1> HIDE DEF p, rest
<1>6. PICK g : Leaves(p, digits, last, g) /\ History!Filtered(p, digits) = g[last]
  BY <1>2, FilteredLeaves
<1> HIDE DEF n
<1>7. last - 1 \in 0 .. n /\ last - 1 <= last /\ last \in 0 .. Len(p) /\ n \in 0 .. Len(s) /\ last \in Nat
  BY <1>1, <1>2 DEF n
<1>8. \A i \in 1 .. last - 1 : s[i] = p[i] /\ (s[i] \in search <=> p[i] \in digits)
  <2> SUFFICES ASSUME NEW i \in 1 .. last - 1 PROVE s[i] = p[i] /\ (s[i] \in search <=> p[i] \in digits)
    OBVIOUS
  <2>1. i \in 1 .. Len(s) /\ i \in 1 .. last /\ i # last
    BY <1>1 DEF n
  <2> QED BY <1>2, <2>1
<1> DEFINE k == last - 1
<1>9. f[last - 1] = g[last - 1]
  <2>1. k \in 0 .. n /\ k <= last
    BY <1>7
  <2>2. Alike(s, search, p, digits, k)
    BY <1>8 DEF Alike
  <2> HIDE DEF k
  <2>4. n \in 0 .. Len(s) /\ last \in 0 .. Len(p) /\ p \in Seq(S) /\ Leaves(s, search, n, f) /\ Leaves(p, digits, last, g)
    BY <1>2, <1>5, <1>6, <1>7
  <2>3. f[k] = g[k]
    BY ONLY s \in Seq(S), <2>1, <2>2, <2>4, LeavesAgree
  <2> QED BY <2>3 DEF k
<1> HIDE DEF k
<1>10. f[last] = Append(f[last - 1], s[last])
  <2>1. f[last] = IF last = 0 THEN <<>> ELSE IF s[last] \in search THEN Append(f[last - 1], s[last]) ELSE f[last - 1]
    BY <1>1, <1>5 DEF Leaves
  <2> QED BY <1>1, <2>1
<1>11. g[last] = g[last - 1]
  <2>0. last \in 0 .. last
    BY <1>7
  <2>1. g[last] = IF last = 0 THEN <<>> ELSE IF p[last] \in digits THEN Append(g[last - 1], p[last]) ELSE g[last - 1]
    BY <1>6, <2>0 DEF Leaves
  <2>2. p[last] = s[last]
    BY <1>1, <1>2
  <2> QED BY <1>1, <2>1, <2>2
<1>12. f[n] = f[last] \o rest
  <2>1. \A i \in last + 1 .. n : s[i] \in search
    BY <1>1 DEF n
  <2>2. f[n] = f[last] \o SubSeq(s, last + 1, n)
    <3>1. n \in 0 .. Len(s) /\ last \in 0 .. n /\ Leaves(s, search, n, f)
      BY <1>1, <1>5, <1>7
    <3> QED BY ONLY s \in Seq(S), <3>1, <2>1, LeavesRest
  <2> QED BY <2>2 DEF rest
<1>13. f[last - 1] \in Seq(S)
  BY <1>1, <1>5, <1>7, LeavesSequences
<1>14. Append(f[last - 1], s[last]) \o rest = f[last - 1] \o (<<s[last]>> \o rest)
  <2> DEFINE e == f[last - 1]
             x == s[last]
  <2>1. e \in Seq(S) /\ x \in S /\ rest \in Seq(S)
    BY <1>3, <1>4, <1>13
  <2> HIDE DEF e, x
  <2>2. Append(e, x) \o rest = e \o (<<x>> \o rest)
    BY ONLY <2>1, AppendBetween
  <2> QED BY <2>2 DEF e, x
<1> QED BY <1>5, <1>6, <1>9, <1>10, <1>11, <1>12, <1>14 DEF n, p, rest

\* Something is left of a sequence when one of its entries is searched for.
LEMMA FilteredSome ==
  ASSUME NEW S, NEW ps \in Seq(S), NEW search, NEW d \in 1 .. Len(ps), ps[d] \in search
  PROVE  History!Filtered(ps, search) # <<>>
<1> DEFINE n == Len(ps)
<1>1. PICK f : Leaves(ps, search, n, f) /\ History!Filtered(ps, search) = f[n]
  BY FilteredLeaves
<1>2. n \in Nat /\ n \in 0 .. Len(ps) /\ n \in 0 .. n /\ n >= d /\ d \in 0 .. n /\ d # 0 /\ d \in Nat
  OBVIOUS
<1>3. ps[d] \in search /\ \A i \in 1 .. n : ps[i] \in S
  OBVIOUS
<1> HIDE DEF n
<1> DEFINE B == {i \in 0 .. n : i >= d /\ f[i] = <<>>}
<1>4. SUFFICES ASSUME B # {} PROVE FALSE
  <2>1. f[n] = <<>> => n \in B
    BY <1>2
  <2> QED BY <1>1, <2>1
<1>5. B \in SUBSET (0 .. n)
  OBVIOUS
<1> HIDE DEF B
<1>6. PICK m \in B : \A i \in 0 .. m - 1 : i \notin B
  BY <1>2, <1>4, <1>5, Least
<1>7. m \in 0 .. n /\ m >= d /\ f[m] = <<>>
  BY <1>6 DEF B
<1>8. m # 0 /\ m - 1 \in 0 .. n /\ m - 1 \in 0 .. m - 1 /\ m \in 1 .. n
  BY <1>2, <1>7
<1>9. f[m] = IF ps[m] \in search THEN Append(f[m - 1], ps[m]) ELSE f[m - 1]
  BY <1>1, <1>7, <1>8 DEF Leaves
<1>10. f[m - 1] \in Seq(S)
  BY <1>1, <1>2, <1>8, LeavesSequences
<1>11. Append(f[m - 1], ps[m]) # <<>>
  <2>1. ps[m] \in S
    BY <1>3, <1>8
  <2> DEFINE e == f[m - 1]
             p == ps[m]
  <2>2. e \in Seq(S) /\ p \in S
    BY <1>10, <2>1
  <2> HIDE DEF e, p
  <2>3. Append(e, p) # <<>>
    BY <2>2
  <2> QED BY <2>3 DEF e, p
<1>12. m # d
  BY <1>3, <1>7, <1>9, <1>11
<1>13. f[m - 1] = <<>>
  BY <1>7, <1>9, <1>11
<1>14. m - 1 >= d
  BY <1>2, <1>7, <1>8, <1>12
<1>15. m - 1 \in B
  BY <1>8, <1>13, <1>14 DEF B
<1> QED BY <1>6, <1>8, <1>15

\* What is written with a separator between two sequences.
LEMMA Spelled ==
  ASSUME NEW S, NEW D \in Seq(S), NEW F \in Seq(S), NEW c \in S, NEW x, x = D \o (<<c>> \o F)
  PROVE  /\ x \in Seq(S) /\ Len(x) = Len(D) + 1 + Len(F) /\ DOMAIN x = 1 .. Len(x)
         /\ x[Len(D) + 1] = c
         /\ \A i \in 1 .. Len(D) : x[i] = D[i]
         /\ \A i \in Len(D) + 2 .. Len(x) : x[i] = F[i - Len(D) - 1]
         /\ SubSeq(x, 1, Len(D)) = D
         /\ SubSeq(x, Len(D) + 1, Len(x)) = <<c>> \o F
<1> DEFINE t == <<c>> \o F
<1>1. <<c>> \in Seq(S) /\ Len(<<c>>) = 1 /\ <<c>>[1] = c
  OBVIOUS
<1>2. t \in Seq(S) /\ Len(t) = 1 + Len(F) /\ \A i \in 1 .. 1 + Len(F) : t[i] = IF i <= 1 THEN <<c>>[i] ELSE F[i - 1]
  BY <1>1, ConcatProperties
<1> HIDE DEF t
<1>3. x = D \o t
  BY DEF t
<1>4. x \in Seq(S) /\ Len(x) = Len(D) + Len(t) /\ \A i \in 1 .. Len(D) + Len(t) : x[i] = IF i <= Len(D) THEN D[i] ELSE t[i - Len(D)]
  BY <1>2, <1>3, ConcatProperties
<1>5. Len(D) \in Nat /\ Len(F) \in Nat /\ Len(x) \in Nat
  BY <1>4
<1>6. Len(x) = Len(D) + 1 + Len(F) /\ DOMAIN x = 1 .. Len(x)
  BY <1>2, <1>4, <1>5
<1>7. x[Len(D) + 1] = c
  <2>1. x[Len(D) + 1] = t[1]
    BY <1>2, <1>4, <1>5
  <2>2. t[1] = c
    BY <1>1, <1>2, <1>5
  <2> QED BY <2>1, <2>2
<1>8. \A i \in 1 .. Len(D) : x[i] = D[i]
  BY <1>2, <1>4, <1>5
<1>9. \A i \in Len(D) + 2 .. Len(x) : x[i] = F[i - Len(D) - 1]
  <2> SUFFICES ASSUME NEW i \in Len(D) + 2 .. Len(x) PROVE x[i] = F[i - Len(D) - 1]
    OBVIOUS
  <2>1. x[i] = t[i - Len(D)]
    BY <1>2, <1>4, <1>5, <1>6
  <2>2. i - Len(D) \in 1 .. 1 + Len(F) /\ ~ (i - Len(D) <= 1)
    BY <1>5, <1>6
  <2> QED BY <1>2, <2>1, <2>2
<1>10. SubSeq(x, 1, Len(D)) = D
  <2>1. CASE Len(D) = 0
    BY <2>1, SubSeqEmpty
  <2>2. CASE Len(D) # 0
    <3>1. 1 \in 1 .. Len(D) /\ Len(D) \in 1 .. Len(D)
      BY <1>5, <2>2
    <3>2. SubSeq(D \o t, 1, Len(D)) = SubSeq(D, 1, Len(D))
      BY <1>2, <3>1, SubSeqOfConcat1
    <3> QED BY <1>3, <3>2, SubSeqFull
  <2> QED BY <2>1, <2>2
<1>11. SubSeq(x, Len(D) + 1, Len(x)) = t
  <2> DEFINE a == Len(D) + 1
             b == Len(x)
  <2>1. a \in Len(D) + 1 .. Len(D) + Len(t) /\ b \in Len(D) + 1 .. Len(D) + Len(t) /\ a - Len(D) = 1 /\ b - Len(D) = Len(t)
    BY <1>2, <1>4, <1>5
  <2> HIDE DEF a, b
  <2>2. SubSeq(D \o t, a, b) = SubSeq(t, a - Len(D), b - Len(D))
    BY <1>2, <2>1, SubSeqOfConcat2
  <2>3. SubSeq(t, 1, Len(t)) = t
    BY <1>2, SubSeqFull
  <2>4. SubSeq(x, a, b) = t
    BY <1>3, <2>1, <2>2, <2>3
  <2> QED BY <2>4 DEF a, b
<1> QED BY <1>4, <1>6, <1>7, <1>8, <1>9, <1>10, <1>11 DEF t

\* No separator is a digit.
LEMMA NoDigits == "," \notin History!Digits /\ "." \notin History!Digits
BY DEF History!Digits

\* The leading digits end where something else comes.
LEMMA LeadingDigits ==
  ASSUME NEW S, NEW s \in Seq(S), NEW k \in 0 .. Len(s), \A i \in 1 .. k : s[i] \in History!Digits,
         k < Len(s) => s[k + 1] \notin History!Digits
  PROVE  History!Leading(s) = SubSeq(s, 1, k)
<1> DEFINE P(n) == (\A i \in 1 .. n : s[i] \in History!Digits) /\ (n < Len(s) => s[n + 1] \notin History!Digits)
           n0 == CHOOSE n \in 0 .. Len(s) : P(n)
<1>1. History!Leading(s) = SubSeq(s, 1, n0)
  BY DEF History!Leading
<1>2. P(k)
  OBVIOUS
<1>3. n0 \in 0 .. Len(s) /\ P(n0)
  BY <1>2
<1> HIDE DEF n0
<1>4. n0 = k
  <2>1. CASE n0 < k
    <3>1. n0 + 1 \in 1 .. k /\ n0 < Len(s)
      BY <1>3, <2>1
    <3> QED BY <1>3, <3>1
  <2>2. CASE k < n0
    <3>1. k + 1 \in 1 .. n0 /\ k < Len(s)
      BY <1>3, <2>2
    <3> QED BY <1>3, <3>1
  <2> QED BY <1>3, <2>1, <2>2
<1> QED BY <1>1, <1>4

\* A number with a point is read as what is written before and after it.
LEMMA ParsedNumber ==
  ASSUME NEW S, NEW D \in Seq(S), NEW F \in Seq(S), "." \in S,
         \A i \in 1 .. Len(D) : D[i] \in History!Digits, \A i \in 1 .. Len(F) : F[i] \in History!Digits
  PROVE  History!ParseFloat(D \o (<<".">> \o F)) = [int |-> D, frac |-> F]
<1> DEFINE x == D \o (<<".">> \o F)
           rest == <<".">> \o F
<1>1. /\ x \in Seq(S) /\ Len(x) = Len(D) + 1 + Len(F)
      /\ x[Len(D) + 1] = "."
      /\ \A i \in 1 .. Len(D) : x[i] = D[i]
      /\ SubSeq(x, 1, Len(D)) = D
      /\ SubSeq(x, Len(D) + 1, Len(x)) = rest
  <2> HIDE DEF x
  <2>1. x = D \o (<<".">> \o F)
    BY DEF x
  <2> QED BY <2>1, Spelled
<1> HIDE DEF x
<1>2. History!Leading(x) = D
  <2>0. Len(D) \in Nat /\ Len(F) \in Nat
    OBVIOUS
  <2>1. Len(D) \in 0 .. Len(x)
    BY <1>1, <2>0
  <2>2. \A i \in 1 .. Len(D) : x[i] \in History!Digits
    BY <1>1
  <2>3. x[Len(D) + 1] \notin History!Digits
    BY <1>1, NoDigits
  <2>4. History!Leading(x) = SubSeq(x, 1, Len(D))
    BY <1>1, <2>1, <2>2, <2>3, LeadingDigits
  <2> QED BY <1>1, <2>4
<1>3. rest # <<>> /\ Head(rest) = "." /\ Tail(rest) = F
  <2>1. <<".">> \in Seq(S)
    OBVIOUS
  <2>2. /\ rest \in Seq(S) /\ Len(rest) = 1 + Len(F)
        /\ \A i \in 1 .. 1 + Len(F) : rest[i] = IF i <= 1 THEN <<".">>[i] ELSE F[i - 1]
    BY <2>1, ConcatProperties
  <2> HIDE DEF rest
  <2>3. rest # <<>> /\ rest[1] = "."
    BY <2>2
  <2>4. Head(rest) = "."
    BY <2>2, <2>3
  <2>5. Tail(rest) \in Seq(S) /\ Len(Tail(rest)) = Len(F) /\ \A i \in 1 .. Len(Tail(rest)) : Tail(rest)[i] = rest[i + 1]
    BY <2>2, <2>3, HeadTailProperties
  <2>6. \A i \in 1 .. Len(Tail(rest)) : Tail(rest)[i] = F[i]
    BY <2>2, <2>5
  <2> HIDE <2>2
  <2>7. Tail(rest) = F
    BY <2>5, <2>6, SeqEqual
  <2> QED BY <2>3, <2>4, <2>7
<1> HIDE DEF rest
<1>4. History!Leading(F) = F
  <2>1. Len(F) \in 0 .. Len(F) /\ ~(Len(F) < Len(F))
    OBVIOUS
  <2>2. History!Leading(F) = SubSeq(F, 1, Len(F))
    BY <2>1, LeadingDigits
  <2> QED BY <2>2, SubSeqFull
<1>5. History!ParseFloat(x) = [int |-> D, frac |-> F]
  BY <1>1, <1>2, <1>3, <1>4 DEF History!ParseFloat
<1> QED BY <1>5 DEF x

\* Where one of its characters is for the first time.
LEMMA AtFirst ==
  ASSUME NEW S, NEW s \in Seq(S), NEW c, History!Has(s, c)
  PROVE  /\ History!At(s, c) \in 1 .. Len(s) /\ s[History!At(s, c)] = c
         /\ \A j \in 1 .. History!At(s, c) - 1 : s[j] # c
<1> DEFINE B == {i \in 1 .. Len(s) : s[i] = c}
           P(i) == s[i] = c /\ \A j \in 1 .. i - 1 : s[j] # c
<1>0. DOMAIN s = 1 .. Len(s) /\ Len(s) \in Nat
  OBVIOUS
<1>1. B # {} /\ B \in SUBSET (0 .. Len(s))
  BY <1>0 DEF History!Has
<1>2. PICK m \in B : \A k \in 0 .. m - 1 : k \notin B
  BY <1>0, <1>1, Least
<1>3. m \in DOMAIN s /\ P(m)
  <2>1. \A j \in 1 .. m - 1 : j \in 0 .. m - 1 /\ j \in 1 .. Len(s)
    BY <1>0, <1>2
  <2> QED BY <1>0, <1>2, <2>1
<1> HIDE DEF B
<1>4. History!At(s, c) = CHOOSE i \in DOMAIN s : P(i)
  BY DEF History!At
<1>5. History!At(s, c) \in DOMAIN s /\ P(History!At(s, c))
  BY <1>3, <1>4
<1> QED BY <1>0, <1>5

\* What cells are made of.
Chars == STRING \cup {",", "."}

\* Separators are among it.
LEMMA Separating == "," \in Chars /\ "." \in Chars
BY DEF Chars

\* The only comma of a number becomes its point.
LEMMA CommaReplaced ==
  ASSUME NEW D \in Seq(Chars), NEW F \in Seq(Chars),
         \A i \in 1 .. Len(D) : D[i] \in History!Digits, \A i \in 1 .. Len(F) : F[i] \in History!Digits
  PROVE  History!CommaToDot(D \o (<<",">> \o F)) = D \o (<<".">> \o F)
<1> DEFINE x == D \o (<<",">> \o F)
           y == D \o (<<".">> \o F)
           d == Len(D)
           k == Len(D) + 1
           l == Len(D) + 1 + Len(F)
<1>0. d \in Nat /\ k \in Nat /\ l \in Nat /\ k = d + 1 /\ k \in 1 .. l /\ Len(F) = l - k
  <2>1. Len(D) \in Nat /\ Len(F) \in Nat
    BY LenProperties
  <2> QED BY <2>1
<1>s. /\ x \in Seq(Chars) /\ Len(x) = Len(D) + 1 + Len(F) /\ DOMAIN x = 1 .. Len(x)
      /\ x[Len(D) + 1] = ","
      /\ \A i \in 1 .. Len(D) : x[i] = D[i]
      /\ \A i \in Len(D) + 2 .. Len(x) : x[i] = F[i - Len(D) - 1]
  <2> DEFINE c == ","
  <2>1. c \in Chars /\ x = D \o (<<c>> \o F)
    BY Separating
  <2> HIDE DEF c, x
  <2>2. /\ x \in Seq(Chars) /\ Len(x) = Len(D) + 1 + Len(F) /\ DOMAIN x = 1 .. Len(x)
        /\ x[Len(D) + 1] = c
        /\ \A i \in 1 .. Len(D) : x[i] = D[i]
        /\ \A i \in Len(D) + 2 .. Len(x) : x[i] = F[i - Len(D) - 1]
    BY ONLY D \in Seq(Chars), F \in Seq(Chars), <2>1, Spelled
  <2> QED BY <2>2 DEF c
<1>t. /\ y \in Seq(Chars) /\ Len(y) = Len(D) + 1 + Len(F) /\ DOMAIN y = 1 .. Len(y)
      /\ y[Len(D) + 1] = "."
      /\ \A i \in 1 .. Len(D) : y[i] = D[i]
      /\ \A i \in Len(D) + 2 .. Len(y) : y[i] = F[i - Len(D) - 1]
  <2> DEFINE c == "."
  <2>1. c \in Chars /\ y = D \o (<<c>> \o F)
    BY Separating
  <2> HIDE DEF c, y
  <2>2. /\ y \in Seq(Chars) /\ Len(y) = Len(D) + 1 + Len(F) /\ DOMAIN y = 1 .. Len(y)
        /\ y[Len(D) + 1] = c
        /\ \A i \in 1 .. Len(D) : y[i] = D[i]
        /\ \A i \in Len(D) + 2 .. Len(y) : y[i] = F[i - Len(D) - 1]
    BY ONLY D \in Seq(Chars), F \in Seq(Chars), <2>1, Spelled
  <2> QED BY <2>2 DEF c
<1> HIDE DEF x, y
<1>1. x \in Seq(Chars) /\ Len(x) = l /\ DOMAIN x = 1 .. l
  BY <1>s
<1>2. x[k] = ","
  BY <1>s
<1>3. (\A i \in 1 .. Len(D) : x[i] = D[i]) /\ \A i \in Len(D) + 2 .. Len(x) : x[i] = F[i - Len(D) - 1]
  BY <1>s
<1>4. y \in Seq(Chars) /\ Len(y) = l /\ DOMAIN y = 1 .. l
  BY <1>t
<1>5. y[k] = "."
  BY <1>t
<1>6. (\A i \in 1 .. Len(D) : y[i] = D[i]) /\ \A i \in Len(D) + 2 .. Len(y) : y[i] = F[i - Len(D) - 1]
  BY <1>t
<1>7. \A i \in 1 .. l : i # k => x[i] = y[i] /\ x[i] \in History!Digits
  <2> SUFFICES ASSUME NEW i \in 1 .. l, i # k PROVE x[i] = y[i] /\ x[i] \in History!Digits
    OBVIOUS
  <2>1. CASE i <= d
    <3>1. i \in 1 .. Len(D)
      BY <1>0, <2>1
    <3> QED BY <1>3, <1>6, <3>1
  <2>2. CASE ~ (i <= d)
    <3>1. i \in Len(D) + 2 .. Len(x) /\ i \in Len(D) + 2 .. Len(y) /\ i - Len(D) - 1 \in 1 .. Len(F)
      BY <1>0, <1>1, <1>4, <2>2
    <3> QED BY <1>3, <1>6, <3>1
  <2> QED BY <2>1, <2>2
<1> HIDE DEF k, l, d
<1>8. History!Has(x, ",")
  BY <1>0, <1>1, <1>2 DEF History!Has
<1>9. History!At(x, ",") = k
  <2> DEFINE a == History!At(x, ",")
  <2>1. a \in 1 .. l /\ x[a] = ","
    BY <1>1, <1>8, AtFirst
  <2> HIDE DEF a
  <2>2. a = k
    BY <1>7, <2>1, NoDigits
  <2> QED BY <2>2 DEF a
<1>10. History!CommaToDot(x) = [x EXCEPT ![k] = "."]
  BY <1>8, <1>9 DEF History!CommaToDot
<1> DEFINE z == [x EXCEPT ![k] = "."]
<1>11. z \in Seq(Chars) /\ Len(z) = l /\ \A j \in 1 .. l : z[j] = IF j = k THEN "." ELSE x[j]
  <2>1. "." \in Chars /\ k \in 1 .. Len(x)
    BY <1>0, <1>1, Separating
  <2> QED BY <1>1, <2>1, ExceptSeq
<1> HIDE DEF z
<1>12. z = y
  <2>1. Len(z) = Len(y) /\ Len(z) = l
    BY <1>4, <1>11
  <2>2. \A j \in 1 .. l : z[j] = y[j]
    BY <1>5, <1>7, <1>11
  <2> QED BY <1>4, <1>11, <2>1, <2>2, SeqEqual
<1>13. History!CommaToDot(x) = y
  BY <1>10, <1>12 DEF z
<1> QED BY <1>13 DEF x, y

\* What is neither at a place nor behind it is before it.
LEMMA Earlier == ASSUME NEW n \in Nat, NEW a \in 1 .. n, NEW b \in 1 .. n, a # b, a \notin b + 1 .. n PROVE a < b
OBVIOUS

\* What is before another is not behind it.
LEMMA NotLater == ASSUME NEW n \in Nat, NEW a \in 1 .. n, NEW b, NEW l \in 1 .. n, b = l, a < l PROVE ~ (a > b)
OBVIOUS

\* What is left of a number's digits, up to and after its last separator, are digits.
LEMMA DigitsLeft ==
  ASSUME NEW S, NEW s \in Seq(S), NEW last \in 1 .. Len(s), \A i \in last + 1 .. Len(s) : s[i] \in History!Digits,
         NEW D, D = History!Filtered(SubSeq(s, 1, last), History!Digits), NEW F, F = SubSeq(s, last + 1, Len(s))
  PROVE  /\ D \in Seq(S) /\ F \in Seq(S)
         /\ \A i \in 1 .. Len(D) : D[i] \in History!Digits
         /\ \A i \in 1 .. Len(F) : F[i] \in History!Digits
<1>1. \A i \in 1 .. Len(s) : s[i] \in S
  OBVIOUS
<1>2. SubSeq(s, 1, last) \in Seq(S)
  <2>1. 1 \in Int /\ last \in Int /\ \A i \in 1 .. last : s[i] \in S
    OBVIOUS
  <2> QED BY <2>1, SubSeqProperties
<1>3. D \in Seq(S) /\ Chosen(D, SubSeq(s, 1, last), History!Digits, Len(SubSeq(s, 1, last)))
  BY <1>2, FilteredOf
<1>4. \A i \in 1 .. Len(D) : D[i] \in History!Digits
  <2>1. DOMAIN D = 1 .. Len(D)
    BY <1>3
  <2> QED BY <1>3, <2>1 DEF Chosen
<1>5. /\ F \in Seq(S)
      /\ Len(F) = IF last + 1 <= Len(s) THEN Len(s) - (last + 1) + 1 ELSE 0
      /\ \A i \in 1 .. Len(s) - (last + 1) + 1 : F[i] = s[last + 1 + i - 1]
  <2>1. last + 1 \in Int /\ Len(s) \in Int /\ \A i \in last + 1 .. Len(s) : s[i] \in S
    OBVIOUS
  <2> QED BY <2>1, SubSeqProperties
<1>6. \A i \in 1 .. Len(F) : F[i] \in History!Digits
  <2> SUFFICES ASSUME NEW i \in 1 .. Len(F) PROVE F[i] \in History!Digits
    OBVIOUS
  <2>1. i \in 1 .. Len(s) - (last + 1) + 1 /\ last + 1 + i - 1 \in last + 1 .. Len(s)
    BY <1>5
  <2> QED BY <1>5, <2>1
<1> QED BY <1>3, <1>4, <1>5, <1>6

\* Digits and separators, of which the last is of another kind than the others.
Numeral(s, last) ==
  /\ last \in 1 .. Len(s) /\ s[last] \in {",", "."}
  /\ \A i \in 1 .. Len(s) : s[i] \in History!Digits \/ s[i] \in {",", "."}
  /\ \A i \in last + 1 .. Len(s) : s[i] \in History!Digits
  /\ \A i \in 1 .. Len(s) : i # last => s[i] # s[last]

\* Such a number keeps its digits and its last separator.
LEMMA NumeralLeft ==
  ASSUME NEW S, NEW s \in Seq(S), NEW last, Numeral(s, last),
         NEW search, \A i \in 1 .. Len(s) : s[i] \in search <=> (s[i] \in History!Digits \/ i = last)
  PROVE  History!Filtered(s, search)
         = History!Filtered(SubSeq(s, 1, last), History!Digits) \o (<<s[last]>> \o SubSeq(s, last + 1, Len(s)))
<1>1. last \in 1 .. Len(s) /\ s[last] \notin History!Digits
  BY NoDigits DEF Numeral
<1>2. \A i \in last + 1 .. Len(s) : s[i] \in History!Digits
  BY DEF Numeral
<1> QED BY <1>1, <1>2, FilteredNumber

\* Which of the entries are left without one kind of separators.
LEMMA NumeralWithout ==
  ASSUME NEW S, NEW s \in Seq(S), NEW last, Numeral(s, last), NEW c \in {",", "."}, c # s[last]
  PROVE  History!Without(s, c)
         = History!Filtered(SubSeq(s, 1, last), History!Digits) \o (<<s[last]>> \o SubSeq(s, last + 1, Len(s)))
<1> DEFINE search == History!Range(s) \ {c}
<1>1. \A i \in 1 .. Len(s) : s[i] \in search <=> (s[i] \in History!Digits \/ i = last)
  <2> SUFFICES ASSUME NEW i \in 1 .. Len(s) PROVE s[i] \in search <=> (s[i] \in History!Digits \/ i = last)
    OBVIOUS
  <2>1. s[i] \in History!Range(s)
    <3>1. i \in DOMAIN s
      <4>1. DOMAIN s = 1 .. Len(s)
        BY LenProperties
      <4> QED BY <4>1
    <3> QED BY <3>1 DEF History!Range
  <2>2. CASE i = last
    BY <2>1, <2>2
  <2>3. CASE i # last
    <3>1. s[i] # s[last] /\ (s[i] \in History!Digits \/ s[i] \in {",", "."}) /\ s[last] \in {",", "."}
      BY <2>3 DEF Numeral
    <3>2. s[i] # c <=> s[i] \in History!Digits
      BY <3>1, NoDigits
    <3> QED BY <2>1, <2>3, <3>2
  <2> QED BY <2>2, <2>3
<1>2. History!Without(s, c) = History!Filtered(s, search)
  BY DEF History!Without
<1> HIDE DEF search
<1> QED BY <1>1, <1>2, NumeralLeft

\* A number of one kind of separators is what is left of it.
LEMMA NumeralWhole ==
  ASSUME NEW S, NEW s \in Seq(S), NEW last, Numeral(s, last),
         NEW c \in {",", "."}, c # s[last], ~History!Has(s, c)
  PROVE  s = History!Filtered(SubSeq(s, 1, last), History!Digits) \o (<<s[last]>> \o SubSeq(s, last + 1, Len(s)))
<1> DEFINE search == History!Range(s) \ {c}
<1>1. \A i \in 1 .. Len(s) : s[i] \in search
  <2> SUFFICES ASSUME NEW i \in 1 .. Len(s) PROVE s[i] \in search
    OBVIOUS
  <2>1. i \in DOMAIN s
    <3>1. DOMAIN s = 1 .. Len(s)
      BY LenProperties
    <3> QED BY <3>1
  <2>2. s[i] \in History!Range(s) /\ s[i] # c
    BY <2>1 DEF History!Range, History!Has
  <2> QED BY <2>2
<1>2. History!Without(s, c) = History!Filtered(s, search)
  BY DEF History!Without
<1> HIDE DEF search
<1>3. History!Filtered(s, search) = s
  BY <1>1, FilteredAll
<1> QED BY <1>2, <1>3, NumeralWithout

\* What is written before a point and after it.
Pointed(D, F) == D \o (<<".">> \o F)

\* Its last separator becomes its point.
LEMMA NormalizedNumber ==
  ASSUME NEW s \in Seq(Chars), NEW last, Numeral(s, last),
         NEW D, D = History!Filtered(SubSeq(s, 1, last), History!Digits), NEW F, F = SubSeq(s, last + 1, Len(s))
  PROVE  History!Normalized(s) = Pointed(D, F)
<1>0. Pointed(D, F) = D \o (<<".">> \o F)
  BY DEF Pointed
<1>1. /\ last \in 1 .. Len(s) /\ s[last] \in {",", "."}
      /\ \A i \in last + 1 .. Len(s) : s[i] \in History!Digits
      /\ \A i \in 1 .. Len(s) : i # last => s[i] # s[last]
  BY DEF Numeral
<1>2. /\ D \in Seq(Chars) /\ F \in Seq(Chars)
      /\ \A i \in 1 .. Len(D) : D[i] \in History!Digits
      /\ \A i \in 1 .. Len(F) : F[i] \in History!Digits
  BY <1>1, DigitsLeft
<1>3. DOMAIN s = 1 .. Len(s) /\ Len(s) \in Nat
  OBVIOUS
<1>4. History!Has(s, s[last])
  BY <1>1, <1>3 DEF History!Has
<1>5. History!At(s, s[last]) = last
  <2> DEFINE a == History!At(s, s[last])
  <2>1. a \in 1 .. Len(s) /\ s[a] = s[last]
    BY <1>4, AtFirst
  <2> HIDE DEF a
  <2>2. a = last
    BY <1>1, <2>1
  <2> QED BY <2>2 DEF a
<1>6. \A c \in {",", "."} : c # s[last] /\ History!Has(s, c) => History!At(s, c) < last
  <2> SUFFICES ASSUME NEW c \in {",", "."}, c # s[last], History!Has(s, c) PROVE History!At(s, c) < last
    OBVIOUS
  <2> DEFINE a == History!At(s, c)
  <2>1. a \in 1 .. Len(s) /\ s[a] = c
    BY AtFirst
  <2> HIDE DEF a
  <2>2. a # last /\ s[a] \notin History!Digits
    BY <2>1, NoDigits
  <2>3. ~ (a \in last + 1 .. Len(s))
    BY <1>1, <2>2
  <2>4. a < last
    <3>1. last \in 1 .. Len(s)
      BY <1>1
    <3>2. a \in 1 .. Len(s)
      BY <2>1
    <3>3. a # last
      BY <2>2
    <3> QED BY <1>3, <2>3, <3>1, <3>2, <3>3, Earlier
  <2> QED BY <2>4 DEF a
<1>7. CASE s[last] = "."
  <2>1. CASE ~History!Has(s, ",")
    <3>1. "," \in {",", "."} /\ "," # s[last]
      BY <1>7
    <3>2. s = D \o (<<".">> \o F)
      BY <1>7, <2>1, <3>1, NumeralWhole
    <3>3. History!Normalized(s) = s
      BY <2>1 DEF History!Normalized
    <3> QED BY <1>0, <3>2, <3>3
  <2>2. CASE History!Has(s, ",")
    <3>1. "," \in {",", "."} /\ "," # s[last]
      BY <1>7
    <3>2. History!Without(s, ",") = D \o (<<".">> \o F)
      BY <1>7, <3>1, NumeralWithout
    <3>3. History!Has(s, ".") /\ ~ (History!At(s, ",") > History!At(s, "."))
      <4>1. History!At(s, ",") < last /\ History!At(s, ".") = last
        BY <1>5, <1>6, <1>7, <2>2, <3>1
      <4>2. History!At(s, ",") \in 1 .. Len(s)
        BY <2>2, AtFirst
      <4>3. History!Has(s, ".")
        BY <1>4, <1>7
      <4>4. last \in 1 .. Len(s)
        BY <1>1
      <4>5. ~ (History!At(s, ",") > History!At(s, "."))
        BY <1>3, <4>1, <4>2, <4>4, NotLater
      <4> QED BY <4>3, <4>5
    <3>4. History!Normalized(s) = History!Without(s, ",")
      BY <2>2, <3>3 DEF History!Normalized
    <3> QED BY <1>0, <3>2, <3>4
  <2> QED BY <2>1, <2>2
<1>8. CASE s[last] = ","
  <2>1. History!Has(s, ",")
    BY <1>4, <1>8
  <2>2. "." \in {",", "."} /\ "." # s[last]
    BY <1>8
  <2>3. History!CommaToDot(D \o (<<",">> \o F)) = D \o (<<".">> \o F)
    BY <1>2, CommaReplaced
  <2>4. CASE ~History!Has(s, ".")
    <3>1. s = D \o (<<",">> \o F)
      BY <1>8, <2>2, <2>4, NumeralWhole
    <3>2. History!Normalized(s) = History!CommaToDot(s)
      BY <2>1, <2>4 DEF History!Normalized
    <3> QED BY <1>0, <2>3, <3>1, <3>2
  <2>5. CASE History!Has(s, ".")
    <3>1. History!Without(s, ".") = D \o (<<",">> \o F)
      BY <1>8, <2>2, NumeralWithout
    <3>2. History!At(s, ",") > History!At(s, ".")
      <4>1. History!At(s, ".") < last /\ History!At(s, ",") = last
        BY <1>5, <1>6, <1>8, <2>2, <2>5
      <4>2. History!At(s, ".") \in 1 .. Len(s)
        BY <2>5, AtFirst
      <4> QED BY <1>1, <1>3, <4>1, <4>2
    <3>3. History!Normalized(s) = History!CommaToDot(History!Without(s, "."))
      BY <2>1, <2>5, <3>2 DEF History!Normalized
    <3> QED BY <1>0, <2>3, <3>1, <3>3
  <2> QED BY <2>4, <2>5
<1> QED BY <1>0, <1>1, <1>7, <1>8

\* It is read with its last separator as the decimal one.
LEMMA NumeralRead ==
  ASSUME NEW s \in Seq(Chars), NEW last, Numeral(s, last), NEW d \in 1 .. Len(s), s[d] \in History!Digits
  PROVE  /\ History!IsNumber(History!Normalized(s))
         /\ History!ParseFloat(History!Normalized(s))
            = [int |-> History!Filtered(SubSeq(s, 1, last), History!Digits), frac |-> SubSeq(s, last + 1, Len(s))]
<1> DEFINE D == History!Filtered(SubSeq(s, 1, last), History!Digits)
           F == SubSeq(s, last + 1, Len(s))
           p == SubSeq(s, 1, last)
<1>1. last \in 1 .. Len(s) /\ \A i \in last + 1 .. Len(s) : s[i] \in History!Digits
  BY DEF Numeral
<1>2. s[last] \notin History!Digits
  BY NoDigits DEF Numeral
<1>3. /\ D \in Seq(Chars) /\ F \in Seq(Chars)
      /\ \A i \in 1 .. Len(D) : D[i] \in History!Digits
      /\ \A i \in 1 .. Len(F) : F[i] \in History!Digits
  BY <1>1, DigitsLeft
<1>4. History!Normalized(s) = D \o (<<".">> \o F)
  <2>1. History!Normalized(s) = Pointed(D, F)
    BY NormalizedNumber
  <2> QED BY <2>1 DEF Pointed
<1>5. D # <<>> \/ F # <<>>
  <2>1. d # last /\ last \in Int /\ d \in Int
    BY <1>1, <1>2
  <2>2. CASE d < last
    <3>1. 1 \in Int /\ last \in Int /\ \A i \in 1 .. last : s[i] \in Chars
      BY <1>1
    <3>2. /\ p \in Seq(Chars)
          /\ Len(p) = IF 1 <= last THEN last - 1 + 1 ELSE 0
          /\ \A i \in 1 .. last - 1 + 1 : p[i] = s[1 + i - 1]
      BY <3>1, SubSeqProperties
    <3> HIDE DEF p
    <3>3. d \in 1 .. last - 1 + 1 /\ 1 + d - 1 = d /\ d \in 1 .. Len(p)
      BY <1>1, <2>2, <3>2
    <3>4. p[d] \in History!Digits
      BY <3>2, <3>3
    <3>5. History!Filtered(p, History!Digits) # <<>>
      BY <3>2, <3>3, <3>4, FilteredSome
    <3> QED BY <3>5 DEF p
  <2>3. CASE d > last
    <3>1. last + 1 \in Int /\ Len(s) \in Int /\ \A i \in last + 1 .. Len(s) : s[i] \in Chars
      BY <1>1
    <3>2. Len(F) = IF last + 1 <= Len(s) THEN Len(s) - (last + 1) + 1 ELSE 0
      BY <3>1, SubSeqProperties
    <3> HIDE DEF F
    <3>3. Len(F) > 0
      BY <1>1, <2>3, <3>2
    <3> QED BY <3>3
  <2> QED BY <2>1, <2>2, <2>3
<1> HIDE DEF D, F
<1>6. History!ParseFloat(D \o (<<".">> \o F)) = [int |-> D, frac |-> F]
  BY <1>3, Separating, ParsedNumber
<1>7. [int |-> D, frac |-> F] # [int |-> <<>>, frac |-> <<>>]
  BY <1>5
<1>8. History!IsNumber(History!Normalized(s))
  BY <1>4, <1>6, <1>7 DEF History!IsNumber
<1> QED BY <1>4, <1>6, <1>8 DEF D, F

\* Rows of cells are left, each of the file.
LEMMA RowsRead ==
  ASSUME NEW S, NEW ps \in Seq(S), NEW search, NEW read, read = History!Filtered(ps, search)
  PROVE  read \in Seq(S) /\ DOMAIN read = 1 .. Len(read) /\ \A j \in DOMAIN read : read[j] \in search
<1>1. read \in Seq(S) /\ Chosen(read, ps, search, Len(ps))
  BY FilteredOf
<1>2. \A j \in DOMAIN read : read[j] \in search
  BY <1>1 DEF Chosen
<1>3. DOMAIN read = 1 .. Len(read)
  BY <1>1
<1> QED BY <1>1, <1>2, <1>3

\* What cells are made of is no less than what strings are made of.
LEMMA CellsOfChars == ASSUME NEW s \in Seq(STRING) PROVE s \in Seq(Chars)
<1>1. STRING \subseteq Chars
  BY DEF Chars
<1> QED BY <1>1, SeqMonotonic

\* What is parsed of a file.
LEMMA ParsedPoints ==
  ASSUME NEW f \in Files, Rows[f] # <<>>, NEW h \in BOOLEAN, NEW tc \in 1 .. 2, NEW vc \in 1 .. 2,
         NEW ps, ps = History!Parsed(f, h, tc, vc)
  PROVE  /\ \E n \in Nat : DOMAIN ps = 1 .. n /\ ps = [i \in 1 .. n |-> ps[i]]
         /\ \A i \in DOMAIN ps :
                /\ ps[i].from = f /\ ps[i].ts \in InsertTimes /\ ps[i].text \in Seq(Chars)
                /\ ps[i].value = IF History!IsNumber(History!Normalized(ps[i].text))
                                 THEN History!ParseFloat(History!Normalized(ps[i].text)) ELSE ps[i].text
<1> DEFINE Point(r) == [from |-> f, ts |-> r[tc][1], text |-> r[vc],
                        value |-> IF History!IsNumber(History!Normalized(r[vc]))
                                  THEN History!ParseFloat(History!Normalized(r[vc])) ELSE r[vc]]
           data == IF h THEN Tail(Rows[f]) ELSE Rows[f]
           search == {r \in History!Range(data) : Len(r) >= tc /\ Len(r) >= vc /\ r[tc][1] \in InsertTimes}
           read == History!Filtered(data, search)
           R == Seq(Seq(STRING))
<1>1. data \in Seq(R)
  <2>1. Rows[f] \in Seq(R)
    BY PagesAssumption
  <2>2. Tail(Rows[f]) \in Seq(R)
    <3> HIDE DEF R
    <3> QED BY <2>1, HeadTailProperties
  <2> QED BY <2>1, <2>2
<1>2. ps = [i \in DOMAIN read |-> Point(read[i])]
  BY DEF History!Parsed
<1> HIDE DEF data
<1>3. read \in Seq(R) /\ DOMAIN read = 1 .. Len(read) /\ \A j \in DOMAIN read : read[j] \in search
  <2>1. read = History!Filtered(data, search)
    OBVIOUS
  <2> HIDE DEF read, search, R
  <2> QED BY <1>1, <2>1, RowsRead
<1>4. Len(read) \in Nat
  BY <1>3, LenProperties
<1> HIDE DEF read
<1>5. DOMAIN ps = 1 .. Len(read) /\ ps = [i \in 1 .. Len(read) |-> ps[i]]
  BY <1>2, <1>3
<1>6. ASSUME NEW i \in DOMAIN ps
      PROVE  /\ ps[i].from = f /\ ps[i].ts \in InsertTimes /\ ps[i].text \in Seq(Chars)
             /\ ps[i].value = IF History!IsNumber(History!Normalized(ps[i].text))
                              THEN History!ParseFloat(History!Normalized(ps[i].text)) ELSE ps[i].text
  <2> DEFINE r == read[i]
  <2>1. i \in DOMAIN read /\ i \in 1 .. Len(read) /\ ps[i] = Point(r)
    BY <1>2, <1>3
  <2>2. r \in Seq(Seq(STRING))
    BY <1>3, <2>1
  <2>3. Len(r) >= vc /\ r[tc][1] \in InsertTimes
    BY <1>3, <2>1
  <2> HIDE DEF r
  <2>4. vc \in 1 .. Len(r)
    BY <2>2, <2>3
  <2>5. r[vc] \in Seq(STRING)
    BY <2>2, <2>4
  <2>6. r[vc] \in Seq(Chars)
    BY <2>5, CellsOfChars
  <2>7. ps[i].text = r[vc] /\ ps[i].from = f /\ ps[i].ts = r[tc][1]
    BY <2>1
  <2>8. ps[i].value = IF History!IsNumber(History!Normalized(r[vc])) THEN History!ParseFloat(History!Normalized(r[vc])) ELSE r[vc]
    BY <2>1
  <2> QED BY <2>3, <2>6, <2>7, <2>8
<1> QED BY <1>4, <1>5, <1>6

\* A number has a last separator.
LEMMA LastSeparator ==
  ASSUME NEW s \in Seq(Chars), NEW M \in SUBSET (1 .. Len(s)), M # {}
  PROVE  \E i \in M : \A j \in M : j <= i
<1> DEFINE B == {k \in 0 .. Len(s) : Len(s) - k \in M}
<1>0. Len(s) \in Nat
  BY LenProperties
<1> DEFINE n == Len(s)
<1>1. n \in Nat /\ M \in SUBSET (1 .. n)
  BY <1>0
<1> HIDE DEF n
<1>2. \A i \in M : n - i \in 0 .. n /\ n - (n - i) = i
  BY <1>1
<1>3. B # {} /\ B \in SUBSET (0 .. n)
  BY <1>2 DEF n
<1>4. PICK m \in B : \A k \in 0 .. m - 1 : k \notin B
  BY <1>1, <1>3, Least
<1>5. m \in 0 .. n /\ n - m \in M
  BY <1>4 DEF n
<1>6. ASSUME NEW j \in M PROVE j <= n - m
  <2>1. n - j \in B
    BY <1>2 DEF n
  <2>2. n - j \notin 0 .. m - 1
    BY <1>4, <2>1
  <2>3. n - j \in 0 .. n /\ j \in 1 .. n
    BY <1>1, <1>2
  <2> QED BY <1>1, <1>5, <2>2, <2>3
<1> QED BY <1>5, <1>6

\* What is parsed of a file is read as it is written.
LEMMA ReadsAsWritten ==
  ASSUME NEW s \in Seq(Chars), NEW value, NEW last,
         value = IF History!IsNumber(History!Normalized(s)) THEN History!ParseFloat(History!Normalized(s)) ELSE s,
         last = CHOOSE i \in History!Separators(s) : \A j \in History!Separators(s) : j <= i,
         \A i \in DOMAIN s : s[i] \in History!Digits \/ i \in History!Separators(s),
         History!Separators(s) # {}, History!Separators(s) # DOMAIN s,
         \A i \in History!Separators(s) \ {last} : s[i] # s[last]
  PROVE  value = [int |-> History!Filtered(SubSeq(s, 1, last), History!Digits), frac |-> SubSeq(s, last + 1, Len(s))]
<1> DEFINE M == History!Separators(s)
<1>1. DOMAIN s = 1 .. Len(s) /\ Len(s) \in Nat
  BY LenProperties
<1>2. M = {i \in 1 .. Len(s) : s[i] \in {",", "."}}
  BY <1>1 DEF History!Separators
<1>3. M \in SUBSET (1 .. Len(s)) /\ M # {}
  BY <1>2
<1> HIDE DEF M
<1> DEFINE Sep == {",", "."}
<1>11. \A i \in M : i \in 1 .. Len(s) /\ s[i] \in Sep
  <2> HIDE DEF Sep
  <2>1. M = {i \in 1 .. Len(s) : s[i] \in Sep}
    BY <1>2 DEF Sep
  <2> QED BY <2>1
<1>4. last \in M /\ \A j \in M : j <= last
  <2>1. \E i \in M : \A j \in M : j <= i
    BY <1>3, LastSeparator
  <2>2. last = CHOOSE i \in M : \A j \in M : j <= i
    BY DEF M
  <2> QED BY <2>1, <2>2
<1>5. \A i \in 1 .. Len(s) : s[i] \in History!Digits \/ i \in M
  BY <1>1 DEF M
<1>6. \A i \in M \ {last} : s[i] # s[last]
  BY DEF M
<1>7. \A i \in last + 1 .. Len(s) : s[i] \in History!Digits
  <2> SUFFICES ASSUME NEW i \in last + 1 .. Len(s) PROVE s[i] \in History!Digits
    OBVIOUS
  <2>1. last \in 1 .. Len(s)
    BY <1>3, <1>4
  <2>2. i \in 1 .. Len(s) /\ ~ (i <= last)
    BY <1>1, <2>1
  <2>3. i \notin M
    BY <1>4, <2>2
  <2> QED BY <1>5, <2>2, <2>3
<1>8. \A i \in 1 .. Len(s) : i # last => s[i] # s[last]
  <2> SUFFICES ASSUME NEW i \in 1 .. Len(s), i # last PROVE s[i] # s[last]
    OBVIOUS
  <2>1. CASE i \in M
    BY <1>6, <2>1
  <2>2. CASE i \notin M
    <3>1. s[i] \in History!Digits
      BY <1>5, <2>2
    <3>2. s[last] \in {",", "."}
      BY <1>4, <1>11
    <3> QED BY <3>1, <3>2, NoDigits
  <2> QED BY <2>1, <2>2
<1>9. Numeral(s, last)
  <2>1. last \in 1 .. Len(s) /\ s[last] \in {",", "."}
    BY <1>4, <1>11
  <2>2. \A i \in 1 .. Len(s) : s[i] \in History!Digits \/ s[i] \in {",", "."}
    BY <1>2, <1>5
  <2> QED BY <1>7, <1>8, <2>1, <2>2 DEF Numeral
<1>10. PICK d \in 1 .. Len(s) : s[d] \in History!Digits
  <2>1. M # 1 .. Len(s)
    BY <1>1 DEF M
  <2>2. PICK d \in 1 .. Len(s) : d \notin M
    BY <1>3, <2>1
  <2> QED BY <1>5, <2>2
<1> QED BY <1>9, <1>10, NumeralRead

(***************************************************************************)
(* Historical data: imports stay apart                                     *)
(***************************************************************************)

\* f has what a key's points are after the first points of some are stored, for as many as n.
Storing(h, points, n, f) ==
  f = [i \in 0 .. n |-> IF i = 0 THEN h
                        ELSE [f[i - 1] EXCEPT ![points[i].ts] = [from |-> points[i].from, value |-> points[i].value]]]

\* There is such a function for all points.
LEMMA SomeStoring == ASSUME NEW h, NEW points, NEW n \in Nat PROVE \E f : Storing(h, points, n, f)
<1> DEFINE B == {k \in 0 .. n : ~\E f : Storing(h, points, k, f)}
<1>o. n \in 0 .. n
  OBVIOUS
<1>1. SUFFICES ASSUME B # {} PROVE FALSE
  BY <1>o
<1>2. B \in SUBSET (0 .. n)
  OBVIOUS
<1> HIDE DEF B
<1>3. PICK m \in B : \A k \in 0 .. m - 1 : k \notin B
  BY <1>1, <1>2, Least
<1>4. m \in 0 .. n /\ ~\E f : Storing(h, points, m, f)
  BY <1>3 DEF B
<1>5. CASE m = 0
  <2>1. Storing(h, points, 0, [i \in 0 .. 0 |-> h])
    BY DEF Storing
  <2> QED BY <1>4, <1>5, <2>1
<1>6. CASE m # 0
  <2>1. m - 1 \in 0 .. m - 1 /\ m - 1 \in 0 .. n
    BY <1>4, <1>6
  <2>2. PICK f : Storing(h, points, m - 1, f)
    BY <1>3, <2>1 DEF B
  <2> DEFINE Next(e, i) == [e EXCEPT ![points[i].ts] = [from |-> points[i].from, value |-> points[i].value]]
             g == [i \in 0 .. m |-> IF i = m THEN Next(f[m - 1], m) ELSE f[i]]
  <2>4. \A i \in 0 .. m - 1 : f[i] = IF i = 0 THEN h ELSE Next(f[i - 1], i)
    BY <2>2 DEF Storing
  <2> HIDE DEF Next
  <2>3. \A i \in 0 .. m - 1 : g[i] = f[i]
    BY <1>4
  <2>5. \A i \in 0 .. m : g[i] = IF i = 0 THEN h ELSE Next(g[i - 1], i)
    <3> SUFFICES ASSUME NEW i \in 0 .. m PROVE g[i] = IF i = 0 THEN h ELSE Next(g[i - 1], i)
      OBVIOUS
    <3>1. CASE i = m
      <4>1. g[m] = Next(f[m - 1], m) /\ g[m - 1] = f[m - 1]
        BY <1>4, <2>1, <2>3
      <4> HIDE DEF g
      <4> QED BY <1>6, <3>1, <4>1
    <3>2. CASE i # m
      <4>1. i \in 0 .. m - 1 /\ (i # 0 => i - 1 \in 0 .. m - 1)
        BY <1>4, <3>2
      <4> HIDE DEF g
      <4> QED BY <2>3, <2>4, <4>1
    <3> QED BY <3>1, <3>2
  <2>6. g = [i \in 0 .. m |-> g[i]]
    OBVIOUS
  <2> HIDE DEF g
  <2>7. g = [i \in 0 .. m |-> IF i = 0 THEN h ELSE Next(g[i - 1], i)]
    BY <2>5, <2>6
  <2>8. Storing(h, points, m, g)
    BY <2>7 DEF Storing, Next
  <2> QED BY <1>4, <2>8
<1> QED BY <1>5, <1>6

\* An entry is the old one or one of some points.
Blended(e, h, points) ==
  /\ DOMAIN e = DOMAIN h
  /\ \A t \in DOMAIN h : e[t] = h[t] \/ \E i \in DOMAIN points : e[t] = [from |-> points[i].from, value |-> points[i].value]

\* What a key's points are after some are stored: each what it was, or one of them.
LEMMA StoredPoints ==
  ASSUME NEW S, NEW points \in Seq(S), NEW h
  PROVE  Blended(History!Stored(h, points), h, points)
<1> DEFINE n == Len(points)
           f == CHOOSE g : Storing(h, points, n, g)
           Point(i) == [from |-> points[i].from, value |-> points[i].value]
<1>1. n \in Nat /\ DOMAIN points = 1 .. n
  OBVIOUS
<1>2. History!Stored(h, points) = f[n]
  BY DEF History!Stored, Storing
<1>3. Storing(h, points, n, f)
  BY <1>1, SomeStoring
<1> HIDE DEF f, n
<1>4. \A i \in 0 .. n : f[i] = IF i = 0 THEN h ELSE [f[i - 1] EXCEPT ![points[i].ts] = Point(i)]
  BY <1>3 DEF Storing
<1> HIDE DEF Point
<1> DEFINE B == {i \in 0 .. n : ~Blended(f[i], h, points)}
<1>5. SUFFICES ASSUME B # {} PROVE FALSE
  <2>1. n \in 0 .. n
    BY <1>1
  <2> QED BY <1>2, <2>1
<1>6. B \in SUBSET (0 .. n)
  OBVIOUS
<1> HIDE DEF B
<1>7. PICK m \in B : \A k \in 0 .. m - 1 : k \notin B
  BY <1>1, <1>5, <1>6, Least
<1>8. m \in 0 .. n /\ ~Blended(f[m], h, points)
  BY <1>7 DEF B
<1>9. m # 0
  <2>1. Blended(h, h, points)
    BY DEF Blended
  <2>3. 0 \in 0 .. n
    BY <1>1
  <2>2. f[0] = h
    BY <1>4, <2>3
  <2> QED BY <1>8, <2>1, <2>2
<1>10. m \in 1 .. n /\ m - 1 \in 0 .. n /\ m - 1 \in 0 .. m - 1
  BY <1>1, <1>8, <1>9
<1> DEFINE e == f[m - 1]
<1>11. f[m] = [e EXCEPT ![points[m].ts] = Point(m)]
  BY <1>4, <1>8, <1>9
<1>12. Blended(e, h, points)
  BY <1>7, <1>10 DEF B
<1> HIDE DEF e
<1>13. DOMAIN f[m] = DOMAIN h
  BY <1>11, <1>12 DEF Blended
<1>14. ASSUME NEW t \in DOMAIN h
       PROVE  f[m][t] = h[t] \/ \E i \in DOMAIN points : f[m][t] = [from |-> points[i].from, value |-> points[i].value]
  <2>1. CASE t = points[m].ts
    <3>1. f[m][t] = Point(m)
      BY <1>11, <1>12, <2>1 DEF Blended
    <3>2. m \in DOMAIN points
      BY <1>1, <1>10
    <3> QED BY <3>1, <3>2 DEF Point
  <2>2. CASE t # points[m].ts
    <3>1. f[m][t] = e[t]
      BY <1>11, <1>12, <2>2 DEF Blended
    <3> QED BY <1>12, <3>1 DEF Blended
  <2> QED BY <2>1, <2>2
<1> QED BY <1>8, <1>13, <1>14 DEF Blended

\* The keys a search leaves are the server's, and a selection that is moved is among them.
LEMMA KeptOffered ==
  ASSUME NEW ks \in Seq(History!AllKeys), NEW s, NEW k, k \in {None} \cup History!AllKeys,
         NEW r, r = History!Kept(k, History!Filtered(ks, s))
  PROVE  /\ r \in {None} \cup History!AllKeys
         /\ History!Filtered(ks, s) # <<>> => r \in s
<1> DEFINE o == History!Filtered(ks, s)
<1>1. o \in Seq(History!AllKeys) /\ \A j \in DOMAIN o : o[j] \in s
  <2>1. o \in Seq(History!AllKeys) /\ Chosen(o, ks, s, Len(ks))
    BY FilteredOf
  <2> HIDE DEF o
  <2> QED BY <2>1 DEF Chosen
<1>2. r = IF o = <<>> \/ k \in {o[i] : i \in DOMAIN o} THEN k ELSE Head(o)
  BY DEF History!Kept
<1> HIDE DEF o
<1>3. CASE o = <<>>
  BY <1>2, <1>3 DEF o
<1>4. CASE o # <<>>
  <2>1. DOMAIN o = 1 .. Len(o) /\ 1 \in DOMAIN o /\ Head(o) = o[1]
    BY <1>1, <1>4
  <2>2. Head(o) \in History!AllKeys /\ Head(o) \in s
    BY <1>1, <1>4, <2>1, HeadTailProperties
  <2>3. CASE k \in {o[i] : i \in DOMAIN o}
    <3>1. k \in s
      BY <1>1, <2>3
    <3> QED BY <1>2, <2>3, <3>1
  <2>4. CASE k \notin {o[i] : i \in DOMAIN o}
    BY <1>2, <1>4, <2>2, <2>4
  <2> QED BY <2>3, <2>4
<1> QED BY <1>3, <1>4

\* The keys are the server's, in a sequence.
LEMMA KeysOffered == ASSUME History!KeyOffered PROVE v2 \in Seq(History!AllKeys) /\ HistoryKeys \in Seq(History!AllKeys)
<1>1. HistoryKeys \in Seq(History!AllKeys)
  BY PagesAssumption DEF History!AllKeys
<1>2. <<>> \in Seq(History!AllKeys)
  OBVIOUS
<1> QED BY <1>1, <1>2 DEF History!KeyOffered

\* What replaces a key's points keeps them to what was imported where it was chosen.
LEMMA PointsOwned ==
  ASSUME History!StoredOwned, History!ImportedWhereChosen, v15 \subseteq v15',
         NEW k \in History!AllKeys, NEW h, v1' = [v1 EXCEPT ![k] = h], DOMAIN h = InsertTimes,
         \A t \in InsertTimes : h[t] = v1[k][t] \/ h[t] = None \/ h[t].from = None \/ <<k, h[t].from>> \in v15
  PROVE  History!StoredOwned' /\ History!ImportedWhereChosen'
<1>1. DOMAIN v1' = History!AllKeys /\ v1'[k] = h /\ \A l \in History!AllKeys : l # k => v1'[l] = v1[l]
  BY DEF History!StoredOwned
<1>2. History!AllKeys' = History!AllKeys
  BY DEF History!AllKeys
<1>3. History!StoredOwned'
  BY <1>1, <1>2 DEF History!StoredOwned
<1>4. ASSUME NEW l \in History!AllKeys, NEW t \in InsertTimes, v1'[l][t] # None, v1'[l][t].from # None
      PROVE  <<l, v1'[l][t].from>> \in v15'
  <2>1. CASE l = k
    <3>1. h[t] # None /\ h[t].from # None
      BY <1>1, <1>4, <2>1
    <3>2. CASE h[t] = v1[k][t]
      BY <1>1, <2>1, <3>1, <3>2 DEF History!ImportedWhereChosen
    <3>3. CASE <<k, h[t].from>> \in v15
      BY <1>1, <2>1, <3>3
    <3> QED BY <3>1, <3>2, <3>3
  <2>2. CASE l # k
    BY <1>1, <1>4, <2>2 DEF History!ImportedWhereChosen
  <2> QED BY <2>1, <2>2
<1>5. History!ImportedWhereChosen'
  BY <1>2, <1>4 DEF History!ImportedWhereChosen
<1> QED BY <1>3, <1>5

\* Nothing is imported at first.
LEMMA HistoryInit == ASSUME History!Init PROVE History!ImportsOwned
<1>1. /\ v1 = [k \in History!AllKeys |-> [t \in InsertTimes |-> None]] /\ v2 = <<>> /\ v4 \in {None} \cup History!AllKeys
      /\ v3 = History!AllKeys
      /\ v8 = None /\ v9 = TRUE /\ v10 = 1 /\ v11 = 2 /\ v12 = <<>> /\ v13 = None
      /\ v14 = {[kind |-> "keys", ok |-> TRUE]} /\ v15 = {}
  BY DEF History!Init
<1>2. History!ParsedFrom
  <2>1. v9 \in BOOLEAN /\ v10 \in 1 .. 2 /\ v11 \in 1 .. 2
    BY <1>1
  <2>2. \A a \in v14 : a.kind = "file" => a.file \in Files
    BY <1>1
  <2> QED BY <1>1, <2>1, <2>2 DEF History!ParsedFrom
<1>3. History!UploadOwned
  BY <1>1 DEF History!UploadOwned
<1>4. History!StoredOwned /\ History!ImportedWhereChosen
  BY <1>1 DEF History!StoredOwned, History!ImportedWhereChosen
<1>5. History!KeyOffered
  BY <1>1 DEF History!KeyOffered
<1>6. History!SelectedIsOffered
  <2>1. <<>> \in Seq(History!AllKeys) /\ 0 \in 0 .. 0
    OBVIOUS
  <2>2. History!Filtered(<<>>, v3) = <<>>
    <3>1. \A i \in 1 .. Len(<<>>) : <<>>[i] \in v3
      OBVIOUS
    <3> QED BY <2>1, <3>1, FilteredAll
  <2> QED BY <1>1, <2>2 DEF History!SelectedIsOffered
<1> QED BY <1>2, <1>3, <1>4, <1>5, <1>6 DEF History!ImportsOwned

\* Files that are read are some of those there are.
OfFiles(as) == \A a \in as : a.kind = "file" => a.file \in Files

\* What an import is of stays as long as it is not stored.
LEMMA ImportsKept ==
  ASSUME History!ImportsOwned, v1' = v1, v15 \subseteq v15', History!ParsedFrom', History!UploadOwned',
         History!KeyOffered', History!SelectedIsOffered'
  PROVE  History!ImportsOwned'
<1>1. History!StoredOwned'
  BY DEF History!ImportsOwned, History!StoredOwned, History!AllKeys
<1>2. History!ImportedWhereChosen'
  BY DEF History!ImportsOwned, History!ImportedWhereChosen, History!AllKeys
<1> QED BY <1>1, <1>2 DEF History!ImportsOwned

\* What is parsed stays as long as the file and its columns are.
LEMMA ParsedKept ==
  ASSUME History!ParsedFrom, UNCHANGED <<v8, v9, v10, v11, v12>>, OfFiles(v14') PROVE History!ParsedFrom'
BY DEF History!ParsedFrom, OfFiles

\* So does what is under way, ...
LEMMA UploadKept == ASSUME History!UploadOwned, v13' = v13, v15 \subseteq v15' PROVE History!UploadOwned'
BY DEF History!UploadOwned, History!AllKeys, History!Range

\* ... and what is selected.
LEMMA SelectionKept ==
  ASSUME History!KeyOffered, History!SelectedIsOffered, UNCHANGED <<v2, v3, v4>>
  PROVE  History!KeyOffered' /\ History!SelectedIsOffered'
BY DEF History!KeyOffered, History!SelectedIsOffered, History!AllKeys, History!Filtered

\* A step of the table's, or one that does not concern imports, leaves them.
LEMMA ImportsUnchanged ==
  ASSUME History!ImportsOwned, UNCHANGED <<v1, v2, v3, v4, v8, v9, v10, v11, v12, v13, v15>>, OfFiles(v14')
  PROVE  History!ImportsOwned'
<1>1. History!ParsedFrom'
  BY ParsedKept DEF History!ImportsOwned
<1>2. History!UploadOwned'
  BY UploadKept DEF History!ImportsOwned
<1>3. History!KeyOffered' /\ History!SelectedIsOffered'
  BY SelectionKept DEF History!ImportsOwned
<1> QED BY <1>1, <1>2, <1>3, ImportsKept

\* Points that are stored leave the rest.
LEMMA ImportsStored ==
  ASSUME History!ImportsOwned, UNCHANGED <<v2, v3, v4, v8, v9, v10, v11, v12, v15>>, OfFiles(v14'),
         History!UploadOwned', History!StoredOwned', History!ImportedWhereChosen'
  PROVE  History!ImportsOwned'
<1>1. History!ParsedFrom'
  BY ParsedKept DEF History!ImportsOwned
<1>3. History!KeyOffered' /\ History!SelectedIsOffered'
  BY SelectionKept DEF History!ImportsOwned
<1> QED BY <1>1, <1>3 DEF History!ImportsOwned

\* Answers that are added are of files there are, or of none.
LEMMA OtherAnswers ==
  ASSUME OfFiles(v14), NEW as, OfFiles(as), v14' \subseteq v14 \cup as PROVE OfFiles(v14')
BY DEF OfFiles

\* A change by hand, of the key that is selected.
LEMMA HistoryChange ==
  ASSUME History!ImportsOwned, NEW by, NEW h, NEW ok, History!Change(by, v4, h, ok),
         v4 # None => DOMAIN h = InsertTimes,
         v4 # None => \A t \in InsertTimes : h[t] = v1[v4][t] \/ h[t] = None \/ h[t].from = None
  PROVE  History!ImportsOwned'
<1>1. /\ v4 # None /\ v1' = IF ok THEN [v1 EXCEPT ![v4] = h] ELSE v1
      /\ v14' = v14 \cup {[kind |-> "change", by |-> by, key |-> v4, ok |-> ok]}
      /\ UNCHANGED <<v2, v3, v4, v8, v9, v10, v11, v12, v13, v15>>
  BY DEF History!Change, History!selection, History!csv, History!table
<1>2. OfFiles(v14')
  <2>1. OfFiles({[kind |-> "change", by |-> by, key |-> v4, ok |-> ok]})
    BY DEF OfFiles
  <2>2. OfFiles(v14)
    BY DEF History!ImportsOwned, History!ParsedFrom, OfFiles
  <2> QED BY <1>1, <2>1, <2>2, OtherAnswers
<1>3. CASE ~ok
  BY <1>1, <1>2, <1>3, ImportsUnchanged
<1>4. CASE ok
  <2>1. v4 \in History!AllKeys
    BY <1>1 DEF History!ImportsOwned, History!KeyOffered
  <2>2. v1' = [v1 EXCEPT ![v4] = h]
    BY <1>1, <1>4
  <2>3. History!StoredOwned' /\ History!ImportedWhereChosen'
    <3>1. History!StoredOwned /\ History!ImportedWhereChosen /\ v15 \subseteq v15'
      BY <1>1 DEF History!ImportsOwned
    <3>2. DOMAIN h = InsertTimes
      BY <1>1
    <3>3. \A t \in InsertTimes : h[t] = v1[v4][t] \/ h[t] = None \/ h[t].from = None \/ <<v4, h[t].from>> \in v15
      BY <1>1
    <3> QED BY <2>1, <2>2, <3>1, <3>2, <3>3, PointsOwned
  <2>4. History!UploadOwned'
    BY <1>1, UploadKept DEF History!ImportsOwned
  <2> QED BY <1>1, <1>2, <2>3, <2>4, ImportsStored
<1> QED BY <1>3, <1>4

\* What a file is parsed to is parsed of it.
LEMMA ParsedNew ==
  ASSUME NEW f \in Files, Rows[f] # <<>>, v8' = f, v12' = History!Parsed(f, v9', v10', v11'),
         v9' \in BOOLEAN, v10' \in 1 .. 2, v11' \in 1 .. 2, OfFiles(v14'), f # None
  PROVE  History!ParsedFrom'
BY DEF History!ParsedFrom, OfFiles

\* An import is of the points that are parsed, and of the key that is selected, when it is begun.
LEMMA UploadBegun == ASSUME History!ImportsOwned, History!HandleBulkUpload PROVE History!UploadOwned'
<1>1. /\ v12 # <<>> /\ v4 # None /\ v13' = [key |-> v4, points |-> v12, count |-> 0]
      /\ v15' = v15 \cup {<<v4, v12[i].from>> : i \in DOMAIN v12}
  BY DEF History!HandleBulkUpload
<1>2. v4 \in History!AllKeys
  BY <1>1 DEF History!ImportsOwned, History!KeyOffered
<1>3. v12 \in Seq(History!Range(v12))
  <2>1. /\ v8 \in Files /\ Rows[v8] # <<>> /\ v9 \in BOOLEAN /\ v10 \in 1 .. 2 /\ v11 \in 1 .. 2
        /\ v12 = History!Parsed(v8, v9, v10, v11)
    BY <1>1 DEF History!ImportsOwned, History!ParsedFrom
  <2>2. PICK n \in Nat : DOMAIN v12 = 1 .. n /\ v12 = [i \in 1 .. n |-> v12[i]]
    BY <2>1, ParsedPoints
  <2>3. \A i \in 1 .. n : v12[i] \in History!Range(v12)
    BY <2>2 DEF History!Range
  <2> QED BY <2>2, <2>3
<1>4. /\ v13'.key = v4 /\ v13'.points = v12 /\ v13'.count = 0
      /\ v13' = [key |-> v13'.key, points |-> v13'.points, count |-> v13'.count]
  BY <1>1
<1>5. \A i \in DOMAIN v13'.points : <<v13'.key, v13'.points[i].from>> \in v15'
  BY <1>1, <1>4
<1> QED BY <1>2, <1>3, <1>4, <1>5 DEF History!UploadOwned, History!AllKeys, History!Range

\* A chunk is of the points that are imported, and what it is stored under is their key.
LEMMA ChunkStored ==
  ASSUME History!ImportsOwned, History!UploadChunk
  PROVE  History!UploadOwned' /\ History!StoredOwned' /\ History!ImportedWhereChosen'
<1> DEFINE ps == v13.points
           c == v13.count
           l == IF c + ChunkSize < Len(ps) THEN c + ChunkSize ELSE Len(ps)
           chunk == SubSeq(ps, c + 1, l)
           S == History!Range(ps)
<1>1. /\ v13 # None /\ v13.count < Len(v13.points)
      /\ v1' = [v1 EXCEPT ![v13.key] = History!Stored(@, History!Chunk)]
      /\ v13' = [v13 EXCEPT !.count = @ + Len(History!Chunk)] /\ v15' = v15
  BY DEF History!UploadChunk
<1>2. /\ v13 = [key |-> v13.key, points |-> v13.points, count |-> v13.count]
      /\ v13.key \in History!AllKeys /\ v13.count \in Nat /\ v13.points \in Seq(History!Range(v13.points))
      /\ \A i \in DOMAIN v13.points : <<v13.key, v13.points[i].from>> \in v15
  BY <1>1 DEF History!ImportsOwned, History!UploadOwned
<1>3. History!Chunk = chunk
  BY DEF History!Chunk
<1>4. ps \in Seq(S) /\ c \in Nat /\ c < Len(ps) /\ Len(ps) \in Nat /\ ChunkSize \in Nat
  BY <1>1, <1>2, PagesAssumption
<1>5. chunk \in Seq(S) /\ Len(chunk) \in Nat /\ DOMAIN chunk = 1 .. Len(chunk) /\ \A i \in DOMAIN chunk : \E j \in DOMAIN ps : chunk[i] = ps[j]
  <2> HIDE DEF S, ps, c
  <2>1. c + 1 \in Int /\ l \in Int /\ \A i \in c + 1 .. l : i \in 1 .. Len(ps)
    BY <1>4
  <2>2. \A i \in c + 1 .. l : ps[i] \in S
    BY <1>4, <2>1
  <2> HIDE DEF l
  <2>3. /\ chunk \in Seq(S)
        /\ Len(chunk) = IF c + 1 <= l THEN l - (c + 1) + 1 ELSE 0
        /\ \A i \in 1 .. l - (c + 1) + 1 : chunk[i] = ps[c + 1 + i - 1]
    BY <2>1, <2>2, SubSeqProperties
  <2> HIDE DEF chunk
  <2>4. Len(chunk) \in Nat /\ DOMAIN chunk = 1 .. Len(chunk)
    BY <2>3
  <2>5. ASSUME NEW i \in DOMAIN chunk PROVE \E j \in DOMAIN ps : chunk[i] = ps[j]
    <3>1. i \in 1 .. l - (c + 1) + 1 /\ c + 1 + i - 1 \in c + 1 .. l
      BY <1>4, <2>1, <2>3, <2>4
    <3>2. c + 1 + i - 1 \in DOMAIN ps
      BY <1>4, <2>1, <3>1
    <3> QED BY <2>3, <3>1, <3>2
  <2> QED BY <2>3, <2>4, <2>5
<1> HIDE DEF chunk, S
<1>6. History!UploadOwned'
  <2>1. /\ v13'.key = v13.key /\ v13'.points = v13.points /\ v13'.count = v13.count + Len(chunk)
        /\ v13' = [key |-> v13'.key, points |-> v13'.points, count |-> v13'.count]
    BY <1>1, <1>2, <1>3
  <2>2. v13'.count \in Nat
    BY <1>4, <1>5, <2>1
  <2> QED BY <1>1, <1>2, <2>1, <2>2 DEF History!UploadOwned, History!AllKeys, History!Range
<1> DEFINE k == v13.key
           h == History!Stored(v1[k], chunk)
<1>7. k \in History!AllKeys /\ DOMAIN v1 = History!AllKeys /\ DOMAIN v1[k] = InsertTimes
  BY <1>2 DEF History!ImportsOwned, History!StoredOwned
<1>8. v1' = [v1 EXCEPT ![k] = h]
  BY <1>1, <1>3, <1>7
<1>9. Blended(h, v1[k], chunk)
  BY <1>5, StoredPoints
<1> HIDE DEF h
<1>10. DOMAIN h = InsertTimes
  BY <1>7, <1>9 DEF Blended
<1>11. ASSUME NEW t \in InsertTimes PROVE h[t] = v1[k][t] \/ <<k, h[t].from>> \in v15
  <2>1. CASE h[t] # v1[k][t]
    <3>1. PICK i \in DOMAIN chunk : h[t] = [from |-> chunk[i].from, value |-> chunk[i].value]
      BY <1>7, <1>9, <2>1 DEF Blended
    <3>2. PICK j \in DOMAIN ps : chunk[i] = ps[j]
      BY <1>5
    <3>3. h[t].from = ps[j].from
      BY <3>1, <3>2
    <3> QED BY <1>2, <3>3
  <2> QED BY <2>1
<1>12. History!StoredOwned' /\ History!ImportedWhereChosen'
  <2>1. History!StoredOwned /\ History!ImportedWhereChosen /\ v15 \subseteq v15'
    BY <1>1 DEF History!ImportsOwned
  <2>2. \A t \in InsertTimes : h[t] = v1[k][t] \/ h[t] = None \/ h[t].from = None \/ <<k, h[t].from>> \in v15
    BY <1>11
  <2> HIDE DEF k
  <2> QED BY <1>7, <1>8, <1>10, <2>1, <2>2, PointsOwned
<1> QED BY <1>6, <1>12

\* Searches, selections and keys that come keep the selection to what is offered.
LEMMA SelectionMoved ==
  ASSUME History!ImportsOwned,
         \/ \E s : History!Search(s)
         \/ \E k \in History!AllKeys : History!Select(k)
         \/ \E a \in v14 : History!FetchKeys(a)
  PROVE  History!KeyOffered' /\ History!SelectedIsOffered'
<1>1. /\ v2 \in Seq(History!AllKeys) /\ HistoryKeys \in Seq(History!AllKeys)
      /\ v4 \in {None} \cup History!AllKeys /\ v2 \in {<<>>, HistoryKeys} /\ History!SelectedIsOffered
  BY KeysOffered DEF History!ImportsOwned, History!KeyOffered
<1>2. ASSUME NEW k, k \in {None} \cup History!AllKeys, v2' \in {<<>>, HistoryKeys}, v2' \in Seq(History!AllKeys),
             v4' = History!Kept(k, History!Filtered(v2', v3'))
      PROVE  History!KeyOffered' /\ History!SelectedIsOffered'
  <2>1. v4' \in {None} \cup History!AllKeys /\ (History!Filtered(v2', v3') # <<>> => v4' \in v3')
    BY <1>2, KeptOffered
  <2>2. History!KeyOffered'
    BY <1>2, <2>1 DEF History!KeyOffered, History!AllKeys
  <2>3. History!SelectedIsOffered'
    BY <2>1 DEF History!SelectedIsOffered
  <2> QED BY <2>2, <2>3
<1>3. ASSUME NEW s, History!Search(s) PROVE History!KeyOffered' /\ History!SelectedIsOffered'
  <2>1. v3' = s /\ v2' = v2 /\ v4' = History!Kept(v4, History!Filtered(v2, s))
    BY <1>3 DEF History!Search
  <2> QED BY <1>1, <1>2, <2>1
<1>4. ASSUME NEW k \in History!AllKeys, History!Select(k) PROVE History!KeyOffered' /\ History!SelectedIsOffered'
  <2>1. k \in v3 /\ v4' = k /\ v2' = v2 /\ v3' = v3
    BY <1>4 DEF History!Select
  <2> QED BY <1>1, <2>1 DEF History!KeyOffered, History!SelectedIsOffered, History!AllKeys
<1>5. ASSUME NEW a \in v14, History!FetchKeys(a) PROVE History!KeyOffered' /\ History!SelectedIsOffered'
  <2> DEFINE wanted == IF v4 \in History!AllKeys \/ HistoryKeys = <<>> THEN v4 ELSE Head(HistoryKeys)
  <2>1. /\ v3' = v3
        /\ \/ v2' = HistoryKeys /\ v4' = History!Kept(wanted, History!Filtered(HistoryKeys, v3))
           \/ v2' = v2 /\ v4' = v4
    BY <1>5 DEF History!FetchKeys
  <2>2. wanted \in {None} \cup History!AllKeys
    <3>1. CASE v4 \in History!AllKeys \/ HistoryKeys = <<>>
      BY <1>1, <3>1
    <3>2. CASE ~ (v4 \in History!AllKeys \/ HistoryKeys = <<>>)
      BY <1>1, <3>2, HeadTailProperties
    <3> QED BY <3>1, <3>2
  <2> HIDE DEF wanted
  <2>3. CASE v2' = HistoryKeys /\ v4' = History!Kept(wanted, History!Filtered(HistoryKeys, v3))
    BY <1>1, <1>2, <2>1, <2>2, <2>3
  <2>4. CASE v2' = v2 /\ v4' = v4
    BY <1>1, <2>1, <2>4, SelectionKept DEF History!ImportsOwned
  <2> QED BY <2>1, <2>3, <2>4
<1> QED BY <1>3, <1>4, <1>5

\* Whatever crosses, what is imported is stored under its key, and parsed of its file (pages/telemetryCrud.tsx).
LEMMA HistoryStep == ASSUME History!ImportsOwned, History!Next PROVE History!ImportsOwned'
<1> USE DEF History!selection, History!csv, History!table
<1>i. OfFiles(v14) /\ History!ParsedFrom /\ History!UploadOwned /\ History!KeyOffered /\ History!SelectedIsOffered
  BY DEF History!ImportsOwned, History!ParsedFrom, OfFiles
<1>t. ASSUME UNCHANGED <<v1, v2, v3, v4, v8, v9, v10, v11, v12, v13, v15>>, v14' \subseteq v14
             \/ \E k, ps : v14' = v14 \cup {[kind |-> "query", key |-> k, points |-> ps]}
      PROVE  History!ImportsOwned'
  <2>1. CASE v14' \subseteq v14
    <3>1. OfFiles(v14')
      BY <1>i, <2>1 DEF OfFiles
    <3> QED BY <1>t, <3>1, ImportsUnchanged
  <2>2. ASSUME NEW k, NEW ps, v14' = v14 \cup {[kind |-> "query", key |-> k, points |-> ps]} PROVE History!ImportsOwned'
    <3>1. OfFiles(v14')
      BY <1>i, <2>2 DEF OfFiles
    <3> QED BY <1>t, <3>1, ImportsUnchanged
  <2> QED BY <1>t, <2>1, <2>2
<1>1. CASE History!HandleQuery
  BY <1>1, <1>t DEF History!HandleQuery
<1>2. CASE History!ParsingOptions
  <2>1. /\ v8 # None /\ v12' = History!Parsed(v8, v9', v10', v11') /\ UNCHANGED <<v1, v2, v3, v4, v8, v13, v14, v15>>
        /\ v9' \in BOOLEAN /\ v10' \in 1 .. 2 /\ v11' \in 1 .. 2
    <3>1. /\ v8 # None /\ v12' = History!Parsed(v8, v9', v10', v11') /\ UNCHANGED <<v1, v2, v3, v4, v8, v13, v14, v15>>
          /\ \/ v9' = ~v9 /\ UNCHANGED <<v10, v11>>
             \/ v10' = 3 - v10 /\ UNCHANGED <<v9, v11>>
             \/ v11' = 3 - v11 /\ UNCHANGED <<v9, v10>>
      BY <1>2 DEF History!ParsingOptions
    <3>2. v9 \in BOOLEAN /\ v10 \in 1 .. 2 /\ v11 \in 1 .. 2
      BY <1>i DEF History!ParsedFrom
    <3>3. 3 - v10 \in 1 .. 2 /\ 3 - v11 \in 1 .. 2
      BY <3>2
    <3> QED BY <3>1, <3>2, <3>3
  <2>2. v8 \in Files /\ Rows[v8] # <<>>
    BY <1>i, <2>1 DEF History!ParsedFrom
  <2>3. OfFiles(v14')
    BY <1>i, <2>1
  <2>4. v8' = v8
    BY <2>1
  <2>5. History!ParsedFrom'
    BY <2>1, <2>2, <2>3, <2>4, ParsedNew
  <2>6. History!UploadOwned' /\ History!KeyOffered' /\ History!SelectedIsOffered'
    BY <1>i, <2>1, UploadKept, SelectionKept
  <2> QED BY <2>1, <2>5, <2>6, ImportsKept
<1>3. CASE History!HandleBulkUpload
  <2>1. UNCHANGED <<v1, v2, v3, v4, v8, v9, v10, v11, v12, v14>> /\ v15 \subseteq v15'
    BY <1>3 DEF History!HandleBulkUpload
  <2>2. History!UploadOwned'
    BY <1>3, UploadBegun
  <2>3. OfFiles(v14')
    BY <1>i, <2>1
  <2>4. History!ParsedFrom' /\ History!KeyOffered' /\ History!SelectedIsOffered'
    BY <1>i, <2>1, <2>3, ParsedKept, SelectionKept
  <2> QED BY <2>1, <2>2, <2>4, ImportsKept
<1>4. CASE History!UploadChunk
  <2>1. UNCHANGED <<v2, v3, v4, v8, v9, v10, v11, v12, v14, v15>>
    BY <1>4 DEF History!UploadChunk
  <2>2. OfFiles(v14')
    BY <1>i, <2>1
  <2> QED BY <1>4, <2>1, <2>2, ChunkStored, ImportsStored
<1>5. CASE History!FailUpload
  <2>1. /\ UNCHANGED <<v1, v2, v3, v4, v8, v9, v10, v11, v12, v15>> /\ v13' = None
        /\ \E k, ps : v14' = v14 \cup {[kind |-> "query", key |-> k, points |-> ps]}
    BY <1>5 DEF History!FailUpload
  <2>2. History!UploadOwned'
    BY <2>1 DEF History!UploadOwned
  <2>3. OfFiles(v14')
    BY <1>i, <2>1 DEF OfFiles
  <2>4. History!ParsedFrom' /\ History!KeyOffered' /\ History!SelectedIsOffered'
    BY <1>i, <2>1, <2>3, ParsedKept, SelectionKept
  <2> QED BY <2>1, <2>2, <2>4, ImportsKept
<1>6. CASE History!EndUpload
  <2>1. /\ UNCHANGED <<v1, v2, v3, v4, v9, v10, v11, v15>> /\ v13' = None /\ v8' = None /\ v12' = <<>>
        /\ \E k, ps : v14' = v14 \cup {[kind |-> "query", key |-> k, points |-> ps]}
    BY <1>6 DEF History!EndUpload
  <2>2. History!UploadOwned'
    BY <2>1 DEF History!UploadOwned
  <2>3. OfFiles(v14')
    BY <1>i, <2>1 DEF OfFiles
  <2>4. History!ParsedFrom'
    BY <1>i, <2>1, <2>3 DEF History!ParsedFrom, OfFiles
  <2>5. History!KeyOffered' /\ History!SelectedIsOffered'
    BY <1>i, <2>1, SelectionKept
  <2> QED BY <2>1, <2>2, <2>4, <2>5, ImportsKept
<1>7. ASSUME \/ \E s : History!Search(s)
             \/ \E k \in History!AllKeys : History!Select(k)
             \/ \E a \in v14 : History!FetchKeys(a)
      PROVE  History!ImportsOwned'
  <2>1. UNCHANGED <<v1, v8, v9, v10, v11, v12, v13, v15>> /\ v14' \subseteq v14
    BY <1>7 DEF History!Search, History!Select, History!FetchKeys
  <2>2. History!KeyOffered' /\ History!SelectedIsOffered'
    BY <1>7, SelectionMoved
  <2>3. OfFiles(v14')
    BY <1>i, <2>1 DEF OfFiles
  <2>4. History!ParsedFrom' /\ History!UploadOwned'
    BY <1>i, <2>1, <2>3, ParsedKept, UploadKept
  <2> QED BY <2>1, <2>2, <2>4, ImportsKept
<1>8. ASSUME NEW a \in v14, History!FinishQuery(a) PROVE History!ImportsOwned'
  BY <1>8, <1>t DEF History!FinishQuery
<1>9. ASSUME NEW a \in v14, History!FinishChange(a) PROVE History!ImportsOwned'
  <2>1. /\ UNCHANGED <<v1, v2, v3, v4, v8, v9, v10, v11, v12, v13, v15>>
        /\ v14' = (v14 \ {a}) \cup (IF a.ok THEN {History!Query(a.key)} ELSE {})
    BY <1>9 DEF History!FinishChange
  <2>2. History!Query(a.key).kind = "query"
    BY DEF History!Query
  <2>3. OfFiles(v14')
    BY <1>i, <2>1, <2>2 DEF OfFiles
  <2> QED BY <2>1, <2>3, ImportsUnchanged
<1>10. ASSUME NEW a \in v14, History!ParseCSV(a) PROVE History!ImportsOwned'
  <2>1. /\ a.kind = "file" /\ UNCHANGED <<v1, v2, v3, v4, v9, v10, v11, v13, v15>> /\ v14' \subseteq v14
        /\ IF Rows[a.file] = <<>> THEN UNCHANGED <<v8, v12>>
           ELSE v8' = a.file /\ v12' = History!Parsed(a.file, v9, v10, v11)
    BY <1>10 DEF History!ParseCSV
  <2>2. OfFiles(v14') /\ a.file \in Files /\ a.file # None
    BY <1>i, <2>1, PagesAssumption DEF OfFiles
  <2>3. History!ParsedFrom'
    <3>1. CASE Rows[a.file] = <<>>
      BY <1>i, <2>1, <2>2, <3>1, ParsedKept
    <3>2. CASE Rows[a.file] # <<>>
      <4>1. /\ v8' = a.file /\ v12' = History!Parsed(a.file, v9', v10', v11')
            /\ v9' \in BOOLEAN /\ v10' \in 1 .. 2 /\ v11' \in 1 .. 2
        BY <1>i, <2>1, <3>2 DEF History!ParsedFrom
      <4> QED BY <2>2, <3>2, <4>1, ParsedNew
    <3> QED BY <3>1, <3>2
  <2>4. History!UploadOwned' /\ History!KeyOffered' /\ History!SelectedIsOffered'
    BY <1>i, <2>1, UploadKept, SelectionKept
  <2> QED BY <2>1, <2>3, <2>4, ImportsKept
<1>h. v4 # None => DOMAIN v1[v4] = InsertTimes
  BY DEF History!ImportsOwned, History!KeyOffered, History!StoredOwned
<1>11. ASSUME NEW t \in InsertTimes, NEW s \in Texts, NEW str \in BOOLEAN, NEW ok \in BOOLEAN,
              History!HandleManualInsert(t, s, str, ok)
       PROVE  History!ImportsOwned'
  <2> DEFINE e == [from |-> None, value |-> IF str THEN s ELSE History!ParseFloat(History!Typed(s))]
             h == [v1[v4] EXCEPT ![t] = e]
  <2>1. History!Change("form", v4, h, ok)
    BY <1>11 DEF History!HandleManualInsert
  <2>2. e.from = None
    OBVIOUS
  <2> HIDE DEF e
  <2>3. v4 # None => DOMAIN h = InsertTimes /\ \A u \in InsertTimes : h[u] = v1[v4][u] \/ h[u].from = None
    BY <1>h, <2>2
  <2> HIDE DEF h
  <2> QED BY <2>1, <2>3, HistoryChange
<1>12. ASSUME NEW ts \in SUBSET InsertTimes, NEW ok \in BOOLEAN, History!HandleDeleteRange(ts, ok) PROVE History!ImportsOwned'
  <2> DEFINE h == [t \in InsertTimes |-> IF t \in ts THEN None ELSE v1[v4][t]]
  <2>1. History!Change("range", v4, h, ok)
    BY <1>12 DEF History!HandleDeleteRange
  <2>2. DOMAIN h = InsertTimes /\ \A u \in InsertTimes : h[u] = v1[v4][u] \/ h[u] = None
    OBVIOUS
  <2> HIDE DEF h
  <2> QED BY <2>1, <2>2, HistoryChange
<1>13. ASSUME NEW t \in InsertTimes, NEW ok \in BOOLEAN, History!HandleDeleteSingle(t, ok) PROVE History!ImportsOwned'
  <2> DEFINE h == [v1[v4] EXCEPT ![t] = None]
  <2>1. History!Change("row", v4, h, ok)
    BY <1>13 DEF History!HandleDeleteSingle
  <2>2. v4 # None => DOMAIN h = InsertTimes /\ \A u \in InsertTimes : h[u] = v1[v4][u] \/ h[u] = None
    BY <1>h
  <2> HIDE DEF h
  <2> QED BY <2>1, <2>2, HistoryChange
<1>14. ASSUME NEW f \in Files, History!HandleFileChange(f) PROVE History!ImportsOwned'
  <2>1. /\ UNCHANGED <<v1, v2, v3, v4, v8, v9, v10, v11, v12, v13, v15>>
        /\ v14' = v14 \cup {[kind |-> "file", file |-> f]}
    BY <1>14 DEF History!HandleFileChange
  <2>2. OfFiles(v14')
    BY <1>i, <2>1 DEF OfFiles
  <2> QED BY <2>1, <2>2, ImportsUnchanged
<1> QED BY <1>1, <1>2, <1>3, <1>4, <1>5, <1>6, <1>7, <1>8, <1>9, <1>10, <1>11, <1>12, <1>13, <1>14 DEF History!Next

\* Points that are parsed are read as they are written.
LEMMA HistoryRead == ASSUME History!ParsedFrom PROVE History!ReadAsWritten
<1> SUFFICES ASSUME NEW n \in DOMAIN v12,
                    NEW s, s = v12[n].text,
                    NEW last, last = CHOOSE i \in History!Separators(s) : \A j \in History!Separators(s) : j <= i,
                    \A i \in DOMAIN s : s[i] \in History!Digits \/ i \in History!Separators(s),
                    History!Separators(s) # {}, History!Separators(s) # DOMAIN s,
                    \A i \in History!Separators(s) \ {last} : s[i] # s[last]
             PROVE  v12[n].value = [int |-> History!Filtered(SubSeq(s, 1, last), History!Digits),
                                    frac |-> SubSeq(s, last + 1, Len(s))]
  BY Zenon DEF History!ReadAsWritten
<1>1. v12 # <<>>
  OBVIOUS
<1>2. /\ v8 \in Files /\ Rows[v8] # <<>> /\ v9 \in BOOLEAN /\ v10 \in 1 .. 2 /\ v11 \in 1 .. 2
      /\ v12 = History!Parsed(v8, v9, v10, v11)
  BY <1>1 DEF History!ParsedFrom
<1>3. /\ s \in Seq(Chars)
      /\ v12[n].value = IF History!IsNumber(History!Normalized(s)) THEN History!ParseFloat(History!Normalized(s)) ELSE s
  BY <1>2, ParsedPoints
<1> DEFINE value == v12[n].value
<1>4. /\ s \in Seq(Chars)
      /\ value = IF History!IsNumber(History!Normalized(s)) THEN History!ParseFloat(History!Normalized(s)) ELSE s
      /\ last = CHOOSE i \in History!Separators(s) : \A j \in History!Separators(s) : j <= i
  BY <1>3
<1>5. /\ \A i \in DOMAIN s : s[i] \in History!Digits \/ i \in History!Separators(s)
      /\ History!Separators(s) # {} /\ History!Separators(s) # DOMAIN s
      /\ \A i \in History!Separators(s) \ {last} : s[i] # s[last]
  OBVIOUS
<1> HIDE DEF value
<1>6. value = [int |-> History!Filtered(SubSeq(s, 1, last), History!Digits), frac |-> SubSeq(s, last + 1, Len(s))]
  BY ONLY <1>4, <1>5, ReadsAsWritten
<1> QED BY <1>6 DEF value

\* What keeps imports apart is what they promise.
LEMMA HistoryKept == ASSUME History!ImportsOwned PROVE History!ImportsApart
BY HistoryRead DEF History!ImportsOwned, History!ImportsApart

\* What happens on another scene leaves them.
LEMMA HistoryUnchanged ==
  ASSUME History!ImportsOwned, UNCHANGED <<v1, v2, v3, v4, v8, v9, v10, v11, v12, v13, v14, v15>>
  PROVE  History!ImportsOwned'
<1>1. OfFiles(v14')
  BY DEF History!ImportsOwned, History!ParsedFrom, OfFiles
<1> QED BY <1>1, ImportsUnchanged

(***************************************************************************)
(* The application                                                         *)
(***************************************************************************)

\* A step of the application is one of the scene that is open, which stays open.
LEMMA SceneStays == ASSUME AppNext PROVE scene' = scene
BY DEF AppNext

\* The two pages of many points listen to those they show, once, and to none after they were left (ListensToShown).
THEOREM ListensStay == AppSpec => []ListensToShown
<1> DEFINE Inv == (scene = "assets" => Assets!Listening) /\ (scene = "telemetry" => List!Listening)
<1>1. AppInit => Inv
  BY AssetsInit, ListInit DEF AppInit
<1>2. Inv /\ [AppNext]_appVars => Inv'
  <2> SUFFICES ASSUME Inv, [AppNext]_appVars PROVE Inv'
    OBVIOUS
  <2>1. CASE UNCHANGED appVars
    <3>u. UNCHANGED <<scene, v1, v2, v3, v4, v5, v6, v7, v8, v9, v10, v11, v12, v13, v14>>
      BY <2>1 DEF appVars
    <3>1. Assets!Listening => Assets!Listening'
      BY <3>u, AssetsUnchanged
    <3>2. List!Listening => List!Listening'
      BY <3>u, ListUnchanged
    <3> QED BY <3>u, <3>1, <3>2
  <2>2. CASE AppNext
    BY <2>2, SceneStays, AssetsStep, ListStep DEF AppNext
  <2> QED BY <2>1, <2>2
<1>3. Inv => ListensToShown
  BY AssetsKept, ListKept DEF ListensToShown
<1> HIDE DEF Inv
<1> QED BY <1>1, <1>2, <1>3, PTL DEF AppSpec

\* Connections and devices of the override have ids of their own, however they are scanned for, typed, saved and deleted
\* (OverridesApart).
THEOREM OverridesStayApart == AppSpec => []OverridesApart
<1> DEFINE Inv == scene = "config" => Config!IdsOwned
<1>1. AppInit => Inv
  BY ConfigInit DEF AppInit
<1>2. Inv /\ [AppNext]_appVars => Inv'
  <2> SUFFICES ASSUME Inv, [AppNext]_appVars PROVE Inv'
    OBVIOUS
  <2>1. CASE UNCHANGED appVars
    <3>u. UNCHANGED <<scene, v1, v3, v4, v8, v10, v13>>
      BY <2>1 DEF appVars
    <3>1. Config!IdsOwned => Config!IdsOwned'
      BY <3>u, ConfigUnchanged
    <3> QED BY <3>u, <3>1
  <2>2. CASE AppNext
    BY <2>2, SceneStays, ConfigStep DEF AppNext
  <2> QED BY <2>1, <2>2
<1>3. Inv => OverridesApart
  BY ConfigKept DEF OverridesApart
<1> HIDE DEF Inv
<1> QED BY <1>1, <1>2, <1>3, PTL DEF AppSpec

\* Imported points are stored under the key they were imported for, numbers are read as they are written, and the
\* selection is among the keys that are offered, however keys, searches, files and chunks cross (ImportsApart).
THEOREM ImportsStayApart == AppSpec => []ImportsApart
<1> DEFINE Inv == scene = "historical" => History!ImportsOwned
<1>1. AppInit => Inv
  BY HistoryInit DEF AppInit
<1>2. Inv /\ [AppNext]_appVars => Inv'
  <2> SUFFICES ASSUME Inv, [AppNext]_appVars PROVE Inv'
    OBVIOUS
  <2>1. CASE UNCHANGED appVars
    <3>u. UNCHANGED <<scene, v1, v2, v3, v4, v8, v9, v10, v11, v12, v13, v14, v15>>
      BY <2>1 DEF appVars
    <3>1. History!ImportsOwned => History!ImportsOwned'
      BY <3>u, HistoryUnchanged
    <3> QED BY <3>u, <3>1
  <2>2. CASE AppNext
    BY <2>2, SceneStays, HistoryStep DEF AppNext
  <2> QED BY <2>1, <2>2
<1>3. Inv => ImportsApart
  BY HistoryKept DEF ImportsApart
<1> HIDE DEF Inv
<1> QED BY <1>1, <1>2, <1>3, PTL DEF AppSpec
==============================================================================
