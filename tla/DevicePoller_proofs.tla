------------------------ MODULE DevicePoller_proofs -------------------------
(***************************************************************************)
(* For any devices, connections and number of rows: the poller uses the    *)
(* alarm table only through the operations of the store, keeps it in step  *)
(* with its set of offline devices, and takes a polled device offline only *)
(* after the failures that earn it.                                        *)
(***************************************************************************)
EXTENDS DevicePoller, TLAPS

CL == "Communication Loss"

\* the table has the rows its type says
Table == [Ids -> Store!Row \cup {None}]

(* A row with one field changed is a row about the same device.            *)
LEMMA RowWithSeverity ==
  ASSUME NEW r \in Store!Row, NEW u, u = [r EXCEPT !.severity = "CRITICAL"]
  PROVE  /\ u \in Store!Row /\ u # None /\ u.status = r.status
         /\ u.originator = r.originator /\ u.type = r.type
BY ConstantsAssumption DEF Store!Row

(* As above, for its status.                                               *)
LEMMA RowWithStatus ==
  ASSUME NEW r \in Store!Row, NEW s \in {"ACTIVE_ACK", "CLEARED"},
         NEW u, u = [r EXCEPT !.status = s]
  PROVE  /\ u \in Store!Row /\ u # None /\ u.status = s
         /\ u.originator = r.originator /\ u.type = r.type
BY ConstantsAssumption DEF Store!Row, Store!Active

(* As above, for its age.                                                  *)
LEMMA RowAged ==
  ASSUME NEW r \in Store!Row, NEW u, u = [r EXCEPT !.old = TRUE]
  PROVE  /\ u \in Store!Row /\ u # None /\ u.status = r.status
         /\ u.originator = r.originator /\ u.type = r.type
BY ConstantsAssumption DEF Store!Row

(* Every row is about a device, its connection, and a "DEVICE".            *)
LEMMA RowSubject ==
  ASSUME NEW r \in Store!Row
  PROVE  r # None /\ r.originator \in Devices /\ r.originType = "DEVICE" /\ r.type = CL
BY ConstantsAssumption DEF Store!Row, CL

\* the row is active, and about the device
About(id, d) ==
  /\ alarms[id] # None
  /\ alarms[id].status \in Store!Active
  /\ alarms[id].originator = d

(* A device is alarmed by the rows about it that are active.               *)
LEMMA AlarmedBy ==
  ASSUME alarms \in Table, NEW d
  PROVE  Alarmed(d) <=> \E id \in Ids : About(id, d)
BY RowSubject DEF Alarmed, Store!Found, Store!IsActive, Table, CL, About

(* As above, for the table a step leaves behind.                           *)
LEMMA AlarmedByNext ==
  ASSUME alarms' \in Table, NEW d
  PROVE  Alarmed(d)' <=> \E id \in Ids : About(id, d)'
BY RowSubject DEF Alarmed, Store!Found, Store!IsActive, Table, CL, About

(* A step that leaves the rows about a device alone leaves its alarm alone.*)
LEMMA SameAlarm ==
  ASSUME alarms \in Table, alarms' \in Table, NEW d,
         \A id \in Ids : About(id, d)' <=> About(id, d)
  PROVE  Alarmed(d)' <=> Alarmed(d)
BY AlarmedBy, AlarmedByNext

-----------------------------------------------------------------------------
(* What the operations of the store do to the devices' alarms.             *)

(* Raising the alarm of a device alarms it, and no other.                  *)
LEMMA Raising ==
  ASSUME alarms \in Table, NEW d \in Devices,
         Store!CreateOrUpdate(d, "DEVICE", CL, "CRITICAL")
  PROVE  /\ alarms' \in Table
         /\ Alarmed(d)'
         /\ \A e \in Devices \ {d} : Alarmed(e)' <=> Alarmed(e)
<1>1. CASE \E id \in Store!Found(d, CL) : Store!Update(id, "CRITICAL")
  <2>1. PICK id \in Store!Found(d, CL) : Store!Update(id, "CRITICAL")
    BY <1>1
  <2>2. /\ id \in Ids /\ alarms[id] \in Store!Row
        /\ alarms[id].status \in Store!Active
        /\ alarms[id].originator = d
    BY <2>1 DEF Store!Found, Store!IsActive, Table
  <2>3. /\ alarms'[id] = [alarms[id] EXCEPT !.severity = "CRITICAL"]
        /\ \A j \in Ids \ {id} : alarms'[j] = alarms[j]
    BY <2>1, <2>2 DEF Store!Update, Table
  <2>4. /\ alarms'[id] \in Store!Row /\ alarms'[id] # None
        /\ alarms'[id].status = alarms[id].status
        /\ alarms'[id].originator = d
    BY <2>2, <2>3, RowWithSeverity
  <2>5. alarms' \in Table
    BY <2>1, <2>2, <2>3, <2>4 DEF Store!Update, Table
  <2>6. Alarmed(d)'
    BY <2>2, <2>4, <2>5, AlarmedByNext DEF About
  <2>7. ASSUME NEW e \in Devices \ {d} PROVE Alarmed(e)' <=> Alarmed(e)
    <3>1. \A j \in Ids : About(j, e)' <=> About(j, e)
      BY <2>2, <2>3, <2>4 DEF About
    <3>2. QED BY <3>1, <2>5, SameAlarm
  <2>8. QED BY <2>5, <2>6, <2>7
<1>2. CASE Store!Found(d, CL) = {} /\ Store!Insert(d, "DEVICE", CL, "CRITICAL")
  <2>1. PICK id \in Ids :
          /\ alarms[id] = None
          /\ alarms' = [alarms EXCEPT ![id] =
               [originator |-> d, originType |-> "DEVICE", type |-> CL,
                severity |-> "CRITICAL", status |-> "ACTIVE_UNACK", old |-> FALSE]]
    BY <1>2 DEF Store!Insert
  <2>2. /\ alarms'[id] \in Store!Row
        /\ alarms'[id].status \in Store!Active
        /\ alarms'[id].originator = d
        /\ \A j \in Ids \ {id} : alarms'[j] = alarms[j]
    BY <2>1 DEF Store!Row, Store!Active, Table, CL
  <2>3. alarms' \in Table
    BY <2>1, <2>2 DEF Table
  <2>4. Alarmed(d)'
    BY <2>2, <2>3, RowSubject, AlarmedByNext DEF About
  <2>5. ASSUME NEW e \in Devices \ {d} PROVE Alarmed(e)' <=> Alarmed(e)
    <3>1. \A j \in Ids : About(j, e)' <=> About(j, e)
      BY <2>1, <2>2 DEF About
    <3>2. QED BY <3>1, <2>3, SameAlarm
  <2>6. QED BY <2>3, <2>4, <2>5
<1>3. QED BY <1>1, <1>2 DEF Store!CreateOrUpdate

(* Clearing rows silences the devices all of whose active rows are         *)
(* cleared, and leaves those none of whose rows are as they were.          *)
LEMMA Clearing ==
  ASSUME alarms \in Table, NEW ids, alarms' = Store!Cleared(ids)
  PROVE  /\ alarms' \in Table
         /\ \A d \in Devices : Store!Found(d, CL) \subseteq ids => ~Alarmed(d)'
         /\ \A d \in Devices : Store!Found(d, CL) \cap ids = {}
                                 => (Alarmed(d)' <=> Alarmed(d))
<1>1. \A id \in Ids :
        IF id \in ids /\ Store!IsActive(id)
          THEN alarms'[id] = [alarms[id] EXCEPT !.status = "CLEARED"]
          ELSE alarms'[id] = alarms[id]
  BY DEF Store!Cleared
<1>2. ASSUME NEW id \in Ids, id \in ids, Store!IsActive(id)
      PROVE  /\ alarms[id] \in Store!Row
             /\ alarms'[id] \in Store!Row /\ alarms'[id] # None
             /\ alarms'[id].status = "CLEARED"
             /\ alarms'[id].originator = alarms[id].originator
  <2>1. alarms[id] \in Store!Row
    BY <1>2 DEF Table, Store!IsActive
  <2>2. alarms'[id] = [alarms[id] EXCEPT !.status = "CLEARED"]
    BY <1>1, <1>2
  <2>3. QED BY <2>1, <2>2, RowWithStatus
<1>3. alarms' \in Table
  BY <1>1, <1>2 DEF Store!Cleared, Table
<1>4. ASSUME NEW d \in Devices, Store!Found(d, CL) \subseteq ids PROVE ~Alarmed(d)'
  <2> SUFFICES ASSUME NEW id \in Ids, alarms'[id] # None,
                      alarms'[id].status \in Store!Active,
                      alarms'[id].originator = d
               PROVE  FALSE
    BY <1>3, AlarmedByNext DEF About
  <2>1. CASE id \in ids /\ Store!IsActive(id)
    BY <2>1, <1>2 DEF Store!Active
  <2>2. CASE ~(id \in ids /\ Store!IsActive(id))
    <3>1. alarms'[id] = alarms[id]
      BY <2>2, <1>1
    <3>2. Store!IsActive(id) /\ alarms[id] \in Store!Row
      BY <3>1 DEF Store!IsActive, Table
    <3>3. id \in Store!Found(d, CL)
      BY <3>1, <3>2, RowSubject DEF Store!Found
    <3>4. QED BY <3>2, <3>3, <2>2, <1>4
  <2>3. QED BY <2>1, <2>2
<1>5. ASSUME NEW d \in Devices, Store!Found(d, CL) \cap ids = {}
      PROVE  Alarmed(d)' <=> Alarmed(d)
  <2>1. ASSUME NEW id \in Ids, id \in ids, Store!IsActive(id)
        PROVE  /\ alarms'[id].originator # d
               /\ alarms[id].originator # d
    <3>1. alarms[id].type = CL
      BY <2>1, <1>2, RowSubject
    <3>2. alarms[id].originator # d
      BY <2>1, <3>1, <1>5 DEF Store!Found
    <3>3. QED BY <2>1, <3>2, <1>2
  <2>2. \A id \in Ids : About(id, d)' <=> About(id, d)
    BY <1>1, <2>1 DEF About
  <2>3. QED BY <2>2, <1>3, SameAlarm
<1>6. QED BY <1>3, <1>4, <1>5

(* Clearing the alarm of a device by its name clears it, and no other.     *)
LEMMA ClearingByOrigin ==
  ASSUME alarms \in Table, NEW d \in Devices,
         Store!ClearByOriginAndType(d, CL, "DEVICE")
  PROVE  /\ alarms' \in Table
         /\ ~Alarmed(d)'
         /\ \A e \in Devices \ {d} : Alarmed(e)' <=> Alarmed(e)
<1> DEFINE ids == {id \in Store!Found(d, CL) : alarms[id].originType = "DEVICE"}
<1>1. alarms' = Store!Cleared(ids)
  BY DEF Store!ClearByOriginAndType
<1>2. Store!Found(d, CL) \subseteq ids
  BY RowSubject DEF Store!Found, Store!IsActive, Table
<1>3. \A e \in Devices \ {d} : Store!Found(e, CL) \cap ids = {}
  BY DEF Store!Found
<1> HIDE DEF ids
<1>4. QED BY <1>1, <1>2, <1>3, Clearing

(* Clearing one row concerns the device it is about.                       *)
LEMMA ClearingOne ==
  ASSUME alarms \in Table, NEW id \in Ids, Store!Clear(id)
  PROVE  /\ alarms' \in Table
         /\ alarms[id].originator \in Devices
         /\ \A e \in Devices \ {alarms[id].originator} : Alarmed(e)' <=> Alarmed(e)
<1>1. alarms' = Store!Cleared({id}) /\ Store!IsActive(id)
  BY DEF Store!Clear
<1>2. \A e \in Devices \ {alarms[id].originator} : Store!Found(e, CL) \cap {id} = {}
  BY DEF Store!Found
<1>3. alarms[id].originator \in Devices
  BY <1>1, RowSubject DEF Store!IsActive, Table
<1>4. QED BY <1>1, <1>2, <1>3, Clearing

(* Acknowledging an alarm, its growing old and purging old ones alarm and  *)
(* silence nobody.                                                         *)
LEMMA Acknowledging ==
  ASSUME alarms \in Table, NEW id \in Ids, Store!Acknowledge(id)
  PROVE  alarms' \in Table /\ \A d \in Devices : Alarmed(d)' <=> Alarmed(d)
<1>1. /\ alarms[id] \in Store!Row /\ alarms[id] # None
      /\ alarms[id].status = "ACTIVE_UNACK"
      /\ alarms'[id] = [alarms[id] EXCEPT !.status = "ACTIVE_ACK"]
      /\ \A j \in Ids \ {id} : alarms'[j] = alarms[j]
  BY DEF Store!Acknowledge, Table
<1>2. /\ alarms'[id] \in Store!Row /\ alarms'[id] # None
      /\ alarms'[id].status = "ACTIVE_ACK"
      /\ alarms'[id].originator = alarms[id].originator
  BY <1>1, RowWithStatus
<1>3. alarms' \in Table
  BY <1>1, <1>2 DEF Store!Acknowledge, Table
<1>4. {"ACTIVE_UNACK", "ACTIVE_ACK"} \subseteq Store!Active
  BY DEF Store!Active
<1>5. \A d \in Devices, j \in Ids : About(j, d)' <=> About(j, d)
  BY <1>1, <1>2, <1>4 DEF About
<1>6. QED BY <1>3, <1>5, SameAlarm

LEMMA Ageing ==
  ASSUME alarms \in Table, NEW id \in Ids, Store!Age(id)
  PROVE  alarms' \in Table /\ \A d \in Devices : Alarmed(d)' <=> Alarmed(d)
<1>1. /\ alarms[id] \in Store!Row /\ alarms[id] # None
      /\ alarms'[id] = [alarms[id] EXCEPT !.old = TRUE]
      /\ \A j \in Ids \ {id} : alarms'[j] = alarms[j]
  BY DEF Store!Age, Table
<1>2. /\ alarms'[id] \in Store!Row /\ alarms'[id] # None
      /\ alarms'[id].status = alarms[id].status
      /\ alarms'[id].originator = alarms[id].originator
  BY <1>1, RowAged
<1>3. alarms' \in Table
  BY <1>1, <1>2 DEF Store!Age, Table
<1>4. \A d \in Devices, j \in Ids : About(j, d)' <=> About(j, d)
  BY <1>1, <1>2, <1>3 DEF About
<1>5. QED BY <1>2, <1>3, <1>4, SameAlarm

LEMMA Purging ==
  ASSUME alarms \in Table, Store!PurgeCleared
  PROVE  alarms' \in Table /\ \A d \in Devices : Alarmed(d)' <=> Alarmed(d)
<1>1. \A id \in Ids :
        \/ alarms'[id] = alarms[id]
        \/ /\ alarms'[id] = None /\ alarms[id] # None
           /\ alarms[id].status = "CLEARED"
  BY DEF Store!PurgeCleared, Store!Purged
<1>2. alarms' \in Table
  BY <1>1 DEF Store!PurgeCleared, Store!Purged, Table
<1>3. "CLEARED" \notin Store!Active
  BY DEF Store!Active
<1>4. \A d \in Devices, j \in Ids : About(j, d)' <=> About(j, d)
  BY <1>1, <1>2, <1>3 DEF About
<1>5. QED BY <1>2, <1>3, <1>4, SameAlarm

-----------------------------------------------------------------------------
(* The parts of a step.                                                    *)

(* An event of the environment keeps its budget.                           *)
LEMMA Spending ==
  ASSUME TypeOK, NEW k \in Kinds, Spend(k)
  PROVE  spent' \in [Kinds -> Nat] /\ \A j \in Kinds : spent'[j] <= Budget[j]
<1>1. /\ spent \in [Kinds -> Nat] /\ Budget \in [Kinds -> Nat]
      /\ \A j \in Kinds : spent[j] <= Budget[j]
      /\ spent[k] < Budget[k]
      /\ spent' = [spent EXCEPT ![k] = @ + 1]
  BY ConstantsAssumption DEF TypeOK, Spend
<1>2. spent' \in [Kinds -> Nat]
  BY <1>1
<1>3. ASSUME NEW j \in Kinds PROVE spent'[j] <= Budget[j]
  <2>1. CASE j = k
    <3>1. spent'[k] = spent[k] + 1 /\ spent[k] \in Nat /\ Budget[k] \in Nat
      BY <1>1
    <3>2. QED BY <3>1, <1>1, <2>1
  <2>2. CASE j # k
    BY <1>1, <2>2
  <2>3. QED BY <2>1, <2>2
<1>4. QED BY <1>2, <1>3

(* The count a failed poll writes is a count.                              *)
LEMMA Counting ==
  ASSUME TypeOK, NEW d \in Devices, NEW n \in 0..(Threshold + 1), SetCount(d, n)
  PROVE  /\ failCounts' \in [Devices -> 0..(Threshold + 1) \cup {None}]
         /\ lost' \subseteq Devices
BY DEF TypeOK, SetCount

(* A failed poll takes a device offline and raises its alarm, or does      *)
(* neither.                                                                *)
LEMMA Failing ==
  ASSUME TypeOK, InStep, NEW d \in Devices, TrackFailure(d), UNCHANGED answers
  PROVE  TypeOK' /\ InStep' /\ [Store!Next]_alarms
<1> DEFINE count == IF Count(d) > Threshold THEN Count(d) ELSE Count(d) + 1
<1>1. count \in 0..(Threshold + 1)
  BY ConstantsAssumption DEF Count, TypeOK
<1>2. /\ failCounts' \in [Devices -> 0..(Threshold + 1) \cup {None}]
      /\ lost' \subseteq Devices
  BY <1>1, Counting DEF TrackFailure
<1>3. streak' \in [Devices -> 0..Threshold]
  BY ConstantsAssumption DEF TrackFailure, TypeOK
<1>4. alarms \in Table
  BY DEF TypeOK, Store!TypeOK, Table
<1>5. CASE count = Threshold /\ d \notin offline
  <2>1. offline' = offline \cup {d} /\ Raise(d)
    BY <1>5 DEF TrackFailure
  <2>2. CASE /\ Store!CreateOrUpdate(d, "DEVICE", CL, "CRITICAL")
             /\ unsettled' = unsettled \ {d}
             /\ UNCHANGED spent
    <3>1. /\ alarms' \in Table
          /\ Alarmed(d)'
          /\ \A e \in Devices \ {d} : Alarmed(e)' <=> Alarmed(e)
      BY <2>2, <1>4, Raising
    <3>2. TypeOK'
      BY <1>2, <1>3, <2>1, <2>2, <3>1 DEF TypeOK, Store!TypeOK, Table
    <3>3. InStep'
      BY <2>1, <2>2, <3>1 DEF InStep
    <3>4. Store!Next
      BY <2>2 DEF Store!Next, CL
    <3>5. QED BY <3>2, <3>3, <3>4
  <2>3. CASE /\ Spend("fault")
             /\ unsettled' = unsettled \cup {d}
             /\ UNCHANGED alarms
    <3>1. spent' \in [Kinds -> Nat] /\ \A j \in Kinds : spent'[j] <= Budget[j]
      BY <2>3, Spending DEF Kinds
    <3>2. TypeOK'
      BY <1>2, <1>3, <2>1, <2>3, <3>1 DEF TypeOK, Store!TypeOK
    <3>3. \A e \in Devices : Alarmed(e)' <=> Alarmed(e)
      BY <2>3 DEF Alarmed, Store!Found, Store!IsActive
    <3>4. InStep'
      BY <2>1, <2>3, <3>3 DEF InStep
    <3>5. QED BY <3>2, <3>4, <2>3
  <2>4. QED BY <2>1, <2>2, <2>3 DEF Raise, CL
<1>6. CASE ~(count = Threshold /\ d \notin offline)
  <2>1. UNCHANGED <<offline, alarms, unsettled, spent>>
    BY <1>6 DEF TrackFailure
  <2>2. TypeOK'
    BY <1>2, <1>3, <2>1 DEF TypeOK, Store!TypeOK
  <2>3. InStep'
    BY <2>1 DEF InStep, Alarmed, Store!Found, Store!IsActive
  <2>4. QED BY <2>1, <2>2, <2>3
<1>7. QED BY <1>5, <1>6

(* A poll that succeeds brings a device that was offline back, and clears  *)
(* its alarm.                                                              *)
LEMMA Seeing ==
  ASSUME TypeOK, InStep, NEW d \in Devices, Seen(d), UNCHANGED answers
  PROVE  TypeOK' /\ InStep' /\ [Store!Next]_alarms
<1>1. /\ failCounts' \in [Devices -> 0..(Threshold + 1) \cup {None}]
      /\ lost' \subseteq Devices
  <2>1. 0 \in 0..(Threshold + 1)
    BY ConstantsAssumption
  <2>2. QED BY <2>1, Counting DEF Seen
<1>2. streak' \in [Devices -> 0..Threshold]
  BY ConstantsAssumption DEF Seen, TypeOK
<1>3. alarms \in Table
  BY DEF TypeOK, Store!TypeOK, Table
<1>4. offline' = offline \ {d} /\ UNCHANGED spent
  BY DEF Seen, BackOnline
<1>5. CASE d \in offline
  <2>1. /\ Store!ClearByOriginAndType(d, CL, "DEVICE")
        /\ unsettled' = unsettled \ {d}
    BY <1>5 DEF Seen, BackOnline, CL
  <2>2. /\ alarms' \in Table
        /\ ~Alarmed(d)'
        /\ \A e \in Devices \ {d} : Alarmed(e)' <=> Alarmed(e)
    BY <2>1, <1>3, ClearingByOrigin
  <2>3. TypeOK'
    BY <1>1, <1>2, <1>4, <2>1, <2>2 DEF TypeOK, Store!TypeOK, Table
  <2>4. InStep'
    BY <1>4, <2>1, <2>2 DEF InStep
  <2>5. Store!Next
    BY <2>1 DEF Store!Next, CL
  <2>6. QED BY <2>3, <2>4, <2>5
<1>6. CASE d \notin offline
  <2>1. UNCHANGED <<offline, alarms, unsettled>>
    BY <1>4, <1>6 DEF Seen, BackOnline
  <2>2. TypeOK'
    BY <1>1, <1>2, <1>4, <2>1 DEF TypeOK, Store!TypeOK
  <2>3. InStep'
    BY <2>1 DEF InStep, Alarmed, Store!Found, Store!IsActive
  <2>4. QED BY <2>1, <2>2, <2>3
<1>7. QED BY <1>5, <1>6

(* A poll that succeeds and fails to clear the alarm leaves the device     *)
(* unsettled.                                                              *)
LEMMA SeeingNotClearing ==
  ASSUME TypeOK, InStep, NEW d \in Devices, SeenNotCleared(d), UNCHANGED answers
  PROVE  TypeOK' /\ InStep' /\ [Store!Next]_alarms
<1>1. spent' \in [Kinds -> Nat] /\ \A j \in Kinds : spent'[j] <= Budget[j]
  BY Spending DEF SeenNotCleared, Kinds
<1>2. TypeOK'
  BY <1>1, ConstantsAssumption DEF TypeOK, Store!TypeOK, SeenNotCleared
<1>3. \A e \in Devices : Alarmed(e)' <=> Alarmed(e)
  BY DEF SeenNotCleared, Alarmed, Store!Found, Store!IsActive
<1>4. InStep'
  BY <1>3 DEF InStep, SeenNotCleared
<1>5. QED BY <1>2, <1>4 DEF SeenNotCleared

-----------------------------------------------------------------------------
(* Every step keeps the types and the agreement, and is one of the alarm   *)
(* store or changes none of its rows.                                      *)
LEMMA Step ==
  ASSUME TypeOK, InStep, [Next]_vars
  PROVE  TypeOK' /\ InStep' /\ [Store!Next]_alarms
<1> USE DEF Devices
<1>1. ASSUME NEW d \in Polled, Poll(d)
      PROVE  TypeOK' /\ InStep' /\ [Store!Next]_alarms
  BY <1>1, Failing, Seeing, SeeingNotClearing DEF Poll
<1>2. ASSUME NEW d \in Cov, Serve(d)
      PROVE  TypeOK' /\ InStep' /\ [Store!Next]_alarms
  <2>1. CASE ~answers[d] /\ TrackFailure(d) /\ UNCHANGED answers
    BY <2>1, Failing
  <2>2. CASE /\ streak' = [streak EXCEPT ![d] = 0]
             /\ UNCHANGED <<failCounts, offline, alarms, answers, spent, lost, unsettled>>
    <3>1. TypeOK'
      BY <2>2, ConstantsAssumption DEF TypeOK, Store!TypeOK
    <3>2. InStep'
      BY <2>2 DEF InStep, Alarmed, Store!Found, Store!IsActive
    <3>3. QED BY <2>2, <3>1, <3>2
  <2>3. QED BY <1>2, <2>1, <2>2 DEF Serve
<1>3. ASSUME NEW d \in Devices, Flap(d)
      PROVE  TypeOK' /\ InStep' /\ [Store!Next]_alarms
  <2>1. spent' \in [Kinds -> Nat] /\ \A j \in Kinds : spent'[j] <= Budget[j]
    BY <1>3, Spending DEF Flap, Kinds
  <2>2. TypeOK'
    BY <1>3, <2>1 DEF Flap, TypeOK, Store!TypeOK
  <2>3. InStep'
    BY <1>3 DEF Flap, InStep, Alarmed, Store!Found, Store!IsActive
  <2>4. QED BY <1>3, <2>2, <2>3 DEF Flap
<1>4. alarms \in Table
  BY DEF TypeOK, Store!TypeOK, Table
<1>5. ASSUME NEW id \in Ids, AcknowledgeAlarm(id)
      PROVE  TypeOK' /\ InStep' /\ [Store!Next]_alarms
  <2>1. alarms' \in Table /\ \A d \in Devices : Alarmed(d)' <=> Alarmed(d)
    BY <1>4, <1>5, Acknowledging DEF AcknowledgeAlarm
  <2>2. TypeOK'
    BY <1>5, <2>1 DEF AcknowledgeAlarm, TypeOK, Store!TypeOK, Table
  <2>3. InStep'
    BY <1>5, <2>1 DEF AcknowledgeAlarm, InStep
  <2>4. QED BY <1>5, <2>2, <2>3 DEF AcknowledgeAlarm, Store!Next
<1>6. ASSUME NEW id \in Ids, ResetAlarm(id)
      PROVE  TypeOK' /\ InStep' /\ [Store!Next]_alarms
  <2>1. /\ alarms' \in Table
        /\ alarms[id].originator \in Devices
        /\ \A e \in Devices \ {alarms[id].originator} : Alarmed(e)' <=> Alarmed(e)
    BY <1>4, <1>6, ClearingOne DEF ResetAlarm
  <2>2. spent' \in [Kinds -> Nat] /\ \A j \in Kinds : spent'[j] <= Budget[j]
    BY <1>6, Spending DEF ResetAlarm, Kinds
  <2>3. TypeOK'
    BY <1>6, <2>1, <2>2 DEF ResetAlarm, TypeOK, Store!TypeOK, Table
  <2>4. InStep'
    BY <1>6, <2>1 DEF ResetAlarm, InStep
  <2>5. QED BY <1>6, <2>3, <2>4 DEF ResetAlarm, Store!Next
<1>7. ASSUME NEW id \in Ids, Age(id)
      PROVE  TypeOK' /\ InStep' /\ [Store!Next]_alarms
  <2>1. alarms' \in Table /\ \A d \in Devices : Alarmed(d)' <=> Alarmed(d)
    BY <1>4, <1>7, Ageing DEF Age
  <2>2. TypeOK'
    BY <1>7, <2>1 DEF Age, TypeOK, Store!TypeOK, Table
  <2>3. InStep'
    BY <1>7, <2>1 DEF Age, InStep
  <2>4. QED BY <1>7, <2>2, <2>3 DEF Age, Store!Next
<1>8. CASE Restart
  <2>1. alarms' \in Table /\ \A d \in Devices : Alarmed(d)' <=> Alarmed(d)
    <3>1. CASE Store!PurgeCleared
      BY <3>1, <1>4, Purging
    <3>2. CASE UNCHANGED alarms
      BY <3>2, <1>4 DEF Alarmed, Store!Found, Store!IsActive
    <3>3. QED BY <1>8, <3>1, <3>2 DEF Restart
  <2>2. spent' \in [Kinds -> Nat] /\ \A j \in Kinds : spent'[j] <= Budget[j]
    BY <1>8, Spending DEF Restart, Kinds
  <2>3. TypeOK'
    BY <1>8, <2>1, <2>2, ConstantsAssumption DEF Restart, TypeOK, Store!TypeOK, Table
  <2>4. InStep'
    BY <1>8, <2>1 DEF Restart, InStep
  <2>5. QED BY <1>8, <2>3, <2>4 DEF Restart, Store!Next
<1>9. CASE UNCHANGED vars
  BY <1>9 DEF vars, TypeOK, Store!TypeOK, InStep, Alarmed, Store!Found, Store!IsActive
<1>10. QED BY <1>1, <1>2, <1>3, <1>5, <1>6, <1>7, <1>8, <1>9 DEF Next

(* The start.                                                              *)
LEMMA Start == Init => TypeOK /\ InStep /\ Store!Init
<1> SUFFICES ASSUME Init PROVE TypeOK /\ InStep /\ Store!Init
  OBVIOUS
<1>1. TypeOK
  BY ConstantsAssumption DEF Init, TypeOK, Store!Init, Store!TypeOK, Kinds
<1>2. \A d \in Devices : ~Alarmed(d)
  BY DEF Init, Alarmed, Store!Init, Store!Found, Store!IsActive
<1>3. QED BY <1>1, <1>2 DEF Init, InStep

(* The variables have their types in every reachable state.                *)
THEOREM TypeCorrect == Spec => []TypeOK
BY Start, Step, PTL DEF Spec

(* The offline set and the alarm table agree about every settled device.   *)
THEOREM InStepHolds == Spec => []InStep
<1>1. TypeOK /\ InStep /\ [Next]_vars => (TypeOK /\ InStep)'
  BY Step
<1>2. QED BY <1>1, Start, PTL DEF Spec

(* The poller implements the alarm store: all it does to the table is what *)
(* the store offers.                                                       *)
THEOREM Implements == Spec => UsesStore
<1>1. TypeOK /\ InStep /\ [Next]_vars => (TypeOK /\ InStep)'
  BY Step
<1>2. TypeOK /\ InStep /\ [Next]_vars => [Store!Next]_alarms
  BY Step
<1>3. QED BY <1>1, <1>2, Start, PTL DEF Spec, UsesStore, Store!Spec

-----------------------------------------------------------------------------
(* Going offline.  The count that decides it is not the streak: it is lost  *)
(* with a racing write, and a device in change-of-value mode never resets   *)
(* it.  For a polled device no write of which was lost, the count is at     *)
(* most the streak, as far as that is counted.                              *)
CountIsEarned ==
  \A d \in Polled \ lost : Count(d) <= streak[d] \/ streak[d] = Threshold

(* The counts and the streaks are numbers.                                 *)
LEMMA Numbers ==
  ASSUME TypeOK
  PROVE  /\ Threshold \in Nat /\ Threshold >= 2
         /\ \A d \in Devices : Count(d) \in 0..(Threshold + 1) /\ streak[d] \in 0..Threshold
BY ConstantsAssumption DEF TypeOK, Count

(* What a write of the count does to the device's count and to the others' *)
(* unless it is lost.                                                      *)
LEMMA Written ==
  ASSUME TypeOK, NEW d \in Devices, NEW n \in Nat, SetCount(d, n)
  PROVE  /\ lost \subseteq lost'
         /\ d \notin lost' => Count(d)' = n
         /\ \A e \in Devices \ {d} : Count(e)' = Count(e)
BY ConstantsAssumption DEF SetCount, Count, TypeOK

(* A step keeps the counts earned, and takes a polled device offline only  *)
(* when its streak reaches the threshold or a write was lost.              *)
LEMMA Earning ==
  ASSUME TypeOK, CountIsEarned, [Next]_vars
  PROVE  /\ CountIsEarned'
         /\ \A d \in (offline' \ offline) \cap Polled :
              streak'[d] = Threshold \/ d \in lost'
<1> DEFINE Earned ==
             /\ CountIsEarned'
             /\ \A d \in (offline' \ offline) \cap Polled :
                  streak'[d] = Threshold \/ d \in lost'
<1> HIDE DEF Earned
<1>1. /\ Threshold \in Nat /\ Threshold >= 2
      /\ \A d \in Devices : Count(d) \in 0..(Threshold + 1) /\ streak[d] \in 0..Threshold
      /\ streak \in [Devices -> 0..Threshold]
      /\ Polled \subseteq Devices
  BY Numbers DEF TypeOK, Devices
<1>2. ASSUME UNCHANGED <<failCounts, lost, streak>>, offline' \subseteq offline
      PROVE  Earned
  BY <1>2 DEF CountIsEarned, Count, Earned
<1>3. ASSUME NEW d \in Polled, TrackFailure(d) PROVE Earned
  <2> DEFINE count == IF Count(d) > Threshold THEN Count(d) ELSE Count(d) + 1
  <2>1. count \in Nat
    BY <1>1
  <2>2. /\ lost \subseteq lost'
        /\ d \notin lost' => Count(d)' = count
        /\ \A e \in Devices \ {d} : Count(e)' = Count(e)
    BY <1>1, <1>3, <2>1, Written DEF TrackFailure
  <2>3. /\ streak'[d] = IF streak[d] < Threshold THEN streak[d] + 1 ELSE streak[d]
        /\ \A e \in Devices \ {d} : streak'[e] = streak[e]
    BY <1>1, <1>3 DEF TrackFailure
  <2>4. offline' = offline \/ (count = Threshold /\ offline' = offline \cup {d})
    BY <1>3 DEF TrackFailure
  <2>5. ASSUME d \notin lost'
        PROVE  /\ count <= streak'[d] \/ streak'[d] = Threshold
               /\ count = Threshold => streak'[d] = Threshold
    <3>1. Count(d) <= streak[d] \/ streak[d] = Threshold
      BY <2>2, <2>5 DEF CountIsEarned
    <3>2. Count(d) \in 0..(Threshold + 1) /\ streak[d] \in 0..Threshold
      BY <1>1
    <3>3. QED
      BY <1>1, <2>3, <3>1, <3>2
  <2> HIDE DEF count
  <2>6. ASSUME NEW e \in Polled \ lost'
        PROVE  Count(e)' <= streak'[e] \/ streak'[e] = Threshold
    <3>1. CASE e = d
      BY <2>2, <2>5, <2>6, <3>1
    <3>2. CASE e # d
      <4>1. Count(e)' = Count(e) /\ streak'[e] = streak[e]
        BY <1>1, <2>2, <2>3, <3>2
      <4>2. Count(e) <= streak[e] \/ streak[e] = Threshold
        BY <2>2, <2>6 DEF CountIsEarned
      <4>3. QED
        BY <4>1, <4>2
    <3>3. QED
      BY <3>1, <3>2
  <2>7. CountIsEarned'
    BY <2>6 DEF CountIsEarned
  <2>8. QED
    BY <2>4, <2>5, <2>7 DEF Earned
<1>4. ASSUME NEW d \in Polled, NEW n \in 0..1, SetCount(d, n),
             streak' = [streak EXCEPT ![d] = n], offline' \subseteq offline
      PROVE  Earned
  <2>1. /\ lost \subseteq lost'
        /\ d \notin lost' => Count(d)' = n
        /\ \A e \in Devices \ {d} : Count(e)' = Count(e)
    BY <1>1, <1>4, Written
  <2>2. streak'[d] = n /\ \A e \in Devices \ {d} : streak'[e] = streak[e]
    BY <1>1, <1>4
  <2>3. ASSUME NEW e \in Polled \ lost'
        PROVE  Count(e)' <= streak'[e] \/ streak'[e] = Threshold
    <3>1. CASE e = d
      <4>1. Count(e)' = n /\ streak'[e] = n /\ n <= n
        BY <2>1, <2>2, <2>3, <3>1
      <4>2. QED
        BY <4>1
    <3>2. CASE e # d
      <4>1. Count(e)' = Count(e) /\ streak'[e] = streak[e]
        BY <1>1, <2>1, <2>2, <3>2
      <4>2. Count(e) <= streak[e] \/ streak[e] = Threshold
        BY <2>1, <2>3 DEF CountIsEarned
      <4>3. QED
        BY <4>1, <4>2
    <3>3. QED
      BY <3>1, <3>2
  <2>4. CountIsEarned'
    BY <2>3 DEF CountIsEarned
  <2>5. QED
    BY <1>4, <2>4 DEF Earned
<1>5. ASSUME NEW d \in Polled, Poll(d) PROVE Earned
  <2>1. CASE TrackFailure(d)
    BY <1>3, <2>1
  <2>2. CASE Seen(d)
    <3>1. /\ SetCount(d, 0) /\ streak' = [streak EXCEPT ![d] = 0]
          /\ offline' = offline \ {d}
      BY <2>2 DEF Seen, BackOnline
    <3>2. 0 \in 0..1 /\ offline \ {d} \subseteq offline
      OBVIOUS
    <3>3. QED
      BY ONLY <1>4, <3>1, <3>2, d \in Polled
  <2>3. CASE SeenNotCleared(d)
    <3>1. /\ SetCount(d, 1) /\ streak' = [streak EXCEPT ![d] = 1]
          /\ offline' \subseteq offline /\ 1 \in 0..1
      BY <2>3 DEF SeenNotCleared, SetCount
    <3>2. QED
      BY ONLY <1>4, <3>1, d \in Polled
  <2>4. QED
    BY <1>5, <2>1, <2>2, <2>3 DEF Poll
<1>6. ASSUME NEW d \in Cov, Serve(d) PROVE Earned
  <2>1. d \notin Polled /\ d \in Devices
    BY ConstantsAssumption DEF Devices
  <2>2. lost \subseteq lost'
    BY <1>6 DEF Serve, TrackFailure, SetCount
  <2>3. offline' \subseteq offline \cup {d}
    BY <1>6 DEF Serve, TrackFailure
  <2>4. \A e \in Polled : streak'[e] = streak[e]
    BY <1>1, <1>6, <2>1 DEF Serve, TrackFailure
  <2>5. \A e \in Polled : Count(e)' = Count(e)
    BY <1>1, <1>6, <2>1 DEF Serve, TrackFailure, SetCount, Count, TypeOK
  <2>6. CountIsEarned'
    BY <2>2, <2>4, <2>5 DEF CountIsEarned
  <2>7. QED
    BY <2>1, <2>3, <2>6 DEF Earned
<1>7. ASSUME NEW d \in Devices, Flap(d) PROVE Earned
  BY <1>2, <1>7 DEF Flap
<1>8. ASSUME NEW id \in Ids, AcknowledgeAlarm(id) \/ ResetAlarm(id) \/ Age(id)
      PROVE  Earned
  BY <1>2, <1>8 DEF AcknowledgeAlarm, ResetAlarm, Age
<1>9. ASSUME Restart PROVE Earned
  <2>1. \A e \in Devices : Count(e)' = 0 /\ streak'[e] = 0
    BY <1>9 DEF Restart, Count
  <2>2. CountIsEarned'
    BY <1>1, <2>1 DEF CountIsEarned
  <2>3. QED
    BY <1>9, <2>2 DEF Restart, Earned
<1>10. ASSUME UNCHANGED vars PROVE Earned
  <2>1. UNCHANGED <<failCounts, lost, streak>> /\ offline' \subseteq offline
    BY <1>10 DEF vars
  <2>2. QED
    BY ONLY <1>2, <2>1
<1>11. Earned
  BY ONLY [Next]_vars, <1>5, <1>6, <1>7, <1>8, <1>9, <1>10 DEF Next
<1>12. QED
  BY <1>11 DEF Earned

(* A polled device goes offline only after Threshold failed polls in a     *)
(* row, unless a racing write lost a reset of its count (TrackFailure).    *)
THEOREM OfflineEarned == Spec => OfflineIsEarned
<1>1. Init => CountIsEarned
  BY ConstantsAssumption DEF Init, CountIsEarned, Count, Devices
<1>2. TypeOK /\ CountIsEarned /\ [Next]_vars => CountIsEarned'
  BY Earning
<1>3. TypeOK /\ CountIsEarned /\ [Next]_vars
        => [\A d \in (offline' \ offline) \cap Polled :
              streak'[d] = Threshold \/ d \in lost']_vars
  BY Earning
<1>4. QED
  BY <1>1, <1>2, <1>3, TypeCorrect, PTL DEF Spec, OfflineIsEarned
=============================================================================
