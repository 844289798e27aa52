---------------------------- MODULE Control_proofs ---------------------------
(***************************************************************************)
(* Proofs about the two loops of the host that write to devices: the       *)
(* control engine, for any rules, targets, connections and number of alarm *)
(* rows, and the energy management, for any consumers and any powers.      *)
(***************************************************************************)
EXTENDS ControlEngine, EmsDispatch, SequenceTheorems, FiniteSetTheorems, TLAPS

-----------------------------------------------------------------------------
(* The control engine: what it remembers is of its type, an edge fires     *)
(* once, and a rule whose last write failed is alarmed.                    *)

CWF == "Control Write Failure"

Table == [Ids -> Store!Row \cup {Nothing}]

\* the row is active, and about the rule
About(id, r) ==
  /\ alarms[id] # Nothing
  /\ alarms[id].status \in Store!Active
  /\ alarms[id].originator = r

(* Every row is about a rule, and there is one type of alarm.              *)
LEMMA RowSubject ==
  ASSUME NEW row \in Store!Row
  PROVE  row.originator \in Rules /\ row.type = CWF /\ row.severity = "WARNING"
BY DEF Store!Row, CWF

(* A rule is alarmed by the rows about it that are active.                 *)
LEMMA AlarmedBy ==
  ASSUME alarms \in Table, NEW r
  PROVE  Alarmed(r) <=> \E id \in Ids : About(id, r)
BY RowSubject DEF Alarmed, Store!Found, Store!IsActive, Table, CWF, About

(* As above, for the table a step leaves behind.                           *)
LEMMA AlarmedByNext ==
  ASSUME alarms' \in Table, NEW r
  PROVE  Alarmed(r)' <=> \E id \in Ids : About(id, r)'
BY RowSubject DEF Alarmed, Store!Found, Store!IsActive, Table, CWF, About

(* RecordFailure alarms the rule whose write failed, and takes no alarm    *)
(* from another: it updates a row in place or uses a free one.             *)
LEMMA FailureRaises ==
  ASSUME alarms \in Table, NEW r \in Rules, RecordFailure(r)
  PROVE  /\ alarms' \in Table
         /\ Alarmed(r)'
         /\ \A s \in Rules : Alarmed(s) => Alarmed(s)'
<1>0. Store!CreateOrUpdate(r, "CONTROL", CWF, "WARNING")
  BY DEF RecordFailure, CWF
<1>1. CASE \E id \in Store!Found(r, CWF) : Store!Update(id, "WARNING")
  \* every alarm of the engine has this severity: the table stays as it is
  <2>1. PICK id \in Store!Found(r, CWF) : Store!Update(id, "WARNING")
    BY <1>1
  <2>2. id \in Ids /\ alarms[id] \in Store!Row
    BY <2>1 DEF Store!Found, Store!IsActive, Table
  <2>3. [alarms[id] EXCEPT !.severity = "WARNING"] = alarms[id]
    BY <2>2 DEF Store!Row
  <2>4. alarms' = alarms
    BY <2>1, <2>2, <2>3 DEF Store!Update, Table
  <2>5. Alarmed(r)
    BY <2>1 DEF Alarmed, CWF
  <2> QED BY <2>4, <2>5 DEF Alarmed, Store!Found, Store!IsActive
<1>2. CASE Store!Insert(r, "CONTROL", CWF, "WARNING")
  <2> DEFINE new == [originator |-> r, originType |-> "CONTROL", type |-> CWF,
                     severity |-> "WARNING", status |-> "ACTIVE_UNACK",
                     old |-> FALSE]
  <2>1. PICK id \in Ids : alarms[id] = Nothing /\ alarms' = [alarms EXCEPT ![id] = new]
    BY <1>2 DEF Store!Insert
  <2>2. new \in Store!Row /\ new # Nothing /\ new.status \in Store!Active /\ new.originator = r
    <3>1. new \in Store!Row /\ new.status \in Store!Active /\ new.originator = r
      BY DEF Store!Row, Store!Active, CWF
    <3> QED BY <3>1, RulesAssumption DEF RulesAssumption
  <2>3. alarms'[id] = new /\ \A j \in Ids \ {id} : alarms'[j] = alarms[j]
    BY <2>1 DEF Table
  <2>4. alarms' \in Table
    BY <2>1, <2>2 DEF Table
  <2>5. About(id, r)'
    BY <2>2, <2>3 DEF About
  <2>6. ASSUME NEW s \in Rules, Alarmed(s)
        PROVE  Alarmed(s)'
    <3>1. PICK j \in Ids : About(j, s)
      BY <2>6, AlarmedBy
    <3>2. j # id
      BY <2>1, <3>1 DEF About
    <3>3. About(j, s)'
      BY <2>3, <3>1, <3>2 DEF About
    <3> QED BY <2>4, <3>3, AlarmedByNext
  <2> QED BY <2>4, <2>5, <2>6, AlarmedByNext
<1> QED BY <1>0, <1>1, <1>2 DEF Store!CreateOrUpdate

(* A write that succeeded clears only rows of its own rule.                *)
LEMMA SuccessSpares ==
  ASSUME alarms \in Table, NEW r \in Rules,
         Store!ClearByOriginAndType(r, CWF, "DEVICE")
  PROVE  /\ alarms' \in Table
         /\ \A s \in Rules \ {r} : Alarmed(s) => Alarmed(s)'
<1>1. ASSUME NEW id \in Ids
      PROVE  /\ alarms'[id] \in Store!Row \cup {Nothing}
             /\ \/ alarms'[id] = alarms[id]
                \/ alarms[id].originator = r
  <2>1. \/ alarms'[id] = alarms[id]
        \/ /\ alarms[id] \in Store!Row /\ alarms[id].originator = r
           /\ alarms'[id] = [alarms[id] EXCEPT !.status = "CLEARED"]
    BY DEF Store!ClearByOriginAndType, Store!Cleared, Store!Found, Store!IsActive, Table
  <2>2. \A row \in Store!Row : [row EXCEPT !.status = "CLEARED"] \in Store!Row
    BY DEF Store!Row
  <2> QED BY <2>1, <2>2 DEF Table
<1>2. alarms' \in Table
  BY <1>1 DEF Store!ClearByOriginAndType, Store!Cleared, Table
<1>3. ASSUME NEW s \in Rules \ {r}, Alarmed(s)
      PROVE  Alarmed(s)'
  <2>1. PICK id \in Ids : About(id, s)
    BY <1>3, AlarmedBy
  <2>2. About(id, s)'
    BY <1>1, <2>1 DEF About
  <2> QED BY <1>2, <2>2, AlarmedByNext
<1> QED BY <1>2, <1>3

(* A step that leaves the table alone leaves the alarms alone.             *)
LEMMA SameTable ==
  ASSUME UNCHANGED alarms
  PROVE  \A r \in Rules : Alarmed(r)' <=> Alarmed(r)
BY DEF Alarmed, Store!Found, Store!IsActive

-----------------------------------------------------------------------------
(* What is inductive: a rule in execution has a target left to write, and  *)
(* an edge-triggered rule that has fired still remembers its condition as  *)
(* true, so the same edge does not let it fire again.                      *)
Running == run # Idle => run.rule \in Rules /\ run.left # <<>>

Remembered ==
  \A r \in OnChangeOnly : fired[r] <= 1 /\ (~last[r] => fired[r] = 0)

IInv == RulesTypeOK /\ Running /\ Remembered /\ FailureIsAlarmed

(* What goes on after an action is of the type of run: the rule with one   *)
(* target less, or nothing.                                                *)
LEMMA NextActionIsTyped ==
  ASSUME RulesTypeOK, Running, run # Idle, NextAction
  PROVE  /\ run' \in [rule : Rules \cup {Nothing}, left : Seq(Targets), val : Values \cup {Nothing}]
         /\ Running'
<1>1. /\ run \in [rule : Rules \cup {Nothing}, left : Seq(Targets), val : Values \cup {Nothing}]
      /\ run.rule \in Rules /\ run.left \in Seq(Targets) /\ run.left # <<>>
  BY DEF RulesTypeOK, Running
<1>2. CASE Len(run.left) = 1
  BY <1>2 DEF NextAction, Running, Idle
<1>3. CASE Len(run.left) # 1
  <2>1. Tail(run.left) \in Seq(Targets) /\ Tail(run.left) # <<>>
    <3>1. \A s \in Seq(Targets) : s # <<>> /\ Len(s) # 1 =>
            Tail(s) \in Seq(Targets) /\ Len(Tail(s)) = Len(s) - 1 /\ Len(s) \in Nat \ {0, 1}
      BY EmptySeq, LenProperties, HeadTailProperties
    <3>2. Len(Tail(run.left)) # 0
      BY <1>1, <1>3, <3>1
    <3> QED BY <1>1, <1>3, <3>1, <3>2
  <2>2. run' = [run EXCEPT !.left = Tail(run.left)]
    BY <1>3 DEF NextAction
  <2>3. run'.rule = run.rule /\ run'.left = Tail(run.left) /\ run'.val = run.val
    BY <1>1, <2>2
  <2> QED BY <1>1, <2>1, <2>2, <2>3 DEF Running
<1> QED BY <1>2, <1>3

(* The target of the rule in execution is a target, its connection one of  *)
(* the connections.                                                        *)
LEMMA AimIsTarget ==
  ASSUME RulesTypeOK, Running, run # Idle
  PROVE  Aim \in Targets /\ Conn \in Connections
<1>1. run.left \in Seq(Targets) /\ run.left # <<>>
  BY DEF RulesTypeOK, Running
<1> QED BY <1>1 DEF Aim, Conn, Connections

(* Initially nothing runs and nothing has failed.                          *)
LEMMA InitIInv == RulesInit => IInv
<1> SUFFICES ASSUME RulesInit PROVE IInv
  OBVIOUS
<1>1. RulesTypeOK
  BY RulesAssumption DEF RulesAssumption, RulesInit, RulesTypeOK, Idle, Store!Init, Store!TypeOK
<1>2. Running /\ Remembered /\ FailureIsAlarmed
  BY RulesAssumption DEF RulesAssumption, RulesInit, Running, Remembered, FailureIsAlarmed
<1> QED BY <1>1, <1>2 DEF IInv

(* Evaluating a rule: the condition is recorded whether or not the rule    *)
(* fires, which is what keeps an edge from being seen twice.               *)
LEMMA EvaluateDueKeepsIInv ==
  ASSUME IInv, NEW r \in Rules, EvaluateDue(r)
  PROVE  IInv'
<1> USE RulesAssumption DEF RulesAssumption, IInv
<1> DEFINE fires == Condition(r) /\ ~(r \in OnChangeOnly /\ last[r])
<1>1. Condition(r) \in BOOLEAN /\ last' = [last EXCEPT ![r] = Condition(r)]
  BY DEF EvaluateDue, Condition, RulesTypeOK
<1>2. Actions[r] \in Seq(Targets) /\ Actions[r] # <<>> /\ value[Source[r]] \in Values \cup {Nothing}
  BY DEF RulesTypeOK
<1>3. CASE fires
  <2>1. /\ run' = [rule |-> r, left |-> Actions[r], val |-> value[Source[r]]]
        /\ fired' = [fired EXCEPT ![r] = IF fired[r] < 2 THEN fired[r] + 1 ELSE fired[r]]
        /\ UNCHANGED <<value, fresh, lock, reachable, alarms, target, changes, outcome>>
    BY <1>3 DEF EvaluateDue
  <2>2. fired' \in [Rules -> 0..2]
    BY <2>1 DEF RulesTypeOK
  <2>3. RulesTypeOK' /\ Running'
    BY <1>1, <1>2, <2>1, <2>2 DEF RulesTypeOK, Running, Store!TypeOK, Store!Row
  <2>4. Remembered'
    BY <1>1, <1>3, <2>1 DEF Remembered, RulesTypeOK
  <2>5. FailureIsAlarmed'
    BY <2>1, SameTable DEF FailureIsAlarmed
  <2> QED BY <2>3, <2>4, <2>5
<1>4. CASE ~fires
  <2>1. /\ fired' = [fired EXCEPT ![r] = IF Condition(r) THEN fired[r] ELSE 0]
        /\ UNCHANGED <<value, fresh, run, lock, reachable, alarms, target, changes, outcome>>
    BY <1>4 DEF EvaluateDue
  <2>2. fired' \in [Rules -> 0..2]
    BY <2>1 DEF RulesTypeOK
  <2>3. RulesTypeOK' /\ Running'
    BY <1>1, <2>1, <2>2 DEF RulesTypeOK, Running, Store!TypeOK, Store!Row
  <2>4. Remembered'
    BY <1>1, <1>4, <2>1 DEF Remembered, RulesTypeOK
  <2>5. FailureIsAlarmed'
    BY <2>1, SameTable DEF FailureIsAlarmed
  <2> QED BY <2>3, <2>4, <2>5
<1> QED BY <1>3, <1>4

(* An action the engine skips, refuses, waits for or writes.               *)
LEMMA ActionKeepsIInv ==
  ASSUME IInv, Skip \/ Refuse \/ AcquireLock \/ Write
  PROVE  IInv'
<1> USE RulesAssumption DEF RulesAssumption, IInv
<1>0. run # Idle
  BY DEF Skip, Refuse, AcquireLock, Write
<1>1. /\ run.rule \in Rules /\ run.val \in Values \cup {Nothing}
      /\ Aim \in Targets /\ Conn \in Connections /\ alarms \in Table
  BY <1>0, AimIsTarget DEF Running, RulesTypeOK, Store!TypeOK, Table
<1>r. PICK r \in Rules : r = run.rule
  BY <1>1
<1>2. CASE Skip
  <2>1. /\ NextAction
        /\ UNCHANGED <<value, fresh, last, lock, reachable, alarms, target, changes, fired, outcome>>
    BY <1>2 DEF Skip
  <2>2. RulesTypeOK' /\ Running'
    BY <1>0, <2>1, NextActionIsTyped DEF RulesTypeOK, Store!TypeOK, Store!Row
  <2>3. Remembered' /\ FailureIsAlarmed'
    BY <2>1, SameTable DEF Remembered, FailureIsAlarmed
  <2> QED BY <2>2, <2>3
<1>3. CASE Refuse
  <2>1. /\ NextAction /\ RecordFailure(r)
        /\ UNCHANGED <<value, fresh, last, lock, reachable, target, changes, fired>>
    BY <1>3, <1>r DEF Refuse
  <2>2. outcome' = [outcome EXCEPT ![r] = "failed"]
    BY <2>1 DEF RecordFailure
  <2>3. /\ alarms' \in Table /\ Alarmed(r)'
        /\ \A s \in Rules : Alarmed(s) => Alarmed(s)'
    BY <1>1, <2>1, FailureRaises
  <2>4. RulesTypeOK' /\ Running'
    BY <1>0, <2>1, <2>2, <2>3, NextActionIsTyped DEF RulesTypeOK, Store!TypeOK, Store!Row, Table
  <2>5. Remembered'
    BY <2>1 DEF Remembered
  <2>6. FailureIsAlarmed'
    BY <2>2, <2>3 DEF FailureIsAlarmed, RulesTypeOK
  <2> QED BY <2>4, <2>5, <2>6
<1>4. CASE AcquireLock
  <2>1. /\ lock' = [lock EXCEPT ![Conn] = "engine"]
        /\ UNCHANGED <<value, fresh, last, run, reachable, alarms, target, changes, fired, outcome>>
    BY <1>4 DEF AcquireLock
  <2>2. RulesTypeOK' /\ Running'
    BY <2>1 DEF RulesTypeOK, Running, Store!TypeOK, Store!Row
  <2>3. Remembered' /\ FailureIsAlarmed'
    BY <2>1, SameTable DEF Remembered, FailureIsAlarmed
  <2> QED BY <2>2, <2>3
<1>5. CASE Write
  <2>1. /\ NextAction /\ lock' = [lock EXCEPT ![Conn] = "free"]
        /\ UNCHANGED <<value, fresh, last, reachable, changes, fired>>
    BY <1>5 DEF Write
  <2>2. Remembered'
    BY <2>1 DEF Remembered
  <2>3. CASE /\ target' = [target EXCEPT ![Aim] = run.val]
             /\ Store!ClearByOriginAndType(r, CWF, "DEVICE")
             /\ outcome' = [outcome EXCEPT ![r] = "ok"]
    <3>1. alarms' \in Table /\ \A s \in Rules \ {r} : Alarmed(s) => Alarmed(s)'
      BY <1>1, <2>3, SuccessSpares
    <3>2. RulesTypeOK' /\ Running'
      BY <1>0, <1>1, <2>1, <2>3, <3>1, NextActionIsTyped DEF RulesTypeOK, Store!TypeOK, Store!Row, Table
    <3>3. FailureIsAlarmed'
      BY <1>1, <2>3, <3>1 DEF FailureIsAlarmed, RulesTypeOK
    <3> QED BY <2>2, <3>2, <3>3
  <2>4. CASE RecordFailure(r) /\ UNCHANGED target
    <3>1. /\ alarms' \in Table /\ Alarmed(r)'
          /\ \A s \in Rules : Alarmed(s) => Alarmed(s)'
      BY <1>1, <2>4, FailureRaises
    <3>2. outcome' = [outcome EXCEPT ![r] = "failed"]
      BY <2>4 DEF RecordFailure
    <3>3. RulesTypeOK' /\ Running'
      BY <1>0, <2>1, <2>4, <3>1, <3>2, NextActionIsTyped DEF RulesTypeOK, Store!TypeOK, Store!Row, Table
    <3>4. FailureIsAlarmed'
      BY <3>1, <3>2 DEF FailureIsAlarmed, RulesTypeOK
    <3> QED BY <2>2, <3>3, <3>4
  <2> QED BY <1>5, <1>r, <2>3, <2>4 DEF Write, CWF
<1> QED BY <1>2, <1>3, <1>4, <1>5

(* The polling loops, the devices, the clock and a restart.                *)
LEMMA SurroundingsKeepIInv ==
  ASSUME IInv,
         \/ \E c \in Connections : TakeLock(c) \/ ReleaseLock(c) \/ Reach(c)
         \/ \E s \in Sources :
              \/ \E v \in Values : Update(s, v)
              \/ Expire(s) \/ MarkDeviceSeen(s)
         \/ RestartEngine
  PROVE  IInv'
<1> USE RulesAssumption DEF RulesAssumption, IInv, Change
<1>1. UNCHANGED <<alarms, target, outcome>>
  BY DEF TakeLock, ReleaseLock, Reach, Update, Expire, MarkDeviceSeen, RestartEngine
<1>2. FailureIsAlarmed'
  BY <1>1, SameTable DEF FailureIsAlarmed
<1>3. CASE RestartEngine
  <2>1. /\ value' = [s \in Sources |-> Nothing] /\ fresh' = [s \in Sources |-> FALSE]
        /\ last' = [r \in Rules |-> FALSE] /\ fired' = [r \in Rules |-> 0]
        /\ run' = Idle /\ lock' = [c \in Connections |-> "free"]
        /\ changes' = changes + 1 /\ changes < MaxChanges /\ UNCHANGED reachable
    BY <1>3 DEF RestartEngine
  <2>2. Idle \in [rule : Rules \cup {Nothing}, left : Seq(Targets), val : Values \cup {Nothing}]
    BY DEF Idle
  <2>3. RulesTypeOK'
    <3>1. changes' \in 0..MaxChanges
      BY <2>1 DEF RulesTypeOK
    <3>2. Store!TypeOK'
      BY <1>1 DEF RulesTypeOK, Store!TypeOK, Store!Row
    <3>3. run' \in [rule : Rules \cup {Nothing}, left : Seq(Targets), val : Values \cup {Nothing}]
      BY <2>1, <2>2
    <3>4. fired' \in [Rules -> 0..2]
      BY <2>1
    <3> QED BY ONLY <1>1, <2>1, <3>1, <3>2, <3>3, <3>4, RulesTypeOK DEF RulesTypeOK
  <2>4. Running' /\ Remembered'
    BY <2>1 DEF Running, Remembered, Idle
  <2> QED BY <1>2, <2>3, <2>4
<1>5. /\ value \in [Sources -> Values \cup {Nothing}] /\ fresh \in [Sources -> BOOLEAN]
      /\ lock \in [Connections -> {"free", "poller", "engine"}]
      /\ reachable \in [Connections -> BOOLEAN] /\ changes \in 0..MaxChanges
  BY DEF RulesTypeOK
<1>4. CASE ~RestartEngine
  <2>1. UNCHANGED <<run, last, fired>>
    BY <1>4 DEF TakeLock, ReleaseLock, Reach, Update, Expire, MarkDeviceSeen
  <2>2. Running' /\ Remembered'
    BY <2>1 DEF Running, Remembered
  <2>3. ASSUME NEW c \in Connections, TakeLock(c) \/ ReleaseLock(c) \/ Reach(c)
        PROVE  RulesTypeOK'
    <3>1. /\ UNCHANGED <<value, fresh>> /\ changes' \in 0..MaxChanges
          /\ lock' \in [Connections -> {"free", "poller", "engine"}]
          /\ reachable' \in [Connections -> BOOLEAN]
      <4>1. CASE TakeLock(c)
        BY ONLY <4>1, <1>5 DEF TakeLock
      <4>2. CASE ReleaseLock(c)
        BY ONLY <4>2, <1>5 DEF ReleaseLock
      <4>3. CASE Reach(c)
        <5>1. changes' \in 0..MaxChanges
          BY ONLY <4>3, <1>5, MaxChanges \in Nat DEF Reach, Change
        <5>2. UNCHANGED <<value, fresh, lock>> /\ reachable' = [reachable EXCEPT ![c] = ~reachable[c]]
          BY ONLY <4>3 DEF Reach
        <5> QED BY ONLY <5>1, <5>2, <1>5
      <4> QED BY <2>3, <4>1, <4>2, <4>3
    <3>2. Store!TypeOK'
      BY <1>1 DEF RulesTypeOK, Store!TypeOK, Store!Row
    <3> QED BY ONLY <1>1, <2>1, <3>1, <3>2, RulesTypeOK DEF RulesTypeOK
  <2>4. ASSUME NEW s \in Sources,
               (\E v \in Values : Update(s, v)) \/ Expire(s) \/ MarkDeviceSeen(s)
        PROVE  RulesTypeOK'
    <3>1. /\ UNCHANGED <<lock, reachable>> /\ changes' \in 0..MaxChanges
          /\ value' \in [Sources -> Values \cup {Nothing}]
          /\ fresh' \in [Sources -> BOOLEAN]
      <4>1. changes' \in 0..MaxChanges
        BY ONLY <2>4, <1>5, MaxChanges \in Nat DEF Update, Expire, MarkDeviceSeen, Change
      <4>2. /\ UNCHANGED <<lock, reachable>>
            /\ fresh' = [fresh EXCEPT ![s] = TRUE] \/ fresh' = [fresh EXCEPT ![s] = FALSE]
            /\ UNCHANGED value \/ \E v \in Values : value' = [value EXCEPT ![s] = v]
        BY ONLY <2>4 DEF Update, Expire, MarkDeviceSeen
      <4> QED BY ONLY <4>1, <4>2, <1>5
    <3>2. Store!TypeOK'
      BY <1>1 DEF RulesTypeOK, Store!TypeOK, Store!Row
    <3> QED BY ONLY <1>1, <2>1, <3>1, <3>2, RulesTypeOK DEF RulesTypeOK
  <2> QED BY <1>2, <1>4, <2>2, <2>3, <2>4
<1> QED BY <1>3, <1>4

(* Every step keeps the invariant.                                         *)
LEMMA NextIInv == IInv /\ [RulesNext]_ruleVars => IInv'
<1> SUFFICES ASSUME IInv, [RulesNext]_ruleVars PROVE IInv'
  OBVIOUS
<1>1. CASE UNCHANGED ruleVars
  BY <1>1, SameTable DEF ruleVars, IInv, RulesTypeOK, Running, Remembered, FailureIsAlarmed,
     Store!TypeOK, Store!Row
<1>2. CASE RulesNext
  BY <1>2, EvaluateDueKeepsIInv, ActionKeepsIInv, SurroundingsKeepIInv DEF RulesNext
<1> QED BY <1>1, <1>2

(* An edge-triggered rule fires once for an edge, whatever its writes wait *)
(* for and return, and a rule whose last write failed has an active alarm; *)
(* ControlEngine.cs, EvaluateDueAsync and ExecuteActionAsync.              *)
THEOREM RulesObservedHolds == RulesSpec => []RulesObserved
<1>1. IInv => RulesObserved
  BY DEF IInv, RulesObserved, Remembered, FiresOnce
<1> QED BY <1>1, InitIInv, NextIInv, PTL DEF RulesSpec

-----------------------------------------------------------------------------
(* The energy management.                                                  *)

\* The consumers whose object the loop has still to use.
Ahead == todo \cup {writing}

\* Between cycles the loop holds nothing; the consumer that is written was
\* taken off the list; an object that left the list was not sure to be obeyed.
HeldInCycle ==
  /\ stage # "visiting" =>
       todo = {} /\ writing = None /\ \A c \in Consumers : old[c] = None
  /\ writing \notin todo
  /\ \A c \in Consumers : old[c] # None => c \in unsure

\* What is written is the setpoint of the cycle.
WritesTarget == writing # None => Visited(writing).last = Target(writing)

\* A device obeys what its object wrote last, unless that is being written.
WrittenIsApplied ==
  \A c \in configured \ unsure : c # writing => applied[c] = obj[c].last

\* What was written last is near enough to the setpoint, once the loop has
\* visited the consumer.
Followed ==
  stage # "dispatched" =>
    \A c \in (configured \ unsure) \ todo :
      IF kind = "release" THEN obj[c].last = Released
      ELSE Distance(Target(c), obj[c].last) < Delta

\* A cycle that found an import still has the minimum of those it will write.
MinimumAhead ==
  kind = "curtail" =>
    /\ stage = "dispatched" =>
         \A c \in configured \ exchanged : obj[c].alloc = Minimum[c]
    /\ stage = "visiting" =>
         \A c \in (Consumers \cap Ahead) \ exchanged : Visited(c).alloc = Minimum[c]

Inv == HeldInCycle /\ WritesTarget /\ WrittenIsApplied /\ Followed /\ MinimumAhead

-----------------------------------------------------------------------------
\* The powers are natural numbers, and the released setpoint is far below 0.
LEMMA Powers ==
  /\ Delta \in Nat /\ Delta > 0 /\ Released \in Int /\ Released < 0
  /\ MaxEvents \in Nat /\ Headrooms \subseteq Nat
  /\ \A c \in Consumers : Base[c] \in Nat /\ Minimum[c] \in Nat
  /\ None \notin Object /\ None \notin Consumers
BY ConstantsAssumption

\* What the loop visits is an object, and so is what it makes of one.
LEMMA VisitedType ==
  ASSUME TypeOK, NEW c \in Consumers
  PROVE  /\ Visited(c) \in Object /\ Target(c) \in Setpoints
         /\ kind # "release" => Target(c) \in Nat
<1>1. Visited(c) \in Object
  BY DEF TypeOK, Visited
<1>2. Visited(c).alloc \in Nat
  BY <1>1 DEF Object
<1>3. QED
  BY <1>1, <1>2, Powers DEF Target, Setpoints

\* A new object of the visited consumer keeps the objects well typed, and is
\* the one that is visited from then on.
LEMMA SetVisitedEffect ==
  ASSUME TypeOK, NEW c \in Consumers, NEW o \in Object, SetVisited(c, o)
  PROVE  /\ obj' \in [Consumers -> Object]
         /\ old' \in [Consumers -> Object \cup {None}]
         /\ Visited(c)' = o
         /\ \A d \in Consumers : (old'[d] = None) <=> (old[d] = None)
         /\ \A d \in Consumers \ {c} : Visited(d)' = Visited(d)
         /\ \A d \in Consumers : d # c \/ old[d] # None => obj'[d] = obj[d]
<1>1. None # o
  BY Powers
<1>2. CASE old[c] = None
  BY <1>2 DEF SetVisited, TypeOK, Visited
<1>3. CASE old[c] # None
  BY <1>1, <1>3 DEF SetVisited, TypeOK, Visited
<1>4. QED
  BY <1>2, <1>3

\* What Visit makes of the object of c, and that it writes only a setpoint that
\* differs from what the object wrote last.
LEMMA VisitEffect ==
  ASSUME TypeOK, NEW c \in Consumers, Visit(c)
  PROVE  \E o \in Object :
           /\ SetVisited(c, o)
           /\ kind # "release" => o.alloc = Visited(c).alloc
           /\ \/ writing' = c /\ o.last = Target(c)
              \/ /\ writing' = None /\ o.last = Visited(c).last
                 /\ IF kind = "release" THEN o.last = Released
                    ELSE Distance(Target(c), o.last) < Delta
<1> DEFINE v == Visited(c)
           o1 == IF kind = "release" THEN [v EXCEPT !.alloc = 0] ELSE v
           o2 == [o1 EXCEPT !.last = Target(c), !.due = FALSE]
<1>1. v \in Object /\ Target(c) \in Setpoints
  BY VisitedType
<1>2. /\ writing = None
      /\ IF WriteNeeded(c) THEN SetVisited(c, o2) /\ writing' = c
         ELSE SetVisited(c, o1) /\ writing' = writing
  BY DEF Visit
<1>3. kind # "release" => Target(c) \in Nat
  BY VisitedType
<1>4. ~WriteNeeded(c) => IF kind = "release" THEN v.last = Released
                         ELSE Distance(Target(c), v.last) < Delta
  <2>1. v.last \in Setpoints
    BY <1>1 DEF Object
  <2>2. CASE kind = "release"
    BY <2>1, <2>2, Powers DEF WriteNeeded, Setpoints
  <2>3. CASE kind # "release"
    <3>1. Distance(Target(c), v.last) \in Int
      BY <1>3, <2>1, <2>3, Powers DEF Distance, Setpoints
    <3>2. QED
      BY <2>3, <3>1, Powers DEF WriteNeeded
  <2>4. QED
    BY <2>2, <2>3
<1> HIDE DEF v
<1>5. /\ o1 \in Object /\ o1.last = v.last
      /\ kind # "release" => o1.alloc = v.alloc
  BY <1>1 DEF Object
<1> HIDE DEF o1
<1>6. /\ o2 \in Object /\ o2.last = Target(c) /\ o2.alloc = o1.alloc
  BY <1>1, <1>5 DEF Object
<1> HIDE DEF o2
<1>7. CASE WriteNeeded(c)
  BY <1>2, <1>5, <1>6, <1>7 DEF v
<1>8. CASE ~WriteNeeded(c)
  BY <1>2, <1>4, <1>5, <1>8 DEF v
<1>9. QED
  BY <1>7, <1>8

\* A saved configuration leaves the loop the objects it has still to use, and
\* the list those of consumers it stays sure of.
LEMMA SaveEffect ==
  ASSUME TypeOK, NEW cs \in SUBSET Consumers, NEW replaced \in SUBSET Consumers,
         SaveConfiguration(cs, replaced), UNCHANGED <<todo, writing>>
  PROVE  /\ configured' \subseteq Consumers
         /\ obj' \in [Consumers -> Object]
         /\ old' \in [Consumers -> Object \cup {None}]
         /\ unsure \subseteq unsure' /\ unsure' \subseteq Consumers
         /\ exchanged \subseteq exchanged' /\ exchanged' \subseteq Consumers
         /\ \A c \in configured' \ unsure' :
              c \in configured \ unsure /\ obj'[c] = obj[c] /\ old'[c] = old[c]
         /\ \A c \in Consumers : old'[c] # old[c] => c \in Ahead /\ c \in unsure'
         /\ cs \ configured \subseteq replaced =>
              \A c \in Consumers \cap Ahead : Visited(c)' = Visited(c)
         /\ stage = "dispatched" => \A c \in configured' \ exchanged' :
              c \in configured \ exchanged /\ obj'[c] = obj[c]
<1> USE DEF TypeOK
<1> DEFINE gone == replaced \cup (configured \ cs)
<1>1. Fresh \in Object
  BY DEF Fresh, Object, Setpoints
<1>2. /\ configured' = cs
      /\ obj' = [c \in Consumers |->
           IF c \in gone \cup (cs \ configured) THEN Fresh ELSE obj[c]]
      /\ old' = [c \in Consumers |->
           IF c \in gone \cap (todo \cup {writing}) /\ old[c] = None
           THEN obj[c] ELSE old[c]]
      /\ unsure' = unsure \cup gone \cup (cs \ configured)
      /\ exchanged' = IF stage = "dispatched"
                      THEN exchanged \cup gone \cup (cs \ configured) ELSE exchanged
  BY DEF SaveConfiguration
<1>3. /\ obj' \in [Consumers -> Object]
      /\ old' \in [Consumers -> Object \cup {None}]
  BY <1>1, <1>2
<1>4. /\ unsure \subseteq unsure' /\ unsure' \subseteq Consumers
      /\ exchanged \subseteq exchanged' /\ exchanged' \subseteq Consumers
      /\ configured' \subseteq Consumers
  BY <1>2
<1>5. ASSUME NEW c \in configured' \ unsure'
      PROVE  c \in configured \ unsure /\ obj'[c] = obj[c] /\ old'[c] = old[c]
  BY <1>2, <1>5
<1>6. ASSUME NEW c \in Consumers, old'[c] # old[c]
      PROVE  c \in Ahead /\ c \in unsure'
  BY <1>2, <1>6 DEF Ahead
<1>7. ASSUME cs \ configured \subseteq replaced, NEW c \in Consumers \cap Ahead
      PROVE  Visited(c)' = Visited(c)
  <2>1. obj[c] # None
    BY Powers
  <2>2. Visited(c)' = IF old'[c] = None THEN obj'[c] ELSE old'[c]
    BY DEF Visited
  <2>3. gone \cup (cs \ configured) = gone /\ c \in todo \cup {writing}
    BY <1>7 DEF Ahead
  <2>4. /\ obj'[c] = IF c \in gone THEN Fresh ELSE obj[c]
        /\ old'[c] = IF c \in gone /\ old[c] = None THEN obj[c] ELSE old[c]
    BY <1>2, <2>3
  <2>5. QED
    BY <2>1, <2>2, <2>4 DEF Visited
<1>8. ASSUME stage = "dispatched", NEW c \in configured' \ exchanged'
      PROVE  c \in configured \ exchanged /\ obj'[c] = obj[c]
  BY <1>2, <1>8
<1>9. QED
  BY <1>3, <1>4, <1>5, <1>6, <1>7, <1>8

\* The saved configurations.
Saves ==
  \/ UpdateEmsConfig
  \/ \E c \in Consumers : AddOrUpdateConsumer(c) \/ DeleteConsumer(c)

\* Every one of them replaces the objects of the consumers it adds.
LEMMA SavesEffect ==
  ASSUME TypeOK, Saves
  PROVE  /\ \E cs, replaced \in SUBSET Consumers :
              SaveConfiguration(cs, replaced) /\ cs \ configured \subseteq replaced
         /\ enabled' \in BOOLEAN /\ events' \in 0..MaxEvents
         /\ UNCHANGED <<stage, kind, todo, writing, siteVars, applied>>
<1> USE Powers DEF TypeOK, Event
<1>1. CASE UpdateEmsConfig
  BY <1>1 DEF UpdateEmsConfig
<1>2. ASSUME NEW c \in Consumers, AddOrUpdateConsumer(c)
      PROVE  /\ SaveConfiguration(configured \cup {c}, {c})
             /\ enabled' \in BOOLEAN /\ events' \in 0..MaxEvents
             /\ UNCHANGED <<stage, kind, todo, writing, siteVars, applied>>
  BY <1>2 DEF AddOrUpdateConsumer
<1>3. ASSUME NEW c \in Consumers, DeleteConsumer(c)
      PROVE  /\ SaveConfiguration(configured \ {c}, {})
             /\ enabled' \in BOOLEAN /\ events' \in 0..MaxEvents
             /\ UNCHANGED <<stage, kind, todo, writing, siteVars, applied>>
  BY <1>3 DEF DeleteConsumer
<1>4. ASSUME NEW cs \in SUBSET Consumers, NEW replaced \in SUBSET Consumers,
             SaveConfiguration(cs, replaced), cs \ configured \subseteq replaced
      PROVE  \E cs1, replaced1 \in SUBSET Consumers :
               /\ SaveConfiguration(cs1, replaced1)
               /\ cs1 \ configured \subseteq replaced1
  BY <1>4
<1>5. CASE \E c \in Consumers : AddOrUpdateConsumer(c)
  <2>1. PICK c \in Consumers : AddOrUpdateConsumer(c)
    BY <1>5
  <2>2. configured \cup {c} \in SUBSET Consumers /\ {c} \in SUBSET Consumers
    OBVIOUS
  <2>3. (configured \cup {c}) \ configured \subseteq {c}
    OBVIOUS
  <2>4. QED
    BY <1>2, <1>4, <2>1, <2>2, <2>3
<1>6. CASE \E c \in Consumers : DeleteConsumer(c)
  <2>1. PICK c \in Consumers : DeleteConsumer(c)
    BY <1>6
  <2>2. configured \ {c} \in SUBSET Consumers /\ {} \in SUBSET Consumers
    OBVIOUS
  <2>3. (configured \ {c}) \ configured \subseteq {}
    OBVIOUS
  <2>4. QED
    BY <1>3, <1>4, <2>1, <2>2, <2>3
<1>7. QED
  BY <1>1, <1>5, <1>6 DEF Saves

\* The dispatch changes the shares only, those of the consumers in the list,
\* and an import sets them to the minimum.
LEMMA DispatchEffect ==
  ASSUME TypeOK, Dispatch
  PROVE  /\ obj' \in [Consumers -> Object]
         /\ \A c \in Consumers : obj'[c].last = obj[c].last
         /\ importing => \A c \in configured : obj'[c].alloc = Minimum[c]
<1> USE DEF TypeOK
<1>1. ASSUME NEW s, \A c \in configured : s[c] \in Nat, Allot(s)
      PROVE  /\ obj' \in [Consumers -> Object]
             /\ \A c \in Consumers : obj'[c].last = obj[c].last
             /\ \A c \in configured : obj'[c].alloc = s[c]
  <2>1. obj' = [c \in Consumers |->
                  IF c \in configured THEN [obj[c] EXCEPT !.alloc = s[c]] ELSE obj[c]]
    BY <1>1 DEF Allot
  <2>2. ASSUME NEW c \in Consumers
        PROVE  /\ obj'[c] \in Object /\ obj'[c].last = obj[c].last
               /\ c \in configured => obj'[c].alloc = s[c]
    <3> DEFINE o == obj[c]
    <3>1. o \in Object /\ (c \in configured => s[c] \in Nat)
      BY <1>1
    <3>2. obj'[c] = IF c \in configured THEN [o EXCEPT !.alloc = s[c]] ELSE o
      BY <2>1
    <3> HIDE DEF o
    <3>3. /\ obj'[c] \in Object /\ obj'[c].last = o.last
          /\ c \in configured => obj'[c].alloc = s[c]
      BY <3>1, <3>2 DEF Object
    <3>4. QED
      BY <3>3 DEF o
  <2>3. QED
    BY <2>1, <2>2
<1>2. CASE importing
  <2> DEFINE s == [c \in configured |-> Curtail(c)]
  <2>1. Allot(s) /\ \A c \in configured : s[c] \in Nat /\ s[c] = Minimum[c]
    BY <1>2, Powers DEF Dispatch, Curtail
  <2> HIDE DEF s
  <2>2. QED
    BY <1>1, <2>1
<1>3. CASE ~importing
  <2>1. PICK s \in Shares : Allot(s)
    BY <1>3 DEF Dispatch
  <2>2. \A c \in configured : s[c] \in 0..headroom
    BY DEF Shares
  <2>3. QED
    BY <1>1, <1>3, <2>1, <2>2
<1>4. QED
  BY <1>2, <1>3

\* A step keeps the state well typed.
LEMMA TypeStep == TypeOK /\ [Next]_vars => TypeOK'
<1> USE Powers
<1> SUFFICES ASSUME TypeOK, [Next]_vars PROVE TypeOK'
  OBVIOUS
<1> USE DEF serviceVars, loopVars, siteVars, historyVars
<1>1. CASE Evaluate
  <2>1. obj' \in [Consumers -> Object]
    BY <1>1, DispatchEffect DEF Evaluate
  <2>2. QED
    BY <1>1, <2>1 DEF Evaluate, TypeOK
<1>2. CASE Actuate
  BY <1>2 DEF Actuate, TakeList, TypeOK
<1>3. CASE StartRelease
  BY <1>3 DEF StartRelease, TakeList, TypeOK
<1>4. ASSUME NEW c \in Consumers, Visit(c) PROVE TypeOK'
  <2>1. PICK o \in Object : SetVisited(c, o) /\ writing' \in {c, None}
    BY <1>4, VisitEffect
  <2>2. /\ obj' \in [Consumers -> Object]
        /\ old' \in [Consumers -> Object \cup {None}]
    BY <2>1, SetVisitedEffect
  <2>3. QED
    BY <1>4, <2>1, <2>2 DEF Visit, TypeOK
<1>5. CASE EndWrite
  <2>1. writing \in Consumers
    BY <1>5 DEF EndWrite, TypeOK
  <2>2. Visited(writing).last \in Setpoints
    BY <2>1, VisitedType DEF Object
  <2>3. applied' \in [Consumers -> Setpoints]
    BY <1>5, <2>1, <2>2 DEF EndWrite, TypeOK
  <2>4. unsure' \subseteq Consumers
    BY <1>5, <2>1 DEF EndWrite, TypeOK
  <2>5. QED
    BY <1>5, <2>3, <2>4 DEF EndWrite, TypeOK
<1>6. CASE EndCycle
  BY <1>6 DEF EndCycle, TypeOK
<1>7. ASSUME NEW c \in Consumers, Age(c) PROVE TypeOK'
  <2> DEFINE o == obj[c]
  <2>1. o \in Object
    BY DEF TypeOK
  <2> HIDE DEF o
  <2>2. [o EXCEPT !.due = TRUE] \in Object
    BY <2>1 DEF Object
  <2>3. obj' = [obj EXCEPT ![c] = [o EXCEPT !.due = TRUE]]
    BY <1>7 DEF Age, o
  <2>4. obj' \in [Consumers -> Object]
    BY <2>2, <2>3 DEF TypeOK
  <2>5. QED
    BY <1>7, <2>4 DEF Age, TypeOK
<1>8. CASE Saves
  <2>1. /\ enabled' \in BOOLEAN /\ events' \in 0..MaxEvents
        /\ UNCHANGED <<stage, kind, todo, writing, siteVars, applied>>
    BY <1>8, SavesEffect
  <2>2. /\ configured' \subseteq Consumers
        /\ obj' \in [Consumers -> Object]
        /\ old' \in [Consumers -> Object \cup {None}]
        /\ unsure' \subseteq Consumers /\ exchanged' \subseteq Consumers
    BY <1>8, <2>1, SavesEffect, SaveEffect
  <2>3. QED
    BY <2>1, <2>2 DEF TypeOK
<1>9. CASE SetEnabled
  BY <1>9 DEF SetEnabled, Event, TypeOK
<1>10. ASSUME NEW c \in Consumers, Override(c) PROVE TypeOK'
  BY <1>10 DEF Override, Event, TypeOK, Setpoints
<1>11. CASE SiteChanges
  <2>1. /\ events' \in 0..MaxEvents
        /\ UNCHANGED <<serviceVars, loopVars, applied, unsure, exchanged>>
    BY <1>11 DEF SiteChanges, Event, TypeOK
  <2>2. /\ importing' \in BOOLEAN /\ headroom' \in Headrooms
        /\ wants' \in [Consumers -> BOOLEAN] /\ works' \in [Consumers -> BOOLEAN]
    BY <1>11 DEF SiteChanges, TypeOK
  <2>3. QED
    BY <2>1, <2>2 DEF TypeOK
<1>12. CASE Restart
  <2>1. Fresh \in Object
    BY DEF Fresh, Object, Setpoints
  <2>2. QED
    BY <1>12, <2>1 DEF Restart, Event, TypeOK
<1>13. CASE UNCHANGED vars
  BY <1>13 DEF vars, TypeOK
<1>14. QED
  BY <1>1, <1>2, <1>3, <1>4, <1>5, <1>6, <1>7, <1>8, <1>9, <1>10, <1>11, <1>12, <1>13
  DEF Next, Loop, Outside, Saves

\* Every reachable state is well typed.
THEOREM TypeCorrect == Spec => []TypeOK
<1>1. Init => TypeOK
  <2>1. Fresh \in Object /\ Released \in Setpoints
    BY Powers DEF Fresh, Object, Setpoints
  <2>2. QED
    BY <2>1, Powers DEF Init, TypeOK
<1>2. QED
  BY <1>1, TypeStep, PTL DEF Spec

-----------------------------------------------------------------------------
\* Steps outside the loop that keep the shares and setpoints of the objects
\* keep the invariant: ageing, toggling, overriding, a change of the site.
LEMMA CalmStep ==
  ASSUME TypeOK, Inv,
         UNCHANGED <<configured, stage, kind, todo, writing, old, exchanged>>,
         unsure \subseteq unsure',
         \A c \in Consumers :
           obj'[c].alloc = obj[c].alloc /\ obj'[c].last = obj[c].last,
         \A c \in Consumers \ unsure' : applied'[c] = applied[c]
  PROVE  Inv'
<1> USE DEF Inv, TypeOK
<1>1. ASSUME NEW c \in Consumers
      PROVE  /\ Visited(c)'.last = Visited(c).last
             /\ Visited(c)'.alloc = Visited(c).alloc
             /\ Target(c)' = Target(c)
  <2>1. /\ Visited(c)'.last = Visited(c).last
        /\ Visited(c)'.alloc = Visited(c).alloc
    BY DEF Visited
  <2>2. QED
    BY <2>1 DEF Target
<1>2. HeldInCycle'
  BY DEF HeldInCycle
<1>3. WritesTarget'
  <2>1. writing # None => writing \in Consumers
    OBVIOUS
  <2>2. WritesTarget' = (writing' # None => Visited(writing)'.last = Target(writing)')
    BY DEF WritesTarget
  <2>3. QED
    BY <1>1, <2>1, <2>2 DEF WritesTarget
<1>4. WrittenIsApplied'
  BY DEF WrittenIsApplied
<1>5. Followed'
  <2> SUFFICES ASSUME stage' # "dispatched", NEW c \in (configured' \ unsure') \ todo'
               PROVE  IF kind' = "release" THEN obj'[c].last = Released
                      ELSE Distance(Target(c)', obj'[c].last) < Delta
    BY DEF Followed, Distance
  <2>1. c \in Consumers /\ c \in (configured \ unsure) \ todo
    OBVIOUS
  <2>2. QED
    BY <1>1, <2>1 DEF Followed
<1>6. MinimumAhead'
  <2>1. Ahead' = Ahead
    BY DEF Ahead
  <2>2. stage' = "visiting" => \A c \in (Consumers \cap Ahead') \ exchanged' :
          Visited(c)'.alloc = Visited(c).alloc
    BY <1>1
  <2>3. QED
    BY <1>1, <2>1 DEF MinimumAhead
<1>7. QED
  BY <1>2, <1>3, <1>4, <1>5, <1>6

\* The list is taken while the loop holds nothing.
LEMMA TakeListStep ==
  ASSUME TypeOK, Inv, TakeList, stage # "visiting",
         UNCHANGED <<serviceVars, writing, siteVars, applied, historyVars>>,
         kind' \in {kind, "release"},
         stage = "idle" => kind' = "release"
  PROVE  Inv'
<1> USE DEF Inv, TypeOK, serviceVars, siteVars, historyVars, TakeList
<1>1. writing = None /\ \A c \in Consumers : old[c] = None
  BY DEF HeldInCycle
<1>2. None \notin configured
  BY Powers
<1>3. HeldInCycle'
  BY <1>1, <1>2 DEF HeldInCycle
<1>4. WritesTarget' /\ WrittenIsApplied'
  BY <1>1 DEF WritesTarget, WrittenIsApplied
<1>5. Followed'
  BY DEF Followed
<1>6. MinimumAhead'
  <2> SUFFICES ASSUME kind' = "curtail", NEW c \in (Consumers \cap Ahead') \ exchanged'
               PROVE  Visited(c)'.alloc = Minimum[c]
    BY DEF MinimumAhead
  <2>1. c \in configured \ exchanged
    BY <1>1, Powers DEF Ahead
  <2>2. kind = "curtail" /\ stage = "dispatched"
    OBVIOUS
  <2>3. obj[c].alloc = Minimum[c]
    BY <2>1, <2>2 DEF MinimumAhead
  <2>4. QED
    BY <1>1, <2>3 DEF Visited
<1>7. QED
  BY <1>3, <1>4, <1>5, <1>6

\* A visit writes the setpoint, or finds the last one near enough.
LEMMA VisitStep ==
  ASSUME TypeOK, Inv, NEW c \in Consumers, Visit(c)
  PROVE  Inv'
<1> USE Powers DEF Inv, TypeOK, siteVars, historyVars
<1>1. PICK o \in Object :
        /\ SetVisited(c, o)
        /\ kind # "release" => o.alloc = Visited(c).alloc
        /\ \/ writing' = c /\ o.last = Target(c)
           \/ /\ writing' = None /\ o.last = Visited(c).last
              /\ IF kind = "release" THEN o.last = Released
                 ELSE Distance(Target(c), o.last) < Delta
  BY VisitEffect
<1>2. /\ stage = "visiting" /\ writing = None /\ c \in todo /\ todo' = todo \ {c}
      /\ UNCHANGED <<configured, stage, kind, applied, unsure, exchanged>>
  BY DEF Visit
<1>3. /\ Visited(c)' = o
      /\ \A d \in Consumers : (old'[d] = None) <=> (old[d] = None)
      /\ \A d \in Consumers \ {c} : Visited(d)' = Visited(d)
      /\ \A d \in Consumers : d # c \/ old[d] # None => obj'[d] = obj[d]
  BY <1>1, SetVisitedEffect
<1>4. Target(c)' = Target(c) /\ \A d \in Consumers \ {c} : Target(d)' = Target(d)
  <2>1. Target(c)' = Target(c)
    BY <1>1, <1>2, <1>3 DEF Target
  <2>2. QED
    BY <1>2, <1>3, <2>1 DEF Target
<1>5. HeldInCycle'
  BY <1>1, <1>2, <1>3 DEF HeldInCycle
<1>6. WritesTarget'
  <2>1. CASE writing' = c
    <3>1. WritesTarget' = (Visited(c)'.last = Target(c)')
      BY <2>1 DEF WritesTarget, Visited, Target
    <3>2. o.last = Target(c)
      BY <1>1, <2>1
    <3>3. QED
      BY <1>3, <1>4, <3>1, <3>2
  <2>2. CASE writing' = None
    BY <2>2 DEF WritesTarget
  <2>3. QED
    BY <1>1, <2>1, <2>2
<1>7. ASSUME NEW d \in configured \ unsure
      PROVE  old[d] = None /\ Visited(d) = obj[d] /\ Visited(d)' = obj'[d]
  BY <1>3 DEF HeldInCycle, Visited
<1>8. WrittenIsApplied'
  <2> SUFFICES ASSUME NEW d \in configured \ unsure, d # writing'
               PROVE  applied[d] = obj'[d].last
    BY <1>2 DEF WrittenIsApplied
  <2>1. applied[d] = obj[d].last
    BY <1>2 DEF WrittenIsApplied
  <2>2. obj'[d].last = obj[d].last
    BY <1>1, <1>3, <1>7
  <2>3. QED
    BY <2>1, <2>2
<1>9. Followed'
  <2> SUFFICES ASSUME NEW d \in (configured \ unsure) \ todo'
               PROVE  IF kind = "release" THEN obj'[d].last = Released
                      ELSE Distance(Target(d)', obj'[d].last) < Delta
    BY <1>2 DEF Followed, Distance
  <2>1. CASE d = c
    <3>1. obj'[d] = o /\ Target(d)' = Target(d)
      BY <1>3, <1>4, <1>7, <2>1
    <3>2. CASE writing' = c
      <4>1. obj'[d].last = Target(d)
        BY <1>1, <1>2, <2>1, <3>1, <3>2
      <4>2. CASE kind = "release"
        BY <4>1, <4>2 DEF Target
      <4>3. CASE kind # "release"
        <5>1. Target(d) \in Nat
          BY <4>3, VisitedType
        <5>2. QED
          BY <3>1, <4>1, <4>3, <5>1 DEF Distance
      <4>4. QED
        BY <4>2, <4>3
    <3>3. CASE writing' = None
      BY <1>1, <2>1, <3>1, <3>3
    <3>4. QED
      BY <1>1, <3>2, <3>3
  <2>2. CASE d # c
    <3>1. obj'[d] = obj[d] /\ Target(d)' = Target(d)
      BY <1>3, <1>4, <2>2
    <3>2. d \in (configured \ unsure) \ todo
      BY <1>2, <2>2
    <3>3. QED
      BY <1>2, <3>1, <3>2 DEF Followed
  <2>3. QED
    BY <2>1, <2>2
<1>10. MinimumAhead'
  <2> SUFFICES ASSUME kind = "curtail", NEW d \in (Consumers \cap Ahead') \ exchanged
               PROVE  Visited(d)'.alloc = Minimum[d]
    BY <1>2 DEF MinimumAhead
  <2>1. d \in Consumers \cap Ahead
    BY <1>1, <1>2 DEF Ahead
  <2>2. Visited(d).alloc = Minimum[d]
    BY <1>2, <2>1 DEF MinimumAhead
  <2>3. QED
    BY <1>1, <1>3, <2>2
<1>11. QED
  BY <1>5, <1>6, <1>8, <1>9, <1>10

\* A write that succeeds makes the device obey its object; one that fails
\* leaves the consumer unsure.
LEMMA EndWriteStep ==
  ASSUME TypeOK, Inv, EndWrite
  PROVE  Inv'
<1> USE Powers DEF Inv, TypeOK, serviceVars, siteVars
<1>1. /\ writing \in Consumers /\ writing' = None
      /\ applied' = IF works[writing]
                    THEN [applied EXCEPT ![writing] = Visited(writing).last] ELSE applied
      /\ unsure' = IF works[writing] /\ old[writing] = None
                   THEN unsure \ {writing} ELSE unsure \cup {writing}
      /\ UNCHANGED <<configured, obj, stage, kind, todo, old, exchanged>>
  BY DEF EndWrite
<1>2. writing \notin todo /\ Visited(writing).last = Target(writing)
  BY <1>1 DEF HeldInCycle, WritesTarget
<1>3. stage = "visiting"
  BY <1>1 DEF HeldInCycle
<1>4. HeldInCycle'
  BY <1>1, <1>3 DEF HeldInCycle
<1>5. WritesTarget'
  BY <1>1 DEF WritesTarget
<1>6. WrittenIsApplied'
  <2> SUFFICES ASSUME NEW c \in configured \ unsure' PROVE applied'[c] = obj[c].last
    BY <1>1 DEF WrittenIsApplied
  <2>1. CASE c = writing
    BY <1>1, <2>1 DEF Visited
  <2>2. CASE c # writing
    BY <1>1, <2>2 DEF WrittenIsApplied
  <2>3. QED
    BY <2>1, <2>2
<1>7. \A c \in Consumers : Visited(c)' = Visited(c) /\ Target(c)' = Target(c)
  BY <1>1 DEF Visited, Target
<1>8. Followed'
  <2> SUFFICES ASSUME NEW c \in (configured \ unsure') \ todo
               PROVE  IF kind = "release" THEN obj[c].last = Released
                      ELSE Distance(Target(c), obj[c].last) < Delta
    BY <1>1, <1>7 DEF Followed, Distance
  <2>1. CASE c = writing
    <3>1. obj[c].last = Target(c)
      BY <1>1, <1>2, <2>1 DEF Visited
    <3>2. CASE kind = "release"
      BY <3>1, <3>2 DEF Target
    <3>3. CASE kind # "release"
      <4>1. Target(c) \in Nat
        BY <3>3, VisitedType
      <4>2. QED
        BY <3>1, <3>3, <4>1 DEF Distance
    <3>4. QED
      BY <3>2, <3>3
  <2>2. CASE c # writing
    BY <1>1, <1>3, <2>2 DEF Followed
  <2>3. QED
    BY <2>1, <2>2
<1>9. MinimumAhead'
  <2>1. Consumers \cap Ahead' \subseteq Consumers \cap Ahead
    BY <1>1 DEF Ahead
  <2>2. QED
    BY <1>1, <1>3, <1>7, <2>1 DEF MinimumAhead
<1>10. QED
  BY <1>4, <1>5, <1>6, <1>8, <1>9

\* The dispatch happens between two cycles, and allots the minimum on an import.
LEMMA EvaluateStep ==
  ASSUME TypeOK, Inv, Evaluate
  PROVE  Inv'
<1> USE DEF Inv, TypeOK, siteVars, historyVars
<1>1. /\ stage = "idle" /\ stage' = "dispatched" /\ Dispatch
      /\ kind' = IF importing THEN "curtail" ELSE "share"
      /\ UNCHANGED <<configured, todo, writing, old, applied, unsure, exchanged>>
  BY DEF Evaluate
<1>2. /\ \A c \in Consumers : obj'[c].last = obj[c].last
      /\ importing => \A c \in configured : obj'[c].alloc = Minimum[c]
  BY <1>1, DispatchEffect
<1>3. writing = None
  BY <1>1 DEF HeldInCycle
<1>4. HeldInCycle' /\ WritesTarget'
  BY <1>1, <1>3 DEF HeldInCycle, WritesTarget
<1>5. WrittenIsApplied'
  BY <1>1, <1>2 DEF WrittenIsApplied
<1>6. Followed' /\ MinimumAhead'
  BY <1>1, <1>2 DEF Followed, MinimumAhead
<1>7. QED
  BY <1>4, <1>5, <1>6

\* A saved configuration takes nothing from the loop that it still uses, and
\* keeps the consumers it is sure of as they were.
LEMMA SavesStep ==
  ASSUME TypeOK, Inv, Saves
  PROVE  Inv'
<1> USE Powers DEF Inv, TypeOK
<1>1. UNCHANGED <<stage, kind, todo, writing, siteVars, applied>>
  BY SavesEffect
<1>2. /\ configured' \subseteq Consumers
      /\ unsure \subseteq unsure' /\ unsure' \subseteq Consumers
      /\ exchanged \subseteq exchanged'
      /\ \A c \in configured' \ unsure' :
           c \in configured \ unsure /\ obj'[c] = obj[c] /\ old'[c] = old[c]
      /\ \A c \in Consumers : old'[c] # old[c] => c \in Ahead /\ c \in unsure'
      /\ \A c \in Consumers \cap Ahead : Visited(c)' = Visited(c)
      /\ stage = "dispatched" => \A c \in configured' \ exchanged' :
           c \in configured \ exchanged /\ obj'[c] = obj[c]
  <2>1. PICK cs, replaced \in SUBSET Consumers :
          SaveConfiguration(cs, replaced) /\ cs \ configured \subseteq replaced
    BY SavesEffect
  <2>2. UNCHANGED <<todo, writing>>
    BY <1>1
  <2>3. QED
    BY <2>1, <2>2, SaveEffect
<1>3. Ahead' = Ahead
  BY <1>1 DEF Ahead
<1>4. HeldInCycle'
  <2>1. stage # "visiting" => Consumers \cap Ahead = {}
    BY DEF HeldInCycle, Ahead
  <2>2. QED
    BY <1>1, <1>2, <2>1 DEF HeldInCycle
<1>5. WritesTarget'
  <2> SUFFICES ASSUME writing # None
               PROVE  Visited(writing)'.last = Target(writing)'
    BY <1>1 DEF WritesTarget, Visited, Target
  <2>1. Visited(writing)' = Visited(writing)
    <3>1. writing \in Consumers \cap Ahead
      BY DEF Ahead
    <3>2. QED
      BY <1>1, <1>2, <3>1 DEF Visited
  <2>2. Target(writing)' = Target(writing)
    BY <1>1, <2>1 DEF Target
  <2>3. QED
    BY <2>1, <2>2 DEF WritesTarget
<1>6. WrittenIsApplied'
  BY <1>1, <1>2 DEF WrittenIsApplied
<1>7. Followed'
  <2> SUFFICES ASSUME stage # "dispatched", NEW c \in (configured' \ unsure') \ todo
               PROVE  IF kind = "release" THEN obj'[c].last = Released
                      ELSE Distance(Target(c)', obj'[c].last) < Delta
    BY <1>1 DEF Followed, Distance
  <2>1. c \in (configured \ unsure) \ todo /\ obj'[c] = obj[c]
    BY <1>2
  <2>2. Target(c)' = Target(c)
    BY <1>1, <1>2 DEF Target, Visited
  <2>3. QED
    BY <2>1, <2>2 DEF Followed
<1>8. MinimumAhead'
  <2>1. stage = "dispatched" /\ kind = "curtail" =>
          \A c \in configured' \ exchanged' : obj'[c].alloc = Minimum[c]
    BY <1>2 DEF MinimumAhead
  <2>2. stage = "visiting" /\ kind = "curtail" =>
          \A c \in (Consumers \cap Ahead) \ exchanged' : Visited(c)'.alloc = Minimum[c]
    BY <1>2 DEF MinimumAhead
  <2>3. QED
    BY <1>1, <1>3, <2>1, <2>2 DEF MinimumAhead
<1>9. QED
  BY <1>4, <1>5, <1>6, <1>7, <1>8

\* The invariant is inductive.
LEMMA InvStep == TypeOK /\ Inv /\ [Next]_vars => Inv'
<1> SUFFICES ASSUME TypeOK, Inv, [Next]_vars PROVE Inv'
  OBVIOUS
<1>1. CASE Evaluate
  BY <1>1, EvaluateStep
<1>2. CASE Actuate
  BY <1>2, TakeListStep DEF Actuate
<1>3. CASE StartRelease
  BY <1>3, TakeListStep DEF StartRelease
<1>4. CASE EndWrite
  BY <1>4, EndWriteStep
<1>5. CASE EndCycle
  <2> USE DEF Inv, TypeOK, serviceVars, siteVars
  <2>1. /\ stage = "visiting" /\ stage' = "idle" /\ todo = {} /\ writing = None
        /\ old' = [c \in Consumers |-> None]
        /\ UNCHANGED <<configured, obj, kind, todo, writing, applied, unsure>>
    BY <1>5 DEF EndCycle
  <2>2. HeldInCycle' /\ WritesTarget' /\ WrittenIsApplied' /\ MinimumAhead'
    BY <2>1 DEF HeldInCycle, WritesTarget, WrittenIsApplied, MinimumAhead
  <2>3. \A c \in configured \ unsure : Target(c)' = Target(c)
    BY <2>1 DEF HeldInCycle, Target, Visited
  <2>4. Followed'
    BY <2>1, <2>3 DEF Followed, Distance
  <2>5. QED
    BY <2>2, <2>4
<1>6. ASSUME NEW c \in Consumers, Visit(c) PROVE Inv'
  BY <1>6, VisitStep
<1>7. ASSUME NEW c \in Consumers, Age(c) PROVE Inv'
  <2> DEFINE o == obj[c]
  <2>1. o \in Object /\ obj' = [obj EXCEPT ![c] = [o EXCEPT !.due = TRUE]]
    BY <1>7 DEF Age, TypeOK
  <2> HIDE DEF o
  <2>2. /\ [o EXCEPT !.due = TRUE].alloc = o.alloc
        /\ [o EXCEPT !.due = TRUE].last = o.last
    BY <2>1 DEF Object
  <2>3. \A d \in Consumers : obj'[d].alloc = obj[d].alloc /\ obj'[d].last = obj[d].last
    BY <2>1, <2>2 DEF TypeOK, o
  <2>4. UNCHANGED <<configured, stage, kind, todo, writing, old, exchanged, unsure,
                    applied>>
    BY <1>7 DEF Age, loopVars, historyVars
  <2>5. QED
    BY <2>3, <2>4, CalmStep
<1>8. CASE Saves
  BY <1>8, SavesStep
<1>9. CASE SetEnabled
  BY <1>9, CalmStep DEF SetEnabled, loopVars
<1>10. ASSUME NEW c \in Consumers, Override(c) PROVE Inv'
  <2>1. /\ UNCHANGED <<configured, obj, stage, kind, todo, writing, old, exchanged>>
        /\ applied' = [applied EXCEPT ![c] = 0] /\ unsure' = unsure \cup {c}
    BY <1>10 DEF Override, serviceVars, loopVars
  <2>2. \A d \in Consumers \ unsure' : applied'[d] = applied[d]
    BY <2>1 DEF TypeOK
  <2>3. QED
    BY <2>1, <2>2, CalmStep
<1>11. CASE SiteChanges
  BY <1>11, CalmStep DEF SiteChanges, serviceVars, loopVars
<1>12. CASE Restart
  <2>1. /\ stage' = "idle" /\ todo' = {} /\ writing' = None /\ unsure' = Consumers
        /\ old' = [c \in Consumers |-> None] /\ configured' = configured
    BY <1>12 DEF Restart
  <2>2. QED
    BY <2>1 DEF Inv, HeldInCycle, WritesTarget, WrittenIsApplied, Followed,
                MinimumAhead, TypeOK
<1>13. CASE UNCHANGED vars
  BY <1>13, CalmStep DEF vars
<1>14. QED
  BY <1>1, <1>2, <1>3, <1>4, <1>5, <1>6, <1>7, <1>8, <1>9, <1>10, <1>11, <1>12, <1>13
  DEF Next, Loop, Outside, Saves

\* The invariant holds in every reachable state.
LEMMA Invariance == Spec => [](TypeOK /\ Inv)
<1>1. Init => Inv
  BY Powers DEF Init, Fresh, Inv, HeldInCycle, WritesTarget, WrittenIsApplied,
                Followed, MinimumAhead
<1>2. (TypeOK /\ Inv) /\ [Next]_vars => (TypeOK /\ Inv)'
  BY TypeStep, InvStep
<1>3. Spec => []TypeOK
  BY TypeCorrect
<1>4. QED
  BY <1>1, <1>2, <1>3, InvStep, PTL DEF Spec

\* Between two cycles a device obeys the share of its consumer, up to the
\* change that is not written at once; a released device obeys no limit.
THEOREM AllocationObeyed == Spec => []AppliedIsAllocated
<1>1. TypeOK /\ Inv => AppliedIsAllocated
  <2> SUFFICES ASSUME TypeOK, Inv, stage = "idle", NEW c \in configured \ unsure
               PROVE  IF kind = "release" THEN applied[c] = Released
                      ELSE Distance(applied[c], Base[c] + obj[c].alloc) < Delta
    BY DEF AppliedIsAllocated
  <2> USE DEF Inv, TypeOK
  <2>1. c \in Consumers /\ c \notin todo /\ c # writing /\ old[c] = None
    BY Powers DEF HeldInCycle
  <2>2. applied[c] = obj[c].last
    BY <2>1 DEF WrittenIsApplied
  <2>3. IF kind = "release" THEN obj[c].last = Released
        ELSE Distance(Target(c), obj[c].last) < Delta
    BY <2>1 DEF Followed
  <2>4. kind # "release" => Target(c) = Base[c] + obj[c].alloc
    BY <2>1 DEF Target, Visited
  <2>5. kind # "release" => Target(c) \in Nat /\ obj[c].last \in Int
    <3>1. obj[c] \in Object
      BY <2>1
    <3>2. obj[c].last \in Int
      BY <3>1, Powers DEF Object, Setpoints
    <3>3. QED
      BY <2>1, <3>2, VisitedType
  <2>6. CASE kind = "release"
    BY <2>2, <2>3, <2>6
  <2>7. CASE kind # "release"
    BY <2>2, <2>3, <2>4, <2>5, <2>7 DEF Distance
  <2>8. QED
    BY <2>6, <2>7
<1>2. QED
  BY <1>1, Invariance, PTL

\* A cycle that found an import writes no setpoint below the guaranteed
\* minimum, whatever happens while it runs.
THEOREM MinimumKept == Spec => MinimumSurvivesImport
<1>1. ASSUME TypeOK, Inv, [Next]_vars
      PROVE  [\A c \in Consumers :
                EndWrite /\ kind = "curtail" /\ applied'[c] # applied[c]
                  /\ c \notin exchanged
                => applied'[c] >= Base[c] + Minimum[c]]_vars
  <2> SUFFICES ASSUME NEW c \in Consumers, EndWrite, kind = "curtail",
                      applied'[c] # applied[c], c \notin exchanged
               PROVE  applied'[c] >= Base[c] + Minimum[c]
    OBVIOUS
  <2> USE DEF Inv, TypeOK
  <2>1. c = writing /\ applied'[c] = Visited(c).last
    BY <1>1 DEF EndWrite
  <2>2. stage = "visiting" /\ c \in Consumers \cap Ahead
    BY <1>1, <2>1, Powers DEF HeldInCycle, Ahead
  <2>3. Visited(c).alloc = Minimum[c]
    BY <1>1, <2>2 DEF MinimumAhead
  <2>4. applied'[c] = Base[c] + Visited(c).alloc
    BY <1>1, <2>1, Powers DEF WritesTarget, Target
  <2>5. QED
    BY <2>3, <2>4, Powers
<1>2. QED
  BY <1>1, Invariance, PTL DEF Spec, MinimumSurvivesImport

-----------------------------------------------------------------------------
(* Sums over finite sets, by which the shares are bounded.  What holds of  *)
(* every subset holds by the smallest one it would not hold of.            *)

\* Of some subsets of a finite set there is one that contains no other.
LEMMA SmallestSubset ==
  ASSUME NEW S, IsFiniteSet(S), NEW Some \in SUBSET (SUBSET S), Some # {}
  PROVE  \E T \in Some : \A U \in SUBSET T : U # T => U \notin Some
<1>1. /\ IsWellFoundedOn(StrictSubsetOrdering(S), FiniteSubsetsOf(S))
      /\ FiniteSubsetsOf(S) = SUBSET S
  BY FS_StrictSubsetOrderingWellFounded, FS_FiniteSubsetsOfFinite
<1>2. PICK T \in Some : \A U \in Some : <<U, T>> \notin StrictSubsetOrdering(S)
  <2>1. Some \subseteq FiniteSubsetsOf(S)
    BY <1>1
  <2>2. QED
    BY <1>1, <2>1, WFMin
<1>3. ASSUME NEW U \in SUBSET T, U # T, U \in Some PROVE FALSE
  <2>1. U \in SUBSET S /\ T \in SUBSET S
    OBVIOUS
  <2>2. <<U, T>> \in StrictSubsetOrdering(S)
    BY <1>3, <2>1 DEF StrictSubsetOrdering
  <2>3. QED
    BY <1>2, <1>3, <2>2
<1>4. QED
  BY <1>2, <1>3

\* The element a sum takes first.
First(s) == CHOOSE x \in s : TRUE

\* g sums fun over every subset of S.
Sums(fun, S, g) ==
  g = [s \in SUBSET S |-> IF s = {} THEN 0 ELSE fun[First(s)] + g[s \ {First(s)}]]

\* What the library's sum is the value of.
LEMMA SumIs ==
  ASSUME NEW fun, NEW S
  PROVE  SumFunctionOnSet(fun, S) = (CHOOSE g : Sums(fun, S, g))[S]
BY DEF SumFunctionOnSet, FoldFunctionOnSet, MapThenFoldSet, Sums, First

\* A set that is not empty has a first element.
LEMMA FirstIn ==
  ASSUME NEW s, s # {}
  PROVE  First(s) \in s /\ s \ {First(s)} \subseteq s /\ s \ {First(s)} # s
BY DEF First

\* Two functions that sum agree, where both sum.
LEMMA SumsAgree ==
  ASSUME NEW fun, NEW S, IsFiniteSet(S), NEW T \in SUBSET S,
         NEW g, NEW h, Sums(fun, S, g), Sums(fun, T, h)
  PROVE  \A s \in SUBSET T : g[s] = h[s]
<1> DEFINE Bad == {s \in SUBSET T : g[s] # h[s]}
<1>1. SUFFICES ASSUME Bad # {} PROVE FALSE
  OBVIOUS
<1>2. IsFiniteSet(T)
  BY FS_Subset
<1>3. PICK s \in Bad : \A U \in SUBSET s : U # s => U \notin Bad
  <2>1. Bad \in SUBSET (SUBSET T)
    OBVIOUS
  <2> HIDE DEF Bad
  <2>2. QED
    BY <1>1, <1>2, <2>1, SmallestSubset
<1>4. s \in SUBSET T /\ s \in SUBSET S /\ g[s] # h[s]
  OBVIOUS
<1>5. /\ g[s] = IF s = {} THEN 0 ELSE fun[First(s)] + g[s \ {First(s)}]
      /\ h[s] = IF s = {} THEN 0 ELSE fun[First(s)] + h[s \ {First(s)}]
  BY <1>4 DEF Sums
<1>6. s # {}
  BY <1>4, <1>5
<1>7. g[s \ {First(s)}] = h[s \ {First(s)}]
  BY <1>3, <1>4, <1>6, FirstIn
<1>8. QED
  BY <1>4, <1>5, <1>6, <1>7

\* Every finite set has a function that sums over its subsets.
LEMMA SumsExist ==
  ASSUME NEW fun, NEW S, IsFiniteSet(S)
  PROVE  \E g : Sums(fun, S, g)
<1> DEFINE Bad == {T \in SUBSET S : ~ \E g : Sums(fun, T, g)}
<1>1. SUFFICES ASSUME Bad # {} PROVE FALSE
  OBVIOUS
<1>2. PICK T \in Bad : \A U \in SUBSET T : U # T => U \notin Bad
  <2>1. Bad \in SUBSET (SUBSET S)
    OBVIOUS
  <2> HIDE DEF Bad
  <2>2. QED
    BY <1>1, <2>1, SmallestSubset
<1>3. T \in SUBSET S /\ ~ \E g : Sums(fun, T, g)
  BY <1>2
<1> DEFINE G(U) == CHOOSE g : Sums(fun, U, g)
           f == [s \in SUBSET T |->
                   IF s = {} THEN 0
                   ELSE fun[First(s)] + G(s \ {First(s)})[s \ {First(s)}]]
<1>4. ASSUME NEW U \in SUBSET T, U # T PROVE Sums(fun, U, G(U))
  <2>1. \E g : Sums(fun, U, g)
    BY <1>2, <1>4
  <2>2. QED
    BY <2>1
<1> HIDE DEF G, Bad
<1>5. ASSUME NEW U \in SUBSET T, U # T PROVE f[U] = G(U)[U]
  <2>1. U \in SUBSET U
    OBVIOUS
  <2>2. Sums(fun, U, G(U))
    BY <1>4, <1>5
  <2>3. G(U)[U] = IF U = {} THEN 0 ELSE fun[First(U)] + G(U)[U \ {First(U)}]
    BY <2>1, <2>2 DEF Sums
  <2>4. CASE U = {}
    BY <2>3, <2>4
  <2>5. CASE U # {}
    <3> DEFINE V == U \ {First(U)}
    <3>1. V \in SUBSET U /\ V \in SUBSET T /\ V # T
      BY <1>5, <2>5, FirstIn
    <3>2. Sums(fun, V, G(V))
      BY <1>4, <3>1
    <3>3. IsFiniteSet(U)
      BY <1>3, FS_Subset
    <3> HIDE DEF V
    <3>4. \A s \in SUBSET V : G(U)[s] = G(V)[s]
      <4>1. ASSUME NEW g, NEW h, Sums(fun, U, g), Sums(fun, V, h)
            PROVE  \A s \in SUBSET V : g[s] = h[s]
        BY <3>1, <3>3, <4>1, SumsAgree
      <4>2. QED
        BY <2>2, <3>2, <4>1
    <3>5. V \in SUBSET V
      OBVIOUS
    <3>6. G(U)[V] = G(V)[V]
      BY <3>4, <3>5
    <3>7. f[U] = fun[First(U)] + G(V)[V]
      BY <2>5 DEF V
    <3>8. QED
      BY <2>3, <2>5, <3>6, <3>7 DEF V
  <2>6. QED
    BY <2>4, <2>5
<1>6. ASSUME NEW s \in SUBSET T, s # {}
      PROVE  f[s \ {First(s)}] = G(s \ {First(s)})[s \ {First(s)}]
  <2>1. s \ {First(s)} \in SUBSET T /\ s \ {First(s)} # T
    BY <1>6, FirstIn
  <2>2. QED
    BY <1>5, <2>1
<1>7. f = [s \in SUBSET T |-> IF s = {} THEN 0 ELSE fun[First(s)] + f[s \ {First(s)}]]
  <2> DEFINE k == f
  <2>1. \A s \in SUBSET T :
          f[s] = IF s = {} THEN 0 ELSE fun[First(s)] + k[s \ {First(s)}]
    BY <1>6
  <2>2. f = [s \in SUBSET T |-> f[s]]
    OBVIOUS
  <2> HIDE DEF f
  <2>3. QED
    BY <2>1, <2>2 DEF k
<1>8. Sums(fun, T, f)
  BY <1>7 DEF Sums
<1>9. QED
  BY <1>3, <1>8

\* The sum is the value of a function that sums.
LEMMA SumOf ==
  ASSUME NEW fun, NEW S, IsFiniteSet(S)
  PROVE  \E g : Sums(fun, S, g) /\ SumFunctionOnSet(fun, S) = g[S]
<1> DEFINE g == CHOOSE k : Sums(fun, S, k)
<1>1. Sums(fun, S, g)
  BY SumsExist
<1>2. SumFunctionOnSet(fun, S) = g[S]
  BY SumIs
<1>3. QED
  BY <1>1, <1>2

\* The sum over a finite set is its first value and the sum over the rest.
LEMMA SumFirst ==
  ASSUME NEW fun, NEW S, IsFiniteSet(S)
  PROVE  SumFunctionOnSet(fun, S) =
           IF S = {} THEN 0
           ELSE fun[First(S)] + SumFunctionOnSet(fun, S \ {First(S)})
<1>1. PICK g : Sums(fun, S, g) /\ SumFunctionOnSet(fun, S) = g[S]
  BY SumOf
<1>2. PICK R \in SUBSET S : R = S \ {First(S)}
  OBVIOUS
<1>3. IsFiniteSet(R) /\ R \in SUBSET R /\ S \in SUBSET S
  BY FS_Subset
<1>4. PICK h : Sums(fun, R, h) /\ SumFunctionOnSet(fun, R) = h[R]
  BY <1>3, SumOf
<1>5. g[S] = IF S = {} THEN 0 ELSE fun[First(S)] + g[R]
  BY <1>1, <1>2, <1>3 DEF Sums
<1>6. g[R] = h[R]
  BY <1>1, <1>3, <1>4, SumsAgree
<1>7. QED
  BY <1>1, <1>2, <1>4, <1>5, <1>6

\* A sum of natural numbers is one, and any element may be taken first.
LEMMA SumRest ==
  ASSUME NEW S, IsFiniteSet(S), NEW fun, \A x \in S : fun[x] \in Nat
  PROVE  /\ SumFunctionOnSet(fun, S) \in Nat
         /\ \A x \in S : SumFunctionOnSet(fun, S) =
                           fun[x] + SumFunctionOnSet(fun, S \ {x})
<1> DEFINE Sum(T) == SumFunctionOnSet(fun, T)
           Good(T) == /\ Sum(T) \in Nat
                      /\ \A x \in T : Sum(T) = fun[x] + Sum(T \ {x})
           Bad == {T \in SUBSET S : ~Good(T)}
<1>1. SUFFICES ASSUME Bad # {} PROVE FALSE
  <2>1. S \in SUBSET S
    OBVIOUS
  <2>2. QED
    BY <2>1
<1>2. PICK T \in Bad : \A U \in SUBSET T : U # T => U \notin Bad
  <2>1. Bad \in SUBSET (SUBSET S)
    OBVIOUS
  <2> HIDE DEF Bad
  <2>2. QED
    BY <1>1, <2>1, SmallestSubset
<1>3. T \in SUBSET S /\ ~Good(T)
  BY <1>2
<1>4. ASSUME NEW U \in SUBSET T, U # T PROVE Good(U)
  <2>1. U \in SUBSET S
    BY <1>3
  <2> HIDE DEF Good
  <2>2. QED
    BY <1>2, <1>4, <2>1
<1>5. ASSUME NEW U \in SUBSET T
      PROVE  Sum(U) = IF U = {} THEN 0 ELSE fun[First(U)] + Sum(U \ {First(U)})
  <2>1. IsFiniteSet(U)
    BY <1>3, FS_Subset
  <2>2. QED
    BY <2>1, SumFirst
<1> HIDE DEF Sum, Bad
<1>6. T # {}
  <2>1. ASSUME T = {} PROVE Good(T)
    <3>1. Sum(T) = 0
      BY <1>5, <2>1
    <3>2. QED
      BY <2>1, <3>1
  <2>2. QED
    BY <1>3, <2>1
<1> DEFINE y == First(T)
<1>7. y \in T /\ T \ {y} \in SUBSET T /\ T \ {y} # T /\ T \in SUBSET T
  BY <1>6, FirstIn
<1>8. Sum(T) = fun[y] + Sum(T \ {y})
  BY <1>5, <1>6, <1>7
<1> HIDE DEF y
<1>9. \A x \in T : fun[x] \in Nat
  BY <1>3
<1>10. Good(T \ {y})
  BY <1>4, <1>7
<1>11. Sum(T) \in Nat
  BY <1>7, <1>8, <1>9, <1>10
<1>12. ASSUME NEW x \in T PROVE Sum(T) = fun[x] + Sum(T \ {x})
  <2>1. CASE x = y
    BY <1>8, <2>1
  <2>2. CASE x # y
    <3>1. x \in T \ {y} /\ y \in T \ {x} /\ T \ {x} \in SUBSET T /\ T \ {x} # T
      BY <1>7, <2>2
    <3>2. Good(T \ {x})
      BY <1>4, <3>1
    <3>3. (T \ {x}) \ {y} = (T \ {y}) \ {x}
      OBVIOUS
    <3> DEFINE R == (T \ {y}) \ {x}
    <3>4. R \in SUBSET T /\ R # T
      BY <1>12
    <3>5. Good(R)
      BY <1>4, <3>4
    <3>6. Sum(T \ {y}) = fun[x] + Sum(R)
      BY <1>10, <3>1
    <3>7. Sum(T \ {x}) = fun[y] + Sum(R)
      BY <3>1, <3>2, <3>3
    <3>8. Sum(R) \in Nat /\ fun[x] \in Nat /\ fun[y] \in Nat
      BY <1>7, <1>9, <3>5
    <3> HIDE DEF R
    <3>9. QED
      BY <1>8, <3>6, <3>7, <3>8
  <2>3. QED
    BY <2>1, <2>2
<1>13. QED
  BY <1>3, <1>11, <1>12

\* A sum over more is no less.
LEMMA SumGrows ==
  ASSUME NEW S, IsFiniteSet(S), NEW fun, \A x \in S : fun[x] \in Nat, NEW T \in SUBSET S
  PROVE  SumFunctionOnSet(fun, T) <= SumFunctionOnSet(fun, S)
<1> DEFINE Bad == {U \in SUBSET S : T \subseteq U
                      /\ ~(SumFunctionOnSet(fun, T) <= SumFunctionOnSet(fun, U))}
<1>1. SUFFICES ASSUME Bad # {} PROVE FALSE
  <2>1. S \in SUBSET S
    OBVIOUS
  <2>2. QED
    BY <2>1
<1>2. PICK U \in Bad : \A V \in SUBSET U : V # U => V \notin Bad
  <2>1. Bad \in SUBSET (SUBSET S)
    OBVIOUS
  <2> HIDE DEF Bad
  <2>2. QED
    BY <1>1, <2>1, SmallestSubset
<1>3. U \in SUBSET S /\ T \subseteq U
  BY <1>2
<1>4. ASSUME NEW V \in SUBSET S
      PROVE  /\ SumFunctionOnSet(fun, V) \in Nat
             /\ \A x \in V : SumFunctionOnSet(fun, V) =
                               fun[x] + SumFunctionOnSet(fun, V \ {x})
             /\ \A x \in V : fun[x] \in Nat
  <2>1. IsFiniteSet(V)
    BY FS_Subset
  <2>2. \A x \in V : fun[x] \in Nat
    OBVIOUS
  <2>3. QED
    BY <2>1, <2>2, SumRest
<1>5. PICK x \in U : x \notin T
  <2>1. U # T
    BY <1>2, <1>4, <1>3
  <2>2. QED
    BY <1>3, <2>1
<1>6. U \ {x} \in SUBSET U /\ U \ {x} # U /\ U \ {x} \in SUBSET S /\ T \subseteq U \ {x}
  BY <1>3, <1>5
<1>7. SumFunctionOnSet(fun, T) <= SumFunctionOnSet(fun, U \ {x})
  BY <1>2, <1>6
<1>8. /\ SumFunctionOnSet(fun, U) = fun[x] + SumFunctionOnSet(fun, U \ {x})
      /\ SumFunctionOnSet(fun, U \ {x}) \in Nat /\ fun[x] \in Nat
      /\ SumFunctionOnSet(fun, T) \in Nat
  BY <1>3, <1>4, <1>5, <1>6
<1>9. SumFunctionOnSet(fun, T) <= SumFunctionOnSet(fun, U)
  BY <1>7, <1>8
<1>10. QED
  BY <1>2, <1>9

-----------------------------------------------------------------------------
(* The shares.                                                             *)

\* Functions that agree on a finite set have the same sum over it.
LEMMA SumSame ==
  ASSUME NEW S, IsFiniteSet(S), NEW fun, NEW gun, \A x \in S : fun[x] = gun[x]
  PROVE  SumFunctionOnSet(fun, S) = SumFunctionOnSet(gun, S)
<1> DEFINE Bad == {T \in SUBSET S : SumFunctionOnSet(fun, T) # SumFunctionOnSet(gun, T)}
<1>1. SUFFICES ASSUME Bad # {} PROVE FALSE
  <2>1. S \in SUBSET S
    OBVIOUS
  <2>2. QED
    BY <2>1
<1>2. PICK T \in Bad : \A U \in SUBSET T : U # T => U \notin Bad
  <2>1. Bad \in SUBSET (SUBSET S)
    OBVIOUS
  <2> HIDE DEF Bad
  <2>2. QED
    BY <1>1, <2>1, SmallestSubset
<1>3. T \in SUBSET S /\ SumFunctionOnSet(fun, T) # SumFunctionOnSet(gun, T)
  BY <1>2
<1>4. IsFiniteSet(T)
  BY <1>3, FS_Subset
<1>5. /\ SumFunctionOnSet(fun, T) =
           IF T = {} THEN 0 ELSE fun[First(T)] + SumFunctionOnSet(fun, T \ {First(T)})
      /\ SumFunctionOnSet(gun, T) =
           IF T = {} THEN 0 ELSE gun[First(T)] + SumFunctionOnSet(gun, T \ {First(T)})
  BY <1>4, SumFirst
<1>6. T # {}
  BY <1>3, <1>5
<1>7. First(T) \in T /\ T \ {First(T)} \in SUBSET T /\ T \ {First(T)} # T
  BY <1>6, FirstIn
<1>8. SumFunctionOnSet(fun, T \ {First(T)}) = SumFunctionOnSet(gun, T \ {First(T)})
  BY <1>2, <1>3, <1>7
<1>9. QED
  BY <1>3, <1>5, <1>7, <1>8

\* Of some consumers there is a last one in the order of priorities.
LEMMA LastInOrder ==
  ASSUME NEW T \in SUBSET Consumers, T # {}
  PROVE  \E m \in T : \A d \in T : d # m => Rank[d] < Rank[m]
<1>1. /\ \A c \in Consumers : Rank[c] \in Nat
      /\ \A c, d \in Consumers : Rank[c] = Rank[d] => c = d
  BY ConstantsAssumption
<1> DEFINE Behind(x) == {y \in T : Rank[x] < Rank[y]}
           Some == {Behind(x) : x \in T}
<1>2. IsFiniteSet(T)
  BY ConstantsAssumption, FS_Subset
<1>3. PICK B \in Some : \A U \in SUBSET B : U # B => U \notin Some
  <2>1. Some \in SUBSET (SUBSET T) /\ Some # {}
    OBVIOUS
  <2> HIDE DEF Some
  <2>2. QED
    BY <1>2, <2>1, SmallestSubset
<1>4. PICK m \in T : B = Behind(m)
  OBVIOUS
<1>5. ASSUME NEW y \in T, Rank[m] < Rank[y] PROVE FALSE
  <2>1. Behind(y) \in SUBSET Behind(m) /\ y \in Behind(m) /\ y \notin Behind(y)
    BY <1>1, <1>5
  <2>2. QED
    BY <1>3, <1>4, <2>1
<1>6. QED
  BY <1>1, <1>5

\* The shares of a dispatch, and the sums of them.
LEMMA SharesType ==
  ASSUME TypeOK, NEW s \in Shares
  PROVE  /\ headroom \in Nat
         /\ \A c \in configured :
              /\ s[c] \in Nat
              /\ Taken(s, c) \in Nat
              /\ s[c] = Least(Useful(c), headroom - Taken(s, c))
              /\ Useful(c) \in Nat
         /\ \A T \in SUBSET configured :
              /\ IsFiniteSet(T)
              /\ SumFunctionOnSet(s, T) \in Nat
              /\ \A x \in T : SumFunctionOnSet(s, T) =
                                s[x] + SumFunctionOnSet(s, T \ {x})
<1>1. headroom \in Nat /\ configured \in SUBSET Consumers
  BY ConstantsAssumption DEF TypeOK
<1>2. \A c \in configured : s[c] \in Nat
  BY <1>1 DEF Shares
<1>3. ASSUME NEW T \in SUBSET configured
      PROVE  /\ IsFiniteSet(T)
             /\ SumFunctionOnSet(s, T) \in Nat
             /\ \A x \in T : SumFunctionOnSet(s, T) =
                               s[x] + SumFunctionOnSet(s, T \ {x})
  <2>1. IsFiniteSet(T)
    BY <1>1, ConstantsAssumption, FS_Subset
  <2>2. \A x \in T : s[x] \in Nat
    BY <1>2
  <2>3. QED
    BY <2>1, <2>2, SumRest
<1>4. ASSUME NEW c \in configured PROVE Taken(s, c) \in Nat
  <2>1. {d \in configured : Rank[d] < Rank[c]} \in SUBSET configured
    OBVIOUS
  <2>2. QED
    BY <1>3, <2>1 DEF Taken
<1>5. ASSUME NEW c \in configured PROVE Useful(c) \in Nat
  <2>1. c \in Consumers
    BY <1>1
  <2>2. Minimum[c] \in Nat /\ Ceiling[c] \in Nat /\ Ramp[c] \in Nat
    BY <2>1, ConstantsAssumption
  <2>3. obj[c].alloc \in Nat
    BY <2>1 DEF TypeOK, Object
  <2>4. Requested(c) \in Nat
    BY <2>2, <2>3 DEF Requested
  <2>5. QED
    BY <2>2, <2>4 DEF Useful, Least
<1>6. \A c \in configured : s[c] = Least(Useful(c), headroom - Taken(s, c))
  BY DEF Shares
<1>7. QED
  BY <1>1, <1>2, <1>3, <1>4, <1>5, <1>6

\* The shares stay within the headroom: the last consumer takes no more than
\* the others leave, and the others are those before it.
LEMMA SharesFit ==
  ASSUME TypeOK, NEW s \in Shares
  PROVE  SumFunctionOnSet(s, configured) <= headroom
<1>1. CASE configured = {}
  <2>1. SumFunctionOnSet(s, configured) = 0
    BY <1>1, SumFirst, FS_EmptySet
  <2>2. QED
    BY <2>1, SharesType
<1>2. CASE configured # {}
  <2>1. configured \in SUBSET Consumers
    BY DEF TypeOK
  <2>2. PICK m \in configured : \A d \in configured : d # m => Rank[d] < Rank[m]
    BY <1>2, <2>1, LastInOrder
  <2>3. {d \in configured : Rank[d] < Rank[m]} = configured \ {m}
    BY <2>1, <2>2, ConstantsAssumption
  <2>4. Taken(s, m) = SumFunctionOnSet(s, configured \ {m})
    BY <2>3 DEF Taken
  <2>5. SumFunctionOnSet(s, configured) = s[m] + Taken(s, m)
    BY <2>4, SharesType
  <2>6. s[m] <= headroom - Taken(s, m)
    BY SharesType DEF Least
  <2>7. QED
    BY <2>5, <2>6, SharesType
<1>3. QED
  BY <1>1, <1>2

\* Where a consumer has a share, those before it have all they can use: one
\* that had less would have left nothing.
LEMMA SharesOrdered ==
  ASSUME TypeOK, NEW s \in Shares, NEW c \in configured, NEW d \in configured,
         Rank[c] < Rank[d], s[d] > 0
  PROVE  s[c] = Useful(c)
<1>1. configured \in SUBSET Consumers /\ \A x \in configured : Rank[x] \in Nat
  BY ConstantsAssumption DEF TypeOK
<1> DEFINE Before(x) == {y \in configured : Rank[y] < Rank[x]}
<1>2. PICK B : B = Before(c) \cup {c}
  OBVIOUS
<1>3. /\ B \in SUBSET Before(d) /\ c \in B /\ B \ {c} = Before(c)
      /\ Before(d) \in SUBSET configured /\ B \in SUBSET configured
  BY <1>1, <1>2
<1>4. Taken(s, c) = SumFunctionOnSet(s, Before(c)) /\ Taken(s, d) = SumFunctionOnSet(s, Before(d))
  BY DEF Taken
<1>5. SumFunctionOnSet(s, B) = s[c] + Taken(s, c)
  BY <1>3, <1>4, SharesType
<1>6. SumFunctionOnSet(s, B) <= Taken(s, d)
  <2>1. IsFiniteSet(Before(d)) /\ \A x \in Before(d) : s[x] \in Nat
    BY <1>3, SharesType
  <2> HIDE DEF Before
  <2>2. QED
    BY <1>3, <1>4, <2>1, SumGrows
<1>7. s[d] <= headroom - Taken(s, d)
  BY SharesType DEF Least
<1>8. s[c] < headroom - Taken(s, c)
  <2>1. /\ headroom \in Nat /\ s[c] \in Nat /\ s[d] \in Nat
        /\ Taken(s, c) \in Nat /\ Taken(s, d) \in Nat
    BY SharesType
  <2>2. QED
    BY <1>5, <1>6, <1>7, <2>1
<1>9. QED
  BY <1>8, SharesType DEF Least

\* Without an import, the shares together stay within the headroom, and a
\* consumer has a share only when those before it have all they can use.
THEOREM SharesByPriority == Spec => HeadroomByPriority
<1> DEFINE share == [c \in Consumers |-> obj'[c].alloc]
           Fits == SumFunctionOnSet(share, configured) <= headroom
           Ordered == \A c, d \in configured :
                        Rank[c] < Rank[d] /\ share[d] > 0 => share[c] = Useful(c)
<1>1. ASSUME TypeOK, Evaluate, ~importing PROVE Fits /\ Ordered
  <2>1. configured \in SUBSET Consumers /\ IsFiniteSet(configured)
    BY <1>1, ConstantsAssumption, FS_Subset DEF TypeOK
  <2>2. PICK s \in Shares : Allot(s)
    BY <1>1 DEF Evaluate, Dispatch
  <2>3. \A c \in configured : share[c] = s[c]
    <3>1. \A c \in Consumers : obj[c] \in [alloc : Nat, last : Setpoints, due : BOOLEAN]
      BY <1>1 DEF TypeOK, Object
    <3>2. QED
      BY <2>1, <2>2, <3>1 DEF Allot
  <2>4. SumFunctionOnSet(share, configured) = SumFunctionOnSet(s, configured)
    <3> HIDE DEF share
    <3>1. QED
      BY <2>1, <2>3, SumSame
  <2>5. Fits
    BY <1>1, <2>2, <2>4, SharesFit
  <2>6. Ordered
    <3> HIDE DEF share
    <3>1. QED
      BY <1>1, <2>2, <2>3, SharesOrdered
  <2>7. QED
    BY <2>5, <2>6
<1>2. TypeOK => [Evaluate /\ ~importing => Fits /\ Ordered]_vars
  BY <1>1
<1>3. QED
  BY <1>2, TypeCorrect, PTL DEF HeadroomByPriority
=============================================================================
