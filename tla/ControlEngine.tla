---------------------------- MODULE ControlEngine ---------------------------
(***************************************************************************)
(* Control rules: telemetry in, writes to devices out.                     *)
(*                                                                         *)
(* One loop evaluates the rules that are due.  It takes a snapshot of the  *)
(* values, decides from it whether the rule's condition holds and its      *)
(* sources are fresh, and executes the rule's actions one by one; for each *)
(* it waits for the lock of the target's connection, which the polling     *)
(* loops hold while they read their devices.  Values keep arriving and     *)
(* getting old meanwhile.  A failed write raises an alarm in AlarmStore.   *)
(*                                                                         *)
(* A rule reads one source, in its condition and as the value it writes.   *)
(* When rules are due is left open: a rule is evaluated at any time the    *)
(* loop is free.                                                           *)
(***************************************************************************)
EXTENDS Integers, Sequences

CONSTANTS
  Rules,
  Sources,
  Targets,
  Values,
  Source,       \* rule |-> the source of its condition and value
  Trigger,      \* rule |-> values for which its condition holds
  Actions,      \* rule |-> sequence of targets it writes
  OnChangeOnly, \* rules with onChangeOnly
  Numeric,      \* values that can be written
  Writable,     \* targets with a driver that writes them
  Connection,   \* target |-> connection
  Ids,          \* alarm ids
  MaxChanges,   \* bound: changes of values, freshness and connections
  Nothing       \* no value, no rule, no alarm, nobody

Connections == {Connection[t] : t \in Targets}

VARIABLES
  value,        \* _values
  fresh,        \* source |-> seen within the rule's sourceStaleSeconds
  last,         \* _lastConditions
  run,          \* the rule being executed, the actions left, the snapshot
  lock,         \* connection |-> holder of its lock
  reachable,    \* connection |-> writes succeed (not under src/)
  alarms,       \* the alarm table
  target,       \* target |-> value last written to it
  \* history
  changes,      \* number of changes of the environment
  fired,        \* rule |-> executions since its condition was last false,
                \* counted to 2
  outcome       \* rule |-> outcome of its last write

ruleVars == <<value, fresh, last, run, lock, reachable, alarms, target,
          changes, fired, outcome>>

Store == INSTANCE AlarmStore
           WITH NoRow <- Nothing, Originators <- Rules, OriginTypes <- {"CONTROL", "DEVICE"},
                Types <- {"Control Write Failure"}, Severities <- {"WARNING"}

ASSUME RulesAssumption ==
  /\ Source \in [Rules -> Sources]
  /\ Trigger \in [Rules -> SUBSET Values]
  /\ Actions \in [Rules -> Seq(Targets) \ {<<>>}] \* the others do nothing
  /\ OnChangeOnly \subseteq Rules
  /\ Numeric \subseteq Values
  /\ Writable \subseteq Targets
  /\ MaxChanges \in Nat
  /\ Nothing \notin Values \cup Rules \cup Store!Row

Idle == [rule |-> Nothing, left |-> <<>>, val |-> Nothing]

RulesTypeOK ==
  /\ value \in [Sources -> Values \cup {Nothing}]
  /\ fresh \in [Sources -> BOOLEAN]
  /\ last \in [Rules -> BOOLEAN]
  /\ run \in [rule : Rules \cup {Nothing}, left : Seq(Targets), val : Values \cup {Nothing}]
  /\ lock \in [Connections -> {"free", "poller", "engine"}]
  /\ reachable \in [Connections -> BOOLEAN]
  /\ Store!TypeOK
  /\ target \in [Targets -> Values \cup {Nothing}]
  /\ changes \in 0..MaxChanges
  /\ fired \in [Rules -> 0..2]
  /\ outcome \in [Rules -> {"none", "ok", "failed"}]

-----------------------------------------------------------------------------
\* the target the engine is to write next, and its connection
Aim == Head(run.left)
Conn == Connection[Aim]

Alarmed(r) == Store!Found(r, "Control Write Failure") # {}

\* the condition of a rule, over the values and their ages of this moment
Condition(r) ==
  /\ value[Source[r]] # Nothing
  /\ value[Source[r]] \in Trigger[r]
  /\ fresh[Source[r]]

\* Mutant: the last condition is only recorded when the rule does not fire.
EvaluateDueForgets(r) ==
  /\ run = Idle
  /\ IF Condition(r) /\ ~(r \in OnChangeOnly /\ last[r])
       THEN /\ run' = [rule |-> r, left |-> Actions[r], val |-> value[Source[r]]]
            /\ fired' = [fired EXCEPT ![r] = IF @ < 2 THEN @ + 1 ELSE @]
            /\ UNCHANGED last
       ELSE /\ fired' = [fired EXCEPT ![r] = IF Condition(r) THEN @ ELSE 0]
            /\ last' = [last EXCEPT ![r] = Condition(r)]
            /\ UNCHANGED run
  /\ UNCHANGED <<value, fresh, lock, reachable, alarms, target, changes, outcome>>

\* Mutant: every rule fires only when its condition becomes true.
EvaluateDueOnChange(r) ==
  /\ run = Idle
  /\ last' = [last EXCEPT ![r] = Condition(r)]
  /\ IF Condition(r) /\ ~last[r]
       THEN /\ run' = [rule |-> r, left |-> Actions[r], val |-> value[Source[r]]]
            /\ fired' = [fired EXCEPT ![r] = IF @ < 2 THEN @ + 1 ELSE @]
       ELSE /\ fired' = [fired EXCEPT ![r] = IF Condition(r) THEN @ ELSE 0]
            /\ UNCHANGED run
  /\ UNCHANGED <<value, fresh, lock, reachable, alarms, target, changes, outcome>>

EvaluateDue(r) ==
  /\ run = Idle
  /\ last' = [last EXCEPT ![r] = Condition(r)]
  /\ IF Condition(r) /\ ~(r \in OnChangeOnly /\ last[r])
       THEN /\ run' = [rule |-> r, left |-> Actions[r], val |-> value[Source[r]]]
            /\ fired' = [fired EXCEPT ![r] = IF @ < 2 THEN @ + 1 ELSE @]
       ELSE /\ fired' = [fired EXCEPT ![r] = IF Condition(r) THEN @ ELSE 0]
            /\ UNCHANGED run
  /\ UNCHANGED <<value, fresh, lock, reachable, alarms, target, changes, outcome>>

-----------------------------------------------------------------------------
(* ExecuteActionAsync, for the first action that is left.                  *)

NextAction ==
  run' = IF Len(run.left) = 1 THEN Idle ELSE [run EXCEPT !.left = Tail(@)]

\* Mutant: a failure of the connection raises no alarm.
RecordFailureSilent(r) ==
  /\ outcome' = [outcome EXCEPT ![r] = "failed"]
  /\ UNCHANGED alarms

\* Mutant: the alarm is raised under a type the store does not have.
RecordFailureOther(r) ==
  /\ Store!CreateOrUpdate(r, "RULE", "Control Write Failure", "WARNING")
  /\ outcome' = [outcome EXCEPT ![r] = "failed"]

RecordFailure(r) ==
  /\ Store!CreateOrUpdate(r, "CONTROL", "Control Write Failure", "WARNING")
  /\ outcome' = [outcome EXCEPT ![r] = "failed"]

\* the value is neither a number nor a boolean
Skip ==
  /\ run # Idle
  /\ run.val \notin Numeric
  /\ NextAction
  /\ UNCHANGED <<value, fresh, last, lock, reachable, alarms, target,
                 changes, fired, outcome>>

\* the target has no driver that writes it
Refuse ==
  /\ run # Idle
  /\ run.val \in Numeric
  /\ Aim \notin Writable
  /\ RecordFailure(run.rule)
  /\ NextAction
  /\ UNCHANGED <<value, fresh, last, lock, reachable, target, changes, fired>>

AcquireLock ==
  /\ run # Idle
  /\ run.val \in Numeric
  /\ Aim \in Writable
  /\ lock[Conn] = "free"
  /\ lock' = [lock EXCEPT ![Conn] = "engine"]
  /\ UNCHANGED <<value, fresh, last, run, reachable, alarms, target,
                 changes, fired, outcome>>

\* The write, under the lock, and what the engine does about its result.
Write ==
  /\ run # Idle
  /\ lock[Conn] = "engine"
  /\ lock' = [lock EXCEPT ![Conn] = "free"]
  /\ \/ /\ reachable[Conn]
        /\ target' = [target EXCEPT ![Aim] = run.val]
        /\ Store!ClearByOriginAndType(run.rule, "Control Write Failure", "DEVICE")
        /\ outcome' = [outcome EXCEPT ![run.rule] = "ok"]
     \/ /\ ~reachable[Conn]
        /\ RecordFailure(run.rule)
        /\ UNCHANGED target
  /\ NextAction
  /\ UNCHANGED <<value, fresh, last, reachable, changes, fired>>

-----------------------------------------------------------------------------
(* The polling loops, the devices, the clock and the process.              *)
TakeLock(c) ==
  /\ lock[c] = "free"
  /\ lock' = [lock EXCEPT ![c] = "poller"]
  /\ UNCHANGED <<value, fresh, last, run, reachable, alarms, target,
                 changes, fired, outcome>>

ReleaseLock(c) ==
  /\ lock[c] = "poller"
  /\ lock' = [lock EXCEPT ![c] = "free"]
  /\ UNCHANGED <<value, fresh, last, run, reachable, alarms, target,
                 changes, fired, outcome>>

Change == changes < MaxChanges /\ changes' = changes + 1

Update(s, v) ==
  /\ Change
  /\ value' = [value EXCEPT ![s] = v]
  /\ fresh' = [fresh EXCEPT ![s] = TRUE]
  /\ UNCHANGED <<last, run, lock, reachable, alarms, target, fired, outcome>>

\* sourceStaleSeconds pass without an observation
Expire(s) ==
  /\ Change
  /\ fresh[s]
  /\ fresh' = [fresh EXCEPT ![s] = FALSE]
  /\ UNCHANGED <<value, last, run, lock, reachable, alarms, target, fired, outcome>>

\* the device answers or pushes again, with no new value of the source
MarkDeviceSeen(s) ==
  /\ Change
  /\ ~fresh[s] /\ value[s] # Nothing
  /\ fresh' = [fresh EXCEPT ![s] = TRUE]
  /\ UNCHANGED <<value, last, run, lock, reachable, alarms, target, fired, outcome>>

Reach(c) ==
  /\ Change
  /\ reachable' = [reachable EXCEPT ![c] = ~@]
  /\ UNCHANGED <<value, fresh, last, run, lock, alarms, target, fired, outcome>>

RestartEngine ==
  /\ Change
  /\ value' = [s \in Sources |-> Nothing]
  /\ fresh' = [s \in Sources |-> FALSE]
  /\ last' = [r \in Rules |-> FALSE]
  /\ run' = Idle
  /\ lock' = [c \in Connections |-> "free"]
  /\ fired' = [r \in Rules |-> 0]
  /\ UNCHANGED <<reachable, alarms, target, outcome>>

RulesInit ==
  /\ value = [s \in Sources |-> Nothing]
  /\ fresh = [s \in Sources |-> FALSE]
  /\ last = [r \in Rules |-> FALSE]
  /\ run = Idle
  /\ lock = [c \in Connections |-> "free"]
  /\ reachable = [c \in Connections |-> TRUE]
  /\ Store!Init
  /\ target = [t \in Targets |-> Nothing]
  /\ changes = 0
  /\ fired = [r \in Rules |-> 0]
  /\ outcome = [r \in Rules |-> "none"]

RulesNext ==
  \/ \E r \in Rules : EvaluateDue(r)
  \/ Skip \/ Refuse \/ AcquireLock \/ Write
  \/ \E c \in Connections : TakeLock(c) \/ ReleaseLock(c) \/ Reach(c)
  \/ \E s \in Sources :
       \/ \E v \in Values : Update(s, v)
       \/ Expire(s) \/ MarkDeviceSeen(s)
  \/ RestartEngine

RulesSpec == RulesInit /\ [][RulesNext]_ruleVars

\* The loop reaches every rule in every round, so each is evaluated again and
\* again although the loop is busy with others in between.  SemaphoreSlim
\* serves its waiters, and the polling loops release what they took.
FairRulesSpec ==
  /\ RulesSpec
  /\ \A r \in Rules : SF_ruleVars(EvaluateDue(r))
  /\ WF_ruleVars(Skip) /\ WF_ruleVars(Refuse)
  /\ SF_ruleVars(AcquireLock) /\ WF_ruleVars(Write)
  /\ \A c \in Connections : WF_ruleVars(ReleaseLock(c))

-----------------------------------------------------------------------------
(* An edge-triggered rule is executed at most once from one evaluation     *)
(* that finds its condition false to the next, however long its writes     *)
(* wait and whatever they return.                                          *)
FiresOnce == \A r \in OnChangeOnly : fired[r] <= 1

(* A rule whose last write failed has an active alarm, also when it fails  *)
(* again and after a restart.                                              *)
FailureIsAlarmed == \A r \in Rules : outcome[r] = "failed" => Alarmed(r)

(* What the engine remembers of its rules, and what the alarm table says.  *)
RulesObserved == RulesTypeOK /\ FiresOnce /\ FailureIsAlarmed

(* "Periodic synchronization while the condition remains true": when a     *)
(* source settles on a fresh value for which a rule without onChangeOnly   *)
(* holds, and the connection of a target only this rule writes works       *)
(* again, the target ends up with the value.                               *)
Owned(r) ==
  {t \in Writable : \A o \in Rules :
     (\E i \in 1..Len(Actions[o]) : Actions[o][i] = t) <=> o = r}

Synchronised ==
  \A r \in Rules \ OnChangeOnly : \A t \in Owned(r), v \in Trigger[r] \cap Numeric :
    <>[](/\ value[Source[r]] = v /\ fresh[Source[r]]
         /\ reachable[Connection[t]])
      => <>[](target[t] = v)

-----------------------------------------------------------------------------
(* What the documentation says and the code does not keep.                 *)

\* README line 109: values are not written when an input is stale.
StaleIsNotWritten ==
  [][\A t \in Targets : target'[t] # target[t] => fresh[Source[run.rule]]]_ruleVars

\* AlarmStore line 185, on what ExecuteActionAsync calls after a write that
\* succeeded: "Clear the active alarm matching originator + type."
SuccessClearsAlarm ==
  \A r \in Rules : outcome[r] = "ok" => ~Alarmed(r)
=============================================================================
