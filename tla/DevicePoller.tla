---------------------------- MODULE DevicePoller ----------------------------
(***************************************************************************)
(* Device polling: when a device counts as offline, and the Communication  *)
(* Loss alarm that goes with it.                                           *)
(*                                                                         *)
(* ConnectorHost runs one loop per device, which calls PollAndPublish      *)
(* every second under the lock of the device's connection; a call that is  *)
(* not due does nothing and is left out.  The counts and the set of        *)
(* offline devices are memory of the process; the alarms are rows of       *)
(* AlarmStore and survive it.  Operators acknowledge and clear alarms from *)
(* the dashboard at any time.                                              *)
(*                                                                         *)
(* Loops of different connections run in parallel and share one plain      *)
(* Dictionary of counts.  While another loop inserts its first entry, the  *)
(* dictionary may be replacing its buckets, and a write of this loop may   *)
(* go to the old ones and be lost.                                         *)
(***************************************************************************)
EXTENDS Integers

CONSTANTS
  Polled,       \* devices read at their poll interval
  Cov,          \* BACnet devices in change-of-value mode
  Connection,   \* device |-> its connection
  Threshold,    \* FailThreshold
  Ids,          \* alarm ids
  Budget,       \* bound: how often each thing of the environment happens
  None

Devices == Polled \cup Cov
Kinds   == {"flap", "fault", "clear", "restart"}

VARIABLES
  failCounts,   \* _failCounts (None: no entry), counted to Threshold + 1
  offline,      \* _offlineDevices
  alarms,       \* the alarm table
  answers,      \* device |-> its polls succeed: it answers, and what it
                \* answers can be stored (not under src/)
  spent,        \* how often the environment did each thing
  \* history
  streak,       \* device |-> polls failed in a row, counted to Threshold
  lost,         \* devices of which a write of the count was lost
  unsettled     \* devices whose alarm an operator, a failing database or a
                \* restart took out of step with offline

vars == <<failCounts, offline, alarms, answers, spent, streak, lost, unsettled>>

Store == INSTANCE AlarmStore
           WITH NoRow <- None, Originators <- Devices, OriginTypes <- {"DEVICE"},
                Types <- {"Communication Loss"}, Severities <- {"CRITICAL"}

ASSUME ConstantsAssumption ==
  /\ Threshold \in Nat \ {0, 1}
  /\ Budget \in [Kinds -> Nat]
  /\ Polled \cap Cov = {}
  /\ None \notin Nat \cup Store!Row

TypeOK ==
  /\ failCounts \in [Devices -> 0..(Threshold + 1) \cup {None}]
  /\ offline \subseteq Devices
  /\ Store!TypeOK
  /\ answers \in [Devices -> BOOLEAN]
  /\ spent \in [Kinds -> Nat] /\ \A k \in Kinds : spent[k] <= Budget[k]
  /\ streak \in [Devices -> 0..Threshold]
  /\ lost \subseteq Devices /\ unsettled \subseteq Devices

\* the device has an active Communication Loss alarm
Alarmed(d) == Store!Found(d, "Communication Loss") # {}

Spend(kind) ==
  /\ spent[kind] < Budget[kind]
  /\ spent' = [spent EXCEPT ![kind] = @ + 1]

-----------------------------------------------------------------------------
Count(d) == IF failCounts[d] = None THEN 0 ELSE failCounts[d]

\* another connection's loop may be inserting its first entry
Racing(d) ==
  \E e \in Devices : Connection[e] # Connection[d] /\ failCounts[e] = None

\* _failCounts[d] = n; a device's write is lost at most once per process.
SetCount(d, n) ==
  \/ failCounts' = [failCounts EXCEPT ![d] = n] /\ UNCHANGED lost
  \/ /\ Racing(d) /\ d \notin lost
     /\ lost' = lost \cup {d}
     /\ UNCHANGED failCounts

\* The device went offline: its alarm is raised, unless the database refuses.
Raise(d) ==
  \/ /\ Store!CreateOrUpdate(d, "DEVICE", "Communication Loss", "CRITICAL")
     /\ unsettled' = unsettled \ {d}
     /\ UNCHANGED spent
  \/ /\ Spend("fault")
     /\ unsettled' = unsettled \cup {d}
     /\ UNCHANGED alarms

\* Mutant: one failure too early.
TrackFailureEarly(d) ==
  LET count == IF Count(d) > Threshold THEN Count(d) ELSE Count(d) + 1 IN
  /\ SetCount(d, count)
  /\ streak' = [streak EXCEPT ![d] = IF @ < Threshold THEN @ + 1 ELSE @]
  /\ IF count = Threshold - 1 /\ d \notin offline
       THEN offline' = offline \cup {d} /\ Raise(d)
       ELSE UNCHANGED <<offline, alarms, unsettled, spent>>

TrackFailure(d) ==
  LET count == IF Count(d) > Threshold THEN Count(d) ELSE Count(d) + 1 IN
  /\ SetCount(d, count)
  /\ streak' = [streak EXCEPT ![d] = IF @ < Threshold THEN @ + 1 ELSE @]
  /\ IF count = Threshold /\ d \notin offline
       THEN offline' = offline \cup {d} /\ Raise(d)
       ELSE UNCHANGED <<offline, alarms, unsettled, spent>>

\* Mutant: the device stays in the set of offline devices.
BackOnlineStays(d) ==
  /\ IF d \in offline
       THEN /\ Store!ClearByOriginAndType(d, "Communication Loss", "DEVICE")
            /\ unsettled' = unsettled \ {d}
       ELSE UNCHANGED <<alarms, unsettled>>
  /\ UNCHANGED offline

\* Mutant: only an acknowledged alarm is cleared.
BackOnlineClearsAcknowledged(d) ==
  /\ offline' = offline \ {d}
  /\ IF d \in offline
       THEN /\ alarms' = Store!Cleared({id \in Store!Found(d, "Communication Loss") :
                                        alarms[id].status = "ACTIVE_ACK"})
            /\ unsettled' = unsettled \ {d}
       ELSE UNCHANGED <<alarms, unsettled>>

\* Mutant: the alarm is deleted, not cleared.
BackOnlineDeletes(d) ==
  /\ offline' = offline \ {d}
  /\ IF d \in offline
       THEN /\ alarms' = [id \in Ids |->
                            IF id \in Store!Found(d, "Communication Loss")
                              THEN None ELSE alarms[id]]
            /\ unsettled' = unsettled \ {d}
       ELSE UNCHANGED <<alarms, unsettled>>

BackOnline(d) ==
  /\ offline' = offline \ {d}
  /\ IF d \in offline
       THEN /\ Store!ClearByOriginAndType(d, "Communication Loss", "DEVICE")
            /\ unsettled' = unsettled \ {d}
       ELSE UNCHANGED <<alarms, unsettled>>

\* Mutant: the count goes on from where it was.
SeenKeepsCount(d) ==
  /\ streak' = [streak EXCEPT ![d] = 0]
  /\ BackOnline(d)
  /\ UNCHANGED <<failCounts, lost, spent>>

\* A device in polling mode was read and its values published.
Seen(d) ==
  /\ SetCount(d, 0)
  /\ streak' = [streak EXCEPT ![d] = 0]
  /\ BackOnline(d)
  /\ UNCHANGED spent

\* As Seen, but the database refuses to clear the alarm, and the exception
\* counts as the first failure of the device.  Bound: no write of the count
\* is lost in this poll.
SeenNotCleared(d) ==
  /\ d \in offline
  /\ Spend("fault")
  /\ failCounts' = [failCounts EXCEPT ![d] = 1]
  /\ streak' = [streak EXCEPT ![d] = 1]
  /\ offline' = offline \ {d}
  /\ unsettled' = unsettled \cup {d}
  /\ UNCHANGED <<alarms, lost>>

Poll(d) ==
  /\ \/ answers[d] /\ (Seen(d) \/ SeenNotCleared(d))
     \/ ~answers[d] /\ TrackFailure(d)
  /\ UNCHANGED answers

\* One service tick of a COV device, which returns before the count and the
\* offline set are looked at.  A tick in which nothing is due sends nothing,
\* and succeeds whether or not the device is there.
Serve(d) ==
  \/ /\ streak' = [streak EXCEPT ![d] = 0]
     /\ UNCHANGED <<failCounts, offline, alarms, answers, spent, lost, unsettled>>
  \/ /\ ~answers[d]
     /\ TrackFailure(d)
     /\ UNCHANGED answers

-----------------------------------------------------------------------------
(* Devices and the database fail and come back, operators use the          *)
(* dashboard, the process ends and starts again.                           *)
Flap(d) ==
  /\ Spend("flap")
  /\ answers' = [answers EXCEPT ![d] = ~@]
  /\ UNCHANGED <<failCounts, offline, alarms, streak, lost, unsettled>>

AcknowledgeAlarm(id) ==
  /\ Store!Acknowledge(id)
  /\ UNCHANGED <<failCounts, offline, answers, spent, streak, lost, unsettled>>

ResetAlarm(id) ==
  /\ Spend("clear")
  /\ Store!Clear(id)
  /\ unsettled' = unsettled \cup {alarms[id].originator}
  /\ UNCHANGED <<failCounts, offline, answers, streak, lost>>

\* Bound: only while a restart, and with it a purge, may follow.
Age(id) ==
  /\ spent["restart"] < Budget["restart"]
  /\ Store!Age(id)
  /\ UNCHANGED <<failCounts, offline, answers, spent, streak, lost, unsettled>>

\* The process stops, with a Shutdown that purges the alarms or without.
Restart ==
  /\ Spend("restart")
  /\ Store!PurgeCleared \/ UNCHANGED alarms
  /\ failCounts' = [d \in Devices |-> None]
  /\ offline' = {}
  /\ streak' = [d \in Devices |-> 0]
  /\ lost' = {}
  /\ unsettled' = {d \in Devices : Alarmed(d)}
  /\ UNCHANGED answers

Init ==
  /\ failCounts = [d \in Devices |-> None]
  /\ offline = {}
  /\ Store!Init
  /\ answers \in [Devices -> BOOLEAN]
  /\ spent = [k \in Kinds |-> 0]
  /\ streak = [d \in Devices |-> 0]
  /\ lost = {} /\ unsettled = {}

Next ==
  \/ \E d \in Polled : Poll(d)
  \/ \E d \in Cov : Serve(d)
  \/ \E d \in Devices : Flap(d)
  \/ \E id \in Ids : AcknowledgeAlarm(id) \/ ResetAlarm(id) \/ Age(id)
  \/ Restart

Spec == Init /\ [][Next]_vars

\* Each device has its own loop, and the lock of its connection is handed to
\* the loops that wait for it in turn.
FairSpec ==
  /\ Spec
  /\ \A d \in Polled : WF_vars(Poll(d))
  /\ \A d \in Cov : WF_vars(Serve(d))

-----------------------------------------------------------------------------
(* The set in memory and the table agree: a device has an active           *)
(* Communication Loss alarm exactly while it counts as offline, across     *)
(* acknowledgements, repeated outages and parallel loops.  The exceptions  *)
(* are an alarm an operator cleared, one the database refused to raise or  *)
(* clear, and one left by an earlier process.                              *)
InStep ==
  \A d \in Devices \ unsettled : d \in offline <=> Alarmed(d)

(* A polled device goes offline only after Threshold failed polls in a     *)
(* row, unless a racing write lost a reset of its count.                   *)
OfflineIsEarned ==
  [][\A d \in (offline' \ offline) \cap Polled :
       streak'[d] = Threshold \/ d \in lost']_vars

(* What the poller and the operators do to the table are operations of the *)
(* alarm store.                                                            *)
UsesStore == Store!Spec

(* A polled device that stays away ends up offline, and with an alarm, also  *)
(* after restarts, unless the database or an operator had a part in it, or a *)
(* racing write lost the reset of its count: the count may then pass         *)
(* Threshold without ever being equal to it.                                 *)
DeadIsAlarmed ==
  \A d \in Polled :
    <>[](~answers[d] /\ d \notin lost /\ spent["fault"] = 0 /\ spent["clear"] = 0)
      => <>[](d \in offline /\ Alarmed(d))

(* A polled device that is back for good ends up online, and without an      *)
(* alarm unless the database refused something or the process was restarted. *)
BackIsOnline ==
  \A d \in Polled :
    /\ <>[]answers[d] => <>[](d \notin offline)
    /\ <>[](answers[d] /\ spent["fault"] = 0 /\ spent["restart"] = 0)
         => <>[]~Alarmed(d)

(* However long a device stays away or is back, what is shown of it gets     *)
(* there: offline with an alarm, or online without one.                      *)
OfflineSettles == DeadIsAlarmed /\ BackIsOnline

-----------------------------------------------------------------------------
(* What messages of the code say and the code does not keep.               *)

(* An alarm that says "Device is not responding" (line 264) goes away when   *)
(* the device is back for good.                                              *)
AlarmIsTrue ==
  \A d \in Devices : <>[]answers[d] => <>[]~Alarmed(d)

\* Line 257: a device is offline after {count} consecutive failures.
FailuresAreConsecutive ==
  [][\A d \in offline' \ offline : streak'[d] = Threshold \/ d \in lost']_vars
=============================================================================
