----------------------------- MODULE AlarmStore -----------------------------
(***************************************************************************)
(* The alarm table: what AlarmStore promises to everyone who raises,       *)
(* acknowledges and clears alarms.                                         *)
(*                                                                         *)
(* Every operation holds the store's lock from its first statement to its  *)
(* last, so each is one step.  The table is in a database file: it outlives*)
(* the process.  A row keeps the fields the operations look at; message,   *)
(* details and the times other than "older than the retention period" are  *)
(* left out.                                                               *)
(***************************************************************************)
EXTENDS Integers

CONSTANTS
  Ids,          \* alarm ids; bound: how many rows the table holds
  Originators,
  OriginTypes,
  Types,
  Severities,
  NoRow         \* no row with this id

VARIABLE alarms \* id |-> row or NoRow

Active == {"ACTIVE_UNACK", "ACTIVE_ACK"}

Row == [originator : Originators, originType : OriginTypes, type : Types,
        severity : Severities, status : Active \cup {"CLEARED"}, old : BOOLEAN]

ASSUME NoRowAssumption == NoRow \notin Row

TypeOK == alarms \in [Ids -> Row \cup {NoRow}]

-----------------------------------------------------------------------------
IsActive(id) == alarms[id] # NoRow /\ alarms[id].status \in Active

\* Mutant: an acknowledged alarm is not found.
FoundUnacknowledged(o, t) ==
  {id \in Ids : /\ alarms[id] # NoRow /\ alarms[id].status = "ACTIVE_UNACK"
                /\ alarms[id].originator = o /\ alarms[id].type = t}

\* the rows CreateOrUpdate looks for
Found(o, t) ==
  {id \in Ids : IsActive(id) /\ alarms[id].originator = o /\ alarms[id].type = t}

\* Mutant: raising an alarm again reopens it.
UpdateReopens(id, sev) ==
  alarms' = [alarms EXCEPT ![id].severity = sev, ![id].status = "ACTIVE_UNACK"]

Update(id, sev) == alarms' = [alarms EXCEPT ![id].severity = sev]

\* a new id; which one it is does not matter
NewId == CHOOSE id \in Ids : alarms[id] = NoRow

Insert(o, ot, t, sev) ==
  \E id \in Ids :
    /\ alarms[id] = NoRow /\ id = NewId
    /\ alarms' = [alarms EXCEPT ![id] =
         [originator |-> o, originType |-> ot, type |-> t, severity |-> sev,
          status |-> "ACTIVE_UNACK", old |-> FALSE]]

CreateOrUpdate(o, ot, t, sev) ==
  \/ \E id \in Found(o, t) : Update(id, sev)
  \/ Found(o, t) = {} /\ Insert(o, ot, t, sev)

Acknowledge(id) ==
  /\ alarms[id] # NoRow
  /\ alarms[id].status = "ACTIVE_UNACK"
  /\ alarms' = [alarms EXCEPT ![id].status = "ACTIVE_ACK"]

\* the table without those of the given rows that are active
Cleared(ids) ==
  [id \in Ids |-> IF id \in ids /\ IsActive(id)
                    THEN [alarms[id] EXCEPT !.status = "CLEARED"]
                    ELSE alarms[id]]

Clear(id) == IsActive(id) /\ alarms' = Cleared({id})

ClearByOriginAndType(o, t, ot) ==
  alarms' = Cleared({id \in Found(o, t) : alarms[id].originType = ot})

\* a cleared alarm gets older than the retention period
Age(id) ==
  /\ alarms[id] # NoRow
  /\ alarms[id].status = "CLEARED"
  /\ alarms' = [alarms EXCEPT ![id].old = TRUE]

Purged ==
  [id \in Ids |-> IF /\ alarms[id] # NoRow
                     /\ alarms[id].status = "CLEARED"
                     /\ alarms[id].old
                    THEN NoRow ELSE alarms[id]]

PurgeCleared == alarms' = Purged

Init == alarms = [id \in Ids |-> NoRow]

Next ==
  \/ \E o \in Originators, t \in Types, ot \in OriginTypes :
       \/ \E sev \in Severities : CreateOrUpdate(o, ot, t, sev)
       \/ ClearByOriginAndType(o, t, ot)
  \/ \E id \in Ids : Acknowledge(id) \/ Clear(id) \/ Age(id)
  \/ PurgeCleared

Spec == Init /\ [][Next]_alarms

-----------------------------------------------------------------------------
(* There is never more than one active alarm of one type on one            *)
(* originator, in whatever order it is raised again, acknowledged and      *)
(* cleared: CreateOrUpdate finds the alarm it has to update.               *)
OneActive ==
  \A i, j \in Ids :
    /\ IsActive(i) /\ IsActive(j)
    /\ alarms[i].originator = alarms[j].originator
    /\ alarms[i].type = alarms[j].type
    => i = j

(* Raising an alarm again does not undo its acknowledgement, nor does      *)
(* anything reopen a cleared alarm; a row goes only when it is cleared and *)
(* older than the retention period, and never changes what it is about.    *)
Moves ==
  {<<"ACTIVE_UNACK", "ACTIVE_UNACK">>, <<"ACTIVE_UNACK", "ACTIVE_ACK">>,
   <<"ACTIVE_ACK", "ACTIVE_ACK">>, <<"CLEARED", "CLEARED">>} \cup
  (Active \X {"CLEARED"})

Forward(id) ==
  alarms[id] # NoRow =>
    \/ /\ alarms'[id] # NoRow
       /\ <<alarms[id].status, alarms'[id].status>> \in Moves
       /\ alarms'[id].originator = alarms[id].originator
       /\ alarms'[id].originType = alarms[id].originType
       /\ alarms'[id].type = alarms[id].type
    \/ alarms'[id] = NoRow /\ alarms[id].status = "CLEARED" /\ alarms[id].old

Lifecycle == [][\A id \in Ids : Forward(id)]_alarms
=============================================================================
