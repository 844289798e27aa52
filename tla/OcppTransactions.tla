-------------------------- MODULE OcppTransactions --------------------------
(***************************************************************************)
(* Charging transactions: who opens, recovers, closes and bills them.      *)
(*                                                                         *)
(* OcppManagerService keeps the open transactions of all charge points in  *)
(* memory, numbered by a counter that starts at 1000 in every process, and *)
(* writes one row per finished transaction to the billing database, which  *)
(* survives the process.  The charge points keep charging while the        *)
(* connection or the process is gone, and send a CALL again whose answer   *)
(* they have not seen.                                                     *)
(*                                                                         *)
(* A charge point that has a connection is linked.  From one cleanup to    *)
(* the next is an epoch, whose CALLs form one chain of handlers, which     *)
(* outlives it (OcppConnections); a connection replaced by a newer one     *)
(* without a cleanup changes nothing here.  A handler is one step: nothing *)
(* between its dictionary accesses waits, and its answer, which may get    *)
(* lost, is the last thing it does.  Ids count from 1 (1001 in the code),  *)
(* energy is in whole units, and only a transaction a charge point was     *)
(* told of is reported or stopped.                                         *)
(***************************************************************************)
EXTENDS Integers, Sequences, FiniteSets

CONSTANTS
  ChargePoints,
  MaxId,        \* bound: ids the counter reaches
  MaxMeter,     \* bound: energy register of a charge point
  MaxEpoch,     \* bound: epochs of all charge points together
  MaxQueue,     \* bound: pending CALLs of all charge points together
  MaxRestarts,  \* bound: restarts of the process
  None          \* no transaction, no row

VARIABLES
  \* in memory of the process
  link,         \* charge point |-> it has a registered connection
  epoch,        \* charge point |-> number of its epochs so far
  queue,        \* charge point |-> epoch |-> CALLs whose handlers are pending
  active,       \* _activeTransactions
  cpTx,         \* _chargePointTransactionIds (0: no entry)
  counter,      \* _transactionIdCounter
  \* in the database
  bills,        \* charging_transactions, by id
  \* in the charge points (not under src/)
  meter,        \* energy register
  session,      \* the charging session as the charge point knows it
  \* history
  restarts,     \* number of restarts of the process
  issued,       \* ids handed out by StartTransaction, in any process
  reissued,     \* ids handed out more than once
  late,         \* charge points without a connection for which a CALL was
                \* handled since the cleanup
  interrupted   \* charge points that lost a connection during this session

serverVars  == <<link, epoch, queue, active, cpTx, counter>>
chargerVars == <<meter, session>>
historyVars == <<restarts, issued, reissued, late, interrupted>>
vars == <<link, epoch, queue, active, cpTx, counter, bills, meter, session,
          restarts, issued, reissued, late, interrupted>>

-----------------------------------------------------------------------------
Ids    == 1..MaxId
Epochs == 1..MaxEpoch
Meters == 0..MaxMeter

Info == [cp : ChargePoints, start : Meters, tag : {"Card", "Recovered"}]
Bill == [cp : ChargePoints, kwh : Meters, tag : {"Card", "Recovered"}]
Call == [kind : {"Start", "Stop", "Meter"}, id : 0..MaxId, meter : Meters]

ASSUME ConstantsAssumption ==
  /\ {MaxId, MaxMeter, MaxEpoch, MaxQueue, MaxRestarts} \subseteq Nat
  /\ None \notin Info \cup Bill

Session == [phase : {"idle", "starting", "charging", "stopping"},
            id : 0..MaxId, start : Meters, stop : Meters]
NoSession == [phase |-> "idle", id |-> 0, start |-> 0, stop |-> 0]

TypeOK ==
  /\ link \in [ChargePoints -> BOOLEAN]
  /\ epoch \in [ChargePoints -> 0..MaxEpoch]
  /\ queue \in [ChargePoints -> [Epochs -> Seq(Call)]]
  /\ active \in [Ids -> Info \cup {None}]
  /\ cpTx \in [ChargePoints -> 0..MaxId]
  /\ counter \in 0..MaxId
  /\ bills \in [Ids -> Bill \cup {None}]
  /\ meter \in [ChargePoints -> Meters]
  /\ session \in [ChargePoints -> Session]
  /\ restarts \in 0..MaxRestarts
  /\ reissued \subseteq issued /\ issued \subseteq Ids
  /\ late \subseteq ChargePoints
  /\ interrupted \subseteq ChargePoints

EmptyQueues == [cp \in ChargePoints |-> [e \in Epochs |-> <<>>]]

Init ==
  /\ link = [cp \in ChargePoints |-> FALSE]
  /\ epoch = [cp \in ChargePoints |-> 0]
  /\ queue = EmptyQueues
  /\ active = [id \in Ids |-> None]
  /\ cpTx = [cp \in ChargePoints |-> 0]
  /\ counter = 0
  /\ bills = [id \in Ids |-> None]
  /\ meter = [cp \in ChargePoints |-> 0]   \* they are new
  /\ session = [cp \in ChargePoints |-> NoSession]
  /\ restarts = 0
  /\ issued = {} /\ reissued = {} /\ late = {} /\ interrupted = {}

-----------------------------------------------------------------------------
(* The charge point.                                                       *)

ChargerOnly == UNCHANGED <<serverVars, bills, restarts, issued, reissued, late>>

Plug(cp) ==
  /\ session[cp].phase = "idle"
  /\ session' = [session EXCEPT ![cp] =
       [phase |-> "starting", id |-> 0, start |-> meter[cp], stop |-> 0]]
  /\ UNCHANGED <<meter, interrupted>>
  /\ ChargerOnly

\* What the session used counts when it ends, as nobody reads the register
\* before.
Unplug(cp) ==
  /\ session[cp].phase = "charging"
  /\ \E m \in meter[cp]..MaxMeter :
       /\ meter' = [meter EXCEPT ![cp] = m]
       /\ session' = [session EXCEPT ![cp].phase = "stopping", ![cp].stop = m]
  /\ UNCHANGED interrupted
  /\ ChargerOnly

\* The CALL that fits the session.
Due(cp) ==
  LET s == session[cp] IN
  [kind  |-> CASE s.phase = "starting" -> "Start"
               [] s.phase = "charging" -> "Meter"
               [] OTHER -> "Stop",
   id    |-> s.id,
   meter |-> IF s.phase = "starting" THEN s.start ELSE s.stop]

\* The places of the CALLs whose handlers have not finished.
PendingCalls ==
  {p \in ChargePoints \X Epochs \X (1..MaxQueue) : p[3] <= Len(queue[p[1]][p[2]])}

\* It goes out on the current connection, and again while it stays due.
Send(cp) ==
  /\ link[cp]
  /\ session[cp].phase # "idle"
  /\ Cardinality(PendingCalls) < MaxQueue
  /\ queue' = [queue EXCEPT ![cp][epoch[cp]] = Append(@, Due(cp))]
  /\ UNCHANGED <<link, epoch, active, cpTx, counter, bills, chargerVars,
                 historyVars>>

-----------------------------------------------------------------------------
(* Handlers (HandleOcppCallAsync).                                         *)

\* The next CALL of connection e is of this kind; its handler finishes.
Handle(cp, e, kind) ==
  /\ queue[cp][e] # <<>>
  /\ Head(queue[cp][e]).kind = kind
  /\ queue' = [queue EXCEPT ![cp][e] = Tail(@)]

Current(cp, e) == link[cp] /\ epoch[cp] = e

\* What the charge point makes of the answer, if it reaches it.
Answer(cp, e, s) ==
  session' \in IF Current(cp, e)
              THEN {session, [session EXCEPT ![cp] = s]} ELSE {session}

\* History: a CALL handled while there is no connection is late.
NoteLate(cp) == late' = IF link[cp] THEN late ELSE late \cup {cp}

\* Mutant: the answer carries the counter's value before the increment, but
\* for the first transaction.
StartAnswersOld(cp, e) ==
  LET c == Head(queue[cp][e])
      id == counter + 1 IN
  /\ Handle(cp, e, "Start")
  /\ counter < MaxId
  /\ counter' = id
  /\ active' = [active EXCEPT ![id] = [cp |-> cp, start |-> c.meter, tag |-> "Card"]]
  /\ cpTx' = [cpTx EXCEPT ![cp] = id]
  /\ Answer(cp, e, IF session[cp].phase # "starting" THEN session[cp]
                   ELSE [session[cp] EXCEPT !.phase = "charging",
                                                !.id = IF counter = 0 THEN id ELSE counter])
  /\ issued' = issued \cup {id}
  /\ reissued' = reissued \cup ({id} \cap issued)
  /\ NoteLate(cp)
  /\ UNCHANGED <<link, epoch, bills, meter, restarts, interrupted>>

\* Mutant: a new transaction replaces the charge point's open ones.
StartReplaces(cp, e) ==
  LET c == Head(queue[cp][e])
      id == counter + 1 IN
  /\ Handle(cp, e, "Start")
  /\ counter < MaxId
  /\ counter' = id
  /\ active' = [i \in Ids |->
       IF i = id THEN [cp |-> cp, start |-> c.meter, tag |-> "Card"]
       ELSE IF active[i] # None /\ active[i].cp = cp THEN None ELSE active[i]]
  /\ cpTx' = [cpTx EXCEPT ![cp] = id]
  /\ Answer(cp, e, IF session[cp].phase # "starting" THEN session[cp]
                   ELSE [session[cp] EXCEPT !.phase = "charging", !.id = id])
  /\ issued' = issued \cup {id}
  /\ reissued' = reissued \cup ({id} \cap issued)
  /\ NoteLate(cp)
  /\ UNCHANGED <<link, epoch, bills, meter, restarts, interrupted>>

StartTransaction(cp, e) ==
  LET c == Head(queue[cp][e])
      id == counter + 1 IN
  /\ Handle(cp, e, "Start")
  /\ counter < MaxId
  /\ counter' = id
  /\ active' = [active EXCEPT ![id] = [cp |-> cp, start |-> c.meter, tag |-> "Card"]]
  /\ cpTx' = [cpTx EXCEPT ![cp] = id]
  /\ Answer(cp, e, IF session[cp].phase # "starting" THEN session[cp]
                   ELSE [session[cp] EXCEPT !.phase = "charging", !.id = id])
  /\ issued' = issued \cup {id}
  /\ reissued' = reissued \cup ({id} \cap issued)
  /\ NoteLate(cp)
  /\ UNCHANGED <<link, epoch, bills, meter, restarts, interrupted>>

\* Mutant: a negative consumption is not cut off.
CloseUnclamped(cp, id, stop) ==
  LET info == active[id] IN
  /\ active' = [active EXCEPT ![id] = None]
  /\ bills' = IF info = None THEN bills
              ELSE [bills EXCEPT ![id] =
                     [cp |-> info.cp, tag |-> info.tag, kwh |-> stop - info.start]]

\* Mutant: what is closed is the transaction the charge point is mapped to.
CloseMapped(cp, id, stop) ==
  LET tx == IF cpTx[cp] = 0 THEN id ELSE cpTx[cp]
      info == active[tx] IN
  /\ active' = [active EXCEPT ![tx] = None]
  /\ bills' = IF info = None THEN bills
              ELSE [bills EXCEPT ![tx] =
                     [cp |-> info.cp, tag |-> info.tag,
                      kwh |-> IF stop < info.start THEN 0 ELSE stop - info.start]]

\* The transaction with this id is closed, whoever opened it, and its row is
\* written over the row of the same id.
Close(cp, id, stop) ==
  LET info == active[id] IN
  /\ active' = [active EXCEPT ![id] = None]
  /\ bills' = IF info = None THEN bills
              ELSE [bills EXCEPT ![id] =
                     [cp |-> info.cp, tag |-> info.tag,
                      kwh |-> IF stop < info.start THEN 0 ELSE stop - info.start]]

\* Mutant: the mapping stays.
UnmapNot(cp) == UNCHANGED cpTx

\* The charge point's mapping goes, whichever transaction it names.
Unmap(cp) == cpTx' = [cpTx EXCEPT ![cp] = 0]

StopTransaction(cp, e) ==
  LET c == Head(queue[cp][e]) IN
  /\ Handle(cp, e, "Stop")
  /\ Close(cp, c.id, c.meter)
  /\ Unmap(cp)
  /\ Answer(cp, e, IF session[cp].phase = "stopping" /\ session[cp].id = c.id
                   THEN NoSession ELSE session[cp])
  /\ NoteLate(cp)
  /\ interrupted' = {o \in interrupted : session'[o].phase # "idle"}
  /\ UNCHANGED <<link, epoch, counter, meter, restarts, issued, reissued>>

\* An id the charge point is not known by is adopted: with no entry under it,
\* as a transaction that started at 0.
MeterValues(cp, e) ==
  LET id == Head(queue[cp][e]).id IN
  /\ Handle(cp, e, "Meter")
  /\ active' = IF cpTx[cp] # id /\ active[id] = None
               THEN [active EXCEPT ![id] =
                      [cp |-> cp, start |-> 0, tag |-> "Recovered"]]
               ELSE active
  /\ cpTx' = [cpTx EXCEPT ![cp] = id]
  /\ NoteLate(cp)
  /\ UNCHANGED <<link, epoch, counter, bills, chargerVars, restarts, issued,
                 reissued, interrupted>>

-----------------------------------------------------------------------------
(* Connections and the process.                                            *)

Connect(cp) ==
  /\ ~link[cp]
  /\ epoch[cp] < MaxEpoch
  /\ Cardinality({p \in ChargePoints \X Epochs : p[2] <= epoch[p[1]]}) < MaxEpoch
  /\ link' = [link EXCEPT ![cp] = TRUE]
  /\ epoch' = [epoch EXCEPT ![cp] = @ + 1]
  /\ late' = late \ {cp}
  /\ UNCHANGED <<queue, active, cpTx, counter, bills, chargerVars, restarts, issued,
                 reissued, interrupted>>

\* Mutant: no entry is purged.
PurgedNot(cp) == active

\* The entries of cp are gone.
Purged(cp) ==
  [id \in Ids |-> IF active[id] # None /\ active[id].cp = cp THEN None ELSE active[id]]

\* A session that loses its connection is interrupted.
InSession == {cp \in ChargePoints : session[cp].phase # "idle"}

\* The connection ends and its handler cleans up; pending handlers stay.
Disconnect(cp) ==
  /\ link[cp]
  /\ link' = [link EXCEPT ![cp] = FALSE]
  /\ active' = Purged(cp)
  /\ cpTx' = [cpTx EXCEPT ![cp] = 0]
  /\ interrupted' = interrupted \cup (InSession \cap {cp})
  /\ UNCHANGED <<epoch, queue, counter, bills, chargerVars, restarts, issued,
                 reissued, late>>

\* The process ends, in whatever state, and starts again with its fields' 
\* initial values; the database and the charge points keep theirs.
Restart ==
  /\ restarts < MaxRestarts
  /\ restarts' = restarts + 1
  /\ link' = [cp \in ChargePoints |-> FALSE]
  /\ queue' = EmptyQueues
  /\ active' = [id \in Ids |-> None]
  /\ cpTx' = [cp \in ChargePoints |-> 0]
  /\ counter' = 0
  /\ late' = {}
  /\ interrupted' = interrupted \cup InSession
  /\ UNCHANGED <<epoch, bills, chargerVars, issued, reissued>>

ChargerStep(cp) == Plug(cp) \/ Unplug(cp) \/ Send(cp)

HandlerStep(cp) ==
  \E e \in Epochs :
    StartTransaction(cp, e) \/ StopTransaction(cp, e) \/ MeterValues(cp, e)

Next ==
  \/ \E cp \in ChargePoints :
       ChargerStep(cp) \/ HandlerStep(cp) \/ Connect(cp) \/ Disconnect(cp)
  \/ Restart

Spec == Init /\ [][Next]_vars

-----------------------------------------------------------------------------
(* Safety.                                                                 *)

\* The ids of the pending CALLs of cp.
Pending(cp, id) ==
  \E e \in Epochs : \E i \in 1..Len(queue[cp][e]) : queue[cp][e][i].id = id

\* The ids some part of the state relates to cp.
Knows(cp, id) ==
  \/ session[cp].id = id
  \/ cpTx[cp] = id
  \/ active[id] # None /\ active[id].cp = cp
  \/ Pending(cp, id)

\* An id handed out once belongs to one charge point: no entry, mapping,
\* session or pending CALL of another one has it (lines 415-418, 575-583).
OneOwner ==
  \A id \in Ids :
    /\ id \notin issued => \A cp \in ChargePoints : ~Knows(cp, id)
    /\ id \notin reissued =>
         \A cp, other \in ChargePoints :
           Knows(cp, id) /\ Knows(other, id) => cp = other

\* The transaction a charge point is mapped to is open and its own, unless its
\* id was handed out twice: smart charging addresses the TxProfile to it.
MappedIsActive ==
  \A cp \in ChargePoints :
    cpTx[cp] # 0 /\ cpTx[cp] \notin reissued =>
      active[cpTx[cp]] # None /\ active[cpTx[cp]].cp = cp

\* A transaction of a charge point without a connection was opened, or
\* recovered, by a CALL that outlived its connection: the purge of lines
\* 186-194 misses nothing else.
OrphansAreLate ==
  \A id \in Ids :
    active[id] # None /\ ~link[active[id].cp] => active[id].cp \in late

\* Entries, mappings and ids of transactions belong to the charge points that
\* have them, across lost connections, late CALLs and restarts.
TransactionsOwned == OneOwner /\ MappedIsActive /\ OrphansAreLate

\* A row names the charge point and the energy of the session that ended with
\* this id, whatever was lost, repeated or handled out of order, unless the
\* transaction was recovered or its id handed out twice.
BillIsSession ==
  [][\A id \in Ids \ reissued :
       bills'[id] # bills[id] /\ bills'[id].tag = "Card" =>
         LET cp == bills'[id].cp IN
         /\ session[cp].phase = "stopping" /\ session[cp].id = id
         /\ bills'[id].kwh = session[cp].stop - session[cp].start]_vars

\* A session that kept its connection and whose StopTransaction is confirmed
\* is in the database under its id.
ConfirmedIsBilled ==
  [][\A cp \in ChargePoints \ interrupted :
       LET id == session[cp].id IN
       session[cp].phase = "stopping" /\ session'[cp].phase = "idle"
         /\ id \notin reissued
       => bills'[id] # None /\ bills'[id].cp = cp]_vars

-----------------------------------------------------------------------------
(* What the source says, and the code does not keep.                       *)

\* Line 188: "transaction ids are monotonically increasing".
IdsIncrease ==
  [][\A id \in Ids : counter' = id /\ id = counter + 1 =>
       \A old \in issued : old < id]_vars

\* Lines 186-189: with no connection and no CALL left to handle, a charge
\* point has no entry that would stay forever.
NoOrphans ==
  \A cp \in ChargePoints :
    ~link[cp] /\ (\A e \in Epochs : queue[cp][e] = <<>>) =>
      \A id \in Ids : active[id] # None => active[id].cp # cp

\* Lines 475 and 483: a row holds what the session consumed.
BilledIsConsumed ==
  [][\A id \in Ids \ reissued, cp \in ChargePoints :
       bills'[id] # bills[id] /\ session[cp].id = id =>
         bills'[id].kwh <= session[cp].stop - session[cp].start]_vars
=============================================================================
