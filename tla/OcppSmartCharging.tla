------------------------- MODULE OcppSmartCharging -------------------------
(***************************************************************************)
(* Limiting one charge point: SetChargingLimitAsync and its callers.       *)
(*                                                                         *)
(* A write publishes its limit as the setpoint and then sends a series of  *)
(* Smart Charging CALLs, each of which waits for the charge point's answer *)
(* or a timeout.  The receive loop completes the waits by message id, and  *)
(* hands the charge point's own CALLs to a chain of handlers.  Writers     *)
(* (the EMS loop, the dashboard, the control engine) are not serialised,   *)
(* and the handler of MeterValues writes too when it recovers a            *)
(* transaction.                                                            *)
(*                                                                         *)
(* A limit is a number up to MaxLimit (16 A); phases are left out.  A      *)
(* write of charging_phases is a write of the setpoint as it was read, so  *)
(* of some limit.  Frames of one connection arrive in order or, when it    *)
(* drops, not at all; the handlers of a connection are one chain, which    *)
(* goes on when it drops (OcppConnections).                                *)
(***************************************************************************)
EXTENDS Integers, Sequences

CONSTANTS
  Writers,      \* threads that write limits
  MaxLimit,     \* DefaultMaxCurrentAmps
  Verdicts,     \* how the charge point answers a request it understands
  MaxWrites,    \* bound: writes begun
  MaxTx,        \* bound: transactions started
  MaxDrops,     \* bound: connections lost
  MaxTimeouts,  \* bound: waits that time out
  None

Limits   == 1..MaxLimit
Purposes == {"Max", "Default", "Tx"}
Handlers == 0..MaxDrops       \* the chain of each connection, as a thread
Threads  == Writers \cup Handlers

ASSUME ConstantsAssumption ==
  /\ MaxLimit \in Nat \ {0}
  /\ {MaxWrites, MaxTx, MaxDrops, MaxTimeouts} \subseteq Nat
  /\ Verdicts \subseteq BOOLEAN
  /\ Writers \cap Handlers = {}
  /\ None \notin Limits

VARIABLES
  \* the service
  link,       \* the charge point is connected
  mapped,     \* its entry in _chargePointTransactionIds (0: none)
  setpoint,   \* telemetry force_power
  pending,    \* keys of _pendingCallResults
  chain,      \* connection |-> its CALLs whose handlers have not finished
  thread,     \* state of each thread
  \* the connection
  toCp, toServer,
  \* the charge point (not under src/)
  tx,         \* its transaction (0: none)
  asked,      \* it waits for the answer of a CALL
  profile,    \* purpose |-> limit of the installed profile
  \* history
  drops, timeouts, txs, writes,
  alone,      \* threads that ran with no other one since they began
  sure,       \* the last write, if it was alone and reported as applied
  failed      \* some write was not reported as applied

chargerVars == <<tx, asked, profile>>
historyVars == <<drops, timeouts, txs, writes, alone, sure, failed>>
vars == <<link, mapped, setpoint, pending, chain, thread, toCp, toServer,
          tx, asked, profile, drops, timeouts, txs, writes, alone, sure, failed>>

-----------------------------------------------------------------------------
(* What a write does, in order.                                            *)

ClearOp(p) == [op |-> "clear", purpose |-> p]
SetOp(p)   == [op |-> "set", purpose |-> p]
PublishOp  == [op |-> "publish", purpose |-> "All"]
ReadTxOp   == [op |-> "readTx", purpose |-> "All"]

\* Mutant: the maximum is set before the profiles are cleared.
SetLimitThenClear(limit) ==
  <<PublishOp>>
  \o (IF limit < MaxLimit THEN <<ClearOp("Tx"), ReadTxOp>> ELSE <<ReadTxOp>>)
  \o <<SetOp("Max"), SetOp("Default")>>
  \o (IF limit < MaxLimit THEN <<>> ELSE <<ClearOp("Max"), ClearOp("Default")>>)
  \o <<SetOp("Tx")>>

\* A limit below the maximum drops the transaction's profile before it looks
\* up the transaction; the maximum drops every profile afterwards.
SetLimit(limit) ==
  <<PublishOp>>
  \o (IF limit < MaxLimit THEN <<ClearOp("Tx"), ReadTxOp>>
      ELSE <<ReadTxOp, ClearOp("Max"), ClearOp("Default"), ClearOp("Tx")>>)
  \o <<SetOp("Max"), SetOp("Default"), SetOp("Tx")>>

\* A negative setpoint clears everything and then sets the maximum.
Program(limit, release) ==
  (IF release THEN <<ClearOp("All")>> ELSE <<>>) \o SetLimit(limit)

\* n: number of its write (0: idle), pc: its next operation, tx: the
\* transaction it looked up, ok: no profile was refused, wait: it has sent the
\* message of its operation and waits for the answer.
Idle == [n |-> 0, pc |-> 1, limit |-> MaxLimit, release |-> FALSE, tx |-> 0,
         ok |-> TRUE, wait |-> FALSE]

Busy(w) == thread[w].n # 0
Ops(w)  == Program(thread[w].limit, thread[w].release)
Op(w)   == Ops(w)[thread[w].pc]

\* The thread is about to do an operation of one of these kinds.
At(w, ops) ==
  /\ Busy(w) /\ ~thread[w].wait
  /\ thread[w].pc <= Len(Ops(w))
  /\ Op(w).op \in ops

\* The unique id of the message the thread sends for its operation.
Id(w) == <<thread[w].n, thread[w].pc>>

-----------------------------------------------------------------------------
ThreadState ==
  [n : 0..MaxWrites, pc : 1..10, limit : Limits, release : BOOLEAN,
   tx : 0..MaxTx, ok : BOOLEAN, wait : BOOLEAN]
MessageId == (1..MaxWrites) \X (1..10)
Request == [id : MessageId, op : {"set", "clear"}, purpose : Purposes \cup {"All"},
            limit : Limits, tx : 0..MaxTx]
Call    == [kind : {"Start", "Stop", "Meter"}, tx : 0..MaxTx]
Result  == [kind : {"Result"}, id : MessageId, ok : BOOLEAN]

TypeOK ==
  /\ link \in BOOLEAN /\ asked \in BOOLEAN /\ failed \in BOOLEAN
  /\ {mapped, tx, txs} \subseteq 0..MaxTx
  /\ setpoint \in Limits \cup {None}
  /\ pending \subseteq MessageId
  /\ chain \in [Handlers -> Seq(Call)]
  /\ thread \in [Threads -> ThreadState]
  /\ toCp \in Seq(Request)
  /\ toServer \in Seq(Call \cup Result)
  /\ profile \in [Purposes -> Limits \cup {None}]
  /\ drops \in 0..MaxDrops /\ timeouts \in 0..MaxTimeouts
  /\ writes \in 0..MaxWrites
  /\ alone \subseteq Threads
  /\ sure \in [limit : Limits, tx : 0..MaxTx] \cup {None}

\* The process may start while the charge point is in a transaction.
Init ==
  /\ link = FALSE /\ mapped = 0 /\ setpoint = None
  /\ pending = {} /\ chain = [d \in Handlers |-> <<>>]
  /\ thread = [w \in Threads |-> Idle]
  /\ toCp = <<>> /\ toServer = <<>>
  /\ tx \in {0, 1} \cap 0..MaxTx /\ asked = FALSE
  /\ profile = [p \in Purposes |-> None]
  /\ drops = 0 /\ timeouts = 0 /\ txs = tx /\ writes = 0
  /\ alone = {} /\ sure = None /\ failed = FALSE

-----------------------------------------------------------------------------
(* Writes.                                                                 *)

Begin(w, limit, release) ==
  /\ ~Busy(w)
  /\ writes < MaxWrites
  /\ writes' = writes + 1
  /\ thread' = [thread EXCEPT ![w] =
       [Idle EXCEPT !.n = writes + 1, !.limit = limit, !.release = release]]
  /\ alone' = IF \E v \in Threads : Busy(v) THEN {} ELSE {w}
  /\ sure' = None

\* OcppDriver.WriteAsync: a setpoint, or the release of the charge point.
Write(w) ==
  /\ \/ \E limit \in Limits : Begin(w, limit, FALSE)
     \/ Begin(w, MaxLimit, TRUE)
  /\ UNCHANGED <<link, mapped, setpoint, pending, chain, toCp, toServer,
                 chargerVars, drops, timeouts, txs, failed>>

Publish(w) ==
  /\ At(w, {"publish"})
  /\ setpoint' = thread[w].limit
  /\ thread' = [thread EXCEPT ![w].pc = @ + 1]
  /\ UNCHANGED <<link, mapped, pending, chain, toCp, toServer, chargerVars,
                 historyVars>>

ReadTx(w) ==
  /\ At(w, {"readTx"})
  /\ thread' = [thread EXCEPT ![w].tx = mapped, ![w].pc = @ + 1]
  /\ UNCHANGED <<link, mapped, setpoint, pending, chain, toCp, toServer,
                 chargerVars, historyVars>>

\* The thread past its operation, with this result; what a
\* ClearChargingProfile returns is not looked at.
Past(w, ok) ==
  [thread[w] EXCEPT !.pc = @ + 1, !.wait = FALSE,
                    !.ok = @ /\ (ok \/ Op(w).op = "clear")]

\* There is nothing left to do; a TxProfile is only for a transaction.
Finished(w) ==
  thread[w].pc \in 1..Len(Ops(w)) => Op(w) = SetOp("Tx") /\ thread[w].tx = 0

\* Mutant: a message that could not be sent stays pending.
SendCallLeaks(w) ==
  /\ At(w, {"clear", "set"}) /\ ~Finished(w)
  /\ pending' = pending \cup {Id(w)}
  /\ IF link
     THEN /\ toCp' = Append(toCp,
               [id |-> Id(w), op |-> Op(w).op, purpose |-> Op(w).purpose,
                limit |-> thread[w].limit, tx |-> thread[w].tx])
          /\ thread' = [thread EXCEPT ![w].wait = TRUE]
     ELSE /\ thread' = [thread EXCEPT ![w] = Past(w, FALSE)]
          /\ UNCHANGED toCp
  /\ UNCHANGED <<link, mapped, setpoint, chain, toServer, chargerVars, historyVars>>

SendCall(w) ==
  /\ At(w, {"clear", "set"}) /\ ~Finished(w)
  /\ IF link
     THEN /\ pending' = pending \cup {Id(w)}
          /\ toCp' = Append(toCp,
               [id |-> Id(w), op |-> Op(w).op, purpose |-> Op(w).purpose,
                limit |-> thread[w].limit, tx |-> thread[w].tx])
          /\ thread' = [thread EXCEPT ![w].wait = TRUE]
     ELSE /\ thread' = [thread EXCEPT ![w] = Past(w, FALSE)]
          /\ UNCHANGED <<pending, toCp>>
  /\ UNCHANGED <<link, mapped, setpoint, chain, toServer, chargerVars, historyVars>>

\* Mutant: the wait stays registered.
TimeOutKeepsPending(w) ==
  /\ thread[w].wait
  /\ timeouts < MaxTimeouts
  /\ timeouts' = timeouts + 1
  /\ UNCHANGED pending
  /\ thread' = [thread EXCEPT ![w] = Past(w, FALSE)]
  /\ UNCHANGED <<link, mapped, setpoint, chain, toCp, toServer, chargerVars,
                 drops, txs, writes, alone, sure, failed>>

\* Mutant: no timeout without a connection.
TimeOutOnline(w) ==
  /\ thread[w].wait /\ link
  /\ timeouts < MaxTimeouts
  /\ timeouts' = timeouts + 1
  /\ pending' = pending \ {Id(w)}
  /\ thread' = [thread EXCEPT ![w] = Past(w, FALSE)]
  /\ UNCHANGED <<link, mapped, setpoint, chain, toCp, toServer, chargerVars,
                 drops, txs, writes, alone, sure, failed>>

TimeOut(w) ==
  /\ thread[w].wait
  /\ timeouts < MaxTimeouts
  /\ timeouts' = timeouts + 1
  /\ pending' = pending \ {Id(w)}
  /\ thread' = [thread EXCEPT ![w] = Past(w, FALSE)]
  /\ UNCHANGED <<link, mapped, setpoint, chain, toCp, toServer, chargerVars,
                 drops, txs, writes, alone, sure, failed>>

\* The handler of the connection's oldest CALL finishes; the charge point has
\* the answer if the connection is still there.
Finish(d) ==
  /\ chain' = [chain EXCEPT ![d] = Tail(@)]
  /\ asked' = (asked /\ ~(link /\ drops = d))

Return(w) ==
  /\ Busy(w) /\ Finished(w)
  /\ thread' = [thread EXCEPT ![w] = Idle]
  /\ IF w \in Handlers THEN Finish(w) ELSE UNCHANGED <<chain, asked>>
  /\ sure' = IF w \in alone /\ thread[w].ok
             THEN [limit |-> thread[w].limit, tx |-> thread[w].tx] ELSE None
  /\ failed' = (failed \/ ~thread[w].ok)
  /\ UNCHANGED <<link, mapped, setpoint, pending, toCp, toServer, tx, profile,
                 drops, timeouts, txs, writes, alone>>

Step(w) == Publish(w) \/ ReadTx(w) \/ SendCall(w) \/ Return(w)

-----------------------------------------------------------------------------
(* The receive loop and the handlers of the charge point's CALLs.          *)

\* Mutant: the receive loop waits for the handler.
ReceiveInline ==
  /\ toServer # <<>> /\ ~Busy(drops)
  /\ toServer' = Tail(toServer)
  /\ LET m == Head(toServer) IN
     IF m.kind = "Result"
     THEN /\ pending' = pending \ {m.id}
          /\ thread' = [w \in Threads |->
               IF m.id \in pending /\ Id(w) = m.id THEN Past(w, m.ok) ELSE thread[w]]
          /\ UNCHANGED chain
     ELSE /\ chain' = [chain EXCEPT ![drops] = Append(@, m)]
          /\ UNCHANGED <<pending, thread>>
  /\ UNCHANGED <<link, mapped, setpoint, toCp, chargerVars, historyVars>>

\* Mutant: a result completes whatever wait there is.
ReceiveUnmatched ==
  /\ toServer # <<>>
  /\ toServer' = Tail(toServer)
  /\ LET m == Head(toServer) IN
     IF m.kind = "Result"
     THEN /\ pending' = {}
          /\ thread' = [w \in Threads |->
               IF thread[w].wait THEN Past(w, m.ok) ELSE thread[w]]
          /\ UNCHANGED chain
     ELSE /\ chain' = [chain EXCEPT ![drops] = Append(@, m)]
          /\ UNCHANGED <<pending, thread>>
  /\ UNCHANGED <<link, mapped, setpoint, toCp, chargerVars, historyVars>>

\* Mutant: a result is handled as a CALL too.
ReceiveAsCall ==
  /\ toServer # <<>>
  /\ toServer' = Tail(toServer)
  /\ LET m == Head(toServer) IN
     IF m.kind = "Result"
     THEN /\ pending' = pending \ {m.id}
          /\ thread' = [w \in Threads |->
               IF m.id \in pending /\ Id(w) = m.id THEN Past(w, m.ok) ELSE thread[w]]
          /\ chain' = [chain EXCEPT ![drops] = Append(@, m)]
     ELSE /\ chain' = [chain EXCEPT ![drops] = Append(@, m)]
          /\ UNCHANGED <<pending, thread>>
  /\ UNCHANGED <<link, mapped, setpoint, toCp, chargerVars, historyVars>>

Receive ==
  /\ toServer # <<>>
  /\ toServer' = Tail(toServer)
  /\ LET m == Head(toServer) IN
     IF m.kind = "Result"
     THEN /\ pending' = pending \ {m.id}
          /\ thread' = [w \in Threads |->
               IF m.id \in pending /\ Id(w) = m.id THEN Past(w, m.ok) ELSE thread[w]]
          /\ UNCHANGED chain
     ELSE /\ chain' = [chain EXCEPT ![drops] = Append(@, m)]
          /\ UNCHANGED <<pending, thread>>
  /\ UNCHANGED <<link, mapped, setpoint, toCp, chargerVars, historyVars>>

\* The next handler of connection d is for a CALL of this kind.
Due(d, kind) ==
  /\ ~Busy(d)
  /\ chain[d] # <<>>
  /\ Head(chain[d]).kind = kind

HandleStart(d) ==
  /\ Due(d, "Start")
  /\ txs < MaxTx
  /\ txs' = txs + 1
  /\ mapped' = txs + 1
  /\ tx' = IF link /\ drops = d THEN txs + 1 ELSE tx
  /\ Finish(d)
  /\ UNCHANGED <<link, setpoint, pending, thread, toCp, toServer, profile,
                 drops, timeouts, writes, alone, sure, failed>>

\* With the transaction ends what the charge point holds for it.
HandleStop(d) ==
  /\ Due(d, "Stop")
  /\ mapped' = 0
  /\ IF link /\ drops = d
     THEN tx' = 0 /\ profile' = [profile EXCEPT !["Tx"] = None]
     ELSE UNCHANGED <<tx, profile>>
  /\ Finish(d)
  /\ UNCHANGED <<link, setpoint, pending, thread, toCp, toServer, drops, timeouts,
                 txs, writes, alone, sure, failed>>

\* A transaction that is not the mapped one is recovered: the setpoint is
\* applied to it before the handler answers.
HandleMeter(d) ==
  /\ Due(d, "Meter")
  /\ mapped' = Head(chain[d]).tx
  /\ IF mapped # mapped' /\ setpoint # None
     THEN /\ Begin(d, setpoint, FALSE)
          /\ UNCHANGED <<chain, asked>>
     ELSE /\ Finish(d)
          /\ UNCHANGED <<thread, writes, alone, sure>>
  /\ UNCHANGED <<link, setpoint, pending, toCp, toServer, tx, profile, drops,
                 timeouts, txs, failed>>

-----------------------------------------------------------------------------
(* The connection and the charge point.                                    *)

Connect ==
  /\ ~link
  /\ link' = TRUE
  /\ UNCHANGED <<mapped, setpoint, pending, chain, thread, toCp, toServer,
                 chargerVars, historyVars>>

Drop ==
  /\ link /\ drops < MaxDrops
  /\ link' = FALSE
  /\ drops' = drops + 1
  /\ mapped' = 0
  /\ toCp' = <<>> /\ toServer' = <<>> /\ asked' = FALSE
  /\ UNCHANGED <<setpoint, pending, chain, thread, tx, profile, timeouts, txs, writes,
                 alone, sure, failed>>

\* The charge point sends a CALL when it has the answer of the last one.
Ask ==
  /\ link /\ ~asked
  /\ asked' = TRUE
  /\ tx = 0 => txs < MaxTx
  /\ \E kind \in IF tx = 0 THEN {"Start"} ELSE {"Meter", "Stop"} :
       toServer' = Append(toServer, [kind |-> kind, tx |-> tx])
  /\ UNCHANGED <<link, mapped, setpoint, pending, chain, thread, toCp, tx,
                 profile, historyVars>>

\* It refuses a TxProfile that is not for its transaction.
Answer ==
  /\ toCp # <<>>
  /\ toCp' = Tail(toCp)
  /\ LET m == Head(toCp)
         refused == m.op = "set" /\ m.purpose = "Tx" /\ m.tx # tx IN
     \E ok \in IF refused THEN {FALSE} ELSE Verdicts :
       /\ toServer' = Append(toServer, [kind |-> "Result", id |-> m.id, ok |-> ok])
       /\ profile' = [p \in Purposes |->
            IF ok /\ m.purpose \in {p, "All"}
            THEN IF m.op = "set" THEN m.limit ELSE None
            ELSE profile[p]]
  /\ UNCHANGED <<link, mapped, setpoint, pending, chain, thread, tx, asked,
                 historyVars>>

-----------------------------------------------------------------------------
Handle(d) == HandleStart(d) \/ HandleStop(d) \/ HandleMeter(d)

Next ==
  \/ \E w \in Writers : Write(w)
  \/ \E w \in Threads : Step(w) \/ TimeOut(w)
  \/ \E d \in Handlers : Handle(d)
  \/ Receive \/ Connect \/ Drop \/ Ask \/ Answer

Spec == Init /\ [][Next]_vars

\* Threads run, and the timer of a wait fires.
TimedSpec == Spec /\ \A w \in Threads : WF_vars(Step(w) \/ TimeOut(w))

\* Threads run, the receive loop reads and the charge point answers, but no
\* timer can be relied on.
UntimedSpec ==
  Spec /\ (\A w \in Threads : WF_vars(Step(w))) /\ WF_vars(Receive) /\ WF_vars(Answer)

-----------------------------------------------------------------------------
(* Safety and liveness.                                                    *)

\* A write that ran with no other one and was reported as applied is
\* installed, for the transaction it looked up as well, until the next write
\* begins: no answer of an earlier message, late or lost, was taken for one of
\* its own (lines 261-283, 1143-1167).
AppliedIsInstalled ==
  sure # None =>
    /\ profile["Max"] = sure.limit /\ profile["Default"] = sure.limit
    /\ tx # 0 /\ tx = sure.tx => profile["Tx"] = sure.limit

\* What is pending is awaited: nothing piles up in _pendingCallResults after
\* timeouts, late answers and lost connections.
PendingIsAwaited ==
  \A id \in pending :
    \E w \in Threads : thread[w].wait /\ Id(w) = id

\* Threads, messages and the entries of what is pending fit together.
AnswersMatched == TypeOK /\ PendingIsAwaited

\* Every write returns: under TimedSpec whatever gets lost, and under
\* UntimedSpec without the help of a timer, as the receive loop goes on
\* reading while a handler waits (lines 248-251).
WritesReturn == \A w \in Threads : Busy(w) ~> ~Busy(w)

-----------------------------------------------------------------------------
(* What the source says, and the code does not keep.                       *)

Least(a, b) == IF a < b THEN a ELSE b
Allowed(p) == IF profile[p] = None THEN MaxLimit ELSE profile[p]

\* The current the charge point may draw.
Effective ==
  Least(Allowed("Max"), Allowed(IF profile["Tx"] # None THEN "Tx" ELSE "Default"))

Quiet == link /\ toCp = <<>> /\ \A w \in Threads : ~Busy(w)

\* OcppDriver.cs:161-165: an offline charge point "applies it once a
\* transaction starts".
AppliedOnceStarted ==
  Quiet /\ setpoint # None /\ tx # 0 /\ tx = mapped => Effective <= setpoint

\* Lines 976-977: a new, lower limit "is not overridden by a stale profile".
LatestIsNotOverridden ==
  Quiet /\ setpoint # None /\ ~failed => Effective <= setpoint
=============================================================================
