------------------------------ MODULE Ocpp_proofs ------------------------------
(***************************************************************************)
(* Proofs about OcppConnections, for any sets of sockets, senders,         *)
(* semaphores and chains and any number of CALLs, and OcppTransactions,    *)
(* for every set of stations, any meter readings and any bounds.  The      *)
(* theorems about connections rest on the ones before them: typing, the    *)
(* dictionary entry, what other threads may still refer to, then sends,    *)
(* CALL handlers and the shown status.                                     *)
(***************************************************************************)
EXTENDS OcppConnections, OcppTransactions, TLAPS

(***************************************************************************)
(* Senders: replacing one sender's record by a well-formed one keeps the   *)
(* senders well-formed.                                                    *)
(***************************************************************************)
LEMMA SenderUpdate ==
  ASSUME SenderTyped, NEW p \in Senders, NEW r \in SenderState,
         r.pc \in {"wait", "sending"} => r.lock \in Locks,
         sender' = [sender EXCEPT ![p] = r]
  PROVE  SenderTyped'
  BY DEF SenderTyped

LEMMA IdleSenderTyped == IdleSender \in SenderState /\ IdleSender.pc = "idle"
  BY DEF IdleSender, SenderState, SenderPc

(***************************************************************************)
(* Type correctness.                                                       *)
(***************************************************************************)
THEOREM SocketsTypeCorrect == SocketsSpec => []SocketsTypeOK
<1>1. SocketsInit => SocketsTypeOK
  <2> SUFFICES ASSUME SocketsInit PROVE SocketsTypeOK
    OBVIOUS
  <2>1. SenderTyped
    BY IdleSenderTyped DEF SocketsInit, SenderTyped
  <2>2. pc \in [Sockets -> HandlerPc]
    BY DEF SocketsInit, HandlerPc
  <2>3. received \in 0..MaxCalls
    BY SocketsAssumption DEF SocketsInit
  <2>4. calls \subseteq SocketCall /\ held \subseteq Locks /\ disturbed \subseteq Sockets
    BY DEF SocketsInit
  <2>5. QED
    BY <2>1, <2>2, <2>3, <2>4 DEF SocketsInit, SocketsTypeOK
<1>2. SocketsTypeOK /\ [SocketsNext]_socketVars => SocketsTypeOK'
  <2> SUFFICES ASSUME SocketsTypeOK, [SocketsNext]_socketVars PROVE SocketsTypeOK'
    OBVIOUS
  <2> USE SocketsAssumption DEF SocketsTypeOK, HandlerPc, Cleaning
  <2>1. ASSUME NEW s \in Sockets, Accept(s) PROVE SocketsTypeOK'
    BY <2>1 DEF Accept, Goto, senderVars, SenderTyped, callVars
  <2>2. ASSUME NEW s \in Sockets, CloseOld(s) PROVE SocketsTypeOK'
    BY <2>2 DEF CloseOld, Goto, senderVars, SenderTyped, callVars
  <2>3. ASSUME NEW s \in Sockets, Register(s) PROVE SocketsTypeOK'
    BY <2>3 DEF Register, Goto, senderVars, SenderTyped, callVars
  <2>4. ASSUME NEW s \in Sockets, SocketEnds(s) PROVE SocketsTypeOK'
    BY <2>4 DEF SocketEnds, senderVars, SenderTyped, callVars
  <2>5. ASSUME NEW s \in Sockets, ReceiveCall(s) PROVE SocketsTypeOK'
    <3>1. PICK chain \in Chains :
            /\ callChain' = chain
            /\ calls' = calls \cup {[n |-> received + 1, socket |-> s,
                                      chain |-> chain, running |-> FALSE]}
      BY <2>5 DEF ReceiveCall, FreshChain
    <3>2. received' \in 1..MaxCalls
      BY <2>5 DEF ReceiveCall
    <3>3. [n |-> received + 1, socket |-> s, chain |-> chain, running |-> FALSE] \in SocketCall
      BY <2>5, <3>2 DEF ReceiveCall, SocketCall
    <3>4. calls' \subseteq SocketCall
      BY <3>1, <3>3
    <3>5. QED
      BY <2>5, <3>1, <3>2, <3>4 DEF ReceiveCall, connVars, senderVars, SenderTyped
  <2>6. ASSUME NEW s \in Sockets, LeaveLoop(s) PROVE SocketsTypeOK'
    BY <2>6 DEF LeaveLoop, Goto, senderVars, SenderTyped, callVars
  <2>7. ASSUME NEW s \in Sockets, CheckOwner(s) PROVE SocketsTypeOK'
    BY <2>7 DEF CheckOwner, Goto, senderVars, SenderTyped, callVars
  <2>8. ASSUME NEW s \in Sockets, RemoveActive(s) PROVE SocketsTypeOK'
    BY <2>8 DEF RemoveActive, Goto, Disturb, senderVars, SenderTyped, callVars
  <2>9. ASSUME NEW s \in Sockets, MarkOffline(s) PROVE SocketsTypeOK'
    BY <2>9 DEF MarkOffline, Goto, Disturb, senderVars, SenderTyped, callVars
  <2>10. ASSUME NEW s \in Sockets, DropEntries(s) PROVE SocketsTypeOK'
    BY <2>10 DEF DropEntries, Goto, Disturb, senderVars, SenderTyped, callVars
  <2>11. ASSUME NEW p \in Senders, PickSocket(p) PROVE SocketsTypeOK'
    <3> DEFINE r == [pc |-> "getLock", socket |-> activeSocket, lock |-> NoLock]
    <3>1. r \in SenderState /\ r.pc = "getLock"
      BY DEF SenderState, SenderPc
    <3>2. SenderTyped'
      BY <2>11, <3>1, SenderUpdate DEF PickSocket, SenderAt
    <3>3. QED
      BY <2>11, <3>2 DEF PickSocket, connVars, callVars
  <2>12. ASSUME NEW p \in Senders, GetLock(p) PROVE SocketsTypeOK'
    <3>1. PICK l \in Locks :
            /\ sendLock' = l
            /\ sender' = [sender EXCEPT ![p] = [sender[p] EXCEPT !.pc = "wait", !.lock = l]]
      BY <2>12 DEF GetLock, SenderAt, FreshLock
    <3> DEFINE r == [sender[p] EXCEPT !.pc = "wait", !.lock = l]
    <3>2. sender[p] \in SenderState
      BY DEF SenderTyped
    <3>3. r \in SenderState /\ r.lock = l
      BY <3>2 DEF SenderState, SenderPc
    <3>4. SenderTyped'
      BY <3>1, <3>3, SenderUpdate
    <3>5. QED
      BY <2>12, <3>1, <3>4 DEF GetLock, connVars, callVars
  <2>13. ASSUME NEW p \in Senders, AcquireLock(p) PROVE SocketsTypeOK'
    <3> DEFINE r == [sender[p] EXCEPT !.pc = "sending"]
    <3>1. sender[p] \in SenderState /\ sender[p].lock \in Locks
      BY <2>13 DEF AcquireLock, SenderTyped
    <3>2. r \in SenderState /\ r.lock \in Locks
      BY <3>1 DEF SenderState, SenderPc
    <3>3. SenderTyped'
      BY <2>13, <3>2, IdleSenderTyped, SenderUpdate DEF AcquireLock, SenderAt
    <3>4. QED
      BY <2>13, <3>1, <3>3 DEF AcquireLock, connVars, callVars
  <2>14. ASSUME NEW p \in Senders, FinishSend(p) PROVE SocketsTypeOK'
    <3>1. SenderTyped'
      BY <2>14, IdleSenderTyped, SenderUpdate DEF FinishSend, SenderAt
    <3>2. QED
      BY <2>14, <3>1 DEF FinishSend, connVars, callVars
  <2>15. ASSUME NEW c \in calls, StartCall(c) PROVE SocketsTypeOK'
    <3>1. [c EXCEPT !.running = TRUE] \in SocketCall
      BY DEF SocketCall
    <3>2. calls' \subseteq SocketCall
      BY <2>15, <3>1 DEF StartCall
    <3>3. QED
      BY <2>15, <3>2 DEF StartCall, connVars, senderVars, SenderTyped
  <2>16. ASSUME NEW c \in calls, FinishCall(c) PROVE SocketsTypeOK'
    BY <2>16 DEF FinishCall, senderVars, SenderTyped
  <2>17. CASE UNCHANGED socketVars
    BY <2>17 DEF socketVars, SenderTyped
  <2>18. QED
    BY <2>1, <2>2, <2>3, <2>4, <2>5, <2>6, <2>7, <2>8, <2>9, <2>10, <2>11, <2>12, <2>13, <2>14, <2>15, <2>16, <2>17 DEF SocketsNext, SocketStep, SenderStep, CallStep
<1>3. QED
  BY <1>1, <1>2, PTL DEF SocketsSpec

(***************************************************************************)
(* A registered socket belongs to a handler that has not passed its own    *)
(* removal: only that handler registers it, and it leaves the receive loop by*)
(* way of the ownership test.                                              *)
(***************************************************************************)
THEOREM ActiveHasHandler == SocketsSpec => []ActiveSocketHasHandler
<1>1. SocketsInit => ActiveSocketHasHandler
  BY SocketsAssumption, IdleSenderTyped DEF SocketsInit, ActiveSocketHasHandler, Cleaning
<1>2. SocketsTypeOK /\ ActiveSocketHasHandler /\ [SocketsNext]_socketVars => ActiveSocketHasHandler'
  <2> SUFFICES ASSUME SocketsTypeOK, ActiveSocketHasHandler, [SocketsNext]_socketVars PROVE ActiveSocketHasHandler'
    OBVIOUS
  <2> USE SocketsAssumption, IdleSenderTyped DEF SocketsTypeOK, SenderTyped, ActiveSocketHasHandler, Cleaning
  <2>1. ASSUME NEW s \in Sockets, Accept(s) PROVE ActiveSocketHasHandler'
    BY <2>1 DEF Accept, Goto, senderVars, callVars
  <2>2. ASSUME NEW s \in Sockets, CloseOld(s) PROVE ActiveSocketHasHandler'
    BY <2>2 DEF CloseOld, Goto, senderVars, callVars
  <2>3. ASSUME NEW s \in Sockets, Register(s) PROVE ActiveSocketHasHandler'
    BY <2>3 DEF Register, Goto, senderVars, callVars
  <2>4. ASSUME NEW s \in Sockets, SocketEnds(s) PROVE ActiveSocketHasHandler'
    BY <2>4 DEF SocketEnds, senderVars, callVars
  <2>5. ASSUME NEW s \in Sockets, ReceiveCall(s) PROVE ActiveSocketHasHandler'
    BY <2>5 DEF ReceiveCall, FreshChain, connVars, senderVars
  <2>6. ASSUME NEW s \in Sockets, LeaveLoop(s) PROVE ActiveSocketHasHandler'
    BY <2>6 DEF LeaveLoop, Goto, senderVars, callVars
  <2>7. ASSUME NEW s \in Sockets, CheckOwner(s) PROVE ActiveSocketHasHandler'
    BY <2>7 DEF CheckOwner, Goto, senderVars, callVars
  <2>8. ASSUME NEW s \in Sockets, RemoveActive(s) PROVE ActiveSocketHasHandler'
    BY <2>8 DEF RemoveActive, Goto, Disturb, senderVars, callVars
  <2>9. ASSUME NEW s \in Sockets, MarkOffline(s) PROVE ActiveSocketHasHandler'
    BY <2>9 DEF MarkOffline, Goto, Disturb, senderVars, callVars
  <2>10. ASSUME NEW s \in Sockets, DropEntries(s) PROVE ActiveSocketHasHandler'
    BY <2>10 DEF DropEntries, Goto, Disturb, senderVars, callVars
  <2>11. ASSUME NEW p \in Senders, PickSocket(p) PROVE ActiveSocketHasHandler'
    BY <2>11 DEF PickSocket, SenderAt, connVars, callVars
  <2>12. ASSUME NEW p \in Senders, GetLock(p) PROVE ActiveSocketHasHandler'
    BY <2>12 DEF GetLock, SenderAt, FreshLock, connVars, callVars
  <2>13. ASSUME NEW p \in Senders, AcquireLock(p) PROVE ActiveSocketHasHandler'
    BY <2>13 DEF AcquireLock, SenderAt, IdleSender, connVars, callVars
  <2>14. ASSUME NEW p \in Senders, FinishSend(p) PROVE ActiveSocketHasHandler'
    BY <2>14 DEF FinishSend, SenderAt, IdleSender, connVars, callVars
  <2>15. ASSUME NEW c \in calls, StartCall(c) PROVE ActiveSocketHasHandler'
    BY <2>15 DEF StartCall, Runnable, connVars, senderVars
  <2>16. ASSUME NEW c \in calls, FinishCall(c) PROVE ActiveSocketHasHandler'
    BY <2>16 DEF FinishCall, senderVars
  <2>17. CASE UNCHANGED socketVars
    BY <2>17 DEF socketVars
  <2>18. QED
    BY <2>1, <2>2, <2>3, <2>4, <2>5, <2>6, <2>7, <2>8, <2>9, <2>10, <2>11, <2>12, <2>13, <2>14, <2>15, <2>16, <2>17 DEF SocketsNext, SocketStep, SenderStep, CallStep
<1>3. QED
  BY <1>1, <1>2, SocketsTypeCorrect, PTL DEF SocketsSpec

(***************************************************************************)
(* Nobody reopens a socket, and the receive loop is left only when its socket*)
(* is no longer open.                                                      *)
(***************************************************************************)
THEOREM EndedClosed == SocketsSpec => []EndedIsClosed
<1>1. SocketsInit => EndedIsClosed
  BY SocketsAssumption, IdleSenderTyped DEF SocketsInit, EndedIsClosed, Cleaning
<1>2. SocketsTypeOK /\ EndedIsClosed /\ [SocketsNext]_socketVars => EndedIsClosed'
  <2> SUFFICES ASSUME SocketsTypeOK, EndedIsClosed, [SocketsNext]_socketVars PROVE EndedIsClosed'
    OBVIOUS
  <2> USE SocketsAssumption, IdleSenderTyped DEF SocketsTypeOK, SenderTyped, EndedIsClosed, Cleaning
  <2>1. ASSUME NEW s \in Sockets, Accept(s) PROVE EndedIsClosed'
    BY <2>1 DEF Accept, Goto, senderVars, callVars
  <2>2. ASSUME NEW s \in Sockets, CloseOld(s) PROVE EndedIsClosed'
    BY <2>2 DEF CloseOld, Goto, senderVars, callVars
  <2>3. ASSUME NEW s \in Sockets, Register(s) PROVE EndedIsClosed'
    BY <2>3 DEF Register, Goto, senderVars, callVars
  <2>4. ASSUME NEW s \in Sockets, SocketEnds(s) PROVE EndedIsClosed'
    BY <2>4 DEF SocketEnds, senderVars, callVars
  <2>5. ASSUME NEW s \in Sockets, ReceiveCall(s) PROVE EndedIsClosed'
    BY <2>5 DEF ReceiveCall, FreshChain, connVars, senderVars
  <2>6. ASSUME NEW s \in Sockets, LeaveLoop(s) PROVE EndedIsClosed'
    BY <2>6 DEF LeaveLoop, Goto, senderVars, callVars
  <2>7. ASSUME NEW s \in Sockets, CheckOwner(s) PROVE EndedIsClosed'
    BY <2>7 DEF CheckOwner, Goto, senderVars, callVars
  <2>8. ASSUME NEW s \in Sockets, RemoveActive(s) PROVE EndedIsClosed'
    BY <2>8 DEF RemoveActive, Goto, Disturb, senderVars, callVars
  <2>9. ASSUME NEW s \in Sockets, MarkOffline(s) PROVE EndedIsClosed'
    BY <2>9 DEF MarkOffline, Goto, Disturb, senderVars, callVars
  <2>10. ASSUME NEW s \in Sockets, DropEntries(s) PROVE EndedIsClosed'
    BY <2>10 DEF DropEntries, Goto, Disturb, senderVars, callVars
  <2>11. ASSUME NEW p \in Senders, PickSocket(p) PROVE EndedIsClosed'
    BY <2>11 DEF PickSocket, SenderAt, connVars, callVars
  <2>12. ASSUME NEW p \in Senders, GetLock(p) PROVE EndedIsClosed'
    BY <2>12 DEF GetLock, SenderAt, FreshLock, connVars, callVars
  <2>13. ASSUME NEW p \in Senders, AcquireLock(p) PROVE EndedIsClosed'
    BY <2>13 DEF AcquireLock, SenderAt, IdleSender, connVars, callVars
  <2>14. ASSUME NEW p \in Senders, FinishSend(p) PROVE EndedIsClosed'
    BY <2>14 DEF FinishSend, SenderAt, IdleSender, connVars, callVars
  <2>15. ASSUME NEW c \in calls, StartCall(c) PROVE EndedIsClosed'
    BY <2>15 DEF StartCall, Runnable, connVars, senderVars
  <2>16. ASSUME NEW c \in calls, FinishCall(c) PROVE EndedIsClosed'
    BY <2>16 DEF FinishCall, senderVars
  <2>17. CASE UNCHANGED socketVars
    BY <2>17 DEF socketVars
  <2>18. QED
    BY <2>1, <2>2, <2>3, <2>4, <2>5, <2>6, <2>7, <2>8, <2>9, <2>10, <2>11, <2>12, <2>13, <2>14, <2>15, <2>16, <2>17 DEF SocketsNext, SocketStep, SenderStep, CallStep
<1>3. QED
  BY <1>1, <1>2, SocketsTypeCorrect, PTL DEF SocketsSpec

(***************************************************************************)
(* Sockets named by a replacing handler, a sender or a pending CALL were   *)
(* registered once, because each was found in the dictionary or received from.*)
(***************************************************************************)
THEOREM NamedRegistered == SocketsSpec => []NamedWasRegistered
<1>1. SocketsInit => NamedWasRegistered
  BY SocketsAssumption, IdleSenderTyped DEF SocketsInit, NamedWasRegistered, WasRegistered, Registered, Cleaning
<1>2. SocketsTypeOK /\ ActiveSocketHasHandler /\ NamedWasRegistered /\ [SocketsNext]_socketVars => NamedWasRegistered'
  <2> SUFFICES ASSUME SocketsTypeOK, ActiveSocketHasHandler, NamedWasRegistered, [SocketsNext]_socketVars PROVE NamedWasRegistered'
    OBVIOUS
  <2> USE SocketsAssumption, IdleSenderTyped DEF SocketsTypeOK, SenderTyped, ActiveSocketHasHandler, NamedWasRegistered, WasRegistered, Registered, Cleaning
  <2>1. ASSUME NEW s \in Sockets, Accept(s) PROVE NamedWasRegistered'
    BY <2>1 DEF Accept, Goto, senderVars, callVars
  <2>2. ASSUME NEW s \in Sockets, CloseOld(s) PROVE NamedWasRegistered'
    BY <2>2 DEF CloseOld, Goto, senderVars, callVars
  <2>3. ASSUME NEW s \in Sockets, Register(s) PROVE NamedWasRegistered'
    BY <2>3 DEF Register, Goto, senderVars, callVars
  <2>4. ASSUME NEW s \in Sockets, SocketEnds(s) PROVE NamedWasRegistered'
    BY <2>4 DEF SocketEnds, senderVars, callVars
  <2>5. ASSUME NEW s \in Sockets, ReceiveCall(s) PROVE NamedWasRegistered'
    BY <2>5 DEF ReceiveCall, FreshChain, connVars, senderVars
  <2>6. ASSUME NEW s \in Sockets, LeaveLoop(s) PROVE NamedWasRegistered'
    BY <2>6 DEF LeaveLoop, Goto, senderVars, callVars
  <2>7. ASSUME NEW s \in Sockets, CheckOwner(s) PROVE NamedWasRegistered'
    BY <2>7 DEF CheckOwner, Goto, senderVars, callVars
  <2>8. ASSUME NEW s \in Sockets, RemoveActive(s) PROVE NamedWasRegistered'
    BY <2>8 DEF RemoveActive, Goto, Disturb, senderVars, callVars
  <2>9. ASSUME NEW s \in Sockets, MarkOffline(s) PROVE NamedWasRegistered'
    BY <2>9 DEF MarkOffline, Goto, Disturb, senderVars, callVars
  <2>10. ASSUME NEW s \in Sockets, DropEntries(s) PROVE NamedWasRegistered'
    BY <2>10 DEF DropEntries, Goto, Disturb, senderVars, callVars
  <2>11. ASSUME NEW p \in Senders, PickSocket(p) PROVE NamedWasRegistered'
    BY <2>11 DEF PickSocket, SenderAt, connVars, callVars
  <2>12. ASSUME NEW p \in Senders, GetLock(p) PROVE NamedWasRegistered'
    BY <2>12 DEF GetLock, SenderAt, FreshLock, connVars, callVars
  <2>13. ASSUME NEW p \in Senders, AcquireLock(p) PROVE NamedWasRegistered'
    <3>1. CASE isOpen[sender[p].socket]
      BY <2>13, <3>1 DEF AcquireLock, SenderAt, SenderState, connVars, callVars
    <3>2. CASE ~isOpen[sender[p].socket]
      BY <2>13, <3>2 DEF AcquireLock, SenderAt, connVars, callVars
    <3>3. QED
      BY <3>1, <3>2
  <2>14. ASSUME NEW p \in Senders, FinishSend(p) PROVE NamedWasRegistered'
    BY <2>14 DEF FinishSend, SenderAt, IdleSender, connVars, callVars
  <2>15. ASSUME NEW c \in calls, StartCall(c) PROVE NamedWasRegistered'
    <3> DEFINE e == [c EXCEPT !.running = TRUE]
    <3>1. e.n = c.n /\ e.socket = c.socket /\ e.chain = c.chain /\ e.running
      BY DEF SocketCall
    <3>2. calls' = (calls \ {c}) \cup {e}
      BY <2>15 DEF StartCall
    <3> HIDE DEF e
    <3>3. QED
      BY <2>15, <3>1, <3>2 DEF StartCall, Runnable, connVars, senderVars
  <2>16. ASSUME NEW c \in calls, FinishCall(c) PROVE NamedWasRegistered'
    BY <2>16 DEF FinishCall, senderVars
  <2>17. CASE UNCHANGED socketVars
    BY <2>17 DEF socketVars
  <2>18. QED
    BY <2>1, <2>2, <2>3, <2>4, <2>5, <2>6, <2>7, <2>8, <2>9, <2>10, <2>11, <2>12, <2>13, <2>14, <2>15, <2>16, <2>17 DEF SocketsNext, SocketStep, SenderStep, CallStep
<1>3. QED
  BY <1>1, <1>2, SocketsTypeCorrect, ActiveHasHandler, PTL DEF SocketsSpec

(***************************************************************************)
(* A socket taken out to be replaced never becomes the registered one again.*)
(***************************************************************************)
THEOREM ReplacedOut == SocketsSpec => []ReplacedSocketStaysOut
<1>1. SocketsInit => ReplacedSocketStaysOut
  BY SocketsAssumption, IdleSenderTyped DEF SocketsInit, ReplacedSocketStaysOut, NamedWasRegistered, ActiveSocketHasHandler, WasRegistered, Registered, Cleaning
<1>2. SocketsTypeOK /\ ActiveSocketHasHandler /\ NamedWasRegistered /\ ReplacedSocketStaysOut /\ [SocketsNext]_socketVars => ReplacedSocketStaysOut'
  <2> SUFFICES ASSUME SocketsTypeOK, ActiveSocketHasHandler, NamedWasRegistered, ReplacedSocketStaysOut, [SocketsNext]_socketVars PROVE ReplacedSocketStaysOut'
    OBVIOUS
  <2> USE SocketsAssumption, IdleSenderTyped DEF SocketsTypeOK, SenderTyped, ReplacedSocketStaysOut, NamedWasRegistered, ActiveSocketHasHandler, WasRegistered, Registered, Cleaning
  <2>1. ASSUME NEW s \in Sockets, Accept(s) PROVE ReplacedSocketStaysOut'
    BY <2>1 DEF Accept, Goto, senderVars, callVars
  <2>2. ASSUME NEW s \in Sockets, CloseOld(s) PROVE ReplacedSocketStaysOut'
    BY <2>2 DEF CloseOld, Goto, senderVars, callVars
  <2>3. ASSUME NEW s \in Sockets, Register(s) PROVE ReplacedSocketStaysOut'
    BY <2>3 DEF Register, Goto, senderVars, callVars
  <2>4. ASSUME NEW s \in Sockets, SocketEnds(s) PROVE ReplacedSocketStaysOut'
    BY <2>4 DEF SocketEnds, senderVars, callVars
  <2>5. ASSUME NEW s \in Sockets, ReceiveCall(s) PROVE ReplacedSocketStaysOut'
    BY <2>5 DEF ReceiveCall, FreshChain, connVars, senderVars
  <2>6. ASSUME NEW s \in Sockets, LeaveLoop(s) PROVE ReplacedSocketStaysOut'
    BY <2>6 DEF LeaveLoop, Goto, senderVars, callVars
  <2>7. ASSUME NEW s \in Sockets, CheckOwner(s) PROVE ReplacedSocketStaysOut'
    BY <2>7 DEF CheckOwner, Goto, senderVars, callVars
  <2>8. ASSUME NEW s \in Sockets, RemoveActive(s) PROVE ReplacedSocketStaysOut'
    BY <2>8 DEF RemoveActive, Goto, Disturb, senderVars, callVars
  <2>9. ASSUME NEW s \in Sockets, MarkOffline(s) PROVE ReplacedSocketStaysOut'
    BY <2>9 DEF MarkOffline, Goto, Disturb, senderVars, callVars
  <2>10. ASSUME NEW s \in Sockets, DropEntries(s) PROVE ReplacedSocketStaysOut'
    BY <2>10 DEF DropEntries, Goto, Disturb, senderVars, callVars
  <2>11. ASSUME NEW p \in Senders, PickSocket(p) PROVE ReplacedSocketStaysOut'
    BY <2>11 DEF PickSocket, SenderAt, connVars, callVars
  <2>12. ASSUME NEW p \in Senders, GetLock(p) PROVE ReplacedSocketStaysOut'
    BY <2>12 DEF GetLock, SenderAt, FreshLock, connVars, callVars
  <2>13. ASSUME NEW p \in Senders, AcquireLock(p) PROVE ReplacedSocketStaysOut'
    BY <2>13 DEF AcquireLock, SenderAt, IdleSender, connVars, callVars
  <2>14. ASSUME NEW p \in Senders, FinishSend(p) PROVE ReplacedSocketStaysOut'
    BY <2>14 DEF FinishSend, SenderAt, IdleSender, connVars, callVars
  <2>15. ASSUME NEW c \in calls, StartCall(c) PROVE ReplacedSocketStaysOut'
    BY <2>15 DEF StartCall, Runnable, connVars, senderVars
  <2>16. ASSUME NEW c \in calls, FinishCall(c) PROVE ReplacedSocketStaysOut'
    BY <2>16 DEF FinishCall, senderVars
  <2>17. CASE UNCHANGED socketVars
    BY <2>17 DEF socketVars
  <2>18. QED
    BY <2>1, <2>2, <2>3, <2>4, <2>5, <2>6, <2>7, <2>8, <2>9, <2>10, <2>11, <2>12, <2>13, <2>14, <2>15, <2>16, <2>17 DEF SocketsNext, SocketStep, SenderStep, CallStep
<1>3. QED
  BY <1>1, <1>2, SocketsTypeCorrect, ActiveHasHandler, NamedRegistered, PTL DEF SocketsSpec

(***************************************************************************)
(* A connection that receives while it is neither registered nor disturbed is*)
(* about to be closed by the handler that took it out.                     *)
(***************************************************************************)
THEOREM NoZombies == SocketsSpec => []NoZombieConnection
<1>1. SocketsInit => NoZombieConnection
  BY SocketsAssumption, IdleSenderTyped DEF SocketsInit, NoZombieConnection, Registered, Cleaning
<1>2. SocketsTypeOK /\ NoZombieConnection /\ [SocketsNext]_socketVars => NoZombieConnection'
  <2> SUFFICES ASSUME SocketsTypeOK, NoZombieConnection, [SocketsNext]_socketVars PROVE NoZombieConnection'
    OBVIOUS
  <2> USE SocketsAssumption, IdleSenderTyped DEF SocketsTypeOK, SenderTyped, NoZombieConnection, Registered, Cleaning
  <2>1. ASSUME NEW s \in Sockets, Accept(s) PROVE NoZombieConnection'
    BY <2>1 DEF Accept, Goto, senderVars, callVars
  <2>2. ASSUME NEW s \in Sockets, CloseOld(s) PROVE NoZombieConnection'
    BY <2>2 DEF CloseOld, Goto, senderVars, callVars
  <2>3. ASSUME NEW s \in Sockets, Register(s) PROVE NoZombieConnection'
    BY <2>3 DEF Register, Goto, senderVars, callVars
  <2>4. ASSUME NEW s \in Sockets, SocketEnds(s) PROVE NoZombieConnection'
    BY <2>4 DEF SocketEnds, senderVars, callVars
  <2>5. ASSUME NEW s \in Sockets, ReceiveCall(s) PROVE NoZombieConnection'
    BY <2>5 DEF ReceiveCall, FreshChain, connVars, senderVars
  <2>6. ASSUME NEW s \in Sockets, LeaveLoop(s) PROVE NoZombieConnection'
    BY <2>6 DEF LeaveLoop, Goto, senderVars, callVars
  <2>7. ASSUME NEW s \in Sockets, CheckOwner(s) PROVE NoZombieConnection'
    BY <2>7 DEF CheckOwner, Goto, senderVars, callVars
  <2>8. ASSUME NEW s \in Sockets, RemoveActive(s) PROVE NoZombieConnection'
    BY <2>8 DEF RemoveActive, Goto, Disturb, senderVars, callVars
  <2>9. ASSUME NEW s \in Sockets, MarkOffline(s) PROVE NoZombieConnection'
    BY <2>9 DEF MarkOffline, Goto, Disturb, senderVars, callVars
  <2>10. ASSUME NEW s \in Sockets, DropEntries(s) PROVE NoZombieConnection'
    BY <2>10 DEF DropEntries, Goto, Disturb, senderVars, callVars
  <2>11. ASSUME NEW p \in Senders, PickSocket(p) PROVE NoZombieConnection'
    BY <2>11 DEF PickSocket, SenderAt, connVars, callVars
  <2>12. ASSUME NEW p \in Senders, GetLock(p) PROVE NoZombieConnection'
    BY <2>12 DEF GetLock, SenderAt, FreshLock, connVars, callVars
  <2>13. ASSUME NEW p \in Senders, AcquireLock(p) PROVE NoZombieConnection'
    BY <2>13 DEF AcquireLock, SenderAt, IdleSender, connVars, callVars
  <2>14. ASSUME NEW p \in Senders, FinishSend(p) PROVE NoZombieConnection'
    BY <2>14 DEF FinishSend, SenderAt, IdleSender, connVars, callVars
  <2>15. ASSUME NEW c \in calls, StartCall(c) PROVE NoZombieConnection'
    BY <2>15 DEF StartCall, Runnable, connVars, senderVars
  <2>16. ASSUME NEW c \in calls, FinishCall(c) PROVE NoZombieConnection'
    BY <2>16 DEF FinishCall, senderVars
  <2>17. CASE UNCHANGED socketVars
    BY <2>17 DEF socketVars
  <2>18. QED
    BY <2>1, <2>2, <2>3, <2>4, <2>5, <2>6, <2>7, <2>8, <2>9, <2>10, <2>11, <2>12, <2>13, <2>14, <2>15, <2>16, <2>17 DEF SocketsNext, SocketStep, SenderStep, CallStep
<1>3. QED
  BY <1>1, <1>2, SocketsTypeCorrect, PTL DEF SocketsSpec

(***************************************************************************)
(* A semaphore admits one sender at a time.                                *)
(***************************************************************************)
THEOREM Exclusive == SocketsSpec => []SemaphoreExclusive
<1>1. SocketsInit => SemaphoreExclusive
  BY SocketsAssumption, IdleSenderTyped DEF SocketsInit, SemaphoreExclusive
<1>2. SocketsTypeOK /\ SemaphoreExclusive /\ [SocketsNext]_socketVars => SemaphoreExclusive'
  <2> SUFFICES ASSUME SocketsTypeOK, SemaphoreExclusive, [SocketsNext]_socketVars PROVE SemaphoreExclusive'
    OBVIOUS
  <2> USE SocketsAssumption, IdleSenderTyped DEF SocketsTypeOK, SenderTyped, SemaphoreExclusive
  <2>1. ASSUME NEW s \in Sockets, Accept(s) PROVE SemaphoreExclusive'
    BY <2>1 DEF Accept, Goto, senderVars, callVars
  <2>2. ASSUME NEW s \in Sockets, CloseOld(s) PROVE SemaphoreExclusive'
    BY <2>2 DEF CloseOld, Goto, senderVars, callVars
  <2>3. ASSUME NEW s \in Sockets, Register(s) PROVE SemaphoreExclusive'
    BY <2>3 DEF Register, Goto, senderVars, callVars
  <2>4. ASSUME NEW s \in Sockets, SocketEnds(s) PROVE SemaphoreExclusive'
    BY <2>4 DEF SocketEnds, senderVars, callVars
  <2>5. ASSUME NEW s \in Sockets, ReceiveCall(s) PROVE SemaphoreExclusive'
    BY <2>5 DEF ReceiveCall, FreshChain, connVars, senderVars
  <2>6. ASSUME NEW s \in Sockets, LeaveLoop(s) PROVE SemaphoreExclusive'
    BY <2>6 DEF LeaveLoop, Goto, senderVars, callVars
  <2>7. ASSUME NEW s \in Sockets, CheckOwner(s) PROVE SemaphoreExclusive'
    BY <2>7 DEF CheckOwner, Goto, senderVars, callVars
  <2>8. ASSUME NEW s \in Sockets, RemoveActive(s) PROVE SemaphoreExclusive'
    BY <2>8 DEF RemoveActive, Goto, Disturb, senderVars, callVars
  <2>9. ASSUME NEW s \in Sockets, MarkOffline(s) PROVE SemaphoreExclusive'
    BY <2>9 DEF MarkOffline, Goto, Disturb, senderVars, callVars
  <2>10. ASSUME NEW s \in Sockets, DropEntries(s) PROVE SemaphoreExclusive'
    BY <2>10 DEF DropEntries, Goto, Disturb, senderVars, callVars
  <2>11. ASSUME NEW p \in Senders, PickSocket(p) PROVE SemaphoreExclusive'
    BY <2>11 DEF PickSocket, SenderAt, connVars, callVars
  <2>12. ASSUME NEW p \in Senders, GetLock(p) PROVE SemaphoreExclusive'
    BY <2>12 DEF GetLock, SenderAt, FreshLock, connVars, callVars
  <2>13. ASSUME NEW p \in Senders, AcquireLock(p) PROVE SemaphoreExclusive'
    <3>1. CASE isOpen[sender[p].socket]
      BY <2>13, <3>1 DEF AcquireLock, SenderAt, SenderState, connVars, callVars
    <3>2. CASE ~isOpen[sender[p].socket]
      BY <2>13, <3>2 DEF AcquireLock, SenderAt, connVars, callVars
    <3>3. QED
      BY <3>1, <3>2
  <2>14. ASSUME NEW p \in Senders, FinishSend(p) PROVE SemaphoreExclusive'
    BY <2>14 DEF FinishSend, SenderAt, IdleSender, connVars, callVars
  <2>15. ASSUME NEW c \in calls, StartCall(c) PROVE SemaphoreExclusive'
    BY <2>15 DEF StartCall, Runnable, connVars, senderVars
  <2>16. ASSUME NEW c \in calls, FinishCall(c) PROVE SemaphoreExclusive'
    BY <2>16 DEF FinishCall, senderVars
  <2>17. CASE UNCHANGED socketVars
    BY <2>17 DEF socketVars
  <2>18. QED
    BY <2>1, <2>2, <2>3, <2>4, <2>5, <2>6, <2>7, <2>8, <2>9, <2>10, <2>11, <2>12, <2>13, <2>14, <2>15, <2>16, <2>17 DEF SocketsNext, SocketStep, SenderStep, CallStep
<1>3. QED
  BY <1>1, <1>2, SocketsTypeCorrect, PTL DEF SocketsSpec

(***************************************************************************)
(* An open, undisturbed socket has one semaphore, the one in the dictionary:*)
(* the only handler that may drop it is the socket's own, after it ended.  *)
(***************************************************************************)
THEOREM SemaphoreCurrent == SocketsSpec => []SemaphoreIsCurrent
<1>1. SocketsInit => SemaphoreIsCurrent
  BY SocketsAssumption, IdleSenderTyped DEF SocketsInit, SemaphoreIsCurrent, EndedIsClosed, NamedWasRegistered, WasRegistered, Registered, Cleaning
<1>2. SocketsTypeOK /\ EndedIsClosed /\ NamedWasRegistered /\ SemaphoreIsCurrent /\ [SocketsNext]_socketVars => SemaphoreIsCurrent'
  <2> SUFFICES ASSUME SocketsTypeOK, EndedIsClosed, NamedWasRegistered, SemaphoreIsCurrent, [SocketsNext]_socketVars PROVE SemaphoreIsCurrent'
    OBVIOUS
  <2> USE SocketsAssumption, IdleSenderTyped DEF SocketsTypeOK, SenderTyped, SemaphoreIsCurrent, EndedIsClosed, NamedWasRegistered, WasRegistered, Registered, Cleaning
  <2>1. ASSUME NEW s \in Sockets, Accept(s) PROVE SemaphoreIsCurrent'
    BY <2>1 DEF Accept, Goto, senderVars, callVars
  <2>2. ASSUME NEW s \in Sockets, CloseOld(s) PROVE SemaphoreIsCurrent'
    BY <2>2 DEF CloseOld, Goto, senderVars, callVars
  <2>3. ASSUME NEW s \in Sockets, Register(s) PROVE SemaphoreIsCurrent'
    BY <2>3 DEF Register, Goto, senderVars, callVars
  <2>4. ASSUME NEW s \in Sockets, SocketEnds(s) PROVE SemaphoreIsCurrent'
    BY <2>4 DEF SocketEnds, senderVars, callVars
  <2>5. ASSUME NEW s \in Sockets, ReceiveCall(s) PROVE SemaphoreIsCurrent'
    BY <2>5 DEF ReceiveCall, FreshChain, connVars, senderVars
  <2>6. ASSUME NEW s \in Sockets, LeaveLoop(s) PROVE SemaphoreIsCurrent'
    BY <2>6 DEF LeaveLoop, Goto, senderVars, callVars
  <2>7. ASSUME NEW s \in Sockets, CheckOwner(s) PROVE SemaphoreIsCurrent'
    BY <2>7 DEF CheckOwner, Goto, senderVars, callVars
  <2>8. ASSUME NEW s \in Sockets, RemoveActive(s) PROVE SemaphoreIsCurrent'
    BY <2>8 DEF RemoveActive, Goto, Disturb, senderVars, callVars
  <2>9. ASSUME NEW s \in Sockets, MarkOffline(s) PROVE SemaphoreIsCurrent'
    BY <2>9 DEF MarkOffline, Goto, Disturb, senderVars, callVars
  <2>10. ASSUME NEW s \in Sockets, DropEntries(s) PROVE SemaphoreIsCurrent'
    BY <2>10 DEF DropEntries, Goto, Disturb, senderVars, callVars
  <2>11. ASSUME NEW p \in Senders, PickSocket(p) PROVE SemaphoreIsCurrent'
    BY <2>11 DEF PickSocket, SenderAt, connVars, callVars
  <2>12. ASSUME NEW p \in Senders, GetLock(p) PROVE SemaphoreIsCurrent'
    BY <2>12 DEF GetLock, SenderAt, FreshLock, connVars, callVars
  <2>13. ASSUME NEW p \in Senders, AcquireLock(p) PROVE SemaphoreIsCurrent'
    <3>1. CASE isOpen[sender[p].socket]
      BY <2>13, <3>1 DEF AcquireLock, SenderAt, SenderState, connVars, callVars
    <3>2. CASE ~isOpen[sender[p].socket]
      BY <2>13, <3>2 DEF AcquireLock, SenderAt, connVars, callVars
    <3>3. QED
      BY <3>1, <3>2
  <2>14. ASSUME NEW p \in Senders, FinishSend(p) PROVE SemaphoreIsCurrent'
    BY <2>14 DEF FinishSend, SenderAt, IdleSender, connVars, callVars
  <2>15. ASSUME NEW c \in calls, StartCall(c) PROVE SemaphoreIsCurrent'
    BY <2>15 DEF StartCall, Runnable, connVars, senderVars
  <2>16. ASSUME NEW c \in calls, FinishCall(c) PROVE SemaphoreIsCurrent'
    BY <2>16 DEF FinishCall, senderVars
  <2>17. CASE UNCHANGED socketVars
    BY <2>17 DEF socketVars
  <2>18. QED
    BY <2>1, <2>2, <2>3, <2>4, <2>5, <2>6, <2>7, <2>8, <2>9, <2>10, <2>11, <2>12, <2>13, <2>14, <2>15, <2>16, <2>17 DEF SocketsNext, SocketStep, SenderStep, CallStep
<1>3. QED
  BY <1>1, <1>2, SocketsTypeCorrect, EndedClosed, NamedRegistered, PTL DEF SocketsSpec

(***************************************************************************)
(* Per socket, SendAsync calls do not overlap unless another connection's  *)
(* handler interfered (the condition of the comment at lines 33-36).       *)
(***************************************************************************)
THEOREM SendsAreSerialised == SocketsSpec => []SendsSerialised
<1>1. SocketsInit => SendsSerialised
  BY SocketsAssumption, IdleSenderTyped DEF SocketsInit, SendsSerialised
<1>2. SocketsTypeOK /\ SemaphoreExclusive /\ SemaphoreIsCurrent /\ SendsSerialised /\ [SocketsNext]_socketVars => SendsSerialised'
  <2> SUFFICES ASSUME SocketsTypeOK, SemaphoreExclusive, SemaphoreIsCurrent, SendsSerialised, [SocketsNext]_socketVars PROVE SendsSerialised'
    OBVIOUS
  <2> USE SocketsAssumption, IdleSenderTyped DEF SocketsTypeOK, SenderTyped, SendsSerialised
  <2>1. ASSUME NEW s \in Sockets, Accept(s) PROVE SendsSerialised'
    BY <2>1 DEF Accept, Goto, senderVars, callVars
  <2>2. ASSUME NEW s \in Sockets, CloseOld(s) PROVE SendsSerialised'
    BY <2>2 DEF CloseOld, Goto, senderVars, callVars
  <2>3. ASSUME NEW s \in Sockets, Register(s) PROVE SendsSerialised'
    BY <2>3 DEF Register, Goto, senderVars, callVars
  <2>4. ASSUME NEW s \in Sockets, SocketEnds(s) PROVE SendsSerialised'
    BY <2>4 DEF SocketEnds, senderVars, callVars
  <2>5. ASSUME NEW s \in Sockets, ReceiveCall(s) PROVE SendsSerialised'
    BY <2>5 DEF ReceiveCall, FreshChain, connVars, senderVars
  <2>6. ASSUME NEW s \in Sockets, LeaveLoop(s) PROVE SendsSerialised'
    BY <2>6 DEF LeaveLoop, Goto, senderVars, callVars
  <2>7. ASSUME NEW s \in Sockets, CheckOwner(s) PROVE SendsSerialised'
    BY <2>7 DEF CheckOwner, Goto, senderVars, callVars
  <2>8. ASSUME NEW s \in Sockets, RemoveActive(s) PROVE SendsSerialised'
    BY <2>8 DEF RemoveActive, Goto, Disturb, senderVars, callVars
  <2>9. ASSUME NEW s \in Sockets, MarkOffline(s) PROVE SendsSerialised'
    BY <2>9 DEF MarkOffline, Goto, Disturb, senderVars, callVars
  <2>10. ASSUME NEW s \in Sockets, DropEntries(s) PROVE SendsSerialised'
    BY <2>10 DEF DropEntries, Goto, Disturb, senderVars, callVars
  <2>11. ASSUME NEW p \in Senders, PickSocket(p) PROVE SendsSerialised'
    BY <2>11 DEF PickSocket, SenderAt, connVars, callVars
  <2>12. ASSUME NEW p \in Senders, GetLock(p) PROVE SendsSerialised'
    BY <2>12 DEF GetLock, SenderAt, FreshLock, connVars, callVars
  <2>13. ASSUME NEW p \in Senders, AcquireLock(p) PROVE SendsSerialised'
    <3>1. CASE isOpen[sender[p].socket]
      <4>1. \A q \in Senders \ {p} :
              sender[q].pc = "sending" /\ sender[q].socket = sender[p].socket
                => sender[p].socket \in disturbed
        BY <2>13, <3>1 DEF AcquireLock, SemaphoreExclusive, SemaphoreIsCurrent
      <4>2. /\ \A q \in Senders \ {p} : sender'[q] = sender[q]
            /\ sender'[p].socket = sender[p].socket
        BY <2>13, <3>1 DEF AcquireLock, SenderAt, SenderState
      <4>3. disturbed' = disturbed
        BY <2>13 DEF AcquireLock, connVars
      <4>4. QED
        BY <4>1, <4>2, <4>3
    <3>2. CASE ~isOpen[sender[p].socket]
      BY <2>13, <3>2 DEF AcquireLock, SenderAt, connVars, callVars
    <3>3. QED
      BY <3>1, <3>2
  <2>14. ASSUME NEW p \in Senders, FinishSend(p) PROVE SendsSerialised'
    BY <2>14 DEF FinishSend, SenderAt, IdleSender, connVars, callVars
  <2>15. ASSUME NEW c \in calls, StartCall(c) PROVE SendsSerialised'
    BY <2>15 DEF StartCall, Runnable, connVars, senderVars
  <2>16. ASSUME NEW c \in calls, FinishCall(c) PROVE SendsSerialised'
    BY <2>16 DEF FinishCall, senderVars
  <2>17. CASE UNCHANGED socketVars
    BY <2>17 DEF socketVars
  <2>18. QED
    BY <2>1, <2>2, <2>3, <2>4, <2>5, <2>6, <2>7, <2>8, <2>9, <2>10, <2>11, <2>12, <2>13, <2>14, <2>15, <2>16, <2>17 DEF SocketsNext, SocketStep, SenderStep, CallStep
<1>3. QED
  BY <1>1, <1>2, SocketsTypeCorrect, Exclusive, SemaphoreCurrent, PTL DEF SocketsSpec

(***************************************************************************)
(* The pending CALLs of an undisturbed connection share one chain.         *)
(***************************************************************************)
THEOREM ChainCurrent == SocketsSpec => []ChainIsCurrent
<1>1. SocketsInit => ChainIsCurrent
  BY SocketsAssumption, IdleSenderTyped DEF SocketsInit, ChainIsCurrent, NamedWasRegistered, WasRegistered, Registered, Cleaning
<1>2. SocketsTypeOK /\ NamedWasRegistered /\ ChainIsCurrent /\ [SocketsNext]_socketVars => ChainIsCurrent'
  <2> SUFFICES ASSUME SocketsTypeOK, NamedWasRegistered, ChainIsCurrent, [SocketsNext]_socketVars PROVE ChainIsCurrent'
    OBVIOUS
  <2> USE SocketsAssumption, IdleSenderTyped DEF SocketsTypeOK, SenderTyped, ChainIsCurrent, NamedWasRegistered, WasRegistered, Registered, Cleaning
  <2>1. ASSUME NEW s \in Sockets, Accept(s) PROVE ChainIsCurrent'
    BY <2>1 DEF Accept, Goto, senderVars, callVars
  <2>2. ASSUME NEW s \in Sockets, CloseOld(s) PROVE ChainIsCurrent'
    BY <2>2 DEF CloseOld, Goto, senderVars, callVars
  <2>3. ASSUME NEW s \in Sockets, Register(s) PROVE ChainIsCurrent'
    BY <2>3 DEF Register, Goto, senderVars, callVars
  <2>4. ASSUME NEW s \in Sockets, SocketEnds(s) PROVE ChainIsCurrent'
    BY <2>4 DEF SocketEnds, senderVars, callVars
  <2>5. ASSUME NEW s \in Sockets, ReceiveCall(s) PROVE ChainIsCurrent'
    <3>1. PICK chain \in Chains :
            /\ callChain = NoChain \/ callChain = chain
            /\ callChain' = chain
            /\ calls' = calls \cup {[n |-> received + 1, socket |-> s,
                                      chain |-> chain, running |-> FALSE]}
      BY <2>5 DEF ReceiveCall, FreshChain
    <3> DEFINE e == [n |-> received + 1, socket |-> s, chain |-> chain, running |-> FALSE]
    <3>2. e.n = received + 1 /\ e.socket = s /\ e.chain = chain /\ ~e.running
      OBVIOUS
    <3>3. calls' = calls \cup {e}
      BY <3>1
    <3> HIDE DEF e
    <3>4. QED
      BY <2>5, <3>1, <3>2, <3>3 DEF ReceiveCall, connVars, senderVars, SocketCall
  <2>6. ASSUME NEW s \in Sockets, LeaveLoop(s) PROVE ChainIsCurrent'
    BY <2>6 DEF LeaveLoop, Goto, senderVars, callVars
  <2>7. ASSUME NEW s \in Sockets, CheckOwner(s) PROVE ChainIsCurrent'
    BY <2>7 DEF CheckOwner, Goto, senderVars, callVars
  <2>8. ASSUME NEW s \in Sockets, RemoveActive(s) PROVE ChainIsCurrent'
    BY <2>8 DEF RemoveActive, Goto, Disturb, senderVars, callVars
  <2>9. ASSUME NEW s \in Sockets, MarkOffline(s) PROVE ChainIsCurrent'
    BY <2>9 DEF MarkOffline, Goto, Disturb, senderVars, callVars
  <2>10. ASSUME NEW s \in Sockets, DropEntries(s) PROVE ChainIsCurrent'
    BY <2>10 DEF SocketCall, DropEntries, Goto, Disturb, senderVars, callVars
  <2>11. ASSUME NEW p \in Senders, PickSocket(p) PROVE ChainIsCurrent'
    BY <2>11 DEF PickSocket, SenderAt, connVars, callVars
  <2>12. ASSUME NEW p \in Senders, GetLock(p) PROVE ChainIsCurrent'
    BY <2>12 DEF GetLock, SenderAt, FreshLock, connVars, callVars
  <2>13. ASSUME NEW p \in Senders, AcquireLock(p) PROVE ChainIsCurrent'
    BY <2>13 DEF AcquireLock, SenderAt, IdleSender, connVars, callVars
  <2>14. ASSUME NEW p \in Senders, FinishSend(p) PROVE ChainIsCurrent'
    BY <2>14 DEF FinishSend, SenderAt, IdleSender, connVars, callVars
  <2>15. ASSUME NEW c \in calls, StartCall(c) PROVE ChainIsCurrent'
    <3> DEFINE e == [c EXCEPT !.running = TRUE]
    <3>1. e.n = c.n /\ e.socket = c.socket /\ e.chain = c.chain /\ e.running
      BY DEF SocketCall
    <3>2. calls' = (calls \ {c}) \cup {e}
      BY <2>15 DEF StartCall
    <3> HIDE DEF e
    <3>3. QED
      BY <2>15, <3>1, <3>2 DEF StartCall, Runnable, connVars, senderVars
  <2>16. ASSUME NEW c \in calls, FinishCall(c) PROVE ChainIsCurrent'
    BY <2>16 DEF FinishCall, senderVars
  <2>17. CASE UNCHANGED socketVars
    BY <2>17 DEF socketVars
  <2>18. QED
    BY <2>1, <2>2, <2>3, <2>4, <2>5, <2>6, <2>7, <2>8, <2>9, <2>10, <2>11, <2>12, <2>13, <2>14, <2>15, <2>16, <2>17 DEF SocketsNext, SocketStep, SenderStep, CallStep
<1>3. QED
  BY <1>1, <1>2, SocketsTypeCorrect, NamedRegistered, PTL DEF SocketsSpec

(***************************************************************************)
(* The running handler of a chain is the oldest pending one.               *)
(***************************************************************************)
THEOREM ChainSerial == SocketsSpec => []ChainIsSerial
<1>1. SocketsInit => ChainIsSerial
  BY SocketsAssumption, IdleSenderTyped DEF SocketsInit, ChainIsSerial
<1>2. SocketsTypeOK /\ ChainIsSerial /\ [SocketsNext]_socketVars => ChainIsSerial'
  <2> SUFFICES ASSUME SocketsTypeOK, ChainIsSerial, [SocketsNext]_socketVars PROVE ChainIsSerial'
    OBVIOUS
  <2> USE SocketsAssumption, IdleSenderTyped DEF SocketsTypeOK, SenderTyped, ChainIsSerial
  <2>1. ASSUME NEW s \in Sockets, Accept(s) PROVE ChainIsSerial'
    BY <2>1 DEF Accept, Goto, senderVars, callVars
  <2>2. ASSUME NEW s \in Sockets, CloseOld(s) PROVE ChainIsSerial'
    BY <2>2 DEF CloseOld, Goto, senderVars, callVars
  <2>3. ASSUME NEW s \in Sockets, Register(s) PROVE ChainIsSerial'
    BY <2>3 DEF Register, Goto, senderVars, callVars
  <2>4. ASSUME NEW s \in Sockets, SocketEnds(s) PROVE ChainIsSerial'
    BY <2>4 DEF SocketEnds, senderVars, callVars
  <2>5. ASSUME NEW s \in Sockets, ReceiveCall(s) PROVE ChainIsSerial'
    <3>1. PICK chain \in Chains :
            /\ callChain = NoChain \/ callChain = chain
            /\ callChain' = chain
            /\ calls' = calls \cup {[n |-> received + 1, socket |-> s,
                                      chain |-> chain, running |-> FALSE]}
      BY <2>5 DEF ReceiveCall, FreshChain
    <3> DEFINE e == [n |-> received + 1, socket |-> s, chain |-> chain, running |-> FALSE]
    <3>2. e.n = received + 1 /\ e.socket = s /\ e.chain = chain /\ ~e.running
      OBVIOUS
    <3>3. calls' = calls \cup {e}
      BY <3>1
    <3> HIDE DEF e
    <3>4. QED
      BY <2>5, <3>1, <3>2, <3>3 DEF ReceiveCall, connVars, senderVars, SocketCall
  <2>6. ASSUME NEW s \in Sockets, LeaveLoop(s) PROVE ChainIsSerial'
    BY <2>6 DEF LeaveLoop, Goto, senderVars, callVars
  <2>7. ASSUME NEW s \in Sockets, CheckOwner(s) PROVE ChainIsSerial'
    BY <2>7 DEF CheckOwner, Goto, senderVars, callVars
  <2>8. ASSUME NEW s \in Sockets, RemoveActive(s) PROVE ChainIsSerial'
    BY <2>8 DEF RemoveActive, Goto, Disturb, senderVars, callVars
  <2>9. ASSUME NEW s \in Sockets, MarkOffline(s) PROVE ChainIsSerial'
    BY <2>9 DEF MarkOffline, Goto, Disturb, senderVars, callVars
  <2>10. ASSUME NEW s \in Sockets, DropEntries(s) PROVE ChainIsSerial'
    BY <2>10 DEF DropEntries, Goto, Disturb, senderVars, callVars
  <2>11. ASSUME NEW p \in Senders, PickSocket(p) PROVE ChainIsSerial'
    BY <2>11 DEF PickSocket, SenderAt, connVars, callVars
  <2>12. ASSUME NEW p \in Senders, GetLock(p) PROVE ChainIsSerial'
    BY <2>12 DEF GetLock, SenderAt, FreshLock, connVars, callVars
  <2>13. ASSUME NEW p \in Senders, AcquireLock(p) PROVE ChainIsSerial'
    BY <2>13 DEF AcquireLock, SenderAt, IdleSender, connVars, callVars
  <2>14. ASSUME NEW p \in Senders, FinishSend(p) PROVE ChainIsSerial'
    BY <2>14 DEF FinishSend, SenderAt, IdleSender, connVars, callVars
  <2>15. ASSUME NEW c \in calls, StartCall(c) PROVE ChainIsSerial'
    <3> DEFINE e == [c EXCEPT !.running = TRUE]
    <3>1. e.n = c.n /\ e.socket = c.socket /\ e.chain = c.chain /\ e.running
      BY DEF SocketCall
    <3>2. calls' = (calls \ {c}) \cup {e}
      BY <2>15 DEF StartCall
    <3> HIDE DEF e
    <3>3. QED
      BY <2>15, <3>1, <3>2 DEF StartCall, Runnable, connVars, senderVars
  <2>16. ASSUME NEW c \in calls, FinishCall(c) PROVE ChainIsSerial'
    BY <2>16 DEF FinishCall, senderVars
  <2>17. CASE UNCHANGED socketVars
    BY <2>17 DEF socketVars
  <2>18. QED
    BY <2>1, <2>2, <2>3, <2>4, <2>5, <2>6, <2>7, <2>8, <2>9, <2>10, <2>11, <2>12, <2>13, <2>14, <2>15, <2>16, <2>17 DEF SocketsNext, SocketStep, SenderStep, CallStep
<1>3. QED
  BY <1>1, <1>2, SocketsTypeCorrect, PTL DEF SocketsSpec

(***************************************************************************)
(* The handlers of one connection run one at a time in arrival order unless*)
(* another connection's handler interfered (lines 38-40).                  *)
(***************************************************************************)
THEOREM HandlersAreOrdered == SocketsSpec => []HandlersInArrivalOrder
<1>1. SocketsTypeOK /\ ChainIsCurrent /\ ChainIsSerial => HandlersInArrivalOrder
  BY DEF SocketsTypeOK, SocketCall, ChainIsCurrent, ChainIsSerial, HandlersInArrivalOrder
<1>2. QED
  BY <1>1, SocketsTypeCorrect, ChainCurrent, ChainSerial, PTL

(***************************************************************************)
(* An undisturbed connection in its receive loop is shown as connected.    *)
(***************************************************************************)
THEOREM Online == SocketsSpec => []ConnectedIsOnline
<1>1. SocketsInit => ConnectedIsOnline
  BY SocketsAssumption, IdleSenderTyped DEF SocketsInit, ConnectedIsOnline, Registered, Cleaning
<1>2. SocketsTypeOK /\ ConnectedIsOnline /\ [SocketsNext]_socketVars => ConnectedIsOnline'
  <2> SUFFICES ASSUME SocketsTypeOK, ConnectedIsOnline, [SocketsNext]_socketVars PROVE ConnectedIsOnline'
    OBVIOUS
  <2> USE SocketsAssumption, IdleSenderTyped DEF SocketsTypeOK, SenderTyped, ConnectedIsOnline, Registered, Cleaning
  <2>1. ASSUME NEW s \in Sockets, Accept(s) PROVE ConnectedIsOnline'
    BY <2>1 DEF Accept, Goto, senderVars, callVars
  <2>2. ASSUME NEW s \in Sockets, CloseOld(s) PROVE ConnectedIsOnline'
    BY <2>2 DEF CloseOld, Goto, senderVars, callVars
  <2>3. ASSUME NEW s \in Sockets, Register(s) PROVE ConnectedIsOnline'
    BY <2>3 DEF Register, Goto, senderVars, callVars
  <2>4. ASSUME NEW s \in Sockets, SocketEnds(s) PROVE ConnectedIsOnline'
    BY <2>4 DEF SocketEnds, senderVars, callVars
  <2>5. ASSUME NEW s \in Sockets, ReceiveCall(s) PROVE ConnectedIsOnline'
    BY <2>5 DEF ReceiveCall, FreshChain, connVars, senderVars
  <2>6. ASSUME NEW s \in Sockets, LeaveLoop(s) PROVE ConnectedIsOnline'
    BY <2>6 DEF LeaveLoop, Goto, senderVars, callVars
  <2>7. ASSUME NEW s \in Sockets, CheckOwner(s) PROVE ConnectedIsOnline'
    BY <2>7 DEF CheckOwner, Goto, senderVars, callVars
  <2>8. ASSUME NEW s \in Sockets, RemoveActive(s) PROVE ConnectedIsOnline'
    BY <2>8 DEF RemoveActive, Goto, Disturb, senderVars, callVars
  <2>9. ASSUME NEW s \in Sockets, MarkOffline(s) PROVE ConnectedIsOnline'
    BY <2>9 DEF MarkOffline, Goto, Disturb, senderVars, callVars
  <2>10. ASSUME NEW s \in Sockets, DropEntries(s) PROVE ConnectedIsOnline'
    BY <2>10 DEF DropEntries, Goto, Disturb, senderVars, callVars
  <2>11. ASSUME NEW p \in Senders, PickSocket(p) PROVE ConnectedIsOnline'
    BY <2>11 DEF PickSocket, SenderAt, connVars, callVars
  <2>12. ASSUME NEW p \in Senders, GetLock(p) PROVE ConnectedIsOnline'
    BY <2>12 DEF GetLock, SenderAt, FreshLock, connVars, callVars
  <2>13. ASSUME NEW p \in Senders, AcquireLock(p) PROVE ConnectedIsOnline'
    BY <2>13 DEF AcquireLock, SenderAt, IdleSender, connVars, callVars
  <2>14. ASSUME NEW p \in Senders, FinishSend(p) PROVE ConnectedIsOnline'
    BY <2>14 DEF FinishSend, SenderAt, IdleSender, connVars, callVars
  <2>15. ASSUME NEW c \in calls, StartCall(c) PROVE ConnectedIsOnline'
    BY <2>15 DEF StartCall, Runnable, connVars, senderVars
  <2>16. ASSUME NEW c \in calls, FinishCall(c) PROVE ConnectedIsOnline'
    <3>1. online => online'
      BY <2>16 DEF FinishCall
    <3>2. QED
      BY <2>16, <3>1 DEF FinishCall, senderVars
  <2>17. CASE UNCHANGED socketVars
    BY <2>17 DEF socketVars
  <2>18. QED
    BY <2>1, <2>2, <2>3, <2>4, <2>5, <2>6, <2>7, <2>8, <2>9, <2>10, <2>11, <2>12, <2>13, <2>14, <2>15, <2>16, <2>17 DEF SocketsNext, SocketStep, SenderStep, CallStep
<1>3. QED
  BY <1>1, <1>2, SocketsTypeCorrect, PTL DEF SocketsSpec

(***************************************************************************)
(* Who owns the connection: the dictionary, the handlers and those who     *)
(* replace a connection agree (HandleConnectionAsync).                     *)
(***************************************************************************)
THEOREM ConnectionsAreOwned == SocketsSpec => []ConnectionsOwned
  BY ActiveHasHandler, ReplacedOut, NoZombies, PTL DEF ConnectionsOwned

(***************************************************************************)
(* Transactions: whose they are, and what the rows say of the sessions     *)
(***************************************************************************)

\* The bounds are natural numbers.
LEMMA Bounds ==
  /\ MaxId \in Nat /\ MaxMeter \in Nat /\ MaxEpoch \in Nat
  /\ MaxQueue \in Nat /\ MaxRestarts \in Nat
BY ConstantsAssumption

\* Every reachable state is well typed.
THEOREM TypeCorrect == Spec => []TypeOK
<1> USE Bounds DEF Ids, Epochs, Meters
<1>1. Init => TypeOK
  <2> SUFFICES ASSUME Init PROVE TypeOK
    OBVIOUS
  <2>1. NoSession \in Session
    BY DEF NoSession, Session
  <2>2. queue \in [ChargePoints -> [Epochs -> Seq(Call)]]
    BY DEF Init, EmptyQueues
  <2>3. QED
    BY <2>1, <2>2 DEF Init, TypeOK
<1>2. TypeOK /\ [Next]_vars => TypeOK'
  <2> SUFFICES ASSUME TypeOK, [Next]_vars PROVE TypeOK'
    OBVIOUS
  <2> USE DEF TypeOK
  <2>1. ASSUME NEW cp \in ChargePoints, Plug(cp) PROVE TypeOK'
    <3>1. [phase |-> "starting", id |-> 0, start |-> meter[cp], stop |-> 0] \in Session
      BY DEF Session
    <3>2. session' \in [ChargePoints -> Session]
      BY <2>1, <3>1 DEF Plug
    <3>3. QED
      BY <2>1, <3>2 DEF Plug, ChargerOnly, serverVars
  <2>2. ASSUME NEW cp \in ChargePoints, Unplug(cp) PROVE TypeOK'
    <3>1. PICK m \in meter[cp]..MaxMeter :
            /\ meter' = [meter EXCEPT ![cp] = m]
            /\ session' = [session EXCEPT ![cp].phase = "stopping", ![cp].stop = m]
      BY <2>2 DEF Unplug
    <3> DEFINE s == [session[cp] EXCEPT !.phase = "stopping", !.stop = m]
    <3>2. m \in Meters
      BY <3>1
    <3>3. s \in Session
      <4> DEFINE old == session[cp]
      <4>1. old \in Session
        OBVIOUS
      <4> HIDE DEF old
      <4>2. [old EXCEPT !.phase = "stopping", !.stop = m] \in Session
        BY <3>2, <4>1 DEF Session
      <4>3. QED
        BY <4>2 DEF old
    <3>4. session' = [session EXCEPT ![cp] = s]
      BY <3>1
    <3> HIDE DEF s
    <3>5. session' \in [ChargePoints -> Session] /\ meter' \in [ChargePoints -> Meters]
      BY <3>1, <3>2, <3>3, <3>4
    <3>6. QED
      BY <2>2, <3>5 DEF Unplug, ChargerOnly, serverVars
  <2>3. ASSUME NEW cp \in ChargePoints, Send(cp) PROVE TypeOK'
    <3>1. session[cp] \in Session
      OBVIOUS
    <3>2. Due(cp) \in Call
      BY <3>1 DEF Due, Session, Call
    <3>3. ASSUME epoch[cp] \in Epochs
          PROVE  Append(queue[cp][epoch[cp]], Due(cp)) \in Seq(Call)
      BY <3>2, <3>3
    <3>4. queue' \in [ChargePoints -> [Epochs -> Seq(Call)]]
      BY <2>3, <3>3 DEF Send
    <3>5. QED
      BY <2>3, <3>4 DEF Send, chargerVars, historyVars
  <2>4. ASSUME NEW cp \in ChargePoints, NEW e \in Epochs PROVE
          /\ \A kind : Handle(cp, e, kind) =>
               /\ Head(queue[cp][e]) \in Call
               /\ queue' \in [ChargePoints -> [Epochs -> Seq(Call)]]
          /\ \A s \in Session : Answer(cp, e, s) =>
               session' \in [ChargePoints -> Session]
          /\ NoteLate(cp) => late' \subseteq ChargePoints
    <3>1. ASSUME queue[cp][e] # <<>>
          PROVE  Head(queue[cp][e]) \in Call /\ Tail(queue[cp][e]) \in Seq(Call)
      <4>1. queue[cp][e] \in Seq(Call)
        OBVIOUS
      <4>2. QED
        BY <3>1, <4>1
    <3>2. ASSUME NEW kind, Handle(cp, e, kind)
          PROVE  /\ Head(queue[cp][e]) \in Call
                 /\ queue' \in [ChargePoints -> [Epochs -> Seq(Call)]]
      BY <3>1, <3>2 DEF Handle
    <3>3. ASSUME NEW s \in Session, Answer(cp, e, s)
          PROVE  session' \in [ChargePoints -> Session]
      BY <3>3 DEF Answer
    <3>4. NoteLate(cp) => late' \subseteq ChargePoints
      BY DEF NoteLate
    <3>5. QED
      BY <3>2, <3>3, <3>4
  <2>5. ASSUME NEW cp \in ChargePoints, NEW e \in Epochs, StartTransaction(cp, e)
        PROVE  TypeOK'
    <3> DEFINE c == Head(queue[cp][e])
               id == counter + 1
               info == [cp |-> cp, start |-> c.meter, tag |-> "Card"]
               s == IF session[cp].phase # "starting" THEN session[cp]
                    ELSE [session[cp] EXCEPT !.phase = "charging", !.id = id]
    <3>1. c \in Call /\ queue' \in [ChargePoints -> [Epochs -> Seq(Call)]]
      BY <2>4, <2>5 DEF StartTransaction
    <3>2. id \in Ids /\ counter' = id
      BY <2>5 DEF StartTransaction
    <3>3. info \in Info
      BY <3>1 DEF Info, Call
    <3>4. session[cp] \in Session
      OBVIOUS
    <3>5. s \in Session
      <4> DEFINE old == session[cp]
      <4>1. old \in Session
        BY <3>4
      <4>2. id \in 0..MaxId
        BY <3>2
      <4> HIDE DEF old, id
      <4>3. [old EXCEPT !.phase = "charging", !.id = id] \in Session
        BY <4>1, <4>2 DEF Session
      <4>4. QED
        BY <4>1, <4>3 DEF old
    <3>6. session' \in [ChargePoints -> Session]
      BY <2>4, <2>5, <3>5 DEF StartTransaction
    <3>7. active' = [active EXCEPT ![id] = info]
      BY <2>5 DEF StartTransaction
    <3>8. late' \subseteq ChargePoints
      BY <2>4, <2>5 DEF StartTransaction
    <3>9. /\ cpTx' \in [ChargePoints -> 0..MaxId]
          /\ reissued' \subseteq issued' /\ issued' \subseteq Ids
      <4>1. /\ cpTx' = [cpTx EXCEPT ![cp] = id]
            /\ issued' = issued \cup {id}
            /\ reissued' = reissued \cup ({id} \cap issued)
        BY <2>5 DEF StartTransaction
      <4>2. id \in Ids /\ id \in 0..MaxId
        BY <3>2
      <4> HIDE DEF id
      <4>3. QED
        BY <4>1, <4>2
    <3> HIDE DEF id, c, info, s
    <3>10. active' \in [Ids -> Info \cup {None}]
      BY <3>3, <3>7
    <3>11. UNCHANGED <<link, epoch, bills, meter, restarts, interrupted>>
      BY <2>5 DEF StartTransaction
    <3>12. QED
      BY <3>1, <3>2, <3>6, <3>8, <3>9, <3>10, <3>11
  <2>6. ASSUME NEW cp \in ChargePoints, NEW e \in Epochs, StopTransaction(cp, e)
        PROVE  TypeOK'
    <3> DEFINE c == Head(queue[cp][e])
               info == active[c.id]
               row == [cp |-> info.cp, tag |-> info.tag,
                       kwh |-> IF c.meter < info.start THEN 0
                               ELSE c.meter - info.start]
               s == IF session[cp].phase = "stopping" /\ session[cp].id = c.id
                    THEN NoSession ELSE session[cp]
    <3>1. c \in Call /\ queue' \in [ChargePoints -> [Epochs -> Seq(Call)]]
      BY <2>4, <2>6 DEF StopTransaction
    <3>2. s \in Session
      BY DEF NoSession, Session
    <3>3. session' \in [ChargePoints -> Session] /\ late' \subseteq ChargePoints
      BY <2>4, <2>6, <3>2 DEF StopTransaction
    <3>4. ASSUME c.id \in Ids, info # None PROVE row \in Bill
      <4>1. info \in Info
        BY <3>4
      <4>2. c.meter \in Meters
        BY <3>1 DEF Call
      <4> HIDE DEF info, c
      <4>3. QED
        BY <4>1, <4>2 DEF Info, Bill
    <3>5. active' \in [Ids -> Info \cup {None}]
      BY <2>6 DEF StopTransaction, Close
    <3>6. bills' = IF info = None THEN bills ELSE [bills EXCEPT ![c.id] = row]
      BY <2>6 DEF StopTransaction, Close
    <3> HIDE DEF row, info, c, s
    <3>7. bills' \in [Ids -> Bill \cup {None}]
      BY <3>4, <3>6
    <3>8. cpTx' \in [ChargePoints -> 0..MaxId]
      BY <2>6 DEF StopTransaction, Unmap
    <3>9. /\ UNCHANGED <<link, epoch, counter, meter, restarts, issued, reissued>>
          /\ interrupted' \subseteq ChargePoints
      BY <2>6 DEF StopTransaction
    <3>10. QED
      BY <3>1, <3>3, <3>5, <3>7, <3>8, <3>9
  <2>7. ASSUME NEW cp \in ChargePoints, NEW e \in Epochs, MeterValues(cp, e)
        PROVE  TypeOK'
    <3> DEFINE c == Head(queue[cp][e])
               info == [cp |-> cp, start |-> 0, tag |-> "Recovered"]
    <3>1. c \in Call /\ queue' \in [ChargePoints -> [Epochs -> Seq(Call)]]
      BY <2>4, <2>7 DEF MeterValues
    <3>2. info \in Info
      BY DEF Info
    <3>3. active' \in {active, [active EXCEPT ![c.id] = info]}
      BY <2>7 DEF MeterValues
    <3>4. c.id \in 0..MaxId
      BY <3>1 DEF Call
    <3>5. cpTx' = [cpTx EXCEPT ![cp] = c.id] /\ late' \subseteq ChargePoints
      BY <2>4, <2>7 DEF MeterValues
    <3>6. UNCHANGED <<link, epoch, counter, bills, chargerVars, restarts, issued,
                      reissued, interrupted>>
      BY <2>7 DEF MeterValues
    <3> HIDE DEF c, info
    <3>7. QED
      BY <3>1, <3>2, <3>3, <3>4, <3>5, <3>6 DEF chargerVars
  <2>8. ASSUME NEW cp \in ChargePoints, Connect(cp) PROVE TypeOK'
    <3>1. link' \in [ChargePoints -> BOOLEAN] /\ epoch' \in [ChargePoints -> 0..MaxEpoch]
      BY <2>8 DEF Connect
    <3>2. QED
      BY <2>8, <3>1 DEF Connect, chargerVars, historyVars
  <2>9. ASSUME NEW cp \in ChargePoints, Disconnect(cp) PROVE TypeOK'
    <3>1. /\ link' \in [ChargePoints -> BOOLEAN]
          /\ active' \in [Ids -> Info \cup {None}]
          /\ cpTx' \in [ChargePoints -> 0..MaxId]
          /\ interrupted' \subseteq ChargePoints /\ late' \subseteq ChargePoints
      BY <2>9 DEF Disconnect, Purged, InSession
    <3>2. QED
      BY <2>9, <3>1 DEF Disconnect, chargerVars
  <2>10. CASE Restart
    <3>1. queue' \in [ChargePoints -> [Epochs -> Seq(Call)]]
      BY <2>10 DEF Restart, EmptyQueues
    <3>2. QED
      BY <2>10, <3>1 DEF Restart, InSession, chargerVars
  <2>11. CASE UNCHANGED vars
    BY <2>11 DEF vars
  <2>12. QED
    BY <2>1, <2>2, <2>3, <2>5, <2>6, <2>7, <2>8, <2>9, <2>10, <2>11
    DEF Next, ChargerStep, HandlerStep
<1>3. QED
  BY <1>1, <1>2, PTL DEF Spec

\* An entry of a charge point without a connection was added by a late CALL.
THEOREM Orphans == Spec => []OrphansAreLate
<1>1. Init => OrphansAreLate
  BY ConstantsAssumption DEF Init, OrphansAreLate, EmptyQueues, NoSession,
     Session
<1>2. TypeOK /\ OrphansAreLate /\ [Next]_vars => OrphansAreLate'
  <2> SUFFICES ASSUME TypeOK, OrphansAreLate, [Next]_vars PROVE OrphansAreLate'
    OBVIOUS
  <2> USE ConstantsAssumption DEF TypeOK, OrphansAreLate, Ids, Epochs, Info
  <2>1. ASSUME NEW cp \in ChargePoints, Plug(cp) PROVE OrphansAreLate'
    BY <2>1 DEF Plug, ChargerOnly, serverVars, chargerVars, historyVars
  <2>2. ASSUME NEW cp \in ChargePoints, Unplug(cp) PROVE OrphansAreLate'
    BY <2>2 DEF Unplug, ChargerOnly, serverVars, chargerVars, historyVars
  <2>3. ASSUME NEW cp \in ChargePoints, Send(cp) PROVE OrphansAreLate'
    BY <2>3 DEF Send, Due, serverVars, chargerVars, historyVars
  <2>4. ASSUME NEW cp \in ChargePoints, NEW e \in Epochs, StartTransaction(cp, e)
        PROVE  OrphansAreLate'
    BY <2>4 DEF StartTransaction, Handle, Answer, NoteLate, Current,
       serverVars, chargerVars, historyVars
  <2>5. ASSUME NEW cp \in ChargePoints, NEW e \in Epochs, StopTransaction(cp, e)
        PROVE  OrphansAreLate'
    BY <2>5 DEF StopTransaction, Handle, Close, Unmap, Answer, NoteLate,
       Current, serverVars, chargerVars, historyVars
  <2>6. ASSUME NEW cp \in ChargePoints, NEW e \in Epochs, MeterValues(cp, e)
        PROVE  OrphansAreLate'
    BY <2>6 DEF MeterValues, Handle, NoteLate, Current, serverVars,
       chargerVars, historyVars
  <2>7. ASSUME NEW cp \in ChargePoints, Connect(cp) PROVE OrphansAreLate'
    BY <2>7 DEF Connect, serverVars, chargerVars, historyVars
  <2>8. ASSUME NEW cp \in ChargePoints, Disconnect(cp) PROVE OrphansAreLate'
    BY <2>8 DEF Disconnect, Purged, InSession, serverVars, chargerVars,
       historyVars
  <2>9. CASE Restart
    BY <2>9 DEF Restart, EmptyQueues, InSession, serverVars, chargerVars,
       historyVars
  <2>10. CASE UNCHANGED vars
    BY <2>10 DEF vars
  <2>11. QED
    BY <2>1, <2>2, <2>3, <2>4, <2>5, <2>6, <2>7, <2>8, <2>9, <2>10
       DEF Next, ChargerStep, HandlerStep
<1>3. QED
  BY TypeCorrect, <1>1, <1>2, PTL DEF Spec

\* Handling a CALL adds no pending id.
LEMMA HandleForgets ==
  ASSUME TypeOK, NEW cp \in ChargePoints, NEW e \in Epochs, NEW kind,
         Handle(cp, e, kind)
  PROVE  /\ \A o \in ChargePoints, id \in Ids : Pending(o, id)' => Pending(o, id)
         /\ Pending(cp, Head(queue[cp][e]).id)
         /\ Head(queue[cp][e]) \in Call
<1> DEFINE q == queue[cp][e]
<1>1. q \in Seq(Call) /\ q # <<>>
  BY DEF TypeOK, Handle
<1>2. /\ Len(q) \in Nat /\ Len(q) >= 1 /\ Head(q) = q[1]
      /\ Len(Tail(q)) = Len(q) - 1
      /\ \A i \in 1..Len(Tail(q)) : Tail(q)[i] = q[i + 1]
  <2> HIDE DEF q
  <2>1. QED
    BY <1>1
<1>3. queue' = [queue EXCEPT ![cp][e] = Tail(q)]
  BY DEF Handle
<1>4. ASSUME NEW o \in ChargePoints, NEW id \in Ids, Pending(o, id)'
      PROVE  Pending(o, id)
  <2>1. PICK f \in Epochs : \E i \in 1..Len(queue'[o][f]) : queue'[o][f][i].id = id
    BY <1>4 DEF Pending
  <2>2. PICK i \in 1..Len(queue'[o][f]) : queue'[o][f][i].id = id
    BY <2>1
  <2>3. CASE o = cp /\ f = e
    <3>1. queue'[o][f] = Tail(q)
      BY <1>3, <2>3 DEF TypeOK
    <3>2. i + 1 \in 1..Len(q) /\ q[i + 1].id = id
      <4> HIDE DEF q
      <4>1. QED
        BY <1>2, <2>2, <3>1
    <3>3. QED
      BY <2>3, <3>2 DEF Pending
  <2>4. CASE ~(o = cp /\ f = e)
    <3>1. queue'[o][f] = queue[o][f]
      BY <1>3, <2>4 DEF TypeOK
    <3>2. QED
      BY <2>2, <3>1 DEF Pending
  <2>5. QED
    BY <2>3, <2>4
<1>5. Pending(cp, Head(queue[cp][e]).id)
  <2>1. 1 \in 1..Len(q)
    <3> HIDE DEF q
    <3>1. QED
      BY <1>2
  <2>2. QED
    BY <1>2, <2>1 DEF Pending
<1>6. QED
  BY <1>1, <1>4, <1>5

\* Sending a CALL makes no id pending but the session's.
LEMMA SendKnows ==
  ASSUME TypeOK, NEW cp \in ChargePoints, Send(cp),
         NEW o \in ChargePoints, NEW id \in Ids, Pending(o, id)'
  PROVE  Pending(o, id) \/ (o = cp /\ id = session[cp].id)
<1>1. queue' = [queue EXCEPT ![cp][epoch[cp]] = Append(@, Due(cp))]
  BY DEF Send
<1>2. PICK f \in Epochs : \E i \in 1..Len(queue'[o][f]) : queue'[o][f][i].id = id
  BY DEF Pending
<1>3. PICK i \in 1..Len(queue'[o][f]) : queue'[o][f][i].id = id
  BY <1>2
<1>4. CASE o = cp /\ f = epoch[cp]
  <2> DEFINE q == queue[cp][f]
  <2>1. queue'[o][f] = Append(q, Due(cp)) /\ q \in Seq(Call)
    BY <1>1, <1>4 DEF TypeOK
  <2>2. i \in 1..Len(q) + 1
    <3> HIDE DEF q
    <3>1. QED
      BY <1>3, <2>1
  <2>3. CASE i \in 1..Len(q)
    <3>1. queue'[o][f][i] = q[i]
      <4> HIDE DEF q
      <4>1. QED
        BY <2>1, <2>3
    <3>2. QED
      BY <1>3, <1>4, <2>3, <3>1 DEF Pending
  <2>4. CASE i = Len(q) + 1
    <3>1. queue'[o][f][i] = Due(cp)
      <4> HIDE DEF q
      <4>1. QED
        BY <2>1, <2>4
    <3>2. Due(cp).id = session[cp].id
      BY DEF Due
    <3>3. QED
      BY <1>3, <1>4, <3>1, <3>2
  <2>5. Len(q) \in Nat
    <3> HIDE DEF q
    <3>1. QED
      BY <2>1
  <2>6. QED
    BY <2>2, <2>3, <2>4, <2>5
<1>5. CASE ~(o = cp /\ f = epoch[cp])
  <2>1. queue'[o][f] = queue[o][f]
    BY <1>1, <1>5 DEF TypeOK
  <2>2. QED
    BY <1>3, <2>1 DEF Pending
<1>6. QED
  BY <1>4, <1>5

\* An id handed out once belongs to one charge point.
THEOREM Owner == Spec => []OneOwner
<1>1. Init => OneOwner
  <2> SUFFICES ASSUME Init, NEW id \in Ids, NEW cp \in ChargePoints
               PROVE  ~Knows(cp, id)
    BY DEF OneOwner
  <2>1. ~Pending(cp, id)
    BY DEF Init, EmptyQueues, Pending
  <2>2. QED
    BY <2>1, Bounds DEF Init, Knows, NoSession, Ids
<1>2. TypeOK /\ OneOwner /\ [Next]_vars => OneOwner'
  <2> SUFFICES ASSUME TypeOK, OneOwner, [Next]_vars PROVE OneOwner'
    OBVIOUS
  <2> USE ConstantsAssumption, Bounds DEF Ids
  <2>1. ASSUME issued' = issued, reissued' = reissued,
               \A o \in ChargePoints, id \in Ids : Knows(o, id)' => Knows(o, id)
        PROVE  OneOwner'
    BY <2>1 DEF OneOwner
  <2>2. ASSUME UNCHANGED queue, NEW o \in ChargePoints, NEW id \in Ids
        PROVE  Pending(o, id)' <=> Pending(o, id)
    BY <2>2 DEF Pending
  <2> USE DEF TypeOK, Info
  <2>3. ASSUME NEW cp \in ChargePoints, Plug(cp) PROVE OneOwner'
    BY <2>1, <2>2, <2>3 DEF Plug, ChargerOnly, serverVars, Knows
  <2>4. ASSUME NEW cp \in ChargePoints, Unplug(cp) PROVE OneOwner'
    <3>1. \A o \in ChargePoints : session'[o].id = session[o].id
      BY <2>4 DEF Unplug, Session
    <3>2. QED
      BY <2>1, <2>2, <2>4, <3>1 DEF Unplug, ChargerOnly, serverVars, Knows
  <2>5. ASSUME NEW cp \in ChargePoints, Send(cp) PROVE OneOwner'
    <3>1. \A o \in ChargePoints, id \in Ids :
            Pending(o, id)' => Pending(o, id) \/ (o = cp /\ id = session[cp].id)
      BY <2>5, SendKnows
    <3>2. UNCHANGED <<active, cpTx, session, issued, reissued>>
      BY <2>5 DEF Send, chargerVars, historyVars
    <3>3. QED
      BY <2>1, <3>1, <3>2 DEF Knows
  <2>6. ASSUME NEW cp \in ChargePoints, NEW e \in Epochs, StartTransaction(cp, e)
        PROVE  OneOwner'
    <3> DEFINE new == counter + 1
    <3>1. \A o \in ChargePoints, id \in Ids : Pending(o, id)' => Pending(o, id)
      BY <2>6, HandleForgets DEF StartTransaction
    <3>2. ASSUME NEW o \in ChargePoints, NEW id \in Ids, Knows(o, id)'
          PROVE  Knows(o, id) \/ (o = cp /\ id = new)
      <4>1. session'[o].id = id => Knows(o, id) \/ (o = cp /\ id = new)
        <5>1. session[cp] \in Session
          OBVIOUS
        <5> DEFINE s == IF session[cp].phase # "starting" THEN session[cp]
                        ELSE [session[cp] EXCEPT !.phase = "charging", !.id = new]
        <5>2. session' \in {session, [session EXCEPT ![cp] = s]}
          BY <2>6 DEF StartTransaction, Answer
        <5>3. s.id \in {session[cp].id, new}
          <6> HIDE DEF new
          <6>1. QED
            BY <5>1 DEF Session
        <5> HIDE DEF s, new
        <5>4. QED
          BY <5>2, <5>3 DEF Knows
      <4>2. cpTx'[o] = id => Knows(o, id) \/ (o = cp /\ id = new)
        BY <2>6 DEF StartTransaction, Knows
      <4>3. active'[id] # None /\ active'[id].cp = o
              => Knows(o, id) \/ (o = cp /\ id = new)
        BY <2>6 DEF StartTransaction, Knows
      <4>4. QED
        BY <3>1, <3>2, <4>1, <4>2, <4>3 DEF Knows
    <3>3. /\ issued' = issued \cup {new}
          /\ reissued' = reissued \cup ({new} \cap issued)
      BY <2>6 DEF StartTransaction
    <3> HIDE DEF new
    <3>4. QED
      BY <3>2, <3>3 DEF OneOwner
  <2>7. ASSUME NEW cp \in ChargePoints, NEW e \in Epochs, StopTransaction(cp, e)
        PROVE  OneOwner'
    <3>1. \A o \in ChargePoints, id \in Ids : Pending(o, id)' => Pending(o, id)
      BY <2>7, HandleForgets DEF StopTransaction
    <3>2. \A o \in ChargePoints : session'[o].id \in {0, session[o].id}
      BY <2>7 DEF StopTransaction, Answer, NoSession, Session
    <3>3. \A o \in ChargePoints : cpTx'[o] \in {0, cpTx[o]}
      BY <2>7 DEF StopTransaction, Unmap
    <3>4. \A id \in Ids : active'[id] \in {None, active[id]}
      BY <2>7 DEF StopTransaction, Close
    <3>5. issued' = issued /\ reissued' = reissued
      BY <2>7 DEF StopTransaction
    <3>6. QED
      BY <2>1, <3>1, <3>2, <3>3, <3>4, <3>5 DEF Knows
  <2>8. ASSUME NEW cp \in ChargePoints, NEW e \in Epochs, MeterValues(cp, e)
        PROVE  OneOwner'
    <3> DEFINE known == Head(queue[cp][e]).id
    <3>1. /\ \A o \in ChargePoints, id \in Ids : Pending(o, id)' => Pending(o, id)
          /\ Pending(cp, known)
      BY <2>8, HandleForgets DEF MeterValues
    <3>2. \A o \in ChargePoints : cpTx'[o] = cpTx[o] \/ (o = cp /\ cpTx'[o] = known)
      BY <2>8 DEF MeterValues
    <3>3. \A id \in Ids :
            active'[id] = active[id] \/ (id = known /\ active'[id].cp = cp)
      BY <2>8 DEF MeterValues
    <3>4. issued' = issued /\ reissued' = reissued /\ session' = session
      BY <2>8 DEF MeterValues, chargerVars
    <3> HIDE DEF known
    <3>5. QED
      BY <2>1, <3>1, <3>2, <3>3, <3>4 DEF Knows
  <2>9. ASSUME NEW cp \in ChargePoints, Connect(cp) PROVE OneOwner'
    BY <2>1, <2>2, <2>9 DEF Connect, chargerVars, historyVars, Knows
  <2>10. ASSUME NEW cp \in ChargePoints, Disconnect(cp) PROVE OneOwner'
    BY <2>1, <2>2, <2>10 DEF Disconnect, Purged, chargerVars, Knows
  <2>11. CASE Restart
    <3>1. \A o \in ChargePoints, id \in Ids : ~Pending(o, id)'
      BY <2>11 DEF Restart, EmptyQueues, Pending
    <3>2. QED
      BY <2>1, <2>11, <3>1 DEF Restart, chargerVars, Knows
  <2>12. CASE UNCHANGED vars
    BY <2>1, <2>2, <2>12 DEF vars, Knows
  <2>13. QED
    BY <2>3, <2>4, <2>5, <2>6, <2>7, <2>8, <2>9, <2>10, <2>11, <2>12
    DEF Next, ChargerStep, HandlerStep
<1>3. QED
  BY TypeCorrect, <1>1, <1>2, PTL DEF Spec

\* A mapped transaction is open and the charge point's own.
THEOREM MappedActive == Spec => []MappedIsActive
<1>1. Init => MappedIsActive
  BY ConstantsAssumption DEF Init, MappedIsActive, EmptyQueues, NoSession,
     Session
<1>2. TypeOK /\ OneOwner /\ MappedIsActive /\ [Next]_vars => MappedIsActive'
  <2> SUFFICES ASSUME TypeOK, OneOwner, MappedIsActive, [Next]_vars
        PROVE  MappedIsActive'
    OBVIOUS
  <2> USE Bounds, ConstantsAssumption DEF TypeOK, MappedIsActive, Ids, Epochs, Info
  <2>1. ASSUME NEW cp \in ChargePoints, Plug(cp) PROVE MappedIsActive'
    BY <2>1 DEF Plug, ChargerOnly, serverVars, chargerVars, historyVars
  <2>2. ASSUME NEW cp \in ChargePoints, Unplug(cp) PROVE MappedIsActive'
    BY <2>2 DEF Unplug, ChargerOnly, serverVars, chargerVars, historyVars
  <2>3. ASSUME NEW cp \in ChargePoints, Send(cp) PROVE MappedIsActive'
    BY <2>3 DEF Send, Due, serverVars, chargerVars, historyVars
  <2>4. ASSUME NEW cp \in ChargePoints, NEW e \in Epochs, StartTransaction(cp, e)
        PROVE  MappedIsActive'
    <3> DEFINE id == counter + 1
               info == [cp |-> cp, start |-> Head(queue[cp][e]).meter, tag |-> "Card"]
    <3>1. /\ id \in Ids /\ id # 0
          /\ cpTx' = [cpTx EXCEPT ![cp] = id]
          /\ active' = [active EXCEPT ![id] = info]
          /\ reissued' = reissued \cup ({id} \cap issued)
      BY <2>4 DEF StartTransaction
    <3>2. info.cp = cp /\ info # None
      <4>1. Head(queue[cp][e]) \in Call
        <5>1. queue[cp][e] \in Seq(Call) /\ queue[cp][e] # <<>>
          BY <2>4 DEF StartTransaction, Handle
        <5>2. QED
          BY <5>1
      <4>2. info \in Info
        BY <4>1 DEF Call
      <4>3. QED
        BY <4>2
    <3> HIDE DEF id, info
    <3>3. \A o \in ChargePoints : id \notin issued => cpTx[o] # id
      BY <3>1 DEF OneOwner, Knows
    <3>4. QED
      BY <3>1, <3>2, <3>3
  <2>5. ASSUME NEW cp \in ChargePoints, NEW e \in Epochs, StopTransaction(cp, e)
        PROVE  MappedIsActive'
    <3> DEFINE id == Head(queue[cp][e]).id
    <3>1. /\ cpTx' = [cpTx EXCEPT ![cp] = 0]
          /\ active' = [active EXCEPT ![id] = None]
          /\ reissued' = reissued
      BY <2>5 DEF StopTransaction, Close, Unmap
    <3>2. Knows(cp, id)
      BY <2>5, HandleForgets DEF StopTransaction, Knows
    <3> HIDE DEF id
    <3>3. ASSUME NEW o \in ChargePoints \ {cp}, id \in Ids \ reissued
          PROVE  cpTx[o] # id
      BY <3>2, <3>3 DEF OneOwner, Knows
    <3>4. QED
      BY <3>1, <3>3
  <2>6. ASSUME NEW cp \in ChargePoints, NEW e \in Epochs, MeterValues(cp, e)
        PROVE  MappedIsActive'
    <3> DEFINE id == Head(queue[cp][e]).id
    <3>1. /\ cpTx' = [cpTx EXCEPT ![cp] = id]
          /\ active' = IF cpTx[cp] # id /\ active[id] = None
                       THEN [active EXCEPT ![id] =
                              [cp |-> cp, start |-> 0, tag |-> "Recovered"]]
                       ELSE active
          /\ reissued' = reissued
      BY <2>6 DEF MeterValues
    <3>2. Knows(cp, id) /\ id \in 0..MaxId
      BY <2>6, HandleForgets DEF MeterValues, Knows, Call
    <3> HIDE DEF id
    <3>3. ASSUME id \in Ids \ reissued, active[id] # None
          PROVE  active[id].cp = cp
      <4>1. active[id].cp \in ChargePoints /\ Knows(active[id].cp, id)
        BY <3>3 DEF Knows
      <4>2. QED
        BY <3>2, <3>3, <4>1 DEF OneOwner
    <3>4. ASSUME id \in Ids \ reissued
          PROVE  active'[id] # None /\ active'[id].cp = cp
      <4>1. CASE cpTx[cp] = id
        <5>1. active' = active
          BY <3>1, <4>1
        <5>2. cpTx[cp] # 0 /\ cpTx[cp] \notin reissued
          BY <3>4, <4>1
        <5>3. active[id] # None /\ active[id].cp = cp
          BY <4>1, <5>2
        <5>4. QED
          BY <5>1, <5>3
      <4>2. CASE cpTx[cp] # id /\ active[id] # None
        BY <3>1, <3>3, <3>4, <4>2
      <4>3. CASE cpTx[cp] # id /\ active[id] = None
        <5>1. [cp |-> cp, start |-> 0, tag |-> "Recovered"] \in Info
          BY DEF Meters
        <5>2. QED
          BY <3>1, <3>4, <4>3, <5>1
      <4>4. QED
        BY <4>1, <4>2, <4>3
    <3>5. ASSUME NEW o \in ChargePoints \ {cp}, cpTx[o] \in Ids \ reissued
          PROVE  active'[cpTx[o]] = active[cpTx[o]]
      BY <3>1, <3>5
    <3>6. QED
      BY <3>1, <3>2, <3>4, <3>5
  <2>7. ASSUME NEW cp \in ChargePoints, Connect(cp) PROVE MappedIsActive'
    BY <2>7 DEF Connect, serverVars, chargerVars, historyVars
  <2>8. ASSUME NEW cp \in ChargePoints, Disconnect(cp) PROVE MappedIsActive'
    BY <2>8 DEF Disconnect, Purged, InSession, serverVars, chargerVars,
       historyVars
  <2>9. CASE Restart
    BY <2>9 DEF Restart, EmptyQueues, InSession, serverVars, chargerVars,
       historyVars
  <2>10. CASE UNCHANGED vars
    BY <2>10 DEF vars
  <2>11. QED
    BY <2>1, <2>2, <2>3, <2>4, <2>5, <2>6, <2>7, <2>8, <2>9, <2>10
       DEF Next, ChargerStep, HandlerStep
<1>3. QED
  BY TypeCorrect, Owner, <1>1, <1>2, PTL DEF Spec

(* Entries, mappings and ids of transactions belong to the charge points    *)
(* that have them (HandleStartTransaction, the purge, the recovery).        *)
THEOREM TransactionsAreOwned == Spec => []TransactionsOwned
  BY Owner, MappedActive, Orphans, PTL DEF TransactionsOwned

-----------------------------------------------------------------------------
(* The rows.  What a row says comes from the entry and from the CALL that   *)
(* closes it, neither of which the session is asked for, so the invariant   *)
(* relates the three: the CALLs of the current epoch come in the order of   *)
(* the session's phases, an entry that is the session's was opened with the *)
(* register the session began with, and a StopTransaction that could close  *)
(* an entry is the stopping session's own.                                  *)

\* The CALLs of q as a charge point in session s has sent them: none of the
\* StartTransactions waits behind a CALL that only a later phase sends.
InOrder(q, s) ==
  /\ s.phase = "idle" => \A i \in 1..Len(q) : q[i].kind # "Start"
  /\ s.phase = "starting" =>
       /\ \A i \in 1..Len(q) : q[i].kind = "Start" => q[i].meter = s.start
       /\ \A i, j \in 1..Len(q) : i < j /\ q[i].kind = "Start" => q[j].kind = "Start"
  /\ s.phase \in {"charging", "stopping"} =>
       \A i, j \in 1..Len(q) : i < j /\ q[j].kind = "Start" => q[i].kind = "Start"

CallsInOrder ==
  \A cp \in ChargePoints :
    /\ epoch[cp] \in Epochs => InOrder(queue[cp][epoch[cp]], session[cp])
    /\ \A e \in Epochs : e > epoch[cp] => queue[cp][e] = <<>>

PendingCall(cp, c) ==
  \E e \in Epochs : \E i \in 1..Len(queue[cp][e]) : queue[cp][e][i] = c

\* The register rises, and a session with a transaction has an id.
SessionsRise ==
  \A cp \in ChargePoints :
    LET s == session[cp] IN
    /\ s.phase # "idle" => s.start <= meter[cp]
    /\ s.phase = "stopping" => s.start <= s.stop
    /\ s.phase \in {"charging", "stopping"} => s.id # 0

EntryIsSession ==
  \A id \in Ids \ reissued :
    active[id] # None /\ active[id].tag = "Card"
      /\ session[active[id].cp].id = id
    => active[id].start = session[active[id].cp].start

StopIsSession ==
  \A cp \in ChargePoints, c \in Call :
    PendingCall(cp, c) /\ c.kind = "Stop" /\ c.id \in Ids \ reissued =>
      /\ active[c.id] # None /\ active[c.id].tag = "Card" /\ active[c.id].cp = cp =>
           /\ session[cp].phase = "stopping"
           /\ session[cp].id = c.id
           /\ session[cp].stop = c.meter
      /\ session[cp].id = c.id => session[cp].phase = "stopping"

\* What an uninterrupted session has of the server: its entry, and once the
\* entry is closed its row.
SessionIsKept ==
  \A cp \in ChargePoints \ interrupted :
    LET s == session[cp] IN
    s.phase \in {"charging", "stopping"} /\ s.id \notin reissued =>
      \/ active[s.id] # None /\ active[s.id].cp = cp
      \/ s.phase = "stopping" /\ bills[s.id] # None /\ bills[s.id].cp = cp

\* What is in order stays so when the first CALL is handled, when the session
\* begins with no StartTransaction pending, when it charges, stops and ends
\* because the first CALL made it, and when the CALL of the phase is sent.
LEMMA OrderKept ==
  ASSUME NEW q \in Seq(Call), NEW s \in Session, InOrder(q, s)
  PROVE  /\ q # <<>> => InOrder(Tail(q), s)
         /\ s.phase = "idle" =>
              \A t \in Session : t.phase = "starting" => InOrder(q, t)
         /\ s.phase = "charging" =>
              \A t \in Session : t.phase = "stopping" => InOrder(q, t)
         /\ s.phase = "starting" /\ q # <<>> /\ Head(q).kind = "Start" =>
              \A t \in Session : t.phase = "charging" => InOrder(Tail(q), t)
         /\ s.phase = "stopping" /\ q # <<>> /\ Head(q).kind = "Stop" =>
              InOrder(Tail(q), NoSession)
<1>1. /\ Len(q) \in Nat
      /\ q # <<>> =>
           /\ Len(q) >= 1 /\ Head(q) = q[1] /\ Tail(q) \in Seq(Call)
           /\ Len(Tail(q)) = Len(q) - 1
           /\ \A i \in 1..Len(Tail(q)) : Tail(q)[i] = q[i + 1]
  OBVIOUS
<1>2. ASSUME q # <<>> PROVE \A i \in 1..Len(Tail(q)) :
                              i + 1 \in 1..Len(q) /\ 1 < i + 1 /\ 1 \in 1..Len(q)
  BY <1>1, <1>2
<1>3. \A i, j \in Int : i < j => i + 1 < j + 1
  OBVIOUS
<1>4. \A i \in 1..Len(Tail(q)) : i \in Int
  OBVIOUS
<1>5. ASSUME q # <<>> PROVE InOrder(Tail(q), s)
  BY ONLY <1>1, <1>2, <1>3, <1>4, <1>5, InOrder(q, s) DEF InOrder
<1>6. ASSUME s.phase = "idle", NEW t \in Session, t.phase = "starting"
      PROVE  InOrder(q, t)
  BY <1>6 DEF InOrder
<1>7. ASSUME s.phase = "charging", NEW t \in Session, t.phase = "stopping"
      PROVE  InOrder(q, t)
  BY <1>7 DEF InOrder
<1>8. ASSUME s.phase = "starting", q # <<>>, Head(q).kind = "Start",
             NEW t \in Session, t.phase = "charging"
      PROVE  InOrder(Tail(q), t)
  <2>1. \A i \in 1..Len(Tail(q)) : Tail(q)[i].kind = "Start"
    BY ONLY <1>1, <1>2, <1>8, InOrder(q, s) DEF InOrder
  <2>2. QED
    BY ONLY <1>8, <2>1 DEF InOrder
<1>9. ASSUME s.phase = "stopping", q # <<>>, Head(q).kind = "Stop"
      PROVE  InOrder(Tail(q), NoSession)
  <2>1. \A i \in 1..Len(Tail(q)) : Tail(q)[i].kind # "Start"
    BY ONLY <1>1, <1>2, <1>9, InOrder(q, s) DEF InOrder
  <2>2. QED
    BY ONLY <2>1 DEF InOrder, NoSession
<1>10. QED
  BY <1>5, <1>6, <1>7, <1>8, <1>9

\* The CALL of the session's phase keeps the order.
LEMMA OrderSent ==
  ASSUME NEW q \in Seq(Call), NEW s \in Session, InOrder(q, s),
         NEW c \in Call, s.phase # "idle",
         c.kind = "Start" <=> s.phase = "starting",
         s.phase = "starting" => c.meter = s.start
  PROVE  InOrder(Append(q, c), s)
<1>1. /\ Len(q) \in Nat /\ Len(Append(q, c)) = Len(q) + 1
      /\ \A i \in 1..Len(q) : Append(q, c)[i] = q[i]
      /\ Append(q, c)[Len(q) + 1] = c
  OBVIOUS
<1>2. \A i \in 1..Len(q) + 1 : i \in 1..Len(q) \/ i = Len(q) + 1
  BY <1>1
<1>3. /\ \A i \in 1..Len(q) + 1, j \in 1..Len(q) : i < j => i \in 1..Len(q)
      /\ \A i, j \in 1..Len(q) + 1 : i < j => i # Len(q) + 1
  BY <1>1
<1>4. CASE s.phase = "starting"
  BY ONLY <1>1, <1>2, <1>3, <1>4, InOrder(q, s), c.kind = "Start", c.meter = s.start
  DEF InOrder
<1>5. CASE s.phase # "starting"
  BY ONLY <1>1, <1>2, <1>3, <1>5, InOrder(q, s), c.kind # "Start", s.phase # "idle"
  DEF InOrder
<1>6. QED
  BY <1>4, <1>5

\* What a handler does to the queues: the first CALL of one goes.
LEMMA HandleTakes ==
  ASSUME TypeOK, NEW cp \in ChargePoints, NEW e \in Epochs, NEW kind,
         Handle(cp, e, kind)
  PROVE  /\ queue[cp][e] \in Seq(Call) /\ queue[cp][e] # <<>>
         /\ Head(queue[cp][e]) \in Call /\ Head(queue[cp][e]).kind = kind
         /\ queue'[cp][e] = Tail(queue[cp][e])
         /\ \A o \in ChargePoints, f \in Epochs :
              ~(o = cp /\ f = e) => queue'[o][f] = queue[o][f]
         /\ PendingCall(cp, Head(queue[cp][e]))
         /\ \A o \in ChargePoints, c \in Call : PendingCall(o, c)' => PendingCall(o, c)
<1> DEFINE q == queue[cp][e]
<1>1. q \in Seq(Call) /\ q # <<>> /\ Head(q).kind = kind
  BY DEF TypeOK, Handle
<1>2. /\ Len(q) \in Nat /\ Len(q) >= 1 /\ Head(q) = q[1] /\ Head(q) \in Call
      /\ 1 \in 1..Len(q)
      /\ \A i \in 1..Len(Tail(q)) : i + 1 \in 1..Len(q) /\ Tail(q)[i] = q[i + 1]
  <2> HIDE DEF q
  <2>1. QED
    BY <1>1
<1>3. /\ queue'[cp][e] = Tail(q)
      /\ \A o \in ChargePoints, f \in Epochs :
           ~(o = cp /\ f = e) => queue'[o][f] = queue[o][f]
  BY DEF TypeOK, Handle
<1>4. PendingCall(cp, Head(q))
  BY <1>2 DEF PendingCall
<1>5. ASSUME NEW o \in ChargePoints, NEW c \in Call, PendingCall(o, c)'
      PROVE  PendingCall(o, c)
  <2>1. PICK f \in Epochs : \E i \in 1..Len(queue'[o][f]) : queue'[o][f][i] = c
    BY <1>5 DEF PendingCall
  <2>2. PICK i \in 1..Len(queue'[o][f]) : queue'[o][f][i] = c
    BY <2>1
  <2>3. CASE o = cp /\ f = e
    <3>1. i + 1 \in 1..Len(q) /\ q[i + 1] = c
      <4>1. queue'[o][f] = Tail(q)
        BY <1>3, <2>3
      <4>2. QED
        BY ONLY <1>2, <2>2, <4>1
    <3>2. QED
      BY <2>3, <3>1 DEF PendingCall
  <2>4. CASE ~(o = cp /\ f = e)
    <3>1. queue'[o][f] = queue[o][f]
      BY <1>3, <2>4
    <3>2. QED
      BY <2>2, <3>1 DEF PendingCall
  <2>5. QED
    BY <2>3, <2>4
<1>6. QED
  BY <1>1, <1>2, <1>3, <1>4, <1>5

\* What sending does to them: the CALL of the phase comes last in the queue
\* of the current epoch.
LEMMA SendPuts ==
  ASSUME TypeOK, NEW cp \in ChargePoints, Send(cp)
  PROVE  /\ Due(cp) \in Call
         /\ Due(cp).kind = "Start" <=> session[cp].phase = "starting"
         /\ Due(cp).kind = "Stop" => session[cp].phase = "stopping"
         /\ Due(cp).id = session[cp].id
         /\ Due(cp).meter =
              IF session[cp].phase = "starting" THEN session[cp].start
              ELSE session[cp].stop
         /\ \A o \in ChargePoints, f \in Epochs :
              queue'[o][f] = IF o = cp /\ f = epoch[cp]
                             THEN Append(queue[o][f], Due(cp)) ELSE queue[o][f]
         /\ \A o \in ChargePoints, c \in Call :
              PendingCall(o, c)' => PendingCall(o, c) \/ (o = cp /\ c = Due(cp))
         /\ UNCHANGED <<link, epoch, active, cpTx, counter, bills, meter,
                        session, restarts, issued, reissued, late, interrupted>>
<1>1. session[cp] \in Session /\ session[cp].phase # "idle"
  BY DEF TypeOK, Send
<1>2. /\ Due(cp) \in Call
      /\ Due(cp).kind = "Start" <=> session[cp].phase = "starting"
      /\ Due(cp).kind = "Stop" => session[cp].phase = "stopping"
      /\ Due(cp).id = session[cp].id
      /\ Due(cp).meter =
           IF session[cp].phase = "starting" THEN session[cp].start
           ELSE session[cp].stop
  BY <1>1 DEF Due, Session, Call
<1>3. \A o \in ChargePoints, f \in Epochs :
        queue'[o][f] = IF o = cp /\ f = epoch[cp]
                       THEN Append(queue[o][f], Due(cp)) ELSE queue[o][f]
  BY DEF TypeOK, Send
<1>4. ASSUME NEW o \in ChargePoints, NEW c \in Call, PendingCall(o, c)'
      PROVE  PendingCall(o, c) \/ (o = cp /\ c = Due(cp))
  <2>1. PICK f \in Epochs : \E i \in 1..Len(queue'[o][f]) : queue'[o][f][i] = c
    BY <1>4 DEF PendingCall
  <2>2. PICK i \in 1..Len(queue'[o][f]) : queue'[o][f][i] = c
    BY <2>1
  <2>3. CASE o = cp /\ f = epoch[cp]
    <3> DEFINE q == queue[o][f]
               d == Due(cp)
    <3>1. q \in Seq(Call) /\ d \in Call
      BY <1>2 DEF TypeOK
    <3>2. queue'[o][f] = Append(q, d)
      BY <1>3, <2>3
    <3>3. (i \in 1..Len(q) /\ q[i] = c) \/ c = d
      <4> HIDE DEF q, d
      <4>1. QED
        BY <2>2, <3>1, <3>2
    <3>4. QED
      BY <2>3, <3>3 DEF PendingCall
  <2>4. CASE ~(o = cp /\ f = epoch[cp])
    <3>1. queue'[o][f] = queue[o][f]
      BY <1>3, <2>4
    <3>2. QED
      BY <2>2, <3>1 DEF PendingCall
  <2>5. QED
    BY <2>3, <2>4
<1>5. UNCHANGED <<link, epoch, active, cpTx, counter, bills, meter,
                  session, restarts, issued, reissued, late, interrupted>>
  BY DEF Send, chargerVars, historyVars
<1>6. QED
  BY <1>2, <1>3, <1>4, <1>5

\* Pulling the plug ends a session of the same id and start.
LEMMA UnplugDoes ==
  ASSUME TypeOK, NEW cp \in ChargePoints, Unplug(cp)
  PROVE  /\ session' \in [ChargePoints -> Session]
         /\ session[cp].phase = "charging" /\ session'[cp].phase = "stopping"
         /\ session'[cp].id = session[cp].id
         /\ session'[cp].start = session[cp].start
         /\ session'[cp].stop = meter'[cp] /\ meter'[cp] >= meter[cp]
         /\ \A o \in ChargePoints :
              o # cp => session'[o] = session[o] /\ meter'[o] = meter[o]
         /\ UNCHANGED <<link, epoch, queue, active, cpTx, counter, bills,
                        restarts, issued, reissued, late, interrupted>>
<1>1. PICK m \in meter[cp]..MaxMeter :
        /\ meter' = [meter EXCEPT ![cp] = m]
        /\ session' = [session EXCEPT ![cp].phase = "stopping", ![cp].stop = m]
  BY DEF Unplug
<1> DEFINE old == session[cp]
           s == [old EXCEPT !.phase = "stopping", !.stop = m]
<1>2. old \in Session /\ old.phase = "charging" /\ meter[cp] \in Meters
  BY DEF TypeOK, Unplug
<1>3. m \in Meters /\ m >= meter[cp]
  BY <1>2, Bounds DEF Meters
<1>4. session' = [session EXCEPT ![cp] = s]
  BY <1>1
<1>5. /\ s \in Session /\ s.phase = "stopping" /\ s.id = old.id
      /\ s.start = old.start /\ s.stop = m
  <2> HIDE DEF old
  <2>1. QED
    BY <1>2, <1>3 DEF Session
<1>6. UNCHANGED <<link, epoch, queue, active, cpTx, counter, bills,
                  restarts, issued, reissued, late, interrupted>>
  BY DEF Unplug, ChargerOnly, serverVars
<1> HIDE DEF s
<1>7. QED
  BY <1>1, <1>2, <1>3, <1>4, <1>5, <1>6 DEF TypeOK

\* A pending CALL makes its charge point know its id.
LEMMA CallKnows ==
  ASSUME NEW cp \in ChargePoints, NEW c \in Call, PendingCall(cp, c)
  PROVE  Knows(cp, c.id)
BY DEF PendingCall, Pending, Knows

\* A StartTransaction opens an entry, and charges the session if its answer
\* arrives at a charge point that waits for it.
LEMMA StartDoes ==
  ASSUME TypeOK, NEW cp \in ChargePoints, NEW e \in Epochs,
         StartTransaction(cp, e)
  PROVE  \E c \in Call, id \in Ids :
           /\ c = Head(queue[cp][e]) /\ c.kind = "Start"
           /\ id # 0
           /\ active' = [active EXCEPT ![id] =
                [cp |-> cp, start |-> c.meter, tag |-> "Card"]]
           /\ reissued' = reissued \cup ({id} \cap issued)
           /\ \/ session' = session
              \/ /\ link[cp] /\ epoch[cp] = e /\ session[cp].phase = "starting"
                 /\ session' = [session EXCEPT ![cp] =
                      [session[cp] EXCEPT !.phase = "charging", !.id = id]]
           /\ UNCHANGED <<link, epoch, bills, meter, interrupted>>
<1> DEFINE c == Head(queue[cp][e])
           id == counter + 1
<1>1. c \in Call /\ c.kind = "Start"
  BY HandleTakes DEF StartTransaction
<1>2. id \in Ids /\ id # 0
  BY Bounds DEF StartTransaction, TypeOK, Ids
<1>3. /\ active' = [active EXCEPT ![id] =
           [cp |-> cp, start |-> c.meter, tag |-> "Card"]]
      /\ reissued' = reissued \cup ({id} \cap issued)
      /\ UNCHANGED <<link, epoch, bills, meter, interrupted>>
  BY DEF StartTransaction
<1>4. \/ session' = session
      \/ /\ link[cp] /\ epoch[cp] = e /\ session[cp].phase = "starting"
         /\ session' = [session EXCEPT ![cp] =
              [session[cp] EXCEPT !.phase = "charging", !.id = id]]
  <2> HIDE DEF id
  <2>1. \/ session' = session
        \/ /\ link[cp] /\ epoch[cp] = e
           /\ session' = [session EXCEPT ![cp] =
                IF session[cp].phase # "starting" THEN session[cp]
                ELSE [session[cp] EXCEPT !.phase = "charging", !.id = id]]
    BY DEF StartTransaction, Answer, Current, id
  <2>2. [session EXCEPT ![cp] = session[cp]] = session
    BY DEF TypeOK
  <2>3. QED
    BY <2>1, <2>2
<1>5. QED
  BY <1>1, <1>2, <1>3, <1>4

\* A StopTransaction closes the entry of its id, bills it if there is one,
\* and ends the session if it names its transaction and the answer arrives.
LEMMA StopDoes ==
  ASSUME TypeOK, NEW cp \in ChargePoints, NEW e \in Epochs,
         StopTransaction(cp, e)
  PROVE  \E c \in Call :
           /\ c = Head(queue[cp][e]) /\ c.kind = "Stop" /\ PendingCall(cp, c)
           /\ active' = [active EXCEPT ![c.id] = None]
           /\ bills' = IF active[c.id] = None THEN bills
                ELSE [bills EXCEPT ![c.id] =
                  [cp |-> active[c.id].cp, tag |-> active[c.id].tag,
                   kwh |-> IF c.meter < active[c.id].start THEN 0
                           ELSE c.meter - active[c.id].start]]
           /\ interrupted' = {o \in interrupted : session'[o].phase # "idle"}
           /\ \/ session' = session
              \/ /\ link[cp] /\ epoch[cp] = e
                 /\ session[cp].phase = "stopping" /\ session[cp].id = c.id
                 /\ session' = [session EXCEPT ![cp] = NoSession]
           /\ UNCHANGED <<link, epoch, meter, reissued>>
<1> DEFINE c == Head(queue[cp][e])
<1>1. c \in Call /\ c.kind = "Stop" /\ PendingCall(cp, c)
  BY HandleTakes DEF StopTransaction
<1>2. /\ active' = [active EXCEPT ![c.id] = None]
      /\ bills' = IF active[c.id] = None THEN bills
           ELSE [bills EXCEPT ![c.id] =
             [cp |-> active[c.id].cp, tag |-> active[c.id].tag,
              kwh |-> IF c.meter < active[c.id].start THEN 0
                      ELSE c.meter - active[c.id].start]]
  BY DEF StopTransaction, Close
<1>3. /\ interrupted' = {o \in interrupted : session'[o].phase # "idle"}
      /\ UNCHANGED <<link, epoch, meter, reissued>>
  BY DEF StopTransaction
<1>4. \/ session' = session
      \/ /\ link[cp] /\ epoch[cp] = e
         /\ session[cp].phase = "stopping" /\ session[cp].id = c.id
         /\ session' = [session EXCEPT ![cp] = NoSession]
  <2>1. \/ session' = session
        \/ /\ link[cp] /\ epoch[cp] = e
           /\ session' = [session EXCEPT ![cp] =
                IF session[cp].phase = "stopping" /\ session[cp].id = c.id
                THEN NoSession ELSE session[cp]]
    BY DEF StopTransaction, Answer, Current
  <2>2. [session EXCEPT ![cp] = session[cp]] = session
    BY DEF TypeOK
  <2>3. QED
    BY <2>1, <2>2
<1>5. QED
  BY <1>1, <1>2, <1>3, <1>4

\* A new id that somebody knows of has been handed out before.
LEMMA NewIsKnown ==
  ASSUME TypeOK, OneOwner, NEW id \in Ids,
         NEW o \in ChargePoints, Knows(o, id)
  PROVE  id \in issued
BY DEF OneOwner

\* The CALLs of the current epoch are in order, and none is in a later one.
THEOREM Ordered == Spec => []CallsInOrder
<1>1. Init => CallsInOrder
  BY Bounds DEF Init, CallsInOrder, Epochs, EmptyQueues
<1>2. TypeOK /\ CallsInOrder /\ [Next]_vars => CallsInOrder'
  <2> SUFFICES ASSUME TypeOK, CallsInOrder, [Next]_vars PROVE CallsInOrder'
    OBVIOUS
  <2>1. /\ epoch \in [ChargePoints -> 0..MaxEpoch]
        /\ session \in [ChargePoints -> Session]
        /\ \A o \in ChargePoints, f \in Epochs : queue[o][f] \in Seq(Call)
    BY DEF TypeOK
  <2>2. ASSUME UNCHANGED <<epoch, queue>>,
               \A o \in ChargePoints, f \in Epochs :
                 InOrder(queue[o][f], session[o]) => InOrder(queue[o][f], session'[o])
        PROVE  CallsInOrder'
    BY <2>2 DEF CallsInOrder
  <2>3. ASSUME NEW cp \in ChargePoints, Plug(cp) PROVE CallsInOrder'
    <3>1. /\ session[cp].phase = "idle"
          /\ \A o \in ChargePoints : o # cp => session'[o] = session[o]
          /\ session'[cp] = [phase |-> "starting", id |-> 0, start |-> meter[cp], stop |-> 0]
          /\ UNCHANGED <<epoch, queue>>
      BY <2>1, <2>3 DEF Plug, ChargerOnly, serverVars
    <3>2. session'[cp] \in Session /\ session'[cp].phase = "starting"
      BY <3>1, Bounds DEF TypeOK, Session, Meters
    <3>3. \A f \in Epochs :
            InOrder(queue[cp][f], session[cp]) => InOrder(queue[cp][f], session'[cp])
      BY <2>1, <3>1, <3>2, OrderKept
    <3>4. QED
      BY <2>2, <3>1, <3>3
  <2>4. ASSUME NEW cp \in ChargePoints, Unplug(cp) PROVE CallsInOrder'
    <3>1. session' \in [ChargePoints -> Session]
      BY <2>4, UnplugDoes
    <3>2. /\ session[cp].phase = "charging" /\ session'[cp].phase = "stopping"
          /\ \A o \in ChargePoints : o # cp => session'[o] = session[o]
          /\ UNCHANGED <<epoch, queue>>
      BY <2>4, UnplugDoes
    <3>3. \A f \in Epochs :
            InOrder(queue[cp][f], session[cp]) => InOrder(queue[cp][f], session'[cp])
      BY <2>1, <3>1, <3>2, OrderKept
    <3>4. QED
      BY <2>2, <3>2, <3>3
  <2>5. ASSUME NEW cp \in ChargePoints, Send(cp) PROVE CallsInOrder'
    <3>1. ASSUME epoch[cp] \in Epochs
          PROVE  InOrder(Append(queue[cp][epoch[cp]], Due(cp)), session[cp])
      <4>1. session[cp].phase # "idle"
        BY <2>5 DEF Send
      <4>2. InOrder(queue[cp][epoch[cp]], session[cp])
        BY <3>1 DEF CallsInOrder
      <4>3. QED
        BY <2>1, <2>5, <3>1, <4>1, <4>2, SendPuts, OrderSent
    <3>2. /\ UNCHANGED <<epoch, session>>
          /\ \A o \in ChargePoints, f \in Epochs :
               queue'[o][f] = IF o = cp /\ f = epoch[cp]
                              THEN Append(queue[o][f], Due(cp)) ELSE queue[o][f]
      BY <2>5, SendPuts
    <3>3. \A f \in Epochs : f > epoch[cp] => f # epoch[cp]
      BY <2>1 DEF Epochs
    <3>4. QED
      BY <3>1, <3>2, <3>3 DEF CallsInOrder
  <2>6. ASSUME NEW cp \in ChargePoints, NEW e \in Epochs, NEW kind,
               Handle(cp, e, kind), UNCHANGED epoch,
               \A o \in ChargePoints : o # cp => session'[o] = session[o],
               epoch[cp] = e => InOrder(Tail(queue[cp][e]), session'[cp]),
               epoch[cp] # e => session'[cp] = session[cp]
        PROVE  CallsInOrder'
    <3>1. /\ queue'[cp][e] = Tail(queue[cp][e]) /\ queue[cp][e] # <<>>
          /\ \A o \in ChargePoints, f \in Epochs :
               ~(o = cp /\ f = e) => queue'[o][f] = queue[o][f]
      BY <2>6, HandleTakes
    <3>2. ~(e > epoch[cp])
      BY <3>1 DEF CallsInOrder
    <3>3. ASSUME NEW o \in ChargePoints, epoch[o] \in Epochs
          PROVE  InOrder(queue'[o][epoch[o]], session'[o])
      <4>1. CASE o = cp /\ epoch[o] = e
        BY <2>6, <3>1, <4>1
      <4>2. CASE ~(o = cp /\ epoch[o] = e)
        <5>1. queue'[o][epoch[o]] = queue[o][epoch[o]] /\ session'[o] = session[o]
          BY <2>6, <3>1, <3>3, <4>2
        <5>2. QED
          BY <3>3, <5>1 DEF CallsInOrder
      <4>3. QED
        BY <4>1, <4>2
    <3>4. ASSUME NEW o \in ChargePoints, NEW f \in Epochs, f > epoch[o]
          PROVE  queue'[o][f] = <<>>
      BY <3>1, <3>2, <3>4 DEF CallsInOrder
    <3>5. QED
      BY <2>6, <3>3, <3>4 DEF CallsInOrder
  <2>7. ASSUME NEW cp \in ChargePoints, NEW e \in Epochs, queue[cp][e] # <<>>,
               epoch[cp] = e
        PROVE  /\ InOrder(queue[cp][e], session[cp])
               /\ InOrder(Tail(queue[cp][e]), session[cp])
    <3>1. InOrder(queue[cp][e], session[cp])
      BY <2>7 DEF CallsInOrder
    <3>2. QED
      BY <2>1, <2>7, <3>1, OrderKept
  <2>8. ASSUME NEW cp \in ChargePoints, NEW e \in Epochs, StartTransaction(cp, e)
        PROVE  CallsInOrder'
    <3>1. Handle(cp, e, "Start")
      BY <2>8 DEF StartTransaction
    <3>2. queue[cp][e] # <<>> /\ Head(queue[cp][e]).kind = "Start"
      BY <3>1 DEF Handle
    <3>3. PICK id \in Ids :
           /\ \/ session' = session
              \/ /\ link[cp] /\ epoch[cp] = e /\ session[cp].phase = "starting"
                 /\ session' = [session EXCEPT ![cp] =
                      [session[cp] EXCEPT !.phase = "charging", !.id = id]]
           /\ UNCHANGED epoch
      BY <2>8, StartDoes
    <3>4. CASE session' = session
      BY <2>6, <2>7, <3>1, <3>2, <3>3, <3>4
    <3>5. CASE /\ epoch[cp] = e /\ session[cp].phase = "starting"
               /\ session' = [session EXCEPT ![cp] =
                    [session[cp] EXCEPT !.phase = "charging", !.id = id]]
      <4>1. /\ session'[cp] = [session[cp] EXCEPT !.phase = "charging", !.id = id]
            /\ \A o \in ChargePoints : o # cp => session'[o] = session[o]
        BY <2>1, <3>5
      <4>2. session'[cp] \in Session /\ session'[cp].phase = "charging"
        <5>1. session[cp] \in Session /\ id \in 0..MaxId
          BY <2>1, Bounds DEF Ids
        <5>2. QED
          BY ONLY <4>1, <5>1 DEF Session
      <4>3. InOrder(Tail(queue[cp][e]), session'[cp])
        BY <2>1, <2>7, <3>2, <3>5, <4>2, OrderKept
      <4>4. QED
        BY <2>6, <3>1, <3>3, <3>5, <4>1, <4>3
    <3>6. QED
      BY <3>3, <3>4, <3>5
  <2>9. ASSUME NEW cp \in ChargePoints, NEW e \in Epochs, StopTransaction(cp, e)
        PROVE  CallsInOrder'
    <3>1. Handle(cp, e, "Stop")
      BY <2>9 DEF StopTransaction
    <3>2. queue[cp][e] # <<>> /\ Head(queue[cp][e]).kind = "Stop"
      BY <3>1 DEF Handle
    <3>3. /\ \/ session' = session
             \/ /\ epoch[cp] = e /\ session[cp].phase = "stopping"
                /\ session' = [session EXCEPT ![cp] = NoSession]
          /\ UNCHANGED epoch
      BY <2>9, StopDoes
    <3>4. CASE session' = session
      BY <2>6, <2>7, <3>1, <3>2, <3>3, <3>4
    <3>5. CASE /\ epoch[cp] = e /\ session[cp].phase = "stopping"
               /\ session' = [session EXCEPT ![cp] = NoSession]
      <4>1. /\ session'[cp] = NoSession
            /\ \A o \in ChargePoints : o # cp => session'[o] = session[o]
        BY <2>1, <3>5
      <4>2. InOrder(Tail(queue[cp][e]), NoSession)
        BY <2>1, <2>7, <3>2, <3>5, OrderKept
      <4>3. QED
        BY <2>6, <3>1, <3>3, <3>5, <4>1, <4>2
    <3>6. QED
      BY <3>3, <3>4, <3>5
  <2>10. ASSUME NEW cp \in ChargePoints, NEW e \in Epochs, MeterValues(cp, e)
         PROVE  CallsInOrder'
    <3>1. Handle(cp, e, "Meter") /\ UNCHANGED <<epoch, session>>
      BY <2>10 DEF MeterValues, chargerVars
    <3>2. queue[cp][e] # <<>>
      BY <3>1 DEF Handle
    <3>3. QED
      BY <2>6, <2>7, <3>1, <3>2
  <2>11. ASSUME NEW cp \in ChargePoints, Connect(cp) PROVE CallsInOrder'
    <3>1. /\ UNCHANGED <<queue, session>>
          /\ epoch' = [epoch EXCEPT ![cp] = @ + 1]
      BY <2>11 DEF Connect, chargerVars
    <3>2. /\ \A o \in ChargePoints : epoch'[o] = IF o = cp THEN epoch[o] + 1 ELSE epoch[o]
          /\ epoch[cp] \in Nat
      BY <2>1, <3>1
    <3>3. /\ epoch'[cp] > epoch[cp]
          /\ \A f \in Epochs : f > epoch'[cp] => f > epoch[cp]
      BY <3>2 DEF Epochs
    <3>4. \A s : InOrder(<<>>, s)
      BY DEF InOrder
    <3>5. QED
      BY <3>1, <3>2, <3>3, <3>4 DEF CallsInOrder
  <2>12. ASSUME NEW cp \in ChargePoints, Disconnect(cp) PROVE CallsInOrder'
    BY <2>2, <2>12 DEF Disconnect, chargerVars
  <2>13. CASE Restart
    <3>1. \A o \in ChargePoints, f \in Epochs : queue'[o][f] = <<>>
      BY <2>13 DEF Restart, EmptyQueues
    <3>2. \A s : InOrder(<<>>, s)
      BY DEF InOrder
    <3>3. QED
      BY <3>1, <3>2 DEF CallsInOrder
  <2>14. CASE UNCHANGED vars
    BY <2>2, <2>14 DEF vars
  <2>15. QED
    BY <2>3, <2>4, <2>5, <2>8, <2>9, <2>10, <2>11, <2>12, <2>13, <2>14
    DEF Next, ChargerStep, HandlerStep
<1>3. QED
  BY TypeCorrect, <1>1, <1>2, PTL DEF Spec

\* The register never falls below what a session began or ended with.
THEOREM Rising == Spec => []SessionsRise
<1>1. Init => SessionsRise
  BY DEF Init, SessionsRise, NoSession
<1>2. TypeOK /\ SessionsRise /\ [Next]_vars => SessionsRise'
  <2> SUFFICES ASSUME TypeOK, SessionsRise, [Next]_vars PROVE SessionsRise'
    OBVIOUS
  <2>1. /\ \A o \in ChargePoints : meter[o] \in Int /\ session[o] \in Session
        /\ \A s \in Session : s.start \in Int /\ s.stop \in Int
    BY Bounds DEF TypeOK, Meters, Session
  <2>2. ASSUME UNCHANGED <<meter, session>> PROVE SessionsRise'
    BY <2>2 DEF SessionsRise
  <2>3. ASSUME NEW cp \in ChargePoints, Plug(cp) PROVE SessionsRise'
    <3>1. /\ session'[cp] = [phase |-> "starting", id |-> 0, start |-> meter[cp], stop |-> 0]
          /\ meter' = meter
          /\ \A o \in ChargePoints : o # cp => session'[o] = session[o]
      BY <2>3 DEF Plug, TypeOK
    <3>2. QED
      BY <2>1, <3>1 DEF SessionsRise
  <2>4. ASSUME NEW cp \in ChargePoints, Unplug(cp) PROVE SessionsRise'
    <3>1. /\ session[cp].phase = "charging" /\ session'[cp].phase = "stopping"
          /\ session'[cp].id = session[cp].id /\ session'[cp].start = session[cp].start
          /\ session'[cp].stop = meter'[cp] /\ meter'[cp] >= meter[cp]
          /\ \A o \in ChargePoints :
               o # cp => session'[o] = session[o] /\ meter'[o] = meter[o]
      BY <2>4, UnplugDoes
    <3>2. session[cp].start <= meter[cp] /\ session[cp].id # 0
      BY <3>1 DEF SessionsRise
    <3>3. meter'[cp] \in Int
      BY <2>1, <2>4, <3>1, UnplugDoes DEF TypeOK
    <3>4. session'[cp].start <= meter'[cp]
      BY ONLY <2>1, <3>1, <3>2, <3>3
    <3>5. QED
      BY <3>1, <3>2, <3>4 DEF SessionsRise
  <2>5. ASSUME NEW cp \in ChargePoints, Send(cp) PROVE SessionsRise'
    BY <2>2, <2>5, SendPuts
  <2>6. ASSUME NEW cp \in ChargePoints, NEW e \in Epochs, StartTransaction(cp, e)
        PROVE  SessionsRise'
    <3>1. PICK c \in Call, id \in Ids :
            /\ c = Head(queue[cp][e]) /\ c.kind = "Start"
            /\ id # 0
            /\ active' = [active EXCEPT ![id] =
                 [cp |-> cp, start |-> c.meter, tag |-> "Card"]]
            /\ reissued' = reissued \cup ({id} \cap issued)
            /\ \/ session' = session
               \/ /\ link[cp] /\ epoch[cp] = e /\ session[cp].phase = "starting"
                  /\ session' = [session EXCEPT ![cp] =
                       [session[cp] EXCEPT !.phase = "charging", !.id = id]]
            /\ UNCHANGED <<link, epoch, bills, meter, interrupted>>
      BY <2>6, StartDoes
    <3>2. CASE session' = session
      BY <2>2, <3>1, <3>2
    <3>3. CASE /\ session[cp].phase = "starting"
               /\ session' = [session EXCEPT ![cp] =
                    [session[cp] EXCEPT !.phase = "charging", !.id = id]]
      <4>1. /\ session'[cp] = [session[cp] EXCEPT !.phase = "charging", !.id = id]
            /\ \A o \in ChargePoints : o # cp => session'[o] = session[o]
        BY <3>3 DEF TypeOK
      <4>2. /\ session'[cp].phase = "charging" /\ session'[cp].id = id
            /\ session'[cp].start = session[cp].start
        BY ONLY <2>1, <4>1 DEF Session
      <4>3. QED
        BY <3>1, <3>3, <4>1, <4>2 DEF SessionsRise
    <3>4. QED
      BY <3>1, <3>2, <3>3
  <2>7. ASSUME NEW cp \in ChargePoints, NEW e \in Epochs, StopTransaction(cp, e)
        PROVE  SessionsRise'
    <3>1. /\ \/ session' = session
             \/ session' = [session EXCEPT ![cp] = NoSession]
          /\ UNCHANGED meter
      BY <2>7, StopDoes
    <3>2. \A o \in ChargePoints : session'[o] \in {session[o], NoSession}
      BY <3>1 DEF TypeOK
    <3>3. QED
      BY <3>1, <3>2 DEF SessionsRise, NoSession
  <2>8. ASSUME NEW cp \in ChargePoints, NEW e \in Epochs, MeterValues(cp, e)
        PROVE  SessionsRise'
    BY <2>2, <2>8 DEF MeterValues, chargerVars
  <2>9. ASSUME NEW cp \in ChargePoints, Connect(cp) PROVE SessionsRise'
    BY <2>2, <2>9 DEF Connect, chargerVars
  <2>10. ASSUME NEW cp \in ChargePoints, Disconnect(cp) PROVE SessionsRise'
    BY <2>2, <2>10 DEF Disconnect, chargerVars
  <2>11. CASE Restart
    BY <2>2, <2>11 DEF Restart, chargerVars
  <2>12. CASE UNCHANGED vars
    BY <2>2, <2>12 DEF vars
  <2>13. QED
    BY <2>3, <2>4, <2>5, <2>6, <2>7, <2>8, <2>9, <2>10, <2>11, <2>12
    DEF Next, ChargerStep, HandlerStep
<1>3. QED
  BY TypeCorrect, <1>1, <1>2, PTL DEF Spec

\* An entry that is the session's was opened with what the session began with.
THEOREM Entered == Spec => []EntryIsSession
<1>1. Init => EntryIsSession
  BY DEF Init, EntryIsSession
<1>2. /\ TypeOK /\ OneOwner /\ CallsInOrder /\ EntryIsSession /\ [Next]_vars
      => EntryIsSession'
  <2> SUFFICES ASSUME TypeOK, OneOwner, CallsInOrder, EntryIsSession, [Next]_vars
               PROVE  EntryIsSession'
    OBVIOUS
  <2>1. /\ active \in [Ids -> Info \cup {None}] /\ session \in [ChargePoints -> Session]
        /\ None \notin Info
        /\ \A i \in Info : i.cp \in ChargePoints
        /\ 0 \notin Ids
    BY ConstantsAssumption DEF TypeOK, Info, Ids
  <2>2. ASSUME reissued' = reissued,
               \A id \in Ids : active'[id] \in {None, active[id]} \/ active'[id].tag # "Card",
               \A o \in ChargePoints, id \in Ids :
                 session'[o].id = id =>
                   session[o].id = id /\ session'[o].start = session[o].start
        PROVE  EntryIsSession'
    BY <2>1, <2>2 DEF EntryIsSession
  <2>3. ASSUME NEW cp \in ChargePoints, Plug(cp) PROVE EntryIsSession'
    <3>1. /\ UNCHANGED <<active, reissued>> /\ session'[cp].id = 0
          /\ \A o \in ChargePoints : o # cp => session'[o] = session[o]
      BY <2>1, <2>3 DEF Plug, ChargerOnly, serverVars
    <3>2. QED
      BY <2>1, <2>2, <3>1
  <2>4. ASSUME NEW cp \in ChargePoints, Unplug(cp) PROVE EntryIsSession'
    BY <2>2, <2>4, UnplugDoes
  <2>5. ASSUME NEW cp \in ChargePoints, Send(cp) PROVE EntryIsSession'
    BY <2>2, <2>5, SendPuts
  <2>6. ASSUME NEW cp \in ChargePoints, NEW e \in Epochs, StartTransaction(cp, e)
        PROVE  EntryIsSession'
    <3>1. PICK c \in Call, new \in Ids :
            /\ c = Head(queue[cp][e]) /\ c.kind = "Start"
            /\ new # 0
            /\ active' = [active EXCEPT ![new] =
                 [cp |-> cp, start |-> c.meter, tag |-> "Card"]]
            /\ reissued' = reissued \cup ({new} \cap issued)
            /\ \/ session' = session
               \/ /\ link[cp] /\ epoch[cp] = e /\ session[cp].phase = "starting"
                  /\ session' = [session EXCEPT ![cp] =
                       [session[cp] EXCEPT !.phase = "charging", !.id = new]]
            /\ UNCHANGED <<link, epoch, bills, meter, interrupted>>
      BY <2>6, StartDoes
    <3>2. ASSUME NEW id \in Ids \ reissued', id # new,
                 active'[id] # None, active'[id].tag = "Card",
                 session'[active'[id].cp].id = id
          PROVE  active'[id].start = session'[active'[id].cp].start
      <4> DEFINE o == active[id].cp
      <4>1. active'[id] = active[id] /\ o \in ChargePoints /\ id \notin reissued
        BY <2>1, <3>1, <3>2
      <4>2. session'[o] = session[o]
        <5>1. CASE session' = session
          BY <5>1
        <5>2. CASE session' = [session EXCEPT ![cp] =
                     [session[cp] EXCEPT !.phase = "charging", !.id = new]]
          <6>1. o = cp => session'[o].id = new
            <7>1. session[cp] \in Session
              BY <2>1
            <7>2. [session[cp] EXCEPT !.phase = "charging", !.id = new].id = new
              BY ONLY <7>1 DEF Session
            <7>3. QED
              BY <2>1, <5>2, <7>2
          <6>2. o # cp
            BY <3>2, <4>1, <6>1
          <6>3. QED
            BY <2>1, <4>1, <5>2, <6>2
        <5>3. QED
          BY <3>1, <5>1, <5>2
      <4>3. QED
        BY <3>2, <4>1, <4>2 DEF EntryIsSession
    <3>3. ASSUME new \notin reissued', session'[cp].id = new
          PROVE  c.meter = session'[cp].start
      <4>1. ~Knows(cp, new)
        BY <3>1, <3>3, NewIsKnown
      <4>2. session[cp].id # new
        BY <4>1 DEF Knows
      <4>3. /\ epoch[cp] = e /\ session[cp].phase = "starting"
            /\ session' = [session EXCEPT ![cp] =
                 [session[cp] EXCEPT !.phase = "charging", !.id = new]]
        BY <3>1, <3>3, <4>2
      <4>4. session'[cp].start = session[cp].start
        <5>1. session[cp] \in Session
          BY <2>1
        <5>2. [session[cp] EXCEPT !.phase = "charging", !.id = new].start
                = session[cp].start
          BY ONLY <5>1 DEF Session
        <5>3. QED
          BY <2>1, <4>3, <5>2
      <4>5. queue[cp][e] \in Seq(Call) /\ queue[cp][e] # <<>>
        BY <2>6 DEF TypeOK, StartTransaction, Handle
      <4>6. 1 \in 1..Len(queue[cp][e]) /\ queue[cp][e][1] = c
        <5> DEFINE q == queue[cp][e]
        <5>1. c = Head(q) /\ q \in Seq(Call) /\ q # <<>>
          BY <3>1, <4>5
        <5> HIDE DEF q
        <5>2. 1 \in 1..Len(q) /\ q[1] = c
          BY ONLY <5>1
        <5>3. QED
          BY <5>2 DEF q
      <4>7. InOrder(queue[cp][e], session[cp])
        BY <4>3 DEF CallsInOrder
      <4>8. c.meter = session[cp].start
        BY ONLY <3>1, <4>3, <4>6, <4>7 DEF InOrder
      <4>9. QED
        BY <4>4, <4>8
    <3>4. active'[new].cp = cp /\ active'[new].start = c.meter
      BY <2>1, <3>1
    <3>5. QED
      BY <3>2, <3>3, <3>4 DEF EntryIsSession
  <2>7. ASSUME NEW cp \in ChargePoints, NEW e \in Epochs, StopTransaction(cp, e)
        PROVE  EntryIsSession'
    <3>1. PICK c \in Call :
            /\ active' = [active EXCEPT ![c.id] = None]
            /\ \/ session' = session
               \/ session' = [session EXCEPT ![cp] = NoSession]
            /\ UNCHANGED reissued
      BY <2>7, StopDoes
    <3>2. \A id \in Ids : active'[id] \in {None, active[id]}
      BY <2>1, <3>1
    <3>3. \A o \in ChargePoints : session'[o] \in {session[o], NoSession}
      BY <2>1, <3>1
    <3>4. QED
      BY <2>1, <2>2, <3>1, <3>2, <3>3 DEF NoSession
  <2>8. ASSUME NEW cp \in ChargePoints, NEW e \in Epochs, MeterValues(cp, e)
        PROVE  EntryIsSession'
    <3>1. /\ \A id \in Ids : active'[id] = active[id] \/ active'[id].tag # "Card"
          /\ UNCHANGED <<session, reissued>>
      BY <2>1, <2>8 DEF MeterValues, chargerVars
    <3>2. QED
      BY <2>2, <3>1
  <2>9. ASSUME NEW cp \in ChargePoints, Connect(cp) PROVE EntryIsSession'
    BY <2>2, <2>9 DEF Connect, chargerVars, historyVars
  <2>10. ASSUME NEW cp \in ChargePoints, Disconnect(cp) PROVE EntryIsSession'
    <3>1. \A id \in Ids : active'[id] \in {None, active[id]}
      BY <2>10 DEF Disconnect, Purged
    <3>2. QED
      BY <2>2, <2>10, <3>1 DEF Disconnect, chargerVars
  <2>11. CASE Restart
    <3>1. \A id \in Ids : active'[id] \in {None, active[id]}
      BY <2>11 DEF Restart
    <3>2. QED
      BY <2>2, <2>11, <3>1 DEF Restart, chargerVars
  <2>12. CASE UNCHANGED vars
    BY <2>2, <2>12 DEF vars
  <2>13. QED
    BY <2>3, <2>4, <2>5, <2>6, <2>7, <2>8, <2>9, <2>10, <2>11, <2>12
    DEF Next, ChargerStep, HandlerStep
<1>3. QED
  BY TypeCorrect, Owner, Ordered, <1>1, <1>2, PTL DEF Spec

\* A StopTransaction that could close an entry is the stopping session's own.
THEOREM Stopping == Spec => []StopIsSession
<1>1. Init => StopIsSession
  BY DEF Init, StopIsSession, EmptyQueues, PendingCall
<1>2. TypeOK /\ OneOwner /\ StopIsSession /\ [Next]_vars => StopIsSession'
  <2> SUFFICES ASSUME TypeOK, OneOwner, StopIsSession, [Next]_vars
               PROVE  StopIsSession'
    OBVIOUS
  <2>1. /\ active \in [Ids -> Info \cup {None}] /\ session \in [ChargePoints -> Session]
        /\ None \notin Info /\ 0 \notin Ids
    BY ConstantsAssumption DEF TypeOK, Ids
  <2>2. ASSUME UNCHANGED queue, NEW o \in ChargePoints, NEW c \in Call
        PROVE  PendingCall(o, c)' <=> PendingCall(o, c)
    BY <2>2 DEF PendingCall
  <2>3. ASSUME \A o \in ChargePoints, c \in Call : PendingCall(o, c)' => PendingCall(o, c),
               reissued' = reissued, session' = session,
               \A id \in Ids : active'[id] \in {None, active[id]} \/ active'[id].tag # "Card"
        PROVE  StopIsSession'
    BY <2>3 DEF StopIsSession
  <2>4. ASSUME NEW cp \in ChargePoints, Plug(cp) PROVE StopIsSession'
    <3>1. /\ UNCHANGED <<active, queue, reissued>> /\ session'[cp].id = 0
          /\ session[cp].phase = "idle"
          /\ \A o \in ChargePoints : o # cp => session'[o] = session[o]
      BY <2>1, <2>4 DEF Plug, ChargerOnly, serverVars
    <3>2. QED
      BY <2>1, <2>2, <3>1 DEF StopIsSession
  <2>5. ASSUME NEW cp \in ChargePoints, Unplug(cp) PROVE StopIsSession'
    <3>1. /\ UNCHANGED <<active, queue, reissued>>
          /\ session[cp].phase = "charging" /\ session'[cp].phase = "stopping"
          /\ \A o \in ChargePoints : o # cp => session'[o] = session[o]
      BY <2>5, UnplugDoes
    <3>2. QED
      BY <2>2, <3>1 DEF StopIsSession
  <2>6. ASSUME NEW cp \in ChargePoints, Send(cp) PROVE StopIsSession'
    <3>1. /\ Due(cp).kind = "Stop" => session[cp].phase = "stopping"
          /\ Due(cp).id = session[cp].id
          /\ Due(cp).meter =
               IF session[cp].phase = "starting" THEN session[cp].start
               ELSE session[cp].stop
          /\ \A o \in ChargePoints, c \in Call :
               PendingCall(o, c)' => PendingCall(o, c) \/ (o = cp /\ c = Due(cp))
          /\ UNCHANGED <<active, session, reissued>>
      BY <2>6, SendPuts
    <3>2. QED
      BY <3>1 DEF StopIsSession
  <2>7. ASSUME NEW cp \in ChargePoints, NEW e \in Epochs, StartTransaction(cp, e)
        PROVE  StopIsSession'
    <3>1. PICK d \in Call, new \in Ids :
            /\ d = Head(queue[cp][e]) /\ d.kind = "Start"
            /\ new # 0
            /\ active' = [active EXCEPT ![new] =
                 [cp |-> cp, start |-> d.meter, tag |-> "Card"]]
            /\ reissued' = reissued \cup ({new} \cap issued)
            /\ \/ session' = session
               \/ /\ link[cp] /\ epoch[cp] = e /\ session[cp].phase = "starting"
                  /\ session' = [session EXCEPT ![cp] =
                       [session[cp] EXCEPT !.phase = "charging", !.id = new]]
            /\ UNCHANGED <<link, epoch, bills, meter, interrupted>>
      BY <2>7, StartDoes
    <3>2. \A o \in ChargePoints, c \in Call : PendingCall(o, c)' => PendingCall(o, c)
      BY <2>7, HandleTakes DEF StartTransaction
    <3>3. ASSUME NEW o \in ChargePoints, NEW c \in Call, PendingCall(o, c),
                 c.id \in Ids \ reissued'
          PROVE  c.id # new
      BY <3>1, <3>3, CallKnows, NewIsKnown
    <3>4. ASSUME NEW o \in ChargePoints
          PROVE  \/ session'[o] = session[o]
                 \/ session[o].phase = "starting" /\ session'[o].id = new
      <4>1. CASE session' = session
        BY <4>1
      <4>2. CASE /\ session[cp].phase = "starting"
                 /\ session' = [session EXCEPT ![cp] =
                      [session[cp] EXCEPT !.phase = "charging", !.id = new]]
        <5>1. session[cp] \in Session
          BY <2>1
        <5>2. [session[cp] EXCEPT !.phase = "charging", !.id = new].id = new
          BY ONLY <5>1 DEF Session
        <5>3. QED
          BY <2>1, <4>2, <5>2
      <4>3. QED
        BY <3>1, <4>1, <4>2
    <3>5. \A id \in Ids : id # new => active'[id] = active[id]
      BY <2>1, <3>1
    <3>6. \A id : id \notin reissued' => id \notin reissued
      BY <3>1
    <3>7. QED
      BY <3>2, <3>3, <3>4, <3>5, <3>6 DEF StopIsSession
  <2>8. ASSUME NEW cp \in ChargePoints, NEW e \in Epochs, StopTransaction(cp, e)
        PROVE  StopIsSession'
    <3>1. PICK d \in Call :
            /\ d = Head(queue[cp][e]) /\ d.kind = "Stop" /\ PendingCall(cp, d)
            /\ active' = [active EXCEPT ![d.id] = None]
            /\ bills' = IF active[d.id] = None THEN bills
                 ELSE [bills EXCEPT ![d.id] =
                   [cp |-> active[d.id].cp, tag |-> active[d.id].tag,
                    kwh |-> IF d.meter < active[d.id].start THEN 0
                            ELSE d.meter - active[d.id].start]]
            /\ interrupted' = {o \in interrupted : session'[o].phase # "idle"}
            /\ \/ session' = session
               \/ /\ link[cp] /\ epoch[cp] = e
                  /\ session[cp].phase = "stopping" /\ session[cp].id = d.id
                  /\ session' = [session EXCEPT ![cp] = NoSession]
            /\ UNCHANGED <<link, epoch, meter, reissued>>
      BY <2>8, StopDoes
    <3>2. \A o \in ChargePoints, c \in Call : PendingCall(o, c)' => PendingCall(o, c)
      BY <2>8, HandleTakes DEF StopTransaction
    <3>3. \A id \in Ids : active'[id] = IF id = d.id THEN None ELSE active[id]
      BY <2>1, <3>1
    <3>4. CASE session' = session
      BY <2>3, <3>1, <3>2, <3>3, <3>4
    <3>5. CASE /\ session[cp].id = d.id
               /\ session' = [session EXCEPT ![cp] = NoSession]
      <4>1. /\ session'[cp].id = 0
            /\ \A o \in ChargePoints : o # cp => session'[o] = session[o]
        BY <2>1, <3>5 DEF NoSession
      <4>2. QED
        BY <2>1, <3>1, <3>2, <3>3, <3>5, <4>1 DEF StopIsSession
    <3>6. QED
      BY <3>1, <3>4, <3>5
  <2>9. ASSUME NEW cp \in ChargePoints, NEW e \in Epochs, MeterValues(cp, e)
        PROVE  StopIsSession'
    <3>1. /\ \A id \in Ids : active'[id] = active[id] \/ active'[id].tag # "Card"
          /\ UNCHANGED <<session, reissued>>
      BY <2>1, <2>9 DEF MeterValues, chargerVars
    <3>2. \A o \in ChargePoints, c \in Call : PendingCall(o, c)' => PendingCall(o, c)
      BY <2>9, HandleTakes DEF MeterValues
    <3>3. QED
      BY <2>3, <3>1, <3>2
  <2>10. ASSUME NEW cp \in ChargePoints, Connect(cp) PROVE StopIsSession'
    BY <2>2, <2>3, <2>10 DEF Connect, chargerVars, historyVars
  <2>11. ASSUME NEW cp \in ChargePoints, Disconnect(cp) PROVE StopIsSession'
    <3>1. \A id \in Ids : active'[id] \in {None, active[id]}
      BY <2>11 DEF Disconnect, Purged
    <3>2. UNCHANGED <<queue, session, reissued>>
      BY <2>11 DEF Disconnect, chargerVars
    <3>3. QED
      BY <2>2, <2>3, <3>1, <3>2
  <2>12. CASE Restart
    <3>1. \A o \in ChargePoints, c \in Call : ~PendingCall(o, c)'
      BY <2>12 DEF Restart, EmptyQueues, PendingCall
    <3>2. QED
      BY <3>1 DEF StopIsSession
  <2>13. CASE UNCHANGED vars
    BY <2>2, <2>3, <2>13 DEF vars
  <2>14. QED
    BY <2>4, <2>5, <2>6, <2>7, <2>8, <2>9, <2>10, <2>11, <2>12, <2>13
    DEF Next, ChargerStep, HandlerStep
<1>3. QED
  BY TypeCorrect, Owner, <1>1, <1>2, PTL DEF Spec

\* What closing an entry writes is a row of the entry's charge point.
LEMMA RowIsBill ==
  ASSUME NEW info \in Info, NEW c \in Call
  PROVE  LET row == [cp |-> info.cp, tag |-> info.tag,
                     kwh |-> IF c.meter < info.start THEN 0 ELSE c.meter - info.start]
         IN row \in Bill /\ row # None /\ row.cp = info.cp
<1>1. info.start \in Meters /\ c.meter \in Meters
  BY DEF Info, Call
<1>2. (IF c.meter < info.start THEN 0 ELSE c.meter - info.start) \in Meters
  BY ONLY <1>1, Bounds DEF Meters
<1>3. QED
  BY <1>2, ConstantsAssumption DEF Info, Bill

\* An uninterrupted session has its entry, or the row of it.
THEOREM Kept == Spec => []SessionIsKept
<1>1. Init => SessionIsKept
  BY DEF Init, SessionIsKept, NoSession
<1>2. /\ TypeOK /\ OneOwner /\ SessionsRise /\ StopIsSession /\ SessionIsKept
      /\ [Next]_vars
      => SessionIsKept'
  <2> SUFFICES ASSUME TypeOK, OneOwner, SessionsRise, StopIsSession, SessionIsKept,
                      [Next]_vars
               PROVE  SessionIsKept'
    OBVIOUS
  <2>1. /\ active \in [Ids -> Info \cup {None}] /\ session \in [ChargePoints -> Session]
        /\ bills \in [Ids -> Bill \cup {None}]
        /\ None \notin Info /\ None \notin Bill /\ 0 \notin Ids
        /\ \A o \in ChargePoints :
             session[o].phase \in {"charging", "stopping"} => session[o].id \in Ids
    BY ConstantsAssumption DEF TypeOK, Ids, SessionsRise, Session
  <2>2. ASSUME UNCHANGED <<active, bills, session, interrupted, reissued>>
        PROVE  SessionIsKept'
    BY <2>2 DEF SessionIsKept
  <2>3. ASSUME NEW cp \in ChargePoints, Plug(cp) PROVE SessionIsKept'
    <3>1. /\ UNCHANGED <<active, bills, reissued, interrupted>>
          /\ session'[cp].phase = "starting"
          /\ \A o \in ChargePoints : o # cp => session'[o] = session[o]
      BY <2>1, <2>3 DEF Plug, ChargerOnly, serverVars
    <3>2. QED
      BY <3>1 DEF SessionIsKept
  <2>4. ASSUME NEW cp \in ChargePoints, Unplug(cp) PROVE SessionIsKept'
    <3>1. /\ UNCHANGED <<active, bills, reissued, interrupted>>
          /\ session[cp].phase = "charging" /\ session'[cp].id = session[cp].id
          /\ \A o \in ChargePoints : o # cp => session'[o] = session[o]
      BY <2>4, UnplugDoes
    <3>2. QED
      BY <3>1 DEF SessionIsKept
  <2>5. ASSUME NEW cp \in ChargePoints, Send(cp) PROVE SessionIsKept'
    BY <2>2, <2>5, SendPuts
  <2>6. ASSUME NEW cp \in ChargePoints, NEW e \in Epochs, StartTransaction(cp, e)
        PROVE  SessionIsKept'
    <3>1. PICK c \in Call, new \in Ids :
            /\ c = Head(queue[cp][e]) /\ c.kind = "Start"
            /\ new # 0
            /\ active' = [active EXCEPT ![new] =
                 [cp |-> cp, start |-> c.meter, tag |-> "Card"]]
            /\ reissued' = reissued \cup ({new} \cap issued)
            /\ \/ session' = session
               \/ /\ link[cp] /\ epoch[cp] = e /\ session[cp].phase = "starting"
                  /\ session' = [session EXCEPT ![cp] =
                       [session[cp] EXCEPT !.phase = "charging", !.id = new]]
            /\ UNCHANGED <<link, epoch, bills, meter, interrupted>>
      BY <2>6, StartDoes
    <3>2. active'[new] # None /\ active'[new].cp = cp
      <4>1. [cp |-> cp, start |-> c.meter, tag |-> "Card"] \in Info
        BY DEF Info, Call
      <4>2. QED
        BY <2>1, <3>1, <4>1
    <3>3. ASSUME NEW o \in ChargePoints
          PROVE  \/ session'[o] = session[o]
                 \/ o = cp /\ session'[o].id = new
      <4>1. [session[cp] EXCEPT !.phase = "charging", !.id = new].id = new
        <5>1. session[cp] \in Session
          BY <2>1
        <5>2. QED
          BY ONLY <5>1 DEF Session
      <4>2. QED
        BY <2>1, <3>1, <4>1
    <3>4. ASSUME NEW o \in ChargePoints, session[o].id = new, new \notin reissued'
          PROVE  FALSE
      BY <3>1, <3>4, NewIsKnown DEF Knows
    <3>5. \A id \in Ids : id # new => active'[id] = active[id]
      BY <2>1, <3>1
    <3>6. \A id : id \notin reissued' => id \notin reissued
      BY <3>1
    <3>7. ASSUME NEW o \in ChargePoints \ interrupted', session'[o] = session[o],
                 session[o].phase \in {"charging", "stopping"},
                 session[o].id \notin reissued'
          PROVE  \/ active'[session[o].id] # None /\ active'[session[o].id].cp = o
                 \/ /\ session[o].phase = "stopping"
                    /\ bills'[session[o].id] # None /\ bills'[session[o].id].cp = o
      BY <2>1, <3>1, <3>4, <3>5, <3>6, <3>7 DEF SessionIsKept
    <3>8. QED
      BY <3>2, <3>3, <3>7 DEF SessionIsKept
  <2>7. ASSUME NEW cp \in ChargePoints, NEW e \in Epochs, StopTransaction(cp, e)
        PROVE  SessionIsKept'
    <3>1. PICK c \in Call :
            /\ c.kind = "Stop" /\ PendingCall(cp, c)
            /\ active' = [active EXCEPT ![c.id] = None]
            /\ bills' = IF active[c.id] = None THEN bills
                 ELSE [bills EXCEPT ![c.id] =
                   [cp |-> active[c.id].cp, tag |-> active[c.id].tag,
                    kwh |-> IF c.meter < active[c.id].start THEN 0
                            ELSE c.meter - active[c.id].start]]
            /\ interrupted' = {o \in interrupted : session'[o].phase # "idle"}
            /\ \/ session' = session
               \/ session' = [session EXCEPT ![cp] = NoSession]
            /\ UNCHANGED reissued
      BY <2>7, StopDoes
    <3>2. ASSUME NEW o \in ChargePoints \ interrupted',
                 session'[o].phase \in {"charging", "stopping"},
                 session'[o].id \notin reissued'
          PROVE  \/ active'[session'[o].id] # None /\ active'[session'[o].id].cp = o
                 \/ /\ session'[o].phase = "stopping"
                    /\ bills'[session'[o].id] # None /\ bills'[session'[o].id].cp = o
      <4> DEFINE id == session[o].id
      <4>1. session'[o] = session[o] /\ o \notin interrupted
        BY <2>1, <3>1, <3>2 DEF NoSession
      <4>2. id \in Ids \ reissued
        BY <2>1, <3>1, <3>2, <4>1
      <4>3. \/ active[id] # None /\ active[id].cp = o
            \/ session[o].phase = "stopping" /\ bills[id] # None /\ bills[id].cp = o
        BY <3>2, <4>1, <4>2 DEF SessionIsKept
      <4>4. CASE id # c.id
        <5>1. active'[id] = active[id] /\ bills'[id] = bills[id]
          BY <2>1, <3>1, <4>2, <4>4
        <5>2. QED
          BY <4>1, <4>3, <5>1
      <4>5. CASE id = c.id
        <5>1. o = cp
          <6>1. Knows(cp, id) /\ Knows(o, id)
            BY <3>1, <4>5, CallKnows DEF Knows
          <6>2. QED
            BY <4>2, <6>1 DEF OneOwner
        <5>2. session[o].phase = "stopping"
          BY <3>1, <4>2, <4>5, <5>1 DEF StopIsSession
        <5>3. bills'[id] # None /\ bills'[id].cp = o
          <6>1. CASE active[id] = None
            BY <3>1, <4>3, <4>5, <6>1
          <6>2. CASE active[id] # None
            <7>1. active[id] \in Info
              BY <2>1, <4>2, <6>2
            <7>2. active[id].cp \in ChargePoints /\ Knows(active[id].cp, id) /\ Knows(o, id)
              BY <6>2, <7>1 DEF Info, Knows
            <7>3. active[id].cp = o
              BY <4>2, <7>2 DEF OneOwner
            <7>4. bills'[id] = [cp |-> active[id].cp, tag |-> active[id].tag,
                                kwh |-> IF c.meter < active[id].start THEN 0
                                        ELSE c.meter - active[id].start]
              BY <2>1, <3>1, <4>2, <4>5, <6>2
            <7>5. QED
              BY <7>1, <7>3, <7>4, RowIsBill
          <6>3. QED
            BY <6>1, <6>2
        <5>4. QED
          BY <4>1, <5>2, <5>3
      <4>6. QED
        BY <4>4, <4>5
    <3>3. QED
      BY <3>2 DEF SessionIsKept
  <2>8. ASSUME NEW cp \in ChargePoints, NEW e \in Epochs, MeterValues(cp, e)
        PROVE  SessionIsKept'
    <3>1. /\ \A id \in Ids : active[id] # None => active'[id] = active[id]
          /\ UNCHANGED <<bills, session, interrupted, reissued>>
      BY <2>1, <2>8 DEF MeterValues, chargerVars
    <3>2. QED
      BY <2>1, <3>1 DEF SessionIsKept
  <2>9. ASSUME NEW cp \in ChargePoints, Connect(cp) PROVE SessionIsKept'
    BY <2>2, <2>9 DEF Connect, chargerVars
  <2>10. ASSUME NEW cp \in ChargePoints, Disconnect(cp) PROVE SessionIsKept'
    <3>1. /\ interrupted' = interrupted \cup (InSession \cap {cp})
          /\ \A id \in Ids : active[id] # None /\ active[id].cp # cp =>
               active'[id] = active[id]
          /\ UNCHANGED <<bills, session, reissued>>
      BY <2>10 DEF Disconnect, Purged, chargerVars
    <3>2. QED
      BY <2>1, <3>1 DEF SessionIsKept, InSession
  <2>11. CASE Restart
    BY <2>11 DEF Restart, SessionIsKept, InSession, chargerVars
  <2>12. CASE UNCHANGED vars
    BY <2>2, <2>12 DEF vars
  <2>13. QED
    BY <2>3, <2>4, <2>5, <2>6, <2>7, <2>8, <2>9, <2>10, <2>11, <2>12
    DEF Next, ChargerStep, HandlerStep
<1>3. QED
  BY TypeCorrect, Owner, Rising, Stopping, <1>1, <1>2, PTL DEF Spec

\* A row is of the session that ended with its id (CloseTransaction).
THEOREM RowIsSession == Spec => BillIsSession
<1> DEFINE Inv == /\ TypeOK /\ OneOwner /\ SessionsRise
                  /\ EntryIsSession /\ StopIsSession
           RowOfSession ==
             \A id \in Ids \ reissued :
               bills'[id] # bills[id] /\ bills'[id].tag = "Card" =>
                 LET cp == bills'[id].cp IN
                 /\ session[cp].phase = "stopping" /\ session[cp].id = id
                 /\ bills'[id].kwh = session[cp].stop - session[cp].start
<1>1. Inv /\ [Next]_vars => [RowOfSession]_vars
  <2> SUFFICES ASSUME Inv, Next, NEW id \in Ids \ reissued,
                      bills'[id] # bills[id], bills'[id].tag = "Card"
               PROVE  /\ session[bills'[id].cp].phase = "stopping"
                      /\ session[bills'[id].cp].id = id
                      /\ bills'[id].kwh = session[bills'[id].cp].stop
                                            - session[bills'[id].cp].start
    OBVIOUS
  <2>1. PICK cp \in ChargePoints, e \in Epochs : StopTransaction(cp, e)
    BY DEF Next, ChargerStep, HandlerStep, Plug, Unplug, Send, ChargerOnly,
       StartTransaction, MeterValues, Connect, Disconnect, Restart
  <2>2. PICK c \in Call :
           /\ c.kind = "Stop" /\ PendingCall(cp, c)
           /\ bills' = IF active[c.id] = None THEN bills
                ELSE [bills EXCEPT ![c.id] =
                  [cp |-> active[c.id].cp, tag |-> active[c.id].tag,
                   kwh |-> IF c.meter < active[c.id].start THEN 0
                           ELSE c.meter - active[c.id].start]]
    BY <2>1, StopDoes
  <2>3. /\ c.id = id /\ active[id] # None
        /\ bills'[id] = [cp |-> active[id].cp, tag |-> active[id].tag,
                         kwh |-> IF c.meter < active[id].start THEN 0
                                 ELSE c.meter - active[id].start]
    BY <2>2 DEF TypeOK
  <2>4. active[id] \in Info
    BY <2>3 DEF TypeOK
  <2>5. active[id].cp \in ChargePoints /\ active[id].start \in Int /\ c.meter \in Int
    BY <2>4, Bounds DEF Info, Call, Meters
  <2>6. active[id].cp = cp
    <3>1. Knows(cp, id) /\ Knows(active[id].cp, id)
      BY <2>2, <2>3, CallKnows DEF Knows
    <3>2. QED
      BY <2>5, <3>1 DEF OneOwner
  <2>7. /\ bills'[id].cp = cp /\ active[id].tag = "Card"
        /\ bills'[id].kwh = IF c.meter < active[id].start THEN 0
                            ELSE c.meter - active[id].start
    BY <2>3, <2>6
  <2>8. session[cp].phase = "stopping" /\ session[cp].id = id /\ session[cp].stop = c.meter
    BY <2>2, <2>3, <2>6, <2>7 DEF StopIsSession
  <2>9. active[id].start = session[cp].start
    BY <2>3, <2>6, <2>7, <2>8 DEF EntryIsSession
  <2>10. active[id].start <= c.meter
    BY <2>8, <2>9 DEF SessionsRise
  <2>11. bills'[id].kwh = c.meter - active[id].start
    BY ONLY <2>5, <2>7, <2>10
  <2>12. QED
    BY <2>7, <2>8, <2>9, <2>11
<1>2. Spec => []Inv
  BY TypeCorrect, Owner, Rising, Entered, Stopping, PTL
<1>3. Spec => [][RowOfSession]_vars
  BY <1>1, <1>2, PTL DEF Spec
<1>4. QED
  BY <1>3 DEF BillIsSession

\* A confirmed session that kept its connection has its row.
THEOREM ConfirmedHasRow == Spec => ConfirmedIsBilled
<1> DEFINE Inv == TypeOK /\ OneOwner /\ SessionsRise /\ SessionIsKept
           RowOfConfirmed ==
             \A cp \in ChargePoints \ interrupted :
               session[cp].phase = "stopping" /\ session'[cp].phase = "idle"
                 /\ session[cp].id \notin reissued
               => bills'[session[cp].id] # None /\ bills'[session[cp].id].cp = cp
<1>1. Inv /\ [Next]_vars => [RowOfConfirmed]_vars
  <2> SUFFICES ASSUME Inv, Next, NEW o \in ChargePoints \ interrupted,
                      session[o].phase = "stopping", session'[o].phase = "idle",
                      session[o].id \notin reissued
               PROVE  bills'[session[o].id] # None /\ bills'[session[o].id].cp = o
    OBVIOUS
  <2>1. PICK cp \in ChargePoints, e \in Epochs : StopTransaction(cp, e)
    <3>1. session' # session
      OBVIOUS
    <3>2. ASSUME NEW cp \in ChargePoints, Plug(cp) PROVE FALSE
      BY <3>2 DEF Plug, TypeOK
    <3>3. ASSUME NEW cp \in ChargePoints, Unplug(cp) PROVE FALSE
      BY <3>3, UnplugDoes
    <3>4. ASSUME NEW cp \in ChargePoints, NEW e \in Epochs, StartTransaction(cp, e)
          PROVE  FALSE
      <4>1. PICK c \in Call, id \in Ids :
              /\ c = Head(queue[cp][e]) /\ c.kind = "Start"
              /\ id # 0
              /\ active' = [active EXCEPT ![id] =
                   [cp |-> cp, start |-> c.meter, tag |-> "Card"]]
              /\ reissued' = reissued \cup ({id} \cap issued)
              /\ \/ session' = session
                 \/ /\ link[cp] /\ epoch[cp] = e /\ session[cp].phase = "starting"
                    /\ session' = [session EXCEPT ![cp] =
                         [session[cp] EXCEPT !.phase = "charging", !.id = id]]
              /\ UNCHANGED <<link, epoch, bills, meter, interrupted>>
        BY <3>1, <3>4, StartDoes
      <4>2. session'[o] = session[o]
        BY <4>1, <3>1 DEF TypeOK
      <4>3. QED
        BY <4>2
    <3>5. QED
      BY <3>1, <3>2, <3>3, <3>4
      DEF Next, ChargerStep, HandlerStep, Send, MeterValues, Connect, Disconnect,
          Restart, chargerVars
  <2>2. PICK c \in Call :
           /\ c.kind = "Stop" /\ PendingCall(cp, c)
           /\ bills' = IF active[c.id] = None THEN bills
                ELSE [bills EXCEPT ![c.id] =
                  [cp |-> active[c.id].cp, tag |-> active[c.id].tag,
                   kwh |-> IF c.meter < active[c.id].start THEN 0
                           ELSE c.meter - active[c.id].start]]
           /\ session[cp].id = c.id
           /\ session' = [session EXCEPT ![cp] = NoSession]
    BY <2>1, StopDoes
  <2>3. o = cp /\ session[o].id = c.id
    BY <2>2 DEF TypeOK
  <2>4. c.id \in Ids \ reissued
    BY <2>3 DEF SessionsRise, TypeOK, Session, Ids
  <2>5. CASE active[c.id] = None
    BY <2>2, <2>3, <2>5 DEF SessionIsKept
  <2>6. CASE active[c.id] # None
    <3>1. active[c.id] \in Info
      BY <2>4, <2>6 DEF TypeOK
    <3>2. active[c.id].cp = cp
      <4>1. /\ active[c.id].cp \in ChargePoints
            /\ Knows(active[c.id].cp, c.id) /\ Knows(cp, c.id)
        BY <2>3, <2>6, <3>1 DEF Knows, Info
      <4>2. QED
        BY <2>4, <4>1 DEF OneOwner
    <3>3. bills'[c.id] = [cp |-> active[c.id].cp, tag |-> active[c.id].tag,
                          kwh |-> IF c.meter < active[c.id].start THEN 0
                                  ELSE c.meter - active[c.id].start]
      BY <2>2, <2>4, <2>6 DEF TypeOK
    <3>4. bills'[c.id] # None /\ bills'[c.id].cp = active[c.id].cp
      BY <3>1, <3>3, RowIsBill
    <3>5. QED
      BY <2>3, <3>2, <3>4
  <2>7. QED
    BY <2>5, <2>6
<1>2. Spec => []Inv
  BY TypeCorrect, Owner, Rising, Kept, PTL
<1>3. Spec => [][RowOfConfirmed]_vars
  BY <1>1, <1>2, PTL DEF Spec
<1>4. QED
  BY <1>3 DEF ConfirmedIsBilled
================================================================================
