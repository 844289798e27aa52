--------------------------- MODULE OcppConnections ---------------------------
(***************************************************************************)
(* The WebSocket connections of ONE charge point, as kept by               *)
(* OcppManagerService (src/Pulswerk.Drivers/Ocpp/OcppManagerService.cs).   *)
(* Every dictionary of that class is keyed by charge point id, so the      *)
(* entry of one charge point is one variable here.                         *)
(*                                                                         *)
(* Four kinds of threads share this state:                                 *)
(*   - one connection handler per socket (HandleConnectionAsync): replace  *)
(*     the old socket, register, receive, and clean up in the finally;     *)
(*   - CALL handlers, chained per charge point (_callChains);              *)
(*   - senders (SendMessageAsync: CALL responses, smart charging, the      *)
(*     watchdog), serialised by the charge point's semaphore (_sendLocks); *)
(*   - the peer and the network, which end a socket at any moment.         *)
(* A step is what a thread does between two points where another thread    *)
(* can change what it relies on: an await, or the gap between two accesses *)
(* to different concurrent dictionaries.                                   *)
(*                                                                         *)
(* Left to other modules: the transactions the CALLs open and the purge of *)
(* lines 186-196 (OcppTransactions).  Left out: the configuration          *)
(* generations.                                                            *)
(***************************************************************************)
EXTENDS Naturals, FiniteSets

CONSTANTS
  Sockets,    \* the WebSockets the charge point opens, each with its handler
  Senders,    \* threads that send frames to the charge point
  Locks,      \* identities of SemaphoreSlim objects
  Chains,     \* identities of chained tasks (the tail kept in _callChains)
  MaxCalls,   \* bound: CALLs received in one behaviour
  NoSocket, NoLock, NoChain

ASSUME SocketsAssumption ==
  /\ NoSocket \notin Sockets
  /\ NoLock \notin Locks
  /\ NoChain \notin Chains
  /\ MaxCalls \in Nat

VARIABLES
  activeSocket,  \* _activeSockets[cp]
  online,        \* _liveTelemetry[cp]["status"] is something else than "Offline"
  sendLock,      \* _sendLocks[cp]
  callChain,     \* _callChains[cp]
  isOpen,        \* socket |-> WebSocket.State = Open
  pc,            \* socket |-> where its handler is
  oldSocket,     \* socket |-> the local variable oldSocket of its handler
  sender,        \* sender |-> its position and the locals socket, sendLock
  held,          \* the semaphores that are taken
  calls,         \* the CALLs received whose handlers have not finished
  received,      \* number of CALLs received so far
  disturbed      \* history: sockets during whose registration ANOTHER
                 \* connection's handler wrote these dictionaries: a step of
                 \* its cleanup, or its own registration over theirs

connVars   == <<activeSocket, online, isOpen, pc, oldSocket, disturbed>>
senderVars == <<sender, held>>
callVars   == <<calls, received>>
socketVars == <<activeSocket, online, sendLock, callChain, isOpen, pc, oldSocket,
          sender, held, calls, received, disturbed>>

-----------------------------------------------------------------------------
(* Positions of a connection handler.                                      *)
Cleaning  == {"remove", "offline", "drop"}
HandlerPc == {"unused", "closeOld", "register", "loop", "check", "done"}
               \cup Cleaning
SenderPc  == {"idle", "getLock", "wait", "sending"}

\* The handler of s has registered s and has not returned.
Registered(s) == pc[s] \in {"loop", "check"} \cup Cleaning

SocketCall == [n : 1..MaxCalls, socket : Sockets, chain : Chains, running : BOOLEAN]

SenderState == [pc : SenderPc, socket : Sockets \cup {NoSocket},
                lock : Locks \cup {NoLock}]

IdleSender == [pc |-> "idle", socket |-> NoSocket, lock |-> NoLock]

\* A sender waits for, or holds, a semaphore.
SenderTyped ==
  /\ sender \in [Senders -> SenderState]
  /\ \A p \in Senders :
       sender[p].pc \in {"wait", "sending"} => sender[p].lock \in Locks

SocketsTypeOK ==
  /\ activeSocket \in Sockets \cup {NoSocket}
  /\ online \in BOOLEAN
  /\ sendLock \in Locks \cup {NoLock}
  /\ callChain \in Chains \cup {NoChain}
  /\ isOpen \in [Sockets -> BOOLEAN]
  /\ pc \in [Sockets -> HandlerPc]
  /\ oldSocket \in [Sockets -> Sockets \cup {NoSocket}]
  /\ SenderTyped
  /\ held \subseteq Locks
  /\ calls \subseteq SocketCall
  /\ received \in 0..MaxCalls
  /\ disturbed \subseteq Sockets

SocketsInit ==
  /\ activeSocket = NoSocket
  /\ online = FALSE
  /\ sendLock = NoLock
  /\ callChain = NoChain
  /\ isOpen = [s \in Sockets |-> FALSE]
  /\ pc = [s \in Sockets |-> "unused"]
  /\ oldSocket = [s \in Sockets |-> NoSocket]
  /\ sender = [p \in Senders |-> IdleSender]
  /\ held = {}
  /\ calls = {}
  /\ received = 0
  /\ disturbed = {}

-----------------------------------------------------------------------------
(* HandleConnectionAsync: the way in.                                      *)

Goto(s, from, to) == pc[s] = from /\ pc' = [pc EXCEPT ![s] = to]

\* Mutant: look the registered socket up without taking it out.
AcceptKeepsEntry(s) ==
  /\ Goto(s, "unused", IF activeSocket = NoSocket THEN "register" ELSE "closeOld")
  /\ isOpen' = [isOpen EXCEPT ![s] = TRUE]
  /\ oldSocket' = [oldSocket EXCEPT ![s] = activeSocket]
  /\ UNCHANGED <<activeSocket, online, sendLock, callChain, senderVars,
                 callVars, disturbed>>

\* The charge point connects: take the socket registered so far, if any, out
\* of the dictionary.
Accept(s) ==
  /\ Goto(s, "unused", IF activeSocket = NoSocket THEN "register" ELSE "closeOld")
  /\ isOpen' = [isOpen EXCEPT ![s] = TRUE]
  /\ oldSocket' = [oldSocket EXCEPT ![s] = activeSocket]
  /\ activeSocket' = NoSocket
  /\ UNCHANGED <<online, sendLock, callChain, senderVars, callVars, disturbed>>

\* Mutant: go on without closing the old socket.
CloseOldSkipped(s) ==
  /\ Goto(s, "closeOld", "register")
  /\ UNCHANGED <<activeSocket, online, sendLock, callChain, isOpen, oldSocket,
                 senderVars, callVars, disturbed>>

\* await oldSocket.CloseAsync(...) returns or throws; then Dispose.
CloseOld(s) ==
  /\ Goto(s, "closeOld", "register")
  /\ isOpen' = [isOpen EXCEPT ![oldSocket[s]] = FALSE]
  /\ UNCHANGED <<activeSocket, online, sendLock, callChain, oldSocket,
                 senderVars, callVars, disturbed>>

\* Mutant: the status is left as the previous connection's cleanup wrote it.
RegisterSilently(s) ==
  /\ Goto(s, "register", "loop")
  /\ activeSocket' = s
  /\ disturbed' = disturbed \cup ({activeSocket} \ {NoSocket})
  /\ UNCHANGED <<online, sendLock, callChain, isOpen, oldSocket, senderVars,
                 callVars>>

\* _activeSockets[cp] = socket, whatever another newcomer stored meanwhile.
Register(s) ==
  /\ Goto(s, "register", "loop")
  /\ activeSocket' = s
  /\ online' = TRUE
  /\ disturbed' = disturbed \cup ({activeSocket} \ {NoSocket})
  /\ UNCHANGED <<sendLock, callChain, isOpen, oldSocket, senderVars, callVars>>

\* The peer closes, the network fails, or a message is too big: the socket
\* leaves the state Open.
SocketEnds(s) ==
  /\ pc[s] \in {"closeOld", "register", "loop"}
  /\ isOpen[s]
  /\ isOpen' = [isOpen EXCEPT ![s] = FALSE]
  /\ UNCHANGED <<activeSocket, online, sendLock, callChain, pc, oldSocket,
                 senderVars, callVars, disturbed>>

-----------------------------------------------------------------------------
(* HandleConnectionAsync: the receive loop and the finally block.          *)

\* Some chain not used by any pending CALL stands for a new task.
FreshChain == Chains \ {c.chain : c \in calls}

\* ProcessOcppMessage on a CALL: append its handler to the chain of the
\* charge point, or start a chain.
ReceiveCall(s) ==
  /\ pc[s] = "loop"
  /\ isOpen[s]
  /\ received < MaxCalls
  /\ received' = received + 1
  /\ \E chain \in IF callChain = NoChain THEN FreshChain ELSE {callChain} :
       /\ callChain' = chain
       /\ calls' = calls \cup {[n |-> received + 1, socket |-> s,
                                chain |-> chain, running |-> FALSE]}
  /\ UNCHANGED <<connVars, sendLock, senderVars>>

LeaveLoop(s) ==
  /\ ~isOpen[s]
  /\ Goto(s, "loop", "check")
  /\ UNCHANGED <<activeSocket, online, sendLock, callChain, isOpen, oldSocket,
                 senderVars, callVars, disturbed>>

\* Mutant: the ownership test is inverted.
CheckOwnerInverted(s) ==
  /\ Goto(s, "check", IF activeSocket = s THEN "done" ELSE "remove")
  /\ UNCHANGED <<activeSocket, online, sendLock, callChain, isOpen, oldSocket,
                 senderVars, callVars, disturbed>>

\* stillOwner: clean up only when the dictionary still holds this socket.
CheckOwner(s) ==
  /\ Goto(s, "check", IF activeSocket = s THEN "remove" ELSE "done")
  /\ UNCHANGED <<activeSocket, online, sendLock, callChain, isOpen, oldSocket,
                 senderVars, callVars, disturbed>>

\* History: every OTHER connection registered now is disturbed by this step.
Disturb(s) ==
  disturbed' = disturbed \cup {t \in Sockets \ {s} : Registered(t)}

\* TryRemove by key: removes whatever socket is registered by now.
RemoveActive(s) ==
  /\ Goto(s, "remove", "offline")
  /\ activeSocket' = NoSocket
  /\ Disturb(s)
  /\ UNCHANGED <<online, sendLock, callChain, isOpen, oldSocket, senderVars,
                 callVars>>

MarkOffline(s) ==
  /\ Goto(s, "offline", "drop")
  /\ online' = FALSE
  /\ Disturb(s)
  /\ UNCHANGED <<activeSocket, sendLock, callChain, isOpen, oldSocket,
                 senderVars, callVars>>

\* Forget the semaphore and the chain; whoever uses them keeps using them.
DropEntries(s) ==
  /\ Goto(s, "drop", "done")
  /\ sendLock' = NoLock
  /\ callChain' = NoChain
  /\ Disturb(s)
  /\ UNCHANGED <<activeSocket, online, isOpen, oldSocket, senderVars, callVars>>

-----------------------------------------------------------------------------
(* RunCallHandlerAsync: the handlers of one chain run one after the other. *)

\* Mutant: handlers are started without being chained.
RunnableAtOnce(c) == c \in calls /\ ~c.running

Runnable(c) ==
  /\ c \in calls
  /\ ~c.running
  /\ \A d \in calls : d.chain = c.chain => d.n >= c.n

StartCall(c) ==
  /\ Runnable(c)
  /\ calls' = (calls \ {c}) \cup {[c EXCEPT !.running = TRUE]}
  /\ UNCHANGED <<connVars, sendLock, callChain, senderVars, received>>

\* BootNotification, StatusNotification, StartTransaction, StopTransaction and
\* MeterValues write the status; the other CALLs do not.
FinishCall(c) ==
  /\ c \in calls
  /\ c.running
  /\ calls' = calls \ {c}
  /\ online' \in {online, TRUE}
  /\ UNCHANGED <<activeSocket, sendLock, callChain, isOpen, pc, oldSocket,
                 senderVars, received, disturbed>>

-----------------------------------------------------------------------------
(* SendMessageAsync.                                                       *)

SenderAt(p, from, to) == sender[p].pc = from /\ sender' = [sender EXCEPT ![p] = to]

\* Look the socket up; without an open one the call returns false.
PickSocket(p) ==
  /\ activeSocket # NoSocket
  /\ isOpen[activeSocket]
  /\ SenderAt(p, "idle",
              [pc |-> "getLock", socket |-> activeSocket, lock |-> NoLock])
  /\ UNCHANGED <<connVars, sendLock, callChain, held, callVars>>

\* An object nobody refers to stands for the new SemaphoreSlim.
FreshLock == Locks \ {sender[p].lock : p \in Senders}

GetLock(p) ==
  \E l \in IF sendLock = NoLock THEN FreshLock ELSE {sendLock} :
    /\ sendLock' = l
    /\ SenderAt(p, "getLock", [sender[p] EXCEPT !.pc = "wait", !.lock = l])
    /\ UNCHANGED <<connVars, callChain, held, callVars>>

\* Mutant: the state of the socket is not looked at again under the semaphore.
AcquireLockUnchecked(p) ==
  /\ sender[p].lock \notin held
  /\ SenderAt(p, "wait", [sender[p] EXCEPT !.pc = "sending"])
  /\ held' = held \cup {sender[p].lock}
  /\ UNCHANGED <<connVars, sendLock, callChain, callVars>>

\* await sendLock.WaitAsync(), then the second look at the state: a socket
\* that is no longer open is not written to and the semaphore is released.
AcquireLock(p) ==
  /\ sender[p].pc = "wait"
  /\ sender[p].lock \notin held
  /\ IF isOpen[sender[p].socket]
     THEN /\ SenderAt(p, "wait", [sender[p] EXCEPT !.pc = "sending"])
          /\ held' = held \cup {sender[p].lock}
     ELSE /\ SenderAt(p, "wait", IdleSender)
          /\ UNCHANGED held
  /\ UNCHANGED <<connVars, sendLock, callChain, callVars>>

\* await socket.SendAsync(...) returns or throws; finally Release.
FinishSend(p) ==
  /\ SenderAt(p, "sending", IdleSender)
  /\ held' = held \ {sender[p].lock}
  /\ UNCHANGED <<connVars, sendLock, callChain, callVars>>

-----------------------------------------------------------------------------
SocketStep(s) ==
  \/ CloseOld(s) \/ Register(s) \/ LeaveLoop(s) \/ CheckOwner(s)
  \/ RemoveActive(s) \/ MarkOffline(s) \/ DropEntries(s)

SenderStep(p) == GetLock(p) \/ AcquireLock(p) \/ FinishSend(p)

CallStep == \E c \in calls : StartCall(c) \/ FinishCall(c)

SocketsNext ==
  \/ \E s \in Sockets : Accept(s) \/ SocketEnds(s) \/ ReceiveCall(s)
  \/ \E s \in Sockets : SocketStep(s)
  \/ \E p \in Senders : PickSocket(p) \/ SenderStep(p)
  \/ CallStep

SocketsSpec == SocketsInit /\ [][SocketsNext]_socketVars

\* The thread pool runs every started thread: closing a socket, a send and a
\* CALL handler return after finitely many steps (each has a timeout or ends
\* with its socket).  The peer and the callers of SendMessageAsync owe nothing.
Fairness ==
  /\ \A s \in Sockets : WF_socketVars(SocketStep(s))
  /\ \A p \in Senders : WF_socketVars(FinishSend(p))
  /\ WF_socketVars(CallStep)

FairSpec == SocketsSpec /\ Fairness

-----------------------------------------------------------------------------
(* Safety.                                                                 *)

\* The dictionary never keeps a socket whose handler can no longer remove it:
\* a registered socket belongs to a handler that is still before, or has
\* passed, the ownership test of lines 179-181 and not yet removed it (183).
ActiveSocketHasHandler ==
  activeSocket # NoSocket =>
    pc[activeSocket] \in {"loop", "check", "remove"}

\* A socket taken out to be closed and disposed (110-116) never comes back as
\* the registered one, so nobody can pick a disposed socket to send on.
ReplacedSocketStaysOut ==
  \A s, t \in Sockets : oldSocket[s] = t => activeSocket # t

\* A connection that still receives without being registered is one its
\* replacer is about to close or has closed (109-117): no CALL comes from a
\* connection the service cannot answer, unless another handler interfered.
NoZombieConnection ==
  \A s \in Sockets :
    pc[s] = "loop" /\ isOpen[s] /\ activeSocket # s /\ s \notin disturbed =>
      \E t \in Sockets : oldSocket[t] = s /\ pc[t] = "closeOld"

\* Whatever connections replace each other, the dictionary and the handlers agree
\* about who owns the charge point's connection (lines 105-117, 173-183).
ConnectionsOwned ==
  ActiveSocketHasHandler /\ ReplacedSocketStaysOut /\ NoZombieConnection

\* Two SendAsync calls overlap on one socket (which lines 33-36 rule out) only
\* if another connection's cleanup ran while that socket was registered.
SendsSerialised ==
  \A p, q \in Senders :
    /\ p # q
    /\ sender[p].pc = "sending" /\ sender[q].pc = "sending"
    /\ sender[p].socket = sender[q].socket
    => sender[p].socket \in disturbed

\* Two CALL handlers of one connection run together, or in another order than
\* they arrived (lines 38-40, 246-259), only under the same condition.
HandlersInArrivalOrder ==
  \A c, d \in calls :
    /\ c.socket = d.socket
    /\ c.n < d.n
    /\ d.running
    => c.socket \in disturbed

\* A registered, undisturbed connection is never shown as "Offline": only the
\* cleanup of another connection can overwrite line 123's status.
ConnectedIsOnline ==
  \A s \in Sockets :
    pc[s] = "loop" /\ s \notin disturbed => online

(* What the safety properties rest on (OcppConnections_proofs).            *)

\* A handler past its receive loop has left it because the socket had ended.
EndedIsClosed ==
  \A s \in Sockets : pc[s] \in {"check", "done"} \cup Cleaning => ~isOpen[s]

\* Whoever is named by another thread has been registered at some time: it
\* will not be registered again.
WasRegistered(s) == Registered(s) \/ pc[s] = "done"

NamedWasRegistered ==
  /\ \A s, t \in Sockets : oldSocket[s] = t => WasRegistered(t)
  /\ \A p \in Senders : sender[p].pc # "idle" =>
       sender[p].socket \in Sockets /\ WasRegistered(sender[p].socket)
  /\ \A c \in calls : WasRegistered(c.socket)

\* A semaphore admits one sender.
SemaphoreExclusive ==
  /\ \A p \in Senders : sender[p].pc = "sending" => sender[p].lock \in held
  /\ \A p, q \in Senders :
       p # q /\ sender[p].pc = "sending" /\ sender[q].pc = "sending"
         => sender[p].lock # sender[q].lock

\* While a socket is open and undisturbed, all its senders use the semaphore
\* of the dictionary.
SemaphoreIsCurrent ==
  \A p \in Senders :
    /\ sender[p].pc \in {"wait", "sending"}
    /\ sender[p].socket \notin disturbed
    /\ isOpen[sender[p].socket]
    => sendLock = sender[p].lock

\* The pending CALLs of an undisturbed connection are on one chain, the chain
\* of the dictionary as long as the connection receives.
ChainIsCurrent ==
  /\ \A c, d \in calls :
       c.socket = d.socket /\ c.socket \notin disturbed => c.chain = d.chain
  /\ \A c \in calls :
       c.socket \notin disturbed /\ pc[c.socket] = "loop" => callChain = c.chain

\* The running handler of a chain is its oldest one.
ChainIsSerial ==
  /\ \A c \in calls : c.n <= received
  /\ \A c, d \in calls : c.chain = d.chain /\ d.running => c.n >= d.n

(* Liveness: a connection that was replaced is abandoned by its handler.   *)
ReplacedHandlerEnds ==
  \A s \in Sockets :
    (\E t \in Sockets : oldSocket[t] = s) ~> (pc[s] = "done")

-----------------------------------------------------------------------------
(* What the comments of the class promise, and the code does not keep.     *)

\* Lines 33-36: "WebSocket.SendAsync must not be called concurrently".
NoConcurrentSends ==
  \A p, q \in Senders :
    p # q /\ sender[p].pc = "sending" /\ sender[q].pc = "sending"
      => sender[p].socket # sender[q].socket

\* Lines 38-40: CALL handlers "still run in arrival order" per charge point.
ArrivalOrder ==
  \A c, d \in calls : d.running => d.n <= c.n

\* Line 109: "Disconnect old socket if exists": of two connections receiving
\* at once, one is being closed by the handler that replaces it.
OldSocketDisconnected ==
  \A s, t \in Sockets :
    /\ s # t
    /\ pc[s] = "loop" /\ isOpen[s]
    /\ pc[t] = "loop" /\ isOpen[t]
    => \E u \in Sockets : pc[u] = "closeOld" /\ oldSocket[u] \in {s, t}

\* Lines 175-178: the new connection is not torn down by the previous one's
\* cleanup: a handler removes no socket but its own.
CleanupSparesNewConnection ==
  [][\A s \in Sockets :
       pc[s] = "remove" /\ pc'[s] = "offline" => activeSocket \in {s, NoSocket}]_socketVars
=============================================================================
