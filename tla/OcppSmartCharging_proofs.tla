---------------------- MODULE OcppSmartCharging_proofs ----------------------
(***************************************************************************)
(* For any writers, limits, transactions and bounds: the messages, threads *)
(* and handlers are of their types, whatever is pending is awaited by a    *)
(* thread, and a limit that is reported as applied is installed.           *)
(***************************************************************************)
EXTENDS OcppSmartCharging, SequenceTheorems, TLAPS

Operation == [op : {"publish", "readTx", "clear", "set"},
              purpose : Purposes \cup {"All"}]

(* The profiles a write clears and sets: at most nine operations.          *)
LEMMA ProgramIsTyped ==
  ASSUME NEW limit, NEW release \in BOOLEAN
  PROVE  /\ Program(limit, release) \in Seq(Operation)
         /\ Len(Program(limit, release)) \in 0..9
<1> DEFINE a == IF release THEN <<ClearOp("All")>> ELSE <<>>
           b == <<PublishOp>>
           c == IF limit < MaxLimit THEN <<ClearOp("Tx"), ReadTxOp>>
                ELSE <<ReadTxOp, ClearOp("Max"), ClearOp("Default"), ClearOp("Tx")>>
           d == <<SetOp("Max"), SetOp("Default"), SetOp("Tx")>>
<1>1. a \in Seq(Operation) /\ Len(a) \in 0..1
  <2>1. CASE release
    BY <2>1 DEF ClearOp, Operation, Purposes
  <2>2. CASE ~release
    BY <2>2
  <2> QED BY <2>1, <2>2
<1>2. b \in Seq(Operation) /\ Len(b) = 1
  BY DEF PublishOp, Operation, Purposes
<1>3. c \in Seq(Operation) /\ Len(c) \in 2..4
  <2>1. CASE limit < MaxLimit
    BY <2>1 DEF ClearOp, ReadTxOp, Operation, Purposes
  <2>2. CASE ~(limit < MaxLimit)
    BY <2>2 DEF ClearOp, ReadTxOp, Operation, Purposes
  <2> QED BY <2>1, <2>2
<1>4. d \in Seq(Operation) /\ Len(d) = 3
  BY DEF SetOp, Operation, Purposes
<1>5. Program(limit, release) = a \o ((b \o c) \o d)
  BY DEF Program, SetLimit
<1> HIDE DEF a, b, c, d
<1>6. b \o c \in Seq(Operation) /\ Len(b \o c) \in 3..5
  <2>1. b \o c \in Seq(Operation) /\ Len(b \o c) = Len(b) + Len(c)
    BY <1>2, <1>3, ConcatProperties
  <2>2. \A n \in 2..4 : 1 + n \in 3..5
    OBVIOUS
  <2> QED BY <1>2, <1>3, <2>1, <2>2
<1>7. (b \o c) \o d \in Seq(Operation) /\ Len((b \o c) \o d) \in 6..8
  <2>1. (b \o c) \o d \in Seq(Operation) /\ Len((b \o c) \o d) = Len(b \o c) + Len(d)
    BY <1>4, <1>6, ConcatProperties
  <2> QED BY <1>4, <1>6, <2>1
<1>8. a \o ((b \o c) \o d) \in Seq(Operation) /\ Len(a \o ((b \o c) \o d)) \in 6..9
  <2>1. /\ a \o ((b \o c) \o d) \in Seq(Operation)
        /\ Len(a \o ((b \o c) \o d)) = Len(a) + Len((b \o c) \o d)
    BY <1>1, <1>7, ConcatProperties
  <2>2. \A m \in 0..1, n \in 6..8 : m + n \in 6..9
    OBVIOUS
  <2> QED BY <1>1, <1>7, <2>1, <2>2
<1> QED BY <1>5, <1>8

(* The operations of a thread.                                             *)
LEMMA OpIsTyped ==
  ASSUME thread \in [Threads -> ThreadState], NEW w \in Threads
  PROVE  /\ Ops(w) \in Seq(Operation) /\ Len(Ops(w)) \in 0..9
         /\ thread[w].pc \in 1..Len(Ops(w)) => Op(w) \in Operation
<1>1. thread[w].release \in BOOLEAN
  BY DEF ThreadState
<1>2. Ops(w) \in Seq(Operation) /\ Len(Ops(w)) \in 0..9
  BY <1>1, ProgramIsTyped DEF Ops
<1>3. thread[w].pc \in 1..Len(Ops(w)) => Ops(w)[thread[w].pc] \in Operation
  BY <1>2, ElementOfSeq
<1> QED BY <1>2, <1>3 DEF Op

(* The state of a thread past its operation.                               *)
LEMMA PastIsTyped ==
  ASSUME thread \in [Threads -> ThreadState], NEW w \in Threads,
         NEW ok \in BOOLEAN, thread[w].pc \in 1..Len(Ops(w))
  PROVE  /\ Past(w, ok) \in ThreadState
         /\ Past(w, ok).n = thread[w].n /\ Past(w, ok).wait = FALSE
<1>1. thread[w] \in ThreadState /\ thread[w].pc + 1 \in 1..10
  <2>1. Len(Ops(w)) \in 0..9
    BY OpIsTyped
  <2>2. thread[w] \in ThreadState /\ thread[w].pc \in Int
    BY DEF ThreadState
  <2>3. \A p \in Int, n \in 0..9 : p \in 1..n => p + 1 \in 1..10
    OBVIOUS
  <2> QED BY <2>1, <2>2, <2>3
<1>2. (ok \/ Op(w).op = "clear") \in BOOLEAN
  OBVIOUS
<1> QED BY <1>1, <1>2 DEF Past, ThreadState

-----------------------------------------------------------------------------
(* What is inductive.  A thread that waits has sent a message and is not   *)
(* through with its write; writes are numbered, so a message id belongs to *)
(* one thread; a handler that writes is still in its chain.                *)
Asking(w) == Busy(w) /\ ~Finished(w)

WaitingIsAsking == \A w \in Threads : thread[w].wait => Asking(w)

WritesAreNumbered ==
  /\ \A w \in Threads : thread[w].n <= writes
  /\ \A v, w \in Threads : Busy(v) /\ thread[v].n = thread[w].n => v = w

HandlersHaveCalls == \A d \in Handlers : Busy(d) => chain[d] # <<>>

\* what only the threads are about
ThreadsInv == WaitingIsAsking /\ WritesAreNumbered

IInv == TypeOK /\ ThreadsInv /\ HandlersHaveCalls /\ PendingIsAwaited

(* TypeOK, by who owns the variables.                                      *)
TypesOfService ==
  /\ link \in BOOLEAN /\ mapped \in 0..MaxTx
  /\ setpoint \in Limits \cup {None}
  /\ pending \subseteq MessageId
  /\ chain \in [Handlers -> Seq(Call)]
  /\ thread \in [Threads -> ThreadState]
TypesOfConnection ==
  /\ toCp \in Seq(Request)
  /\ toServer \in Seq(Call \cup Result)
TypesOfCharger ==
  /\ tx \in 0..MaxTx /\ asked \in BOOLEAN
  /\ profile \in [Purposes -> Limits \cup {None}]
TypesOfHistory ==
  /\ failed \in BOOLEAN /\ txs \in 0..MaxTx
  /\ drops \in 0..MaxDrops /\ timeouts \in 0..MaxTimeouts
  /\ writes \in 0..MaxWrites
  /\ alone \subseteq Threads
  /\ sure \in [limit : Limits, tx : 0..MaxTx] \cup {None}

(* The groups are the type invariant.                                     *)
LEMMA TypesByOwner ==
  TypeOK <=> TypesOfService /\ TypesOfConnection /\ TypesOfCharger /\ TypesOfHistory
BY DEF TypeOK, TypesOfService, TypesOfConnection, TypesOfCharger, TypesOfHistory

(* As above, for the state a step leaves behind.                           *)
LEMMA TypesByOwnerNext ==
  TypeOK' <=> TypesOfService' /\ TypesOfConnection' /\ TypesOfCharger' /\ TypesOfHistory'
BY DEF TypeOK, TypesOfService, TypesOfConnection, TypesOfCharger, TypesOfHistory

(* A thread whose state does not change asks what it asked.                *)
LEMMA SameThread ==
  ASSUME NEW w, thread'[w].n = thread[w].n, thread'[w].pc = thread[w].pc,
         thread'[w].limit = thread[w].limit, thread'[w].release = thread[w].release,
         thread'[w].tx = thread[w].tx
  PROVE  /\ Busy(w)' <=> Busy(w)
         /\ Asking(w)' <=> Asking(w)
         /\ Id(w)' = Id(w)
BY DEF Busy, Asking, Finished, Op, Ops, Id

(* A step of one thread in its write, or its return: the others ask what   *)
(* they asked, and it does not wait afterwards.                            *)
LEMMA OneThread ==
  ASSUME thread \in [Threads -> ThreadState], writes \in 0..MaxWrites,
         ThreadsInv, NEW w \in Threads,
         NEW t \in ThreadState, thread' = [thread EXCEPT ![w] = t],
         t.n \in {0, thread[w].n}, t.wait = FALSE, writes' = writes
  PROVE  /\ thread' \in [Threads -> ThreadState]
         /\ ThreadsInv'
         /\ \A v \in Threads \ {w} : thread'[v] = thread[v] /\ Id(v)' = Id(v)
         /\ \A v \in Threads : Busy(v)' => Busy(v)
<1>1. /\ thread' \in [Threads -> ThreadState] /\ thread'[w] = t
      /\ \A v \in Threads \ {w} : thread'[v] = thread[v]
  OBVIOUS
<1>2. \A v \in Threads \ {w} : (Asking(v)' <=> Asking(v)) /\ Id(v)' = Id(v)
  BY <1>1, SameThread
<1>3. \A v \in Threads : Busy(v)' => thread'[v].n = thread[v].n /\ Busy(v)
  BY <1>1 DEF Busy
<1>4. WaitingIsAsking'
  BY <1>1, <1>2 DEF WaitingIsAsking, ThreadsInv
<1>5. WritesAreNumbered'
  <2>1. \A v \in Threads : thread'[v].n <= writes'
    <3>1. \A v \in Threads : thread[v].n <= writes /\ 0 <= writes
      BY DEF ThreadsInv, WritesAreNumbered
    <3> QED BY <1>1, <3>1
  <2>2. ASSUME NEW u \in Threads, NEW v \in Threads, Busy(u)', thread'[u].n = thread'[v].n
        PROVE  u = v
    <3>1. Busy(u) /\ thread[u].n = thread[v].n
      BY <1>3, <2>2 DEF Busy
    <3> QED BY <3>1 DEF ThreadsInv, WritesAreNumbered
  <2> QED BY <2>1, <2>2 DEF WritesAreNumbered
<1> QED BY <1>1, <1>2, <1>3, <1>4, <1>5 DEF ThreadsInv

(* What is pending is awaited still when the message of the thread that    *)
(* moved on is taken out, or the thread did not wait.                      *)
LEMMA StillAwaited ==
  ASSUME PendingIsAwaited, NEW w \in Threads,
         \A v \in Threads \ {w} : thread'[v] = thread[v] /\ Id(v)' = Id(v),
         \/ pending' = pending \ {Id(w)}
         \/ pending' = pending /\ ~thread[w].wait
  PROVE  PendingIsAwaited'
<1> SUFFICES ASSUME NEW id \in pending'
             PROVE  \E v \in Threads : thread'[v].wait /\ Id(v)' = id
  BY DEF PendingIsAwaited
<1>1. PICK v \in Threads : thread[v].wait /\ Id(v) = id
  BY DEF PendingIsAwaited
<1>2. v # w
  BY <1>1
<1> QED BY <1>1, <1>2

-----------------------------------------------------------------------------
(* Initially no thread is busy.                                            *)
LEMMA InitIInv == Init => IInv
<1> SUFFICES ASSUME Init PROVE IInv
  OBVIOUS
<1>1. Idle \in ThreadState
  BY ConstantsAssumption DEF ConstantsAssumption, Idle, ThreadState, Limits
<1>2. TypesOfService
  <2>1. MaxTx \in Nat
    BY ConstantsAssumption DEF ConstantsAssumption
  <2>2. link = FALSE /\ mapped = 0 /\ setpoint = None /\ pending = {}
    BY DEF Init
  <2>3. chain \in [Handlers -> Seq(Call)]
    BY DEF Init
  <2>4. thread \in [Threads -> ThreadState]
    BY <1>1 DEF Init
  <2>5. link \in BOOLEAN
    BY <2>2
  <2>6. mapped \in 0..MaxTx /\ setpoint \in Limits \cup {None} /\ pending \subseteq MessageId
    BY <2>1, <2>2
  <2> QED BY ONLY <2>3, <2>4, <2>5, <2>6 DEF TypesOfService
<1>3. TypesOfConnection
  BY DEF Init, TypesOfConnection
<1>4. TypesOfCharger
  BY DEF Init, TypesOfCharger
<1>5. TypesOfHistory
  <2>1. MaxWrites \in Nat /\ MaxTx \in Nat /\ MaxDrops \in Nat /\ MaxTimeouts \in Nat
    BY ConstantsAssumption DEF ConstantsAssumption
  <2>2. /\ failed = FALSE /\ txs = tx /\ drops = 0 /\ timeouts = 0 /\ writes = 0
        /\ alone = {} /\ sure = None /\ tx \in 0..MaxTx
    BY DEF Init
  <2>3. failed \in BOOLEAN
    BY <2>2
  <2>4. /\ txs \in 0..MaxTx /\ drops \in 0..MaxDrops /\ timeouts \in 0..MaxTimeouts
        /\ writes \in 0..MaxWrites /\ alone \subseteq Threads
        /\ sure \in [limit : Limits, tx : 0..MaxTx] \cup {None}
    BY <2>1, <2>2
  <2> QED BY ONLY <2>3, <2>4 DEF TypesOfHistory
<1>6. ThreadsInv /\ HandlersHaveCalls /\ PendingIsAwaited
  <2>1. \A w \in Threads : thread[w].n = 0 /\ ~thread[w].wait /\ ~Busy(w)
    BY DEF Init, Idle, Busy
  <2>2. Handlers \subseteq Threads /\ pending = {} /\ writes = 0
    BY DEF Init, Threads
  <2> QED BY <2>1, <2>2 DEF ThreadsInv, WaitingIsAsking, WritesAreNumbered,
             HandlersHaveCalls, PendingIsAwaited
<1> QED BY <1>2, <1>3, <1>4, <1>5, <1>6, TypesByOwner DEF IInv

(* The constants a step counts to are numbers.                             *)
LEMMA BoundsAreNumbers ==
  /\ MaxWrites \in Nat /\ MaxTx \in Nat /\ MaxDrops \in Nat /\ MaxTimeouts \in Nat
  /\ MaxLimit \in Limits /\ Idle \in ThreadState
BY ConstantsAssumption DEF ConstantsAssumption, Idle, ThreadState, Limits

(* A write begins: it gets the next number.                                *)
LEMMA BeginKeepsThreads ==
  ASSUME thread \in [Threads -> ThreadState], writes \in 0..MaxWrites,
         ThreadsInv, PendingIsAwaited, pending' = pending,
         NEW w \in Threads, NEW limit \in Limits, NEW release \in BOOLEAN,
         Begin(w, limit, release)
  PROVE  /\ thread' \in [Threads -> ThreadState]
         /\ writes' \in 0..MaxWrites
         /\ ThreadsInv' /\ PendingIsAwaited'
         /\ \A v \in Threads \ {w} : Busy(v)' <=> Busy(v)
         /\ alone' \subseteq Threads /\ sure' = None
<1> DEFINE t == [Idle EXCEPT !.n = writes + 1, !.limit = limit, !.release = release]
<1>1. /\ ~Busy(w) /\ writes < MaxWrites /\ writes' = writes + 1
      /\ thread' = [thread EXCEPT ![w] = t]
      /\ alone' \subseteq Threads /\ sure' = None
  BY DEF Begin
<1>2. writes' \in 0..MaxWrites /\ writes + 1 \in 1..MaxWrites
  BY <1>1, BoundsAreNumbers
<1>3. t \in ThreadState /\ t.n = writes + 1 /\ t.wait = FALSE
  <2>1. writes + 1 \in 0..MaxWrites
    BY <1>2, BoundsAreNumbers
  <2>2. t = [Idle EXCEPT !.n = writes + 1, !.limit = limit, !.release = release]
    OBVIOUS
  <2> HIDE DEF t
  <2>3. \A s \in ThreadState : [s EXCEPT !.n = writes + 1, !.limit = limit, !.release = release]
                                \in ThreadState
    BY <2>1 DEF ThreadState
  <2>4. t.n = writes + 1 /\ t.wait = FALSE
    BY <2>2 DEF Idle
  <2> QED BY <2>2, <2>3, <2>4, BoundsAreNumbers
<1> HIDE DEF t
<1>4. /\ thread' \in [Threads -> ThreadState] /\ thread'[w] = t
      /\ \A v \in Threads \ {w} : thread'[v] = thread[v]
  BY <1>1, <1>3
<1>5. \A v \in Threads \ {w} : /\ Asking(v)' <=> Asking(v)
                               /\ Id(v)' = Id(v)
                               /\ Busy(v)' <=> Busy(v)
  BY <1>4, SameThread
<1>6. ~thread[w].wait
  BY <1>1 DEF ThreadsInv, WaitingIsAsking, Asking
<1>7. WaitingIsAsking'
  BY <1>3, <1>4, <1>5 DEF WaitingIsAsking, ThreadsInv
<1>8. WritesAreNumbered'
  <2>1. \A v \in Threads : thread[v].n \in Int /\ thread[v].n <= writes
    BY DEF ThreadsInv, WritesAreNumbered, ThreadState
  <2>2. \A v \in Threads \ {w} : thread'[v].n # thread'[w].n
    BY <1>3, <1>4, <2>1
  <2>3. \A v \in Threads : thread'[v].n <= writes'
    BY <1>1, <1>3, <1>4, <2>1
  <2> QED BY <1>4, <1>5, <2>2, <2>3 DEF WritesAreNumbered, ThreadsInv
<1>9. PendingIsAwaited'
  BY <1>4, <1>5, <1>6, StillAwaited
<1> QED BY <1>1, <1>2, <1>4, <1>5, <1>7, <1>8, <1>9 DEF ThreadsInv

-----------------------------------------------------------------------------
(* A thread at an operation of its write has one.                          *)
LEMMA AtOperation ==
  ASSUME thread \in [Threads -> ThreadState], NEW w \in Threads, NEW ops, At(w, ops)
  PROVE  /\ Busy(w) /\ ~thread[w].wait /\ thread[w].pc \in 1..Len(Ops(w))
         /\ Op(w).op \in ops /\ Op(w) \in Operation
         /\ thread[w].pc + 1 \in 1..10
<1>1. thread[w].pc \in 1..10 /\ Len(Ops(w)) \in 0..9
  BY OpIsTyped DEF ThreadState
<1>2. thread[w].pc <= Len(Ops(w)) /\ Busy(w) /\ ~thread[w].wait /\ Op(w).op \in ops
  BY DEF At
<1>3. thread[w].pc \in 1..Len(Ops(w)) /\ thread[w].pc + 1 \in 1..10
  <2>1. \A p \in 1..10, n \in 0..9 : p <= n => p \in 1..n /\ p + 1 \in 1..10
    OBVIOUS
  <2> QED BY <1>1, <1>2, <2>1
<1> QED BY <1>2, <1>3, OpIsTyped

(* A thread that waits is at an operation of its write.                    *)
LEMMA WaitingOperation ==
  ASSUME WaitingIsAsking, NEW w \in Threads, thread[w].wait
  PROVE  Busy(w) /\ thread[w].pc \in 1..Len(Ops(w))
BY DEF WaitingIsAsking, Asking, Finished

(* The message id of a busy thread.                                        *)
LEMMA IdIsTyped ==
  ASSUME thread \in [Threads -> ThreadState], NEW w \in Threads, Busy(w)
  PROVE  Id(w) \in MessageId
<1>1. thread[w].n \in 0..MaxWrites /\ thread[w].n # 0 /\ thread[w].pc \in 1..10
  BY DEF ThreadState, Busy
<1>2. thread[w].n \in 1..MaxWrites
  BY <1>1, BoundsAreNumbers
<1> QED BY <1>1, <1>2 DEF Id, MessageId

(* Publish, ReadTx, an operation given up and a wait that times out: the   *)
(* thread is past its operation.                                           *)
LEMMA PastKeepsIInv ==
  ASSUME IInv, NEW w \in Threads, NEW t \in ThreadState,
         thread' = [thread EXCEPT ![w] = t], t.n = thread[w].n, t.wait = FALSE,
         \/ pending' = pending \ {Id(w)}
         \/ pending' = pending /\ ~thread[w].wait,
         setpoint' \in Limits \cup {None}, timeouts' \in 0..MaxTimeouts,
         TypesOfConnection',
         UNCHANGED <<link, mapped, chain, chargerVars, drops, txs, writes,
                     alone, sure, failed>>
  PROVE  IInv'
<1>0. TypesOfService /\ TypesOfConnection /\ TypesOfCharger /\ TypesOfHistory
  BY TypesByOwner DEF IInv
<1>1. /\ thread \in [Threads -> ThreadState] /\ writes \in 0..MaxWrites
      /\ ThreadsInv /\ PendingIsAwaited /\ t.n \in {0, thread[w].n} /\ writes' = writes
  BY <1>0 DEF IInv, TypesOfService, TypesOfHistory
<1>2. /\ thread' \in [Threads -> ThreadState]
      /\ ThreadsInv'
      /\ \A v \in Threads \ {w} : thread'[v] = thread[v] /\ Id(v)' = Id(v)
      /\ \A v \in Threads : Busy(v)' => Busy(v)
  BY <1>1, OneThread
<1>3. PendingIsAwaited'
  BY <1>1, <1>2, StillAwaited
<1>4. HandlersHaveCalls'
  BY <1>2 DEF HandlersHaveCalls, IInv, Threads
<1>5. TypesOfService'
  BY <1>0, <1>2 DEF TypesOfService
<1>6. TypesOfCharger' /\ TypesOfHistory'
  BY <1>0 DEF TypesOfCharger, TypesOfHistory, chargerVars
<1> QED BY <1>2, <1>3, <1>4, <1>5, <1>6, TypesByOwnerNext DEF IInv

(* A CALL is sent: its id is pending from before the frame is written, and *)
(* the thread that waits for it is the only one with this id.              *)
LEMMA SendCallKeepsIInv ==
  ASSUME IInv, NEW w \in Threads, SendCall(w)
  PROVE  IInv'
<1>0. TypesOfService /\ TypesOfConnection /\ TypesOfCharger /\ TypesOfHistory
  BY TypesByOwner DEF IInv
<1>1. thread \in [Threads -> ThreadState] /\ thread[w] \in ThreadState
  BY <1>0 DEF TypesOfService
<1>2. /\ At(w, {"clear", "set"}) /\ ~Finished(w)
      /\ UNCHANGED <<link, mapped, setpoint, chain, toServer, chargerVars, historyVars>>
  BY DEF SendCall
<1>3. /\ Busy(w) /\ ~thread[w].wait /\ thread[w].pc \in 1..Len(Ops(w))
      /\ Op(w).op \in {"clear", "set"} /\ Op(w) \in Operation
  BY <1>1, <1>2, AtOperation
<1>4. CASE link
  <2> DEFINE t == [thread[w] EXCEPT !.wait = TRUE]
             m == [id |-> Id(w), op |-> Op(w).op, purpose |-> Op(w).purpose,
                   limit |-> thread[w].limit, tx |-> thread[w].tx]
  <2>1. /\ pending' = pending \cup {Id(w)} /\ toCp' = Append(toCp, m)
        /\ thread' = [thread EXCEPT ![w] = t]
    BY <1>1, <1>4 DEF SendCall
  <2>2. /\ t \in ThreadState /\ t.wait = TRUE /\ t.n = thread[w].n /\ t.pc = thread[w].pc
        /\ t.limit = thread[w].limit /\ t.release = thread[w].release
        /\ t.tx = thread[w].tx
    BY <1>1 DEF ThreadState
  <2>3. m \in Request
    <3>1. Id(w) \in MessageId
      BY <1>1, <1>3, IdIsTyped
    <3>2. thread[w].limit \in Limits /\ thread[w].tx \in 0..MaxTx
      BY <1>1 DEF ThreadState
    <3>3. Op(w).purpose \in Purposes \cup {"All"}
      BY <1>3 DEF Operation
    <3> QED BY <1>3, <3>1, <3>2, <3>3 DEF Request
  <2> HIDE DEF t, m
  <2>4. /\ thread' \in [Threads -> ThreadState] /\ thread'[w] = t
        /\ \A v \in Threads \ {w} : thread'[v] = thread[v]
    BY <1>1, <2>1, <2>2
  <2>5. \A v \in Threads : /\ Busy(v)' <=> Busy(v)
                           /\ Asking(v)' <=> Asking(v)
                           /\ Id(v)' = Id(v)
                           /\ thread'[v].n = thread[v].n
                           /\ thread[v].wait => thread'[v].wait
    BY <2>2, <2>4, SameThread
  <2>6. WaitingIsAsking'
    BY <1>2, <1>3, <2>4, <2>5 DEF WaitingIsAsking, ThreadsInv, IInv, Asking
  <2>7. WritesAreNumbered'
    BY <1>2, <2>5 DEF WritesAreNumbered, ThreadsInv, IInv, historyVars
  <2>8. HandlersHaveCalls'
    BY <1>2, <2>5 DEF HandlersHaveCalls, IInv, Threads
  <2>9. PendingIsAwaited'
    BY <2>1, <2>2, <2>4, <2>5 DEF PendingIsAwaited, IInv
  <2>10. TypesOfService'
    <3>1. pending' \subseteq MessageId
      BY <1>0, <1>1, <1>3, <2>1, IdIsTyped DEF TypesOfService
    <3> QED BY <1>0, <1>2, <2>4, <3>1 DEF TypesOfService
  <2>11. TypesOfConnection'
    BY <1>0, <1>2, <2>1, <2>3 DEF TypesOfConnection
  <2>12. TypesOfCharger' /\ TypesOfHistory'
    BY <1>0, <1>2 DEF TypesOfCharger, TypesOfHistory, chargerVars, historyVars
  <2> QED BY <2>6, <2>7, <2>8, <2>9, <2>10, <2>11, <2>12, TypesByOwnerNext DEF IInv, ThreadsInv
<1>5. CASE ~link
  <2>1. thread' = [thread EXCEPT ![w] = Past(w, FALSE)] /\ UNCHANGED <<pending, toCp>>
    BY <1>5 DEF SendCall
  <2>2. /\ Past(w, FALSE) \in ThreadState
        /\ Past(w, FALSE).n = thread[w].n /\ Past(w, FALSE).wait = FALSE
    BY <1>1, <1>3, PastIsTyped
  <2>3. setpoint' \in Limits \cup {None} /\ timeouts' \in 0..MaxTimeouts
    BY <1>0, <1>2 DEF TypesOfService, TypesOfHistory, historyVars
  <2>4. TypesOfConnection'
    BY <1>0, <1>2, <2>1 DEF TypesOfConnection
  <2> QED BY <1>2, <1>3, <2>1, <2>2, <2>3, <2>4, PastKeepsIInv DEF historyVars
<1> QED BY <1>4, <1>5

(* The steps of a write, and the timer of its wait.                        *)
LEMMA StepKeepsIInv ==
  ASSUME IInv, NEW w \in Threads, Publish(w) \/ ReadTx(w) \/ SendCall(w) \/ TimeOut(w)
  PROVE  IInv'
<1>0. TypesOfService /\ TypesOfConnection /\ TypesOfCharger /\ TypesOfHistory
  BY TypesByOwner DEF IInv
<1>1. /\ thread \in [Threads -> ThreadState] /\ thread[w] \in ThreadState
      /\ setpoint \in Limits \cup {None} /\ timeouts \in 0..MaxTimeouts
  BY <1>0 DEF TypesOfService, TypesOfHistory
<1>2. CASE Publish(w)
  <2> DEFINE t == [thread[w] EXCEPT !.pc = @ + 1]
  <2>1. /\ At(w, {"publish"}) /\ thread' = [thread EXCEPT ![w] = t]
        /\ setpoint' = thread[w].limit
        /\ UNCHANGED <<link, mapped, pending, chain, toCp, toServer, chargerVars, historyVars>>
    BY <1>1, <1>2 DEF Publish
  <2>2. ~thread[w].wait /\ thread[w].pc + 1 \in 1..10
    BY <1>1, <2>1, AtOperation
  <2>3. t \in ThreadState /\ t.n = thread[w].n /\ t.wait = FALSE
    BY <1>1, <2>2 DEF ThreadState
  <2>4. setpoint' \in Limits \cup {None}
    BY <1>1, <2>1 DEF ThreadState
  <2> HIDE DEF t
  <2>5. TypesOfConnection'
    BY <1>0, <2>1 DEF TypesOfConnection
  <2> QED BY <1>1, <2>1, <2>2, <2>3, <2>4, <2>5, PastKeepsIInv DEF historyVars
<1>3. CASE ReadTx(w)
  <2> DEFINE t == [thread[w] EXCEPT !.tx = mapped, !.pc = @ + 1]
  <2>1. /\ At(w, {"readTx"}) /\ thread' = [thread EXCEPT ![w] = t]
        /\ UNCHANGED <<link, mapped, setpoint, pending, chain, toCp, toServer,
                       chargerVars, historyVars>>
    BY <1>1, <1>3 DEF ReadTx
  <2>2. ~thread[w].wait /\ thread[w].pc + 1 \in 1..10 /\ mapped \in 0..MaxTx
    BY <1>0, <1>1, <2>1, AtOperation DEF TypesOfService
  <2>3. t \in ThreadState /\ t.n = thread[w].n /\ t.wait = FALSE
    BY <1>1, <2>2 DEF ThreadState
  <2> HIDE DEF t
  <2>4. TypesOfConnection'
    BY <1>0, <2>1 DEF TypesOfConnection
  <2> QED BY <1>1, <2>1, <2>2, <2>3, <2>4, PastKeepsIInv DEF historyVars
<1>4. CASE SendCall(w)
  BY <1>4, SendCallKeepsIInv
<1>5. CASE TimeOut(w)
  <2>1. /\ thread[w].wait /\ timeouts < MaxTimeouts /\ timeouts' = timeouts + 1
        /\ pending' = pending \ {Id(w)}
        /\ thread' = [thread EXCEPT ![w] = Past(w, FALSE)]
        /\ UNCHANGED <<link, mapped, setpoint, chain, toCp, toServer, chargerVars,
                       drops, txs, writes, alone, sure, failed>>
    BY <1>5 DEF TimeOut
  <2>2. thread[w].pc \in 1..Len(Ops(w))
    BY <2>1, WaitingOperation DEF IInv, ThreadsInv
  <2>3. /\ Past(w, FALSE) \in ThreadState
        /\ Past(w, FALSE).n = thread[w].n /\ Past(w, FALSE).wait = FALSE
    BY <1>1, <2>2, PastIsTyped
  <2>4. timeouts' \in 0..MaxTimeouts
    BY <1>1, <2>1, BoundsAreNumbers
  <2>5. TypesOfConnection'
    BY <1>0, <2>1 DEF TypesOfConnection
  <2> QED BY <1>1, <2>1, <2>3, <2>4, <2>5, PastKeepsIInv
<1> QED BY <1>2, <1>3, <1>4, <1>5

(* The handler of a CALL is done: it is taken from its chain.              *)
LEMMA FinishIsTyped ==
  ASSUME chain \in [Handlers -> Seq(Call)], asked \in BOOLEAN,
         NEW d \in Handlers, chain[d] # <<>>, Finish(d)
  PROVE  /\ chain' \in [Handlers -> Seq(Call)] /\ asked' \in BOOLEAN
         /\ \A e \in Handlers \ {d} : chain'[e] = chain[e]
<1>1. chain' = [chain EXCEPT ![d] = Tail(chain[d])] /\ asked' \in BOOLEAN
  BY DEF Finish
<1>2. Tail(chain[d]) \in Seq(Call)
  BY HeadTailProperties
<1> QED BY <1>1, <1>2

(* A write returns, and with it the handler that began it.                 *)
LEMMA ReturnKeepsIInv ==
  ASSUME IInv, NEW w \in Threads, Return(w)
  PROVE  IInv'
<1>0. TypesOfService /\ TypesOfConnection /\ TypesOfCharger /\ TypesOfHistory
  BY TypesByOwner DEF IInv
<1>1. /\ Busy(w) /\ Finished(w) /\ thread' = [thread EXCEPT ![w] = Idle]
      /\ IF w \in Handlers THEN Finish(w) ELSE UNCHANGED <<chain, asked>>
      /\ sure' = IF w \in alone /\ thread[w].ok
                 THEN [limit |-> thread[w].limit, tx |-> thread[w].tx] ELSE None
      /\ failed' = (failed \/ ~thread[w].ok)
      /\ UNCHANGED <<link, mapped, setpoint, pending, toCp, toServer, tx, profile,
                     drops, timeouts, txs, writes, alone>>
  BY DEF Return
<1>2. ~thread[w].wait
  BY <1>1 DEF IInv, ThreadsInv, WaitingIsAsking, Asking
<1>3. /\ thread \in [Threads -> ThreadState] /\ thread[w] \in ThreadState
      /\ writes \in 0..MaxWrites
      /\ Idle.n \in {0, thread[w].n} /\ Idle.wait = FALSE /\ Idle.n = 0
  BY <1>0 DEF TypesOfService, TypesOfHistory, Idle
<1>4. /\ thread' \in [Threads -> ThreadState]
      /\ ThreadsInv'
      /\ \A v \in Threads \ {w} : thread'[v] = thread[v] /\ Id(v)' = Id(v)
      /\ \A v \in Threads : Busy(v)' => Busy(v)
  BY <1>1, <1>3, BoundsAreNumbers, OneThread DEF IInv
<1>5. PendingIsAwaited'
  BY <1>1, <1>2, <1>4, StillAwaited DEF IInv
<1>6. ~Busy(w)'
  BY <1>1, <1>3 DEF Busy
<1>7. /\ chain' \in [Handlers -> Seq(Call)] /\ asked' \in BOOLEAN
      /\ \A e \in Handlers \ {w} : chain'[e] = chain[e]
  <2>1. CASE w \in Handlers
    <3>1. chain[w] # <<>>
      BY <1>1, <2>1 DEF IInv, HandlersHaveCalls
    <3> QED BY <1>0, <1>1, <2>1, <3>1, FinishIsTyped DEF TypesOfService, TypesOfCharger
  <2>2. CASE w \notin Handlers
    BY <1>0, <1>1, <2>2 DEF TypesOfService, TypesOfCharger
  <2> QED BY <2>1, <2>2
<1>8. HandlersHaveCalls'
  BY <1>4, <1>6, <1>7 DEF IInv, HandlersHaveCalls, Threads
<1>9. TypesOfService'
  BY <1>0, <1>1, <1>4, <1>7 DEF TypesOfService
<1>10. TypesOfConnection' /\ TypesOfCharger'
  BY <1>0, <1>1, <1>7 DEF TypesOfConnection, TypesOfCharger
<1>11. TypesOfHistory'
  <2>1. [limit |-> thread[w].limit, tx |-> thread[w].tx] \in [limit : Limits, tx : 0..MaxTx]
    BY <1>3 DEF ThreadState
  <2>2. sure' \in [limit : Limits, tx : 0..MaxTx] \cup {None}
    BY <1>1, <2>1
  <2>3. failed' \in BOOLEAN
    BY <1>1
  <2> QED BY <1>0, <1>1, <2>2, <2>3 DEF TypesOfHistory
<1> QED BY <1>4, <1>5, <1>8, <1>9, <1>10, <1>11, TypesByOwnerNext DEF IInv

-----------------------------------------------------------------------------
(* A step that leaves the writes and what is pending alone.                *)
LEMMA SameWrites ==
  ASSUME IInv, UNCHANGED <<thread, pending, writes>>
  PROVE  ThreadsInv' /\ PendingIsAwaited' /\ \A v \in Threads : Busy(v)' <=> Busy(v)
<1>1. \A v \in Threads : /\ Busy(v)' <=> Busy(v)
                         /\ Asking(v)' <=> Asking(v)
                         /\ Id(v)' = Id(v)
  BY SameThread
<1> QED BY <1>1 DEF ThreadsInv, WaitingIsAsking, WritesAreNumbered, PendingIsAwaited, IInv

(* OcppDriver.WriteAsync begins a write of its caller.                     *)
LEMMA WriteKeepsIInv ==
  ASSUME IInv, NEW w \in Writers, Write(w)
  PROVE  IInv'
<1>0. TypesOfService /\ TypesOfConnection /\ TypesOfCharger /\ TypesOfHistory
  BY TypesByOwner DEF IInv
<1>1. UNCHANGED <<link, mapped, setpoint, pending, chain, toCp, toServer,
                  chargerVars, drops, timeouts, txs, failed>>
  BY DEF Write
<1>2. PICK limit \in Limits, release \in BOOLEAN : Begin(w, limit, release)
  BY BoundsAreNumbers DEF Write
<1>3. w \in Threads /\ w \notin Handlers
  BY ConstantsAssumption DEF ConstantsAssumption, Threads
<1>4. /\ thread' \in [Threads -> ThreadState] /\ writes' \in 0..MaxWrites
      /\ ThreadsInv' /\ PendingIsAwaited'
      /\ \A v \in Threads \ {w} : Busy(v)' <=> Busy(v)
      /\ alone' \subseteq Threads /\ sure' = None
  BY <1>0, <1>1, <1>2, <1>3, BeginKeepsThreads DEF IInv, TypesOfService, TypesOfHistory
<1>5. HandlersHaveCalls'
  BY <1>1, <1>3, <1>4 DEF HandlersHaveCalls, IInv, Threads
<1>6. TypesOfService'
  BY <1>0, <1>1, <1>4 DEF TypesOfService
<1>7. TypesOfConnection' /\ TypesOfCharger'
  BY <1>0, <1>1 DEF TypesOfConnection, TypesOfCharger, chargerVars
<1>8. TypesOfHistory'
  BY <1>0, <1>1, <1>4 DEF TypesOfHistory
<1> QED BY <1>4, <1>5, <1>6, <1>7, <1>8, TypesByOwnerNext DEF IInv

(* A result ends the wait with its id, of which there is at most one; a    *)
(* CALL goes to the chain of the connection.                               *)
LEMMA ReceiveKeepsIInv ==
  ASSUME IInv, Receive
  PROVE  IInv'
<1>0. TypesOfService /\ TypesOfConnection /\ TypesOfCharger /\ TypesOfHistory
  BY TypesByOwner DEF IInv
<1> DEFINE m == Head(toServer)
<1>1. /\ toServer # <<>> /\ toServer' = Tail(toServer)
      /\ UNCHANGED <<link, mapped, setpoint, toCp, chargerVars, historyVars>>
  BY DEF Receive
<1>2. m \in Call \cup Result /\ Tail(toServer) \in Seq(Call \cup Result)
  BY <1>0, <1>1, HeadTailProperties DEF TypesOfConnection
<1>3. TypesOfConnection' /\ TypesOfCharger' /\ TypesOfHistory'
  BY <1>0, <1>1, <1>2 DEF TypesOfConnection, TypesOfCharger, TypesOfHistory,
     chargerVars, historyVars
<1>4. thread \in [Threads -> ThreadState]
  BY <1>0 DEF TypesOfService
<1>5. CASE m.kind = "Result"
  <2>1. /\ pending' = pending \ {m.id} /\ UNCHANGED chain
        /\ thread' = [w \in Threads |->
             IF m.id \in pending /\ Id(w) = m.id THEN Past(w, m.ok) ELSE thread[w]]
    BY <1>5 DEF Receive
  <2>2. m.ok \in BOOLEAN
    BY <1>2, <1>5 DEF Call, Result
  <2> HIDE DEF m
  <2>3. CASE m.id \in pending
    <3>1. PICK w \in Threads : thread[w].wait /\ Id(w) = m.id
      BY <2>3 DEF IInv, PendingIsAwaited
    <3>2. Busy(w) /\ thread[w].pc \in 1..Len(Ops(w))
      BY <3>1, WaitingOperation DEF IInv, ThreadsInv
    <3>3. \A v \in Threads : Id(v) = m.id => v = w
      <4>1. \A v \in Threads : Id(v) = Id(w) => thread[w].n = thread[v].n
        BY DEF Id
      <4> QED BY <3>1, <3>2, <4>1 DEF IInv, ThreadsInv, WritesAreNumbered
    <3>4. thread' = [thread EXCEPT ![w] = Past(w, m.ok)]
      BY <1>4, <2>1, <2>3, <3>1, <3>3
    <3>5. /\ Past(w, m.ok) \in ThreadState
          /\ Past(w, m.ok).n = thread[w].n /\ Past(w, m.ok).wait = FALSE
      BY <1>4, <2>2, <3>2, PastIsTyped
    <3>6. setpoint' \in Limits \cup {None} /\ timeouts' \in 0..MaxTimeouts
      BY <1>0, <1>1 DEF TypesOfService, TypesOfHistory, historyVars
    <3> QED BY <1>1, <1>3, <2>1, <3>1, <3>4, <3>5, <3>6, PastKeepsIInv DEF historyVars
  <2>4. CASE m.id \notin pending
    <3>1. UNCHANGED <<thread, pending, chain, writes>>
      BY <1>1, <1>4, <2>1, <2>4 DEF historyVars
    <3>2. ThreadsInv' /\ PendingIsAwaited' /\ \A v \in Threads : Busy(v)' <=> Busy(v)
      BY <3>1, SameWrites
    <3>3. HandlersHaveCalls' /\ TypesOfService'
      BY <1>0, <1>1, <3>1, <3>2 DEF HandlersHaveCalls, IInv, Threads, TypesOfService
    <3> QED BY <1>3, <3>2, <3>3, TypesByOwnerNext DEF IInv
  <2> QED BY <2>3, <2>4
<1>6. CASE m.kind # "Result"
  <2>1. /\ chain' = [chain EXCEPT ![drops] = Append(chain[drops], m)]
        /\ UNCHANGED <<pending, thread, writes>>
    BY <1>6 DEF Receive, historyVars
  <2>2. m \in Call
    BY <1>2, <1>6 DEF Result
  <2>3. drops \in Handlers /\ chain \in [Handlers -> Seq(Call)]
    BY <1>0 DEF TypesOfService, TypesOfHistory, Handlers
  <2> HIDE DEF m
  <2>4. Append(chain[drops], m) \in Seq(Call) /\ Append(chain[drops], m) # <<>>
    BY <2>2, <2>3, AppendProperties
  <2>5. /\ chain' \in [Handlers -> Seq(Call)]
        /\ \A d \in Handlers : chain'[d] = chain[d] \/ chain'[d] # <<>>
    BY <2>1, <2>3, <2>4
  <2>6. ThreadsInv' /\ PendingIsAwaited' /\ \A v \in Threads : Busy(v)' <=> Busy(v)
    BY <2>1, SameWrites
  <2>7. HandlersHaveCalls'
    BY <2>5, <2>6 DEF HandlersHaveCalls, IInv, Threads
  <2>8. TypesOfService'
    BY <1>0, <1>1, <2>1, <2>5 DEF TypesOfService
  <2> QED BY <1>3, <2>6, <2>7, <2>8, TypesByOwnerNext DEF IInv
<1> QED BY <1>5, <1>6

(* A handler is about to handle a CALL.                                    *)
LEMMA DueIsTyped ==
  ASSUME TypesOfService, NEW d \in Handlers, NEW kind, Due(d, kind)
  PROVE  ~Busy(d) /\ chain[d] # <<>> /\ Head(chain[d]).tx \in 0..MaxTx
<1>1. Head(chain[d]) \in Call
  BY HeadTailProperties DEF Due, TypesOfService
<1> QED BY <1>1 DEF Due, Call

(* The handlers of the charge point's CALLs that finish at once.           *)
LEMMA HandledKeepsIInv ==
  ASSUME IInv, NEW d \in Handlers, chain[d] # <<>>, ~Busy(d), Finish(d),
         mapped' \in 0..MaxTx, tx' \in 0..MaxTx, txs' \in 0..MaxTx,
         profile' \in [Purposes -> Limits \cup {None}],
         UNCHANGED <<link, setpoint, pending, thread, toCp, toServer, drops, timeouts,
                     writes, alone, sure, failed>>
  PROVE  IInv'
<1>0. TypesOfService /\ TypesOfConnection /\ TypesOfCharger /\ TypesOfHistory
  BY TypesByOwner DEF IInv
<1>1. /\ chain' \in [Handlers -> Seq(Call)] /\ asked' \in BOOLEAN
      /\ \A e \in Handlers \ {d} : chain'[e] = chain[e]
  BY <1>0, FinishIsTyped DEF TypesOfService, TypesOfCharger
<1>2. ThreadsInv' /\ PendingIsAwaited' /\ \A v \in Threads : Busy(v)' <=> Busy(v)
  BY SameWrites
<1>3. HandlersHaveCalls'
  BY <1>1, <1>2 DEF HandlersHaveCalls, IInv, Threads
<1>4. TypesOfService' /\ TypesOfConnection' /\ TypesOfCharger' /\ TypesOfHistory'
  BY <1>0, <1>1 DEF TypesOfService, TypesOfConnection, TypesOfCharger, TypesOfHistory
<1> QED BY <1>2, <1>3, <1>4, TypesByOwnerNext DEF IInv

(* The handlers of the charge point's CALLs, one of which may begin a      *)
(* write before it finishes.                                               *)
LEMMA HandleKeepsIInv ==
  ASSUME IInv, NEW d \in Handlers, Handle(d)
  PROVE  IInv'
<1>0. TypesOfService /\ TypesOfConnection /\ TypesOfCharger /\ TypesOfHistory
  BY TypesByOwner DEF IInv
<1>1. /\ mapped \in 0..MaxTx /\ tx \in 0..MaxTx /\ txs \in 0..MaxTx /\ MaxTx \in Nat
      /\ profile \in [Purposes -> Limits \cup {None}] /\ d \in Threads
  BY <1>0, BoundsAreNumbers DEF TypesOfService, TypesOfCharger, TypesOfHistory, Threads
<1>2. CASE HandleStart(d)
  <2>1. /\ Due(d, "Start") /\ txs < MaxTx /\ txs' = txs + 1 /\ mapped' = txs + 1
        /\ tx' \in {txs + 1, tx} /\ Finish(d)
        /\ UNCHANGED <<link, setpoint, pending, thread, toCp, toServer, profile,
                       drops, timeouts, writes, alone, sure, failed>>
    BY <1>2 DEF HandleStart
  <2>2. mapped' \in 0..MaxTx /\ tx' \in 0..MaxTx /\ txs' \in 0..MaxTx
    BY <1>1, <2>1
  <2> QED BY <1>0, <1>1, <2>1, <2>2, DueIsTyped, HandledKeepsIInv
<1>3. CASE HandleStop(d)
  <2>1. /\ Due(d, "Stop") /\ mapped' = 0 /\ tx' \in {0, tx} /\ Finish(d)
        /\ profile' = [profile EXCEPT !["Tx"] = None] \/ profile' = profile
        /\ UNCHANGED <<link, setpoint, pending, thread, toCp, toServer, drops, timeouts,
                       txs, writes, alone, sure, failed>>
    BY <1>3 DEF HandleStop
  <2>2. /\ mapped' \in 0..MaxTx /\ tx' \in 0..MaxTx /\ txs' \in 0..MaxTx
        /\ profile' \in [Purposes -> Limits \cup {None}]
    BY <1>1, <2>1
  <2> QED BY <1>0, <2>1, <2>2, DueIsTyped, HandledKeepsIInv
<1>4. CASE HandleMeter(d)
  <2>1. /\ Due(d, "Meter") /\ mapped' = Head(chain[d]).tx
        /\ UNCHANGED <<link, setpoint, pending, toCp, toServer, tx, profile, drops,
                       timeouts, txs, failed>>
    BY <1>4 DEF HandleMeter
  <2>2. ~Busy(d) /\ chain[d] # <<>> /\ mapped' \in 0..MaxTx
    BY <1>0, <2>1, DueIsTyped
  <2>3. CASE Finish(d) /\ UNCHANGED <<thread, writes, alone, sure>>
    BY <1>1, <2>1, <2>2, <2>3, HandledKeepsIInv
  <2>4. CASE setpoint # None /\ Begin(d, setpoint, FALSE) /\ UNCHANGED <<chain, asked>>
    <3>1. setpoint \in Limits
      BY <1>0, <2>4 DEF TypesOfService
    <3>2. /\ thread' \in [Threads -> ThreadState] /\ writes' \in 0..MaxWrites
          /\ ThreadsInv' /\ PendingIsAwaited'
          /\ \A v \in Threads \ {d} : Busy(v)' <=> Busy(v)
          /\ alone' \subseteq Threads /\ sure' = None
      BY <1>0, <1>1, <2>1, <2>4, <3>1, BeginKeepsThreads
         DEF IInv, TypesOfService, TypesOfHistory
    <3>3. HandlersHaveCalls'
      BY <2>2, <2>4, <3>2 DEF HandlersHaveCalls, IInv, Threads
    <3>4. TypesOfService'
      BY <1>0, <2>1, <2>2, <2>4, <3>2 DEF TypesOfService
    <3>5. TypesOfConnection' /\ TypesOfCharger'
      BY <1>0, <2>1, <2>4 DEF TypesOfConnection, TypesOfCharger
    <3>6. TypesOfHistory'
      BY <1>0, <2>1, <3>2 DEF TypesOfHistory
    <3> QED BY <3>2, <3>3, <3>4, <3>5, <3>6, TypesByOwnerNext DEF IInv
  <2> QED BY <1>4, <2>3, <2>4 DEF HandleMeter
<1> QED BY <1>2, <1>3, <1>4 DEF Handle

(* The connection and the charge point disturb no wait.                    *)
LEMMA ConnectionKeepsIInv ==
  ASSUME IInv, Connect \/ Drop \/ Ask \/ Answer
  PROVE  IInv'
<1>0. TypesOfService /\ TypesOfConnection /\ TypesOfCharger /\ TypesOfHistory
  BY TypesByOwner DEF IInv
<1>1. UNCHANGED <<setpoint, pending, thread, chain, writes, timeouts, txs, alone, sure, failed>>
  BY DEF Connect, Drop, Ask, Answer, historyVars
<1>2. ThreadsInv' /\ PendingIsAwaited' /\ \A v \in Threads : Busy(v)' <=> Busy(v)
  BY <1>1, SameWrites
<1>3. HandlersHaveCalls'
  BY <1>1, <1>2 DEF HandlersHaveCalls, IInv, Threads
<1>4. /\ mapped' \in 0..MaxTx /\ drops' \in 0..MaxDrops
      /\ link' \in BOOLEAN /\ asked' \in BOOLEAN
  <2>1. CASE Drop
    <3>1. mapped' = 0 /\ drops' = drops + 1 /\ drops < MaxDrops
      BY <2>1 DEF Drop
    <3>2. mapped' \in 0..MaxTx /\ drops' \in 0..MaxDrops
      BY <1>0, <3>1, BoundsAreNumbers DEF TypesOfHistory
    <3>3. link' = FALSE /\ asked' = FALSE
      BY <2>1 DEF Drop
    <3> QED BY <3>2, <3>3
  <2>2. CASE Connect \/ Ask \/ Answer
    BY <1>0, <2>2 DEF Connect, Ask, Answer, TypesOfService, TypesOfCharger,
       TypesOfHistory, chargerVars, historyVars
  <2> QED BY <2>1, <2>2
<1>5. TypesOfService' /\ TypesOfHistory'
  BY <1>0, <1>1, <1>4 DEF TypesOfService, TypesOfHistory
<1>6. TypesOfConnection' /\ TypesOfCharger'
  <2>1. CASE Connect
    BY <1>0, <2>1 DEF Connect, TypesOfConnection, TypesOfCharger, chargerVars
  <2>2. CASE Drop
    <3>1. toCp' = <<>> /\ toServer' = <<>> /\ UNCHANGED <<tx, profile>>
      BY <2>2 DEF Drop
    <3> QED BY <1>0, <1>4, <3>1 DEF TypesOfConnection, TypesOfCharger
  <2>3. CASE Ask
    <3>1. PICK kind \in {"Start", "Meter", "Stop"} :
            toServer' = Append(toServer, [kind |-> kind, tx |-> tx])
      BY <2>3 DEF Ask
    <3>2. [kind |-> kind, tx |-> tx] \in Call
      BY <1>0 DEF TypesOfCharger, Call
    <3>3. toServer' \in Seq(Call \cup Result)
      BY <1>0, <3>1, <3>2, AppendProperties DEF TypesOfConnection
    <3>4. UNCHANGED <<toCp, tx, profile>>
      BY <2>3 DEF Ask
    <3> QED BY <1>0, <1>4, <3>3, <3>4 DEF TypesOfConnection, TypesOfCharger
  <2>4. CASE Answer
    <3> DEFINE m == Head(toCp)
    <3>1. PICK ok \in BOOLEAN :
            /\ toServer' = Append(toServer, [kind |-> "Result", id |-> m.id, ok |-> ok])
            /\ profile' = [p \in Purposes |->
                 IF ok /\ m.purpose \in {p, "All"}
                 THEN IF m.op = "set" THEN m.limit ELSE None
                 ELSE profile[p]]
      BY <2>4, ConstantsAssumption DEF ConstantsAssumption, Answer
    <3>2. toCp # <<>> /\ toCp' = Tail(toCp) /\ UNCHANGED <<tx, asked>>
      BY <2>4 DEF Answer
    <3>3. m \in Request /\ Tail(toCp) \in Seq(Request)
      BY <1>0, <3>2, HeadTailProperties DEF TypesOfConnection
    <3>4. [kind |-> "Result", id |-> m.id, ok |-> ok] \in Result /\ m.limit \in Limits
      BY <3>3 DEF Request, Result
    <3> HIDE DEF m
    <3>5. toServer' \in Seq(Call \cup Result)
      BY <1>0, <3>1, <3>4, AppendProperties DEF TypesOfConnection
    <3>6. profile' \in [Purposes -> Limits \cup {None}]
      BY <1>0, <3>1, <3>4 DEF TypesOfCharger
    <3> QED BY <1>0, <3>2, <3>3, <3>5, <3>6 DEF TypesOfConnection, TypesOfCharger
  <2> QED BY <2>1, <2>2, <2>3, <2>4
<1> QED BY <1>2, <1>3, <1>5, <1>6, TypesByOwnerNext DEF IInv

(* Every step keeps the invariant.                                         *)
LEMMA NextIInv == IInv /\ [Next]_vars => IInv'
<1> SUFFICES ASSUME IInv, [Next]_vars PROVE IInv'
  OBVIOUS
<1>1. CASE UNCHANGED vars
  <2>1. UNCHANGED <<thread, pending, writes>>
    BY <1>1 DEF vars
  <2>2. ThreadsInv' /\ PendingIsAwaited' /\ \A v \in Threads : Busy(v)' <=> Busy(v)
    BY <2>1, SameWrites
  <2>3. HandlersHaveCalls' /\ TypeOK'
    BY <1>1, <2>2 DEF vars, IInv, HandlersHaveCalls, Threads, TypeOK
  <2> QED BY <2>2, <2>3 DEF IInv
<1>2. CASE Next
  BY <1>2, WriteKeepsIInv, StepKeepsIInv, ReturnKeepsIInv, HandleKeepsIInv,
     ReceiveKeepsIInv, ConnectionKeepsIInv DEF Next, Step
<1> QED BY <1>1, <1>2

(* Nothing piles up in _pendingCallResults: each entry has a thread that   *)
(* waits for the answer, whatever times out, is refused, comes late or is  *)
(* lost with the connection; SendChargingProfileMessageAsync and the       *)
(* receive loop of OcppManagerService.cs.                                  *)
THEOREM AnswersMatchedHolds == Spec => []AnswersMatched
<1>1. IInv => AnswersMatched
  BY DEF IInv, AnswersMatched
<1> QED BY <1>1, InitIInv, NextIInv, PTL DEF Spec

-----------------------------------------------------------------------------
(* A write ends with its three CALLs that set profiles.                    *)

End(w) == Len(Ops(w))

(* The last three operations of a write, before which it sets nothing.     *)
LEMMA ProgramEnds ==
  ASSUME NEW limit, NEW release \in BOOLEAN
  PROVE  LET p == Program(limit, release)
             n == Len(p) IN
         /\ p \in Seq(Operation) /\ n \in 6..9
         /\ p[n - 2] = SetOp("Max") /\ p[n - 1] = SetOp("Default") /\ p[n] = SetOp("Tx")
         /\ \A i \in 1..n : p[i].op = "set" => i >= n - 2
<1> DEFINE a == IF release THEN <<ClearOp("All")>> ELSE <<>>
           b == <<PublishOp>>
           c == IF limit < MaxLimit THEN <<ClearOp("Tx"), ReadTxOp>>
                ELSE <<ReadTxOp, ClearOp("Max"), ClearOp("Default"), ClearOp("Tx")>>
           d == <<SetOp("Max"), SetOp("Default"), SetOp("Tx")>>
<1>1. a \in Seq(Operation) /\ Len(a) \in 0..1 /\ \A i \in 1..Len(a) : a[i].op # "set"
  <2>1. CASE release
    BY <2>1 DEF ClearOp, Operation, Purposes
  <2>2. CASE ~release
    BY <2>2
  <2> QED BY <2>1, <2>2
<1>2. b \in Seq(Operation) /\ Len(b) = 1 /\ \A i \in 1..Len(b) : b[i].op # "set"
  BY DEF PublishOp, Operation, Purposes
<1>3. c \in Seq(Operation) /\ Len(c) \in 2..4 /\ \A i \in 1..Len(c) : c[i].op # "set"
  <2>1. CASE limit < MaxLimit
    BY <2>1 DEF ClearOp, ReadTxOp, Operation, Purposes
  <2>2. CASE ~(limit < MaxLimit)
    BY <2>2 DEF ClearOp, ReadTxOp, Operation, Purposes
  <2> QED BY <2>1, <2>2
<1>4. /\ d \in Seq(Operation) /\ Len(d) = 3
      /\ d[1] = SetOp("Max") /\ d[2] = SetOp("Default") /\ d[3] = SetOp("Tx")
  BY DEF SetOp, Operation, Purposes
<1>5. Program(limit, release) = a \o ((b \o c) \o d)
  BY DEF Program, SetLimit
<1> HIDE DEF a, b, c, d
<1>6. b \o c \in Seq(Operation) /\ Len(b \o c) \in 3..5 /\ \A i \in 1..Len(b \o c) : (b \o c)[i].op # "set"
  <2>1. /\ b \o c \in Seq(Operation) /\ Len(b \o c) = Len(b) + Len(c)
        /\ \A i \in 1..Len(b) + Len(c) : (b \o c)[i] = IF i <= Len(b) THEN b[i] ELSE c[i - Len(b)]
    BY <1>2, <1>3, ConcatProperties
  <2>2. \A n \in 2..4 : 1 + n \in 3..5
    OBVIOUS
  <2>3. \A i \in 1..Len(b) + Len(c) : i \in 1..Len(b) \/ (~(i <= Len(b)) /\ i - Len(b) \in 1..Len(c))
    BY <1>2, <1>3
  <2>4. \A i \in 1..Len(b) : i <= Len(b)
    BY <1>2
  <2> QED BY <1>2, <1>3, <2>1, <2>2, <2>3, <2>4
<1>7. LET e == (b \o c) \o d IN
      /\ e \in Seq(Operation) /\ Len(e) \in 6..8 /\ Len(e) = Len(b \o c) + 3
      /\ e[Len(e) - 2] = SetOp("Max") /\ e[Len(e) - 1] = SetOp("Default") /\ e[Len(e)] = SetOp("Tx")
      /\ \A i \in 1..Len(e) : e[i].op = "set" => i >= Len(e) - 2
  <2> DEFINE f == b \o c
             e == f \o d
  <2>1. /\ e \in Seq(Operation) /\ Len(e) = Len(f) + Len(d)
        /\ \A i \in 1..Len(f) + Len(d) : e[i] = IF i <= Len(f) THEN f[i] ELSE d[i - Len(f)]
    BY <1>4, <1>6, ConcatProperties
  <2> HIDE DEF e, f
  <2>2. Len(f) \in 3..5 /\ \A i \in 1..Len(f) : f[i].op # "set"
    BY <1>6 DEF f
  <2>3. e[Len(f) + 1] = d[1] /\ e[Len(f) + 2] = d[2] /\ e[Len(f) + 3] = d[3]
    BY <1>4, <2>1, <2>2
  <2>4. Len(e) = Len(f) + 3 /\ \A i \in 1..Len(e) : i <= Len(f) \/ i >= Len(e) - 2
    BY <1>4, <2>1, <2>2
  <2>5. \A i \in 1..Len(e) : i <= Len(f) => e[i] = f[i] /\ i \in 1..Len(f)
    BY <1>4, <2>1, <2>2
  <2>6. Len(e) - 2 = Len(f) + 1 /\ Len(e) - 1 = Len(f) + 2 /\ Len(e) \in 6..8
    <3>1. \A x \in 3..5 : (x + 3) - 2 = x + 1 /\ (x + 3) - 1 = x + 2 /\ x + 3 \in 6..8
      OBVIOUS
    <3> QED BY <2>2, <2>4, <3>1
  <2>7. /\ e \in Seq(Operation) /\ Len(e) \in 6..8 /\ Len(e) = Len(f) + 3
        /\ e[Len(e) - 2] = SetOp("Max") /\ e[Len(e) - 1] = SetOp("Default") /\ e[Len(e)] = SetOp("Tx")
    BY <1>4, <2>1, <2>3, <2>4, <2>6
  <2>8. \A i \in 1..Len(e) : e[i].op = "set" => i >= Len(e) - 2
    BY <2>2, <2>4, <2>5
  <2> QED BY <2>7, <2>8 DEF e, f
<1>8. QED
  <2> DEFINE e == (b \o c) \o d
             p == a \o e
  <2>1. /\ e \in Seq(Operation) /\ Len(e) \in 6..8
        /\ e[Len(e) - 2] = SetOp("Max") /\ e[Len(e) - 1] = SetOp("Default") /\ e[Len(e)] = SetOp("Tx")
        /\ \A i \in 1..Len(e) : e[i].op = "set" => i >= Len(e) - 2
    BY <1>7
  <2> HIDE DEF e
  <2>2. /\ p \in Seq(Operation) /\ Len(p) = Len(a) + Len(e)
        /\ \A i \in 1..Len(a) + Len(e) : p[i] = IF i <= Len(a) THEN a[i] ELSE e[i - Len(a)]
    BY <1>1, <2>1, ConcatProperties
  <2> HIDE DEF p
  <2>3. \A k \in 1..Len(e) : p[Len(a) + k] = e[k]
    <3>1. \A x \in 0..1, y \in 6..8 : \A k \in 1..y :
            x + k \in 1..x + y /\ ~(x + k <= x) /\ (x + k) - x = k
      OBVIOUS
    <3>2. ASSUME NEW k \in 1..Len(e) PROVE p[Len(a) + k] = e[k]
      <4>1. /\ Len(a) + k \in 1..Len(a) + Len(e) /\ ~(Len(a) + k <= Len(a))
            /\ (Len(a) + k) - Len(a) = k
        BY <1>1, <2>1, <3>1
      <4>2. p[Len(a) + k] = e[(Len(a) + k) - Len(a)]
        BY <2>2, <4>1
      <4> QED BY <4>1, <4>2
    <3> QED BY <3>2
  <2>4. /\ Len(p) \in 6..9
        /\ Len(e) - 2 \in 1..Len(e) /\ Len(e) - 1 \in 1..Len(e) /\ Len(e) \in 1..Len(e)
        /\ Len(p) - 2 = Len(a) + (Len(e) - 2) /\ Len(p) - 1 = Len(a) + (Len(e) - 1)
    <3>1. \A x \in 0..1, y \in 6..8 :
            /\ x + y \in 6..9 /\ y - 2 \in 1..y /\ y - 1 \in 1..y /\ y \in 1..y
            /\ (x + y) - 2 = x + (y - 2) /\ (x + y) - 1 = x + (y - 1)
      OBVIOUS
    <3> QED BY <1>1, <2>1, <2>2, <3>1
  <2>5. /\ p[Len(p) - 2] = SetOp("Max") /\ p[Len(p) - 1] = SetOp("Default")
        /\ p[Len(p)] = SetOp("Tx")
    BY <2>1, <2>2, <2>3, <2>4
  <2>6. \A i \in 1..Len(p) : p[i].op = "set" => i >= Len(p) - 2
    <3> SUFFICES ASSUME NEW i \in 1..Len(p), p[i].op = "set" PROVE i >= Len(p) - 2
      OBVIOUS
    <3>1. ~(i <= Len(a))
      <4>1. i <= Len(a) => i \in 1..Len(a) /\ p[i] = a[i]
        BY <1>1, <2>1, <2>2
      <4> QED BY <1>1, <4>1
    <3>2. i - Len(a) \in 1..Len(e) /\ p[i] = e[i - Len(a)]
      BY <1>1, <2>1, <2>2, <3>1
    <3>3. i - Len(a) >= Len(e) - 2
      BY <2>1, <3>2
    <3> QED BY <1>1, <2>1, <2>2, <3>3
  <2>7. Program(limit, release) = p
    BY <1>5 DEF p, e
  <2> QED BY <2>2, <2>4, <2>5, <2>6, <2>7

(* The same of a thread.                                                   *)
LEMMA OpsEnd ==
  ASSUME thread \in [Threads -> ThreadState], NEW w \in Threads
  PROVE  /\ End(w) \in 6..9 /\ thread[w].pc \in 1..10
         /\ thread[w].pc = End(w) - 2 => Op(w) = SetOp("Max")
         /\ thread[w].pc = End(w) - 1 => Op(w) = SetOp("Default")
         /\ thread[w].pc = End(w) => Op(w) = SetOp("Tx")
         /\ thread[w].pc \in 1..End(w) /\ Op(w).op = "set" => thread[w].pc >= End(w) - 2
         /\ thread[w].pc \in 1..End(w) /\ Op(w).op # "set" => thread[w].pc < End(w) - 2
<1>1. thread[w].release \in BOOLEAN /\ thread[w].pc \in 1..10
  BY DEF ThreadState
<1> DEFINE p == Program(thread[w].limit, thread[w].release)
           n == Len(p)
           i == thread[w].pc
<1>2. /\ n \in 6..9
      /\ p[n - 2] = SetOp("Max") /\ p[n - 1] = SetOp("Default") /\ p[n] = SetOp("Tx")
      /\ \A j \in 1..n : p[j].op = "set" => j >= n - 2
  BY <1>1, ProgramEnds
<1>3. p = Ops(w) /\ n = End(w) /\ p[i] = Op(w)
  BY DEF Ops, End, Op
<1>4. \A x : SetOp(x).op = "set"
  BY DEF SetOp
<1> HIDE DEF p, n, i
<1>5. i \in 1..10
  BY <1>1 DEF i
<1>6. i \in 1..n /\ p[i].op # "set" => i < n - 2
  <2>1. \A x \in 6..9 : \A j \in 1..x : j < x - 2 \/ j = x - 2 \/ j = x - 1 \/ j = x
    OBVIOUS
  <2> QED BY <1>2, <1>4, <2>1
<1> QED BY <1>2, <1>3, <1>5, <1>6 DEF i

-----------------------------------------------------------------------------
(* What is in a sequence.                                                  *)
In(x, s) == \E i \in 1..Len(s) : s[i] = x

(* The tail has what the sequence has, and the head is in it.              *)
LEMMA InTail ==
  ASSUME NEW S, NEW s \in Seq(S), s # <<>>
  PROVE  /\ In(Head(s), s)
         /\ \A x : In(x, Tail(s)) => In(x, s)
<1>1. Len(s) \in Nat /\ Len(s) # 0
  BY EmptySeq
<1>2. /\ Tail(s) \in Seq(S) /\ Len(Tail(s)) = Len(s) - 1
      /\ \A i \in 1..Len(Tail(s)) : Tail(s)[i] = s[i + 1]
  BY HeadTailProperties
<1>3. \A i \in 1..Len(Tail(s)) : i + 1 \in 1..Len(s)
  BY <1>1, <1>2
<1>4. Head(s) = s[1] /\ 1 \in 1..Len(s)
  BY <1>1
<1> QED BY <1>2, <1>3, <1>4 DEF In

(* Appending adds the element.                                             *)
LEMMA InAppend ==
  ASSUME NEW S, NEW s \in Seq(S), NEW e \in S
  PROVE  \A x : In(x, Append(s, e)) <=> x = e \/ In(x, s)
<1>1. /\ Len(s) \in Nat /\ Len(Append(s, e)) = Len(s) + 1
      /\ \A i \in 1..Len(s) : Append(s, e)[i] = s[i]
      /\ Append(s, e)[Len(s) + 1] = e
  BY LenProperties, AppendProperties
<1>2. \A i \in 1..Len(s) + 1 : i \in 1..Len(s) \/ i = Len(s) + 1
  BY <1>1
<1>3. Len(s) + 1 \in 1..Len(s) + 1 /\ \A i \in 1..Len(s) : i \in 1..Len(s) + 1
  BY <1>1
<1> QED BY <1>1, <1>2, <1>3 DEF In

-----------------------------------------------------------------------------
(* Why an applied write is installed.                                      *)

(* No part of the system knows of a transaction that is yet to start.      *)
TxsKnown ==
  /\ tx <= txs /\ mapped <= txs
  /\ \A w \in Threads : thread[w].tx <= txs
  /\ \A d \in Handlers : \A c \in Call : In(c, chain[d]) => c.tx <= txs
  /\ \A c \in Call : In(c, toServer) => c.tx <= txs

(* A message was sent for an operation at which its thread waits still, or *)
(* that lies behind it.                                                    *)
Earlier(id) ==
  /\ id[1] <= writes
  /\ \A w \in Threads : Busy(w) /\ thread[w].n = id[1] =>
       id[2] < thread[w].pc \/ (id[2] = thread[w].pc /\ thread[w].wait)

IdsAreSpent ==
  /\ \A m \in Request : In(m, toCp) => Earlier(m.id)
  /\ \A r \in Result : In(r, toServer) => Earlier(r.id)

(* The charge point has the limit for this purpose; what it has for the    *)
(* transaction counts as long as it is the one of the write.               *)
Installed(purpose, limit, t) ==
  IF purpose = "Tx" THEN tx # 0 /\ tx = t => profile["Tx"] = limit
  ELSE profile[purpose] = limit

Has(w, purpose) == Installed(purpose, thread[w].limit, thread[w].tx)

Own(w) == [id |-> Id(w), op |-> Op(w).op, purpose |-> Op(w).purpose,
           limit |-> thread[w].limit, tx |-> thread[w].tx]

NoResultFor(id) == \A r \in Result : In(r, toServer) => r.id # id

(* The charge point has yet to answer what the thread waits for, the last  *)
(* message on its way.                                                     *)
Unanswered(w) ==
  /\ toCp # <<>> /\ toCp[Len(toCp)] = Own(w)
  /\ \A i \in 1..Len(toCp) : i # Len(toCp) => toCp[i].id # Id(w)
  /\ NoResultFor(Id(w))

(* It has answered, or the message or the answer was lost.                 *)
Answered(w) ==
  /\ toCp = <<>>
  /\ \A r \in Result : In(r, toServer) /\ r.id = Id(w) /\ r.ok => Has(w, Op(w).purpose)

(* How far a write is that runs alone and of which no profile was refused. *)
Progress(w) ==
  /\ thread[w].wait /\ thread[w].pc >= End(w) - 2 => Unanswered(w) \/ Answered(w)
  /\ thread[w].pc > End(w) - 2 =>
       /\ Len(toCp) <= 1 /\ (~thread[w].wait => toCp = <<>>)
       /\ Has(w, "Max")
  /\ thread[w].pc > End(w) - 1 => Has(w, "Default")
  /\ thread[w].pc > End(w) => Has(w, "Tx")

LoneIsAlone == \A w \in alone : Busy(w) => \A v \in Threads \ {w} : ~Busy(v)

LoneProgresses == \A w \in alone : Busy(w) /\ thread[w].ok => Progress(w)

SureStays ==
  sure # None =>
    /\ toCp = <<>> /\ \A v \in Threads : ~Busy(v)
    /\ sure.tx <= txs
    /\ \A p \in Purposes : Installed(p, sure.limit, sure.tx)

Applied == TxsKnown /\ IdsAreSpent /\ LoneIsAlone /\ LoneProgresses /\ SureStays

(* Nothing has happened initially.                                         *)
LEMMA InitApplied == Init => Applied
<1> SUFFICES ASSUME Init PROVE Applied
  OBVIOUS
<1>1. \A x : ~In(x, <<>>)
  BY DEF In
<1>2. /\ mapped = 0 /\ txs = tx /\ toCp = <<>> /\ toServer = <<>> /\ sure = None /\ alone = {}
      /\ \A d \in Handlers : chain[d] = <<>>
      /\ \A w \in Threads : thread[w].tx = 0
      /\ tx \in {0, 1}
  BY DEF Init, Idle
<1>3. TxsKnown
  BY <1>1, <1>2 DEF TxsKnown
<1> QED BY <1>1, <1>2, <1>3 DEF Applied, IdsAreSpent, LoneIsAlone, LoneProgresses, SureStays

(* Every write's number, position and result only go on.                   *)
Advances(v) ==
  \/ thread'[v].n = 0
  \/ thread'[v].n > writes
  \/ /\ thread'[v].n = thread[v].n
     /\ \/ thread'[v].pc > thread[v].pc
        \/ thread'[v].pc = thread[v].pc /\ (thread[v].wait => thread'[v].wait)

(* The ids of the messages on their way stay spent.                        *)
LEMMA IdsStaySpent ==
  ASSUME TypesOfService, TypesOfHistory, IdsAreSpent,
         writes' \in Nat, writes' >= writes,
         thread' \in [Threads -> ThreadState],
         \A v \in Threads : Advances(v),
         \A m \in Request : In(m, toCp') => In(m, toCp) \/ Earlier(m.id)',
         \A r \in Result : In(r, toServer') =>
           In(r, toServer) \/ \E m \in Request : In(m, toCp) /\ m.id = r.id
  PROVE  IdsAreSpent'
<1>1. ASSUME NEW id \in MessageId, Earlier(id)
      PROVE  Earlier(id)'
  <2>1. /\ id[1] \in Nat /\ id[2] \in Nat /\ id[1] <= writes /\ writes \in Nat
        /\ \A w \in Threads : Busy(w) /\ thread[w].n = id[1] =>
             id[2] < thread[w].pc \/ (id[2] = thread[w].pc /\ thread[w].wait)
    BY <1>1, BoundsAreNumbers DEF Earlier, MessageId, TypesOfHistory
  <2>2. id[1] <= writes'
    BY <2>1
  <2>3. ASSUME NEW w \in Threads, Busy(w)', thread'[w].n = id[1]
        PROVE  id[2] < thread'[w].pc \/ (id[2] = thread'[w].pc /\ thread'[w].wait)
    <3>1. thread'[w].n # 0 /\ ~(thread'[w].n > writes)
      BY <2>1, <2>3 DEF Busy
    <3>2. /\ thread'[w].n = thread[w].n
          /\ \/ thread'[w].pc > thread[w].pc
             \/ thread'[w].pc = thread[w].pc /\ (thread[w].wait => thread'[w].wait)
      BY <3>1 DEF Advances
    <3>3. id[2] < thread[w].pc \/ (id[2] = thread[w].pc /\ thread[w].wait)
      BY <2>1, <2>3, <3>1, <3>2 DEF Busy
    <3>4. thread[w].pc \in 1..10 /\ thread'[w].pc \in 1..10
      BY DEF TypesOfService, ThreadState
    <3>5. id[2] < thread'[w].pc \/ id[2] = thread'[w].pc
      BY <2>1, <3>2, <3>3, <3>4
    <3>6. ~(id[2] < thread'[w].pc) => thread'[w].wait
      BY <2>1, <3>2, <3>3, <3>4
    <3> QED BY <3>5, <3>6
  <2> QED BY <2>2, <2>3 DEF Earlier
<1>2. \A m \in Request : m.id \in MessageId
  BY DEF Request
<1>3. \A r \in Result : r.id \in MessageId
  BY DEF Result
<1>4. \A m \in Request : In(m, toCp') => Earlier(m.id)'
  BY <1>1, <1>2 DEF IdsAreSpent
<1>5. \A r \in Result : In(r, toServer') => Earlier(r.id)'
  BY <1>1, <1>2, <1>3 DEF IdsAreSpent
<1> QED BY <1>4, <1>5 DEF IdsAreSpent

(* A thread whose write is the same has the same operations.               *)
LEMMA SameOps ==
  ASSUME NEW w, thread'[w].limit = thread[w].limit, thread'[w].release = thread[w].release
  PROVE  /\ End(w)' = End(w)
         /\ thread'[w].pc = thread[w].pc => Op(w)' = Op(w)
BY DEF End, Op, Ops

(* What is installed stays so while the profiles do and no known           *)
(* transaction begins anew.                                                *)
LEMMA StaysInstalled ==
  ASSUME NEW purpose, NEW limit, NEW t, Installed(purpose, limit, t),
         purpose # "Tx" => profile'[purpose] = profile[purpose],
         tx' # 0 /\ tx' = t => tx' = tx /\ profile'["Tx"] = profile["Tx"]
  PROVE  Installed(purpose, limit, t)'
BY DEF Installed

(* A thread is past its operation: it had its answer, or it gave up a      *)
(* profile and reports so, or none was to be set.                          *)
LEMMA PastKeepsApplied ==
  ASSUME IInv, IInv', Applied, NEW w \in Threads, Busy(w), NEW t \in ThreadState,
         thread' = [thread EXCEPT ![w] = t],
         thread[w].pc \in 1..End(w),
         t.n = thread[w].n, t.pc = thread[w].pc + 1, t.wait = FALSE,
         t.limit = thread[w].limit, t.release = thread[w].release,
         t.tx = thread[w].tx \/ (thread[w].pc < End(w) - 2 /\ t.tx <= txs),
         w \in alone /\ t.ok =>
           /\ thread[w].ok
           /\ thread[w].pc >= End(w) - 2 => toCp = <<>> /\ Has(w, Op(w).purpose),
         \A x : In(x, toServer') => In(x, toServer),
         UNCHANGED <<mapped, chain, toCp, tx, profile, txs, writes, alone, sure>>
  PROVE  Applied'
<1>0. /\ TypesOfService /\ TypesOfConnection /\ TypesOfCharger /\ TypesOfHistory
      /\ TypesOfService' /\ TypesOfConnection' /\ TypesOfCharger' /\ TypesOfHistory'
  BY TypesByOwner, TypesByOwnerNext DEF IInv
<1>1. /\ thread \in [Threads -> ThreadState] /\ thread' \in [Threads -> ThreadState]
      /\ thread'[w] = t /\ \A v \in Threads \ {w} : thread'[v] = thread[v]
  BY <1>0 DEF TypesOfService
<1>2. TxsKnown'
  <2>1. \A v \in Threads : thread'[v].tx <= txs'
    BY <1>1 DEF Applied, TxsKnown
  <2> QED BY <2>1 DEF Applied, TxsKnown
<1>3. IdsAreSpent'
  <2>1. \A v \in Threads : Advances(v)
    <3>1. t.pc > thread[w].pc
      BY <1>1 DEF ThreadState
    <3> QED BY <1>1, <3>1 DEF Advances
  <2>2. writes' \in Nat /\ writes' >= writes
    BY <1>0, BoundsAreNumbers DEF TypesOfHistory
  <2> QED BY <1>0, <1>1, <2>1, <2>2, IdsStaySpent DEF Applied
<1>4. LoneIsAlone'
  BY <1>1 DEF Applied, LoneIsAlone, Busy
<1>5. SureStays'
  <2>1. sure = None
    BY DEF Applied, SureStays
  <2> QED BY <2>1 DEF SureStays
<1>6. LoneProgresses'
  <2> SUFFICES ASSUME NEW v \in alone, Busy(v)', thread'[v].ok
               PROVE  Progress(v)'
    BY DEF LoneProgresses
  <2>1. v = w
    <3>1. v \in Threads
      BY <1>0 DEF TypesOfHistory
    <3>2. v # w => Busy(v)
      BY <1>1, <3>1 DEF Busy
    <3> QED BY <3>1, <3>2 DEF Applied, LoneIsAlone
  <2>2. /\ thread[w].ok /\ Progress(w)
        /\ thread[w].pc >= End(w) - 2 => toCp = <<>> /\ Has(w, Op(w).purpose)
    BY <1>1, <2>1 DEF Applied, LoneProgresses
  <2>3. /\ End(w)' = End(w) /\ End(w) \in 6..9 /\ thread[w].pc \in 1..10
        /\ thread[w].pc = End(w) - 2 => Op(w) = SetOp("Max")
        /\ thread[w].pc = End(w) - 1 => Op(w) = SetOp("Default")
        /\ thread[w].pc = End(w) => Op(w) = SetOp("Tx")
    BY <1>1, OpsEnd, SameOps
  <2>4. thread'[w].pc = thread[w].pc + 1 /\ ~thread'[w].wait
    BY <1>1
  <2>5. \A p : /\ SetOp(p).purpose = p
               /\ thread[w].pc >= End(w) - 2 => Has(w, p)' = Has(w, p)
    <3>1. thread[w].pc >= End(w) - 2 => t.tx = thread[w].tx
      BY <2>3
    <3> QED BY <1>1, <3>1 DEF SetOp, Has, Installed
  <2>6. thread'[w].pc > End(w)' - 2 =>
          Len(toCp') <= 1 /\ (~thread'[w].wait => toCp' = <<>>) /\ Has(w, "Max")'
    <3> SUFFICES ASSUME thread'[w].pc > End(w)' - 2
                 PROVE  Len(toCp') <= 1 /\ toCp' = <<>> /\ Has(w, "Max")'
      OBVIOUS
    <3>1. thread[w].pc >= End(w) - 2 /\ (thread[w].pc = End(w) - 2 \/ thread[w].pc > End(w) - 2)
      BY <2>3, <2>4
    <3>2. toCp' = <<>> /\ Len(toCp') <= 1
      BY <2>2, <3>1
    <3>3. Has(w, "Max")
      BY <2>2, <2>3, <2>5, <3>1 DEF Progress
    <3> QED BY <2>5, <3>1, <3>2, <3>3
  <2>7. thread'[w].pc > End(w)' - 1 => Has(w, "Default")'
    <3> SUFFICES ASSUME thread'[w].pc > End(w)' - 1 PROVE Has(w, "Default")'
      OBVIOUS
    <3>1. thread[w].pc >= End(w) - 2 /\ (thread[w].pc = End(w) - 1 \/ thread[w].pc > End(w) - 1)
      BY <2>3, <2>4
    <3>2. Has(w, "Default")
      BY <2>2, <2>3, <2>5, <3>1 DEF Progress
    <3> QED BY <2>5, <3>1, <3>2
  <2>8. thread'[w].pc > End(w)' => Has(w, "Tx")'
    <3> SUFFICES ASSUME thread'[w].pc > End(w)' PROVE Has(w, "Tx")'
      OBVIOUS
    <3>1. thread[w].pc >= End(w) - 2 /\ thread[w].pc = End(w)
      BY <2>3, <2>4
    <3>2. Has(w, "Tx")
      BY <2>2, <2>3, <2>5, <3>1
    <3> QED BY <2>5, <3>1, <3>2
  <2>9. ~thread'[w].wait
    BY <2>4
  <2> QED BY <2>1, <2>6, <2>7, <2>8, <2>9 DEF Progress
<1> QED BY <1>2, <1>3, <1>4, <1>5, <1>6 DEF Applied

(* The steps that take a thread past an operation.                         *)
LEMMA StepKeepsApplied ==
  ASSUME IInv, IInv', Applied, NEW w \in Threads, Publish(w) \/ ReadTx(w) \/ TimeOut(w)
  PROVE  Applied'
<1>0. TypesOfService /\ thread \in [Threads -> ThreadState] /\ thread[w] \in ThreadState
  BY TypesByOwner DEF IInv, TypesOfService
<1>1. CASE Publish(w)
  <2> DEFINE t == [thread[w] EXCEPT !.pc = @ + 1]
  <2>1. /\ At(w, {"publish"}) /\ thread' = [thread EXCEPT ![w] = t]
        /\ UNCHANGED <<mapped, chain, toCp, toServer, tx, profile, txs, writes, alone, sure>>
    BY <1>0, <1>1 DEF Publish, chargerVars, historyVars
  <2>2. Busy(w) /\ thread[w].pc \in 1..End(w) /\ Op(w).op # "set" /\ ~thread[w].wait
    BY <1>0, <2>1, AtOperation DEF End
  <2>3. thread[w].pc < End(w) - 2 /\ End(w) \in 6..9 /\ thread[w].pc \in 1..10
    BY <1>0, <2>2, OpsEnd
  <2>4. /\ t \in ThreadState /\ t.n = thread[w].n /\ t.pc = thread[w].pc + 1 /\ t.wait = FALSE
        /\ t.limit = thread[w].limit /\ t.release = thread[w].release
        /\ t.tx = thread[w].tx /\ t.ok = thread[w].ok
    BY <1>0, <2>2, <2>3 DEF ThreadState
  <2>5. ~(thread[w].pc >= End(w) - 2)
    BY <2>3
  <2> HIDE DEF t
  <2> QED BY <2>1, <2>2, <2>4, <2>5, PastKeepsApplied
<1>2. CASE ReadTx(w)
  <2> DEFINE t == [thread[w] EXCEPT !.tx = mapped, !.pc = @ + 1]
  <2>1. /\ At(w, {"readTx"}) /\ thread' = [thread EXCEPT ![w] = t]
        /\ UNCHANGED <<mapped, chain, toCp, toServer, tx, profile, txs, writes, alone, sure>>
    BY <1>0, <1>2 DEF ReadTx, chargerVars, historyVars
  <2>2. Busy(w) /\ thread[w].pc \in 1..End(w) /\ Op(w).op # "set" /\ ~thread[w].wait
    BY <1>0, <2>1, AtOperation DEF End
  <2>3. thread[w].pc < End(w) - 2 /\ End(w) \in 6..9 /\ thread[w].pc \in 1..10
    BY <1>0, <2>2, OpsEnd
  <2>4. mapped \in 0..MaxTx /\ mapped <= txs
    BY <1>0 DEF TypesOfService, Applied, TxsKnown
  <2>5. /\ t \in ThreadState /\ t.n = thread[w].n /\ t.pc = thread[w].pc + 1 /\ t.wait = FALSE
        /\ t.limit = thread[w].limit /\ t.release = thread[w].release
        /\ t.tx = mapped /\ t.ok = thread[w].ok
    <3>1. thread[w].pc + 1 \in 1..10
      BY <2>3
    <3> QED BY <1>0, <2>2, <2>4, <3>1 DEF ThreadState
  <2>6. ~(thread[w].pc >= End(w) - 2)
    BY <2>3
  <2> HIDE DEF t
  <2> QED BY <2>1, <2>2, <2>3, <2>4, <2>5, <2>6, PastKeepsApplied
<1>3. CASE TimeOut(w)
  <2> DEFINE t == Past(w, FALSE)
  <2>1. /\ thread[w].wait /\ thread' = [thread EXCEPT ![w] = t]
        /\ UNCHANGED <<mapped, chain, toCp, toServer, tx, profile, txs, writes, alone, sure>>
    BY <1>3 DEF TimeOut, chargerVars
  <2>2. Busy(w) /\ thread[w].pc \in 1..End(w)
    BY <2>1, WaitingOperation DEF IInv, ThreadsInv, End
  <2>3. t \in ThreadState /\ t.n = thread[w].n /\ t.wait = FALSE
    BY <1>0, <2>2, PastIsTyped DEF End
  <2>4. /\ t.pc = thread[w].pc + 1 /\ t.limit = thread[w].limit
        /\ t.release = thread[w].release /\ t.tx = thread[w].tx
        /\ t.ok => thread[w].ok /\ Op(w).op = "clear"
    BY <1>0 DEF Past, ThreadState
  <2>5. t.ok => ~(thread[w].pc >= End(w) - 2)
    <3>1. Op(w).op # "set" => thread[w].pc < End(w) - 2
      BY <1>0, <2>2, OpsEnd
    <3>2. End(w) \in 6..9 /\ thread[w].pc \in 1..10
      BY <1>0, OpsEnd
    <3>3. \A i \in 1..10, n \in 6..9 : i < n - 2 => ~(i >= n - 2)
      OBVIOUS
    <3>4. t.ok => thread[w].pc < End(w) - 2
      BY <2>4, <3>1
    <3> QED BY <3>2, <3>3, <3>4
  <2> HIDE DEF t
  <2> QED BY <2>1, <2>2, <2>3, <2>4, <2>5, PastKeepsApplied
<1> QED BY <1>1, <1>2, <1>3

(* A CALL is sent: it is the last message on its way, and the only one     *)
(* with its id.                                                            *)
LEMMA SendCallKeepsApplied ==
  ASSUME IInv, IInv', Applied, NEW w \in Threads, SendCall(w)
  PROVE  Applied'
<1>0. /\ TypesOfService /\ TypesOfConnection /\ TypesOfHistory
      /\ TypesOfService' /\ TypesOfConnection'
      /\ thread \in [Threads -> ThreadState] /\ thread[w] \in ThreadState
      /\ thread' \in [Threads -> ThreadState]
  BY TypesByOwner, TypesByOwnerNext DEF IInv, TypesOfService
<1>1. /\ At(w, {"clear", "set"})
      /\ UNCHANGED <<mapped, chain, toServer, tx, profile, txs, writes, alone, sure>>
  BY DEF SendCall, chargerVars, historyVars
<1>2. /\ Busy(w) /\ ~thread[w].wait /\ thread[w].pc \in 1..End(w)
      /\ Op(w).op \in {"clear", "set"} /\ Op(w) \in Operation
  BY <1>0, <1>1, AtOperation DEF End
<1>3. CASE link
  <2> DEFINE t == [thread[w] EXCEPT !.wait = TRUE]
  <2>1. toCp' = Append(toCp, Own(w)) /\ thread' = [thread EXCEPT ![w] = t]
    BY <1>0, <1>3 DEF SendCall, Own
  <2>2. /\ t \in ThreadState /\ t.wait = TRUE /\ t.n = thread[w].n /\ t.pc = thread[w].pc
        /\ t.limit = thread[w].limit /\ t.release = thread[w].release
        /\ t.tx = thread[w].tx /\ t.ok = thread[w].ok
    BY <1>0 DEF ThreadState
  <2> HIDE DEF t
  <2>3. /\ thread'[w] = t /\ \A v \in Threads \ {w} : thread'[v] = thread[v]
        /\ \A v \in Threads : thread'[v].n = thread[v].n /\ thread'[v].pc = thread[v].pc
                              /\ thread'[v].tx = thread[v].tx
    BY <1>0, <2>1, <2>2
  <2>4. Own(w) \in Request /\ Own(w).id = Id(w)
    <3>1. Id(w) \in MessageId
      BY <1>0, <1>2, IdIsTyped
    <3>2. thread[w].limit \in Limits /\ thread[w].tx \in 0..MaxTx
      BY <1>0 DEF ThreadState
    <3>3. Op(w).purpose \in Purposes \cup {"All"}
      BY <1>2 DEF Operation
    <3> QED BY <1>2, <3>1, <3>2, <3>3 DEF Own, Request
  <2>5. toCp \in Seq(Request) /\ \A m : In(m, toCp') <=> m = Own(w) \/ In(m, toCp)
    BY <1>0, <2>1, <2>4, InAppend DEF TypesOfConnection
  <2>6. \A id \in MessageId : Earlier(id) => id # Id(w)
    <3>1. \A id \in MessageId : Earlier(id) /\ thread[w].n = id[1] => id[2] < thread[w].pc
      BY <1>2 DEF Earlier
    <3>2. Id(w)[1] = thread[w].n /\ Id(w)[2] = thread[w].pc /\ thread[w].pc \in 1..10
      BY <1>0 DEF Id, ThreadState
    <3>3. \A id \in MessageId : id[2] \in 1..10
      BY DEF MessageId
    <3> QED BY <3>1, <3>2, <3>3
  <2>7. TxsKnown'
    BY <1>1, <2>3 DEF Applied, TxsKnown
  <2>8. IdsAreSpent'
    <3>1. \A v \in Threads : Advances(v)
      BY <1>2, <2>2, <2>3 DEF Advances
    <3>2. Earlier(Id(w))'
      <4>1. Id(w)[1] = thread[w].n /\ Id(w)[2] = thread[w].pc
        BY DEF Id
      <4>2. Id(w)' = Id(w)
        BY <2>3 DEF Id
      <4>3. \A v \in Threads : thread'[v].n = thread[w].n /\ Busy(v)' => v = w
        BY <1>2, <2>3 DEF IInv, ThreadsInv, WritesAreNumbered, Busy
      <4>4. thread[w].n <= writes /\ writes' = writes
        BY <1>1 DEF IInv, ThreadsInv, WritesAreNumbered
      <4> QED BY <2>2, <2>3, <4>1, <4>2, <4>3, <4>4 DEF Earlier
    <3>3. writes' \in Nat /\ writes' >= writes
      BY <1>0, <1>1, BoundsAreNumbers DEF TypesOfHistory
    <3>4. Id(w)' = Id(w)
      BY <2>3 DEF Id
    <3>5. \A m \in Request : In(m, toCp') => In(m, toCp) \/ Earlier(m.id)'
      BY <2>4, <2>5, <3>2, <3>4
    <3> QED BY <1>0, <1>1, <3>1, <3>3, <3>5, IdsStaySpent DEF Applied
  <2>9. LoneIsAlone'
    <3>1. \A v \in Threads : Busy(v)' <=> Busy(v)
      BY <2>3 DEF Busy
    <3>2. alone' = alone /\ alone \subseteq Threads
      BY <1>0, <1>1 DEF TypesOfHistory
    <3> QED BY <3>1, <3>2 DEF Applied, LoneIsAlone
  <2>10. SureStays'
    <3>1. sure' = None
      BY <1>1, <1>2 DEF Applied, SureStays
    <3> QED BY <3>1 DEF SureStays
  <2>11. LoneProgresses'
    <3> SUFFICES ASSUME NEW v \in alone, Busy(v)', thread'[v].ok
                 PROVE  Progress(v)'
      BY <1>1 DEF LoneProgresses
    <3>1. v = w
      <4>1. v \in Threads /\ Busy(v)
        BY <1>0, <2>3 DEF TypesOfHistory, Busy
      <4> QED BY <1>2, <4>1 DEF Applied, LoneIsAlone
    <3>2. Progress(w)
      BY <1>2, <2>2, <2>3, <3>1 DEF Applied, LoneProgresses
    <3>3. /\ End(w)' = End(w) /\ End(w) \in 6..9 /\ thread[w].pc \in 1..10
          /\ Own(w)' = Own(w) /\ Id(w)' = Id(w)
      BY <1>0, <2>2, <2>3, OpsEnd, SameOps DEF Own, Id
    <3>4. \A p : Has(w, p)' <=> Has(w, p)
      BY <1>1, <2>2, <2>3 DEF Has, Installed
    <3>5. \A i \in 1..Len(toCp) : toCp[i].id # Id(w)
      <4>1. \A i \in 1..Len(toCp) : toCp[i] \in Request /\ In(toCp[i], toCp)
        BY <2>5, ElementOfSeq DEF In
      <4>2. \A m \in Request : m.id \in MessageId
        BY DEF Request
      <4> QED BY <2>6, <4>1, <4>2 DEF Applied, IdsAreSpent
    <3>6. Len(toCp) \in Nat /\ Len(toCp') = Len(toCp) + 1
          /\ toCp'[Len(toCp')] = Own(w) /\ toCp' # <<>>
          /\ \A i \in 1..Len(toCp') : i # Len(toCp') => toCp'[i] = toCp[i] /\ i \in 1..Len(toCp)
      <4>1. /\ Len(toCp) \in Nat /\ Len(toCp') = Len(toCp) + 1
            /\ toCp'[Len(toCp) + 1] = Own(w)
            /\ \A i \in 1..Len(toCp) : toCp'[i] = toCp[i]
        BY <2>1, <2>4, <2>5, LenProperties, AppendProperties
      <4>2. toCp' # <<>>
        BY <4>1
      <4>3. \A i \in 1..Len(toCp') : i # Len(toCp') => i \in 1..Len(toCp)
        BY <4>1
      <4> QED BY <4>1, <4>2, <4>3
    <3>7. NoResultFor(Id(w))'
      <4>1. \A r \in Result : r.id \in MessageId
        BY DEF Result
      <4> QED BY <1>1, <2>6, <3>3, <4>1 DEF Applied, IdsAreSpent, NoResultFor
    <3>8. Unanswered(w)'
      BY <3>3, <3>5, <3>6, <3>7 DEF Unanswered
    <3>9. thread'[w].pc > End(w)' - 2 => Len(toCp') <= 1
      <4>1. thread[w].pc > End(w) - 2 => Len(toCp) = 0
        BY <1>2, <3>2 DEF Progress
      <4> QED BY <2>2, <2>3, <3>3, <3>6, <4>1
    <3> QED BY <2>2, <2>3, <3>1, <3>2, <3>3, <3>4, <3>8, <3>9 DEF Progress
  <2> QED BY <2>7, <2>8, <2>9, <2>10, <2>11 DEF Applied
<1>4. CASE ~link
  <2> DEFINE t == Past(w, FALSE)
  <2>1. thread' = [thread EXCEPT ![w] = t] /\ UNCHANGED toCp
    BY <1>4 DEF SendCall
  <2>2. t \in ThreadState /\ t.n = thread[w].n /\ t.wait = FALSE
    BY <1>0, <1>2, PastIsTyped DEF End
  <2>3. /\ t.pc = thread[w].pc + 1 /\ t.limit = thread[w].limit
        /\ t.release = thread[w].release /\ t.tx = thread[w].tx
        /\ t.ok => thread[w].ok /\ Op(w).op = "clear"
    BY <1>0 DEF Past, ThreadState
  <2>4. t.ok => ~(thread[w].pc >= End(w) - 2)
    <3>1. Op(w).op # "set" => thread[w].pc < End(w) - 2
      BY <1>0, <1>2, OpsEnd
    <3>2. End(w) \in 6..9 /\ thread[w].pc \in 1..10
      BY <1>0, OpsEnd
    <3>3. \A i \in 1..10, n \in 6..9 : i < n - 2 => ~(i >= n - 2)
      OBVIOUS
    <3>4. t.ok => thread[w].pc < End(w) - 2
      BY <2>3, <3>1
    <3> QED BY <3>2, <3>3, <3>4
  <2> HIDE DEF t
  <2> QED BY <1>1, <1>2, <2>1, <2>2, <2>3, <2>4, PastKeepsApplied
<1> QED BY <1>3, <1>4

(* The chain of a handler that finished has no CALL it did not have.       *)
LEMMA FinishKeepsCalls ==
  ASSUME chain \in [Handlers -> Seq(Call)], NEW d \in Handlers, chain[d] # <<>>, Finish(d)
  PROVE  \A e \in Handlers : \A c \in Call : In(c, chain'[e]) => In(c, chain[e])
<1>1. chain'[d] = Tail(chain[d]) /\ \A e \in Handlers \ {d} : chain'[e] = chain[e]
  BY DEF Finish
<1>2. \A x : In(x, Tail(chain[d])) => In(x, chain[d])
  BY InTail
<1> QED BY <1>1, <1>2

(* A write that ran alone and was reported as applied is installed.        *)
LEMMA ReturnKeepsApplied ==
  ASSUME IInv, IInv', Applied, NEW w \in Threads, Return(w)
  PROVE  Applied'
<1>0. /\ TypesOfService /\ TypesOfHistory /\ TypesOfConnection
      /\ thread \in [Threads -> ThreadState] /\ thread[w] \in ThreadState
      /\ thread' \in [Threads -> ThreadState]
  BY TypesByOwner, TypesByOwnerNext DEF IInv, TypesOfService
<1>1. /\ Busy(w) /\ Finished(w) /\ thread' = [thread EXCEPT ![w] = Idle]
      /\ IF w \in Handlers THEN Finish(w) ELSE UNCHANGED <<chain, asked>>
      /\ sure' = IF w \in alone /\ thread[w].ok
                 THEN [limit |-> thread[w].limit, tx |-> thread[w].tx] ELSE None
      /\ UNCHANGED <<mapped, toCp, toServer, tx, profile, txs, writes, alone>>
  BY DEF Return
<1>2. ~thread[w].wait
  BY <1>1 DEF IInv, ThreadsInv, WaitingIsAsking, Asking
<1>3. /\ thread'[w] = Idle /\ \A v \in Threads \ {w} : thread'[v] = thread[v]
      /\ Idle.n = 0 /\ Idle.tx = 0
  BY <1>0, <1>1 DEF Idle
<1>4. /\ ~Busy(w)' /\ \A v \in Threads \ {w} : Busy(v)' <=> Busy(v)
  BY <1>3 DEF Busy
<1>5. TxsKnown'
  <2>1. \A e \in Handlers : \A c \in Call : In(c, chain'[e]) => In(c, chain[e])
    <3>1. CASE w \in Handlers
      <4>1. chain[w] # <<>>
        BY <1>1, <3>1 DEF IInv, HandlersHaveCalls
      <4> QED BY <1>0, <1>1, <3>1, <4>1, FinishKeepsCalls DEF TypesOfService
    <3>2. CASE w \notin Handlers
      BY <1>1, <3>2
    <3> QED BY <3>1, <3>2
  <2>2. 0 <= txs
    BY <1>0, BoundsAreNumbers DEF TypesOfHistory
  <2>3. \A v \in Threads : thread'[v].tx <= txs'
    BY <1>1, <1>3, <2>2 DEF Applied, TxsKnown
  <2> QED BY <1>1, <2>1, <2>3 DEF Applied, TxsKnown
<1>6. IdsAreSpent'
  <2>1. \A v \in Threads : Advances(v)
    BY <1>0, <1>3 DEF Advances
  <2>2. writes' \in Nat /\ writes' >= writes
    BY <1>0, <1>1, BoundsAreNumbers DEF TypesOfHistory
  <2> QED BY <1>0, <1>1, <2>1, <2>2, IdsStaySpent DEF Applied
<1>7. alone' = alone /\ alone \subseteq Threads
  BY <1>0, <1>1 DEF TypesOfHistory
<1>8. LoneIsAlone'
  BY <1>4, <1>7 DEF Applied, LoneIsAlone
<1>9. LoneProgresses'
  BY <1>1, <1>4, <1>7 DEF Applied, LoneIsAlone, LoneProgresses
<1>10. SureStays'
  <2> SUFFICES ASSUME sure' # None PROVE SureStays'
    BY DEF SureStays
  <2>1. /\ w \in alone /\ thread[w].ok
        /\ sure'.limit = thread[w].limit /\ sure'.tx = thread[w].tx
    BY <1>1
  <2>2. Progress(w) /\ \A v \in Threads : ~Busy(v)'
    BY <1>1, <1>4, <2>1 DEF Applied, LoneProgresses, LoneIsAlone
  <2>3. /\ End(w) \in 6..9 /\ thread[w].pc \in 1..10
        /\ thread[w].pc \in 1..End(w) => Op(w) = SetOp("Tx") /\ thread[w].tx = 0
    BY <1>0, <1>1, OpsEnd DEF Finished, End
  <2>4. thread[w].pc = End(w) - 2 => Op(w) = SetOp("Max")
    BY <1>0, OpsEnd
  <2>5. thread[w].pc = End(w) - 1 => Op(w) = SetOp("Default")
    BY <1>0, OpsEnd
  <2>6. Op(w).op = "set" /\ thread[w].pc \in 1..End(w) => thread[w].pc >= End(w) - 2
    BY <1>0, OpsEnd
  <2>7. thread[w].pc >= End(w)
    <3>1. SetOp("Tx") # SetOp("Max") /\ SetOp("Tx") # SetOp("Default") /\ SetOp("Tx").op = "set"
      BY DEF SetOp
    <3>2. thread[w].pc \in 1..End(w) =>
            /\ thread[w].pc >= End(w) - 2 /\ thread[w].pc # End(w) - 2 /\ thread[w].pc # End(w) - 1
      BY <2>3, <2>4, <2>5, <2>6, <3>1
    <3> QED BY <2>3, <3>2
  <2>8. thread[w].pc > End(w) - 2 /\ thread[w].pc > End(w) - 1
    BY <2>3, <2>7
  <2>9. toCp = <<>> /\ Has(w, "Max") /\ Has(w, "Default")
    BY <1>2, <2>2, <2>8 DEF Progress
  <2>10. Has(w, "Tx")
    <3>1. CASE thread[w].pc > End(w)
      BY <2>2, <3>1 DEF Progress
    <3>2. CASE ~(thread[w].pc > End(w))
      <4>1. thread[w].tx = 0
        BY <2>3, <2>7, <3>2
      <4> QED BY <4>1 DEF Has, Installed
    <3> QED BY <3>1, <3>2
  <2>11. \A p \in Purposes : Installed(p, thread[w].limit, thread[w].tx)
    BY <2>9, <2>10 DEF Purposes, Has
  <2>12. \A p \in Purposes : Installed(p, sure.limit, sure.tx)'
    BY <1>1, <2>1, <2>11 DEF Installed
  <2>13. sure'.tx <= txs' /\ toCp' = <<>>
    BY <1>1, <2>1, <2>9 DEF Applied, TxsKnown
  <2> QED BY <2>2, <2>12, <2>13 DEF SureStays
<1> QED BY <1>5, <1>6, <1>8, <1>9, <1>10 DEF Applied

(* A write begins, and knows that no other one runs or that it is not      *)
(* alone.                                                                  *)
LEMMA BeginKeepsApplied ==
  ASSUME IInv, IInv', Applied, NEW w \in Threads, NEW limit \in Limits,
         NEW release \in BOOLEAN, Begin(w, limit, release),
         mapped' <= txs,
         UNCHANGED <<chain, toCp, toServer, tx, profile, txs>>
  PROVE  Applied'
<1>0. /\ TypesOfService /\ TypesOfHistory /\ TypesOfConnection /\ TypesOfHistory'
      /\ thread \in [Threads -> ThreadState] /\ thread' \in [Threads -> ThreadState]
  BY TypesByOwner, TypesByOwnerNext DEF IInv, TypesOfService
<1> DEFINE t == [Idle EXCEPT !.n = writes + 1, !.limit = limit, !.release = release]
<1>1. /\ ~Busy(w) /\ writes' = writes + 1 /\ thread' = [thread EXCEPT ![w] = t]
      /\ alone' = IF \E v \in Threads : Busy(v) THEN {} ELSE {w}
      /\ sure' = None
  BY DEF Begin
<1>2. t.n = writes + 1 /\ t.pc = 1 /\ t.wait = FALSE /\ t.tx = 0
  BY DEF Idle
<1> HIDE DEF t
<1>3. thread'[w] = t /\ \A v \in Threads \ {w} : thread'[v] = thread[v]
  BY <1>0, <1>1
<1>4. writes \in Nat /\ writes' \in Nat /\ writes' >= writes /\ writes + 1 > writes
  BY <1>0, <1>1, BoundsAreNumbers DEF TypesOfHistory
<1>5. TxsKnown'
  <2>1. 0 <= txs
    BY <1>0, BoundsAreNumbers DEF TypesOfHistory
  <2>2. \A v \in Threads : thread'[v].tx <= txs'
    BY <1>2, <1>3, <2>1 DEF Applied, TxsKnown
  <2> QED BY <2>2 DEF Applied, TxsKnown
<1>6. IdsAreSpent'
  <2>1. \A v \in Threads : Advances(v)
    BY <1>0, <1>2, <1>3, <1>4 DEF Advances
  <2> QED BY <1>0, <1>4, <2>1, IdsStaySpent DEF Applied
<1>7. LoneIsAlone'
  <2>1. \A v \in Threads \ {w} : Busy(v)' <=> Busy(v)
    BY <1>3 DEF Busy
  <2> QED BY <1>1, <2>1 DEF LoneIsAlone
<1>8. LoneProgresses'
  <2> SUFFICES ASSUME NEW v \in alone', Busy(v)', thread'[v].ok
               PROVE  Progress(v)'
    BY DEF LoneProgresses
  <2>1. v = w
    BY <1>1
  <2>2. End(w)' \in 6..9
    <3>1. thread'[w].release \in BOOLEAN
      BY <1>0 DEF ThreadState
    <3> QED BY <3>1, ProgramEnds DEF End, Ops
  <2>3. ~(1 > End(w)' - 2) /\ ~(1 > End(w)' - 1) /\ ~(1 > End(w)')
    BY <2>2
  <2> QED BY <1>2, <1>3, <2>1, <2>3 DEF Progress
<1>9. SureStays'
  BY <1>1 DEF SureStays
<1> QED BY <1>5, <1>6, <1>7, <1>8, <1>9 DEF Applied

(* The threads are not concerned, no request is sent, taken or answered,   *)
(* and what the charge point has is changed with the transaction only.     *)
LEMMA CalmKeepsApplied ==
  ASSUME IInv, IInv', Applied, TxsKnown',
         UNCHANGED <<thread, writes, alone, sure, toCp>>,
         txs' >= txs,
         \A r \in Result : In(r, toServer') => In(r, toServer),
         \A p \in {"Max", "Default"} : profile'[p] = profile[p],
         tx' # 0 => tx' > txs \/ (tx' = tx /\ profile'["Tx"] = profile["Tx"])
  PROVE  Applied'
<1>0. /\ TypesOfService /\ TypesOfHistory /\ TypesOfConnection /\ TypesOfHistory'
      /\ thread \in [Threads -> ThreadState] /\ thread' \in [Threads -> ThreadState]
      /\ txs \in Nat /\ txs' \in Nat /\ tx' \in Nat
  BY TypesByOwner, TypesByOwnerNext, BoundsAreNumbers
     DEF IInv, TypesOfService, TypesOfHistory, TypesOfCharger
<1>1. \A p \in Purposes : \A l, t : t \in Nat /\ t <= txs /\ Installed(p, l, t) => Installed(p, l, t)'
  <2> SUFFICES ASSUME NEW p \in Purposes, NEW l, NEW t \in Nat, t <= txs, Installed(p, l, t)
               PROVE  Installed(p, l, t)'
    OBVIOUS
  <2>1. p # "Tx" => profile'[p] = profile[p]
    BY DEF Purposes
  <2>2. tx' # 0 /\ tx' = t => tx' = tx /\ profile'["Tx"] = profile["Tx"]
    BY <1>0
  <2> QED BY <2>1, <2>2, StaysInstalled
<1>2. \A w \in Threads : /\ thread'[w] = thread[w] /\ End(w)' = End(w) /\ Op(w)' = Op(w)
                         /\ Busy(w)' = Busy(w) /\ Id(w)' = Id(w) /\ Own(w)' = Own(w)
  BY DEF End, Op, Ops, Busy, Id, Own
<1>3. \A w \in Threads, p \in Purposes : Has(w, p) => Has(w, p)'
  <2>1. \A w \in Threads : thread[w].tx \in Nat /\ thread[w].tx <= txs
    BY <1>0, BoundsAreNumbers DEF ThreadState, Applied, TxsKnown
  <2> QED BY <1>1, <1>2, <2>1 DEF Has
<1>4. IdsAreSpent'
  <2>1. \A v \in Threads : Advances(v)
    BY <1>2 DEF Advances
  <2>2. writes' \in Nat /\ writes' >= writes
    BY <1>0, BoundsAreNumbers DEF TypesOfHistory
  <2> QED BY <1>0, <2>1, <2>2, IdsStaySpent DEF Applied
<1>5. LoneIsAlone'
  <2>1. alone \subseteq Threads
    BY <1>0 DEF TypesOfHistory
  <2> QED BY <1>2, <2>1 DEF Applied, LoneIsAlone
<1>6. LoneProgresses'
  <2> SUFFICES ASSUME NEW w \in alone, Busy(w)', thread'[w].ok
               PROVE  Progress(w)'
    BY DEF LoneProgresses
  <2>1. w \in Threads
    BY <1>0 DEF TypesOfHistory
  <2>2. Progress(w)
    BY <1>2, <2>1 DEF Applied, LoneProgresses
  <2>3. Unanswered(w) => Unanswered(w)'
    BY <1>2, <2>1 DEF Unanswered, NoResultFor
  <2>4. thread[w].pc \in 1..10 /\ End(w) \in 6..9
    BY <1>0, <2>1, OpsEnd
  <2>5. thread[w].pc >= End(w) - 2 /\ thread[w].wait => Op(w).purpose \in Purposes
    <3>1. thread[w].wait => thread[w].pc \in 1..End(w)
      BY <2>1, WaitingOperation DEF IInv, ThreadsInv, End
    <3>2. \A i \in 1..10, n \in 6..9 : i \in 1..n /\ i >= n - 2 => i \in {n - 2, n - 1, n}
      OBVIOUS
    <3>3. /\ thread[w].pc = End(w) - 2 => Op(w) = SetOp("Max")
          /\ thread[w].pc = End(w) - 1 => Op(w) = SetOp("Default")
          /\ thread[w].pc = End(w) => Op(w) = SetOp("Tx")
      BY <1>0, <2>1, OpsEnd
    <3>4. \A p : SetOp(p).purpose = p
      BY DEF SetOp
    <3> QED BY <2>4, <3>1, <3>2, <3>3, <3>4 DEF Purposes
  <2>6. Op(w).purpose \in Purposes /\ Answered(w) => Answered(w)'
    BY <1>2, <1>3, <2>1 DEF Answered
  <2>7. /\ Has(w, "Max") => Has(w, "Max")'
        /\ Has(w, "Default") => Has(w, "Default")'
        /\ Has(w, "Tx") => Has(w, "Tx")'
    BY <1>3, <2>1 DEF Purposes
  <2>8. thread'[w] = thread[w] /\ End(w)' = End(w)
    BY <1>2, <2>1
  <2> QED BY <2>2, <2>3, <2>5, <2>6, <2>7, <2>8 DEF Progress
<1>7. SureStays'
  <2> SUFFICES ASSUME sure # None PROVE SureStays'
    BY DEF SureStays
  <2>1. /\ toCp = <<>> /\ \A v \in Threads : ~Busy(v)
        /\ sure.tx <= txs
        /\ \A p \in Purposes : Installed(p, sure.limit, sure.tx)
    BY DEF Applied, SureStays
  <2>2. sure.tx \in Nat
    <3>1. sure \in [limit : Limits, tx : 0..MaxTx]
      BY <1>0 DEF TypesOfHistory
    <3> QED BY <3>1
  <2>3. \A p \in Purposes : Installed(p, sure.limit, sure.tx)'
    BY <1>1, <2>1, <2>2 DEF Installed
  <2>4. sure'.tx <= txs'
    BY <1>0, <2>1, <2>2
  <2> QED BY <1>2, <2>1, <2>3, <2>4 DEF SureStays
<1> QED BY <1>4, <1>5, <1>6, <1>7 DEF Applied

(* Results under way are of their own; a CALL is none.                     *)
LEMMA CallIsNoResult == Call \cap Result = {}
BY DEF Call, Result

(* A CALL is received, or a result: of the thread that waits for it, which *)
(* goes on, or of none.                                                    *)
LEMMA ReceiveKeepsApplied ==
  ASSUME IInv, IInv', Applied, Receive
  PROVE  Applied'
<1>0. /\ TypesOfService /\ TypesOfHistory /\ TypesOfConnection
      /\ thread \in [Threads -> ThreadState] /\ txs \in Nat /\ tx \in Nat
      /\ toServer \in Seq(Call \cup Result)
  BY TypesByOwner, BoundsAreNumbers DEF IInv, TypesOfService, TypesOfConnection, TypesOfHistory, TypesOfCharger
<1> DEFINE m == Head(toServer)
<1>1. /\ toServer # <<>> /\ toServer' = Tail(toServer)
      /\ UNCHANGED <<mapped, toCp, tx, profile, drops, txs, writes, alone, sure>>
  BY DEF Receive, chargerVars, historyVars
<1>2. /\ m \in Call \cup Result /\ In(m, toServer)
      /\ \A x : In(x, toServer') => In(x, toServer)
  BY <1>0, <1>1, InTail, HeadTailProperties
<1>3. CASE m.kind = "Result"
  <2>1. /\ UNCHANGED chain
        /\ thread' = [w \in Threads |->
             IF m.id \in pending /\ Id(w) = m.id THEN Past(w, m.ok) ELSE thread[w]]
    BY <1>3 DEF Receive
  <2>2. m.ok \in BOOLEAN /\ m \in Result
    BY <1>2, <1>3 DEF Call, Result
  <2> HIDE DEF m
  <2>3. CASE m.id \in pending
    <3>1. PICK w \in Threads : thread[w].wait /\ Id(w) = m.id
      BY <2>3 DEF IInv, PendingIsAwaited
    <3>2. Busy(w) /\ thread[w].pc \in 1..End(w)
      BY <3>1, WaitingOperation DEF IInv, ThreadsInv, End
    <3>3. \A v \in Threads : Id(v) = m.id => v = w
      <4>1. \A v \in Threads : Id(v) = Id(w) => thread[w].n = thread[v].n
        BY DEF Id
      <4> QED BY <3>1, <3>2, <4>1 DEF IInv, ThreadsInv, WritesAreNumbered
    <3> DEFINE t == Past(w, m.ok)
    <3>4. thread' = [thread EXCEPT ![w] = t]
      BY <1>0, <2>1, <2>3, <3>1, <3>3
    <3>5. t \in ThreadState /\ t.n = thread[w].n /\ t.wait = FALSE
      BY <1>0, <2>2, <3>2, PastIsTyped DEF End
    <3>6. /\ t.pc = thread[w].pc + 1 /\ t.limit = thread[w].limit
          /\ t.release = thread[w].release /\ t.tx = thread[w].tx
          /\ t.ok => thread[w].ok /\ (m.ok \/ Op(w).op = "clear")
      BY <1>0 DEF Past, ThreadState
    <3> HIDE DEF t
    <3>7. ASSUME w \in alone, t.ok, thread[w].pc >= End(w) - 2
          PROVE  toCp = <<>> /\ Has(w, Op(w).purpose)
      <4>1. Unanswered(w) \/ Answered(w)
        BY <3>1, <3>2, <3>6, <3>7 DEF Applied, LoneProgresses, Progress
      <4>2. ~Unanswered(w)
        BY <1>2, <2>2, <3>1 DEF Unanswered, NoResultFor
      <4>3. m.ok
        <5>1. Op(w).op # "set" => thread[w].pc < End(w) - 2
          BY <1>0, <3>2, OpsEnd
        <5>2. End(w) \in 6..9 /\ thread[w].pc \in 1..10
          BY <1>0, OpsEnd
        <5>3. ~(thread[w].pc < End(w) - 2)
          BY <3>7, <5>2
        <5> QED BY <3>6, <3>7, <5>1, <5>3
      <4> QED BY <1>2, <2>2, <3>1, <4>1, <4>2, <4>3 DEF Answered
    <3> QED BY <1>1, <1>2, <2>1, <3>2, <3>4, <3>5, <3>6, <3>7, PastKeepsApplied
  <2>4. CASE m.id \notin pending
    <3>1. UNCHANGED <<thread, chain>>
      BY <1>0, <2>1, <2>4
    <3>2. TxsKnown'
      BY <1>1, <1>2, <3>1 DEF Applied, TxsKnown
    <3> QED BY <1>0, <1>1, <1>2, <3>1, <3>2, CalmKeepsApplied
  <2> QED BY <2>3, <2>4
<1>4. CASE m.kind # "Result"
  <2>1. /\ chain' = [chain EXCEPT ![drops] = Append(chain[drops], m)]
        /\ UNCHANGED thread
    BY <1>4 DEF Receive
  <2>2. m \in Call
    BY <1>2, <1>4 DEF Result
  <2>3. drops \in Handlers /\ chain \in [Handlers -> Seq(Call)]
    BY <1>0 DEF TypesOfService, TypesOfHistory, Handlers
  <2> HIDE DEF m
  <2>4. \A d \in Handlers : \A x : In(x, chain'[d]) => x = m \/ In(x, chain[d])
    <3>1. \A x : In(x, Append(chain[drops], m)) => x = m \/ In(x, chain[drops])
      BY <2>2, <2>3, InAppend
    <3> QED BY <2>1, <2>3, <3>1
  <2>5. TxsKnown'
    <3>1. m.tx <= txs
      BY <1>2, <2>2 DEF Applied, TxsKnown
    <3>2. \A d \in Handlers : \A c \in Call : In(c, chain'[d]) => c.tx <= txs'
      BY <1>1, <2>4, <3>1 DEF Applied, TxsKnown
    <3> QED BY <1>1, <1>2, <2>1, <3>2 DEF Applied, TxsKnown
  <2> QED BY <1>0, <1>1, <1>2, <2>1, <2>5, CalmKeepsApplied
<1> QED BY <1>3, <1>4

(* The handlers: a transaction starts with an id of its own, and ends with *)
(* its profile; a recovered one is written to.                             *)
LEMMA HandleKeepsApplied ==
  ASSUME IInv, IInv', Applied, NEW d \in Handlers, Handle(d)
  PROVE  Applied'
<1>0. /\ TypesOfService /\ TypesOfHistory /\ TypesOfConnection
      /\ txs \in Nat /\ tx \in Nat /\ d \in Threads
      /\ chain \in [Handlers -> Seq(Call)]
      /\ thread \in [Threads -> ThreadState] /\ profile \in [Purposes -> Limits \cup {None}]
  BY TypesByOwner, BoundsAreNumbers
     DEF IInv, TypesOfService, TypesOfConnection, TypesOfHistory, TypesOfCharger, Threads
<1>1. chain[d] # <<>> /\ Head(chain[d]) \in Call /\ In(Head(chain[d]), chain[d])
  <2>1. chain[d] # <<>>
    BY DEF Handle, HandleStart, HandleStop, HandleMeter, Due
  <2> QED BY <1>0, <2>1, InTail, HeadTailProperties
<1>2. Finish(d) => \A e \in Handlers : \A c \in Call : In(c, chain'[e]) => In(c, chain[e])
  BY <1>0, <1>1, FinishKeepsCalls
<1>3. \A w \in Threads : thread[w].tx \in Nat
  BY <1>0, BoundsAreNumbers DEF ThreadState
<1>4. CASE HandleStart(d)
  <2>1. /\ txs' = txs + 1 /\ mapped' = txs + 1 /\ tx' \in {txs + 1, tx} /\ Finish(d)
        /\ UNCHANGED <<thread, toCp, toServer, profile, writes, alone, sure>>
    BY <1>4 DEF HandleStart
  <2>2. txs' >= txs /\ txs + 1 > txs
    BY <1>0, <2>1
  <2>3. TxsKnown'
    <3>1. \A n \in 0..MaxTx : n <= txs => n <= txs'
      BY <1>0, <2>1, BoundsAreNumbers
    <3>2. /\ \A w \in Threads : thread[w].tx \in 0..MaxTx
          /\ \A c \in Call : c.tx \in 0..MaxTx
          /\ tx \in 0..MaxTx
      BY <1>0, TypesByOwner DEF ThreadState, Call, IInv, TypesOfCharger
    <3>3. tx' <= txs' /\ mapped' <= txs'
      BY <1>0, <2>1, <3>1, <3>2 DEF Applied, TxsKnown
    <3>4. \A w \in Threads : thread'[w].tx <= txs'
      BY <2>1, <3>1, <3>2 DEF Applied, TxsKnown
    <3>5. \A e \in Handlers : \A c \in Call : In(c, chain'[e]) => c.tx <= txs'
      BY <1>2, <2>1, <3>1, <3>2 DEF Applied, TxsKnown
    <3>6. \A c \in Call : In(c, toServer') => c.tx <= txs'
      BY <2>1, <3>1, <3>2 DEF Applied, TxsKnown
    <3> QED BY <3>3, <3>4, <3>5, <3>6 DEF TxsKnown
  <2>4. tx' # 0 => tx' > txs \/ (tx' = tx /\ profile'["Tx"] = profile["Tx"])
    BY <2>1, <2>2
  <2> QED BY <2>1, <2>2, <2>3, <2>4, CalmKeepsApplied
<1>5. CASE HandleStop(d)
  <2>1. /\ mapped' = 0 /\ txs' = txs /\ Finish(d)
        /\ \/ tx' = 0 /\ profile' = [profile EXCEPT !["Tx"] = None]
           \/ tx' = tx /\ profile' = profile
        /\ UNCHANGED <<thread, toCp, toServer, writes, alone, sure>>
    BY <1>5 DEF HandleStop
  <2>2. 0 <= txs /\ txs' >= txs
    BY <1>0, <2>1
  <2>3. TxsKnown'
    BY <1>2, <2>1, <2>2 DEF Applied, TxsKnown
  <2>4. /\ \A p \in {"Max", "Default"} : profile'[p] = profile[p]
        /\ tx' # 0 => tx' > txs \/ (tx' = tx /\ profile'["Tx"] = profile["Tx"])
    BY <1>0, <2>1 DEF Purposes
  <2> QED BY <2>1, <2>2, <2>3, <2>4, CalmKeepsApplied
<1>6. CASE HandleMeter(d)
  <2>1. /\ mapped' = Head(chain[d]).tx
        /\ UNCHANGED <<setpoint, toCp, toServer, tx, profile, txs>>
    BY <1>6 DEF HandleMeter
  <2>2. mapped' <= txs
    BY <1>1, <2>1 DEF Applied, TxsKnown
  <2>3. CASE Finish(d) /\ UNCHANGED <<thread, writes, alone, sure>>
    <3>1. TxsKnown'
      BY <1>2, <2>1, <2>2, <2>3 DEF Applied, TxsKnown
    <3>2. txs' >= txs
      BY <1>0, <2>1
    <3> QED BY <2>1, <2>3, <3>1, <3>2, CalmKeepsApplied
  <2>4. CASE setpoint # None /\ Begin(d, setpoint, FALSE) /\ UNCHANGED <<chain, asked>>
    <3>1. setpoint \in Limits
      BY <1>0, <2>4 DEF TypesOfService
    <3> QED BY <1>0, <2>1, <2>2, <2>4, <3>1, BeginKeepsApplied
  <2> QED BY <1>6, <2>3, <2>4 DEF HandleMeter
<1> QED BY <1>4, <1>5, <1>6 DEF Handle

(* The connection, and the charge point's CALLs.                           *)
LEMMA ConnectionKeepsApplied ==
  ASSUME IInv, IInv', Applied, Connect \/ Drop \/ Ask
  PROVE  Applied'
<1>0. /\ TypesOfService /\ TypesOfHistory /\ TypesOfConnection /\ TypesOfCharger
      /\ txs \in Nat /\ tx \in Nat
      /\ thread \in [Threads -> ThreadState] /\ thread' \in [Threads -> ThreadState]
  <2>1. TypesOfService /\ TypesOfHistory /\ TypesOfConnection /\ TypesOfCharger /\ TypesOfService'
    BY TypesByOwner, TypesByOwnerNext DEF IInv
  <2>2. txs \in Nat /\ tx \in Nat
    BY <2>1, BoundsAreNumbers DEF TypesOfHistory, TypesOfCharger
  <2> QED BY <2>1, <2>2 DEF TypesOfService
<1>1. txs' = txs => txs' >= txs
  BY <1>0
<1>2. CASE Connect
  <2>1. UNCHANGED <<mapped, chain, thread, toCp, toServer, tx, profile, txs, writes, alone, sure>>
    BY <1>2 DEF Connect, chargerVars, historyVars
  <2>2. TxsKnown'
    BY <2>1 DEF Applied, TxsKnown
  <2> QED BY <1>1, <2>1, <2>2, CalmKeepsApplied
<1>3. CASE Ask
  <2>1. PICK kind \in {"Start", "Meter", "Stop"} :
          toServer' = Append(toServer, [kind |-> kind, tx |-> tx])
    BY <1>3 DEF Ask
  <2> DEFINE c == [kind |-> kind, tx |-> tx]
  <2>2. c \in Call /\ c.tx = tx
    BY <1>0 DEF TypesOfCharger, Call
  <2>3. UNCHANGED <<mapped, chain, thread, toCp, tx, profile, txs, writes, alone, sure>>
    BY <1>3 DEF Ask, historyVars
  <2>4. toServer' = Append(toServer, c)
    BY <2>1
  <2> HIDE DEF c
  <2>5. \A x : In(x, toServer') => x = c \/ In(x, toServer)
    BY <1>0, <2>2, <2>4, InAppend DEF TypesOfConnection
  <2>6. TxsKnown'
    BY <2>2, <2>3, <2>5 DEF Applied, TxsKnown
  <2>7. \A r \in Result : In(r, toServer') => In(r, toServer)
    BY <2>2, <2>5, CallIsNoResult
  <2> QED BY <1>1, <2>3, <2>6, <2>7, CalmKeepsApplied
<1>4. CASE Drop
  <2>1. /\ mapped' = 0 /\ toCp' = <<>> /\ toServer' = <<>>
        /\ UNCHANGED <<chain, thread, tx, profile, txs, writes, alone, sure>>
    BY <1>4 DEF Drop
  <2>2. \A x : ~In(x, <<>>)
    BY DEF In
  <2>3. TxsKnown'
    <3>1. 0 <= txs
      BY <1>0
    <3> QED BY <2>1, <2>2, <3>1 DEF Applied, TxsKnown
  <2>4. \A w \in Threads : /\ thread'[w] = thread[w] /\ End(w)' = End(w) /\ Op(w)' = Op(w)
                           /\ Busy(w)' = Busy(w) /\ Id(w)' = Id(w)
                           /\ \A p : Has(w, p)' <=> Has(w, p)
    BY <2>1 DEF End, Op, Ops, Busy, Id, Has, Installed
  <2>5. IdsAreSpent'
    BY <2>1, <2>2 DEF IdsAreSpent
  <2>6. alone \subseteq Threads
    BY <1>0 DEF TypesOfHistory
  <2>7. LoneIsAlone'
    BY <2>1, <2>4, <2>6 DEF Applied, LoneIsAlone
  <2>8. LoneProgresses'
    <3> SUFFICES ASSUME NEW w \in alone, Busy(w)', thread'[w].ok
                 PROVE  Progress(w)'
      BY <2>1 DEF LoneProgresses
    <3>1. w \in Threads /\ Progress(w)
      BY <2>4, <2>6 DEF Applied, LoneProgresses
    <3>2. Answered(w)'
      BY <2>1, <2>2 DEF Answered
    <3>3. Len(toCp') <= 1
      BY <2>1
    <3> QED BY <2>1, <2>4, <3>1, <3>2, <3>3 DEF Progress
  <2>9. SureStays'
    BY <2>1, <2>4 DEF Applied, SureStays, Installed
  <2> QED BY <2>3, <2>5, <2>7, <2>8, <2>9 DEF Applied
<1> QED BY <1>2, <1>3, <1>4

(* The charge point answers a request: the write that runs alone waits for *)
(* the last one, and its profile is installed when it is accepted.         *)
LEMMA AnswerKeepsApplied ==
  ASSUME IInv, IInv', Applied, Answer
  PROVE  Applied'
<1> DEFINE m == Head(toCp)
<1>0. /\ TypesOfService /\ TypesOfHistory /\ TypesOfConnection /\ TypesOfCharger
      /\ thread \in [Threads -> ThreadState] /\ thread' \in [Threads -> ThreadState]
      /\ toCp \in Seq(Request) /\ toServer \in Seq(Call \cup Result)
  <2>1. TypesOfService /\ TypesOfHistory /\ TypesOfConnection /\ TypesOfCharger /\ TypesOfService'
    BY TypesByOwner, TypesByOwnerNext DEF IInv
  <2> QED BY <2>1 DEF TypesOfService, TypesOfConnection
<1>1. /\ toCp # <<>> /\ toCp' = Tail(toCp)
      /\ UNCHANGED <<mapped, chain, thread, tx, txs, writes, alone, sure>>
  BY DEF Answer, historyVars
<1>2. PICK ok \in BOOLEAN :
        /\ toServer' = Append(toServer, [kind |-> "Result", id |-> m.id, ok |-> ok])
        /\ profile' = [p \in Purposes |->
             IF ok /\ m.purpose \in {p, "All"}
             THEN IF m.op = "set" THEN m.limit ELSE None
             ELSE profile[p]]
  BY ConstantsAssumption DEF ConstantsAssumption, Answer
<1> DEFINE r == [kind |-> "Result", id |-> m.id, ok |-> ok]
<1>3. /\ m \in Request /\ In(m, toCp) /\ m = toCp[1]
      /\ \A x : In(x, toCp') => In(x, toCp)
      /\ Len(toCp) \in Nat /\ Len(toCp) # 0 /\ Len(toCp') = Len(toCp) - 1
      /\ \A i \in 1..Len(toCp') : toCp'[i] = toCp[i + 1]
  <2>1. Len(toCp) \in Nat /\ Len(toCp) # 0 /\ m = toCp[1]
    BY <1>0, <1>1, EmptySeq
  <2>2. m \in Request /\ Len(toCp') = Len(toCp) - 1 /\ \A i \in 1..Len(toCp') : toCp'[i] = toCp[i + 1]
    BY <1>0, <1>1, HeadTailProperties
  <2>3. In(m, toCp) /\ \A x : In(x, toCp') => In(x, toCp)
    BY <1>0, <1>1, InTail
  <2> QED BY <2>1, <2>2, <2>3
<1> HIDE DEF m
<1>4. r \in Result /\ r.id = m.id /\ r.ok = ok
  BY <1>3 DEF Request, Result
<1>5. toServer' = Append(toServer, r)
  BY <1>2
<1> HIDE DEF r
<1>6. \A x : In(x, toServer') <=> x = r \/ In(x, toServer)
  BY <1>0, <1>4, <1>5, InAppend
<1>7. TxsKnown'
  BY <1>1, <1>4, <1>6, CallIsNoResult DEF Applied, TxsKnown
<1>8. \A w \in Threads : /\ thread'[w] = thread[w] /\ End(w)' = End(w) /\ Op(w)' = Op(w)
                         /\ Busy(w)' = Busy(w) /\ Id(w)' = Id(w) /\ Own(w)' = Own(w)
  BY <1>1 DEF End, Op, Ops, Busy, Id, Own
<1>9. IdsAreSpent'
  <2>1. \A v \in Threads : Advances(v)
    BY <1>8 DEF Advances
  <2>2. writes' \in Nat /\ writes' >= writes
    BY <1>0, <1>1, BoundsAreNumbers DEF TypesOfHistory
  <2>3. \A x \in Result : In(x, toServer') =>
          In(x, toServer) \/ \E y \in Request : In(y, toCp) /\ y.id = x.id
    BY <1>3, <1>4, <1>6
  <2> QED BY <1>0, <1>3, <2>1, <2>2, <2>3, IdsStaySpent DEF Applied
<1>10. alone' = alone /\ alone \subseteq Threads
  BY <1>0, <1>1 DEF TypesOfHistory
<1>11. LoneIsAlone'
  BY <1>8, <1>10 DEF Applied, LoneIsAlone
<1>12. SureStays'
  BY <1>1 DEF Applied, SureStays
<1>13. LoneProgresses'
  <2> SUFFICES ASSUME NEW w \in alone, Busy(w)', thread'[w].ok
               PROVE  Progress(w)'
    BY <1>10 DEF LoneProgresses
  <2>1. w \in Threads /\ Progress(w)
    BY <1>8, <1>10 DEF Applied, LoneProgresses
  <2>2. /\ thread'[w] = thread[w] /\ End(w)' = End(w) /\ Id(w)' = Id(w)
        /\ thread[w].pc \in 1..10 /\ End(w) \in 6..9
    BY <1>0, <1>8, <2>1, OpsEnd
  <2>3. CASE ~(thread[w].wait /\ thread[w].pc >= End(w) - 2)
    <3>1. ~(thread[w].pc > End(w) - 2)
      BY <1>1, <2>1, <2>2, <2>3 DEF Progress
    <3>2. ~(thread[w].pc > End(w) - 1) /\ ~(thread[w].pc > End(w))
      BY <2>2, <3>1
    <3> QED BY <2>2, <2>3, <3>1, <3>2 DEF Progress
  <2>4. CASE thread[w].wait /\ thread[w].pc >= End(w) - 2
    <3>1. Unanswered(w)
      BY <1>1, <2>1, <2>4 DEF Progress, Answered
    <3>2. thread[w].pc \in 1..End(w)
      BY <2>1, <2>4, WaitingOperation DEF IInv, ThreadsInv, End
    <3>3. Op(w).op = "set" /\ Op(w).purpose \in Purposes
      <4>1. \A i \in 1..10, n \in 6..9 : i \in 1..n /\ i >= n - 2 => i \in {n - 2, n - 1, n}
        OBVIOUS
      <4>2. /\ thread[w].pc = End(w) - 2 => Op(w) = SetOp("Max")
            /\ thread[w].pc = End(w) - 1 => Op(w) = SetOp("Default")
            /\ thread[w].pc = End(w) => Op(w) = SetOp("Tx")
        BY <1>0, <2>1, OpsEnd
      <4>3. \A p : SetOp(p).purpose = p /\ SetOp(p).op = "set"
        BY DEF SetOp
      <4> QED BY <2>2, <2>4, <3>2, <4>1, <4>2, <4>3 DEF Purposes
    <3>4. ~(thread[w].pc > End(w))
      BY <2>2, <3>2
    <3>5. CASE Len(toCp) = 1
      <4>1. m = Own(w) /\ toCp' = <<>> /\ Len(toCp') <= 1
        <5>1. m = Own(w)
          BY <1>3, <3>1, <3>5 DEF Unanswered
        <5>2. toCp' \in Seq(Request) /\ Len(toCp') = 0
          BY <1>0, <1>1, <1>3, <3>5, HeadTailProperties
        <5> QED BY <5>1, <5>2, EmptySeq
      <4>2. m.op = "set" /\ m.purpose = Op(w).purpose /\ m.limit = thread[w].limit /\ m.id = Id(w)
        BY <3>3, <4>1 DEF Own
      <4>3. \A p \in Purposes : Has(w, p) => Has(w, p)'
        BY <1>1, <1>2, <2>2, <4>2 DEF Has, Installed, Purposes
      <4>4. \A p \in Purposes : ok /\ p = Op(w).purpose => Has(w, p)'
        BY <1>1, <1>2, <2>2, <4>2 DEF Has, Installed, Purposes
      <4>5. Answered(w)'
        <5>1. \A x \in Result : In(x, toServer') /\ x.id = Id(w) => x = r
          BY <1>6, <3>1 DEF Unanswered, NoResultFor
        <5>2. PICK p \in Purposes : p = Op(w).purpose
          BY <3>3
        <5>3. ok => Has(w, p)'
          BY <4>4, <5>2
        <5>4. Op(w)' = Op(w)
          BY <1>8, <2>1
        <5> QED BY <1>4, <2>2, <4>1, <5>1, <5>2, <5>3, <5>4 DEF Answered
      <4>6. /\ thread[w].pc > End(w) - 2 => Has(w, "Max")'
            /\ thread[w].pc > End(w) - 1 => Has(w, "Default")'
        BY <2>1, <4>3 DEF Progress, Purposes
      <4> QED BY <2>2, <3>4, <4>1, <4>5, <4>6 DEF Progress
    <3>6. CASE Len(toCp) # 1
      <4>1. ~(Len(toCp) <= 1)
        BY <1>3, <3>6
      <4>2. ~(thread[w].pc > End(w) - 2)
        BY <2>1, <4>1 DEF Progress
      <4>3. ~(thread[w].pc > End(w) - 1)
        BY <2>2, <4>2
      <4>4. /\ Len(toCp') \in Nat /\ Len(toCp') # 0 /\ Len(toCp') + 1 = Len(toCp)
            /\ 1 \in 1..Len(toCp) /\ 1 # Len(toCp)
            /\ \A i \in 1..Len(toCp') : i # Len(toCp') => i + 1 \in 1..Len(toCp) /\ i + 1 # Len(toCp)
            /\ Len(toCp') \in 1..Len(toCp')
        BY <1>3, <4>1
      <4>5. toCp' # <<>> /\ toCp'[Len(toCp')] = Own(w)
        BY <1>3, <3>1, <4>4 DEF Unanswered
      <4>6. \A i \in 1..Len(toCp') : i # Len(toCp') => toCp'[i].id # Id(w)
        BY <1>3, <3>1, <4>4 DEF Unanswered
      <4>7. NoResultFor(Id(w))'
        <5>1. m.id # Id(w)
          BY <1>3, <3>1, <4>4 DEF Unanswered
        <5> QED BY <1>4, <1>6, <2>2, <3>1, <5>1 DEF Unanswered, NoResultFor
      <4>8. Unanswered(w)'
        BY <1>8, <2>1, <2>2, <4>5, <4>6, <4>7 DEF Unanswered
      <4> QED BY <2>2, <3>4, <4>2, <4>3, <4>8 DEF Progress
    <3> QED BY <3>5, <3>6
  <2> QED BY <2>3, <2>4
<1> QED BY <1>7, <1>9, <1>11, <1>12, <1>13 DEF Applied

(* Every step keeps what a write that is reported as applied rests on.     *)
LEMMA NextApplied == IInv /\ IInv' /\ Applied /\ [Next]_vars => Applied'
<1> SUFFICES ASSUME IInv, IInv', Applied, [Next]_vars PROVE Applied'
  OBVIOUS
<1>1. CASE UNCHANGED vars
  <2>1. UNCHANGED <<mapped, chain, thread, toCp, toServer, tx, profile, txs, writes, alone, sure>>
    BY <1>1 DEF vars
  <2>2. TxsKnown'
    BY <2>1 DEF Applied, TxsKnown
  <2>3. txs' >= txs
    BY <2>1, TypesByOwner, BoundsAreNumbers DEF IInv, TypesOfHistory
  <2> QED BY <2>1, <2>2, <2>3, CalmKeepsApplied
<1>2. ASSUME NEW w \in Writers, Write(w) PROVE Applied'
  <2>1. PICK limit \in Limits, release \in BOOLEAN : Begin(w, limit, release)
    BY <1>2, BoundsAreNumbers DEF Write
  <2>2. UNCHANGED <<mapped, chain, toCp, toServer, tx, profile, txs>>
    BY <1>2 DEF Write, chargerVars
  <2>3. mapped' <= txs /\ w \in Threads
    BY <2>2 DEF Applied, TxsKnown, Threads
  <2> QED BY <2>1, <2>2, <2>3, BeginKeepsApplied
<1>3. CASE Next
  BY <1>2, <1>3, StepKeepsApplied, SendCallKeepsApplied, ReturnKeepsApplied, HandleKeepsApplied,
     ReceiveKeepsApplied, ConnectionKeepsApplied, AnswerKeepsApplied DEF Next, Step
<1> QED BY <1>1, <1>3

(* What SetChargingLimitAsync reports as applied, the charge point has:    *)
(* for any writers and limits, and however answers of earlier messages     *)
(* come late, connections drop and transactions begin and end meanwhile    *)
(* (OcppManagerService.cs, SetChargingLimitAsync and the receive loop).    *)
THEOREM AppliedInstalled == Spec => []AppliedIsInstalled
<1>1. Applied => AppliedIsInstalled
  <2> SUFFICES ASSUME Applied, sure # None PROVE AppliedIsInstalled
    BY DEF AppliedIsInstalled
  <2>1. \A p \in Purposes : Installed(p, sure.limit, sure.tx)
    BY DEF Applied, SureStays
  <2> QED BY <2>1 DEF AppliedIsInstalled, Installed, Purposes
<1>2. IInv /\ Applied /\ [Next]_vars => (IInv /\ Applied)'
  BY NextIInv, NextApplied
<1> QED BY <1>1, <1>2, InitIInv, InitApplied, PTL DEF Spec
=============================================================================
