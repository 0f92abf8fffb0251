---------------------------- MODULE OperationsProofs ----------------------------
(***************************************************************************)
(* Proofs about module Operations, for every set of stacks, of operation   *)
(* ids, of validated requests and of exit codes, and about the stream of   *)
(* one operation, module OperationStream, for any set of clients and any   *)
(* length of the log.                                                      *)
(*                                                                         *)
(* OneWorkerPerStack follows from WorkerHolds - the entry of a stack names *)
(* the operation that works on it.  WorkerHolds is inductive with the      *)
(* facts that an id not given out is in no map, that a working operation   *)
(* has no retention timer yet, and HolderIsRegistered.  TypeOK rests on    *)
(* the same invariant: that the exit code broadcast at the end is one of   *)
(* a command needs the operation to have still been registered when its    *)
(* status was set.                                                         *)
(*                                                                         *)
(* What the client is told rests on OutcomeInv: from the moment a stream   *)
(* is completed, no step changes the outcome in the registry.              *)
(***************************************************************************)
EXTENDS Operations, OperationStream, TLAPS

(***************************************************************************)
(* What the methods of the broadcaster do to any broadcaster value: they   *)
(* keep its type, and they leave a completed one as it is.                 *)
(***************************************************************************)

\* Appending any message keeps the type, whatever the codes are.
LEMMA AppendLockedType ==
    ASSUME NEW codes, NEW bc \in BroadcasterType(codes), NEW m \in Messages(codes)
    PROVE  /\ appendLocked(bc, m) \in BroadcasterType(codes)
           /\ appendLocked(bc, m).messageLog = Append(bc.messageLog, m)
           /\ appendLocked(bc, m).completed = bc.completed
           /\ appendLocked(bc, m).notify = bc.notify + 1
<1> DEFINE S == Messages(codes)
<1> DEFINE T == [messageLog : Seq(S), completed : BOOLEAN, notify : Nat]
<1>1. bc \in T /\ m \in S
  BY DEF BroadcasterType
<1> HIDE DEF S
<1>2. Append(bc.messageLog, m) \in Seq(S) /\ bc.notify + 1 \in Nat
  BY <1>1
<1>3. appendLocked(bc, m) =
          [bc EXCEPT !.messageLog = Append(bc.messageLog, m), !.notify = bc.notify + 1]
  BY DEF appendLocked
<1>4. /\ appendLocked(bc, m) \in T
      /\ appendLocked(bc, m).messageLog = Append(bc.messageLog, m)
      /\ appendLocked(bc, m).completed = bc.completed
      /\ appendLocked(bc, m).notify = bc.notify + 1
  BY <1>1, <1>2, <1>3
<1> QED
  BY <1>4 DEF BroadcasterType, S

\* Output of any type can be broadcast to any broadcaster.
LEMMA BroadcastKeepsType ==
    ASSUME NEW codes, NEW bc \in BroadcasterType(codes), NEW type \in OutputTypes
    PROVE  Broadcast(bc, type) \in BroadcasterType(codes)
<1>1. Output(type) \in Messages(codes)
  BY DEF Messages
<1> QED
  BY <1>1, AppendLockedType DEF Broadcast

\* Completing, once or again, keeps the type.
LEMMA CompleteKeepsType ==
    ASSUME NEW codes, NEW bc \in BroadcasterType(codes), NEW code \in codes
    PROVE  BroadcastComplete(bc, code) \in BroadcasterType(codes)
<1> DEFINE c == [bc EXCEPT !.completed = TRUE]
<1>1. Complete(code) \in Messages(codes)
  BY DEF Messages
<1>2. c \in BroadcasterType(codes)
  BY DEF BroadcasterType
<1>3. appendLocked(c, Complete(code)) \in BroadcasterType(codes)
  BY <1>1, <1>2, AppendLockedType
<1> QED
  BY <1>3 DEF BroadcastComplete, completeLocked

\* An error is a message and a completion with exit code 1.
LEMMA ErrorKeepsType ==
    ASSUME NEW codes, 1 \in codes, NEW bc \in BroadcasterType(codes)
    PROVE  BroadcastError(bc) \in BroadcasterType(codes)
<1>1. Output("error") \in Messages(codes)
  BY DEF Messages, OutputTypes
<1>2. appendLocked(bc, Output("error")) \in BroadcasterType(codes)
  BY <1>1, AppendLockedType
<1>3. completeLocked(appendLocked(bc, Output("error")), 1) \in BroadcasterType(codes)
  BY <1>2, CompleteKeepsType DEF BroadcastComplete
<1> QED
  BY <1>3 DEF BroadcastError

\* A new broadcaster has the type.
LEMMA NewBroadcasterType ==
    ASSUME NEW codes PROVE NewBroadcaster \in BroadcasterType(codes)
BY DEF NewBroadcaster, BroadcasterType

(***************************************************************************)
(* After the completion nothing is logged: the broadcast methods are no    *)
(* operations on a completed broadcaster.                                  *)
(***************************************************************************)
LEMMA CompletedIsFrozen ==
    ASSUME NEW bc, bc.completed
    PROVE  /\ \A type : Broadcast(bc, type) = bc
           /\ \A code : BroadcastComplete(bc, code) = bc
           /\ BroadcastError(bc) = bc
BY DEF Broadcast, BroadcastComplete, completeLocked, BroadcastError

(***************************************************************************)
(* A completion and an error complete any broadcaster; the log keeps what  *)
(* it held.                                                                *)
(***************************************************************************)
LEMMA CompleteCompletes ==
    ASSUME NEW codes, NEW bc \in BroadcasterType(codes), NEW code \in codes
    PROVE  BroadcastComplete(bc, code).completed
<1> DEFINE c == [bc EXCEPT !.completed = TRUE]
<1>1. CASE bc.completed
  BY <1>1 DEF BroadcastComplete, completeLocked
<1>2. CASE ~bc.completed
  <2>1. c \in BroadcasterType(codes) /\ c.completed
    BY DEF BroadcasterType
  <2>2. Complete(code) \in Messages(codes)
    BY DEF Messages
  <2>3. appendLocked(c, Complete(code)).completed = c.completed
    BY <2>1, <2>2, AppendLockedType
  <2> QED
    BY <1>2, <2>1, <2>3 DEF BroadcastComplete, completeLocked
<1> QED
  BY <1>1, <1>2 DEF BroadcasterType

LEMMA ErrorCompletes ==
    ASSUME NEW codes, 1 \in codes, NEW bc \in BroadcasterType(codes)
    PROVE  BroadcastError(bc).completed
<1>1. Output("error") \in Messages(codes)
  BY DEF Messages, OutputTypes
<1>2. appendLocked(bc, Output("error")) \in BroadcasterType(codes)
  BY <1>1, AppendLockedType
<1>3. completeLocked(appendLocked(bc, Output("error")), 1).completed
  BY <1>2, CompleteCompletes DEF BroadcastComplete
<1> QED
  BY <1>3 DEF BroadcastError

\* Output, even of an error, says nothing of the completion.
LEMMA BroadcastCompletesNothing ==
    ASSUME NEW codes, NEW bc \in BroadcasterType(codes), NEW type \in OutputTypes
    PROVE  Broadcast(bc, type).completed = bc.completed
<1>1. Output(type) \in Messages(codes)
  BY DEF Messages
<1> QED
  BY <1>1, AppendLockedType DEF Broadcast

\* The last message of a broadcaster that has just completed has the code.
LEMMA CompletionSaysCode ==
    ASSUME NEW codes, NEW bc \in BroadcasterType(codes), ~bc.completed, NEW code \in codes
    PROVE  LET log == BroadcastComplete(bc, code).messageLog
           IN  log[Len(log)].exitCode = code
<1> DEFINE c == [bc EXCEPT !.completed = TRUE]
<1> DEFINE m == Complete(code)
<1>1. c \in BroadcasterType(codes) /\ m \in Messages(codes)
  BY DEF BroadcasterType, Messages
<1>2. m.exitCode = code
  BY DEF Complete
<1>3. c.messageLog \in Seq(Messages(codes))
  BY <1>1 DEF BroadcasterType
<1> HIDE DEF m, c
<1>4. BroadcastComplete(bc, code).messageLog = Append(c.messageLog, m)
  BY <1>1, AppendLockedType DEF BroadcastComplete, completeLocked, m, c
<1>5. /\ Len(Append(c.messageLog, m)) = Len(c.messageLog) + 1
      /\ Append(c.messageLog, m)[Len(c.messageLog) + 1] = m
  <2> DEFINE S == Messages(codes)
  <2> HIDE DEF S
  <2>1. c.messageLog \in Seq(S) /\ m \in S
    BY <1>1, <1>3 DEF S
  <2> QED
    BY <2>1
<1> QED
  BY <1>2, <1>4, <1>5

LEMMA ErrorSaysOne ==
    ASSUME NEW codes, 1 \in codes, NEW bc \in BroadcasterType(codes), ~bc.completed
    PROVE  LET log == BroadcastError(bc).messageLog
           IN  log[Len(log)].exitCode = 1
<1> DEFINE c == appendLocked(bc, Output("error"))
<1>1. Output("error") \in Messages(codes)
  BY DEF Messages, OutputTypes
<1>2. c \in BroadcasterType(codes) /\ ~c.completed
  BY <1>1, AppendLockedType
<1>3. BroadcastError(bc) = BroadcastComplete(c, 1)
  BY DEF BroadcastError, BroadcastComplete
<1> HIDE DEF c
<1> QED
  BY <1>2, <1>3, CompletionSaysCode

--------------------------------------------------------------------------------
(***************************************************************************)
(* The invariant of the registry.                                          *)
(***************************************************************************)

RegistryType ==
    /\ operations \subseteq OpIds
    /\ activeOperations \in [Stacks -> OpIds \cup {NoOp}]
    /\ object \in [OpIds -> Operation \cup {Unborn}]
    /\ expiring \subseteq OpIds
    /\ pc \in [OpIds -> PCs]

\* An operation's object is there from the moment the operation is; until
\* then its id is in none of the maps.
Born == \A id \in OpIds :
    IF pc[id] = "unborn"
    THEN id \notin operations /\ id \notin expiring
    ELSE object[id] \in Operation

\* A working operation is registered, holds its stack and has no timer.
WorkerHolds ==
    \A id \in OpIds : Working(id) =>
        /\ id \in operations
        /\ id \notin expiring
        /\ activeOperations[object[id].stack] = id

\* Where the goroutine has settled its operation.
Late == {"report", "handoff", "post", "await", "unlock", "done"}

\* A completed operation has an exit code, and one that is past its work
\* has been settled.
Settled ==
    \A id \in OpIds : pc[id] # "unborn" =>
        /\ object[id].status = "completed" => object[id].exitCode \in Codes
        /\ pc[id] \in Late => object[id].status \in {"completed", "failed"}

IInv == RegistryType /\ Born /\ WorkerHolds /\ HolderIsRegistered /\ Settled

--------------------------------------------------------------------------------
(***************************************************************************)
(* What the methods of the service do to the registry's variables.         *)
(***************************************************************************)

\* updateOperationStatus changes the status, exit code and credentials of
\* one operation, and never its stack.
LEMMA UpdateStatus ==
    ASSUME NEW id \in OpIds, IInv, pc[id] # "unborn",
           NEW status \in {"completed", "failed"},
           NEW code \in Codes \cup {NoExit},
           updateOperationStatus(id, status, code)
    PROVE  /\ object' \in [OpIds -> Operation \cup {Unborn}]
           /\ \A j \in OpIds : pc[j] # "unborn" =>
                  object'[j] \in Operation /\ object'[j].stack = object[j].stack
           /\ \A j \in OpIds : j # id => object'[j] = object[j]
           /\ \A j \in OpIds : j # id => (j \in expiring' <=> j \in expiring)
           /\ id \in operations =>
                  object'[id].status = status /\ object'[id].exitCode = code
           /\ expiring' \subseteq OpIds
<1> DEFINE x == object[id]
<1> DEFINE r == [x.request EXCEPT !.credentials = FALSE]
<1> DEFINE o == [x EXCEPT !.status = status, !.exitCode = code, !.request = r]
<1>1. x \in Operation /\ object \in [OpIds -> Operation \cup {Unborn}]
  BY DEF IInv, RegistryType, Born
<1>2. x.request \in Request
  BY <1>1 DEF Operation
<1>3. r \in Request
  BY <1>2 DEF Request
<1>4. /\ o \in Operation /\ o.stack = x.stack
      /\ o.status = status /\ o.exitCode = code
  <2> HIDE DEF x, r
  <2> QED
    BY <1>1, <1>3 DEF Operation
<1>5. object' = IF id \in operations THEN [object EXCEPT ![id] = o] ELSE object
  BY <1>1 DEF updateOperationStatus, Operation, Request
<1> HIDE DEF o
<1>6. expiring' \subseteq OpIds /\ \A j \in OpIds : j # id => (j \in expiring' <=> j \in expiring)
  BY DEF updateOperationStatus, IInv, RegistryType
<1> QED
  BY <1>1, <1>4, <1>5, <1>6 DEF IInv, Born

\* unlockStack frees at most the stack that the operation itself holds.
LEMMA UnlockStack ==
    ASSUME NEW id \in OpIds, activeOperations \in [Stacks -> OpIds \cup {NoOp}],
           unlockStack(id)
    PROVE  /\ activeOperations' \in [Stacks -> OpIds \cup {NoOp}]
           /\ \A s \in Stacks : activeOperations'[s] \in {activeOperations[s], NoOp}
           /\ \A s \in Stacks : activeOperations[s] # id =>
                  activeOperations'[s] = activeOperations[s]
           /\ object[id].stack \in Stacks => activeOperations'[object[id].stack] # id
BY OperationsAssumption DEF unlockStack

--------------------------------------------------------------------------------
(***************************************************************************)
(* The invariant is kept by each kind of step.                             *)
(***************************************************************************)

LEMMA StartKeepsIInv ==
    ASSUME NEW id \in OpIds, NEW stack \in Stacks, NEW request \in Requests,
           IInv, StartOperation(id, stack, request)
    PROVE  IInv'
<1> USE OperationsAssumption DEF IInv, RegistryType, Born, WorkerHolds, Settled, Working
<1> DEFINE o == [stack |-> stack, request |-> request, status |-> "running",
                 exitCode |-> NoExit, isSelfOp |-> isSelfOperation(stack, request)]
<1>1. o \in Operation /\ o.stack = stack /\ o.status = "running"
  BY DEF Operation, isSelfOperation
<1>2. object' = [object EXCEPT ![id] = o]
  BY DEF StartOperation
<1> HIDE DEF o
<1>3. /\ pc[id] = "unborn" /\ pc' = [pc EXCEPT ![id] = "run"]
      /\ operations' = operations \cup {id} /\ expiring' = expiring
      /\ activeOperations[stack] = NoOp
      /\ activeOperations' = [activeOperations EXCEPT ![stack] = id]
  BY DEF StartOperation
<1>4. RegistryType'
  BY <1>1, <1>2, <1>3 DEF PCs
<1>5. Born'
  BY <1>1, <1>2, <1>3
<1>6. WorkerHolds'
  BY <1>1, <1>2, <1>3
<1>7. HolderIsRegistered'
  BY <1>1, <1>2, <1>3 DEF HolderIsRegistered
<1>8. Settled'
  BY <1>1, <1>2, <1>3 DEF Late
<1> QED
  BY <1>4, <1>5, <1>6, <1>7, <1>8

LEMMA SettleKeepsIInv ==
    ASSUME NEW id \in OpIds, NEW status \in {"completed", "failed"},
           NEW code \in Codes \cup {NoExit}, status = "completed" => code \in Codes,
           IInv, Working(id), Settle(id, status, code)
    PROVE  IInv'
<1> USE DEF IInv, RegistryType, Born, WorkerHolds, Settled
<1>1. pc[id] # "unborn" /\ id \in operations
  BY DEF Working
<1>2. /\ object' \in [OpIds -> Operation \cup {Unborn}]
      /\ \A j \in OpIds : pc[j] # "unborn" =>
             object'[j] \in Operation /\ object'[j].stack = object[j].stack
      /\ \A j \in OpIds : j # id => object'[j] = object[j]
      /\ \A j \in OpIds : j # id => (j \in expiring' <=> j \in expiring)
      /\ object'[id].status = status /\ object'[id].exitCode = code
      /\ expiring' \subseteq OpIds
  BY <1>1, UpdateStatus DEF Settle
<1>3. /\ pc' = [pc EXCEPT ![id] = "report"]
      /\ UNCHANGED <<operations, activeOperations>>
  BY DEF Settle, GoTo
<1>4. RegistryType'
  BY <1>2, <1>3 DEF PCs
<1>5. Born'
  BY <1>1, <1>2, <1>3
<1>6. WorkerHolds'
  <2> SUFFICES ASSUME NEW j \in OpIds, Working(j)'
               PROVE  /\ j \in operations' /\ j \notin expiring'
                      /\ activeOperations'[object'[j].stack] = j
    OBVIOUS
  <2>1. j # id /\ Working(j)
    BY <1>3 DEF Working
  <2> QED
    BY <2>1, <1>2, <1>3
<1>7. HolderIsRegistered'
  BY <1>1, <1>2, <1>3 DEF HolderIsRegistered
<1>8. Settled'
  BY <1>1, <1>2, <1>3 DEF Late
<1> QED
  BY <1>4, <1>5, <1>6, <1>7, <1>8

(***************************************************************************)
(* The timer: the operation it belongs to is over, so no worker loses its  *)
(* registration, and the stack it frees is one that the operation held.    *)
(***************************************************************************)
LEMMA RemoveKeepsIInv ==
    ASSUME NEW id \in OpIds, IInv, removeOperation(id)
    PROVE  IInv'
<1> USE DEF IInv, RegistryType, Born, WorkerHolds, Settled
<1>1. /\ id \in expiring /\ expiring' = expiring \ {id}
      /\ operations' = operations \ {id}
      /\ UNCHANGED <<object, pc>>
  BY DEF removeOperation
<1>2. pc[id] # "unborn" /\ object[id] \in Operation /\ object[id].stack \in Stacks
  BY <1>1 DEF Operation
<1>3. /\ activeOperations' \in [Stacks -> OpIds \cup {NoOp}]
      /\ \A s \in Stacks : activeOperations'[s] \in {activeOperations[s], NoOp}
      /\ \A s \in Stacks : activeOperations[s] # id =>
             activeOperations'[s] = activeOperations[s]
      /\ activeOperations'[object[id].stack] # id
  BY <1>2, UnlockStack DEF removeOperation
<1>4. RegistryType' /\ Born' /\ Settled'
  BY <1>1, <1>3
<1>5. WorkerHolds'
  <2> SUFFICES ASSUME NEW j \in OpIds, Working(j)
               PROVE  /\ j \in operations' /\ j \notin expiring'
                      /\ activeOperations'[object[j].stack] = j
    BY <1>1 DEF Working
  <2>1. /\ j # id /\ j \in operations /\ j \notin expiring
        /\ activeOperations[object[j].stack] = j /\ pc[j] # "unborn"
    BY <1>1 DEF Working
  <2>2. object[j].stack \in Stacks
    BY <2>1 DEF Operation
  <2> QED
    BY <2>1, <2>2, <1>1, <1>3
<1>6. HolderIsRegistered'
  <2> SUFFICES ASSUME NEW s \in Stacks, activeOperations'[s] # NoOp
               PROVE  /\ activeOperations'[s] \in operations'
                      /\ object[activeOperations'[s]].stack = s
    BY <1>1 DEF HolderIsRegistered
  <2>1. activeOperations'[s] = activeOperations[s]
    BY <1>3
  <2>2. activeOperations[s] \in operations /\ object[activeOperations[s]].stack = s
    BY <2>1 DEF HolderIsRegistered
  <2>3. activeOperations[s] # id
    BY <2>1, <2>2, <1>3
  <2> QED
    BY <2>1, <2>2, <2>3, <1>1
<1> QED
  BY <1>4, <1>5, <1>6

\* The deferred unlock, and the early one of a self-operation: a goroutine
\* that no longer works frees at most its own stack.
LEMMA UnlockKeepsIInv ==
    ASSUME NEW id \in OpIds, NEW label \in {"post", "done"}, IInv,
           pc[id] \in {"handoff", "unlock"}, unlockStack(id),
           pc' = [pc EXCEPT ![id] = label],
           UNCHANGED <<operations, expiring, object>>
    PROVE  IInv'
<1> USE DEF IInv, RegistryType, Born, WorkerHolds
<1>1. pc[id] # "unborn" /\ object[id] \in Operation /\ object[id].stack \in Stacks
  BY DEF Operation
<1>2. /\ activeOperations' \in [Stacks -> OpIds \cup {NoOp}]
      /\ \A s \in Stacks : activeOperations'[s] \in {activeOperations[s], NoOp}
      /\ \A s \in Stacks : activeOperations[s] # id =>
             activeOperations'[s] = activeOperations[s]
  BY UnlockStack
<1>3. RegistryType' /\ Born'
  BY <1>1, <1>2 DEF PCs
<1>4. WorkerHolds'
  <2> SUFFICES ASSUME NEW j \in OpIds, Working(j)'
               PROVE  /\ j \in operations /\ j \notin expiring
                      /\ activeOperations'[object[j].stack] = j
    OBVIOUS
  <2>1. j # id /\ Working(j) /\ pc[j] # "unborn"
    BY DEF Working
  <2>2. object[j].stack \in Stacks
    BY <2>1 DEF Operation
  <2> QED
    BY <2>1, <2>2, <1>2
<1>5. HolderIsRegistered'
  BY <1>2 DEF HolderIsRegistered
<1>6. Settled'
  BY DEF Settled, Late
<1> QED
  BY <1>3, <1>4, <1>5, <1>6

\* A goroutine that moves on without touching the registry: to a stage of
\* work only from one, and past its work only when it is past it already.
LEMMA MoveKeepsIInv ==
    ASSUME NEW id \in OpIds, NEW label \in PCs \ {"unborn"}, IInv,
           pc[id] # "unborn",
           label \in {"run", "drain"} => Working(id),
           label \in Late => pc[id] \in Late,
           pc' = [pc EXCEPT ![id] = label],
           UNCHANGED <<registryVars, object>>
    PROVE  IInv'
<1> USE DEF IInv, RegistryType, Born, registryVars
<1>1. RegistryType' /\ Born'
  OBVIOUS
<1>2. WorkerHolds'
  BY DEF WorkerHolds, Working
<1>3. HolderIsRegistered'
  BY DEF HolderIsRegistered
<1>4. Settled'
  BY DEF Settled
<1> QED
  BY <1>1, <1>2, <1>3, <1>4

\* A step that leaves the registry and the goroutines alone.
LEMMA StutterKeepsIInv ==
    ASSUME IInv, UNCHANGED <<registryVars, object, pc>>
    PROVE  IInv'
BY DEF IInv, RegistryType, Born, WorkerHolds, HolderIsRegistered, Settled,
       Working, registryVars

\* After a restart nothing is registered and nothing works.
LEMMA RestartKeepsIInv ==
    ASSUME IInv, AgentRestart
    PROVE  IInv'
<1> USE DEF IInv, RegistryType, Born, AgentRestart
<1>1. RegistryType' /\ Born'
  BY DEF PCs
<1>2. WorkerHolds'
  BY DEF WorkerHolds, Working
<1>3. HolderIsRegistered'
  BY DEF HolderIsRegistered
<1>4. Settled'
  BY DEF Settled, Late
<1> QED
  BY <1>1, <1>2, <1>3, <1>4

--------------------------------------------------------------------------------
(***************************************************************************)
(* The invariant holds of every step, one case for each action.            *)
(***************************************************************************)

LEMMA InitIInv == Init => IInv
BY OperationsAssumption
   DEF Init, IInv, RegistryType, Born, WorkerHolds, HolderIsRegistered, Settled,
       Working, PCs

LEMMA GoroutineKeepsIInv ==
    ASSUME NEW id \in OpIds, IInv, Goroutine(id)
    PROVE  IInv'
<1> USE OperationsAssumption
<1>1. CASE FailToStart(id)
  BY <1>1, SettleKeepsIInv DEF FailToStart, At, Working
<1>2. CASE StartCommand(id)
  BY <1>2, MoveKeepsIInv DEF StartCommand, At, GoTo, Working, PCs, Late
<1>3. CASE Wait(id)
  BY <1>3, SettleKeepsIInv DEF Wait, At, Working
<1>4. CASE FinishWork(id)
  BY <1>4, SettleKeepsIInv DEF FinishWork, At, Working
<1>5. CASE HandOff(id)
  BY <1>5, SettleKeepsIInv DEF HandOff, At, Working
<1>6. CASE Report(id)
  BY <1>6, MoveKeepsIInv DEF Report, At, GoTo, Working, PCs, Late
<1>7. CASE Unlock(id)
  BY <1>7, UnlockKeepsIInv DEF Unlock, At, GoTo
<1>8. CASE UnlockForHandoff(id)
  BY <1>8, UnlockKeepsIInv DEF UnlockForHandoff, At, GoTo
<1>9. CASE PostToSidecar(id)
  BY <1>9, MoveKeepsIInv DEF PostToSidecar, At, GoTo, Working, PCs, Late
<1>10. CASE SidecarAnswer(id)
  BY <1>10, MoveKeepsIInv DEF SidecarAnswer, At, GoTo, Working, PCs, Late
<1> QED
  BY <1>1, <1>2, <1>3, <1>4, <1>5, <1>6, <1>7, <1>8, <1>9, <1>10 DEF Goroutine

LEMMA NextKeepsIInv == IInv /\ [Next]_vars => IInv'
<1> SUFFICES ASSUME IInv, [Next]_vars PROVE IInv'
  OBVIOUS
<1>1. CASE UNCHANGED vars
  BY <1>1, StutterKeepsIInv DEF vars, registryVars
<1>2. ASSUME NEW id \in OpIds, NEW stack \in Stacks, NEW request \in Requests,
             StartOperation(id, stack, request)
      PROVE  IInv'
  BY <1>2, StartKeepsIInv
<1>3. ASSUME NEW id \in OpIds, Goroutine(id) PROVE IInv'
  BY <1>3, GoroutineKeepsIInv
<1>4. ASSUME NEW id \in OpIds, Command(id) PROVE IInv'
  BY <1>4, StutterKeepsIInv
     DEF Command, Exit, ReadLine, OverlongLine, EndOfFile, registryVars
<1>5. ASSUME NEW id \in OpIds, Progress(id) \/ SkipEntry(id) \/ SidecarDone(id)
      PROVE  IInv'
  BY <1>5, StutterKeepsIInv DEF Progress, SkipEntry, SidecarDone, registryVars
<1>6. ASSUME NEW id \in OpIds, removeOperation(id) PROVE IInv'
  BY <1>6, RemoveKeepsIInv
<1>7. CASE AgentRestart
  BY <1>7, RestartKeepsIInv
<1> QED
  BY <1>1, <1>2, <1>3, <1>4, <1>5, <1>6, <1>7 DEF Next

LEMMA Inductive == Spec => []IInv
BY InitIInv, NextKeepsIInv, PTL DEF Spec

(***************************************************************************)
(* The stack of a working operation is taken by that operation, for any    *)
(* number of stacks and operations; so at most one works on a stack, which *)
(* has one entry in activeOperations.                                      *)
(***************************************************************************)
THEOREM OneWorker == Spec => []OneWorkerPerStack
<1>1. IInv => OneWorkerPerStack
  BY DEF IInv, WorkerHolds, OneWorkerPerStack
<1> QED
  BY <1>1, Inductive, PTL

(***************************************************************************)
(* An entry of activeOperations never outlives the registration of its     *)
(* operation, whatever order the timer and the unlocks come in.            *)
(***************************************************************************)
THEOREM HolderRegistered == Spec => []HolderIsRegistered
<1>1. IInv => HolderIsRegistered
  BY DEF IInv
<1> QED
  BY <1>1, Inductive, PTL

--------------------------------------------------------------------------------
(***************************************************************************)
(* The type invariant.  What is left of it are the processes, the streams  *)
(* and the sidecar; the exit code of a completion is where the registry    *)
(* comes in.                                                               *)
(***************************************************************************)
RestType ==
    /\ process \in [OpIds -> {"none", "running", "blocked", "exited"}]
    /\ reading \in [OpIds -> SUBSET Pipes]
    /\ stream \in [OpIds -> BroadcasterType(Codes)]
    /\ sidecar \subseteq OpIds

\* The stream of one operation is replaced by a broadcaster value.
LEMMA SayType ==
    ASSUME NEW id \in OpIds, stream \in [OpIds -> BroadcasterType(Codes)],
           NEW bc \in BroadcasterType(Codes), Say(id, bc)
    PROVE  stream' \in [OpIds -> BroadcasterType(Codes)]
BY DEF Say

\* What Report broadcasts is well typed: in the branches that complete the
\* stream with the operation's own exit code there is one.
LEMMA OutcomeType ==
    ASSUME NEW id \in OpIds, IInv, pc[id] = "report",
           stream \in [OpIds -> BroadcasterType(Codes)]
    PROVE  Outcome(id) \in BroadcasterType(Codes)
<1> DEFINE bc == stream[id]
<1>1. bc \in BroadcasterType(Codes) /\ 1 \in Codes
  BY OperationsAssumption
<1>2. object[id].status \in {"completed", "failed"}
  BY DEF IInv, Settled, Late
<1>3. object[id].status = "completed" => object[id].exitCode \in Codes
  BY DEF IInv, Settled
<1> HIDE DEF bc
<1>4. BroadcastError(bc) \in BroadcasterType(Codes)
  BY <1>1, ErrorKeepsType
<1>5. BroadcastComplete(BroadcastError(bc), 1) \in BroadcasterType(Codes)
  BY <1>1, <1>4, CompleteKeepsType
<1>6. Broadcast(bc, "stdout") \in BroadcasterType(Codes)
  BY <1>1, BroadcastKeepsType DEF OutputTypes
<1>7. ASSUME NEW c \in BroadcasterType(Codes), object[id].status = "completed"
      PROVE  BroadcastComplete(c, object[id].exitCode) \in BroadcasterType(Codes)
  BY <1>3, <1>7, CompleteKeepsType
<1>8. CASE object[id].status = "failed"
  BY <1>4, <1>5, <1>8 DEF Outcome, bc
<1>9. CASE object[id].status = "completed"
  <2>1. Outcome(id) \in { BroadcastComplete(Broadcast(bc, "stdout"), object[id].exitCode),
                          BroadcastComplete(bc, object[id].exitCode) }
    BY <1>9 DEF Outcome, bc
  <2> QED
    BY <1>1, <1>6, <1>7, <1>9, <2>1
<1> QED
  BY <1>2, <1>8, <1>9

LEMMA GoroutineKeepsRest ==
    ASSUME NEW id \in OpIds, IInv, RestType, Goroutine(id)
    PROVE  RestType'
<1> USE DEF RestType, processVars
<1>1. CASE FailToStart(id) \/ Wait(id) \/ FinishWork(id) \/ HandOff(id)
  BY <1>1 DEF FailToStart, Wait, FinishWork, HandOff, Settle
<1>2. CASE StartCommand(id)
  <2>1. Broadcast(stream[id], "stdout") \in BroadcasterType(Codes)
    BY BroadcastKeepsType DEF OutputTypes
  <2>2. stream' \in [OpIds -> BroadcasterType(Codes)]
    BY <1>2, <2>1, SayType DEF StartCommand
  <2> QED
    BY <1>2, <2>2 DEF StartCommand, Pipes
<1>3. CASE Report(id)
  <2>1. Outcome(id) \in BroadcasterType(Codes)
    BY <1>3, OutcomeType DEF Report, At
  <2>2. stream' \in [OpIds -> BroadcasterType(Codes)]
    BY <1>3, <2>1, SayType DEF Report
  <2> QED
    BY <1>3, <2>2 DEF Report
<1>4. CASE Unlock(id) \/ UnlockForHandoff(id) \/ PostToSidecar(id) \/ SidecarAnswer(id)
  BY <1>4 DEF Unlock, UnlockForHandoff, PostToSidecar, SidecarAnswer
<1> QED
  BY <1>1, <1>2, <1>3, <1>4 DEF Goroutine

LEMMA CommandKeepsRest ==
    ASSUME NEW id \in OpIds, RestType, Command(id)
    PROVE  RestType'
<1> USE DEF RestType
<1>1. CASE Exit(id)
  BY <1>1 DEF Exit
<1>2. ASSUME NEW pipe \in Pipes, ReadLine(id, pipe) PROVE RestType'
  <2>1. Broadcast(stream[id], pipe) \in BroadcasterType(Codes)
    BY BroadcastKeepsType DEF OutputTypes, Pipes
  <2>2. stream' \in [OpIds -> BroadcasterType(Codes)]
    BY <1>2, <2>1, SayType DEF ReadLine
  <2> QED
    BY <1>2, <2>2 DEF ReadLine, processVars
<1>3. ASSUME NEW pipe \in Pipes, OverlongLine(id, pipe) PROVE RestType'
  BY <1>3 DEF OverlongLine
<1>4. ASSUME NEW pipe \in Pipes, EndOfFile(id, pipe) PROVE RestType'
  BY <1>4 DEF EndOfFile
<1> QED
  BY <1>1, <1>2, <1>3, <1>4 DEF Command

LEMMA NextKeepsRest == IInv /\ RestType /\ [Next]_vars => RestType'
<1> SUFFICES ASSUME IInv, RestType, [Next]_vars PROVE RestType'
  OBVIOUS
<1>1. CASE UNCHANGED vars
  BY <1>1 DEF RestType, vars, processVars
<1>2. ASSUME NEW id \in OpIds, NEW stack \in Stacks, NEW request \in Requests,
             StartOperation(id, stack, request)
      PROVE  RestType'
  BY <1>2 DEF RestType, StartOperation, processVars
<1>3. ASSUME NEW id \in OpIds, Goroutine(id) PROVE RestType'
  BY <1>3, GoroutineKeepsRest
<1>4. ASSUME NEW id \in OpIds, Command(id) PROVE RestType'
  BY <1>4, CommandKeepsRest
<1>5. ASSUME NEW id \in OpIds, Progress(id) PROVE RestType'
  <2>1. Broadcast(stream[id], "progress") \in BroadcasterType(Codes)
    BY BroadcastKeepsType DEF OutputTypes, RestType
  <2>2. stream' \in [OpIds -> BroadcasterType(Codes)]
    BY <1>5, <2>1, SayType DEF Progress, RestType
  <2> QED
    BY <1>5, <2>2 DEF Progress, processVars, RestType
<1>6. ASSUME NEW id \in OpIds, SkipEntry(id) PROVE RestType'
  <2>1. BroadcastError(stream[id]) \in BroadcasterType(Codes)
    BY OperationsAssumption, ErrorKeepsType DEF RestType
  <2>2. stream' \in [OpIds -> BroadcasterType(Codes)]
    BY <1>6, <2>1, SayType DEF SkipEntry, RestType
  <2> QED
    BY <1>6, <2>2 DEF SkipEntry, processVars, RestType
<1>7. ASSUME NEW id \in OpIds, SidecarDone(id) \/ removeOperation(id) PROVE RestType'
  BY <1>7 DEF SidecarDone, removeOperation, processVars, RestType
<1>8. CASE AgentRestart
  BY <1>8 DEF AgentRestart, RestType
<1> QED
  BY <1>1, <1>2, <1>3, <1>4, <1>5, <1>6, <1>7, <1>8 DEF Next

LEMMA InitRest == Init => RestType
BY NewBroadcasterType DEF Init, RestType

(***************************************************************************)
(* The types of the registry, the processes and the streams, for all       *)
(* constants: in particular no completion carries a code that a command    *)
(* cannot end with.                                                        *)
(***************************************************************************)
THEOREM TypeCorrect == Spec => []TypeOK
<1>1. IInv /\ RestType => TypeOK
  BY DEF IInv, RegistryType, RestType, TypeOK
<1>2. Spec => []RestType
  BY InitRest, NextKeepsRest, Inductive, PTL DEF Spec
<1> QED
  BY <1>1, <1>2, Inductive, PTL

--------------------------------------------------------------------------------
(***************************************************************************)
(* What the streams say and when: the sidecar is asked only after the      *)
(* client has its completion, and a completion is final - the registry     *)
(* settled with the same verdict, the work over.                           *)
(*                                                                         *)
(* Both come down to where the goroutine of an operation is when its       *)
(* stream is completed.  Only Report completes the stream of a compose,    *)
(* backup or self operation, so one that is completed is past Report       *)
(* (After), and nothing that comes later changes object or stream.         *)
(***************************************************************************)

After == (Late \ {"report"}) \cup {"killed"}

Plain(id) == object[id].request.command # "archive"

Final(id) ==
    /\ reading[id] # {} => pc[id] = "drain"
    /\ pc[id] = "unborn" => ~stream[id].completed
    /\ pc[id] \in Late => ~object[id].request.credentials
    /\ (stream[id].completed /\ Plain(id)) =>
          /\ pc[id] \in After
          /\ object[id].status \in {"completed", "failed"}
          /\ VerdictAgrees(id)
          /\ ~object[id].request.credentials

Announced(id) ==
    (id \in sidecar \/ pc[id] \in {"handoff", "post", "await"}) => stream[id].completed

OutcomeInv == \A id \in OpIds : Final(id) /\ Announced(id)

FullInv == IInv /\ RestType /\ OutcomeInv

--------------------------------------------------------------------------------
\* What a step leaves alone of an operation keeps its part of the invariant.
LEMMA Untouched ==
    ASSUME NEW j \in OpIds, Final(j), Announced(j),
           object'[j] = object[j], stream'[j] = stream[j], pc'[j] = pc[j],
           reading'[j] \subseteq reading[j], sidecar' \subseteq sidecar \cup (OpIds \ {j})
    PROVE  Final(j)' /\ Announced(j)'
BY DEF Final, Announced, VerdictAgrees, Verdict, Plain

\* updateOperationStatus drops the credentials and keeps the command.
LEMMA UpdateRequest ==
    ASSUME NEW id \in OpIds, IInv, Working(id),
           NEW status, NEW code, updateOperationStatus(id, status, code)
    PROVE  /\ ~object'[id].request.credentials
           /\ object'[id].request.command = object[id].request.command
<1>1. id \in operations /\ object \in [OpIds -> Operation \cup {Unborn}] /\ object[id] \in Operation
  BY DEF IInv, RegistryType, WorkerHolds, Born, Working
<1>2. object[id].request \in Request
  BY <1>1 DEF Operation
<1> DEFINE r == [object[id].request EXCEPT !.credentials = FALSE]
<1>3. ~r.credentials /\ r.command = object[id].request.command
  BY <1>2 DEF Request
<1>4. object'[id] = [object[id] EXCEPT !.status = status, !.exitCode = code, !.request = r]
  BY <1>1 DEF updateOperationStatus, Operation, Request
<1>5. object'[id].request = r
  <2> HIDE DEF r
  <2> QED
    BY <1>1, <1>4 DEF Operation
<1> QED
  BY <1>3, <1>5

\* The outcome is settled while the stream is not completed, unless it is
\* that of an archive.
LEMMA SettleKeepsOutcome ==
    ASSUME NEW id \in OpIds, FullInv, Working(id), reading[id] = {},
           NEW status \in {"completed", "failed"}, NEW code \in Codes \cup {NoExit},
           Settle(id, status, code)
    PROVE  OutcomeInv'
<1>1. /\ updateOperationStatus(id, status, code)
      /\ pc' = [pc EXCEPT ![id] = "report"]
      /\ UNCHANGED <<operations, activeOperations, process, reading, stream, sidecar>>
  BY DEF Settle, GoTo, processVars
<1>2. /\ pc[id] # "unborn"
      /\ \A j \in OpIds : j # id => object'[j] = object[j]
  BY <1>1, UpdateStatus DEF FullInv, Working
<1>3. pc \in [OpIds -> PCs]
  BY DEF FullInv, IInv, RegistryType
<1>4. ASSUME NEW j \in OpIds, j # id PROVE Final(j)' /\ Announced(j)'
  BY <1>1, <1>2, <1>3, <1>4, Untouched DEF FullInv, OutcomeInv
<1>5. /\ ~object'[id].request.credentials
      /\ object'[id].request.command = object[id].request.command
  BY <1>1, UpdateRequest DEF FullInv
<1>6. Final(id) /\ Announced(id)
  BY DEF FullInv, OutcomeInv
<1>7. pc[id] \notin After
  BY DEF Working, After, Late
<1>8. ~(stream[id].completed /\ Plain(id))
  BY <1>6, <1>7 DEF Final
<1>9. Final(id)'
  BY <1>1, <1>3, <1>5, <1>8 DEF Final, Plain
<1>10. Announced(id)'
  BY <1>1, <1>3, <1>6 DEF Announced
<1> QED
  BY <1>4, <1>9, <1>10 DEF OutcomeInv

\* A message is broadcast by the work of an operation.
LEMMA SayKeepsOutcome ==
    ASSUME NEW id \in OpIds, FullInv, Working(id),
           NEW bc \in BroadcasterType(Codes),
           bc.completed = stream[id].completed \/ ~Plain(id),
           stream[id].completed => bc.completed,
           Say(id, bc), UNCHANGED <<object, sidecar>>,
           \A j \in OpIds : j # id => reading'[j] = reading[j],
           \/ UNCHANGED <<pc, reading>>
           \/ pc' = [pc EXCEPT ![id] = "drain"]
    PROVE  OutcomeInv'
<1>1. /\ pc \in [OpIds -> PCs] /\ stream \in [OpIds -> BroadcasterType(Codes)]
      /\ stream' = [stream EXCEPT ![id] = bc]
  BY DEF FullInv, IInv, RegistryType, RestType, Say
<1>2. ASSUME NEW j \in OpIds, j # id PROVE Final(j)' /\ Announced(j)'
  <2>1. stream'[j] = stream[j] /\ pc'[j] = pc[j] /\ reading'[j] = reading[j]
    BY <1>1, <1>2
  <2> QED
    BY <2>1, Untouched DEF FullInv, OutcomeInv
<1>3. Final(id) /\ Announced(id) /\ pc[id] \in {"run", "drain"}
  BY DEF FullInv, OutcomeInv, Working
<1>4. ~(bc.completed /\ Plain(id))
  BY <1>3 DEF Final, After, Late
<1>5. stream'[id] = bc /\ pc'[id] \in {"run", "drain"}
  BY <1>1, <1>3
<1>6. Final(id)'
  BY <1>1, <1>3, <1>4, <1>5 DEF Final, Plain, Late
<1>7. Announced(id)'
  BY <1>3, <1>5 DEF Announced
<1> QED
  BY <1>2, <1>6, <1>7 DEF OutcomeInv

\* What Report broadcasts completes the stream, with the registry's verdict
\* if nothing has completed it before.
LEMMA OutcomeCompletes ==
    ASSUME NEW id \in OpIds, FullInv, pc[id] = "report"
    PROVE  /\ Outcome(id).completed
           /\ (Plain(id) /\ ~stream[id].completed) =>
                 LET log == Outcome(id).messageLog
                 IN  (log[Len(log)].exitCode = 0) <=>
                        (object[id].status = "completed" /\ object[id].exitCode = 0)
<1> DEFINE bc == stream[id]
<1> DEFINE code == object[id].exitCode
<1> DEFINE Says(c, n) == c.messageLog[Len(c.messageLog)].exitCode = n
<1>1. bc \in BroadcasterType(Codes) /\ {0, 1} \subseteq Codes
  BY OperationsAssumption DEF FullInv, RestType
<1>2. object[id].status \in {"completed", "failed"}
  BY DEF FullInv, IInv, Settled, Late
<1>3. object[id].status = "completed" => code \in Codes
  BY DEF FullInv, IInv, Settled
<1> HIDE DEF bc, code
<1>4. CASE object[id].status = "failed"
  <2>1. /\ BroadcastError(bc) \in BroadcasterType(Codes)
        /\ BroadcastError(bc).completed
        /\ ~bc.completed => Says(BroadcastError(bc), 1)
    BY <1>1, ErrorKeepsType, ErrorCompletes, ErrorSaysOne
  <2>2. BroadcastComplete(BroadcastError(bc), 1) = BroadcastError(bc)
    BY <2>1, CompletedIsFrozen
  <2>3. Outcome(id) = BroadcastError(bc)
    BY <1>4, <2>2 DEF Outcome, bc
  <2> QED
    BY <1>4, <2>1, <2>3 DEF bc
<1>5. CASE object[id].status = "completed"
  <2>1. code \in Codes
    BY <1>3, <1>5
  <2>2. Broadcast(bc, "stdout") \in BroadcasterType(Codes)
    BY <1>1, BroadcastKeepsType DEF OutputTypes
  <2>3. /\ BroadcastComplete(bc, code).completed
        /\ BroadcastComplete(Broadcast(bc, "stdout"), code).completed
    BY <1>1, <2>1, <2>2, CompleteCompletes
  <2>4. ~bc.completed => Says(BroadcastComplete(bc, code), code)
    BY <1>1, <2>1, CompletionSaysCode
  <2>5. \/ ~Plain(id) /\ Outcome(id) = BroadcastComplete(Broadcast(bc, "stdout"), code)
        \/ Plain(id) /\ Outcome(id) = BroadcastComplete(bc, code)
    BY <1>5 DEF Outcome, Plain, bc, code
  <2> QED
    BY <1>5, <2>3, <2>4, <2>5 DEF bc, code
<1> QED
  BY <1>2, <1>4, <1>5

LEMMA ReportKeepsOutcome ==
    ASSUME NEW id \in OpIds, FullInv, Report(id)
    PROVE  OutcomeInv'
<1> DEFINE bc == Outcome(id)
<1>1. /\ pc[id] = "report" /\ pc \in [OpIds -> PCs]
      /\ stream \in [OpIds -> BroadcasterType(Codes)]
      /\ stream' = [stream EXCEPT ![id] = bc]
      /\ pc' = [pc EXCEPT ![id] = pc'[id]] /\ pc'[id] \in {"handoff", "unlock"}
      /\ UNCHANGED <<object, reading, sidecar>>
  BY DEF Report, At, Say, GoTo, processVars, FullInv, IInv, RegistryType, RestType
<1>2. /\ bc.completed
      /\ (Plain(id) /\ ~stream[id].completed) =>
            LET log == bc.messageLog
            IN  (log[Len(log)].exitCode = 0) <=>
                   (object[id].status = "completed" /\ object[id].exitCode = 0)
  BY <1>1, OutcomeCompletes
<1> HIDE DEF bc
<1>3. ASSUME NEW j \in OpIds, j # id PROVE Final(j)' /\ Announced(j)'
  <2>1. stream'[j] = stream[j] /\ pc'[j] = pc[j]
    BY <1>1, <1>3
  <2> QED
    BY <1>1, <2>1, Untouched DEF FullInv, OutcomeInv
<1>4. Final(id) /\ stream'[id] = bc
  BY <1>1 DEF FullInv, OutcomeInv
<1>5. ~(stream[id].completed /\ Plain(id)) /\ ~object[id].request.credentials /\ reading[id] = {}
  BY <1>1, <1>4 DEF Final, After, Late
<1>6. object[id].status \in {"completed", "failed"}
  BY <1>1 DEF FullInv, IInv, Settled, Late
<1>7. Plain(id) => VerdictAgrees(id)'
  BY <1>1, <1>2, <1>4, <1>5 DEF VerdictAgrees, Verdict
<1>8. Final(id)'
  BY <1>1, <1>5, <1>6, <1>7 DEF Final, Plain, After, Late
<1>9. Announced(id)'
  BY <1>2, <1>4 DEF Announced
<1> QED
  BY <1>3, <1>8, <1>9 DEF OutcomeInv

\* The steps after the report say nothing more.
LEMMA MoveKeepsOutcome ==
    ASSUME NEW id \in OpIds, FullInv, pc[id] \in After, pc[id] # "killed",
           NEW label \in After, label # "killed",
           label \in {"handoff", "post", "await"} =>
               pc[id] \in {"handoff", "post", "await"},
           pc' = [pc EXCEPT ![id] = label],
           UNCHANGED <<object, reading, stream>>,
           \/ sidecar' = sidecar
           \/ pc[id] = "post" /\ sidecar' = sidecar \cup {id}
    PROVE  OutcomeInv'
<1>1. pc \in [OpIds -> PCs]
  BY DEF FullInv, IInv, RegistryType
<1>2. ASSUME NEW j \in OpIds, j # id PROVE Final(j)' /\ Announced(j)'
  BY <1>1, <1>2 DEF FullInv, OutcomeInv, Final, Announced, VerdictAgrees, Verdict, Plain
<1>3. Final(id) /\ Announced(id) /\ pc'[id] = label
  BY <1>1 DEF FullInv, OutcomeInv
<1>4. Final(id)'
  BY <1>3 DEF Final, VerdictAgrees, Verdict, Plain, After, Late
<1>5. Announced(id)'
  BY <1>3 DEF Announced
<1> QED
  BY <1>2, <1>4, <1>5 DEF OutcomeInv

--------------------------------------------------------------------------------
(***************************************************************************)
(* The invariant holds of every step, one case for each action.            *)
(***************************************************************************)

LEMMA InitOutcome == Init => OutcomeInv
BY DEF Init, OutcomeInv, Final, Announced, NewBroadcaster, Late

LEMMA StartKeepsOutcome ==
    ASSUME NEW id \in OpIds, NEW stack \in Stacks, NEW request \in Requests,
           FullInv, StartOperation(id, stack, request)
    PROVE  OutcomeInv'
<1>1. /\ pc[id] = "unborn" /\ pc \in [OpIds -> PCs] /\ pc' = [pc EXCEPT ![id] = "run"]
      /\ UNCHANGED <<reading, stream, sidecar>>
      /\ \A j \in OpIds : j # id => object'[j] = object[j]
  BY DEF StartOperation, processVars, FullInv, IInv, RegistryType
<1>2. ASSUME NEW j \in OpIds, j # id PROVE Final(j)' /\ Announced(j)'
  BY <1>1, <1>2, Untouched DEF FullInv, OutcomeInv
<1>3. Final(id) /\ Announced(id) /\ pc'[id] = "run"
  BY <1>1 DEF FullInv, OutcomeInv
<1>4. ~stream'[id].completed /\ reading'[id] = {} /\ id \notin sidecar'
  BY <1>1, <1>3 DEF Final, Announced
<1>5. Final(id)' /\ Announced(id)'
  BY <1>3, <1>4 DEF Final, Announced, Late
<1> QED
  BY <1>2, <1>5 DEF OutcomeInv

LEMMA GoroutineKeepsOutcome ==
    ASSUME NEW id \in OpIds, FullInv, Goroutine(id)
    PROVE  OutcomeInv'
<1> USE OperationsAssumption
<1>1. Final(id)
  BY DEF FullInv, OutcomeInv
<1>2. CASE FailToStart(id) \/ FinishWork(id) \/ HandOff(id)
  <2>1. Working(id) /\ reading[id] = {}
    BY <1>1, <1>2 DEF FailToStart, FinishWork, HandOff, At, Working, Final
  <2> QED
    BY <1>2, <2>1, SettleKeepsOutcome DEF FailToStart, FinishWork, HandOff
<1>3. CASE Wait(id)
  BY <1>3, SettleKeepsOutcome DEF Wait, At, Working
<1>4. CASE StartCommand(id)
  <2>1. stream[id] \in BroadcasterType(Codes)
    BY DEF FullInv, RestType
  <2>2. /\ Broadcast(stream[id], "stdout") \in BroadcasterType(Codes)
        /\ Broadcast(stream[id], "stdout").completed = stream[id].completed
    BY <2>1, BroadcastKeepsType, BroadcastCompletesNothing DEF OutputTypes
  <2> QED
    BY <1>4, <2>2, SayKeepsOutcome
       DEF StartCommand, At, GoTo, Working, FullInv, RestType
<1>5. CASE Report(id)
  BY <1>5, ReportKeepsOutcome
<1>6. CASE Unlock(id)
  BY <1>6, MoveKeepsOutcome DEF Unlock, At, GoTo, After, Late, processVars
<1>7. CASE UnlockForHandoff(id)
  BY <1>7, MoveKeepsOutcome DEF UnlockForHandoff, At, GoTo, After, Late, processVars
<1>8. CASE PostToSidecar(id)
  BY <1>8, MoveKeepsOutcome DEF PostToSidecar, At, GoTo, After, Late, processVars
<1>9. CASE SidecarAnswer(id)
  BY <1>9, MoveKeepsOutcome DEF SidecarAnswer, At, GoTo, After, Late, processVars
<1> QED
  BY <1>2, <1>3, <1>4, <1>5, <1>6, <1>7, <1>8, <1>9 DEF Goroutine

LEMMA CommandKeepsOutcome ==
    ASSUME NEW id \in OpIds, FullInv, Command(id)
    PROVE  OutcomeInv'
<1>1. reading \in [OpIds -> SUBSET Pipes] /\ \A j \in OpIds : Final(j) /\ Announced(j)
  BY DEF FullInv, RestType, OutcomeInv
<1>2. CASE Exit(id)
  BY <1>1, <1>2, Untouched DEF Exit, OutcomeInv
<1>3. ASSUME NEW pipe \in Pipes, ReadLine(id, pipe) PROVE OutcomeInv'
  <2>1. /\ Broadcast(stream[id], pipe) \in BroadcasterType(Codes)
        /\ Broadcast(stream[id], pipe).completed = stream[id].completed
    BY BroadcastKeepsType, BroadcastCompletesNothing
       DEF OutputTypes, Pipes, FullInv, RestType
  <2>2. Working(id)
    BY <1>1, <1>3 DEF ReadLine, Final, Working
  <2> QED
    BY <1>3, <2>1, <2>2, SayKeepsOutcome DEF ReadLine, processVars
<1>4. ASSUME NEW pipe \in Pipes, OverlongLine(id, pipe) \/ EndOfFile(id, pipe)
      PROVE  OutcomeInv'
  <2>1. /\ UNCHANGED <<object, pc, stream, sidecar>>
        /\ \A j \in OpIds : reading'[j] \subseteq reading[j]
    BY <1>1, <1>4 DEF OverlongLine, EndOfFile
  <2> QED
    BY <1>1, <2>1, Untouched DEF OutcomeInv
<1> QED
  BY <1>2, <1>3, <1>4 DEF Command

LEMMA RestartKeepsOutcome ==
    ASSUME FullInv, AgentRestart
    PROVE  OutcomeInv'
<1> SUFFICES ASSUME NEW j \in OpIds PROVE Final(j)' /\ Announced(j)'
  BY DEF OutcomeInv
<1>1. Final(j) /\ Announced(j)
  BY DEF FullInv, OutcomeInv
<1>2. /\ pc'[j] = IF pc[j] \in {"unborn", "done"} THEN pc[j] ELSE "killed"
      /\ reading'[j] = {} /\ UNCHANGED <<object, stream, sidecar>>
  BY DEF AgentRestart
<1> QED
  BY <1>1, <1>2 DEF Final, Announced, VerdictAgrees, Verdict, Plain, After, Late

LEMMA NextKeepsOutcome == FullInv /\ [Next]_vars => OutcomeInv'
<1> SUFFICES ASSUME FullInv, [Next]_vars PROVE OutcomeInv'
  OBVIOUS
<1>1. \A j \in OpIds : Final(j) /\ Announced(j)
  BY DEF FullInv, OutcomeInv
<1>2. CASE UNCHANGED vars
  BY <1>1, <1>2, Untouched DEF OutcomeInv, vars, processVars
<1>3. ASSUME NEW id \in OpIds, NEW stack \in Stacks, NEW request \in Requests,
             StartOperation(id, stack, request)
      PROVE  OutcomeInv'
  BY <1>3, StartKeepsOutcome
<1>4. ASSUME NEW id \in OpIds, Goroutine(id) PROVE OutcomeInv'
  BY <1>4, GoroutineKeepsOutcome
<1>5. ASSUME NEW id \in OpIds, Command(id) PROVE OutcomeInv'
  BY <1>5, CommandKeepsOutcome
<1>6. ASSUME NEW id \in OpIds, Progress(id) PROVE OutcomeInv'
  <2>1. /\ Broadcast(stream[id], "progress") \in BroadcasterType(Codes)
        /\ Broadcast(stream[id], "progress").completed = stream[id].completed
    BY BroadcastKeepsType, BroadcastCompletesNothing DEF OutputTypes, FullInv, RestType
  <2> QED
    BY <1>6, <2>1, SayKeepsOutcome DEF Progress, At, Working, processVars
<1>7. ASSUME NEW id \in OpIds, SkipEntry(id) PROVE OutcomeInv'
  <2>1. BroadcastError(stream[id]) \in BroadcasterType(Codes)
        /\ BroadcastError(stream[id]).completed
    BY OperationsAssumption, ErrorKeepsType, ErrorCompletes DEF FullInv, RestType
  <2> QED
    BY <1>7, <2>1, SayKeepsOutcome
       DEF SkipEntry, At, IsKind, Plain, Working, processVars
<1>8. ASSUME NEW id \in OpIds, SidecarDone(id) \/ removeOperation(id) PROVE OutcomeInv'
  <2>1. UNCHANGED <<object, pc, reading, stream>> /\ sidecar' \subseteq sidecar
    BY <1>8 DEF SidecarDone, removeOperation, processVars
  <2> QED
    BY <1>1, <2>1 DEF OutcomeInv, Final, Announced, VerdictAgrees, Verdict, Plain
<1>9. CASE AgentRestart
  BY <1>9, RestartKeepsOutcome
<1> QED
  BY <1>2, <1>3, <1>4, <1>5, <1>6, <1>7, <1>8, <1>9 DEF Next

LEMMA AlwaysFull == Spec => []FullInv
<1>1. Init => FullInv
  BY InitIInv, InitRest, InitOutcome DEF FullInv
<1>2. FullInv /\ [Next]_vars => FullInv'
  BY NextKeepsIInv, NextKeepsRest, NextKeepsOutcome DEF FullInv
<1> QED
  BY <1>1, <1>2, PTL DEF Spec

(***************************************************************************)
(* The sidecar, which will end the agent, is asked only after the client   *)
(* of the update has its completion to read.                               *)
(***************************************************************************)
THEOREM AnnouncedFirst == Spec => []HandoffIsAnnounced
<1>1. FullInv => HandoffIsAnnounced
  BY DEF FullInv, OutcomeInv, Announced, HandoffIsAnnounced
<1> QED
  BY <1>1, AlwaysFull, PTL

(***************************************************************************)
(* A client that has been sent a completion finds the registry settled     *)
(* with the same verdict, the credentials gone and the work over, whatever *)
(* timers, restarts and other operations come in between.                  *)
(***************************************************************************)
THEOREM TheEndIsFinal == Spec => []CompletionIsFinal
<1>1. FullInv => CompletionIsFinal
  BY DEF FullInv, OutcomeInv, Final, Plain, After, Late, CompletionIsFinal,
         StreamSettled, Working
<1> QED
  BY <1>1, AlwaysFull, PTL

--------------------------------------------------------------------------------
(***************************************************************************)
(* The stream of one operation, module OperationStream: what a client      *)
(* receives, that it is never left asleep or cut off untold, and that the  *)
(* stream implements StreamSpec.                                           *)
(*                                                                         *)
(* The invariant ties the three places where a client's messages are - the *)
(* log, the copied batch, the frames sent - to its cursor.  Since a batch  *)
(* is copied to the end of the log, the cursor is also the number of the   *)
(* notify channel picked up with it, and a batch with done = TRUE ends in  *)
(* the completion.                                                         *)
(***************************************************************************)

\* A broadcaster as its own methods leave it.
WellFormed(c) ==
    LET log == c.messageLog
    IN  /\ c.notify = Len(log)
        /\ c.completed => Len(log) > 0
        /\ \A i \in 1 .. Len(log) : IsComplete(log[i]) <=> (c.completed /\ i = Len(log))

Grows(c, d) ==
    /\ Len(c.messageLog) <= Len(d.messageLog)
    /\ \A i \in 1 .. Len(c.messageLog) : d.messageLog[i] = c.messageLog[i]
    /\ Len(d.messageLog) > Len(c.messageLog) \/ d = c

Following == {"away", "copy", "write", "select"}

\* What a client has been sent and will be sent, against the log.
Client(s) ==
    /\ place[s] # "ended"
    /\ cursor[s] = Len(sent[s]) + Len(batch[s])
    /\ cursor[s] <= Len(b.messageLog)
    /\ \A i \in 1 .. Len(sent[s]) : sent[s][i] = b.messageLog[i]
    /\ \A i \in 1 .. Len(batch[s]) : batch[s][i] = b.messageLog[Len(sent[s]) + i]
    /\ place[s] \in {"away", "copy", "select"} => batch[s] = << >>
    /\ place[s] = "away" => sent[s] = << >>
    /\ (place[s] \in Following /\ b.completed) => Len(sent[s]) < Len(b.messageLog)
    /\ (place[s] = "write" /\ done[s]) => (b.completed /\ cursor[s] = Len(b.messageLog))
    /\ place[s] \in {"write", "select"} => wait[s] = cursor[s]

StreamInv == StreamTypeOK /\ WellFormed(b) /\ \A s \in Streams : Client(s)

--------------------------------------------------------------------------------
(***************************************************************************)
(* What the methods do to a well-formed broadcaster.                       *)
(***************************************************************************)

\* Appending one message that is no completion, or the completion.
LEMMA AppendGrows ==
    ASSUME NEW codes, NEW c \in BroadcasterType(codes), WellFormed(c), ~c.completed,
           NEW m \in Messages(codes), NEW d \in BroadcasterType(codes),
           d.messageLog = Append(c.messageLog, m), d.notify = c.notify + 1,
           d.completed <=> IsComplete(m)
    PROVE  WellFormed(d) /\ Grows(c, d)
<1> DEFINE S == Messages(codes)
<1> DEFINE log == c.messageLog
<1>1. log \in Seq(S) /\ m \in S /\ d.messageLog = Append(log, m)
  BY DEF BroadcasterType
<1> HIDE DEF S
<1>2. /\ Len(d.messageLog) = Len(log) + 1 /\ Len(log) \in Nat
      /\ d.messageLog[Len(log) + 1] = m
      /\ \A i \in 1 .. Len(log) : d.messageLog[i] = log[i]
  BY <1>1
<1>3. c.notify = Len(log) /\ \A i \in 1 .. Len(log) : ~IsComplete(log[i])
  BY DEF WellFormed
<1> HIDE DEF log
<1>4. Grows(c, d)
  BY <1>2 DEF Grows, log
<1>5. \A i \in 1 .. Len(d.messageLog) : i \in 1 .. Len(log) \/ i = Len(log) + 1
  BY <1>2
<1>6. \A i \in 1 .. Len(d.messageLog) :
          IsComplete(d.messageLog[i]) <=> (IsComplete(m) /\ i = Len(d.messageLog))
  BY <1>2, <1>3, <1>5
<1>7. WellFormed(d)
  BY <1>2, <1>3, <1>6 DEF WellFormed
<1> QED
  BY <1>4, <1>7

LEMMA GrowsTransitive ==
    ASSUME NEW codes, NEW c \in BroadcasterType(codes), NEW d \in BroadcasterType(codes),
           NEW e \in BroadcasterType(codes), Grows(c, d), Grows(d, e)
    PROVE  Grows(c, e)
<1> DEFINE S == Messages(codes)
<1>1. c.messageLog \in Seq(S) /\ d.messageLog \in Seq(S) /\ e.messageLog \in Seq(S)
  BY DEF BroadcasterType
<1> HIDE DEF S
<1>2. Len(c.messageLog) \in Nat /\ Len(d.messageLog) \in Nat /\ Len(e.messageLog) \in Nat
  BY <1>1
<1> QED
  BY <1>2 DEF Grows

\* What one call of Broadcast, BroadcastComplete or BroadcastError publishes.
Publishes(c, d, codes) ==
    \/ d = c
    \/ /\ ~c.completed
       /\ \/ \E m \in Messages(codes) : d.messageLog = Append(c.messageLog, m)
          \/ \E m \in Messages(codes), n \in Messages(codes) :
                /\ ~IsComplete(m) /\ IsComplete(n)
                /\ d.messageLog = Append(Append(c.messageLog, m), n)

LEMMA BroadcastGrows ==
    ASSUME NEW codes, NEW c \in BroadcasterType(codes), WellFormed(c),
           NEW type \in OutputTypes, NEW d, d = Broadcast(c, type)
    PROVE  d \in BroadcasterType(codes) /\ WellFormed(d) /\ Grows(c, d) /\ Publishes(c, d, codes)
<1>1. Output(type) \in Messages(codes) /\ ~IsComplete(Output(type))
  BY DEF Messages, IsComplete, Output, OutputTypes
<1>3. CASE c.completed
  BY <1>3 DEF Broadcast, Grows, Publishes
<1>4. CASE ~c.completed
  <2>1. /\ d \in BroadcasterType(codes)
        /\ d.messageLog = Append(c.messageLog, Output(type))
        /\ d.notify = c.notify + 1 /\ d.completed = c.completed
    BY <1>1, <1>4, AppendLockedType DEF Broadcast
  <2>2. WellFormed(d) /\ Grows(c, d)
    BY <1>1, <1>4, <2>1, AppendGrows
  <2> QED
    BY <1>1, <1>4, <2>1, <2>2 DEF Publishes
<1> QED
  BY <1>3, <1>4

LEMMA CompleteGrows ==
    ASSUME NEW codes, NEW c \in BroadcasterType(codes), WellFormed(c),
           NEW code \in codes, NEW d, d = BroadcastComplete(c, code)
    PROVE  /\ d \in BroadcasterType(codes) /\ WellFormed(d) /\ Grows(c, d)
           /\ ~c.completed => d.messageLog = Append(c.messageLog, Complete(code))
<1> DEFINE e == [c EXCEPT !.completed = TRUE]
<1>1. Complete(code) \in Messages(codes) /\ IsComplete(Complete(code))
  BY DEF Messages, IsComplete, Complete
<1>3. CASE c.completed
  BY <1>3 DEF BroadcastComplete, completeLocked, Grows
<1>4. CASE ~c.completed
  <2>1. /\ e \in BroadcasterType(codes)
        /\ e.messageLog = c.messageLog /\ e.notify = c.notify /\ e.completed
    BY DEF BroadcasterType
  <2>2. d = appendLocked(e, Complete(code))
    BY <1>4 DEF BroadcastComplete, completeLocked
  <2> HIDE DEF e
  <2>3. /\ d \in BroadcasterType(codes)
        /\ d.messageLog = Append(c.messageLog, Complete(code))
        /\ d.notify = c.notify + 1 /\ d.completed
    BY <1>1, <2>1, <2>2, AppendLockedType
  <2>4. WellFormed(d) /\ Grows(c, d)
    BY <1>1, <1>4, <2>3, AppendGrows
  <2> QED
    BY <2>3, <2>4
<1> QED
  BY <1>3, <1>4

LEMMA CompletePublishes ==
    ASSUME NEW codes, NEW c \in BroadcasterType(codes), WellFormed(c),
           NEW code \in codes, NEW d, d = BroadcastComplete(c, code)
    PROVE  Publishes(c, d, codes)
<1>1. c.completed => d = c
  BY DEF BroadcastComplete, completeLocked
<1>2. Complete(code) \in Messages(codes)
  BY DEF Messages
<1> QED
  BY <1>1, <1>2, CompleteGrows DEF Publishes

LEMMA ErrorGrows ==
    ASSUME NEW codes, 1 \in codes, NEW c \in BroadcasterType(codes), WellFormed(c),
           NEW d, d = BroadcastError(c)
    PROVE  d \in BroadcasterType(codes) /\ WellFormed(d) /\ Grows(c, d) /\ Publishes(c, d, codes)
<1> DEFINE e == appendLocked(c, Output("error"))
<1>1. Output("error") \in Messages(codes) /\ ~IsComplete(Output("error"))
  BY DEF Messages, OutputTypes, IsComplete, Output
<1>3. CASE c.completed
  BY <1>3 DEF BroadcastError, Grows, Publishes
<1>4. CASE ~c.completed
  <2>1. /\ e \in BroadcasterType(codes) /\ ~e.completed
        /\ e.messageLog = Append(c.messageLog, Output("error")) /\ e.notify = c.notify + 1
    BY <1>1, <1>4, AppendLockedType
  <2>2. d = BroadcastComplete(e, 1)
    BY <1>4 DEF BroadcastError, BroadcastComplete
  <2> HIDE DEF e
  <2>3. WellFormed(e) /\ Grows(c, e)
    BY <1>1, <1>4, <2>1, AppendGrows
  <2>4. /\ d \in BroadcasterType(codes) /\ WellFormed(d) /\ Grows(e, d)
        /\ d.messageLog = Append(e.messageLog, Complete(1))
    <3>1. e \in BroadcasterType(codes) /\ WellFormed(e) /\ ~e.completed
      BY <2>1, <2>3
    <3> QED
      BY ONLY <3>1, <2>2, 1 \in codes, CompleteGrows
  <2>5. Grows(c, d)
    BY <2>1, <2>3, <2>4, GrowsTransitive
  <2>6. Complete(1) \in Messages(codes) /\ IsComplete(Complete(1))
    BY DEF Messages, IsComplete, Complete
  <2>7. Publishes(c, d, codes)
    BY <1>1, <1>4, <2>1, <2>4, <2>6 DEF Publishes
  <2> QED
    BY <2>4, <2>5, <2>7
<1> QED
  BY <1>3, <1>4

--------------------------------------------------------------------------------
(***************************************************************************)
(* The invariant holds of every step.                                      *)
(***************************************************************************)

LEMMA InitStreamInv == StreamInit => StreamInv
<1> SUFFICES ASSUME StreamInit PROVE StreamInv
  OBVIOUS
<1>1. /\ NewBroadcaster \in BroadcasterType(Codes) /\ WellFormed(NewBroadcaster)
      /\ Len(NewBroadcaster.messageLog) = 0 /\ ~NewBroadcaster.completed
  BY DEF NewBroadcaster, WellFormed, BroadcasterType
<1>2. << >> \in Seq(Messages(Codes)) /\ Len(<< >>) = 0
  OBVIOUS
<1>3. StreamTypeOK
  BY <1>1, <1>2 DEF StreamInit, StreamTypeOK, StreamPlaces
<1>4. ASSUME NEW s \in Streams PROVE Client(s)
  BY <1>1, <1>2 DEF StreamInit, Client
<1> QED
  BY <1>1, <1>3, <1>4 DEF StreamInit, StreamInv

\* The types that the steps of one client start from.
LEMMA Types ==
    ASSUME StreamInv, NEW s \in Streams
    PROVE  /\ b.messageLog \in Seq(Messages(Codes)) /\ Len(b.messageLog) \in Nat
           /\ b.notify = Len(b.messageLog)
           /\ batch[s] \in Seq(Messages(Codes)) /\ Len(batch[s]) \in Nat
           /\ sent[s] \in Seq(Messages(Codes)) /\ Len(sent[s]) \in Nat
           /\ cursor[s] \in Nat
<1> DEFINE S == Messages(Codes)
<1>1. b.messageLog \in Seq(S) /\ batch[s] \in Seq(S) /\ sent[s] \in Seq(S) /\ cursor[s] \in Nat
  BY DEF StreamInv, StreamTypeOK, BroadcasterType
<1> HIDE DEF S
<1>2. Len(b.messageLog) \in Nat /\ Len(batch[s]) \in Nat /\ Len(sent[s]) \in Nat
  BY <1>1
<1> QED
  BY <1>1, <1>2 DEF StreamInv, WellFormed, S

\* The log grows under a client at any point of its loop.
LEMMA GrowKeepsInv ==
    ASSUME StreamInv, b' \in BroadcasterType(Codes), WellFormed(b'), Grows(b, b'),
           b.completed => b' = b, UNCHANGED clientVars
    PROVE  StreamInv'
<1>1. StreamTypeOK'
  BY DEF StreamInv, StreamTypeOK, clientVars
<1>2. ASSUME NEW s \in Streams PROVE Client(s)'
  <2>1. Client(s) /\ UNCHANGED <<place, cursor, batch, done, wait, sent>>
    BY DEF StreamInv, clientVars
  <2> DEFINE log == b.messageLog
  <2> DEFINE new == b'.messageLog
  <2> DEFINE sn == sent[s]
  <2> DEFINE bt == batch[s]
  <2>2. Len(log) \in Nat /\ Len(sn) \in Nat /\ Len(bt) \in Nat
    BY Types
  <2>3. Len(new) \in Nat
    <3> DEFINE S == Messages(Codes)
    <3>1. new \in Seq(S)
      BY DEF BroadcasterType
    <3> HIDE DEF S, new
    <3> QED
      BY <3>1
  <2>4. /\ Len(log) <= Len(new) /\ \A i \in 1 .. Len(log) : new[i] = log[i]
        /\ Len(new) > Len(log) \/ b' = b
    BY DEF Grows
  <2>5. Len(sn) + Len(bt) <= Len(log)
    BY <2>1 DEF Client
  <2>6. /\ \A i \in 1 .. Len(sn) : sn[i] = log[i]
        /\ \A i \in 1 .. Len(bt) : bt[i] = log[Len(sn) + i]
    BY <2>1 DEF Client
  <2> HIDE DEF log, new, sn, bt
  <2>7. \A i \in 1 .. Len(sn) : sn[i] = new[i]
    <3> TAKE i \in 1 .. Len(sn)
    <3>1. i \in 1 .. Len(log)
      BY <2>2, <2>5
    <3> QED
      BY <2>4, <2>6, <3>1
  <2>8. \A i \in 1 .. Len(bt) : bt[i] = new[Len(sn) + i]
    <3> TAKE i \in 1 .. Len(bt)
    <3>1. Len(sn) + i \in 1 .. Len(log)
      BY <2>2, <2>5
    <3> QED
      BY <2>4, <2>6, <3>1
  <2>9. Len(sn) <= Len(log)
    BY <2>2, <2>5
  <2>10. (place[s] \in Following /\ b'.completed) => Len(sn) < Len(new)
    <3>1. b' = b \/ Len(new) > Len(log)
      BY <2>4
    <3> QED
      BY <2>1, <2>2, <2>3, <2>9, <3>1 DEF Client, log, new, sn
  <2>11. (place[s] = "write" /\ done[s]) => (b'.completed /\ cursor[s] = Len(new))
    BY <2>1 DEF Client, new
  <2>12. cursor[s] <= Len(new)
    <3>1. cursor[s] = Len(sn) + Len(bt)
      BY <2>1 DEF Client, sn, bt
    <3>2. Len(log) <= Len(new)
      BY <2>4
    <3> QED
      BY <2>2, <2>3, <2>5, <3>1, <3>2
  <2> QED
    BY <2>1, <2>7, <2>8, <2>10, <2>11, <2>12 DEF Client, log, new, sn, bt
<1> QED
  BY <1>1, <1>2 DEF StreamInv

\* A step of one client leaves the others alone.
LEMMA OthersKeepClient ==
    ASSUME NEW s \in Streams, Client(s), b' = b,
           place'[s] = place[s], cursor'[s] = cursor[s], batch'[s] = batch[s],
           done'[s] = done[s], wait'[s] = wait[s], sent'[s] = sent[s]
    PROVE  Client(s)'
BY DEF Client

\* What is copied, and what is left of a batch.
LEMMA BatchElements ==
    ASSUME StreamInv, NEW n \in 0 .. Len(b.messageLog)
    PROVE  /\ BatchFrom(b, n) \in Seq(Messages(Codes))
           /\ Len(BatchFrom(b, n)) = Len(b.messageLog) - n
           /\ \A i \in 1 .. Len(b.messageLog) - n : BatchFrom(b, n)[i] = b.messageLog[n + i]
<1> DEFINE S == Messages(Codes)
<1> DEFINE log == b.messageLog
<1>1. log \in Seq(S) /\ n \in 0 .. Len(log)
  BY DEF StreamInv, StreamTypeOK, BroadcasterType
<1> HIDE DEF S, log
<1>2. /\ SubSeq(log, n + 1, Len(log)) \in Seq(S)
      /\ Len(SubSeq(log, n + 1, Len(log))) = Len(log) - n
      /\ \A i \in 1 .. Len(log) - n : SubSeq(log, n + 1, Len(log))[i] = log[n + i]
  BY <1>1
<1> QED
  BY <1>2 DEF BatchFrom, S, log

LEMMA HeadAndTail ==
    ASSUME NEW S, NEW q \in Seq(S), q # << >>
    PROVE  /\ Len(q) \in Nat \ {0} /\ Head(q) = q[1] /\ Head(q) \in S
           /\ Tail(q) \in Seq(S) /\ Len(Tail(q)) = Len(q) - 1
           /\ \A i \in 1 .. Len(q) - 1 : Tail(q)[i] = q[i + 1]
OBVIOUS

LEMMA CopyKeepsInv ==
    ASSUME NEW s \in Streams, StreamInv, Copy(s)
    PROVE  StreamInv'
<1> DEFINE log == b.messageLog
<1>1. Client(s) /\ place[s] = "copy" /\ b' = b /\ sent' = sent
  BY DEF StreamInv, Copy
<1>2. /\ Len(log) \in Nat /\ Len(sent[s]) \in Nat /\ b.notify = Len(log)
      /\ cursor[s] \in Nat
  BY Types
<1>3. batch[s] = << >> /\ cursor[s] = Len(sent[s]) /\ cursor[s] \in 0 .. Len(log)
  <2>1. /\ batch[s] = << >> /\ cursor[s] = Len(sent[s]) + Len(batch[s])
        /\ cursor[s] <= Len(log)
    BY <1>1 DEF Client
  <2>2. Len(batch[s]) = 0
    BY <2>1
  <2> HIDE DEF log
  <2> QED
    BY <1>2, <2>1, <2>2
<1>4. /\ BatchFrom(b, cursor[s]) \in Seq(Messages(Codes))
      /\ Len(BatchFrom(b, cursor[s])) = Len(log) - cursor[s]
      /\ \A i \in 1 .. Len(log) - cursor[s] :
            BatchFrom(b, cursor[s])[i] = log[cursor[s] + i]
  BY <1>3, BatchElements
<1>5. StreamTypeOK'
  BY <1>1, <1>2, <1>4 DEF StreamInv, StreamTypeOK, Copy, StreamPlaces, BroadcasterType
<1>6. /\ place'[s] = "write" /\ batch'[s] = BatchFrom(b, cursor[s]) /\ cursor'[s] = Len(log)
      /\ done'[s] = b.completed /\ wait'[s] = Len(log)
  BY <1>2 DEF StreamInv, StreamTypeOK, Copy
<1>7. Client(s)'
  <2>1. cursor'[s] = Len(sent[s]) + Len(batch'[s]) /\ cursor'[s] <= Len(log)
    <3>1. Len(batch'[s]) = Len(log) - Len(sent[s])
      BY <1>3, <1>4, <1>6
    <3> HIDE DEF log
    <3> QED
      BY <1>2, <1>6, <3>1
  <2>2. \A i \in 1 .. Len(batch'[s]) : batch'[s][i] = log[Len(sent[s]) + i]
    BY <1>3, <1>4, <1>6
  <2> QED
    BY <1>1, <1>6, <2>1, <2>2 DEF Client, Following
<1>8. ASSUME NEW t \in Streams, t # s PROVE Client(t)'
  BY <1>8, OthersKeepClient DEF StreamInv, StreamTypeOK, Copy
<1> QED
  BY <1>1, <1>5, <1>7, <1>8 DEF StreamInv

\* The frame that is written is the next message of the log; it is the
\* completion exactly if it is the last of a completed log.
LEMMA NextFrame ==
    ASSUME NEW s \in Streams, StreamInv, place[s] = "write", batch[s] # << >>
    PROVE  /\ Len(sent[s]) + 1 \in 1 .. Len(b.messageLog)
           /\ Head(batch[s]) = b.messageLog[Len(sent[s]) + 1]
           /\ Head(batch[s]) \in Messages(Codes)
           /\ IsComplete(Head(batch[s])) <=>
                 (b.completed /\ Len(sent[s]) + 1 = Len(b.messageLog))
<1>1. Client(s) /\ WellFormed(b)
  BY DEF StreamInv
<1>2. /\ Len(batch[s]) \in Nat \ {0} /\ Head(batch[s]) = batch[s][1]
      /\ Head(batch[s]) \in Messages(Codes)
  BY Types, HeadAndTail
<1>3. Len(sent[s]) + 1 \in 1 .. Len(b.messageLog)
  <2>1. Len(sent[s]) + Len(batch[s]) <= Len(b.messageLog)
    <3>1. cursor[s] = Len(sent[s]) + Len(batch[s]) /\ cursor[s] <= Len(b.messageLog)
      BY <1>1 DEF Client
    <3> QED
      BY <3>1
  <2>2. Len(sent[s]) \in Nat /\ Len(b.messageLog) \in Nat
    BY Types
  <2>3. Len(batch[s]) \in Nat /\ Len(batch[s]) >= 1
    BY <1>2
  <2> DEFINE l == Len(sent[s])
  <2> DEFINE n == Len(batch[s])
  <2> DEFINE k == Len(b.messageLog)
  <2> HIDE DEF l, n, k
  <2>4. l \in Nat /\ n \in Nat /\ k \in Nat /\ n >= 1 /\ l + n <= k
    BY <2>1, <2>2, <2>3 DEF l, n, k
  <2>5. l + 1 \in 1 .. k
    BY <2>4
  <2> QED
    BY <2>5 DEF l, k
<1>4. Head(batch[s]) = b.messageLog[Len(sent[s]) + 1]
  <2>1. 1 \in 1 .. Len(batch[s])
    BY <1>2
  <2> QED
    BY <1>1, <1>2, <2>1 DEF Client
<1> QED
  BY <1>1, <1>2, <1>3, <1>4 DEF WellFormed

LEMMA WriteKeepsInv ==
    ASSUME NEW s \in Streams, StreamInv, Write(s)
    PROVE  StreamInv'
<1> DEFINE log == b.messageLog
<1> DEFINE S == Messages(Codes)
<1> DEFINE sn == sent[s]
<1> DEFINE bt == batch[s]
<1> DEFINE m == Head(bt)
<1>1. /\ Client(s) /\ place[s] = "write" /\ bt # << >>
      /\ UNCHANGED <<b, cursor, done, wait>>
  BY DEF StreamInv, Write
<1>2. /\ Len(log) \in Nat /\ sn \in Seq(S) /\ Len(sn) \in Nat /\ bt \in Seq(S)
      /\ cursor[s] \in Nat
  BY Types
<1>3. /\ Len(sn) + 1 \in 1 .. Len(log) /\ m = log[Len(sn) + 1] /\ m \in S
      /\ IsComplete(m) <=> (b.completed /\ Len(sn) + 1 = Len(log))
  BY <1>1, NextFrame
<1>4. /\ Len(bt) \in Nat \ {0} /\ Tail(bt) \in Seq(S) /\ Len(Tail(bt)) = Len(bt) - 1
      /\ \A i \in 1 .. Len(bt) - 1 : Tail(bt)[i] = bt[i + 1]
  <2> HIDE DEF S, bt, m
  <2> QED
    BY <1>1, <1>2, HeadAndTail
<1>5. /\ Append(sn, m) \in Seq(S) /\ Len(Append(sn, m)) = Len(sn) + 1
      /\ Append(sn, m)[Len(sn) + 1] = m
      /\ \A i \in 1 .. Len(sn) : Append(sn, m)[i] = sn[i]
  <2> HIDE DEF S, sn, m
  <2> QED
    BY <1>2, <1>3
<1>6. /\ sent' = [sent EXCEPT ![s] = Append(sn, m)]
      /\ batch' = [batch EXCEPT ![s] = Tail(bt)]
      /\ place' = [place EXCEPT ![s] = IF IsComplete(m) THEN "told" ELSE "write"]
  BY <1>1 DEF Write
<1>7. /\ place \in [Streams -> StreamPlaces] /\ sent \in [Streams -> Seq(S)]
      /\ batch \in [Streams -> Seq(S)]
  BY DEF StreamInv, StreamTypeOK
<1>8. /\ sent'[s] = Append(sn, m) /\ batch'[s] = Tail(bt)
      /\ place'[s] = IF IsComplete(m) THEN "told" ELSE "write"
  <2> HIDE DEF S, sn, bt, m
  <2> QED
    BY <1>6, <1>7
<1>9. StreamTypeOK'
  <2>1. place' \in [Streams -> StreamPlaces] /\ sent' \in [Streams -> Seq(S)] /\ batch' \in [Streams -> Seq(S)]
    <3> HIDE DEF S, sn, bt, m
    <3> QED
      BY <1>4, <1>5, <1>6, <1>7 DEF StreamPlaces
  <2> QED
    BY <1>1, <2>1 DEF StreamInv, StreamTypeOK
<1>10. /\ cursor[s] = Len(sn) + Len(bt) /\ cursor[s] <= Len(log)
       /\ \A i \in 1 .. Len(sn) : sn[i] = log[i]
       /\ \A i \in 1 .. Len(bt) : bt[i] = log[Len(sn) + i]
       /\ done[s] => (b.completed /\ cursor[s] = Len(log))
       /\ wait[s] = cursor[s]
  BY <1>1 DEF Client
<1>11. Client(s)'
  <2> HIDE DEF S, log, sn, bt, m
  <2>1. cursor[s] = Len(Append(sn, m)) + Len(Tail(bt))
    BY <1>2, <1>4, <1>5, <1>10
  <2>2. \A i \in 1 .. Len(Append(sn, m)) : Append(sn, m)[i] = log[i]
    <3> TAKE i \in 1 .. Len(Append(sn, m))
    <3>1. i \in 1 .. Len(sn) \/ i = Len(sn) + 1
      BY <1>2, <1>5
    <3> QED
      BY <1>3, <1>5, <1>10, <3>1
  <2>3. \A i \in 1 .. Len(Tail(bt)) : Tail(bt)[i] = log[Len(Append(sn, m)) + i]
    <3> TAKE i \in 1 .. Len(Tail(bt))
    <3>1. i \in 1 .. Len(bt) - 1 /\ i + 1 \in 1 .. Len(bt)
      BY <1>4
    <3>2. Tail(bt)[i] = log[Len(sn) + (i + 1)]
      BY <1>4, <1>10, <3>1
    <3> QED
      BY <1>2, <1>5, <3>1, <3>2
  <2>4. (~IsComplete(m) /\ b.completed) => Len(Append(sn, m)) < Len(log)
    BY <1>2, <1>3, <1>5
  <2> QED
    BY <1>1, <1>8, <1>10, <2>1, <2>2, <2>3, <2>4 DEF Client, log, Following
<1>12. ASSUME NEW t \in Streams, t # s PROVE Client(t)'
  BY <1>12, OthersKeepClient DEF StreamInv, StreamTypeOK, Write
<1> QED
  BY <1>1, <1>9, <1>11, <1>12 DEF StreamInv

\* When a batch that was taken with done = TRUE has been written, the client
\* has been told: the return at "if done" is not reached.
LEMMA WrittenUndone ==
    ASSUME NEW s \in Streams, StreamInv, Written(s)
    PROVE  ~done[s]
<1>1. Client(s) /\ place[s] = "write" /\ batch[s] = << >>
  BY DEF StreamInv, Written
<1>2. Len(sent[s]) \in Nat /\ Len(b.messageLog) \in Nat /\ Len(batch[s]) = 0
  BY <1>1, Types
<1>3. cursor[s] = Len(sent[s])
  <2>1. cursor[s] = Len(sent[s]) + Len(batch[s])
    BY <1>1 DEF Client
  <2> QED
    BY <1>2, <2>1
<1>4. done[s] => (b.completed /\ cursor[s] = Len(b.messageLog))
  BY <1>1 DEF Client
<1>5. b.completed => Len(sent[s]) < Len(b.messageLog)
  BY <1>1 DEF Client, Following
<1> QED
  BY <1>2, <1>3, <1>4, <1>5

\* The steps that only move a client's program counter.
LEMMA MoveKeepsInv ==
    ASSUME NEW s \in Streams, StreamInv,
           Open(s) \/ WriteFails(s) \/ Written(s) \/ Wake(s) \/ Cancel(s)
    PROVE  StreamInv'
<1>1. /\ UNCHANGED <<b, cursor, batch, done, wait, sent>>
      /\ place \in [Streams -> StreamPlaces] /\ place' = [place EXCEPT ![s] = place'[s]]
      /\ \/ place[s] = "away" /\ place'[s] = "copy"
         \/ place[s] \in {"write", "select"} /\ place'[s] = "gone"
         \/ place[s] = "write" /\ batch[s] = << >> /\ place'[s] = "select"
         \/ place[s] = "select" /\ place'[s] = "copy"
  <2>1. Written(s) => place' = [place EXCEPT ![s] = "select"]
    BY WrittenUndone DEF Written
  <2> QED
    BY <2>1 DEF StreamInv, StreamTypeOK, Open, WriteFails, Written, Wake, Cancel
<1>2. Client(s)
  BY DEF StreamInv
<1>3. Client(s)'
  BY <1>1, <1>2 DEF Client, Following
<1>4. ASSUME NEW t \in Streams, t # s PROVE Client(t)'
  BY <1>1, <1>4, OthersKeepClient DEF StreamInv
<1>5. StreamTypeOK'
  BY <1>1 DEF StreamInv, StreamTypeOK, StreamPlaces
<1> QED
  BY <1>1, <1>3, <1>4, <1>5 DEF StreamInv

\* What the writers do, as one step.
LEMMA WritersPublish ==
    ASSUME StreamInv,
           \/ \E type \in OutputTypes \ {"error"} : Emit(type)
           \/ \E code \in Codes : Finish(code)
           \/ Fail
    PROVE  /\ b' \in BroadcasterType(Codes) /\ WellFormed(b') /\ Grows(b, b')
           /\ Publishes(b, b', Codes)
           /\ b.completed => b' = b
           /\ UNCHANGED clientVars
<1>1. b \in BroadcasterType(Codes) /\ WellFormed(b) /\ 1 \in Codes
  BY StreamAssumption DEF StreamInv, StreamTypeOK
<1>2. ASSUME NEW type \in OutputTypes, Emit(type)
      PROVE  /\ b' \in BroadcasterType(Codes) /\ WellFormed(b') /\ Grows(b, b')
             /\ Publishes(b, b', Codes)
  BY <1>1, <1>2, BroadcastGrows DEF Emit
<1>3. ASSUME NEW code \in Codes, Finish(code)
      PROVE  /\ b' \in BroadcasterType(Codes) /\ WellFormed(b') /\ Grows(b, b')
             /\ Publishes(b, b', Codes)
  BY <1>1, <1>3, CompleteGrows, CompletePublishes DEF Finish
<1>4. ASSUME Fail
      PROVE  /\ b' \in BroadcasterType(Codes) /\ WellFormed(b') /\ Grows(b, b')
             /\ Publishes(b, b', Codes)
  BY <1>1, <1>4, ErrorGrows DEF Fail
<1>5. UNCHANGED clientVars
  BY DEF Emit, Finish, Fail
<1>6. Publishes(b, b', Codes) => (b.completed => b' = b)
  BY DEF Publishes
<1> QED
  BY <1>2, <1>3, <1>4, <1>5, <1>6

LEMMA StreamNextKeepsInv == StreamInv /\ [StreamNext]_streamVars => StreamInv'
<1> SUFFICES ASSUME StreamInv, [StreamNext]_streamVars PROVE StreamInv'
  OBVIOUS
<1>1. CASE UNCHANGED streamVars
  <2>1. UNCHANGED <<b, place, cursor, batch, done, wait, sent>>
    BY <1>1 DEF streamVars, clientVars
  <2>2. StreamTypeOK' /\ WellFormed(b')
    BY <2>1 DEF StreamInv, StreamTypeOK
  <2>3. ASSUME NEW s \in Streams PROVE Client(s)'
    BY <2>1, OthersKeepClient DEF StreamInv
  <2> QED
    BY <2>2, <2>3 DEF StreamInv
<1>2. CASE \/ \E type \in OutputTypes \ {"error"} : Emit(type)
           \/ \E code \in Codes : Finish(code)
           \/ Fail
  BY <1>2, WritersPublish, GrowKeepsInv
<1>3. ASSUME NEW s \in Streams, Open(s) \/ StreamTo(s) \/ WriteFails(s) \/ Cancel(s)
      PROVE  StreamInv'
  BY <1>3, CopyKeepsInv, WriteKeepsInv, MoveKeepsInv DEF StreamTo
<1> QED
  BY <1>1, <1>2, <1>3 DEF StreamNext

LEMMA AlwaysStreamInv == StreamingSpec => []StreamInv
BY InitStreamInv, StreamNextKeepsInv, PTL DEF StreamingSpec

--------------------------------------------------------------------------------
(***************************************************************************)
(* The invariants of the stream, for every number of clients.              *)
(***************************************************************************)

\* The log, cursors, batches and frames keep their types.
THEOREM StreamTypes == StreamingSpec => []StreamTypeOK
<1>1. StreamInv => StreamTypeOK
  BY DEF StreamInv
<1> QED
  BY <1>1, AlwaysStreamInv, PTL

\* However the writers race, the completion is the last message of the log.
THEOREM EndsOnce == StreamingSpec => []CompletionIsLast
<1>1. StreamInv => CompletionIsLast
  <2> SUFFICES ASSUME StreamInv, NEW i \in DOMAIN b.messageLog
               PROVE  IsComplete(b.messageLog[i]) <=> (b.completed /\ i = Len(b.messageLog))
    BY DEF CompletionIsLast
  <2>1. i \in 1 .. Len(b.messageLog)
    BY DEF StreamInv, StreamTypeOK, BroadcasterType
  <2> QED
    BY <2>1 DEF StreamInv, WellFormed
<1> QED
  BY <1>1, AlwaysStreamInv, PTL

\* A client's frames are the log from its beginning.
THEOREM FramesAreTheLog == StreamingSpec => []SentIsPrefix
<1>1. StreamInv => SentIsPrefix
  <2> SUFFICES ASSUME StreamInv, NEW s \in Streams
               PROVE  /\ Len(sent[s]) <= Len(b.messageLog)
                      /\ \A i \in DOMAIN sent[s] : sent[s][i] = b.messageLog[i]
    BY DEF SentIsPrefix
  <2>1. Client(s)
    BY DEF StreamInv
  <2>2. Len(sent[s]) \in Nat /\ Len(batch[s]) \in Nat /\ Len(b.messageLog) \in Nat
    BY Types
  <2>3. DOMAIN sent[s] = 1 .. Len(sent[s])
    <3> DEFINE S == Messages(Codes)
    <3>1. sent[s] \in Seq(S)
      BY Types
    <3> HIDE DEF S
    <3> QED
      BY <3>1
  <2>4. cursor[s] = Len(sent[s]) + Len(batch[s]) /\ cursor[s] <= Len(b.messageLog)
    BY <2>1 DEF Client
  <2>5. Len(sent[s]) <= Len(b.messageLog)
    <3> DEFINE l == Len(sent[s])
    <3> DEFINE n == Len(batch[s])
    <3> DEFINE k == Len(b.messageLog)
    <3>1. l \in Nat /\ n \in Nat /\ k \in Nat /\ cursor[s] = l + n /\ cursor[s] <= k
      BY <2>2, <2>4
    <3> HIDE DEF l, n, k
    <3>2. l <= k
      BY <3>1
    <3> QED
      BY <3>2 DEF l, k
  <2> QED
    BY <2>1, <2>3, <2>5 DEF Client
<1> QED
  BY <1>1, AlwaysStreamInv, PTL

\* The return of StreamTo that leaves its client untold is never taken.
THEOREM NobodyIsCutOff == StreamingSpec => []NeverEndsUntold
<1>1. StreamInv => NeverEndsUntold
  BY DEF StreamInv, Client, NeverEndsUntold
<1> QED
  BY <1>1, AlwaysStreamInv, PTL

\* A client that waits while there is more to send has been woken.
THEOREM WakesUp == StreamingSpec => []NoLostWakeup
<1>1. StreamInv => NoLostWakeup
  BY DEF StreamInv, WellFormed, Client, NoLostWakeup
<1> QED
  BY <1>1, AlwaysStreamInv, PTL

--------------------------------------------------------------------------------
(***************************************************************************)
(* The stream implements StreamSpec: a writer's call publishes, a written  *)
(* frame shows the next message, and whatever else a client's handler does *)
(* is a stutter, a join or a departure.                                    *)
(***************************************************************************)
Completions == { Complete(c) : c \in Codes }
Shown == [s \in Streams |-> Len(sent[s])]
States == [s \in Streams |-> ClientState(s)]

\* The completions of the abstract log are the messages of type "complete".
LEMMA CompletionsAreComplete ==
    ASSUME NEW m \in Messages(Codes)
    PROVE  IsComplete(m) <=> m \in Completions
BY DEF Messages, IsComplete, Completions, Output, Complete, OutputTypes

LEMMA EndedIsCompleted == StreamInv => (Abstract!Ended => b.completed)
<1> SUFFICES ASSUME StreamInv, Abstract!Ended PROVE b.completed
  OBVIOUS
<1> DEFINE log == b.messageLog
<1> DEFINE S == Messages(Codes)
<1>1. log \in Seq(S) /\ log # << >> /\ log[Len(log)] \in Completions
  BY DEF Abstract!Ended, Completions, StreamInv, StreamTypeOK, BroadcasterType
<1>2. Len(log) \in 1 .. Len(log) /\ log[Len(log)] \in S
  <2> HIDE DEF S, log
  <2> QED
    BY <1>1
<1>3. IsComplete(log[Len(log)])
  BY <1>1, <1>2, CompletionsAreComplete
<1> QED
  BY <1>2, <1>3 DEF StreamInv, WellFormed

LEMMA InitMaps == StreamInit => Abstract!SInit
<1> SUFFICES ASSUME StreamInit PROVE Abstract!SInit
  OBVIOUS
<1>1. b.messageLog = << >>
  BY DEF StreamInit, NewBroadcaster
<1>2. Shown = [s \in Streams |-> 0]
  BY DEF StreamInit, Shown
<1>3. States = [s \in Streams |-> "away"]
  BY DEF StreamInit, States, ClientState
<1> QED
  BY <1>1, <1>2, <1>3 DEF Abstract!SInit, Shown, States

LEMMA WritersMap ==
    ASSUME StreamInv, Publishes(b, b', Codes), UNCHANGED clientVars
    PROVE  Abstract!Publish \/ UNCHANGED Abstract!svars
<1> DEFINE log == b.messageLog
<1> DEFINE S == Messages(Codes)
<1>1. UNCHANGED <<Shown, States>>
  BY DEF clientVars, Shown, States, ClientState
<1>2. CASE b' = b
  BY <1>1, <1>2 DEF Abstract!svars, Shown, States
<1>3. ASSUME ~b.completed, NEW m \in Messages(Codes), b'.messageLog = Append(log, m)
      PROVE  Abstract!Publish
  BY <1>1, <1>3, EndedIsCompleted DEF Abstract!Publish, Shown, States
<1>4. ASSUME ~b.completed, NEW m \in Messages(Codes), NEW n \in Messages(Codes),
             ~IsComplete(m), IsComplete(n), b'.messageLog = Append(Append(log, m), n)
      PROVE  Abstract!Publish
  <2>1. m \in Messages(Codes) \ Completions /\ n \in Completions
    BY <1>4, CompletionsAreComplete
  <2>2. log \in Seq(S)
    BY DEF StreamInv, StreamTypeOK, BroadcasterType
  <2>3. Append(Append(log, m), n) = log \o <<m, n>>
    <3>1. m \in S /\ n \in S
      BY <1>4
    <3> HIDE DEF S, log
    <3> QED
      BY <2>2, <3>1
  <2> QED
    BY <1>1, <1>4, <2>1, <2>3, EndedIsCompleted
       DEF Abstract!Publish, Shown, States, Completions
<1> QED
  BY <1>2, <1>3, <1>4 DEF Publishes

LEMMA WriteMaps ==
    ASSUME NEW s \in Streams, StreamInv, Write(s)
    PROVE  Abstract!Show(s)
<1> DEFINE m == Head(batch[s])
<1>1. /\ place[s] = "write" /\ batch[s] # << >> /\ b' = b
      /\ place \in [Streams -> StreamPlaces] /\ sent \in [Streams -> Seq(Messages(Codes))]
  BY DEF Write, StreamInv, StreamTypeOK
<1>2. /\ Len(sent[s]) + 1 \in 1 .. Len(b.messageLog)
      /\ m = b.messageLog[Len(sent[s]) + 1] /\ m \in Messages(Codes)
  BY <1>1, NextFrame
<1>3. Len(sent[s]) \in Nat /\ Len(b.messageLog) \in Nat /\ Len(sent[s]) < Len(b.messageLog)
  BY <1>2, Types
<1>4. sent' = [sent EXCEPT ![s] = Append(sent[s], m)]
  BY DEF Write
<1>5. Len(Append(sent[s], m)) = Len(sent[s]) + 1
  <2> DEFINE S == Messages(Codes)
  <2> HIDE DEF S, m
  <2>1. sent[s] \in Seq(S) /\ m \in S
    BY <1>1, <1>2 DEF S
  <2> QED
    BY <2>1
<1> HIDE DEF m
<1>6. Shown' = [Shown EXCEPT ![s] = Shown[s] + 1]
  <2>1. Shown' = [t \in Streams |-> Len(sent'[t])]
    BY DEF Shown
  <2>2. sent'[s] = Append(sent[s], m) /\ \A t \in Streams : t # s => sent'[t] = sent[t]
    BY <1>1, <1>4
  <2>3. Len(sent'[s]) = Shown[s] + 1
    BY <1>5, <2>2 DEF Shown
  <2>4. \A t \in Streams : t # s => Len(sent'[t]) = Shown[t]
    BY <2>2 DEF Shown
  <2> QED
    BY <2>1, <2>3, <2>4 DEF Shown
<1>7. States[s] = "following"
  BY <1>1 DEF States, ClientState
<1>8. place' = [place EXCEPT ![s] = IF IsComplete(m) THEN "told" ELSE place[s]]
  BY DEF Write, m
<1>9. States' = [States EXCEPT ![s] = IF m \in Completions THEN "told" ELSE States[s]]
  <2>1. ClientState(s)' = IF m \in Completions THEN "told" ELSE "following"
    BY <1>1, <1>2, <1>8, CompletionsAreComplete DEF ClientState
  <2>2. \A t \in Streams : t # s => ClientState(t)' = ClientState(t)
    BY <1>8, <1>1 DEF ClientState
  <2> QED
    BY <1>7, <2>1, <2>2 DEF States
<1>10. Shown[s] = Len(sent[s])
  BY DEF Shown
<1> QED
  BY <1>1, <1>2, <1>3, <1>6, <1>7, <1>9, <1>10
     DEF Abstract!Show, Shown, States, Completions

LEMMA MoveMaps ==
    ASSUME NEW s \in Streams, StreamInv,
           Open(s) \/ Copy(s) \/ WriteFails(s) \/ Written(s) \/ Wake(s) \/ Cancel(s)
    PROVE  Abstract!Join(s) \/ Abstract!Leave(s) \/ UNCHANGED Abstract!svars
<1>1. /\ UNCHANGED <<b, sent>>
      /\ place \in [Streams -> StreamPlaces] /\ place' = [place EXCEPT ![s] = place'[s]]
      /\ \/ place[s] = "away" /\ place'[s] = "copy"
         \/ place[s] \in {"write", "select"} /\ place'[s] = "gone"
         \/ place[s] \in {"copy", "write", "select"} /\ place'[s] \in {"copy", "write", "select"}
  <2>1. Written(s) => place' = [place EXCEPT ![s] = "select"]
    BY WrittenUndone DEF Written
  <2> QED
    BY <2>1 DEF StreamInv, StreamTypeOK, Open, Copy, WriteFails, Written, Wake, Cancel
<1>2. UNCHANGED <<b, Shown>>
  BY <1>1 DEF Shown
<1>3. \A t \in Streams : t # s => ClientState(t)' = ClientState(t)
  BY <1>1 DEF ClientState
<1>4. CASE place[s] = "away" /\ place'[s] = "copy"
  <2>1. ClientState(s) = "away" /\ ClientState(s)' = "following"
    BY <1>4 DEF ClientState
  <2>2. States[s] = "away" /\ States' = [States EXCEPT ![s] = "following"]
    BY <1>3, <2>1 DEF States
  <2> QED
    BY <1>2, <2>2 DEF Abstract!Join, Shown, States
<1>5. CASE place[s] \in {"write", "select"} /\ place'[s] = "gone"
  <2>1. ClientState(s) = "following" /\ ClientState(s)' = "gone"
    BY <1>5 DEF ClientState
  <2>2. States[s] = "following" /\ States' = [States EXCEPT ![s] = "gone"]
    BY <1>3, <2>1 DEF States
  <2> QED
    BY <1>2, <2>2 DEF Abstract!Leave, Shown, States
<1>6. CASE /\ place[s] \in {"copy", "write", "select"}
           /\ place'[s] \in {"copy", "write", "select"}
  <2>1. ClientState(s)' = ClientState(s)
    BY <1>6 DEF ClientState
  <2>2. States' = States
    BY <1>3, <2>1 DEF States
  <2> QED
    BY <1>2, <2>2 DEF Abstract!svars, Shown, States
<1> QED
  BY <1>1, <1>4, <1>5, <1>6

LEMMA NextMaps == StreamInv /\ [StreamNext]_streamVars => [Abstract!SNext]_(Abstract!svars)
<1> SUFFICES ASSUME StreamInv, [StreamNext]_streamVars PROVE [Abstract!SNext]_(Abstract!svars)
  OBVIOUS
<1>1. CASE UNCHANGED streamVars
  BY <1>1 DEF streamVars, clientVars, Abstract!svars, ClientState
<1>2. CASE \/ \E type \in OutputTypes \ {"error"} : Emit(type)
           \/ \E code \in Codes : Finish(code)
           \/ Fail
  BY <1>2, WritersPublish, WritersMap DEF Abstract!SNext
<1>3. ASSUME NEW s \in Streams, Open(s) \/ StreamTo(s) \/ WriteFails(s) \/ Cancel(s)
      PROVE  Abstract!SNext \/ UNCHANGED Abstract!svars
  <2>1. CASE Write(s)
    BY <2>1, WriteMaps DEF Abstract!SNext
  <2>2. CASE ~Write(s)
    BY <1>3, <2>2, MoveMaps DEF StreamTo, Abstract!SNext
  <2> QED
    BY <2>1, <2>2
<1> QED
  BY <1>1, <1>2, <1>3 DEF StreamNext

(***************************************************************************)
(* Every behaviour of the broadcaster and its readers is one of the        *)
(* abstract stream.                                                        *)
(***************************************************************************)
THEOREM Implements == StreamingSpec => ImplementsStreamSpec
<1>1. StreamInit => Abstract!SInit
  BY InitMaps
<1>2. StreamInv /\ [StreamNext]_streamVars => [Abstract!SNext]_(Abstract!svars)
  BY NextMaps
<1> QED
  BY <1>1, <1>2, AlwaysStreamInv, PTL DEF StreamingSpec, ImplementsStreamSpec, Abstract!SSpec
================================================================================
