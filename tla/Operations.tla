------------------------------- MODULE Operations -------------------------------
(***************************************************************************)
(* The operations service (internal/operations/service.go): the registry   *)
(* of operations, the one-operation-per-stack lock, and the goroutine that *)
(* runs each operation, with its compose process, its pipe readers, its    *)
(* stream and, for an update of the agent itself, the sidecar.             *)
(*                                                                         *)
(* A step is what happens between two releases of the service's mutex or   *)
(* of the broadcaster's, messages that a goroutine broadcasts in a row     *)
(* taken together.  The work of an archive or a backup command is one      *)
(* stage here; what a backup does inside it is module Backup.              *)
(***************************************************************************)
EXTENDS Broadcaster, FiniteSets

CONSTANTS Stacks,      \* stack directories below the stack location
          AgentStack,  \* the stack called "berth-agent", if it is one of them
          OpIds,       \* the uuids operations can be given
          NoOp,        \* no operation
          Requests     \* validated requests

Commands == {"up", "down", "archive", "backup"}
Request == [command : Commands, services : {"none", "agent", "other"},
            credentials : BOOLEAN]
NoExit == -999

ASSUME OperationsAssumption ==
    /\ NoOp \notin OpIds
    /\ Requests \subseteq Request
    /\ Codes \subseteq Int
    /\ {0, 1} \subseteq Codes
    /\ NoExit \notin Codes
    /\ MaxMessages \in Nat

VARIABLES operations,        \* keys of the map operations
          activeOperations,  \* stack -> id, NoOp where the map has no entry
          object,            \* the Operation objects, registered or not
          expiring,          \* operations whose 30-minute timer is set
          pc,                \* where the goroutine of an operation is
          process,           \* the compose process of an operation
          reading,           \* the pipes of it that still have a reader
          stream,            \* the broadcaster of an operation
          sidecar            \* self-operations the sidecar is executing

registryVars == <<operations, activeOperations, expiring>>
processVars == <<process, reading>>
vars == <<registryVars, object, pc, processVars, stream, sidecar>>

Pipes == {"stdout", "stderr"}
PCs == {"unborn", "run", "drain", "report", "handoff", "post", "await",
        "unlock", "done", "killed"}

Operation == [stack : Stacks, request : Request, isSelfOp : BOOLEAN,
              status : {"running", "completed", "failed"},
              exitCode : Codes \cup {NoExit}]
Unborn == [status |-> "unborn"]

Init ==
    /\ operations = {}
    /\ activeOperations = [s \in Stacks |-> NoOp]
    /\ object = [id \in OpIds |-> Unborn]
    /\ expiring = {}
    /\ pc = [id \in OpIds |-> "unborn"]
    /\ process = [id \in OpIds |-> "none"]
    /\ reading = [id \in OpIds |-> {}]
    /\ stream = [id \in OpIds |-> NewBroadcaster]
    /\ sidecar = {}

--------------------------------------------------------------------------------
\* The registry, under the service's mutex.

isSelfOperation(stack, request) ==
    /\ stack = AgentStack
    /\ request.command = "up"
    /\ request.services = "agent"

(***************************************************************************)
(* A request that is refused changes nothing.                              *)
(***************************************************************************)
StartOperation(id, stack, request) ==
    /\ pc[id] = "unborn"
    /\ ~(stack = AgentStack /\ request.services = "none")
    /\ activeOperations[stack] = NoOp
    /\ object' = [object EXCEPT ![id] =
            [stack |-> stack, request |-> request, status |-> "running",
             exitCode |-> NoExit, isSelfOp |-> isSelfOperation(stack, request)]]
    /\ operations' = operations \cup {id}
    /\ activeOperations' = [activeOperations EXCEPT ![stack] = id]
    /\ pc' = [pc EXCEPT ![id] = "run"]
    /\ UNCHANGED <<expiring, processVars, stream, sidecar>>

updateOperationStatus(id, status, exitCode) ==
    /\ object' = IF id \in operations
                 THEN [object EXCEPT ![id].status = status,
                                     ![id].exitCode = exitCode,
                                     ![id].request.credentials = FALSE]
                 ELSE object
    /\ expiring' = IF id \in operations THEN expiring \cup {id} ELSE expiring

\* Mutant: whichever operation holds the stack loses it.
unlockAny(id) ==
    activeOperations' = [activeOperations EXCEPT ![object[id].stack] = NoOp]

unlockStack(id) ==
    activeOperations' =
        [s \in Stacks |-> IF s = object[id].stack /\ activeOperations[s] = id
                          THEN NoOp ELSE activeOperations[s]]

\* Mutant: the entry of the stack is left behind.
removeFromMapOnly(id) ==
    /\ id \in expiring
    /\ expiring' = expiring \ {id}
    /\ operations' = operations \ {id}
    /\ UNCHANGED <<activeOperations, object, pc, processVars, stream, sidecar>>

(***************************************************************************)
(* The retention timer of a finished operation fires.  It may do so before *)
(* the goroutine of the operation has unlocked the stack.                  *)
(***************************************************************************)
removeOperation(id) ==
    /\ id \in expiring
    /\ expiring' = expiring \ {id}
    /\ operations' = operations \ {id}
    /\ unlockStack(id)
    /\ UNCHANGED <<object, pc, processVars, stream, sidecar>>
--------------------------------------------------------------------------------
\* runOperation.

At(id, label) == pc[id] = label
GoTo(id, label) == pc' = [pc EXCEPT ![id] = label]
Say(id, b) == stream' = [stream EXCEPT ![id] = b]
IsKind(id, commands) == ~object[id].isSelfOp /\ object[id].request.command \in commands

(***************************************************************************)
(* The goroutine settles the outcome in the registry; the stream is told   *)
(* of it in a later step, by Report.                                       *)
(***************************************************************************)
Settle(id, status, exitCode) ==
    /\ updateOperationStatus(id, status, exitCode)
    /\ GoTo(id, "report")
    /\ UNCHANGED <<operations, activeOperations, processVars, stream, sidecar>>

\* Mutant: a command that never ran is given the exit code of a killed one.
FailToStartWithCode(id) ==
    /\ At(id, "run")
    /\ object[id].isSelfOp \/ IsKind(id, {"up", "down"})
    /\ Settle(id, "failed", -1)

(***************************************************************************)
(* A registry login, a pipe or the exec of docker fails, or the path of    *)
(* the stack or the sidecar's own checks refuse the operation.  (The line  *)
(* "Running: ..." that a failing pipe or exec comes after is left out.)    *)
(***************************************************************************)
FailToStart(id) ==
    /\ At(id, "run")
    /\ object[id].isSelfOp \/ IsKind(id, {"up", "down"})
    /\ Settle(id, "failed", NoExit)

StartCommand(id) ==
    /\ At(id, "run")
    /\ IsKind(id, {"up", "down"})
    /\ process' = [process EXCEPT ![id] = "running"]
    /\ reading' = [reading EXCEPT ![id] = Pipes]
    /\ Say(id, Broadcast(stream[id], "stdout"))
    /\ GoTo(id, "drain")
    /\ UNCHANGED <<registryVars, object, sidecar>>

ReadLine(id, pipe) ==
    /\ pipe \in reading[id]
    /\ Len(stream[id].messageLog) < MaxMessages
    /\ Say(id, Broadcast(stream[id], pipe))
    /\ UNCHANGED <<registryVars, object, pc, processVars, sidecar>>

(***************************************************************************)
(* bufio.Scanner gives up on a line of 64 KiB or more: the reader returns  *)
(* with the pipe unread.  If the process has more to write than the pipe   *)
(* holds, it blocks for good, since nothing closes the pipe before         *)
(* cmd.Wait, which the goroutine calls only after both readers.            *)
(***************************************************************************)
OverlongLine(id, pipe) ==
    /\ pipe \in reading[id]
    /\ reading' = [reading EXCEPT ![id] = @ \ {pipe}]
    /\ \/ process[id] = "running" /\ process' = [process EXCEPT ![id] = "blocked"]
       \/ UNCHANGED process
    /\ UNCHANGED <<registryVars, object, pc, stream, sidecar>>

Exit(id) ==
    /\ process[id] = "running"
    /\ process' = [process EXCEPT ![id] = "exited"]
    /\ UNCHANGED <<registryVars, object, pc, reading, stream, sidecar>>

EndOfFile(id, pipe) ==
    /\ pipe \in reading[id]
    /\ process[id] = "exited"
    /\ reading' = [reading EXCEPT ![id] = @ \ {pipe}]
    /\ UNCHANGED <<registryVars, object, pc, process, stream, sidecar>>

\* Mutant: cmd.Wait without waiting for the readers.
WaitProcessOnly(id) ==
    /\ At(id, "drain")
    /\ process[id] = "exited"
    /\ \/ \E code \in Codes : Settle(id, "completed", code)
       \/ Settle(id, "failed", NoExit)

(***************************************************************************)
(* wg.Wait and then cmd.Wait: an exit code of any value is "completed",    *)
(* any other error "failed".                                               *)
(***************************************************************************)
Wait(id) ==
    /\ At(id, "drain")
    /\ reading[id] = {}
    /\ process[id] = "exited"
    /\ \/ \E code \in Codes : Settle(id, "completed", code)
       \/ Settle(id, "failed", NoExit)

(***************************************************************************)
(* What archives, backups, registry logins and the hand-over to the        *)
(* sidecar say before they end.                                            *)
(***************************************************************************)
Progress(id) ==
    /\ At(id, "run")
    /\ \/ IsKind(id, {"archive", "backup"})
       \/ object[id].isSelfOp \/ object[id].request.credentials
    /\ Len(stream[id].messageLog) < MaxMessages
    /\ Say(id, Broadcast(stream[id], "progress"))
    /\ UNCHANGED <<registryVars, object, pc, processVars, sidecar>>

(***************************************************************************)
(* An archive handler reports an entry it has to skip through WriteError,  *)
(* which is BroadcastError, and goes on with the next entry.               *)
(***************************************************************************)
SkipEntry(id) ==
    /\ At(id, "run")
    /\ IsKind(id, {"archive"})
    /\ Say(id, BroadcastError(stream[id]))
    /\ UNCHANGED <<registryVars, object, pc, processVars, sidecar>>

FinishWork(id) ==
    /\ At(id, "run")
    /\ IsKind(id, {"archive", "backup"})
    /\ Settle(id, "completed", 0) \/ Settle(id, "failed", NoExit)

\* Mutant: the sidecar is asked before the client is told.
HandOffUntold(id) ==
    /\ At(id, "run")
    /\ object[id].isSelfOp
    /\ updateOperationStatus(id, "completed", 0)
    /\ GoTo(id, "handoff")
    /\ UNCHANGED <<operations, activeOperations, processVars, stream, sidecar>>

(***************************************************************************)
(* A self-operation counts as completed before the sidecar is asked.       *)
(***************************************************************************)
HandOff(id) ==
    /\ At(id, "run")
    /\ object[id].isSelfOp
    /\ Settle(id, "completed", 0)

(***************************************************************************)
(* The outcome reaches the stream.  A backup that failed broadcasts a      *)
(* second completion, which the broadcaster drops; an archive that is done *)
(* says so first.                                                          *)
(***************************************************************************)
Outcome(id) ==
    LET b == stream[id]
    IN CASE object[id].status = "failed" /\ IsKind(id, {"backup"}) ->
                BroadcastComplete(BroadcastError(b), 1)
         [] object[id].status = "failed" -> BroadcastError(b)
         [] object[id].status = "completed" /\ object[id].request.command = "archive" ->
                BroadcastComplete(Broadcast(b, "stdout"), object[id].exitCode)
         [] OTHER -> BroadcastComplete(b, object[id].exitCode)

Report(id) ==
    /\ At(id, "report")
    /\ Say(id, Outcome(id))
    /\ GoTo(id, IF object[id].isSelfOp /\ object[id].status = "completed"
                THEN "handoff" ELSE "unlock")
    /\ UNCHANGED <<registryVars, object, processVars, sidecar>>

\* Mutant: no deferred unlock.
UnlockForgotten(id) ==
    /\ At(id, "unlock")
    /\ GoTo(id, "done")
    /\ UNCHANGED <<registryVars, object, processVars, stream, sidecar>>

\* After the audit record, the deferred unlockStack.
Unlock(id) ==
    /\ At(id, "unlock")
    /\ unlockStack(id)
    /\ GoTo(id, "done")
    /\ UNCHANGED <<operations, expiring, object, processVars, stream, sidecar>>
--------------------------------------------------------------------------------
\* The end of handleSelfOperationWithBroadcast.

UnlockForHandoff(id) ==
    /\ At(id, "handoff")
    /\ unlockStack(id)
    /\ GoTo(id, "post")
    /\ UNCHANGED <<operations, expiring, object, processVars, stream, sidecar>>

\* The sidecar takes the request, or it cannot be reached.
PostToSidecar(id) ==
    /\ At(id, "post")
    /\ \/ sidecar' = sidecar \cup {id} /\ GoTo(id, "await")
       \/ GoTo(id, "unlock") /\ UNCHANGED sidecar
    /\ UNCHANGED <<registryVars, object, processVars, stream>>

(***************************************************************************)
(* The agent's request ends with an answer or after 60 seconds; the        *)
(* sidecar's command may take five minutes.                                *)
(***************************************************************************)
SidecarAnswer(id) ==
    /\ At(id, "await")
    /\ GoTo(id, "unlock")
    /\ UNCHANGED <<registryVars, object, processVars, stream, sidecar>>

SidecarDone(id) ==
    /\ id \in sidecar
    /\ sidecar' = sidecar \ {id}
    /\ UNCHANGED <<registryVars, object, pc, processVars, stream>>

(***************************************************************************)
(* The agent's container stops, as the sidecar's "compose up" makes it do, *)
(* and starts again: the registry and everything running in it are gone.   *)
(***************************************************************************)
AgentRestart ==
    /\ operations' = {}
    /\ activeOperations' = [s \in Stacks |-> NoOp]
    /\ expiring' = {}
    /\ pc' = [id \in OpIds |-> IF pc[id] \in {"unborn", "done"} THEN pc[id] ELSE "killed"]
    /\ process' = [id \in OpIds |-> "none"]
    /\ reading' = [id \in OpIds |-> {}]
    /\ UNCHANGED <<object, stream, sidecar>>

Goroutine(id) ==
    \/ FailToStart(id) \/ StartCommand(id) \/ Wait(id)
    \/ FinishWork(id) \/ HandOff(id)
    \/ Report(id) \/ Unlock(id)
    \/ UnlockForHandoff(id) \/ PostToSidecar(id) \/ SidecarAnswer(id)

Command(id) ==
    \/ Exit(id)
    \/ \E pipe \in Pipes : ReadLine(id, pipe) \/ OverlongLine(id, pipe) \/ EndOfFile(id, pipe)

Next ==
    \/ \E id \in OpIds, stack \in Stacks, request \in Requests :
           StartOperation(id, stack, request)
    \/ \E id \in OpIds :
           \/ Goroutine(id)
           \/ Command(id)
           \/ Progress(id)
           \/ SkipEntry(id)
           \/ SidecarDone(id)
           \/ removeOperation(id)
    \/ AgentRestart

(***************************************************************************)
(* Goroutines are scheduled; archives and backups end; a compose process   *)
(* whose output is drained exits, and an exited process's pipes reach      *)
(* their end.  No request, restart or timer has to come.                   *)
(***************************************************************************)
Fairness ==
    \A id \in OpIds :
        /\ WF_vars(Goroutine(id))
        /\ WF_vars(Exit(id))
        /\ \A pipe \in Pipes : WF_vars(EndOfFile(id, pipe))

Spec == Init /\ [][Next]_vars /\ Fairness
--------------------------------------------------------------------------------
TypeOK ==
    /\ operations \subseteq OpIds
    /\ activeOperations \in [Stacks -> OpIds \cup {NoOp}]
    /\ object \in [OpIds -> Operation \cup {Unborn}]
    /\ expiring \subseteq OpIds
    /\ pc \in [OpIds -> PCs]
    /\ process \in [OpIds -> {"none", "running", "blocked", "exited"}]
    /\ reading \in [OpIds -> SUBSET Pipes]
    /\ stream \in [OpIds -> BroadcasterType(Codes)]
    /\ sidecar \subseteq OpIds

\* The goroutine may be running docker, or writing below the stack's directory.
Working(id) == pc[id] \in {"run", "drain"}

(***************************************************************************)
(* An operation that works on a stack holds it to the end of its work, so  *)
(* that no two work on one.  The lock is released by id: a second unlock   *)
(* - the deferred one of a self-operation, or one that comes after the     *)
(* retention timer - does not free a stack that another operation has      *)
(* taken since.                                                            *)
(***************************************************************************)
OneWorkerPerStack ==
    \A id \in OpIds : Working(id) => activeOperations[object[id].stack] = id

(***************************************************************************)
(* The operation that a busy stack is refused for is one whose stream can  *)
(* still be asked for: no entry of activeOperations outlives its           *)
(* operation's registration, whatever order timer and unlock come in.      *)
(***************************************************************************)
HolderIsRegistered ==
    \A s \in Stacks :
        activeOperations[s] # NoOp =>
            /\ activeOperations[s] \in operations
            /\ object[activeOperations[s]].stack = s

Verdict(id) == stream[id].messageLog[Len(stream[id].messageLog)].exitCode
VerdictAgrees(id) ==
    (Verdict(id) = 0) <=> (object[id].status = "completed" /\ object[id].exitCode = 0)

StreamSettled(id) ==
    /\ object[id].status \in {"completed", "failed"}
    /\ VerdictAgrees(id)
    /\ ~object[id].request.credentials
    /\ ~Working(id)
    /\ reading[id] = {}

(***************************************************************************)
(* A client that has been sent the completion of a compose, backup or self *)
(* operation finds the registry settled, with the same verdict, its        *)
(* credentials dropped, and the work on the stack over (all output read).  *)
(***************************************************************************)
CompletionIsFinal ==
    \A id \in OpIds :
        (stream[id].completed /\ object[id].request.command # "archive") => StreamSettled(id)

(***************************************************************************)
(* An archive operation that the registry holds as completed with exit     *)
(* code 0 - the one that goes on to broadcast "Archive operation completed *)
(* successfully" - has not told its client the contrary.                   *)
(***************************************************************************)
ArchiveSuccessIsReported ==
    \A id \in OpIds :
        (stream[id].completed /\ object[id].status = "completed") => VerdictAgrees(id)

(***************************************************************************)
(* The sidecar, which will replace the agent's container and with it the   *)
(* registry and every stream, is asked only after the client of the update *)
(* has its completion to read.                                             *)
(***************************************************************************)
HandoffIsAnnounced ==
    \A id \in OpIds :
        (id \in sidecar \/ pc[id] \in {"post", "await"}) => stream[id].completed

(***************************************************************************)
(* A stack that is taken is freed, by the goroutine, the timer or a        *)
(* restart, unless an over-long line of output has blocked the command.    *)
(***************************************************************************)
StackIsFreed ==
    \A s \in Stacks, id \in OpIds :
        (activeOperations[s] = id) ~> (activeOperations[s] # id \/ process[id] = "blocked")

(***************************************************************************)
(* Every operation that starts tells its stream how it ended, unless its   *)
(* command is blocked or the agent restarts.                               *)
(***************************************************************************)
StreamIsCompleted ==
    \A id \in OpIds :
        At(id, "run") ~> (stream[id].completed \/ process[id] = "blocked" \/ At(id, "killed"))
================================================================================
