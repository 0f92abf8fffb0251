--------------------------------- MODULE Restore --------------------------------
(***************************************************************************)
(* RestoreBackup (internal/backup/restore.go) and what it does to a stack: *)
(* to its containers, its volumes and the data of its components, when     *)
(* docker or restic fail at any step, containers are started by others     *)
(* while it runs, and the agent dies with a restic helper still writing.   *)
(* Locks, run records and snapshots are module Backup.                     *)
(***************************************************************************)
EXTENDS Naturals, FiniteSets

CONSTANTS Components,   \* the components of the backup, all with a snapshot
          Kind,         \* the kind of each of them
          Recreatable,  \* volumes recorded with a definition that is not external
          Containers    \* the stack's containers

Kinds == {"stack-directory", "bind-mount", "volume", "anonymous-volume"}

ASSUME RestoreAssumption ==
    /\ Kind \in [Components -> Kinds]
    /\ Recreatable \subseteq Components

VARIABLES container,  \* the state of each container
          volumes,    \* the components whose volume exists
          data,       \* what each component's files are
          pc,         \* where RestoreBackup is
          request,    \* the request: components and stop mode
          listed,     \* the containers that were active when it listed them
          toCreate,   \* the volumes it has to create
          stopped,    \* the containers it has stopped and not started again
          restored,   \* the components restored so far
          inHand,     \* the component that a helper is restoring
          outcome,    \* how it ended and what it said of the components
          old,        \* history: data when it began
          others,     \* history: containers others started since the listing
          orphan      \* the component a helper of a dead agent writes

jobVars == <<request, listed, toCreate, stopped, restored, inHand>>
historyVars == <<old, others>>
vars == <<container, volumes, data, pc, jobVars, outcome, historyVars, orphan>>

Volumes == { c \in Components : Kind[c] = "volume" }
NoRequest == [selected |-> {}, stop |-> FALSE]
Unsaid == [result |-> "none", rolledBack |-> {}, leftAlone |-> {}]
Active == { k \in Containers : container[k] = "running" }

Init ==
    /\ container \in [Containers -> {"running", "stopped"}]
    /\ volumes \in { v \in SUBSET Components : Components \ Volumes \subseteq v }
    /\ data = [c \in Components |-> "before"]
    /\ pc = "idle"
    /\ request = NoRequest
    /\ listed = {}
    /\ toCreate = {}
    /\ stopped = {}
    /\ restored = {}
    /\ inHand = {}
    /\ outcome = Unsaid
    /\ old = data
    /\ others = {}
    /\ orphan = {}

--------------------------------------------------------------------------------
Refused == [Unsaid EXCEPT !.result = "refused"]

End(said) ==
    /\ pc' = "idle"
    /\ outcome' = said

\* A refusal before anything has been touched.
Refuse ==
    /\ End(Refused)
    /\ UNCHANGED <<container, volumes, data, jobVars, historyVars, orphan>>

\* The run is read and its components are selected, all of them by default.
Begin(selected, stop) ==
    /\ pc = "idle"
    /\ pc' = "list"
    /\ request' = [selected |-> selected, stop |-> stop]
    /\ restored' = {} /\ stopped' = {} /\ listed' = {} /\ toCreate' = {}
    /\ outcome' = Unsaid
    /\ old' = data
    /\ UNCHANGED <<container, volumes, data, inHand, others, orphan>>

\* The stack's containers are identified and listed, once.
List ==
    /\ pc = "list"
    /\ \/ /\ listed' = Active
          /\ others' = {}
          /\ pc' = "plan"
          /\ UNCHANGED <<container, volumes, data, request, toCreate, stopped, restored,
                         inHand, outcome, old, orphan>>
       \/ Refuse

Missing == (request.selected \cap Volumes) \ volumes

(***************************************************************************)
(* Anonymous volumes are looked up, the targets compared with the compose  *)
(* configuration unless the stack directory itself is restored, and the    *)
(* missing volumes planned: one that cannot be recreated refuses it all.   *)
(***************************************************************************)
Plan ==
    /\ pc = "plan"
    /\ \/ /\ Missing \subseteq Recreatable
          /\ toCreate' = Missing
          /\ pc' = "check"
          /\ UNCHANGED <<container, volumes, data, request, listed, stopped, restored,
                         inHand, outcome, historyVars, orphan>>
       \/ /\ \/ Missing \ Recreatable # {}
             \/ \E c \in request.selected : Kind[c] = "anonymous-volume"
             \/ \A c \in request.selected : Kind[c] # "stack-directory"
          /\ Refuse

\* Mutant: active containers do not refuse a restore without stop.
CheckNothing ==
    /\ pc = "check"
    /\ pc' = "open"
    /\ UNCHANGED <<container, volumes, data, jobVars, outcome, historyVars, orphan>>

\* Without stop mode, active containers refuse the restore - those that were
\* active when they were listed.
Check ==
    /\ pc = "check"
    /\ IF ~request.stop /\ listed # {}
       THEN Refuse
       ELSE /\ pc' = "open"
            /\ UNCHANGED <<container, volumes, data, jobVars, outcome, historyVars, orphan>>

OpenRepository ==
    /\ pc = "open"
    /\ \/ /\ pc' = IF request.stop THEN "stop" ELSE "create"
          /\ UNCHANGED <<container, volumes, data, jobVars, outcome, historyVars, orphan>>
       \/ Refuse

(***************************************************************************)
(* The listed containers are stopped one by one.  If one cannot be, those  *)
(* stopped before it stay stopped.                                         *)
(***************************************************************************)
Stop ==
    /\ pc = "stop"
    /\ \/ /\ stopped = listed
          /\ pc' = "create"
          /\ UNCHANGED <<container, volumes, data, jobVars, outcome, historyVars, orphan>>
       \/ \E k \in listed \ stopped :
             /\ container' = [container EXCEPT ![k] = "stopped"]
             /\ stopped' = stopped \cup {k}
             /\ others' = others \ {k}
             /\ UNCHANGED <<volumes, data, pc, request, listed, toCreate, restored,
                            inHand, outcome, old, orphan>>
       \/ /\ stopped # listed
          /\ Refuse

(***************************************************************************)
(* reportRestoreFailure: what is not restored is said to have been left at *)
(* its previous state.  A volume that could not be created reports no      *)
(* component as restored, and none has been.                               *)
(***************************************************************************)
Fail ==
    /\ End([result |-> "failed", rolledBack |-> restored,
            leftAlone |-> request.selected \ restored])
    /\ inHand' = {}
    /\ UNCHANGED <<container, request, listed, toCreate, stopped, restored, historyVars, orphan>>

Create ==
    /\ pc = "create"
    /\ \/ /\ toCreate \subseteq volumes
          /\ pc' = "restore"
          /\ UNCHANGED <<container, volumes, data, jobVars, outcome, historyVars, orphan>>
       \/ \E c \in toCreate \ volumes :
             /\ volumes' = volumes \cup {c}
             /\ UNCHANGED <<container, data, pc, jobVars, outcome, historyVars, orphan>>
       \/ ~(toCreate \subseteq volumes) /\ Fail /\ UNCHANGED <<volumes, data>>

Rank(c) ==
    CASE Kind[c] = "stack-directory" -> 0
      [] Kind[c] = "bind-mount" -> 1
      [] Kind[c] = "volume" -> 2
      [] Kind[c] = "anonymous-volume" -> 3

Todo == request.selected \ restored
NextComponents == { c \in Todo : \A d \in Todo : Rank(c) <= Rank(d) }

\* Mutant: a component that could not be restored is skipped.
RestoreSkipping ==
    /\ pc = "restore"
    /\ IF Todo = {}
       THEN pc' = "start" /\ UNCHANGED <<volumes, data, restored>>
       ELSE \E c \in NextComponents :
               /\ data' \in { [data EXCEPT ![c] = x] : x \in {"mixed", "backup"} }
               /\ restored' = restored \cup {c}
               /\ UNCHANGED <<volumes, pc>>
    /\ UNCHANGED <<container, request, listed, toCreate, stopped, inHand, outcome, historyVars,
                   orphan>>

(***************************************************************************)
(* A helper with restic restore --delete, or restic dump into the file.    *)
(* From the moment it runs the component is neither what it was nor the    *)
(* backup; docker creates a mounted volume that is not there.              *)
(***************************************************************************)
Restore ==
    /\ pc = "restore"
    /\ \/ /\ Todo = {}
          /\ pc' = "start"
          /\ UNCHANGED <<volumes, data, outcome, jobVars, container, historyVars, orphan>>
       \/ \E c \in NextComponents :
             /\ data' = [data EXCEPT ![c] = "mixed"]
             /\ volumes' = volumes \cup {c}
             /\ pc' = "write"
             /\ inHand' = {c}
             /\ UNCHANGED <<container, request, listed, toCreate, stopped, restored, outcome,
                            historyVars, orphan>>
       \/ Todo # {} /\ Fail /\ UNCHANGED <<volumes, data>>

\* Mutant: the restored component is not recorded.
WrittenUnrecorded ==
    /\ pc = "write"
    /\ \/ \E c \in inHand :
             /\ data' = [data EXCEPT ![c] = "backup"]
             /\ pc' = "restore" /\ inHand' = {}
             /\ UNCHANGED <<container, volumes, request, listed, toCreate, stopped, restored,
                            outcome, historyVars, orphan>>
       \/ Fail /\ UNCHANGED <<volumes, data>>

(***************************************************************************)
(* restic has ended and its root's ownership is applied; either may fail,  *)
(* and the component stays half restored.                                  *)
(***************************************************************************)
Written ==
    /\ pc = "write"
    /\ \/ \E c \in inHand :
             /\ data' = [data EXCEPT ![c] = "backup"]
             /\ restored' = restored \cup {c} /\ inHand' = {}
             /\ pc' = "restore"
             /\ UNCHANGED <<container, volumes, request, listed, toCreate, stopped, outcome,
                            historyVars, orphan>>
       \/ Fail /\ UNCHANGED <<volumes, data>>

(***************************************************************************)
(* The stopped containers are started in reverse; a failure is reported    *)
(* and ends it, and the restore counts as completed all the same.          *)
(***************************************************************************)
Completed == [result |-> "completed", rolledBack |-> restored, leftAlone |-> {}]
StartAgain ==
    /\ pc = "start"
    /\ \/ \E k \in stopped :
             /\ container' = [container EXCEPT ![k] = "running"]
             /\ stopped' = stopped \ {k}
             /\ UNCHANGED <<volumes, data, pc, request, listed, toCreate, restored, inHand,
                            outcome, historyVars, orphan>>
       \/ /\ End([Completed EXCEPT !.result = IF stopped = {} THEN @ ELSE "not started"])
          /\ UNCHANGED <<container, volumes, data, jobVars, historyVars, orphan>>

Job == \/ List \/ Plan \/ Check \/ OpenRepository \/ Stop \/ Create
       \/ Restore \/ Written \/ StartAgain
--------------------------------------------------------------------------------
\* Someone else starts a container of the stack.
StartOutside(k) ==
    /\ container[k] = "stopped"
    /\ container' = [container EXCEPT ![k] = "running"]
    /\ others' = others \cup {k}
    /\ UNCHANGED <<volumes, data, pc, jobVars, outcome, old, orphan>>

\* The agent dies and starts again; the helper goes on until it has ended or
\* the start-up hygiene has removed it.
Crash ==
    /\ pc # "idle"
    /\ pc' = "idle"
    /\ outcome' = [Unsaid EXCEPT !.result = "crashed"]
    /\ orphan' \in {{}, inHand}
    /\ inHand' = {}
    /\ UNCHANGED <<container, volumes, data, request, listed, toCreate, stopped, restored,
                   historyVars>>

OrphanEnds ==
    /\ orphan # {}
    /\ data' \in {data, [c \in Components |-> IF c \in orphan THEN "backup" ELSE data[c]]}
    /\ orphan' = {}
    /\ UNCHANGED <<container, volumes, pc, jobVars, outcome, historyVars>>

\* A restore is asked for once the agent serves again, its hygiene done.
Next ==
    \/ \E selected \in SUBSET Components \ {{}}, stop \in BOOLEAN :
           orphan = {} /\ Begin(selected, stop)
    \/ Job
    \/ \E k \in Containers : StartOutside(k)
    \/ Crash
    \/ OrphanEnds

\* The goroutine of the operation runs on; docker and restic calls return.
Fairness == WF_vars(Job)

Spec == Init /\ [][Next]_vars /\ Fairness
--------------------------------------------------------------------------------
(***************************************************************************)
(* Nothing is written under a running container of the stack, but for one  *)
(* that someone else has started since the containers were listed.         *)
(***************************************************************************)
NotUnderRunning == pc = "write" => Active \subseteq others

(***************************************************************************)
(* What a restore says when it ends is so: the components rolled back are  *)
(* the backup's, a completed one has rolled back all, no other component   *)
(* has changed, and its containers are back as they were.  Of those "left  *)
(* at their previous state" (restore.go:166) one at most is not: the one   *)
(* whose restore has failed, which the message does not tell apart.        *)
(***************************************************************************)
ReportIsTrue ==
    (pc = "idle" /\ outcome.result # "crashed") =>
        /\ \A c \in outcome.rolledBack : data[c] = "backup"
        /\ \A c \in Components \ request.selected : data[c] = old[c]
        /\ outcome.result \in {"completed", "not started"} =>
               outcome.rolledBack = request.selected
        /\ Cardinality({ c \in outcome.leftAlone : data[c] # old[c] }) <= 1
        /\ outcome.result = "completed" => listed \subseteq Active
        /\ outcome.result = "refused" => data = old

\* A restore that has begun ends.
RestoreEnds == (pc # "idle") ~> (pc = "idle")
================================================================================
