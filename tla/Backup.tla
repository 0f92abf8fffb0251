--------------------------------- MODULE Backup ---------------------------------
(***************************************************************************)
(* The backups of one stack (internal/backup): the run records on the      *)
(* agent's disk, the snapshots in the stack's restic repository, the lock  *)
(* on that repository, and the calls that use them - a create or a restore *)
(* (the operations service admits one of the two at a time, see module     *)
(* Operations), deletes and browsing requests - with crashes of the agent  *)
(* and the hygiene it runs when it starts.                                 *)
(*                                                                         *)
(* A helper container with restic is one step of the call that waits for   *)
(* it.  If the agent dies first the container goes on by itself: an        *)
(* orphan.  What a restore does to the stack is module Restore.            *)
(***************************************************************************)
EXTENDS Naturals, FiniteSets

CONSTANTS RunIds,    \* uuids of backup runs
          LastPart,  \* a run's components are 1 .. LastPart
          Deletes,   \* delete requests
          Browses,   \* listing, download and archive requests
          Nobody     \* no holder of the write lock

Places == {"disk", "mountpoint"}
Parts == 1 .. LastPart
Job == "job"

ASSUME BackupAssumption ==
    /\ LastPart \in Nat \ {0}
    /\ Nobody \notin Deletes
    /\ Job \notin Browses

VARIABLES records,      \* run records on disk
          repositories, \* where restic init has been run
          snapshots,    \* snapshots in the repositories
          place,        \* what BACKUP_LOCATION shows: the backup disk, or the
                        \* empty mount point under it
          up,           \* the agent serves requests
          job,          \* the create or restore in progress
          deletes,      \* the delete requests in progress
          browses,      \* the browsing requests in progress
          readers,      \* holders of the read lock of the repository
          writer,       \* holder of the write lock
          orphans,      \* restic helpers that outlived their agent
          stack,        \* the stack's containers
          born,         \* history: run ids handed out
          forgotten,    \* history: runs whose snapshots a delete set out to forget
          unsettled,    \* history: runs whose final record could not be written
          excused       \* history: the stack is down for a reason told or a crash

storeVars == <<records, repositories, snapshots>>
lockVars == <<readers, writer>>
requestVars == <<deletes, browses>>
historyVars == <<born, forgotten, unsettled, excused>>
vars == <<storeVars, place, up, job, requestVars, lockVars, orphans, stack, historyVars>>

Statuses == {"running", "completed", "failed", "interrupted"}
NoRecord == [status |-> "none", saved |-> {}]
Idle == [pc |-> "idle"]

\* A create or restore: its run, the parts saved so far, the part in hand.
Begun(pc, run, stop) ==
    [pc |-> pc, run |-> run, saved |-> {}, part |-> 1, stop |-> stop,
     restart |-> FALSE, failed |-> FALSE]

CreatePCs == {"record", "stop", "prepare", "part", "save", "restart", "verify", "final"}
Creating == job.pc \in CreatePCs
Restoring == job.pc = "restore"

Snapshot(r, i) == [place |-> place, run |-> r, part |-> i]
RepositoryFound == place \in repositories

HasRecordedSnapshots == \E r \in RunIds : records[r].saved # {}

Init ==
    /\ records = [r \in RunIds |-> NoRecord]
    /\ repositories = {}
    /\ snapshots = {}
    /\ place \in Places
    /\ up = TRUE
    /\ job = Idle
    /\ deletes = [d \in Deletes |-> Idle]
    /\ browses = [w \in Browses |-> Idle]
    /\ readers = {}
    /\ writer = Nobody
    /\ orphans = {}
    /\ stack = "running"
    /\ born = {}
    /\ forgotten = {}
    /\ unsettled = {}
    /\ excused = FALSE

--------------------------------------------------------------------------------
\* The lock of the repository: TryRLock and TryLock, refused when busy.

TryRLock(p) == writer = Nobody /\ readers' = readers \cup {p} /\ UNCHANGED writer
RUnlock(p) == readers' = readers \ {p} /\ UNCHANGED writer

TryLock(p) == readers = {} /\ writer = Nobody /\ writer' = p /\ UNCHANGED readers
WUnlock == writer' = Nobody /\ UNCHANGED readers
--------------------------------------------------------------------------------
\* CreateBackup.

(***************************************************************************)
(* The run is enumerated and its sources checked; a failure up to here     *)
(* leaves no trace.                                                        *)
(***************************************************************************)
BeginCreate(r, stop) ==
    /\ up /\ job = Idle
    /\ r \notin born
    /\ TryRLock(Job)
    /\ job' = Begun("record", r, stop)
    /\ born' = born \cup {r}
    /\ UNCHANGED <<storeVars, place, up, requestVars, orphans, stack, forgotten, unsettled, excused>>

EndJob ==
    /\ job' = Idle
    /\ RUnlock(Job)

RecordRunning ==
    /\ job.pc = "record"
    /\ \/ /\ records' = [records EXCEPT ![job.run] = [status |-> "running", saved |-> {}]]
          /\ job' = [job EXCEPT !.pc = IF job.stop THEN "stop" ELSE "prepare"]
          /\ UNCHANGED lockVars
       \/ EndJob /\ UNCHANGED records
    /\ UNCHANGED <<repositories, snapshots, place, up, requestVars, orphans, stack, historyVars>>

(***************************************************************************)
(* docker compose stop (or pause).  A failure may leave some containers    *)
(* stopped, and comes before the restart is deferred.                      *)
(***************************************************************************)
StopStack ==
    /\ job.pc = "stop"
    /\ \/ /\ stack' = "stopped"
          /\ job' = [job EXCEPT !.pc = "prepare", !.restart = TRUE]
          /\ UNCHANGED excused
       \/ /\ stack' \in {"running", "stopped"}
          /\ job' = [job EXCEPT !.pc = "final", !.failed = TRUE]
          /\ excused' = TRUE
    /\ UNCHANGED <<storeVars, place, up, requestVars, lockVars, orphans, born, forgotten, unsettled>>

\* Mutant: the restart is skipped when the run has failed.
LeaveIfFailed(failed) ==
    job' = [job EXCEPT !.pc = IF job.restart /\ ~failed THEN "restart"
                              ELSE IF failed THEN "final" ELSE "verify",
                       !.failed = failed]

\* executeRun returns, through the deferred restart if there is one.
Leave(failed) ==
    job' = [job EXCEPT !.pc = IF job.restart THEN "restart"
                              ELSE IF failed THEN "final" ELSE "verify",
                       !.failed = failed]

(***************************************************************************)
(* The repository is opened, or created if no earlier backup is recorded.  *)
(* A wrong password or any failing helper ends the run, a failing restic   *)
(* unlock even after restic init.                                          *)
(***************************************************************************)
PrepareRepository ==
    /\ job.pc = "prepare"
    /\ \/ /\ RepositoryFound \/ ~HasRecordedSnapshots
          /\ repositories' = repositories \cup {place}
          /\ job' = [job EXCEPT !.pc = "part"] \/ Leave(TRUE)
       \/ Leave(TRUE) /\ UNCHANGED repositories
    /\ UNCHANGED <<records, snapshots, place, up, requestVars, lockVars, orphans, stack, historyVars>>

(***************************************************************************)
(* One component.  restic may leave a partial snapshot behind when it      *)
(* fails; removing it is only attempted.                                   *)
(***************************************************************************)
BackupPart ==
    /\ job.pc = "part"
    /\ \/ /\ snapshots' = snapshots \cup {Snapshot(job.run, job.part)}
          /\ job' = [job EXCEPT !.pc = "save", !.saved = @ \cup {job.part}]
       \/ /\ snapshots' \in {snapshots, snapshots \cup {Snapshot(job.run, job.part)}}
          /\ Leave(TRUE)
    /\ UNCHANGED <<records, repositories, place, up, requestVars, lockVars, orphans, stack, historyVars>>

\* Mutant: the loop over the components runs one too far.
SavePartTooFar ==
    /\ job.pc = "save"
    /\ records' = [records EXCEPT ![job.run].saved = job.saved]
    /\ IF job.part > LastPart
       THEN Leave(FALSE)
       ELSE job' = [job EXCEPT !.pc = "part", !.part = @ + 1]
    /\ UNCHANGED <<repositories, snapshots, place, up, requestVars, lockVars, orphans, stack, historyVars>>

SavePart ==
    /\ job.pc = "save"
    /\ \/ /\ records' = [records EXCEPT ![job.run].saved = job.saved]
          /\ IF job.part = LastPart
             THEN Leave(FALSE)
             ELSE job' = [job EXCEPT !.pc = "part", !.part = @ + 1]
       \/ Leave(TRUE) /\ UNCHANGED records
    /\ UNCHANGED <<repositories, snapshots, place, up, requestVars, lockVars, orphans, stack, historyVars>>

RestartStack ==
    /\ job.pc = "restart"
    /\ \/ stack' = "running" /\ excused' = FALSE
       \/ UNCHANGED stack /\ excused' = TRUE
    /\ job' = [job EXCEPT !.pc = IF job.failed THEN "final" ELSE "verify"]
    /\ UNCHANGED <<storeVars, place, up, requestVars, lockVars, orphans, born, forgotten, unsettled>>

VerifyRepository ==
    /\ job.pc = "verify"
    /\ \E failed \in BOOLEAN : job' = [job EXCEPT !.pc = "final", !.failed = failed]
    /\ UNCHANGED <<storeVars, place, up, requestVars, lockVars, orphans, stack, historyVars>>

\* Mutant: the verdict of the run is ignored.
RecordCompleted ==
    /\ job.pc = "final"
    /\ records' = [records EXCEPT ![job.run] =
                      [status |-> "completed", saved |-> job.saved]]
    /\ EndJob
    /\ UNCHANGED <<repositories, snapshots, place, up, requestVars, orphans, stack, historyVars>>

\* If the final record cannot be written the run stays "running" on disk.
RecordOutcome ==
    /\ job.pc = "final"
    /\ \/ /\ records' = [records EXCEPT ![job.run] =
                            [status |-> IF job.failed THEN "failed" ELSE "completed",
                             saved |-> job.saved]]
          /\ UNCHANGED unsettled
       \/ UNCHANGED records /\ unsettled' = unsettled \cup {job.run}
    /\ EndJob
    /\ UNCHANGED <<repositories, snapshots, place, up, requestVars, orphans, stack, born, forgotten, excused>>

Create ==
    \/ RecordRunning \/ StopStack \/ PrepareRepository \/ BackupPart \/ SavePart
    \/ RestartStack \/ VerifyRepository \/ RecordOutcome
--------------------------------------------------------------------------------
\* RestoreBackup, browsing and DeleteBackup.

BeginRestore(r) ==
    /\ up /\ job = Idle
    /\ records[r].status = "completed"
    /\ TryRLock(Job)
    /\ job' = Begun("restore", r, FALSE)
    /\ UNCHANGED <<storeVars, place, up, requestVars, orphans, stack, historyVars>>

EndRestore ==
    /\ Restoring
    /\ EndJob
    /\ UNCHANGED <<storeVars, place, up, requestVars, orphans, stack, historyVars>>

BeginBrowse(w, r) ==
    /\ up /\ browses[w] = Idle
    /\ records[r].saved # {}
    /\ TryRLock(w)
    /\ browses' = [browses EXCEPT ![w] = [pc |-> "read", run |-> r]]
    /\ UNCHANGED <<storeVars, place, up, job, deletes, orphans, stack, historyVars>>

EndBrowse(w) ==
    /\ browses[w].pc = "read"
    /\ browses' = [browses EXCEPT ![w] = Idle]
    /\ RUnlock(w)
    /\ UNCHANGED <<storeVars, place, up, job, deletes, orphans, stack, historyVars>>

\* Mutant: readers do not keep a delete out.
BeginDeleteUnlocked(d, r) ==
    /\ up /\ deletes[d] = Idle
    /\ records[r] # NoRecord
    /\ deletes' = [deletes EXCEPT ![d] =
            [pc |-> IF records[r].saved = {} THEN "remove" ELSE "forget", run |-> r]]
    /\ UNCHANGED <<storeVars, place, up, job, browses, lockVars, orphans, stack, historyVars>>

BeginDelete(d, r) ==
    /\ up /\ deletes[d] = Idle
    /\ records[r] # NoRecord
    /\ TryLock(d)
    /\ deletes' = [deletes EXCEPT ![d] =
            [pc |-> IF records[r].saved = {} THEN "remove" ELSE "forget", run |-> r]]
    /\ UNCHANGED <<storeVars, place, up, job, browses, orphans, stack, historyVars>>

\* The snapshots restic forget is given: those the record names.
Named(r) == { s \in snapshots : s.run = r /\ s.part \in records[r].saved }
Forgettable(r) == { s \in Named(r) : s.place = place }

(***************************************************************************)
(* restic unlock finds no repository, or a helper fails, forget perhaps    *)
(* after it has removed some of the snapshots: the record stays.           *)
(***************************************************************************)
ForgetFails(d) ==
    /\ deletes[d].pc = "forget"
    /\ \E lost \in SUBSET Forgettable(deletes[d].run) :
           /\ snapshots' = snapshots \ lost
           /\ forgotten' = IF lost = {} THEN forgotten
                           ELSE forgotten \cup {deletes[d].run}
    /\ deletes' = [deletes EXCEPT ![d] = Idle]
    /\ WUnlock
    /\ UNCHANGED <<records, repositories, place, up, job, browses, orphans, stack, born, unsettled, excused>>

\* Mutant: a repository that is not there has nothing to forget.
ForgetAnywhere(d) ==
    /\ deletes[d].pc = "forget"
    /\ snapshots' = snapshots \ Forgettable(deletes[d].run)
    /\ forgotten' = forgotten \cup {deletes[d].run}
    /\ deletes' = [deletes EXCEPT ![d].pc = "remove"]
    /\ UNCHANGED <<records, repositories, place, up, job, browses, lockVars, orphans, stack, born, unsettled, excused>>

Forget(d) ==
    /\ deletes[d].pc = "forget"
    /\ RepositoryFound
    /\ snapshots' = snapshots \ Forgettable(deletes[d].run)
    /\ forgotten' = forgotten \cup {deletes[d].run}
    /\ deletes' = [deletes EXCEPT ![d].pc = "remove"]
    /\ UNCHANGED <<records, repositories, place, up, job, browses, lockVars, orphans, stack, born, unsettled, excused>>

RemoveFails(d) ==
    /\ deletes[d].pc = "remove"
    /\ deletes' = [deletes EXCEPT ![d] = Idle]
    /\ WUnlock
    /\ UNCHANGED <<storeVars, place, up, job, browses, orphans, stack, historyVars>>

RemoveRecord(d) ==
    /\ deletes[d].pc = "remove"
    /\ records' = [records EXCEPT ![deletes[d].run] = NoRecord]
    /\ deletes' = [deletes EXCEPT ![d] = Idle]
    /\ WUnlock
    /\ UNCHANGED <<repositories, snapshots, place, up, job, browses, orphans, stack, historyVars>>
--------------------------------------------------------------------------------
\* Crashes, and what happens around the agent.

Forgetting == { deletes[d].run : d \in { e \in Deletes : deletes[e].pc = "forget" } }

\* The helper that a create was waiting for, if it writes.
CreateHelper ==
    CASE job.pc = "part" -> {[does |-> "backup", run |-> job.run, parts |-> {job.part}]}
      [] job.pc = "prepare" /\ ~RepositoryFound /\ ~HasRecordedSnapshots ->
             {[does |-> "init", run |-> job.run, parts |-> {}]}
      [] OTHER -> {}

(***************************************************************************)
(* The agent dies.  The helper it was waiting for goes on.                 *)
(***************************************************************************)
Crash ==
    /\ up
    /\ up' = FALSE
    /\ job' = Idle
    /\ deletes' = [d \in Deletes |-> Idle]
    /\ browses' = [w \in Browses |-> Idle]
    /\ readers' = {}
    /\ writer' = Nobody
    /\ orphans' = orphans \cup CreateHelper
         \cup { [does |-> "forget", run |-> r, parts |-> records[r].saved] : r \in Forgetting }
    /\ forgotten' = forgotten \cup Forgetting
    /\ excused' = (excused \/ Creating)
    /\ UNCHANGED <<storeVars, place, stack, born, unsettled>>

\* The snapshots that orphan o writes or forgets.
Target(o) == [place : {place}, run : {o.run}, part : o.parts]

OrphanEnds(o) ==
    /\ o \in orphans
    /\ orphans' = orphans \ {o}
    /\ \/ o.does = "init" /\ repositories' = repositories \cup {place} /\ UNCHANGED snapshots
       \/ o.does # "init" /\ ~RepositoryFound /\ UNCHANGED <<repositories, snapshots>>
       \/ o.does = "backup" /\ RepositoryFound
             /\ snapshots' = snapshots \cup Target(o) /\ UNCHANGED repositories
       \/ o.does = "forget" /\ RepositoryFound
             /\ snapshots' = snapshots \ Target(o) /\ UNCHANGED repositories
    /\ UNCHANGED <<records, place, up, job, requestVars, lockVars, stack, historyVars>>

\* Mutant: the agent starts without marking interrupted runs.
StartUnmarked ==
    /\ ~up
    /\ up' = TRUE
    /\ orphans' \in {{}, orphans}
    /\ UNCHANGED <<storeVars, place, job, requestVars, lockVars, stack, historyVars>>

(***************************************************************************)
(* RunStartupHygiene, before the server listens: runs still "running" are  *)
(* marked interrupted if that can be written, then the orphans are         *)
(* removed; docker may refuse that, and the agent starts all the same.     *)
(***************************************************************************)
Start ==
    /\ ~up
    /\ up' = TRUE
    /\ \E unwritten \in SUBSET { r \in RunIds : records[r].status = "running" } :
           /\ unsettled' = unsettled \cup unwritten
           /\ records' = [r \in RunIds |->
                  IF records[r].status = "running" /\ r \notin unwritten
                  THEN [records[r] EXCEPT !.status = "interrupted"]
                  ELSE records[r]]
    /\ orphans' \in {{}, orphans}
    /\ UNCHANGED <<repositories, snapshots, place, job, requestVars, lockVars, stack, born, forgotten, excused>>

(***************************************************************************)
(* The backup disk is mounted or unmounted, while no helper container has  *)
(* the location bound.                                                     *)
(***************************************************************************)
Remount ==
    /\ job = Idle /\ orphans = {}
    /\ \A d \in Deletes : deletes[d] = Idle
    /\ \A w \in Browses : browses[w] = Idle
    /\ place' \in Places \ {place}
    /\ UNCHANGED <<storeVars, up, job, requestVars, lockVars, orphans, stack, historyVars>>

Next ==
    \/ \E r \in RunIds :
           \/ \E stop \in BOOLEAN : BeginCreate(r, stop)
           \/ BeginRestore(r)
           \/ \E w \in Browses : BeginBrowse(w, r)
           \/ \E d \in Deletes : BeginDelete(d, r)
    \/ Create
    \/ EndRestore
    \/ \E w \in Browses : EndBrowse(w)
    \/ \E d \in Deletes : Forget(d) \/ ForgetFails(d) \/ RemoveRecord(d) \/ RemoveFails(d)
    \/ Crash
    \/ \E o \in orphans : OrphanEnds(o)
    \/ Start
    \/ Remount

(***************************************************************************)
(* A create runs on (compose and restic end), and the agent's container is *)
(* restarted (restart: unless-stopped).                                    *)
(***************************************************************************)
Fairness == WF_vars(Create) /\ WF_vars(Start)

Spec == Init /\ [][Next]_vars /\ Fairness
--------------------------------------------------------------------------------
Record == [status : Statuses, saved : SUBSET Parts]
JobRecord == [pc : CreatePCs \cup {"restore"}, run : RunIds, saved : SUBSET Parts,
              part : Parts, stop : BOOLEAN, restart : BOOLEAN, failed : BOOLEAN]

TypeOK ==
    /\ records \in [RunIds -> Record \cup {NoRecord}]
    /\ repositories \subseteq Places
    /\ snapshots \subseteq [place : Places, run : RunIds, part : Parts]
    /\ place \in Places
    /\ up \in BOOLEAN
    /\ job \in JobRecord \cup {Idle}
    /\ deletes \in [Deletes -> [pc : {"forget", "remove"}, run : RunIds] \cup {Idle}]
    /\ browses \in [Browses -> [pc : {"read"}, run : RunIds] \cup {Idle}]
    /\ readers \subseteq Browses \cup {Job}
    /\ writer \in Deletes \cup {Nobody}
    /\ orphans \subseteq [does : {"init", "backup", "forget"}, run : RunIds, parts : SUBSET Parts]
    /\ stack \in {"running", "stopped"}
    /\ born \subseteq RunIds
    /\ forgotten \subseteq RunIds
    /\ unsettled \subseteq RunIds
    /\ excused \in BOOLEAN

Stored(r, i) == \E s \in snapshots : s.run = r /\ s.part = i

(***************************************************************************)
(* A run recorded as completed has all its components recorded, and every  *)
(* snapshot a record names is in a repository, through crashes, restarts   *)
(* and deletes of other runs - unless a delete of that very run got as far *)
(* as forgetting it.                                                       *)
(***************************************************************************)
RecordsAreBacked ==
    \A r \in RunIds :
        /\ records[r].status = "completed" => records[r].saved = Parts
        /\ r \notin forgotten => \A i \in records[r].saved : Stored(r, i)

(***************************************************************************)
(* A backup leaves the list only when none of the snapshots it names is    *)
(* left in the repository that the backup location shows: a delete that    *)
(* fails half way, or does not find the repository because the disk is not *)
(* mounted, keeps the record.                                              *)
(***************************************************************************)
RemovedAfterForget ==
    [][\A r \in RunIds :
          (records[r] # NoRecord /\ records'[r] = NoRecord) =>
              (place \in repositories \/ records[r].saved = {}) /\ Forgettable(r) = {}]_vars

(***************************************************************************)
(* The record of a run says "running" only while the run is being made, or *)
(* when its final record could not be written - never after a restart.     *)
(***************************************************************************)
RunningHasOwner ==
    \A r \in RunIds :
        (up /\ records[r].status = "running") =>
            (Creating /\ job.run = r) \/ r \in unsettled

(***************************************************************************)
(* The snapshots that a restore or a browsing request reads do not vanish  *)
(* under it, whatever deletes are asked for meanwhile, as long as no       *)
(* forget of an earlier agent is still running.                            *)
(***************************************************************************)
Reads(r) == \/ Restoring /\ job.run = r
            \/ \E w \in Browses : browses[w].pc = "read" /\ browses[w].run = r
ReadersKeepSnapshots ==
    [][\A s \in snapshots :
          (Reads(s.run) /\ \A o \in orphans : o.does # "forget") => s \in snapshots']_vars

(***************************************************************************)
(* A stack that a backup stopped is running again when the backup is over, *)
(* however it ended, unless compose failed to stop or start it or the      *)
(* agent crashed meanwhile.                                                *)
(***************************************************************************)
StackComesBack == (~Creating /\ stack = "stopped") => excused

\* Every run that was recorded as running is settled in the end.
RunIsSettled ==
    \A r \in RunIds :
        (records[r].status = "running") ~>
            (records[r].status # "running" \/ r \in unsettled)
================================================================================
