------------------------------ MODULE BackupProofs ------------------------------
(***************************************************************************)
(* Proofs about Backup, for any number of runs, of components, of deletes  *)
(* and of browsing requests: what the records of a stack say is true.      *)
(***************************************************************************)
EXTENDS Backup, TLAPS

\* The lock has a holder for each call in progress, and no two that exclude
\* each other.
Locks ==
    /\ job # Idle => Job \in readers
    /\ \A w \in Browses : browses[w] # Idle => w \in readers
    /\ \A d \in Deletes : deletes[d] # Idle => writer = d
    /\ readers # {} => writer = Nobody

\* A run is recorded as running while it is being made, once it is recorded.
Owned ==
    /\ \A r \in RunIds : records[r] # NoRecord => r \in born
    /\ Creating => up /\ job.run \in born
    /\ Creating => IF job.pc = "record" THEN records[job.run] = NoRecord
                                        ELSE records[job.run].status = "running"
    /\ RunningHasOwner

\* The parts of a run are saved in their order, and recorded after they are.
Ordered ==
    /\ Creating => records[job.run].saved \subseteq job.saved
    /\ job.pc \in {"record", "stop", "prepare"} => job.saved = {} /\ job.part = 1
    /\ job.pc = "part" => job.saved = 1..job.part - 1
    /\ job.pc = "save" => job.saved = 1..job.part
    /\ job.pc = "verify" => job.saved = Parts
    /\ job.pc \in {"restart", "final"} /\ ~job.failed => job.saved = Parts
    /\ \A r \in RunIds : records[r].status = "completed" => records[r].saved = Parts

\* What is saved is stored, unless a delete set out to forget it.
Backed ==
    /\ \A r \in RunIds \ forgotten : \A i \in records[r].saved : Stored(r, i)
    /\ Creating /\ job.run \notin forgotten => \A i \in job.saved : Stored(job.run, i)
    /\ \A o \in orphans : o.does = "forget" => o.run \in forgotten

\* A helper that outlived its agent writes no snapshot that a record names.
Strays ==
    \A o \in orphans : o.does = "backup" =>
        /\ o.run \in born
        /\ Creating => job.run # o.run
        /\ o.parts \cap records[o.run].saved = {}

\* A delete that goes on to the record has left no snapshot the record names.
Gone(r) == (place \in repositories \/ records[r].saved = {}) /\ Forgettable(r) = {}
Forgot == \A d \in Deletes : deletes[d].pc = "remove" => Gone(deletes[d].run)

\* A stack that a backup stopped is down for a reason, or to be started again.
Stopped ==
    stack = "stopped" /\ ~excused =>
        Creating /\ job.restart /\ job.pc \in {"prepare", "part", "save", "restart"}

IInv == TypeOK /\ Locks /\ Owned /\ Ordered /\ Backed /\ Strays /\ Forgot /\ Stopped

--------------------------------------------------------------------------------
LEMMA InitIInv == Init => IInv
<1> SUFFICES ASSUME Init PROVE IInv
  OBVIOUS
<1>1. TypeOK
  <2>1. records \in [RunIds -> Record \cup {NoRecord}]
    BY DEF Init
  <2>2. job \in JobRecord \cup {Idle}
    BY DEF Init
  <2>3. /\ deletes \in [Deletes -> [pc : {"forget", "remove"}, run : RunIds] \cup {Idle}]
        /\ browses \in [Browses -> [pc : {"read"}, run : RunIds] \cup {Idle}]
    BY DEF Init
  <2> QED
    BY <2>1, <2>2, <2>3 DEF Init, TypeOK
<1>2. job.pc = "idle" /\ ~Creating /\ \A r \in RunIds : records[r] = NoRecord
  BY DEF Init, Idle, Creating, CreatePCs
<1>3. \A r \in RunIds : records[r].status = "none" /\ records[r].saved = {}
  BY <1>2 DEF NoRecord
<1>4. Locks
  BY DEF Init, Locks
<1>5. Owned
  BY <1>2, <1>3 DEF Owned, RunningHasOwner
<1>6. Ordered
  BY <1>2, <1>3 DEF Ordered
<1>7. Backed /\ Strays
  BY <1>2, <1>3 DEF Init, Backed, Strays
<1>8. Forgot
  BY DEF Init, Forgot, Idle
<1>9. Stopped
  BY DEF Init, Stopped
<1> QED
  BY <1>1, <1>4, <1>5, <1>6, <1>7, <1>8, <1>9 DEF IInv

\* The records of what there is, and what is not there.
LEMMA Shapes ==
    ASSUME TypeOK
    PROVE  /\ job # Idle => job \in JobRecord
           /\ Creating \/ Restoring => job \in JobRecord /\ job # Idle
           /\ ~(Creating /\ Restoring)
           /\ job = Idle => ~Creating /\ ~Restoring /\ job.pc = "idle"
           /\ \A d \in Deletes : deletes[d].pc \in {"forget", "remove"} =>
                  deletes[d] # Idle /\ deletes[d] \in [pc : {"forget", "remove"}, run : RunIds]
           /\ \A w \in Browses : browses[w].pc = "read" =>
                  browses[w] # Idle /\ browses[w] \in [pc : {"read"}, run : RunIds]
           /\ \A r \in RunIds : records[r].saved \subseteq Parts
           /\ \A r \in RunIds : records[r] # NoRecord => records[r] \in Record
<1>1. job \in JobRecord \cup {Idle} /\ Idle.pc = "idle"
  BY DEF TypeOK, Idle
<1>2. Creating \/ Restoring => job # Idle
  BY <1>1 DEF Creating, CreatePCs, Restoring
<1>3. ~(Creating /\ Restoring)
  BY DEF Creating, CreatePCs, Restoring
<1>4. \A d \in Deletes : deletes[d] \in [pc : {"forget", "remove"}, run : RunIds] \cup {Idle}
  BY DEF TypeOK
<1>5. \A w \in Browses : browses[w] \in [pc : {"read"}, run : RunIds] \cup {Idle}
  BY DEF TypeOK
<1>6. \A r \in RunIds : records[r] \in Record \cup {NoRecord}
  BY DEF TypeOK
<1>7. \A r \in RunIds : records[r].saved \subseteq Parts
  <2>1. \A x \in Record : x.saved \subseteq Parts
    BY DEF Record
  <2>2. NoRecord.saved = {}
    BY DEF NoRecord
  <2> QED
    BY <1>6, <2>1, <2>2
<1> QED
  BY <1>1, <1>2, <1>3, <1>4, <1>5, <1>6, <1>7

--------------------------------------------------------------------------------
\* The steps of a create.

\* No delete is in progress, and what is shared stays as it is.
LEMMA CreateFrame ==
    ASSUME IInv, Create
    PROVE  /\ Creating /\ job \in JobRecord /\ job.run \in RunIds
           /\ \A d \in Deletes : deletes[d] = Idle
           /\ UNCHANGED <<place, up, deletes, browses, orphans, born, forgotten>>
           /\ job' = Idle \/ UNCHANGED lockVars
           /\ Locks' /\ Forgot'
           /\ readers' \subseteq readers /\ writer' = writer
<1>1. Creating
  BY DEF Create, Creating, CreatePCs, RecordRunning, StopStack, PrepareRepository, BackupPart,
         SavePart, RestartStack, VerifyRepository, RecordOutcome
<1>2. job \in JobRecord /\ job # Idle
  BY <1>1, Shapes DEF IInv
<1>3. Job \in readers /\ writer = Nobody
  BY <1>2 DEF IInv, Locks
<1>4. \A d \in Deletes : deletes[d] = Idle
  BY <1>3, BackupAssumption DEF IInv, Locks
<1>5. UNCHANGED <<place, up, deletes, browses, orphans, born, forgotten>>
  BY DEF Create, RecordRunning, StopStack, PrepareRepository, BackupPart,
         SavePart, RestartStack, VerifyRepository, RecordOutcome, requestVars, historyVars
<1>6. UNCHANGED lockVars \/ EndJob
  BY DEF Create, RecordRunning, StopStack, PrepareRepository, BackupPart,
         SavePart, RestartStack, VerifyRepository, RecordOutcome
<1>7. Locks'
  <2>1. CASE UNCHANGED lockVars
    BY <1>3, <1>5, <2>1 DEF IInv, Locks, lockVars
  <2>2. CASE EndJob
    BY <1>3, <1>5, <2>2, BackupAssumption DEF IInv, Locks, EndJob, RUnlock
  <2> QED
    BY <1>6, <2>1, <2>2
<1>8. Forgot'
  BY <1>4, <1>5 DEF Forgot, Idle
<1> QED
  BY <1>1, <1>2, <1>4, <1>5, <1>6, <1>7, <1>8 DEF EndJob, RUnlock, lockVars, JobRecord

\* The variables a create does not disturb keep their types.
LEMMA CreateType ==
    ASSUME IInv, Create,
           records' \in [RunIds -> Record \cup {NoRecord}],
           repositories' \subseteq Places,
           snapshots' \subseteq [place : Places, run : RunIds, part : Parts],
           job' \in JobRecord \cup {Idle}, stack' \in {"running", "stopped"},
           unsettled' \subseteq RunIds, excused' \in BOOLEAN
    PROVE  TypeOK'
BY CreateFrame DEF IInv, TypeOK

\* A step that is about the containers or the helper alone.
LEMMA RecordsKept ==
    ASSUME IInv, Create, UNCHANGED <<records, unsettled>>,
           job' \in JobRecord, job'.pc \in CreatePCs \ {"record"}, job.pc # "record",
           job'.run = job.run
    PROVE  Owned' /\ Strays'
<1>1. /\ Creating /\ UNCHANGED <<up, orphans, born>>
  BY CreateFrame
<1>2. Creating'
  BY DEF Creating
<1>3. Owned'
  BY <1>1, <1>2 DEF IInv, Owned, RunningHasOwner
<1>4. Strays'
  BY <1>1, <1>2 DEF IInv, Strays
<1> QED
  BY <1>3, <1>4

LEMMA RecordRunningKeeps == ASSUME IInv, RecordRunning PROVE IInv'
<1> DEFINE r == job.run
<1>1. Create
  BY DEF Create
<1>2. /\ job.pc = "record" /\ job \in JobRecord /\ r \in RunIds /\ Creating
      /\ UNCHANGED <<repositories, snapshots, stack, unsettled, excused>>
      /\ UNCHANGED <<up, orphans, born, forgotten>>
  BY <1>1, CreateFrame DEF RecordRunning, historyVars
<1>3. Locks' /\ Forgot'
  BY <1>1, CreateFrame
<1>4. records[r] = NoRecord /\ job.saved = {} /\ job.part = 1
      /\ (stack = "stopped" => excused)
  BY <1>2 DEF IInv, Owned, Ordered, Stopped
<1>5. CASE job' = Idle /\ records' = records
  <2>1. ~Creating' /\ job'.pc = "idle"
    BY <1>5 DEF Creating, CreatePCs, Idle
  <2>2. TypeOK'
    BY <1>1, <1>2, <1>5, CreateType DEF IInv, TypeOK
  <2>3. records[r].status # "running"
    BY <1>4 DEF NoRecord
  <2>4. Owned'
    BY <1>2, <1>5, <2>1, <2>3 DEF IInv, Owned, RunningHasOwner
  <2>5. Ordered'
    BY <1>5, <2>1 DEF IInv, Ordered
  <2>6. Backed' /\ Strays'
    BY <1>2, <1>5, <2>1 DEF IInv, Backed, Strays, Stored
  <2>7. Stopped'
    BY <1>2, <1>4 DEF Stopped
  <2> QED
    BY <1>3, <2>2, <2>4, <2>5, <2>6, <2>7 DEF IInv
<1>6. CASE /\ records' = [records EXCEPT ![r] = [status |-> "running", saved |-> {}]]
           /\ job' = [job EXCEPT !.pc = IF job.stop THEN "stop" ELSE "prepare"]
  <2>1. PICK pc \in {"stop", "prepare"} : job' = [job EXCEPT !.pc = pc]
    BY <1>6
  <2>2. /\ job' \in JobRecord /\ job'.pc \in {"stop", "prepare"} /\ job'.run = r
        /\ job'.saved = {} /\ job'.part = 1
    BY <1>2, <1>4, <2>1 DEF JobRecord, CreatePCs
  <2>3. Creating'
    BY <2>2 DEF Creating, CreatePCs
  <2>4. /\ records' \in [RunIds -> Record \cup {NoRecord}]
        /\ records'[r].status = "running" /\ records'[r].saved = {}
        /\ \A s \in RunIds : s # r => records'[s] = records[s]
    <3>1. [status |-> "running", saved |-> {}] \in Record
      BY DEF Record, Statuses
    <3> QED
      BY <1>2, <1>6, <3>1 DEF IInv, TypeOK
  <2>5. TypeOK'
    BY <1>1, <1>2, <2>2, <2>4, CreateType DEF IInv, TypeOK
  <2>6. Owned'
    BY <1>2, <2>2, <2>3, <2>4 DEF IInv, Owned, RunningHasOwner
  <2>7. Ordered'
    BY <1>2, <2>2, <2>4 DEF IInv, Ordered
  <2>8. Backed'
    BY <1>2, <2>2, <2>4 DEF IInv, Backed, Stored
  <2>9. Strays'
    BY <1>2, <2>2, <2>3, <2>4 DEF IInv, Strays, TypeOK
  <2>10. Stopped'
    BY <1>2, <1>4 DEF Stopped
  <2> QED
    BY <1>3, <2>5, <2>6, <2>7, <2>8, <2>9, <2>10 DEF IInv
<1> QED
  BY <1>5, <1>6 DEF RecordRunning, EndJob

LEMMA StopStackKeeps == ASSUME IInv, StopStack PROVE IInv'
<1>1. Create
  BY DEF Create
<1>2. /\ job.pc = "stop" /\ job \in JobRecord /\ Creating
      /\ UNCHANGED <<records, repositories, snapshots, unsettled>>
      /\ UNCHANGED <<orphans, forgotten>>
  BY <1>1, CreateFrame DEF StopStack, storeVars
<1>3. Locks' /\ Forgot'
  BY <1>1, CreateFrame
<1>4. job.saved = {} /\ job.part = 1
  BY <1>2 DEF IInv, Ordered
<1>5. /\ job' \in JobRecord /\ job'.saved = {} /\ job'.part = 1 /\ job'.run = job.run
      /\ stack' \in {"running", "stopped"} /\ excused' \in BOOLEAN
      /\ \/ job'.pc = "prepare" /\ job'.restart
         \/ job'.pc = "final" /\ job'.failed /\ excused'
  BY <1>2, <1>4 DEF StopStack, JobRecord, CreatePCs, IInv, TypeOK
<1>6. job'.pc \in CreatePCs \ {"record"} /\ Creating'
  BY <1>5 DEF CreatePCs, Creating
<1>7. TypeOK'
  BY <1>1, <1>2, <1>5, CreateType DEF IInv, TypeOK
<1>8. Owned' /\ Strays'
  BY <1>1, <1>2, <1>5, <1>6, RecordsKept
<1>9. Ordered'
  BY <1>2, <1>4, <1>5, <1>6 DEF IInv, Ordered
<1>10. Backed'
  BY <1>2, <1>4, <1>5 DEF IInv, Backed, Stored
<1>11. Stopped'
  BY <1>5, <1>6 DEF Stopped
<1> QED
  BY <1>3, <1>7, <1>8, <1>9, <1>10, <1>11 DEF IInv

\* Where executeRun goes when it returns.
LEMMA LeaveGoes ==
    ASSUME job \in JobRecord, NEW failed \in BOOLEAN, Leave(failed)
    PROVE  /\ job' \in JobRecord /\ job'.run = job.run /\ job'.saved = job.saved
           /\ job'.restart = job.restart /\ job'.failed = failed
           /\ job'.pc \in {"restart", "final", "verify"}
           /\ job'.pc = "restart" <=> job.restart
           /\ job'.pc = "verify" => ~failed
<1>1. PICK pc \in {"restart", "final", "verify"} :
          /\ job' = [job EXCEPT !.pc = pc, !.failed = failed]
          /\ pc = "restart" <=> job.restart
          /\ pc = "verify" => ~failed
  BY DEF Leave
<1> QED
  BY <1>1 DEF JobRecord, CreatePCs

LEMMA PrepareRepositoryKeeps == ASSUME IInv, PrepareRepository PROVE IInv'
<1>1. Create
  BY DEF Create
<1>2. /\ job.pc = "prepare" /\ job \in JobRecord /\ Creating
      /\ UNCHANGED <<records, snapshots, stack, unsettled, excused>>
      /\ UNCHANGED <<orphans, forgotten>>
  BY <1>1, CreateFrame DEF PrepareRepository, historyVars
<1>3. Locks' /\ Forgot'
  BY <1>1, CreateFrame
<1>4. job.saved = {} /\ job.part = 1
  BY <1>2 DEF IInv, Ordered
<1>5. repositories' \subseteq Places
  BY DEF PrepareRepository, IInv, TypeOK
<1>6. /\ job' \in JobRecord /\ job'.saved = {} /\ job'.run = job.run
      /\ job'.restart = job.restart
      /\ \/ job'.pc = "part" /\ job'.part = 1
         \/ /\ job'.pc \in {"restart", "final"} /\ job'.failed
            /\ job'.pc = "restart" <=> job.restart
  <2>1. CASE Leave(TRUE)
    BY <1>2, <1>4, <2>1, LeaveGoes
  <2>2. CASE job' = [job EXCEPT !.pc = "part"]
    BY <1>2, <1>4, <2>2 DEF JobRecord, CreatePCs
  <2> QED
    BY <2>1, <2>2 DEF PrepareRepository
<1>7. job'.pc \in CreatePCs \ {"record"} /\ Creating'
  BY <1>6 DEF CreatePCs, Creating
<1>8. TypeOK'
  BY <1>1, <1>2, <1>5, <1>6, CreateType DEF IInv, TypeOK
<1>9. Owned' /\ Strays'
  BY <1>1, <1>2, <1>6, <1>7, RecordsKept
<1>10. Ordered'
  BY <1>2, <1>4, <1>6, <1>7 DEF IInv, Ordered
<1>11. Backed'
  BY <1>2, <1>6 DEF IInv, Backed, Stored
<1>12. Stopped'
  BY <1>2, <1>6, <1>7 DEF IInv, Stopped
<1> QED
  BY <1>3, <1>8, <1>9, <1>10, <1>11, <1>12 DEF IInv

LEMMA BackupPartKeeps == ASSUME IInv, BackupPart PROVE IInv'
<1> DEFINE new == Snapshot(job.run, job.part)
<1>1. Create
  BY DEF Create
<1>2. /\ job.pc = "part" /\ job \in JobRecord /\ Creating
      /\ UNCHANGED <<records, repositories, stack, unsettled, excused>>
      /\ UNCHANGED <<orphans, forgotten>>
  BY <1>1, CreateFrame DEF BackupPart, historyVars
<1>3. Locks' /\ Forgot'
  BY <1>1, CreateFrame
<1>4. /\ job.part \in Parts /\ Parts \subseteq Nat /\ job.saved = 1..job.part - 1
      /\ job.saved \cup {job.part} = 1..job.part
  <2>1. job.part \in Parts /\ job.saved = 1..job.part - 1
    BY <1>2 DEF IInv, Ordered, JobRecord
  <2>2. job.part \in Nat /\ job.part >= 1 /\ Parts \subseteq Nat
    BY <2>1, BackupAssumption DEF Parts
  <2> QED
    BY <2>1, <2>2
<1>5. new.run = job.run /\ new.part = job.part
      /\ new \in [place : Places, run : RunIds, part : Parts]
  BY <1>2, <1>4 DEF Snapshot, IInv, TypeOK, JobRecord
<1> HIDE DEF new
<1>6. /\ job' \in JobRecord /\ job'.run = job.run /\ job'.restart = job.restart
      /\ snapshots \subseteq snapshots' /\ snapshots' \subseteq snapshots \cup {new}
      /\ \/ /\ job'.pc = "save" /\ job'.part = job.part
            /\ job'.saved = job.saved \cup {job.part} /\ new \in snapshots'
         \/ /\ job'.pc \in {"restart", "final"} /\ job'.failed /\ job'.saved = job.saved
            /\ job'.pc = "restart" <=> job.restart
  <2>1. CASE Leave(TRUE) /\ snapshots' \in {snapshots, snapshots \cup {new}}
    BY <1>2, <2>1, LeaveGoes
  <2>2. CASE /\ snapshots' = snapshots \cup {new}
             /\ job' = [job EXCEPT !.pc = "save", !.saved = @ \cup {job.part}]
    <3>1. job.saved \cup {job.part} \subseteq Parts
      BY <1>2, <1>4 DEF JobRecord
    <3> QED
      BY <1>2, <2>2, <3>1 DEF JobRecord, CreatePCs
  <2> QED
    BY <2>1, <2>2 DEF BackupPart, new
<1>7. job'.pc \in CreatePCs \ {"record"} /\ Creating'
  BY <1>6 DEF CreatePCs, Creating
<1>8. TypeOK'
  BY <1>1, <1>2, <1>5, <1>6, CreateType DEF IInv, TypeOK
<1>9. Owned' /\ Strays'
  BY <1>1, <1>2, <1>6, <1>7, RecordsKept
<1>10. Ordered'
  <2>1. records[job.run].saved \subseteq job'.saved
    BY <1>2, <1>6 DEF IInv, Ordered
  <2>2. job'.pc = "save" => job'.saved = 1..job'.part
    BY <1>4, <1>6
  <2> QED
    BY <1>2, <1>6, <1>7, <2>1, <2>2 DEF IInv, Ordered
<1>11. \A r, i : Stored(r, i) => Stored(r, i)'
  BY <1>6 DEF Stored
<1>12. Backed'
  <2>1. job'.pc = "save" => Stored(job.run, job.part)'
    BY <1>5, <1>6 DEF Stored
  <2>2. job.run \notin forgotten => \A i \in job'.saved : Stored(job.run, i)'
    BY <1>2, <1>6, <1>11, <2>1 DEF IInv, Backed
  <2>3. \A r \in RunIds \ forgotten : \A i \in records[r].saved : Stored(r, i)'
    BY <1>11 DEF IInv, Backed
  <2> QED
    BY <1>2, <1>6, <2>2, <2>3 DEF IInv, Backed
<1>13. Stopped'
  BY <1>2, <1>6, <1>7 DEF IInv, Stopped
<1> QED
  BY <1>3, <1>8, <1>9, <1>10, <1>12, <1>13 DEF IInv

LEMMA SavePartKeeps == ASSUME IInv, SavePart PROVE IInv'
<1> DEFINE r == job.run
<1>1. Create
  BY DEF Create
<1>2. /\ job.pc = "save" /\ job \in JobRecord /\ Creating /\ r \in RunIds
      /\ UNCHANGED <<repositories, snapshots, stack, unsettled, excused>>
      /\ UNCHANGED <<up, born, orphans, forgotten>>
  BY <1>1, CreateFrame DEF SavePart, historyVars
<1>3. Locks' /\ Forgot'
  BY <1>1, CreateFrame
<1>4. job.part \in Parts /\ job.saved = 1..job.part /\ job.saved \subseteq Parts
  BY <1>2 DEF IInv, Ordered, JobRecord
<1>5. records[r].status = "running" /\ records[r] \in Record
  <2>1. records[r].status = "running"
    BY <1>2 DEF IInv, Owned
  <2> QED
    BY <1>2, <2>1, Shapes DEF IInv, NoRecord
<1>6. /\ job' \in JobRecord /\ job'.run = r /\ job'.restart = job.restart
      /\ job'.saved = job.saved
      /\ \/ job'.pc = "part" /\ job'.part = job.part + 1
         \/ /\ job'.pc \in {"restart", "final", "verify"}
            /\ job'.pc = "restart" <=> job.restart
            /\ ~job'.failed \/ job'.pc = "verify" => job.saved = Parts
  <2>1. CASE Leave(TRUE)
    BY <1>2, <2>1, LeaveGoes
  <2>2. CASE job.part = LastPart /\ Leave(FALSE)
    BY <1>2, <1>4, <2>2, LeaveGoes DEF Parts
  <2>3. CASE job.part # LastPart /\ job' = [job EXCEPT !.pc = "part", !.part = @ + 1]
    <3>1. job.part + 1 \in Parts
      BY <1>4, <2>3, BackupAssumption DEF Parts
    <3> QED
      BY <1>2, <2>3, <3>1 DEF JobRecord, CreatePCs
  <2> QED
    BY <2>1, <2>2, <2>3 DEF SavePart
<1>7. job'.pc \in CreatePCs \ {"record"} /\ Creating'
  BY <1>6 DEF CreatePCs, Creating
<1>8. /\ records' \in [RunIds -> Record \cup {NoRecord}]
      /\ records'[r].status = "running" /\ records'[r].saved \in {records[r].saved, job.saved}
      /\ \A s \in RunIds : s # r => records'[s] = records[s]
  <2>1. CASE records' = records
    BY <1>5, <2>1 DEF IInv, TypeOK
  <2>2. CASE records' = [records EXCEPT ![r].saved = job.saved]
    <3>1. records' = [records EXCEPT ![r] = [records[r] EXCEPT !.saved = job.saved]]
      BY <2>2
    <3>2. /\ [records[r] EXCEPT !.saved = job.saved] \in Record
          /\ [records[r] EXCEPT !.saved = job.saved].status = "running"
          /\ [records[r] EXCEPT !.saved = job.saved].saved = job.saved
      BY <1>4, <1>5 DEF Record
    <3> QED
      BY <1>2, <3>1, <3>2 DEF IInv, TypeOK
  <2> QED
    BY <2>1, <2>2 DEF SavePart
<1>9. TypeOK'
  BY <1>1, <1>2, <1>6, <1>8, CreateType DEF IInv, TypeOK
<1>10. Owned'
  BY <1>2, <1>5, <1>6, <1>7, <1>8 DEF IInv, Owned, RunningHasOwner, NoRecord
<1>11. Ordered'
  <2>1. records'[r].saved \subseteq job'.saved
    BY <1>2, <1>6, <1>8 DEF IInv, Ordered
  <2>2. job'.pc = "part" => job'.saved = 1..job'.part - 1
    BY <1>4, <1>6 DEF Parts
  <2>3. \A s \in RunIds : records'[s].status = "completed" => records'[s].saved = Parts
    BY <1>8 DEF IInv, Ordered
  <2> QED
    BY <1>6, <1>7, <2>1, <2>2, <2>3 DEF Ordered
<1>12. Backed'
  BY <1>2, <1>6, <1>8 DEF IInv, Backed, Stored
<1>13. Strays'
  BY <1>2, <1>6, <1>7, <1>8 DEF IInv, Strays, TypeOK
<1>14. Stopped'
  BY <1>2, <1>6, <1>7 DEF IInv, Stopped
<1> QED
  BY <1>3, <1>9, <1>10, <1>11, <1>12, <1>13, <1>14 DEF IInv

LEMMA RestartStackKeeps == ASSUME IInv, RestartStack PROVE IInv'
<1>1. Create
  BY DEF Create
<1>2. /\ job.pc = "restart" /\ job \in JobRecord /\ Creating
      /\ UNCHANGED <<records, repositories, snapshots, unsettled>>
      /\ UNCHANGED <<orphans, forgotten>>
  BY <1>1, CreateFrame DEF RestartStack, storeVars
<1>3. Locks' /\ Forgot'
  BY <1>1, CreateFrame
<1>4. /\ stack' \in {"running", "stopped"} /\ excused' \in BOOLEAN
      /\ stack' = "stopped" => excused'
  BY DEF RestartStack, IInv, TypeOK
<1>5. /\ job' \in JobRecord /\ job'.saved = job.saved /\ job'.run = job.run
      /\ job'.failed = job.failed
      /\ job'.pc = IF job.failed THEN "final" ELSE "verify"
  <2>1. PICK pc \in {"final", "verify"} :
            job' = [job EXCEPT !.pc = pc] /\ pc = IF job.failed THEN "final" ELSE "verify"
    BY DEF RestartStack
  <2> QED
    BY <1>2, <2>1 DEF JobRecord, CreatePCs
<1>6. job'.pc \in CreatePCs \ {"record"} /\ Creating'
  BY <1>5 DEF CreatePCs, Creating
<1>7. TypeOK'
  BY <1>1, <1>2, <1>4, <1>5, CreateType DEF IInv, TypeOK
<1>8. Owned' /\ Strays'
  BY <1>1, <1>2, <1>5, <1>6, RecordsKept
<1>9. Ordered'
  BY <1>2, <1>5, <1>6 DEF IInv, Ordered
<1>10. Backed'
  BY <1>2, <1>5 DEF IInv, Backed, Stored
<1>11. Stopped'
  BY <1>4 DEF Stopped
<1> QED
  BY <1>3, <1>7, <1>8, <1>9, <1>10, <1>11 DEF IInv

LEMMA VerifyRepositoryKeeps == ASSUME IInv, VerifyRepository PROVE IInv'
<1>1. Create
  BY DEF Create
<1>2. /\ job.pc = "verify" /\ job \in JobRecord /\ Creating
      /\ UNCHANGED <<records, repositories, snapshots, stack, unsettled, excused>>
      /\ UNCHANGED <<orphans, forgotten>>
  BY <1>1, CreateFrame DEF VerifyRepository, storeVars, historyVars
<1>3. Locks' /\ Forgot'
  BY <1>1, CreateFrame
<1>4. /\ job' \in JobRecord /\ job'.saved = job.saved /\ job'.run = job.run
      /\ job'.pc = "final"
  BY <1>2 DEF VerifyRepository, JobRecord, CreatePCs
<1>5. job'.pc \in CreatePCs \ {"record"} /\ Creating'
  BY <1>4 DEF CreatePCs, Creating
<1>6. TypeOK'
  BY <1>1, <1>2, <1>4, CreateType DEF IInv, TypeOK
<1>7. Owned' /\ Strays'
  BY <1>1, <1>2, <1>4, <1>5, RecordsKept
<1>8. Ordered'
  BY <1>2, <1>4, <1>5 DEF IInv, Ordered
<1>9. Backed'
  BY <1>2, <1>4 DEF IInv, Backed, Stored
<1>10. Stopped'
  BY <1>2 DEF IInv, Stopped
<1> QED
  BY <1>3, <1>6, <1>7, <1>8, <1>9, <1>10 DEF IInv

LEMMA RecordOutcomeKeeps == ASSUME IInv, RecordOutcome PROVE IInv'
<1> DEFINE r == job.run
           outcome == [status |-> IF job.failed THEN "failed" ELSE "completed",
                       saved |-> job.saved]
<1>1. Create
  BY DEF Create
<1>2. /\ job.pc = "final" /\ job \in JobRecord /\ Creating /\ r \in RunIds
      /\ UNCHANGED <<repositories, snapshots, stack, excused>>
      /\ UNCHANGED <<up, born, orphans, forgotten>>
      /\ job' = Idle
  BY <1>1, CreateFrame DEF RecordOutcome, EndJob
<1>3. Locks' /\ Forgot'
  BY <1>1, CreateFrame
<1>4. ~Creating' /\ job'.pc = "idle" /\ r \in born
  BY <1>2 DEF Creating, CreatePCs, Idle, IInv, Owned
<1>5. /\ outcome.status # "running" /\ outcome.saved = job.saved /\ outcome \in Record
      /\ outcome.status = "completed" => job.saved = Parts
  BY <1>2 DEF Record, Statuses, JobRecord, IInv, Ordered
<1> HIDE DEF outcome
<1>6. \/ records' = [records EXCEPT ![r] = outcome] /\ unsettled' = unsettled
      \/ records' = records /\ unsettled' = unsettled \cup {r}
  BY DEF RecordOutcome, outcome
<1>7. /\ records' \in [RunIds -> Record \cup {NoRecord}] /\ unsettled' \subseteq RunIds
      /\ records'[r] \in {outcome, records[r]}
      /\ records'[r] = outcome \/ r \in unsettled'
      /\ \A s \in RunIds : s # r => records'[s] = records[s] /\ (s \in unsettled => s \in unsettled')
  BY <1>2, <1>5, <1>6 DEF IInv, TypeOK
<1>8. TypeOK'
  BY <1>1, <1>2, <1>7, CreateType DEF IInv, TypeOK
<1>9. Owned'
  BY <1>2, <1>4, <1>5, <1>7 DEF IInv, Owned, RunningHasOwner
<1>10. Ordered'
  BY <1>4, <1>5, <1>7 DEF IInv, Ordered
<1>11. Backed'
  BY <1>2, <1>4, <1>5, <1>7 DEF IInv, Backed, Stored
<1>12. Strays'
  BY <1>2, <1>4, <1>7 DEF IInv, Strays, TypeOK
<1>13. Stopped'
  BY <1>2 DEF IInv, Stopped
<1> QED
  BY <1>3, <1>8, <1>9, <1>10, <1>11, <1>12, <1>13 DEF IInv

--------------------------------------------------------------------------------
\* The steps of the other calls.

LEMMA BeginJobKeeps ==
    ASSUME IInv, NEW r \in RunIds, NEW stop \in BOOLEAN,
           BeginCreate(r, stop) \/ BeginRestore(r)
    PROVE  IInv'
<1>1. /\ up /\ job = Idle /\ writer = Nobody /\ readers' = readers \cup {Job} /\ writer' = writer
      /\ UNCHANGED <<records, repositories, snapshots, place, up, deletes, browses, orphans>>
      /\ UNCHANGED <<stack, forgotten, unsettled, excused>>
  BY DEF BeginCreate, BeginRestore, TryRLock, storeVars, requestVars, historyVars
<1>2. /\ job' \in JobRecord /\ job'.run = r /\ job'.saved = {} /\ job'.part = 1
      /\ \/ job'.pc = "record" /\ r \notin born /\ born' = born \cup {r}
         \/ job'.pc = "restore" /\ born' = born
  <2>1. 1 \in Parts
    BY BackupAssumption DEF Parts
  <2>2. PICK pc \in {"record", "restore"}, s \in BOOLEAN : job' = Begun(pc, r, s)
    BY DEF BeginCreate, BeginRestore
  <2>3. job' \in JobRecord /\ job'.run = r /\ job'.saved = {} /\ job'.part = 1 /\ job'.pc = pc
    BY <2>1, <2>2 DEF Begun, JobRecord, CreatePCs
  <2>4. \/ job'.pc = "record" /\ r \notin born /\ born' = born \cup {r}
        \/ job'.pc = "restore" /\ born' = born
    BY DEF BeginCreate, BeginRestore, Begun, historyVars
  <2> QED
    BY <2>3, <2>4
<1>3. ~Creating /\ (Creating' <=> job'.pc = "record")
  BY <1>1, <1>2 DEF Creating, CreatePCs, Idle
<1>4. job' # Idle /\ \A d \in Deletes : deletes[d] = Idle
  BY <1>1, <1>2, BackupAssumption DEF Idle, IInv, Locks
<1>5. TypeOK'
  BY <1>1, <1>2 DEF IInv, TypeOK
<1>6. Locks'
  BY <1>1, <1>4 DEF IInv, Locks
<1>7. Owned'
  BY <1>1, <1>2, <1>3 DEF IInv, Owned, RunningHasOwner
<1>8. Ordered'
  <2>1. job'.pc = "record" => records[r].saved = {}
    BY <1>2 DEF IInv, Owned, NoRecord
  <2> QED
    BY <1>1, <1>2, <1>3, <2>1 DEF IInv, Ordered
<1>9. Backed'
  BY <1>1, <1>2 DEF IInv, Backed, Stored
<1>10. Strays'
  BY <1>1, <1>2, <1>3 DEF IInv, Strays
<1>11. Forgot'
  BY <1>1, <1>4 DEF Forgot, Idle
<1>12. Stopped'
  BY <1>1, <1>3 DEF IInv, Stopped
<1> QED
  BY <1>5, <1>6, <1>7, <1>8, <1>9, <1>10, <1>11, <1>12 DEF IInv

LEMMA EndRestoreKeeps == ASSUME IInv, EndRestore PROVE IInv'
<1>1. /\ Restoring /\ job' = Idle /\ readers' = readers \ {Job} /\ writer' = writer
      /\ UNCHANGED <<records, repositories, snapshots, place, up, deletes, browses, orphans>>
      /\ UNCHANGED <<stack, born, forgotten, unsettled, excused>>
  BY DEF EndRestore, EndJob, RUnlock, storeVars, requestVars, historyVars
<1>2. ~Creating /\ ~Creating' /\ job'.pc = "idle"
  BY <1>1 DEF Restoring, Creating, CreatePCs, Idle
<1>3. TypeOK'
  BY <1>1 DEF IInv, TypeOK
<1>4. Locks'
  BY <1>1, BackupAssumption DEF IInv, Locks
<1>5. Owned'
  BY <1>1, <1>2 DEF IInv, Owned, RunningHasOwner
<1>6. Ordered'
  BY <1>1, <1>2 DEF IInv, Ordered
<1>7. Backed' /\ Strays'
  BY <1>1, <1>2 DEF IInv, Backed, Strays, Stored
<1>8. Forgot'
  BY <1>1 DEF IInv, Forgot, Gone, Forgettable, Named
<1>9. Stopped'
  BY <1>1, <1>2 DEF IInv, Stopped
<1> QED
  BY <1>3, <1>4, <1>5, <1>6, <1>7, <1>8, <1>9 DEF IInv

\* A step of a request leaves the create in progress alone.
LEMMA RequestFrame ==
    ASSUME IInv,
           UNCHANGED <<records, place, up, job, orphans, stack, born, unsettled, excused>>
    PROVE  Owned' /\ Ordered' /\ Strays' /\ Stopped'
<1>1. Creating' <=> Creating
  BY DEF Creating
<1>2. Owned'
  BY <1>1 DEF IInv, Owned, RunningHasOwner
<1>3. Ordered'
  BY <1>1 DEF IInv, Ordered
<1>4. Strays'
  BY <1>1 DEF IInv, Strays
<1>5. Stopped'
  BY <1>1 DEF IInv, Stopped
<1> QED
  BY <1>2, <1>3, <1>4, <1>5

LEMMA BrowseKeeps ==
    ASSUME IInv, NEW w \in Browses, NEW r \in RunIds, BeginBrowse(w, r) \/ EndBrowse(w)
    PROVE  IInv'
<1>1. /\ UNCHANGED <<records, repositories, snapshots, place, up, job, deletes, orphans>>
      /\ UNCHANGED <<stack, born, forgotten, unsettled, excused>>
  BY DEF BeginBrowse, EndBrowse, storeVars, historyVars
<1>2. Owned' /\ Ordered' /\ Strays' /\ Stopped'
  BY <1>1, RequestFrame
<1>3. /\ browses' = [browses EXCEPT ![w] = browses'[w]]
      /\ \/ browses'[w] = [pc |-> "read", run |-> r] /\ writer = Nobody
               /\ readers' = readers \cup {w} /\ writer' = writer
         \/ browses'[w] = Idle /\ readers' = readers \ {w} /\ writer' = writer
  BY DEF BeginBrowse, EndBrowse, TryRLock, RUnlock, IInv, TypeOK
<1>4. TypeOK'
  <2>1. browses'[w] \in [pc : {"read"}, run : RunIds] \cup {Idle}
    BY <1>3
  <2>2. browses' \in [Browses -> [pc : {"read"}, run : RunIds] \cup {Idle}]
    BY <1>3, <2>1 DEF IInv, TypeOK
  <2> QED
    BY <1>1, <1>3, <2>2 DEF IInv, TypeOK
<1>5. Locks'
  <2>1. \A v \in Browses : v # w => browses'[v] = browses[v]
    BY <1>3 DEF IInv, TypeOK
  <2> QED
    BY <1>1, <1>3, <2>1, BackupAssumption DEF IInv, Locks
<1>6. Backed' /\ Forgot'
  BY <1>1 DEF IInv, Backed, Stored, Forgot, Gone, Forgettable, Named, Creating
<1> QED
  BY <1>2, <1>4, <1>5, <1>6 DEF IInv

LEMMA BeginDeleteKeeps ==
    ASSUME IInv, NEW d \in Deletes, NEW r \in RunIds, BeginDelete(d, r)
    PROVE  IInv'
<1> DEFINE begun == [pc |-> IF records[r].saved = {} THEN "remove" ELSE "forget", run |-> r]
<1>1. /\ UNCHANGED <<records, repositories, snapshots, place, up, job, browses, orphans>>
      /\ UNCHANGED <<stack, born, forgotten, unsettled, excused>>
      /\ readers = {} /\ writer = Nobody /\ readers' = {} /\ writer' = d
      /\ deletes' = [deletes EXCEPT ![d] = begun]
  BY DEF BeginDelete, TryLock, storeVars, historyVars
<1>2. begun \in [pc : {"forget", "remove"}, run : RunIds] /\ begun.run = r
      /\ (begun.pc = "remove" => records[r].saved = {})
  OBVIOUS
<1> HIDE DEF begun
<1>3. Owned' /\ Ordered' /\ Strays' /\ Stopped'
  BY <1>1, RequestFrame
<1>4. deletes' \in [Deletes -> [pc : {"forget", "remove"}, run : RunIds] \cup {Idle}]
  BY <1>1, <1>2 DEF IInv, TypeOK
<1>5. TypeOK'
  BY <1>1, <1>4 DEF IInv, TypeOK
<1>6. deletes'[d] = begun /\ \A e \in Deletes : e # d => deletes'[e] = Idle
  BY <1>1, BackupAssumption DEF IInv, Locks, TypeOK
<1>7. Locks'
  BY <1>1, <1>6 DEF IInv, Locks
<1>8. Backed'
  BY <1>1 DEF IInv, Backed, Stored, Creating
<1>9. records[r].saved = {} => Gone(r)'
  BY <1>1 DEF Gone, Forgettable, Named
<1>10. Forgot'
  BY <1>2, <1>6, <1>9 DEF Forgot, Idle
<1> QED
  BY <1>3, <1>5, <1>7, <1>8, <1>10 DEF IInv

\* What a delete in progress knows: nobody else uses the repository.
LEMMA DeleteAlone ==
    ASSUME IInv, NEW d \in Deletes, deletes[d].pc \in {"forget", "remove"}
    PROVE  /\ deletes[d] \in [pc : {"forget", "remove"}, run : RunIds]
           /\ writer = d /\ readers = {} /\ job = Idle
           /\ \A e \in Deletes : e # d => deletes[e] = Idle
           /\ \A w \in Browses : browses[w] = Idle
<1>1. deletes[d] # Idle /\ deletes[d] \in [pc : {"forget", "remove"}, run : RunIds]
  BY Shapes DEF IInv
<1> QED
  BY <1>1, BackupAssumption DEF IInv, Locks

\* It ends, or goes on to the record.
LEMMA DeleteType ==
    ASSUME IInv, NEW d \in Deletes, deletes[d].pc \in {"forget", "remove"},
           \/ deletes' = [deletes EXCEPT ![d] = Idle] /\ WUnlock
           \/ deletes' = [deletes EXCEPT ![d].pc = "remove"] /\ UNCHANGED lockVars,
           UNCHANGED <<repositories, place, up, job, browses, orphans, stack, born>>,
           UNCHANGED <<unsettled, excused>>,
           records' \in [RunIds -> Record \cup {NoRecord}],
           snapshots' \subseteq snapshots,
           forgotten' \in {forgotten, forgotten \cup {deletes[d].run}}
    PROVE  /\ TypeOK' /\ Locks'
           /\ \A e \in Deletes : e # d => deletes'[e] = Idle
<1>1. /\ deletes[d] \in [pc : {"forget", "remove"}, run : RunIds]
      /\ writer = d /\ readers = {} /\ job = Idle
      /\ \A e \in Deletes : e # d => deletes[e] = Idle
      /\ \A w \in Browses : browses[w] = Idle
  BY DeleteAlone
<1>2. PICK x \in [pc : {"forget", "remove"}, run : RunIds] \cup {Idle} :
          deletes' = [deletes EXCEPT ![d] = x] /\ (x = Idle \/ UNCHANGED lockVars)
  <2>1. [deletes[d] EXCEPT !.pc = "remove"] \in [pc : {"forget", "remove"}, run : RunIds]
    BY <1>1
  <2> QED
    BY <2>1
<1>3. deletes' \in [Deletes -> [pc : {"forget", "remove"}, run : RunIds] \cup {Idle}]
      /\ deletes'[d] = x /\ \A e \in Deletes : e # d => deletes'[e] = Idle
  BY <1>1, <1>2 DEF IInv, TypeOK
<1>4. readers' = {} /\ (writer' = Nobody \/ writer' = d)
  BY <1>1 DEF WUnlock, lockVars
<1>5. forgotten' \subseteq RunIds
  BY <1>1 DEF IInv, TypeOK
<1>6. TypeOK'
  BY <1>3, <1>4, <1>5 DEF IInv, TypeOK
<1>7. Locks'
  BY <1>1, <1>2, <1>3, <1>4 DEF Locks, lockVars
<1> QED
  BY <1>3, <1>6, <1>7

\* Snapshots of its run alone are lost, and then the run is one that a delete forgets.
LEMMA ForgetKeeps ==
    ASSUME IInv, NEW d \in Deletes, Forget(d) \/ ForgetFails(d)
    PROVE  IInv'
<1>1. /\ UNCHANGED <<records, repositories, place, up, job, browses, orphans>>
      /\ UNCHANGED <<stack, born, unsettled, excused>>
      /\ deletes[d].pc = "forget"
  BY DEF Forget, ForgetFails
<1>2. deletes[d] \in [pc : {"forget", "remove"}, run : RunIds] /\ job = Idle
      /\ deletes[d] # Idle
  BY <1>1, DeleteAlone DEF Idle
<1> PICK r \in RunIds : r = deletes[d].run
  BY <1>2
<1>3. PICK gone \in SUBSET Forgettable(r) :
          /\ snapshots' = snapshots \ gone
          /\ gone # {} => forgotten' = forgotten \cup {r}
          /\ forgotten' \in {forgotten, forgotten \cup {r}}
          /\ \/ /\ deletes' = [deletes EXCEPT ![d].pc = "remove"] /\ UNCHANGED lockVars
                /\ RepositoryFound /\ gone = Forgettable(r)
             \/ deletes' = [deletes EXCEPT ![d] = Idle] /\ WUnlock
  <2>1. CASE Forget(d)
    <3>1. /\ snapshots' = snapshots \ Forgettable(r) /\ forgotten' = forgotten \cup {r}
          /\ deletes' = [deletes EXCEPT ![d].pc = "remove"] /\ UNCHANGED lockVars
          /\ RepositoryFound
      BY <2>1 DEF Forget
    <3> QED
      BY <3>1
  <2>2. CASE ForgetFails(d)
    <3>1. PICK gone \in SUBSET Forgettable(r) :
              /\ snapshots' = snapshots \ gone
              /\ forgotten' = IF gone = {} THEN forgotten ELSE forgotten \cup {r}
      BY <2>2 DEF ForgetFails
    <3>2. deletes' = [deletes EXCEPT ![d] = Idle] /\ WUnlock
      BY <2>2 DEF ForgetFails
    <3> QED
      BY <3>1, <3>2
  <2> QED
    BY <2>1, <2>2
<1>4. snapshots' \subseteq snapshots
      /\ \A s \in snapshots : s \notin snapshots' => s.run = r /\ r \in forgotten'
  BY <1>3 DEF Forgettable, Named
<1>5. TypeOK' /\ Locks' /\ \A e \in Deletes : e # d => deletes'[e] = Idle
  <2>1. records' \in [RunIds -> Record \cup {NoRecord}]
    BY <1>1 DEF IInv, TypeOK
  <2> QED
    BY <1>1, <1>3, <1>4, <2>1, DeleteType
<1>6. Owned' /\ Ordered' /\ Strays' /\ Stopped'
  BY <1>1, RequestFrame
<1>7. forgotten \subseteq forgotten'
  BY <1>3
<1>8. Backed'
  <2>1. ASSUME NEW s \in RunIds \ forgotten', NEW i \in records'[s].saved
        PROVE  Stored(s, i)'
    <3>1. PICK t \in snapshots : t.run = s /\ t.part = i
      BY <1>1, <1>7, <2>1 DEF IInv, Backed, Stored
    <3>2. t \in snapshots'
      BY <1>4, <2>1, <3>1
    <3> QED
      BY <3>1, <3>2 DEF Stored
  <2>2. ~Creating'
    BY <1>1, <1>2 DEF Creating, CreatePCs, Idle
  <2> QED
    BY <1>1, <1>7, <2>1, <2>2 DEF IInv, Backed
<1>9. Forgot'
  <2>1. CASE deletes' = [deletes EXCEPT ![d] = Idle]
    <3>1. deletes'[d] = Idle
      BY <2>1 DEF IInv, TypeOK
    <3> QED
      BY <1>5, <3>1 DEF Forgot, Idle
  <2>2. CASE /\ deletes' = [deletes EXCEPT ![d].pc = "remove"]
             /\ RepositoryFound /\ snapshots' = snapshots \ Forgettable(r)
    <3>1. deletes'[d].run = r
      BY <1>2, <2>2 DEF IInv, TypeOK
    <3>2. Gone(r)'
      <4>1. Forgettable(r)' = { s \in Named(r)' : s.place = place }
        BY <1>1 DEF Forgettable
      <4>2. \A s \in Named(r)' : s \in Named(r) /\ s \in snapshots'
        BY <1>1, <1>4 DEF Named
      <4>3. Forgettable(r)' = {}
        BY <2>2, <4>1, <4>2 DEF Forgettable
      <4> QED
        BY <1>1, <2>2, <4>3 DEF Gone, RepositoryFound
    <3> QED
      BY <1>5, <3>1, <3>2 DEF Forgot, Idle
  <2> QED
    BY <1>3, <2>1, <2>2
<1> QED
  BY <1>5, <1>6, <1>8, <1>9 DEF IInv

LEMMA RemoveKeeps ==
    ASSUME IInv, NEW d \in Deletes, RemoveRecord(d) \/ RemoveFails(d)
    PROVE  IInv'
<1> DEFINE r == deletes[d].run
<1>1. /\ UNCHANGED <<repositories, snapshots, place, up, job, browses, orphans>>
      /\ UNCHANGED <<stack, born, forgotten, unsettled, excused>>
      /\ deletes[d].pc = "remove" /\ deletes' = [deletes EXCEPT ![d] = Idle] /\ WUnlock
      /\ records' = records \/ records' = [records EXCEPT ![r] = NoRecord]
  BY DEF RemoveRecord, RemoveFails, storeVars, historyVars
<1>2. deletes[d] \in [pc : {"forget", "remove"}, run : RunIds] /\ job = Idle /\ r \in RunIds
  BY <1>1, DeleteAlone
<1> HIDE DEF r
<1>3. /\ records' \in [RunIds -> Record \cup {NoRecord}]
      /\ \A s \in RunIds : records'[s] \in {records[s], NoRecord}
      /\ NoRecord.status = "none" /\ NoRecord.saved = {}
  BY <1>1 DEF IInv, TypeOK, NoRecord
<1>4. TypeOK' /\ Locks' /\ \A e \in Deletes : e # d => deletes'[e] = Idle
  BY <1>1, <1>3, DeleteType
<1>5. ~Creating /\ ~Creating' /\ job.pc = "idle"
  BY <1>1, <1>2 DEF Creating, CreatePCs, Idle
<1>6. Owned'
  BY <1>1, <1>3, <1>5 DEF IInv, Owned, RunningHasOwner
<1>7. Ordered'
  BY <1>1, <1>3, <1>5 DEF IInv, Ordered
<1>8. Backed'
  BY <1>1, <1>3, <1>5 DEF IInv, Backed, Stored
<1>9. Strays'
  BY <1>1, <1>3, <1>5 DEF IInv, Strays, TypeOK
<1>10. Forgot'
  <2>1. deletes'[d] = Idle
    BY <1>1 DEF IInv, TypeOK
  <2> QED
    BY <1>4, <2>1 DEF Forgot, Idle
<1>11. Stopped'
  BY <1>1, <1>5 DEF IInv, Stopped
<1> QED
  BY <1>4, <1>6, <1>7, <1>8, <1>9, <1>10, <1>11 DEF IInv

--------------------------------------------------------------------------------
\* What happens around the agent.

LEMMA CrashKeeps == ASSUME IInv, Crash PROVE IInv'
<1>1. /\ UNCHANGED <<records, repositories, snapshots, place, stack, born, unsettled>>
      /\ up' = FALSE /\ job' = Idle /\ readers' = {} /\ writer' = Nobody
      /\ deletes' = [d \in Deletes |-> Idle] /\ browses' = [w \in Browses |-> Idle]
      /\ forgotten' = forgotten \cup Forgetting
      /\ excused' = (excused \/ Creating)
  BY DEF Crash, storeVars
<1>2. ~Creating' /\ job'.pc = "idle" /\ Idle.pc = "idle"
  BY <1>1 DEF Creating, CreatePCs, Idle
<1>3. Forgetting \subseteq RunIds
  BY Shapes DEF IInv, Forgetting
<1>4. \A o \in CreateHelper :
          /\ o \in [does : {"init", "backup", "forget"}, run : RunIds, parts : SUBSET Parts]
          /\ o.does # "forget"
          /\ o.does = "backup" => Creating /\ job.pc = "part" /\ o.run = job.run /\ o.parts = {job.part}
  <2>1. job.pc \in {"part", "prepare"} => job \in JobRecord /\ Creating
    BY Shapes DEF IInv, Creating, CreatePCs
  <2>2. CASE job.pc = "part"
    <3>1. CreateHelper = {[does |-> "backup", run |-> job.run, parts |-> {job.part}]}
      BY <2>2 DEF CreateHelper
    <3> QED
      BY <2>1, <2>2, <3>1 DEF JobRecord
  <2>3. CASE job.pc = "prepare" /\ ~RepositoryFound /\ ~HasRecordedSnapshots
    <3>1. CreateHelper = {[does |-> "init", run |-> job.run, parts |-> {}]}
      BY <2>3 DEF CreateHelper
    <3> QED
      BY <2>1, <2>3, <3>1 DEF JobRecord
  <2>4. CASE job.pc # "part" /\ ~(job.pc = "prepare" /\ ~RepositoryFound /\ ~HasRecordedSnapshots)
    <3>1. CreateHelper = {}
      BY <2>4 DEF CreateHelper
    <3> QED
      BY <3>1
  <2> QED
    BY <2>2, <2>3, <2>4
<1>5. \A o \in orphans' :
          \/ o \in orphans
          \/ o \in CreateHelper
          \/ \E r \in Forgetting : o = [does |-> "forget", run |-> r, parts |-> records[r].saved]
  BY DEF Crash
<1>6. orphans' \subseteq [does : {"init", "backup", "forget"}, run : RunIds, parts : SUBSET Parts]
  <2>1. \A r \in Forgetting : records[r].saved \in SUBSET Parts
    BY <1>3, Shapes DEF IInv
  <2> QED
    BY <1>3, <1>4, <1>5, <2>1 DEF IInv, TypeOK
<1>7. TypeOK'
  <2>1. job' \in JobRecord \cup {Idle} /\ excused' \in BOOLEAN
    BY <1>1 DEF IInv, TypeOK
  <2>2. /\ deletes' \in [Deletes -> [pc : {"forget", "remove"}, run : RunIds] \cup {Idle}]
        /\ browses' \in [Browses -> [pc : {"read"}, run : RunIds] \cup {Idle}]
    BY <1>1
  <2> QED
    BY <1>1, <1>3, <1>6, <2>1, <2>2 DEF IInv, TypeOK
<1>8. Locks'
  BY <1>1 DEF Locks
<1>9. Owned'
  BY <1>1, <1>2 DEF IInv, Owned, RunningHasOwner
<1>10. Ordered'
  BY <1>1, <1>2 DEF IInv, Ordered
<1>11. Backed'
  <2>1. \A o \in orphans' : o.does = "forget" => o.run \in forgotten'
    BY <1>1, <1>4, <1>5 DEF IInv, Backed
  <2> QED
    BY <1>1, <1>2, <2>1 DEF IInv, Backed, Stored
<1>12. Strays'
  <2>1. Creating /\ job.pc = "part" =>
            job.run \in born /\ {job.part} \cap records[job.run].saved = {}
    <3>1. SUFFICES ASSUME Creating, job.pc = "part"
                   PROVE  job.run \in born /\ job.part \notin records[job.run].saved
      OBVIOUS
    <3>2. records[job.run].saved \subseteq 1..job.part - 1 /\ job.run \in born
      BY <3>1 DEF IInv, Owned, Ordered
    <3>3. job.part \in Nat
      BY <3>1, Shapes, BackupAssumption DEF IInv, JobRecord, Parts
    <3> QED
      BY <3>2, <3>3
  <2>2. ASSUME NEW o \in orphans', o.does = "backup"
        PROVE  o.run \in born /\ o.parts \cap records[o.run].saved = {}
    <3>1. CASE o \in orphans
      BY <2>2, <3>1 DEF IInv, Strays
    <3>2. CASE o \in CreateHelper
      BY <1>4, <2>1, <2>2, <3>2
    <3> QED
      BY <1>5, <2>2, <3>1, <3>2
  <2> QED
    BY <1>1, <1>2, <2>2 DEF Strays
<1>13. Forgot'
  BY <1>1, <1>2 DEF Forgot
<1>14. Stopped'
  BY <1>1, <1>2 DEF IInv, Stopped
<1> QED
  BY <1>7, <1>8, <1>9, <1>10, <1>11, <1>12, <1>13, <1>14 DEF IInv

LEMMA OrphanEndsKeeps == ASSUME IInv, NEW o \in orphans, OrphanEnds(o) PROVE IInv'
<1>1. /\ UNCHANGED <<records, place, up, job, deletes, browses, readers, writer, stack>>
      /\ UNCHANGED <<born, forgotten, unsettled, excused>>
      /\ orphans' = orphans \ {o}
  BY DEF OrphanEnds, requestVars, lockVars, historyVars
<1>2. o \in [does : {"init", "backup", "forget"}, run : RunIds, parts : SUBSET Parts]
      /\ place \in Places
  BY DEF IInv, TypeOK
<1>3. /\ repositories \subseteq repositories' /\ repositories' \subseteq repositories \cup {place}
      /\ \/ snapshots' = snapshots
         \/ o.does = "backup" /\ snapshots' = snapshots \cup Target(o)
         \/ o.does = "forget" /\ snapshots' = snapshots \ Target(o)
  BY DEF OrphanEnds
<1>4. \A s \in Target(o) :
          /\ s \in [place : Places, run : RunIds, part : Parts]
          /\ s.run = o.run /\ s.part \in o.parts
  BY <1>2 DEF Target
<1> HIDE DEF Target
<1>5. TypeOK'
  BY <1>1, <1>2, <1>3, <1>4 DEF IInv, TypeOK
<1>6. Creating' <=> Creating
  BY <1>1 DEF Creating
<1>7. Locks'
  BY <1>1 DEF IInv, Locks
<1>8. Owned'
  BY <1>1, <1>6 DEF IInv, Owned, RunningHasOwner
<1>9. Ordered'
  BY <1>1, <1>6 DEF IInv, Ordered
<1>10. Strays'
  BY <1>1, <1>6 DEF IInv, Strays
<1>11. Stopped'
  BY <1>1, <1>6 DEF IInv, Stopped
<1>12. \A s \in snapshots : s \notin snapshots' => s.run \in forgotten
  BY <1>3, <1>4 DEF IInv, Backed
<1>13. Backed'
  <2>1. \A r, i : r \notin forgotten /\ Stored(r, i) => Stored(r, i)'
    BY <1>12 DEF Stored
  <2> QED
    BY <1>1, <1>6, <2>1 DEF IInv, Backed
<1>14. Forgot'
  <2>1. ASSUME NEW r \in RunIds, Gone(r) PROVE Gone(r)'
    <3>1. \A s \in snapshots' :
              s \notin snapshots => ~(s.run = r /\ s.part \in records[r].saved)
      BY <1>3, <1>4 DEF IInv, Strays
    <3>2. Forgettable(r)' \subseteq Forgettable(r)
      BY <1>1, <3>1 DEF Forgettable, Named
    <3> QED
      BY <1>1, <1>3, <2>1, <3>2 DEF Gone
  <2>2. \A d \in Deletes : deletes[d].pc = "remove" => deletes[d].run \in RunIds
    BY Shapes DEF IInv
  <2>3. ASSUME NEW d \in Deletes, deletes'[d].pc = "remove" PROVE Gone(deletes[d].run)'
    <3> PICK r \in RunIds : r = deletes[d].run
      BY <1>1, <2>2, <2>3
    <3>1. Gone(r)'
      BY <1>1, <2>1, <2>3 DEF IInv, Forgot
    <3> QED
      BY <1>1, <3>1
  <2> QED
    BY <1>1, <2>3 DEF Forgot
<1> QED
  BY <1>5, <1>7, <1>8, <1>9, <1>10, <1>11, <1>13, <1>14 DEF IInv

\* The hygiene at the start marks the runs nobody makes any more.
LEMMA StartKeeps == ASSUME IInv, Start PROVE IInv'
<1>1. /\ UNCHANGED <<repositories, snapshots, place, job, deletes, browses, readers, writer>>
      /\ UNCHANGED <<stack, born, forgotten, excused>>
      /\ ~up /\ up' = TRUE /\ orphans' \subseteq orphans
  BY DEF Start, requestVars, lockVars
<1>2. ~Creating /\ ~Creating'
  BY <1>1 DEF IInv, Owned, Creating
<1>3. PICK unwritten \in SUBSET { r \in RunIds : records[r].status = "running" } :
          /\ unsettled' = unsettled \cup unwritten
          /\ records' = [r \in RunIds |->
                 IF records[r].status = "running" /\ r \notin unwritten
                 THEN [records[r] EXCEPT !.status = "interrupted"]
                 ELSE records[r]]
  BY DEF Start
<1>4. \A r \in RunIds :
          /\ records'[r] \in Record \cup {NoRecord}
          /\ records'[r].saved = records[r].saved
          /\ records'[r] # NoRecord => records[r] # NoRecord
          /\ records'[r].status = "running" => r \in unsettled'
          /\ records'[r].status = "completed" => records[r].status = "completed"
  <2> SUFFICES ASSUME NEW r \in RunIds
               PROVE  /\ records'[r] \in Record \cup {NoRecord}
                      /\ records'[r].saved = records[r].saved
                      /\ records'[r] # NoRecord => records[r] # NoRecord
                      /\ records'[r].status = "running" => r \in unsettled'
                      /\ records'[r].status = "completed" => records[r].status = "completed"
    OBVIOUS
  <2>1. CASE records[r].status = "running" /\ r \notin unwritten
    <3>1. records'[r] = [records[r] EXCEPT !.status = "interrupted"]
      BY <1>3, <2>1
    <3>2. records[r] \in Record /\ records[r] # NoRecord
      BY <2>1, Shapes DEF IInv, NoRecord
    <3> QED
      BY <3>1, <3>2 DEF Record, Statuses
  <2>2. CASE ~(records[r].status = "running" /\ r \notin unwritten)
    <3>1. records'[r] = records[r]
      BY <1>3, <2>2
    <3> QED
      BY <1>3, <2>2, <3>1 DEF IInv, TypeOK
  <2> QED
    BY <2>1, <2>2
<1>5. records' \in [RunIds -> Record \cup {NoRecord}]
  BY <1>3, <1>4
<1>6. TypeOK'
  BY <1>1, <1>3, <1>5 DEF IInv, TypeOK
<1>7. Locks'
  BY <1>1 DEF IInv, Locks
<1>8. Owned'
  BY <1>1, <1>2, <1>4 DEF IInv, Owned, RunningHasOwner
<1>9. Ordered'
  BY <1>1, <1>2, <1>4 DEF IInv, Ordered, Creating, CreatePCs
<1>10. Backed'
  BY <1>1, <1>2, <1>4 DEF IInv, Backed, Stored
<1>11. Strays'
  BY <1>1, <1>2, <1>4 DEF IInv, Strays, TypeOK
<1>12. Forgot'
  <2>1. ASSUME NEW r \in RunIds, Gone(r) PROVE Gone(r)'
    BY <1>1, <1>4, <2>1 DEF Gone, Forgettable, Named
  <2>2. ASSUME NEW d \in Deletes, deletes'[d].pc = "remove" PROVE Gone(deletes[d].run)'
    <3> PICK r \in RunIds : r = deletes[d].run
      BY <1>1, <2>2, Shapes DEF IInv
    <3>1. Gone(r)'
      BY <1>1, <2>1, <2>2 DEF IInv, Forgot
    <3> QED
      BY <1>1, <3>1
  <2> QED
    BY <1>1, <2>2 DEF Forgot
<1>13. Stopped'
  BY <1>1, <1>2 DEF IInv, Stopped
<1> QED
  BY <1>6, <1>7, <1>8, <1>9, <1>10, <1>11, <1>12, <1>13 DEF IInv

LEMMA RemountKeeps == ASSUME IInv, Remount PROVE IInv'
<1>1. /\ UNCHANGED <<records, repositories, snapshots, up, job, deletes, browses, readers>>
      /\ UNCHANGED <<writer, orphans, stack, born, forgotten, unsettled, excused>>
      /\ place' \in Places /\ \A d \in Deletes : deletes[d] = Idle
  BY DEF Remount, storeVars, requestVars, lockVars, historyVars
<1>2. Creating' <=> Creating
  BY <1>1 DEF Creating
<1>3. TypeOK'
  BY <1>1 DEF IInv, TypeOK
<1>4. Locks' /\ Owned' /\ Stopped'
  BY <1>1, <1>2 DEF IInv, Locks, Owned, RunningHasOwner, Stopped
<1>5. Ordered' /\ Strays'
  BY <1>1, <1>2 DEF IInv, Ordered, Strays
<1>6. Backed'
  BY <1>1, <1>2 DEF IInv, Backed, Stored
<1>7. Forgot'
  BY <1>1 DEF Forgot, Idle
<1> QED
  BY <1>3, <1>4, <1>5, <1>6, <1>7 DEF IInv

LEMMA StutterKeeps == ASSUME IInv, UNCHANGED vars PROVE IInv'
<1>1. /\ UNCHANGED <<records, repositories, snapshots, place, up, job, deletes, browses>>
      /\ UNCHANGED <<readers, writer, orphans, stack, born, forgotten, unsettled, excused>>
  BY DEF vars, storeVars, requestVars, lockVars, historyVars
<1>2. Creating' <=> Creating
  BY <1>1 DEF Creating
<1>3. TypeOK'
  BY <1>1 DEF IInv, TypeOK
<1>4. Locks' /\ Owned' /\ Stopped'
  BY <1>1, <1>2 DEF IInv, Locks, Owned, RunningHasOwner, Stopped
<1>5. Ordered' /\ Strays'
  BY <1>1, <1>2 DEF IInv, Ordered, Strays
<1>6. Backed'
  BY <1>1, <1>2 DEF IInv, Backed, Stored
<1>7. Forgot'
  BY <1>1 DEF IInv, Forgot, Gone, Forgettable, Named
<1> QED
  BY <1>3, <1>4, <1>5, <1>6, <1>7 DEF IInv

LEMMA NextKeepsIInv == IInv /\ [Next]_vars => IInv'
<1> SUFFICES ASSUME IInv, [Next]_vars PROVE IInv'
  OBVIOUS
<1>1. ASSUME NEW r \in RunIds, NEW stop \in BOOLEAN, BeginCreate(r, stop) PROVE IInv'
  BY <1>1, BeginJobKeeps
<1>2. ASSUME NEW r \in RunIds, BeginRestore(r) PROVE IInv'
  BY <1>2, BeginJobKeeps
<1>3. ASSUME NEW w \in Browses, NEW r \in RunIds, BeginBrowse(w, r) PROVE IInv'
  BY <1>3, BrowseKeeps
<1>4. ASSUME NEW d \in Deletes, NEW r \in RunIds, BeginDelete(d, r) PROVE IInv'
  BY <1>4, BeginDeleteKeeps
<1>5. CASE Create
  BY <1>5, RecordRunningKeeps, StopStackKeeps, PrepareRepositoryKeeps, BackupPartKeeps,
     SavePartKeeps, RestartStackKeeps, VerifyRepositoryKeeps, RecordOutcomeKeeps DEF Create
<1>6. CASE EndRestore
  BY <1>6, EndRestoreKeeps
<1>7. ASSUME NEW w \in Browses, EndBrowse(w) PROVE IInv'
  <2>1. RunIds # {}
    BY <1>7, Shapes DEF EndBrowse, IInv
  <2> QED
    BY <1>7, <2>1, BrowseKeeps
<1>8. ASSUME NEW d \in Deletes,
             Forget(d) \/ ForgetFails(d) \/ RemoveRecord(d) \/ RemoveFails(d)
      PROVE  IInv'
  BY <1>8, ForgetKeeps, RemoveKeeps
<1>9. CASE Crash
  BY <1>9, CrashKeeps
<1>10. ASSUME NEW o \in orphans, OrphanEnds(o) PROVE IInv'
  BY <1>10, OrphanEndsKeeps
<1>11. CASE Start
  BY <1>11, StartKeeps
<1>12. CASE Remount
  BY <1>12, RemountKeeps
<1>13. CASE UNCHANGED vars
  BY <1>13, StutterKeeps
<1> QED
  BY <1>1, <1>2, <1>3, <1>4, <1>5, <1>6, <1>7, <1>8, <1>9, <1>10, <1>11, <1>12, <1>13 DEF Next

LEMMA InvariantHolds == Spec => []IInv
<1>1. IInv /\ [Next]_vars => IInv'
  BY NextKeepsIInv
<1> QED
  BY InitIInv, <1>1, PTL DEF Spec

--------------------------------------------------------------------------------
\* Every variable of the model of a stack's backups keeps its type.
THEOREM TypeCorrect == Spec => []TypeOK
<1>1. IInv => TypeOK
  BY DEF IInv
<1> QED
  BY <1>1, InvariantHolds, PTL

(***************************************************************************)
(* A completed run has all its components, and what a record names is in a *)
(* repository, for any number of runs, components, deletes and crashes     *)
(* (CreateBackup, DeleteBackup, RunStartupHygiene).                        *)
(***************************************************************************)
THEOREM RecordsBacked == Spec => []RecordsAreBacked
<1>1. IInv => RecordsAreBacked
  BY DEF IInv, Ordered, Backed, RecordsAreBacked
<1> QED
  BY <1>1, InvariantHolds, PTL

\* No run is left "running" without somebody who makes it (MarkInterruptedRuns).
THEOREM RunningOwned == Spec => []RunningHasOwner
<1>1. IInv => RunningHasOwner
  BY DEF IInv, Owned
<1> QED
  BY <1>1, InvariantHolds, PTL

\* No end of executeRun leaves the stack stopped for no reason.
THEOREM StackIsBack == Spec => []StackComesBack
<1>1. IInv => StackComesBack
  BY DEF IInv, TypeOK, Stopped, StackComesBack
<1> QED
  BY <1>1, InvariantHolds, PTL

\* Only a delete that has forgotten the snapshots takes a record away.
LEMMA RecordLeaves ==
    ASSUME IInv, [Next]_vars, NEW r \in RunIds, records[r] # NoRecord, records'[r] = NoRecord
    PROVE  Gone(r)
<1>1. NoRecord.status = "none" /\ records[r] \in Record
  BY Shapes DEF IInv, NoRecord
<1>2. CASE \E d \in Deletes : RemoveRecord(d)
  <2>1. PICK d \in Deletes : RemoveRecord(d)
    BY <1>2
  <2>2. deletes[d].pc = "remove" /\ records' = [records EXCEPT ![deletes[d].run] = NoRecord]
    BY <2>1 DEF RemoveRecord
  <2>3. r = deletes[d].run
    BY <2>2 DEF IInv, TypeOK
  <2> QED
    BY <2>2, <2>3 DEF IInv, Forgot
<1>3. CASE Create
  <2>1. job.run \in RunIds /\ records \in [RunIds -> Record \cup {NoRecord}] /\ Creating
    BY <1>3, CreateFrame DEF IInv, TypeOK
  <2>2. CASE RecordRunning
    BY <1>1, <2>1, <2>2 DEF RecordRunning
  <2>3. CASE RecordOutcome
    <3>1. PICK status \in {"failed", "completed"} :
              records' = records \/ records' = [records EXCEPT ![job.run] =
                                                   [status |-> status, saved |-> job.saved]]
      BY <2>3 DEF RecordOutcome
    <3> QED
      BY <1>1, <2>1, <3>1
  <2>4. CASE SavePart
    <3>1. records' = records \/ records' = [records EXCEPT ![job.run].saved = job.saved]
      BY <2>4 DEF SavePart
    <3>2. records'[r].status = records[r].status
      BY <1>1, <2>1, <3>1 DEF Record
    <3> QED
      BY <1>1, <3>2 DEF Record, Statuses
  <2>5. CASE records' = records
    BY <2>5
  <2> QED
    BY <1>3, <2>2, <2>3, <2>4, <2>5 DEF Create, StopStack, PrepareRepository, BackupPart,
       RestartStack, VerifyRepository, storeVars
<1>4. CASE Start
  <2>1. records'[r] = records[r] \/ records'[r] = [records[r] EXCEPT !.status = "interrupted"]
    BY <1>4 DEF Start
  <2> QED
    BY <1>1, <2>1 DEF Record
<1>5. CASE records' = records
  BY <1>5
<1> QED
  BY <1>2, <1>3, <1>4, <1>5 DEF Next, BeginCreate, BeginRestore, BeginBrowse, BeginDelete,
     EndRestore, EndBrowse, Forget, ForgetFails, RemoveFails, Crash, OrphanEnds, Remount,
     storeVars, vars

(***************************************************************************)
(* A backup leaves the list only after its snapshots (DeleteBackup removes *)
(* the record last, under the lock that keeps every writer out).           *)
(***************************************************************************)
THEOREM ForgottenFirst == Spec => RemovedAfterForget
<1>1. IInv /\ [Next]_vars =>
          [\A r \in RunIds :
              (records[r] # NoRecord /\ records'[r] = NoRecord) =>
                  (place \in repositories \/ records[r].saved = {}) /\ Forgettable(r) = {}]_vars
  BY RecordLeaves DEF Gone
<1> QED
  BY <1>1, InvariantHolds, PTL DEF Spec, RemovedAfterForget

\* A snapshot that is read is not forgotten.
LEMMA SnapshotStays ==
    ASSUME IInv, [Next]_vars, NEW s \in snapshots, Reads(s.run),
           \A o \in orphans : o.does # "forget"
    PROVE  s \in snapshots'
<1>1. CASE \E d \in Deletes : Forget(d) \/ ForgetFails(d)
  <2>1. PICK d \in Deletes : deletes[d].pc = "forget"
    BY <1>1 DEF Forget, ForgetFails
  <2>2. job = Idle /\ \A w \in Browses : browses[w] = Idle
    BY <2>1, DeleteAlone
  <2> QED
    BY <2>2 DEF Reads, Restoring, Idle
<1>2. CASE \E o \in orphans : OrphanEnds(o)
  BY <1>2 DEF OrphanEnds
<1>3. CASE BackupPart
  BY <1>3 DEF BackupPart
<1>4. CASE snapshots' = snapshots
  BY <1>4
<1> QED
  BY <1>1, <1>2, <1>3, <1>4 DEF Next, BeginCreate, BeginRestore, BeginBrowse, BeginDelete,
     EndRestore, EndBrowse, RemoveRecord, RemoveFails, Crash, Start, Remount, Create,
     RecordRunning, StopStack, PrepareRepository, SavePart, RestartStack, VerifyRepository,
     RecordOutcome, storeVars, vars

(***************************************************************************)
(* What a restore or a browsing request reads does not vanish under it:    *)
(* the lock of the repository keeps every delete out, and only a forget of *)
(* an earlier agent is not held by it.                                     *)
(***************************************************************************)
THEOREM ReadersAreSafe == Spec => ReadersKeepSnapshots
<1>1. IInv /\ [Next]_vars =>
          [\A s \in snapshots :
              (Reads(s.run) /\ \A o \in orphans : o.does # "forget") => s \in snapshots']_vars
  BY SnapshotStays
<1> QED
  BY <1>1, InvariantHolds, PTL DEF Spec, ReadersKeepSnapshots
================================================================================
