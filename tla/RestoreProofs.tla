----------------------------- MODULE RestoreProofs ------------------------------
(***************************************************************************)
(* Proofs about Restore, for any components of any kinds and any           *)
(* containers: what a restore says when it ends is true, and it has        *)
(* written nothing under a container that it should have stopped.          *)
(***************************************************************************)
EXTENDS Restore, FiniteSetTheorems, TLAPS

Places == {"idle", "list", "plan", "check", "open", "stop", "create", "restore", "write", "start"}
Data == {"before", "mixed", "backup"}
Request == [selected : SUBSET Components, stop : BOOLEAN]

Types ==
    /\ container \in [Containers -> {"running", "stopped"}]
    /\ data \in [Components -> Data]
    /\ old \in [Components -> Data]
    /\ pc \in Places
    /\ request \in Request
    /\ listed \subseteq Containers

\* A container that runs is still to be stopped, or was started by others.
Listing ==
    /\ pc \in {"list", "plan", "check", "open"} => stopped = {}
    /\ pc \in {"plan", "check", "open"} => Active \subseteq listed \cup others
    /\ pc = "open" => request.stop \/ listed = {}
    /\ pc = "stop" => Active \subseteq (listed \ stopped) \cup others
    /\ pc \in {"create", "restore", "write"} => Active \subseteq others
    /\ pc \notin {"idle", "list"} => listed \subseteq Active \cup stopped

\* What has been restored is the backup's; the rest is as it was, but for the
\* one component in hand.
Progress ==
    /\ pc # "write" => inHand = {}
    /\ \A c, d \in inHand : c = d
    /\ pc # "idle" =>
          /\ restored \subseteq request.selected
          /\ inHand \subseteq request.selected \ restored
          /\ \A c \in restored : data[c] = "backup"
          /\ \A c \in Components \ (restored \cup inHand) : data[c] = old[c]
    /\ pc \notin {"idle", "restore", "write", "start"} => restored = {}
    /\ pc = "start" => restored = request.selected

\* ReportIsTrue, and that a helper of a dead agent belies no report.
Report ==
    /\ orphan # {} => pc = "idle" /\ outcome.result = "crashed"
    /\ (pc = "idle" /\ outcome.result # "crashed") =>
          /\ \A c \in outcome.rolledBack : data[c] = "backup"
          /\ \A c \in Components \ request.selected : data[c] = old[c]
          /\ outcome.result \in {"completed", "not started"} =>
                 outcome.rolledBack = request.selected
          /\ \A c, d \in outcome.leftAlone : data[c] # old[c] /\ data[d] # old[d] => c = d
          /\ outcome.result = "completed" => listed \subseteq Active
          /\ outcome.result = "refused" => data = old

IInv == Types /\ Listing /\ Progress /\ Report

LEMMA InitIInv == Init => IInv
<1> SUFFICES ASSUME Init PROVE IInv
  OBVIOUS
<1>1. pc = "idle" /\ inHand = {} /\ orphan = {}
  BY DEF Init
<1>2. Types
  BY DEF Init, Types, Data, Places, NoRequest, Request
<1>3. Listing /\ Progress
  BY <1>1 DEF Listing, Progress
<1>4. outcome.result = "none" /\ outcome.rolledBack = {} /\ outcome.leftAlone = {} /\ data = old
  BY DEF Init, Unsaid
<1>5. Report
  BY <1>1, <1>4 DEF Report
<1> QED
  BY <1>2, <1>3, <1>5 DEF IInv

\* A refusal comes before anything has been touched.
LEMMA RefuseKeeps ==
    ASSUME IInv, pc \in {"list", "plan", "check", "open", "stop"}, Refuse
    PROVE  IInv'
<1>1. /\ UNCHANGED <<container, data, old, others, orphan>>
      /\ UNCHANGED <<request, listed, toCreate, stopped, restored, inHand>>
      /\ pc' = "idle" /\ outcome' = Refused
  BY DEF Refuse, End, jobVars, historyVars
<1>2. Types'
  BY <1>1 DEF IInv, Types, Places
<1>3. Listing'
  BY <1>1 DEF Listing
<1>4. Progress'
  BY <1>1 DEF IInv, Progress
<1>5. data = old
  <2>1. \A c \in Components : data[c] = old[c]
    BY DEF IInv, Progress
  <2> QED
    BY <2>1 DEF IInv, Types
<1>6. outcome'.result = "refused" /\ outcome'.rolledBack = {} /\ outcome'.leftAlone = {}
  BY <1>1 DEF Refused, Unsaid
<1>7. Report'
  BY <1>1, <1>5, <1>6 DEF IInv, Report
<1> QED
  BY <1>2, <1>3, <1>4, <1>7 DEF IInv

\* A failure leaves one component at most neither restored nor as it was.
LEMMA FailKeeps ==
    ASSUME IInv, pc \in {"create", "restore", "write"}, Fail, UNCHANGED data
    PROVE  IInv'
<1>1. /\ UNCHANGED <<container, data, old, others, orphan>>
      /\ UNCHANGED <<request, listed, toCreate, stopped, restored>>
      /\ pc' = "idle" /\ inHand' = {}
      /\ outcome' = [result |-> "failed", rolledBack |-> restored,
                     leftAlone |-> request.selected \ restored]
  BY DEF Fail, End, historyVars
<1>2. Types'
  BY <1>1 DEF IInv, Types, Places
<1>3. Listing'
  BY <1>1 DEF Listing
<1>4. Progress'
  BY <1>1 DEF Progress
<1>5. /\ outcome'.result = "failed" /\ outcome'.rolledBack = restored
      /\ outcome'.leftAlone = request.selected \ restored
  BY <1>1
<1>6. /\ restored \subseteq request.selected /\ request.selected \subseteq Components
      /\ inHand \subseteq request.selected
      /\ \A c \in restored : data[c] = "backup"
      /\ \A c \in Components \ (restored \cup inHand) : data[c] = old[c]
      /\ \A c, d \in inHand : c = d
  BY DEF IInv, Types, Request, Progress
<1>7. orphan = {}
  BY DEF IInv, Report
<1>8. \A c, d \in outcome'.leftAlone : data[c] # old[c] /\ data[d] # old[d] => c = d
  BY <1>5, <1>6
<1>9. Report'
  BY <1>1, <1>5, <1>6, <1>7, <1>8 DEF Report
<1> QED
  BY <1>2, <1>3, <1>4, <1>9 DEF IInv

\* A step on to the next place, with nothing else changed, or only volumes.
LEMMA GoesOn ==
    ASSUME IInv, pc # "idle", pc' \in Places \ {"idle"},
           UNCHANGED <<container, data, old, others, orphan, request, listed, stopped,
                       restored, inHand>>,
           Listing', Progress'
    PROVE  IInv'
<1>1. Types'
  BY DEF IInv, Types
<1>2. Report'
  BY DEF IInv, Report
<1> QED
  BY <1>1, <1>2 DEF IInv

LEMMA BeginKeeps ==
    ASSUME IInv, NEW selected \in SUBSET Components, NEW stop \in BOOLEAN,
           orphan = {}, Begin(selected, stop)
    PROVE  IInv'
<1>1. /\ UNCHANGED <<container, data, others, orphan, inHand>>
      /\ pc = "idle" /\ pc' = "list" /\ request' = [selected |-> selected, stop |-> stop]
      /\ restored' = {} /\ stopped' = {} /\ listed' = {} /\ old' = data
  BY DEF Begin
<1>2. Types'
  BY <1>1 DEF IInv, Types, Request, Places
<1>3. Listing'
  BY <1>1 DEF Listing
<1>4. Progress'
  BY <1>1 DEF IInv, Progress
<1>5. Report'
  BY <1>1 DEF IInv, Report
<1> QED
  BY <1>2, <1>3, <1>4, <1>5 DEF IInv

LEMMA BeforeKeeps == ASSUME IInv, List \/ Plan \/ Check \/ OpenRepository PROVE IInv'
<1>1. CASE List
  <2>1. CASE Refuse
    BY <1>1, <2>1, RefuseKeeps DEF List
  <2>2. CASE listed' = Active /\ pc' = "plan"
    <3>1. /\ UNCHANGED <<container, data, old, orphan, request, stopped, restored, inHand>>
          /\ pc = "list" /\ others' = {}
      BY <1>1, <2>2 DEF List, Refuse, End
    <3>2. Active' = Active
      BY <3>1 DEF Active
    <3>3. Types'
      BY <2>2, <3>1 DEF IInv, Types, Places, Active
    <3>4. Listing'
      BY <2>2, <3>1, <3>2 DEF IInv, Listing
    <3>5. Progress'
      BY <2>2, <3>1 DEF IInv, Progress
    <3>6. Report'
      BY <2>2, <3>1 DEF IInv, Report
    <3> QED
      BY <3>3, <3>4, <3>5, <3>6 DEF IInv
  <2> QED
    BY <1>1, <2>1, <2>2 DEF List
<1>2. CASE Plan
  <2>1. CASE Refuse
    BY <1>2, <2>1, RefuseKeeps DEF Plan
  <2>2. CASE ~Refuse
    <3>1. /\ UNCHANGED <<container, data, old, others, orphan, request, listed, stopped>>
          /\ UNCHANGED <<restored, inHand>> /\ pc = "plan" /\ pc' = "check"
      BY <1>2, <2>2 DEF Plan, historyVars
    <3>2. Listing' /\ Progress'
      BY <3>1 DEF IInv, Listing, Progress, Active
    <3> QED
      BY <3>1, <3>2, GoesOn DEF Places
  <2> QED
    BY <2>1, <2>2
<1>3. CASE Check
  <2>1. CASE Refuse
    BY <1>3, <2>1, RefuseKeeps DEF Check
  <2>2. CASE ~Refuse
    <3>1. /\ UNCHANGED <<container, data, old, others, orphan, request, listed, stopped>>
          /\ UNCHANGED <<restored, inHand>> /\ pc = "check" /\ pc' = "open"
          /\ request.stop \/ listed = {}
      BY <1>3, <2>2 DEF Check, jobVars, historyVars
    <3>2. Listing' /\ Progress'
      BY <3>1 DEF IInv, Listing, Progress, Active
    <3> QED
      BY <3>1, <3>2, GoesOn DEF Places
  <2> QED
    BY <2>1, <2>2
<1>4. CASE OpenRepository
  <2>1. CASE Refuse
    BY <1>4, <2>1, RefuseKeeps DEF OpenRepository
  <2>2. CASE ~Refuse
    <3>1. /\ UNCHANGED <<container, data, old, others, orphan, request, listed, stopped>>
          /\ UNCHANGED <<restored, inHand>> /\ pc = "open"
          /\ pc' = IF request.stop THEN "stop" ELSE "create"
      BY <1>4, <2>2 DEF OpenRepository, jobVars, historyVars
    <3>2. Listing' /\ Progress'
      BY <3>1 DEF IInv, Listing, Progress, Active
    <3> QED
      BY <3>1, <3>2, GoesOn DEF Places
  <2> QED
    BY <2>1, <2>2
<1> QED
  BY <1>1, <1>2, <1>3, <1>4

LEMMA StopKeeps == ASSUME IInv, Stop PROVE IInv'
<1>1. CASE Refuse
  BY <1>1, RefuseKeeps DEF Stop
<1>2. CASE stopped = listed /\ pc' = "create" /\ ~Refuse
  <2>1. /\ UNCHANGED <<container, data, old, others, orphan, request, listed, stopped>>
        /\ UNCHANGED <<restored, inHand>> /\ pc = "stop"
    BY <1>2 DEF Stop, jobVars, historyVars
  <2>2. Listing' /\ Progress'
    BY <1>2, <2>1 DEF IInv, Listing, Progress, Active
  <2> QED
    BY <1>2, <2>1, <2>2, GoesOn DEF Places
<1>3. ASSUME NEW k \in listed \ stopped,
             pc = "stop",
             container' = [container EXCEPT ![k] = "stopped"],
             stopped' = stopped \cup {k}, others' = others \ {k},
             UNCHANGED <<volumes, data, pc, request, listed, toCreate, restored, inHand,
                         outcome, old, orphan>>
      PROVE  IInv'
  <2>1. Types'
    BY <1>3 DEF IInv, Types
  <2>2. Active' = Active \ {k}
    BY <1>3 DEF IInv, Types, Active
  <2>3. Listing'
    BY <1>3, <2>2 DEF IInv, Listing
  <2>4. Progress'
    BY <1>3 DEF IInv, Progress
  <2>5. Report'
    BY <1>3 DEF IInv, Report
  <2> QED
    BY <2>1, <2>3, <2>4, <2>5 DEF IInv
<1> QED
  BY <1>1, <1>2, <1>3 DEF Stop

LEMMA CreateKeeps == ASSUME IInv, Create PROVE IInv'
<1>1. CASE Fail /\ UNCHANGED data
  BY <1>1, FailKeeps DEF Create
<1>2. CASE pc' \in {"create", "restore"} /\ UNCHANGED <<container, jobVars, data, historyVars, orphan>>
  <2>1. /\ UNCHANGED <<container, data, old, others, orphan, request, listed, stopped>>
        /\ UNCHANGED <<restored, inHand>> /\ pc = "create"
    BY <1>2 DEF Create, jobVars, historyVars
  <2>2. Listing' /\ Progress'
    BY <1>2, <2>1 DEF IInv, Listing, Progress, Active
  <2> QED
    BY <1>2, <2>1, <2>2, GoesOn DEF Places
<1> QED
  BY <1>1, <1>2 DEF Create

LEMMA RestoreKeeps == ASSUME IInv, Restore PROVE IInv'
<1>1. CASE Fail /\ UNCHANGED data
  BY <1>1, FailKeeps DEF Restore
<1>2. CASE Todo = {} /\ pc' = "start" /\ UNCHANGED <<data, jobVars, container, historyVars, orphan>>
  <2>1. /\ UNCHANGED <<container, data, old, others, orphan, request, listed, stopped>>
        /\ UNCHANGED <<restored, inHand>> /\ pc = "restore"
    BY <1>2 DEF Restore, jobVars, historyVars
  <2>2. Listing'
    BY <1>2, <2>1 DEF IInv, Listing, Active
  <2>3. Progress'
    BY <1>2, <2>1 DEF IInv, Progress, Todo
  <2> QED
    BY <1>2, <2>1, <2>2, <2>3, GoesOn DEF Places
<1>3. ASSUME NEW c \in NextComponents,
             pc = "restore", data' = [data EXCEPT ![c] = "mixed"],
             pc' = "write", inHand' = {c},
             UNCHANGED <<container, request, listed, toCreate, stopped, restored, outcome,
                         historyVars, orphan>>
      PROVE  IInv'
  <2>1. c \in request.selected \ restored /\ c \in Components
    BY DEF NextComponents, Todo, IInv, Types, Request
  <2>2. data' \in [Components -> Data] /\ \A d \in Components : d # c => data'[d] = data[d]
    BY <1>3, <2>1 DEF IInv, Types, Data
  <2>3. UNCHANGED <<old, others>> /\ inHand = {}
    BY <1>3 DEF historyVars, IInv, Progress
  <2>4. Types'
    BY <1>3, <2>2, <2>3 DEF IInv, Types, Places
  <2>5. Listing'
    BY <1>3, <2>3 DEF IInv, Listing, Active
  <2>6. Progress'
    <3>1. restored \subseteq Components /\ c \notin restored
      BY <1>3, <2>1 DEF IInv, Types, Request, Progress
    <3>2. \A d \in restored : data'[d] = "backup"
      BY <1>3, <2>2, <3>1 DEF IInv, Progress
    <3>3. \A d \in Components \ (restored \cup {c}) : data'[d] = old[d]
      BY <1>3, <2>2, <2>3 DEF IInv, Progress
    <3> QED
      BY <1>3, <2>1, <2>3, <3>2, <3>3 DEF IInv, Progress
  <2>7. Report'
    BY <1>3 DEF IInv, Report
  <2> QED
    BY <2>4, <2>5, <2>6, <2>7 DEF IInv
<1> QED
  BY <1>1, <1>2, <1>3 DEF Restore

LEMMA WrittenKeeps == ASSUME IInv, Written PROVE IInv'
<1>1. CASE Fail /\ UNCHANGED data
  BY <1>1, FailKeeps DEF Written
<1>2. ASSUME NEW c \in inHand,
             pc = "write", data' = [data EXCEPT ![c] = "backup"],
             restored' = restored \cup {c}, inHand' = {}, pc' = "restore",
             UNCHANGED <<container, request, listed, toCreate, stopped, outcome,
                         historyVars, orphan>>
      PROVE  IInv'
  <2>1. c \in request.selected \ restored /\ c \in Components /\ inHand = {c}
        /\ restored \subseteq Components
    BY <1>2 DEF Progress, IInv, Types, Request
  <2>2. /\ data' \in [Components -> Data] /\ data'[c] = "backup"
        /\ \A d \in Components : d # c => data'[d] = data[d]
    BY <1>2, <2>1 DEF IInv, Types, Data
  <2>3. UNCHANGED <<old, others>>
    BY <1>2 DEF historyVars
  <2>4. Types'
    BY <1>2, <2>2, <2>3 DEF IInv, Types, Places
  <2>5. Listing'
    BY <1>2, <2>3 DEF IInv, Listing, Active
  <2>6. Progress'
    <3>1. \A d \in restored' : data'[d] = "backup"
      BY <1>2, <2>1, <2>2 DEF IInv, Progress
    <3>2. \A d \in Components \ restored' : data'[d] = old[d]
      BY <1>2, <2>1, <2>2 DEF IInv, Progress
    <3> QED
      BY <1>2, <2>1, <2>3, <3>1, <3>2 DEF IInv, Progress
  <2>7. Report'
    BY <1>2 DEF IInv, Report
  <2> QED
    BY <2>4, <2>5, <2>6, <2>7 DEF IInv
<1> QED
  BY <1>1, <1>2 DEF Written

LEMMA StartAgainKeeps == ASSUME IInv, StartAgain PROVE IInv'
<1>1. ASSUME NEW k \in stopped,
             pc = "start",
             container' = [container EXCEPT ![k] = "running"],
             stopped' = stopped \ {k},
             UNCHANGED <<volumes, data, pc, request, listed, toCreate, restored, inHand,
                         outcome, historyVars, orphan>>
      PROVE  IInv'
  <2>1. UNCHANGED <<old, others>>
    BY <1>1 DEF historyVars
  <2>2. Types'
    BY <1>1, <2>1 DEF IInv, Types
  <2>3. \A j \in Containers : j # k => container'[j] = container[j]
    BY <1>1 DEF IInv, Types
  <2>4. k \in Containers => container'[k] = "running"
    BY <1>1 DEF IInv, Types
  <2>5. Active \subseteq Active' /\ (k \in Containers => k \in Active')
    BY <2>3, <2>4 DEF Active
  <2>6. Listing'
    BY <1>1, <2>5 DEF IInv, Types, Listing
  <2>7. Progress'
    BY <1>1, <2>1 DEF IInv, Progress
  <2>8. Report'
    BY <1>1 DEF IInv, Report
  <2> QED
    BY <2>2, <2>6, <2>7, <2>8 DEF IInv
<1>2. CASE /\ End([Completed EXCEPT !.result = IF stopped = {} THEN @ ELSE "not started"])
           /\ UNCHANGED <<container, volumes, data, jobVars, historyVars, orphan>>
  <2>1. /\ UNCHANGED <<container, data, old, others, orphan, request, listed, stopped>>
        /\ UNCHANGED <<restored, inHand>> /\ pc = "start" /\ pc' = "idle"
    BY <1>2 DEF StartAgain, End, jobVars, historyVars
  <2>2. /\ outcome'.rolledBack = restored /\ outcome'.leftAlone = {}
        /\ outcome'.result = IF stopped = {} THEN "completed" ELSE "not started"
    BY <1>2 DEF End, Completed
  <2>3. Types'
    BY <2>1 DEF IInv, Types, Places
  <2>4. Listing' /\ Progress'
    BY <2>1 DEF IInv, Listing, Progress
  <2>5. /\ restored = request.selected /\ inHand = {} /\ orphan = {}
        /\ \A c \in restored : data[c] = "backup"
        /\ \A c \in Components \ restored : data[c] = old[c]
        /\ listed \subseteq Active \cup stopped
    BY <2>1 DEF IInv, Progress, Listing, Report
  <2>6. Active' = Active
    BY <2>1 DEF Active
  <2>7. Report'
    BY <2>1, <2>2, <2>5, <2>6 DEF Report
  <2> QED
    BY <2>3, <2>4, <2>7 DEF IInv
<1> QED
  BY <1>1, <1>2 DEF StartAgain

LEMMA StartOutsideKeeps == ASSUME IInv, NEW k \in Containers, StartOutside(k) PROVE IInv'
<1>1. /\ UNCHANGED <<data, old, orphan, pc, outcome, request, listed, stopped>>
      /\ UNCHANGED <<restored, inHand>>
      /\ container' = [container EXCEPT ![k] = "running"] /\ others' = others \cup {k}
  BY DEF StartOutside, jobVars
<1>2. Types'
  BY <1>1 DEF IInv, Types
<1>3. Active' = Active \cup {k}
  BY <1>1 DEF IInv, Types, Active
<1>4. Listing'
  BY <1>1, <1>3 DEF IInv, Listing
<1>5. Progress'
  BY <1>1 DEF IInv, Progress
<1>6. Report'
  BY <1>1, <1>3 DEF IInv, Report
<1> QED
  BY <1>2, <1>4, <1>5, <1>6 DEF IInv

LEMMA CrashKeeps == ASSUME IInv, Crash PROVE IInv'
<1>1. /\ UNCHANGED <<container, data, old, others, request, listed, stopped, restored>>
      /\ pc' = "idle" /\ inHand' = {} /\ outcome'.result = "crashed"
  BY DEF Crash, historyVars, Unsaid
<1>2. Types'
  BY <1>1 DEF IInv, Types, Places
<1>3. Listing' /\ Progress'
  BY <1>1 DEF Listing, Progress
<1>4. Report'
  BY <1>1 DEF Report
<1> QED
  BY <1>2, <1>3, <1>4 DEF IInv

LEMMA OrphanEndsKeeps == ASSUME IInv, OrphanEnds PROVE IInv'
<1>1. /\ UNCHANGED <<container, old, others, pc, outcome, request, listed, stopped>>
      /\ UNCHANGED <<restored, inHand>> /\ orphan # {} /\ orphan' = {}
      /\ data' \in {data, [c \in Components |-> IF c \in orphan THEN "backup" ELSE data[c]]}
  BY DEF OrphanEnds, jobVars, historyVars
<1>2. pc = "idle" /\ outcome.result = "crashed"
  BY <1>1 DEF IInv, Report
<1>3. Types'
  BY <1>1 DEF IInv, Types, Data
<1>4. Listing' /\ Progress'
  BY <1>1, <1>2 DEF IInv, Listing, Progress
<1>5. Report'
  BY <1>1, <1>2 DEF Report
<1> QED
  BY <1>3, <1>4, <1>5 DEF IInv

LEMMA NextKeepsIInv == IInv /\ [Next]_vars => IInv'
<1> SUFFICES ASSUME IInv, [Next]_vars PROVE IInv'
  OBVIOUS
<1>1. ASSUME NEW selected \in SUBSET Components \ {{}}, NEW stop \in BOOLEAN,
             orphan = {}, Begin(selected, stop)
      PROVE  IInv'
  BY <1>1, BeginKeeps
<1>2. CASE Job
  BY <1>2, BeforeKeeps, StopKeeps, CreateKeeps, RestoreKeeps, WrittenKeeps, StartAgainKeeps
  DEF Job
<1>3. ASSUME NEW k \in Containers, StartOutside(k) PROVE IInv'
  BY <1>3, StartOutsideKeeps
<1>4. CASE Crash
  BY <1>4, CrashKeeps
<1>5. CASE OrphanEnds
  BY <1>5, OrphanEndsKeeps
<1>6. CASE UNCHANGED vars
  <2>1. /\ UNCHANGED <<container, data, old, others, orphan, pc, outcome>>
        /\ UNCHANGED <<request, listed, stopped, restored, inHand>>
    BY <1>6 DEF vars, jobVars, historyVars
  <2>2. Types' /\ Progress'
    BY <2>1 DEF IInv, Types, Progress
  <2>3. Listing' /\ Report'
    BY <2>1 DEF IInv, Listing, Report, Active
  <2> QED
    BY <2>2, <2>3 DEF IInv
<1> QED
  BY <1>1, <1>2, <1>3, <1>4, <1>5, <1>6 DEF Next

LEMMA InvariantHolds == Spec => []IInv
<1>1. IInv /\ [Next]_vars => IInv'
  BY NextKeepsIInv
<1> QED
  BY InitIInv, <1>1, PTL DEF Spec

--------------------------------------------------------------------------------
(***************************************************************************)
(* RestoreBackup writes nothing under a running container of the stack but *)
(* one that others have started since it listed them, for any components   *)
(* and containers, failures and crashes.                                   *)
(***************************************************************************)
THEOREM NeverUnderRunning == Spec => []NotUnderRunning
<1>1. IInv => NotUnderRunning
  BY DEF IInv, Listing, NotUnderRunning
<1> QED
  BY <1>1, InvariantHolds, PTL

(***************************************************************************)
(* What RestoreBackup and reportRestoreFailure say at the end is so, but   *)
(* for the one component that has failed.                                  *)
(***************************************************************************)
THEOREM ReportTrue == Spec => []ReportIsTrue
<1>1. IInv => ReportIsTrue
  <2> SUFFICES ASSUME IInv, pc = "idle", outcome.result # "crashed" PROVE ReportIsTrue
    BY DEF ReportIsTrue
  <2> DEFINE changed == { c \in outcome.leftAlone : data[c] # old[c] }
  <2>1. \A c, d \in changed : c = d
    BY DEF IInv, Report
  <2>2. Cardinality(changed) <= 1
    <3>1. CASE changed = {}
      BY <3>1, FS_EmptySet
    <3>2. CASE changed # {}
      <4>1. PICK c : changed = {c}
        BY <2>1, <3>2
      <4> QED
        BY <4>1, FS_Singleton
    <3> QED
      BY <3>1, <3>2
  <2> QED
    BY <2>2 DEF IInv, Report, ReportIsTrue
<1> QED
  BY <1>1, InvariantHolds, PTL
================================================================================
