-------------------------------- MODULE VulnScan --------------------------------
(***************************************************************************)
(* The vulnerability scans (internal/vulnscan): StartScan, which hands out *)
(* the active scan of a stack or makes a new one, the goroutine that scans *)
(* its images one by one, the file kept of each scan, and the recovery of  *)
(* the files when the agent starts.                                        *)
(*                                                                         *)
(* A scan has some number of images, scanned in the order of their names;  *)
(* its results are reduced to their number, one for each image whose scan   *)
(* has ended, in whichever way: an error and a timeout are results too.    *)
(***************************************************************************)
EXTENDS Naturals, FiniteSets, Functions

CONSTANTS Stacks,
          NImages,    \* bound on the images of a stack
          Callers,    \* the requests that are made
          MaxScans,   \* bound on the scans that are made
          MaxCrashes  \* bound on the crashes of the agent

ASSUME ScanAssumption == NImages \in Nat /\ MaxScans \in Nat /\ MaxCrashes \in Nat

VARIABLES made,         \* how many scans have been made
          scans,        \* scan id -> the scan, in memory
          activeScans,  \* stack -> the id of its active scan
          files,        \* scan id -> the scan in its file, or Torn
          call,         \* where StartScan of each caller is
          work,         \* scan id -> where the goroutine executeScan is
          expired,      \* the scans whose total timeout has passed
          recovering,   \* scan id -> the scan, of those recoverScans has read
                        \* and has yet to put in the map
          crashes

vars == <<made, scans, activeScans, files, call, work, expired, recovering, crashes>>

Ids == 1..MaxScans
Active == {"pending", "running"}
Torn == [status |-> "torn"]

NewScan(s, total) == [stack |-> s, total |-> total, status |-> "pending", results |-> 0]
Serving == DOMAIN recovering = {}
Failed(scan) == [scan EXCEPT !.status = "failed"]

\* The function f with the value v at x.
With(f, x, v) == [y \in DOMAIN f \cup {x} |-> IF y = x THEN v ELSE f[y]]

(***************************************************************************)
(* PersistScan, whose failure is only logged.  os.WriteFile truncates the  *)
(* file before it fills it: a failure leaves what there was, or less.      *)
(***************************************************************************)
Persist(id, scan) == files' \in {With(files, id, scan), files, With(files, id, Torn)}
PersistScan(id) == Persist(id, scans[id])

Init ==
    /\ made = 0
    /\ scans = << >>
    /\ activeScans = << >>
    /\ files = << >>
    /\ call = [c \in Callers |-> [at |-> "idle"]]
    /\ work = << >>
    /\ expired = {}
    /\ recovering = << >>
    /\ crashes = 0
--------------------------------------------------------------------------------
\* StartScan.

(***************************************************************************)
(* The first critical section.  (A scanner that does not answer or a stack *)
(* that is not there ends the call before it, and nothing has changed.)    *)
(***************************************************************************)
FindActive(c, s) ==
    /\ Serving
    /\ call[c].at = "idle"
    /\ call' = [call EXCEPT ![c] = IF s \in DOMAIN activeScans
                                   THEN [at |-> "done", given |-> activeScans[s]]
                                   ELSE [at |-> "resolve", stack |-> s]]
    /\ UNCHANGED <<made, scans, activeScans, files, work, expired, recovering, crashes>>

\* getStackServiceImages fails, or finds no image.
NoImages(c) ==
    /\ call[c].at = "resolve"
    /\ call' = [call EXCEPT ![c] = [at |-> "idle"]]
    /\ UNCHANGED <<made, scans, activeScans, files, work, expired, recovering, crashes>>

\* The images of the stack, or of some services of it, and the second
\* critical section.
MakeScan(c, total) ==
    /\ call[c].at = "resolve"
    /\ total > 0 /\ made < MaxScans
    /\ made' = made + 1
    /\ scans' = With(scans, made', NewScan(call[c].stack, total))
    /\ activeScans' = With(activeScans, call[c].stack, made')
    /\ call' = [call EXCEPT ![c] = [at |-> "persist", given |-> made']]
    /\ UNCHANGED <<files, work, expired, recovering, crashes>>

\* PersistScan and the start of executeScan.
StartWork(c) ==
    /\ call[c].at = "persist"
    /\ PersistScan(call[c].given)
    /\ work' = With(work, call[c].given, "start")
    /\ call' = [call EXCEPT ![c] = [at |-> "done", given |-> @.given]]
    /\ UNCHANGED <<made, scans, activeScans, expired, recovering, crashes>>
--------------------------------------------------------------------------------
\* executeScan.

At(id, at) == id \in DOMAIN work /\ work[id] = at
Go(id, at) == work' = [work EXCEPT ![id] = at]

Run(id) ==
    /\ At(id, "start")
    /\ scans' = [scans EXCEPT ![id].status = "running"]
    /\ Go(id, "save")
    /\ UNCHANGED <<made, activeScans, files, call, expired, recovering, crashes>>

Save(id) ==
    /\ At(id, "save")
    /\ PersistScan(id)
    /\ Go(id, "next")
    /\ UNCHANGED <<made, scans, activeScans, call, expired, recovering, crashes>>

\* Mutant: one image too many.
ToScanOneMore(id) == scans[id].results <= scans[id].total

ToScan(id) == scans[id].results < scans[id].total

\* The head of the loop: an image is left to scan and the time is not up.
NextImage(id) ==
    /\ At(id, "next")
    /\ ToScan(id) /\ id \notin expired
    /\ Go(id, "scan")
    /\ UNCHANGED <<made, scans, activeScans, files, call, expired, recovering, crashes>>

\* Mutant: an image whose scan has failed is scanned again.
ScannedRetrying(id) ==
    /\ At(id, "scan")
    /\ \E n \in 0..1 : scans' = [scans EXCEPT ![id].results = @ + n]
    /\ Go(id, "save")
    /\ UNCHANGED <<made, activeScans, files, call, expired, recovering, crashes>>

\* scanSingleImage, and its result added under the mutex.
Scanned(id) ==
    /\ At(id, "scan")
    /\ scans' = [scans EXCEPT ![id].results = @ + 1]
    /\ Go(id, "save")
    /\ UNCHANGED <<made, activeScans, files, call, expired, recovering, crashes>>

\* Mutants of the last critical section: a scan that stopped early counts as
\* completed; the active scan of the stack is kept.
SettleCompleted(id) ==
    /\ At(id, "next")
    /\ ToScan(id) => id \in expired
    /\ scans' = [scans EXCEPT ![id].status = "completed"]
    /\ activeScans' = Restrict(activeScans, DOMAIN activeScans \ {scans[id].stack})
    /\ Go(id, "last")
    /\ UNCHANGED <<made, files, call, expired, recovering, crashes>>

SettleKeepingActive(id) ==
    /\ At(id, "next")
    /\ ToScan(id) => id \in expired
    /\ scans' = [scans EXCEPT ![id].status = IF id \in expired THEN "failed" ELSE "completed"]
    /\ Go(id, "last")
    /\ UNCHANGED <<made, activeScans, files, call, expired, recovering, crashes>>

(***************************************************************************)
(* After the loop.  The entry of the stack is deleted even when it is that *)
(* of another scan.                                                        *)
(***************************************************************************)
Settle(id) ==
    /\ At(id, "next")
    /\ ToScan(id) => id \in expired
    /\ scans' = [scans EXCEPT ![id].status = IF id \in expired THEN "failed" ELSE "completed"]
    /\ activeScans' = Restrict(activeScans, DOMAIN activeScans \ {scans[id].stack})
    /\ Go(id, "last")
    /\ UNCHANGED <<made, files, call, expired, recovering, crashes>>

SaveLast(id) ==
    /\ At(id, "last")
    /\ PersistScan(id)
    /\ Go(id, "end")
    /\ UNCHANGED <<made, scans, activeScans, call, expired, recovering, crashes>>

\* The total timeout passes.
Expire(id) ==
    /\ id \in DOMAIN work \ expired
    /\ work[id] \in {"save", "next", "scan"}
    /\ expired' = expired \cup {id}
    /\ UNCHANGED <<made, scans, activeScans, files, call, work, recovering, crashes>>
--------------------------------------------------------------------------------
\* The agent stops and starts again.

\* The scans whose file is being written.
Writing ==
    { id \in DOMAIN work : work[id] \in {"save", "last"} }
        \cup { call[c].given : c \in { d \in Callers : call[d].at = "persist" } }
        \cup { id \in DOMAIN recovering : recovering[id].status \in Active }

(***************************************************************************)
(* A file that was being written may be left in part, and recoverScans     *)
(* writes one at a time.  LoadAllScans leaves out the files it cannot read.*)
(***************************************************************************)
Crash(torn) ==
    /\ crashes < MaxCrashes
    /\ crashes' = crashes + 1
    /\ made' = made
    /\ torn \subseteq Writing
    /\ Cardinality(torn \cap DOMAIN recovering) <= 1
    /\ files' = [id \in DOMAIN files \cup torn |-> IF id \in torn THEN Torn ELSE files[id]]
    /\ recovering' = Restrict(files', { id \in DOMAIN files' : files'[id] # Torn })
    /\ scans' = << >>
    /\ activeScans' = << >>
    /\ work' = << >>
    /\ expired' = {}
    /\ call' = [c \in Callers |-> IF call[c].at = "done" THEN call[c] ELSE [at |-> "idle"]]

\* Mutant: only the scans that were running are marked.
RecoverRunning(id) ==
    /\ id \in DOMAIN recovering
    /\ LET left == recovering[id]
           scan == IF left.status = "running" THEN Failed(left) ELSE left
       IN /\ scans' = With(scans, id, scan)
          /\ IF left.status = "running" THEN Persist(id, scan) ELSE files' = files
    /\ recovering' = Restrict(recovering, DOMAIN recovering \ {id})
    /\ UNCHANGED <<made, activeScans, call, work, expired, crashes>>

\* Mutant: whatever has not failed is marked.
RecoverAll(id) ==
    /\ id \in DOMAIN recovering
    /\ scans' = With(scans, id, Failed(recovering[id]))
    /\ Persist(id, Failed(recovering[id]))
    /\ recovering' = Restrict(recovering, DOMAIN recovering \ {id})
    /\ UNCHANGED <<made, activeScans, call, work, expired, crashes>>

(***************************************************************************)
(* One round of recoverScans, before the agent serves.  The files come in  *)
(* the order of their names, which are random ids.                         *)
(***************************************************************************)
Recover(id) ==
    /\ id \in DOMAIN recovering
    /\ LET left == recovering[id]
           scan == IF left.status \in Active THEN Failed(left) ELSE left
       IN /\ scans' = With(scans, id, scan)
          /\ IF left.status \in Active THEN Persist(id, scan) ELSE files' = files
    /\ recovering' = Restrict(recovering, DOMAIN recovering \ {id})
    /\ UNCHANGED <<made, activeScans, call, work, expired, crashes>>

Worker(id) ==
    \/ Run(id) \/ Save(id) \/ NextImage(id) \/ Scanned(id)
    \/ Settle(id) \/ SaveLast(id)

Request(c) ==
    \/ \E s \in Stacks : FindActive(c, s)
    \/ NoImages(c)
    \/ \E total \in 1..NImages : MakeScan(c, total)

Next ==
    \/ \E c \in Callers : Request(c) \/ StartWork(c)
    \/ \E id \in Ids : Worker(id) \/ Expire(id) \/ Recover(id)
    \/ \E torn \in SUBSET Ids : Crash(torn)

(***************************************************************************)
(* Goroutines run, and every request to the scanner is answered: its       *)
(* client and its context have a timeout.                                  *)
(***************************************************************************)
Fairness ==
    /\ \A c \in Callers : WF_vars(StartWork(c))
    /\ \A id \in Ids : WF_vars(Worker(id)) /\ WF_vars(Recover(id))

Spec == Init /\ [][Next]_vars /\ Fairness
--------------------------------------------------------------------------------
Scan == [stack : Stacks, total : 1..NImages,
         status : Active \cup {"completed", "failed"}, results : 0..NImages]

TypeOK ==
    /\ made \in 0..MaxScans
    /\ DOMAIN scans \subseteq Ids /\ \A id \in DOMAIN scans : scans[id] \in Scan
    /\ DOMAIN activeScans \subseteq Stacks /\ Range(activeScans) \subseteq Ids
    /\ DOMAIN files \subseteq Ids /\ \A id \in DOMAIN files : files[id] = Torn \/ files[id] \in Scan
    /\ \A c \in Callers : call[c].at \in {"idle", "resolve", "persist", "done"}
    /\ DOMAIN work \subseteq DOMAIN scans
    /\ \A id \in DOMAIN work : work[id] \in {"start", "save", "next", "scan", "last", "end"}
    /\ expired \subseteq DOMAIN work
    /\ DOMAIN recovering \subseteq Ids /\ \A id \in DOMAIN recovering : recovering[id] \in Scan
    /\ crashes \in 0..MaxCrashes

(***************************************************************************)
(* The scan a stack's requests are answered with is one of that stack      *)
(* which has not ended: a request after the end of a scan gets a new one.  *)
(***************************************************************************)
ActiveIsLive ==
    \A s \in DOMAIN activeScans :
        LET id == activeScans[s]
        IN id \in DOMAIN scans /\ scans[id].stack = s /\ scans[id].status \in Active

(***************************************************************************)
(* A scan that calls itself completed, in memory or in its file, has a     *)
(* result for each of its images: a loop that the total timeout has cut    *)
(* short is never taken for one that went through.                         *)
(***************************************************************************)
CompletedIsComplete ==
    LET complete(scan) == scan.status = "completed" => scan.results = scan.total
    IN /\ \A id \in DOMAIN scans : complete(scans[id])
       /\ \A id \in DOMAIN files : complete(files[id])

(***************************************************************************)
(* No scan is left unfinished by a restart: one that is pending or running *)
(* has its goroutine, or a request that is about to start it.              *)
(***************************************************************************)
UnfinishedIsWorkedOn ==
    \A id \in DOMAIN scans :
        scans[id].status \in Active =>
            \/ id \in DOMAIN work /\ work[id] \notin {"last", "end"}
            \/ \E c \in Callers : call[c].at = "persist" /\ call[c].given = id

(***************************************************************************)
(* The outcome of a scan in its file stays as it is, across restarts.      *)
(***************************************************************************)
StoredOutcomeStays ==
    [][\A id \in DOMAIN files :
           (files[id] # Torn /\ files[id].status \notin Active)
               => (id \in DOMAIN files' /\ files'[id] = files[id])]_vars

(***************************************************************************)
(* A scan ends: each that is in the map completes or fails, in this life   *)
(* of the agent or when the next recovers it, unless its file was torn or  *)
(* never written.                                                          *)
(***************************************************************************)
ScanEnds ==
    \A id \in Ids :
        (id \in DOMAIN scans)
            ~> (\/ id \in DOMAIN scans /\ scans[id].status \notin Active
                \/ id \notin DOMAIN scans \cup DOMAIN files
                \/ id \in DOMAIN files /\ files[id] = Torn)
================================================================================
