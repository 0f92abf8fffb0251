---------------------------- MODULE VulnScanProofs -----------------------------
(***************************************************************************)
(* Proofs about module VulnScan, for any stacks, callers and numbers of    *)
(* images, scans and crashes.                                              *)
(*                                                                         *)
(* A scan is handed from the request that makes it to its goroutine.       *)
(* Handed says that no one else has it in between, Workers ties where the  *)
(* goroutine is to what the scan says of itself, and Stored that a file    *)
(* with an outcome belongs to a goroutine that has ended.  Recovery is     *)
(* alone (Alone): nothing else runs until it is over.                      *)
(***************************************************************************)
EXTENDS VulnScan, TLAPS

Sound == { scan \in Scan : /\ scan.results <= scan.total
                           /\ scan.status = "completed" => scan.results = scan.total }

Busy == {"start", "save", "next", "scan"}
Places == Busy \cup {"last", "end"}

Calls == [at : {"idle"}] \cup [at : {"resolve"}, stack : Stacks]
            \cup [at : {"persist", "done"}, given : Ids]

Types ==
    /\ made \in 0..MaxScans
    /\ DOMAIN scans \subseteq 1..made /\ scans \in [DOMAIN scans -> Sound]
    /\ DOMAIN activeScans \subseteq Stacks /\ activeScans \in [DOMAIN activeScans -> Ids]
    /\ DOMAIN files \subseteq 1..made /\ files \in [DOMAIN files -> Sound \cup {Torn}]
    /\ call \in [Callers -> Calls]
    /\ DOMAIN work \subseteq DOMAIN scans /\ work \in [DOMAIN work -> Places]
    /\ expired \subseteq DOMAIN work
    /\ DOMAIN recovering \subseteq DOMAIN files /\ recovering \in [DOMAIN recovering -> Sound]
    /\ crashes \in 0..MaxCrashes

Workers ==
    \A id \in DOMAIN work :
        /\ work[id] \in Busy <=> scans[id].status \in Active
        /\ work[id] = "scan" => scans[id].results < scans[id].total

\* A scan between StartScan and its goroutine has no other caller.
Handing(c, id) == call[c].at = "persist" /\ call[c].given = id

Handed ==
    \A c \in Callers, id \in Ids : Handing(c, id) =>
        /\ id \in DOMAIN scans /\ scans[id].status \in Active
        /\ id \notin DOMAIN work /\ id \notin DOMAIN files
        /\ \A d \in Callers : Handing(d, id) => d = c

HasOutcome(file) == file # Torn /\ file.status \notin Active

Stored == \A id \in DOMAIN files \cap DOMAIN work : HasOutcome(files[id]) => work[id] = "end"

Alone ==
    /\ \A id \in DOMAIN recovering : recovering[id] = files[id]
    /\ ~Serving => /\ DOMAIN work = {} /\ DOMAIN activeScans = {}
                   /\ \A c \in Callers : call[c].at \in {"idle", "done"}

IInv == /\ Types /\ Workers /\ Handed /\ Stored /\ Alone
        /\ ActiveIsLive /\ UnfinishedIsWorkedOn

--------------------------------------------------------------------------------
(***************************************************************************)
(* The files, and the scans.                                               *)
(***************************************************************************)

\* What PersistScan may leave of the files.
LEMMA PersistLeaves ==
    ASSUME NEW S, files \in [DOMAIN files -> S], NEW id, NEW scan, Persist(id, scan),
           scan \in S, Torn \in S
    PROVE  /\ DOMAIN files' \in {DOMAIN files, DOMAIN files \cup {id}}
           /\ files' \in [DOMAIN files' -> S]
           /\ \A k \in DOMAIN files : k # id => files'[k] = files[k]
           /\ id \in DOMAIN files' =>
                 \/ files'[id] \in {scan, Torn}
                 \/ id \in DOMAIN files /\ files'[id] = files[id]
<1>1. CASE files' = files
  BY <1>1
<1>2. ASSUME NEW v \in {scan, Torn}, files' = With(files, id, v)
      PROVE  /\ DOMAIN files' = DOMAIN files \cup {id}
             /\ files' \in [DOMAIN files' -> S]
             /\ \A k \in DOMAIN files : k # id => files'[k] = files[k]
             /\ files'[id] = v
  <2>1. v \in S
    OBVIOUS
  <2>2. /\ DOMAIN With(files, id, v) = DOMAIN files \cup {id}
        /\ With(files, id, v) \in [DOMAIN files \cup {id} -> S]
        /\ With(files, id, v)[id] = v
        /\ \A k \in DOMAIN files : k # id => With(files, id, v)[k] = files[k]
    BY <2>1 DEF With
  <2> QED
    BY <1>2, <2>2
<1> QED
  BY <1>1, <1>2 DEF Persist

LEMMA TornHasNoOutcome == ~HasOutcome(Torn)
BY DEF HasOutcome

LEMMA SoundScans ==
    ASSUME NEW scan \in Sound
    PROVE  /\ scan \in Scan /\ scan # Torn
           /\ scan.stack \in Stacks /\ scan.total \in 1..NImages /\ scan.results \in 0..NImages
           /\ scan.results <= scan.total
           /\ HasOutcome(scan) <=> scan.status \notin Active
           /\ Failed(scan) \in Sound /\ Failed(scan).stack = scan.stack
           /\ Failed(scan).status = "failed" /\ "failed" \notin Active
<1>1. /\ scan \in Scan /\ scan.stack \in Stacks /\ scan.total \in 1..NImages
      /\ scan.results \in 0..NImages /\ scan.results <= scan.total
      /\ scan.status \in Active \cup {"completed", "failed"}
  BY DEF Sound, Scan
<1>2. scan # Torn
  <2>1. scan.status # "torn" /\ Torn.status = "torn"
    BY <1>1 DEF Active, Torn
  <2> QED
    BY <2>1
<1>3. /\ Failed(scan) \in Scan /\ Failed(scan).stack = scan.stack
      /\ Failed(scan).status = "failed" /\ Failed(scan).results = scan.results
      /\ Failed(scan).total = scan.total
  BY <1>1 DEF Failed, Scan
<1>4. Failed(scan) \in Sound
  BY <1>1, <1>3 DEF Sound
<1> QED
  BY <1>1, <1>2, <1>3, <1>4 DEF HasOutcome, Active

--------------------------------------------------------------------------------
(***************************************************************************)
(* StartScan keeps the invariant.                                          *)
(***************************************************************************)

LEMMA CallTypes ==
    ASSUME Types, NEW c \in Callers
    PROVE  /\ call[c].at \in {"idle", "resolve", "persist", "done"}
           /\ call[c].at = "resolve" => call[c].stack \in Stacks
           /\ call[c].at \in {"persist", "done"} => call[c].given \in Ids
BY DEF Types, Calls

\* Where a call is, when it hands over no scan, touches nothing else.
LEMMA CallKeepsIInv ==
    ASSUME IInv, NEW c \in Callers, NEW to \in Calls, to.at # "persist",
           Serving \/ to.at # "resolve", call[c].at # "persist",
           call' = [call EXCEPT ![c] = to],
           UNCHANGED <<made, scans, activeScans, files, work, expired, recovering, crashes>>
    PROVE  IInv'
<1>1. Types'
  BY DEF IInv, Types
<1>2. /\ call'[c] = to /\ \A d \in Callers : d # c => call'[d] = call[d]
  BY DEF IInv, Types
<1>3. \A d \in Callers, id \in Ids : Handing(d, id)' <=> Handing(d, id)
  BY <1>2 DEF Handing
<1>4. Handed'
  BY <1>3 DEF IInv, Handed
<1>5. Workers' /\ Stored' /\ ActiveIsLive'
  BY DEF IInv, Workers, Stored, ActiveIsLive
<1>6. Alone'
  BY <1>2, CallTypes, to.at \in {"idle", "resolve", "persist", "done"} DEF IInv, Alone, Serving, Calls
<1>7. UnfinishedIsWorkedOn'
  BY <1>2 DEF IInv, UnfinishedIsWorkedOn
<1> QED
  BY <1>1, <1>4, <1>5, <1>6, <1>7 DEF IInv

LEMMA FindActiveKeepsIInv ==
    ASSUME IInv, NEW c \in Callers, NEW s \in Stacks, FindActive(c, s) PROVE IInv'
<1>1. CASE s \in DOMAIN activeScans
  <2> DEFINE to == [at |-> "done", given |-> activeScans[s]]
  <2>1. activeScans[s] \in Ids
    BY <1>1 DEF IInv, Types
  <2>2. to \in Calls /\ to.at = "done"
    BY <2>1 DEF Calls
  <2>3. call' = [call EXCEPT ![c] = to] /\ call[c].at = "idle"
    BY <1>1 DEF FindActive
  <2> HIDE DEF to
  <2> QED
    BY <2>2, <2>3, CallKeepsIInv DEF FindActive
<1>2. CASE s \notin DOMAIN activeScans
  <2> DEFINE to == [at |-> "resolve", stack |-> s]
  <2>1. to \in Calls /\ to.at = "resolve"
    BY DEF Calls
  <2>2. call' = [call EXCEPT ![c] = to] /\ call[c].at = "idle" /\ Serving
    BY <1>2 DEF FindActive
  <2> HIDE DEF to
  <2> QED
    BY <2>1, <2>2, CallKeepsIInv DEF FindActive
<1> QED
  BY <1>1, <1>2

LEMMA NoImagesKeepsIInv ==
    ASSUME IInv, NEW c \in Callers, NoImages(c) PROVE IInv'
<1> DEFINE to == [at |-> "idle"]
<1>1. to \in Calls /\ to.at = "idle"
  BY DEF Calls
<1>2. call' = [call EXCEPT ![c] = to] /\ call[c].at = "resolve"
  BY DEF NoImages
<1> HIDE DEF to
<1> QED
  BY <1>1, <1>2, CallKeepsIInv DEF NoImages

LEMMA MakeScanKeepsIInv ==
    ASSUME IInv, NEW c \in Callers, NEW total \in 1..NImages, MakeScan(c, total) PROVE IInv'
<1> DEFINE s == call[c].stack
<1> DEFINE new == NewScan(s, total)
<1> DEFINE id == made + 1
<1> DEFINE to == [at |-> "persist", given |-> id]
<1>1. s \in Stacks /\ call[c].at = "resolve"
  BY CallTypes DEF MakeScan, IInv
<1>2. new \in Sound /\ new.stack = s /\ new.status \in Active
  BY <1>1, ScanAssumption DEF NewScan, Sound, Scan, Active
<1>3. made \in Nat /\ made < MaxScans /\ made' = id /\ id \in 1..id /\ id \in Ids
  BY ScanAssumption DEF MakeScan, IInv, Types, Ids
<1>4. id \notin 1..made /\ 1..made \subseteq 1..id
  BY <1>3
<1>5. id \notin DOMAIN scans /\ id \notin DOMAIN files /\ id \notin DOMAIN work
  BY <1>4 DEF IInv, Types
<1>6. to \in Calls /\ to.at = "persist" /\ to.given = id
  BY <1>3 DEF Calls
<1>7. /\ scans' = With(scans, id, new) /\ activeScans' = With(activeScans, s, id)
      /\ call' = [call EXCEPT ![c] = to]
      /\ UNCHANGED <<files, work, expired, recovering, crashes>>
  BY DEF MakeScan
<1> HIDE DEF s, new, id, to
<1>8. /\ DOMAIN scans' = DOMAIN scans \cup {id} /\ scans' \in [DOMAIN scans' -> Sound]
      /\ scans'[id] = new /\ \A k \in DOMAIN scans : scans'[k] = scans[k]
  <2>1. scans \in [DOMAIN scans -> Sound]
    BY DEF IInv, Types
  <2> QED
    BY <1>2, <1>5, <1>7, <2>1 DEF With
<1>9. /\ DOMAIN activeScans' = DOMAIN activeScans \cup {s}
      /\ activeScans' \in [DOMAIN activeScans' -> Ids]
      /\ activeScans'[s] = id /\ \A k \in DOMAIN activeScans : k # s => activeScans'[k] = activeScans[k]
  <2>1. activeScans \in [DOMAIN activeScans -> Ids]
    BY DEF IInv, Types
  <2> QED
    BY <1>3, <1>7, <2>1 DEF With
<1>10. /\ call' \in [Callers -> Calls] /\ call'[c] = to
       /\ \A d \in Callers : d # c => call'[d] = call[d]
  BY <1>6, <1>7 DEF IInv, Types
<1>11. Types'
  BY <1>1, <1>3, <1>4, <1>7, <1>8, <1>9, <1>10, id \in 0..MaxScans, ScanAssumption DEF IInv, Types, Ids
<1>12. Workers' /\ Stored'
  BY <1>5, <1>7, <1>8 DEF IInv, Workers, Stored, Types
<1>13. Handed'
  <2>1. \A d \in Callers, k \in Ids : Handing(d, k)' => (d = c /\ k = id) \/ (Handing(d, k) /\ d # c)
    BY <1>6, <1>10 DEF Handing
  <2>2. \A d \in Callers, k \in Ids : Handing(d, k) => k # id
    BY <1>5 DEF IInv, Handed
  <2> QED
    BY <1>2, <1>5, <1>7, <1>8, <2>1, <2>2 DEF IInv, Handed
<1>14. Serving
  BY <1>1 DEF IInv, Alone
<1>15. Alone'
  BY <1>7, <1>14 DEF IInv, Alone, Serving
<1>16. ActiveIsLive'
  BY <1>2, <1>8, <1>9 DEF IInv, ActiveIsLive
<1>17. UnfinishedIsWorkedOn'
  <2> SUFFICES ASSUME NEW k \in DOMAIN scans', scans'[k].status \in Active
               PROVE  \/ k \in DOMAIN work' /\ work'[k] \notin {"last", "end"}
                      \/ \E d \in Callers : call'[d].at = "persist" /\ call'[d].given = k
    BY DEF UnfinishedIsWorkedOn
  <2>1. CASE k = id
    BY <1>6, <1>10, <2>1
  <2>2. CASE k \in DOMAIN scans
    <3>1. \/ k \in DOMAIN work /\ work[k] \notin {"last", "end"}
          \/ \E d \in Callers : call[d].at = "persist" /\ call[d].given = k
      BY <1>8, <2>2 DEF IInv, UnfinishedIsWorkedOn
    <3> QED
      BY <1>1, <1>7, <1>10, <3>1
  <2> QED
    BY <1>8, <2>1, <2>2
<1> QED
  BY <1>11, <1>12, <1>13, <1>15, <1>16, <1>17 DEF IInv

LEMMA StartWorkKeepsIInv ==
    ASSUME IInv, NEW c \in Callers, StartWork(c) PROVE IInv'
<1> DEFINE id == call[c].given
<1> DEFINE to == [at |-> "done", given |-> id]
<1>1. call[c].at = "persist" /\ id \in Ids /\ Handing(c, id)
  BY CallTypes DEF StartWork, IInv, Handing
<1>2. /\ id \in DOMAIN scans /\ scans[id].status \in Active
      /\ id \notin DOMAIN work /\ id \notin DOMAIN files
      /\ \A d \in Callers : Handing(d, id) => d = c
  BY <1>1 DEF IInv, Handed
<1>3. scans[id] \in Sound /\ id \in 1..made
  BY <1>2 DEF IInv, Types
<1>4. call' = [call EXCEPT ![c] = to]
  BY DEF StartWork
<1>5. to \in Calls /\ to.at = "done"
  BY <1>1 DEF Calls
<1>6. /\ Persist(id, scans[id]) /\ work' = With(work, id, "start")
      /\ UNCHANGED <<made, scans, activeScans, expired, recovering, crashes>>
  BY DEF StartWork, PersistScan
<1> HIDE DEF id, to
<1>7. /\ DOMAIN work' = DOMAIN work \cup {id} /\ work' \in [DOMAIN work' -> Places]
      /\ work'[id] = "start" /\ \A k \in DOMAIN work : work'[k] = work[k]
  <2>1. work \in [DOMAIN work -> Places] /\ "start" \in Places
    BY DEF IInv, Types, Places, Busy
  <2> QED
    BY <1>2, <1>6, <2>1 DEF With
<1>8. /\ DOMAIN files' \subseteq DOMAIN files \cup {id} /\ DOMAIN files \subseteq DOMAIN files'
      /\ files' \in [DOMAIN files' -> Sound \cup {Torn}]
      /\ \A k \in DOMAIN files : files'[k] = files[k]
      /\ id \in DOMAIN files' => files'[id] \in {scans[id], Torn}
  <2> DEFINE S == Sound \cup {Torn}
  <2>1. files \in [DOMAIN files -> S] /\ scans[id] \in S /\ Torn \in S
    BY <1>3 DEF IInv, Types
  <2> HIDE DEF S
  <2>2. /\ DOMAIN files' \in {DOMAIN files, DOMAIN files \cup {id}}
        /\ files' \in [DOMAIN files' -> S]
        /\ \A k \in DOMAIN files : k # id => files'[k] = files[k]
        /\ id \in DOMAIN files' => files'[id] \in {scans[id], Torn}
    <3> DEFINE scan == scans[id]
    <3>1. Persist(id, scan) /\ scan \in S
      BY <1>6, <2>1
    <3> HIDE DEF scan
    <3>2. /\ DOMAIN files' \in {DOMAIN files, DOMAIN files \cup {id}}
          /\ files' \in [DOMAIN files' -> S]
          /\ \A k \in DOMAIN files : k # id => files'[k] = files[k]
          /\ id \in DOMAIN files' => \/ files'[id] \in {scan, Torn}
                                     \/ id \in DOMAIN files /\ files'[id] = files[id]
      BY <2>1, <3>1, PersistLeaves
    <3> QED
      BY <1>2, <3>2 DEF scan
  <2> QED
    BY <1>2, <2>2 DEF S
<1>9. /\ call' \in [Callers -> Calls] /\ call'[c] = to
       /\ \A d \in Callers : d # c => call'[d] = call[d]
  BY <1>4, <1>5 DEF IInv, Types
<1>10. Types'
  BY <1>2, <1>3, <1>6, <1>7, <1>8, <1>9 DEF IInv, Types
<1>11. Workers'
  BY <1>2, <1>6, <1>7, "start" \in Busy DEF IInv, Workers, Busy
<1>12. Handed'
  <2>1. \A d \in Callers, k \in Ids : Handing(d, k)' => Handing(d, k) /\ d # c /\ k # id
    BY <1>2, <1>5, <1>9 DEF Handing
  <2> QED
    BY <1>6, <1>7, <1>8, <2>1 DEF IInv, Handed
<1>13. Stored'
  <2> SUFFICES ASSUME NEW k \in DOMAIN files', k \in DOMAIN work', HasOutcome(files'[k])
               PROVE  work'[k] = "end"
    BY DEF Stored
  <2>1. CASE k = id
    BY <1>2, <1>3, <1>8, <2>1, TornHasNoOutcome, SoundScans
  <2>2. CASE k # id
    BY <1>7, <1>8, <2>2 DEF IInv, Stored
  <2> QED
    BY <2>1, <2>2
<1>14. Alone'
  <2>1. Serving
    BY <1>1 DEF IInv, Alone
  <2> QED
    BY <1>6, <2>1 DEF Alone, Serving
<1>15. ActiveIsLive'
  BY <1>6 DEF IInv, ActiveIsLive
<1>16. UnfinishedIsWorkedOn'
  <2> SUFFICES ASSUME NEW k \in DOMAIN scans, scans[k].status \in Active
               PROVE  \/ k \in DOMAIN work' /\ work'[k] \notin {"last", "end"}
                      \/ \E d \in Callers : call'[d].at = "persist" /\ call'[d].given = k
    BY <1>6 DEF UnfinishedIsWorkedOn
  <2>1. CASE k = id
    BY <1>7, <2>1
  <2>2. CASE k # id
    <3>1. \/ k \in DOMAIN work /\ work[k] \notin {"last", "end"}
          \/ \E d \in Callers : call[d].at = "persist" /\ call[d].given = k
      BY DEF IInv, UnfinishedIsWorkedOn
    <3>2. \A d \in Callers : call[d].given = k => d # c
      BY <2>2 DEF id
    <3> QED
      BY <1>7, <1>9, <3>1, <3>2
  <2> QED
    BY <2>1, <2>2
<1> QED
  BY <1>10, <1>11, <1>12, <1>13, <1>14, <1>15, <1>16 DEF IInv

--------------------------------------------------------------------------------
(***************************************************************************)
(* A step of the goroutine of a scan: it goes to "at" and leaves the scan  *)
(* as "scan", with the stacks in D still at their active scan.             *)
(***************************************************************************)
LEMMA WorkerKeepsIInv ==
    ASSUME IInv, NEW id \in DOMAIN work, NEW scan \in Sound, NEW at \in Places,
           NEW D \in SUBSET DOMAIN activeScans,
           work[id] # "end", scan.stack = scans[id].stack,
           at \in Busy <=> scan.status \in Active,
           at = "scan" => scan.results < scan.total,
           scan.status \notin Active => \A s \in D : activeScans[s] # id,
           work' = [work EXCEPT ![id] = at], scans' = [scans EXCEPT ![id] = scan],
           activeScans' = Restrict(activeScans, D),
           \/ files' = files
           \/ Persist(id, scan) /\ (scan.status \notin Active => at = "end"),
           UNCHANGED <<made, call, expired, recovering, crashes>>
    PROVE  IInv'
<1>1. /\ id \in DOMAIN scans /\ id \in Ids /\ id \in 1..made
      /\ scans \in [DOMAIN scans -> Sound] /\ work \in [DOMAIN work -> Places]
      /\ activeScans \in [DOMAIN activeScans -> Ids]
  BY ScanAssumption DEF IInv, Types, Ids
<1>2. /\ DOMAIN work' = DOMAIN work /\ work' \in [DOMAIN work' -> Places]
      /\ work'[id] = at /\ \A k \in DOMAIN work : k # id => work'[k] = work[k]
  BY <1>1
<1>3. /\ DOMAIN scans' = DOMAIN scans /\ scans' \in [DOMAIN scans' -> Sound]
      /\ scans'[id] = scan /\ \A k \in DOMAIN scans : k # id => scans'[k] = scans[k]
  BY <1>1
<1>4. /\ DOMAIN activeScans' = D /\ activeScans' \in [DOMAIN activeScans' -> Ids]
      /\ \A s \in D : activeScans'[s] = activeScans[s]
  BY <1>1 DEF Restrict
<1>5. /\ DOMAIN files' \subseteq DOMAIN files \cup {id} /\ DOMAIN files \subseteq DOMAIN files'
      /\ files' \in [DOMAIN files' -> Sound \cup {Torn}]
      /\ \A k \in DOMAIN files : k # id => files'[k] = files[k]
      /\ id \in DOMAIN files' => \/ files'[id] \in {scan, Torn} /\ (scan.status \notin Active => at = "end")
                                 \/ id \in DOMAIN files /\ files'[id] = files[id]
  <2> DEFINE S == Sound \cup {Torn}
  <2>1. files \in [DOMAIN files -> S] /\ scan \in S /\ Torn \in S
    BY DEF IInv, Types
  <2> HIDE DEF S
  <2>2. CASE files' = files
    BY <2>1, <2>2 DEF S
  <2>3. CASE Persist(id, scan) /\ (scan.status \notin Active => at = "end")
    <3>1. /\ DOMAIN files' \in {DOMAIN files, DOMAIN files \cup {id}}
          /\ files' \in [DOMAIN files' -> S]
          /\ \A k \in DOMAIN files : k # id => files'[k] = files[k]
          /\ id \in DOMAIN files' => \/ files'[id] \in {scan, Torn}
                                     \/ id \in DOMAIN files /\ files'[id] = files[id]
      BY <2>1, <2>3, PersistLeaves
    <3> QED
      BY <2>3, <3>1 DEF S
  <2> QED
    BY <2>2, <2>3
<1>6. Serving
  BY DEF IInv, Alone
<1>7. Types'
  BY <1>1, <1>2, <1>3, <1>4, <1>5 DEF IInv, Types
<1>8. Workers'
  BY <1>2, <1>3, Types DEF IInv, Workers, Types
<1>9. Handed'
  <2>1. \A d \in Callers, k \in Ids : Handing(d, k) => k # id
    BY DEF IInv, Handed
  <2>2. \A d \in Callers, k \in Ids : Handing(d, k)' <=> Handing(d, k)
    BY DEF Handing
  <2> QED
    BY <1>2, <1>3, <1>5, <2>1, <2>2 DEF IInv, Handed
<1>10. Stored'
  <2> SUFFICES ASSUME NEW k \in DOMAIN files', k \in DOMAIN work', HasOutcome(files'[k])
               PROVE  work'[k] = "end"
    BY DEF Stored
  <2>1. CASE k = id
    <3>1. id \in DOMAIN files => ~HasOutcome(files[id])
      BY DEF IInv, Stored
    <3>2. files'[id] \in {scan, Torn} /\ (scan.status \notin Active => at = "end")
      BY <1>5, <2>1, <3>1
    <3> QED
      BY <1>2, <2>1, <3>2, TornHasNoOutcome, SoundScans
  <2>2. CASE k # id
    BY <1>2, <1>5, <2>2 DEF IInv, Stored
  <2> QED
    BY <2>1, <2>2
<1>11. Alone'
  BY <1>6 DEF Alone, Serving
<1>12. ActiveIsLive'
  <2> SUFFICES ASSUME NEW s \in D
               PROVE  /\ activeScans[s] \in DOMAIN scans /\ scans'[activeScans[s]].stack = s
                      /\ scans'[activeScans[s]].status \in Active
    BY <1>3, <1>4 DEF ActiveIsLive
  <2>1. /\ activeScans[s] \in DOMAIN scans /\ scans[activeScans[s]].stack = s
        /\ scans[activeScans[s]].status \in Active
    BY DEF IInv, ActiveIsLive
  <2>2. CASE activeScans[s] = id
    BY <1>3, <2>1, <2>2
  <2>3. CASE activeScans[s] # id
    BY <1>3, <2>1, <2>3
  <2> QED
    BY <2>2, <2>3
<1>13. UnfinishedIsWorkedOn'
  <2> SUFFICES ASSUME NEW k \in DOMAIN scans, scans'[k].status \in Active
               PROVE  \/ k \in DOMAIN work' /\ work'[k] \notin {"last", "end"}
                      \/ \E d \in Callers : call'[d].at = "persist" /\ call'[d].given = k
    BY <1>3 DEF UnfinishedIsWorkedOn
  <2>1. CASE k = id
    BY <1>2, <1>3, <2>1 DEF Busy
  <2>2. CASE k # id
    BY <1>2, <1>3, <2>2 DEF IInv, UnfinishedIsWorkedOn
  <2> QED
    BY <2>1, <2>2
<1> QED
  BY <1>7, <1>8, <1>9, <1>10, <1>11, <1>12, <1>13 DEF IInv

LEMMA GoroutineKeepsIInv ==
    ASSUME IInv, NEW id \in Ids, Worker(id) PROVE IInv'
<1> DEFINE scan == scans[id]
<1> DEFINE All == DOMAIN activeScans
<1>1. id \in DOMAIN work /\ id \in DOMAIN scans
  BY DEF Worker, Run, Save, NextImage, Scanned, Settle, SaveLast, At, IInv, Types
<1>2. /\ scan \in Sound
      /\ work[id] \in Busy <=> scan.status \in Active
      /\ work[id] = "scan" => scan.results < scan.total
  BY <1>1 DEF IInv, Types, Workers
<1>3. Restrict(activeScans, All) = activeScans /\ [scans EXCEPT ![id] = scan] = scans
  BY <1>1 DEF IInv, Types, Restrict
<1>4. /\ scan.status \in Active \cup {"completed", "failed"}
      /\ scan.results \in Nat /\ scan.total \in Nat /\ scan.results <= scan.total
      /\ scan.status = "completed" => scan.results = scan.total
  BY <1>2, ScanAssumption DEF Sound, Scan
<1>5. CASE Run(id)
  <2> DEFINE new == [scan EXCEPT !.status = "running"]
  <2>1. work[id] = "start"
    BY <1>5 DEF Run, At
  <2>2. new \in Sound /\ new.stack = scan.stack /\ new.status \in Active
    BY <1>2 DEF Sound, Scan, Active
  <2>3. scans' = [scans EXCEPT ![id] = new]
    BY <1>5 DEF Run
  <2>4. work' = [work EXCEPT ![id] = "save"] /\ activeScans' = Restrict(activeScans, All)
    BY <1>3, <1>5 DEF Run, Go
  <2> HIDE DEF new
  <2> QED
    BY <1>1, <1>5, <2>1, <2>2, <2>3, <2>4, WorkerKeepsIInv DEF Run, Busy, Places
<1>6. CASE Save(id)
  <2>1. work[id] = "save" /\ work' = [work EXCEPT ![id] = "next"] /\ Persist(id, scan)
    BY <1>6 DEF Save, At, Go, PersistScan
  <2>2. scans' = [scans EXCEPT ![id] = scan] /\ activeScans' = Restrict(activeScans, All)
    BY <1>3, <1>6 DEF Save
  <2>3. scan.status \in Active /\ "next" \in Places /\ "next" \in Busy
    BY <1>2, <2>1 DEF Busy, Places
  <2> HIDE DEF scan
  <2> QED
    BY <1>1, <1>2, <1>6, <2>1, <2>2, <2>3, scan.stack = scans[id].stack, WorkerKeepsIInv DEF Save, scan
<1>7. CASE NextImage(id)
  <2>1. work[id] = "next" /\ work' = [work EXCEPT ![id] = "scan"] /\ scan.results < scan.total
    BY <1>7 DEF NextImage, At, Go, ToScan
  <2>2. scans' = [scans EXCEPT ![id] = scan] /\ activeScans' = Restrict(activeScans, All)
    BY <1>3, <1>7 DEF NextImage
  <2>3. scan.status \in Active /\ "scan" \in Places /\ "scan" \in Busy
    BY <1>2, <2>1 DEF Busy, Places
  <2> QED
    BY <1>1, <1>2, <1>7, <2>1, <2>2, <2>3, WorkerKeepsIInv DEF NextImage
<1>8. CASE Scanned(id)
  <2> DEFINE new == [scan EXCEPT !.results = @ + 1]
  <2>1. work[id] = "scan" /\ work' = [work EXCEPT ![id] = "save"]
    BY <1>8 DEF Scanned, At, Go
  <2>2. scans' = [scans EXCEPT ![id] = new] /\ activeScans' = Restrict(activeScans, All)
    BY <1>3, <1>8 DEF Scanned
  <2>3. scan.status \in Active /\ "save" \in Places /\ "save" \in Busy
    BY <1>2, <2>1 DEF Busy, Places
  <2>4. scan.total <= NImages /\ scan.results < scan.total /\ scan \in Scan
    BY <1>2, <2>1, SoundScans
  <2>5. new.stack = scan.stack /\ new.status = scan.status
        /\ new.results = scan.results + 1 /\ new.total = scan.total /\ new \in Scan
    BY <1>4, <2>4, ScanAssumption DEF Scan
  <2> HIDE DEF new
  <2>6. new \in Sound
    <3>1. new.results <= new.total /\ new.status # "completed"
      BY <1>4, <2>3, <2>4, <2>5 DEF Active
    <3> QED
      BY <2>5, <3>1 DEF Sound
  <2> QED
    BY <1>1, <1>8, <2>1, <2>2, <2>3, <2>5, <2>6, WorkerKeepsIInv DEF Scanned
<1>9. CASE Settle(id)
  <2> DEFINE new == [scan EXCEPT !.status = IF id \in expired THEN "failed" ELSE "completed"]
  <2> DEFINE D == All \ {scan.stack}
  <2>1. work[id] = "next" /\ work' = [work EXCEPT ![id] = "last"]
    BY <1>9 DEF Settle, At, Go
  <2>2. scans' = [scans EXCEPT ![id] = new] /\ activeScans' = Restrict(activeScans, D)
    BY <1>9 DEF Settle
  <2>3. id \notin expired => scan.results = scan.total
    BY <1>4, <1>9 DEF Settle, ToScan
  <2>4. /\ new \in Scan /\ new.stack = scan.stack /\ new.results = scan.results
        /\ new.total = scan.total /\ new.status \in {"failed", "completed"}
        /\ new.status = "completed" => id \notin expired
    BY <1>2 DEF Sound, Scan
  <2>5. new \in Sound /\ new.status \notin Active /\ "last" \notin Busy /\ "last" \in Places
    BY <1>4, <2>3, <2>4 DEF Sound, Active, Busy, Places
  <2>6. D \in SUBSET DOMAIN activeScans /\ \A s \in D : activeScans[s] # id
    BY DEF IInv, ActiveIsLive
  <2>7. work[id] # "end" /\ new.stack = scans[id].stack
    BY <2>1, <2>4
  <2>8. /\ "last" \in Busy <=> new.status \in Active
        /\ "last" = "scan" => new.results < new.total
        /\ new.status \notin Active => \A s \in D : activeScans[s] # id
    BY <2>5, <2>6
  <2>9. files' = files /\ UNCHANGED <<made, call, expired, recovering, crashes>>
    BY <1>9 DEF Settle
  <2> HIDE DEF new, D, scan, All
  <2> QED
    BY <1>1, <2>1, <2>2, <2>5, <2>6, <2>7, <2>8, <2>9, WorkerKeepsIInv
<1>10. CASE SaveLast(id)
  <2>1. work[id] = "last" /\ work' = [work EXCEPT ![id] = "end"] /\ Persist(id, scan)
    BY <1>10 DEF SaveLast, At, Go, PersistScan
  <2>2. scan.status \notin Active /\ "end" \in Places /\ "end" \notin Busy
    BY <1>2, <2>1 DEF Busy, Places
  <2>3. scans' = [scans EXCEPT ![id] = scan] /\ activeScans' = Restrict(activeScans, All)
    BY <1>3, <1>10 DEF SaveLast
  <2>4. \A s \in All : activeScans[s] # id
    BY <2>2 DEF IInv, ActiveIsLive
  <2> QED
    BY <1>1, <1>2, <1>10, <2>1, <2>2, <2>3, <2>4, WorkerKeepsIInv DEF SaveLast
<1> QED
  BY <1>5, <1>6, <1>7, <1>8, <1>9, <1>10 DEF Worker

LEMMA ExpireKeepsIInv ==
    ASSUME IInv, NEW id \in Ids, Expire(id) PROVE IInv'
<1>1. Types' /\ Workers' /\ Stored'
  BY DEF Expire, IInv, Types, Workers, Stored
<1>2. Handed' /\ Alone' /\ ActiveIsLive' /\ UnfinishedIsWorkedOn'
  BY DEF Expire, IInv, Handed, Handing, Alone, Serving, ActiveIsLive, UnfinishedIsWorkedOn
<1> QED
  BY <1>1, <1>2 DEF IInv

--------------------------------------------------------------------------------
(***************************************************************************)
(* A crash and the recovery after it.                                      *)
(***************************************************************************)

\* Only the file of a scan that was made is written, and never one with an
\* outcome.
LEMMA WritingIsMade ==
    ASSUME IInv, NEW id \in Writing
    PROVE  id \in 1..made /\ (id \in DOMAIN files => ~HasOutcome(files[id]))
<1>1. CASE id \in DOMAIN work /\ work[id] \in {"save", "last"}
  BY <1>1 DEF IInv, Types, Stored
<1>2. ASSUME NEW c \in Callers, call[c].at = "persist", id = call[c].given
      PROVE  id \in DOMAIN scans /\ id \notin DOMAIN files
  BY <1>2, CallTypes DEF IInv, Handed, Handing
<1>3. CASE id \in DOMAIN recovering /\ recovering[id].status \in Active
  BY <1>3 DEF IInv, Types, Alone, HasOutcome
<1> QED
  BY <1>1, <1>2, <1>3 DEF Writing, IInv, Types

LEMMA CrashKeepsIInv ==
    ASSUME IInv, NEW torn \in SUBSET Ids, Crash(torn) PROVE IInv'
<1> DEFINE read == { id \in DOMAIN files' : files'[id] # Torn }
<1>1. /\ torn \subseteq 1..made /\ made' = made /\ crashes < MaxCrashes /\ crashes' = crashes + 1
      /\ scans' = << >> /\ activeScans' = << >> /\ work' = << >> /\ expired' = {}
  BY WritingIsMade DEF Crash
<1>2. DOMAIN << >> = {} /\ \A S : << >> \in [{} -> S]
  OBVIOUS
<1>3. /\ DOMAIN scans' = {} /\ scans' \in [DOMAIN scans' -> Sound]
      /\ DOMAIN activeScans' = {} /\ activeScans' \in [DOMAIN activeScans' -> Ids]
      /\ DOMAIN work' = {} /\ work' \in [DOMAIN work' -> Places]
  BY <1>1, <1>2
<1>4. /\ DOMAIN files' = DOMAIN files \cup torn
      /\ files' \in [DOMAIN files' -> Sound \cup {Torn}]
  BY DEF Crash, IInv, Types
<1>5. /\ DOMAIN recovering' = read /\ recovering' \in [DOMAIN recovering' -> Sound]
      /\ \A id \in read : recovering'[id] = files'[id]
  <2>1. recovering' = Restrict(files', read)
    BY DEF Crash
  <2>2. \A id \in read : files'[id] \in Sound
    BY <1>4
  <2> QED
    BY <2>1, <2>2 DEF Restrict
<1>6. /\ call' \in [Callers -> Calls]
      /\ \A c \in Callers : call'[c].at \in {"idle", "done"}
  <2>1. [at |-> "idle"] \in Calls
    BY DEF Calls
  <2> QED
    BY <2>1 DEF Crash, IInv, Types
<1>7. Types'
  <2>1. crashes' \in 0..MaxCrashes
    BY <1>1, ScanAssumption DEF IInv, Types
  <2>2. DOMAIN files' \subseteq 1..made'
    BY <1>1, <1>4 DEF IInv, Types
  <2> QED
    BY <1>1, <1>3, <1>4, <1>5, <1>6, <2>1, <2>2 DEF IInv, Types
<1>8. Handed'
  BY <1>6 DEF Handed, Handing
<1>9. Workers' /\ Stored' /\ Alone' /\ ActiveIsLive' /\ UnfinishedIsWorkedOn'
  BY <1>3, <1>5, <1>6 DEF Workers, Stored, Alone, ActiveIsLive, UnfinishedIsWorkedOn
<1> QED
  BY <1>7, <1>8, <1>9 DEF IInv

LEMMA RecoverKeepsIInv ==
    ASSUME IInv, NEW id \in Ids, Recover(id) PROVE IInv'
<1> DEFINE left == recovering[id]
<1> DEFINE scan == IF left.status \in Active THEN Failed(left) ELSE left
<1>1. /\ id \in DOMAIN recovering /\ left \in Sound /\ id \in DOMAIN files /\ id \in 1..made
      /\ files[id] = left
  BY DEF Recover, IInv, Types, Alone
<1>2. scan \in Sound /\ scan.status \notin Active
  BY <1>1, SoundScans
<1>3. /\ DOMAIN work = {} /\ DOMAIN activeScans = {}
      /\ \A c \in Callers : call[c].at \in {"idle", "done"}
  BY <1>1 DEF IInv, Alone, Serving
<1>4. /\ files' = files \/ Persist(id, scan)
      /\ recovering' = Restrict(recovering, DOMAIN recovering \ {id})
      /\ UNCHANGED <<made, activeScans, call, work, expired, crashes>>
  BY DEF Recover
<1>5. scans' = With(scans, id, scan)
  BY DEF Recover
<1> HIDE DEF scan, left
<1>6. /\ DOMAIN scans' = DOMAIN scans \cup {id} /\ scans' \in [DOMAIN scans' -> Sound]
      /\ scans'[id] = scan /\ \A k \in DOMAIN scans : k # id => scans'[k] = scans[k]
  <2>1. scans \in [DOMAIN scans -> Sound]
    BY DEF IInv, Types
  <2> QED
    BY <1>2, <1>5, <2>1 DEF With
<1>7. /\ DOMAIN files' = DOMAIN files /\ files' \in [DOMAIN files' -> Sound \cup {Torn}]
      /\ \A k \in DOMAIN files : k # id => files'[k] = files[k]
  <2> DEFINE S == Sound \cup {Torn}
  <2>1. files \in [DOMAIN files -> S] /\ scan \in S /\ Torn \in S
    BY <1>2 DEF IInv, Types
  <2> HIDE DEF S
  <2>2. CASE files' = files
    BY <2>1, <2>2 DEF S
  <2>3. CASE Persist(id, scan)
    <3>1. /\ DOMAIN files' \in {DOMAIN files, DOMAIN files \cup {id}}
          /\ files' \in [DOMAIN files' -> S]
          /\ \A k \in DOMAIN files : k # id => files'[k] = files[k]
          /\ id \in DOMAIN files' => \/ files'[id] \in {scan, Torn}
                                     \/ id \in DOMAIN files /\ files'[id] = files[id]
      BY <2>1, <2>3, PersistLeaves
    <3> QED
      BY <1>1, <3>1 DEF S
  <2> QED
    BY <1>4, <2>2, <2>3
<1>8. /\ DOMAIN recovering' = DOMAIN recovering \ {id}
      /\ recovering' \in [DOMAIN recovering' -> Sound]
      /\ \A k \in DOMAIN recovering' : recovering'[k] = recovering[k]
  BY <1>4 DEF IInv, Types, Restrict
<1>9. Types'
  BY <1>1, <1>3, <1>4, <1>6, <1>7, <1>8 DEF IInv, Types
<1>10. Workers' /\ Stored' /\ ActiveIsLive'
  BY <1>3, <1>4 DEF Workers, Stored, ActiveIsLive
<1>11. Handed'
  BY <1>3, <1>4 DEF Handed, Handing
<1>12. Alone'
  BY <1>3, <1>4, <1>7, <1>8 DEF IInv, Types, Alone
<1>13. UnfinishedIsWorkedOn'
  <2> SUFFICES ASSUME NEW k \in DOMAIN scans', scans'[k].status \in Active
               PROVE  FALSE
    BY DEF UnfinishedIsWorkedOn
  <2>1. k \in DOMAIN scans /\ scans[k].status \in Active
    BY <1>2, <1>6
  <2> QED
    BY <1>3, <2>1 DEF IInv, UnfinishedIsWorkedOn
<1> QED
  BY <1>9, <1>10, <1>11, <1>12, <1>13 DEF IInv

--------------------------------------------------------------------------------
(***************************************************************************)
(* The invariant, and what follows from it.                                *)
(***************************************************************************)

LEMMA InitIInv == Init => IInv
<1> SUFFICES ASSUME Init PROVE IInv
  OBVIOUS
<1>1. DOMAIN << >> = {} /\ \A S : << >> \in [{} -> S]
  OBVIOUS
<1>2. [at |-> "idle"] \in Calls
  BY DEF Calls
<1>3. Types
  BY <1>1, <1>2, ScanAssumption DEF Init, Types
<1>4. Workers /\ Stored /\ Alone /\ ActiveIsLive /\ UnfinishedIsWorkedOn
  BY <1>1 DEF Init, Workers, Stored, Alone, Serving, ActiveIsLive, UnfinishedIsWorkedOn
<1>5. Handed
  BY DEF Init, Handed, Handing
<1> QED
  BY <1>3, <1>4, <1>5 DEF IInv

LEMMA StutterKeepsIInv == IInv /\ UNCHANGED vars => IInv'
<1> SUFFICES ASSUME IInv, UNCHANGED vars PROVE IInv'
  OBVIOUS
<1>1. Types' /\ Workers' /\ Stored'
  BY DEF vars, IInv, Types, Workers, Stored
<1>2. Handed' /\ Alone' /\ ActiveIsLive' /\ UnfinishedIsWorkedOn'
  BY DEF vars, IInv, Handed, Handing, Alone, Serving, ActiveIsLive, UnfinishedIsWorkedOn
<1> QED
  BY <1>1, <1>2 DEF IInv

LEMMA NextKeepsIInv == IInv /\ [Next]_vars => IInv'
<1> SUFFICES ASSUME IInv, [Next]_vars PROVE IInv'
  OBVIOUS
<1>1. ASSUME NEW c \in Callers, Request(c) \/ StartWork(c) PROVE IInv'
  BY <1>1, FindActiveKeepsIInv, NoImagesKeepsIInv, MakeScanKeepsIInv, StartWorkKeepsIInv DEF Request
<1>2. ASSUME NEW id \in Ids, Worker(id) \/ Expire(id) \/ Recover(id) PROVE IInv'
  BY <1>2, GoroutineKeepsIInv, ExpireKeepsIInv, RecoverKeepsIInv
<1>3. ASSUME NEW torn \in SUBSET Ids, Crash(torn) PROVE IInv'
  BY <1>3, CrashKeepsIInv
<1> QED
  BY <1>1, <1>2, <1>3, StutterKeepsIInv DEF Next

LEMMA InvariantHolds == Spec => []IInv
BY InitIInv, NextKeepsIInv, PTL DEF Spec

(***************************************************************************)
(* The types; in particular no scan ever has more results than it can      *)
(* have images.                                                            *)
(***************************************************************************)
THEOREM ScanTypes == Spec => []TypeOK
<1>1. IInv => TypeOK
  <2> SUFFICES ASSUME IInv PROVE TypeOK
    OBVIOUS
  <2>1. 1..made \subseteq Ids /\ Sound \subseteq Scan
    BY ScanAssumption DEF IInv, Types, Ids, Sound
  <2>2. Range(activeScans) \subseteq Ids
    BY DEF IInv, Types, Range
  <2>3. \A c \in Callers : call[c].at \in {"idle", "resolve", "persist", "done"}
    BY CallTypes DEF IInv
  <2> QED
    BY <2>1, <2>2, <2>3 DEF IInv, Types, TypeOK, Places, Busy
<1> QED
  BY <1>1, InvariantHolds, PTL

(***************************************************************************)
(* A request is answered with a scan of its own stack that has not ended,  *)
(* or with a new one, however many scans of the stack run at once.         *)
(***************************************************************************)
THEOREM AnswersAreLive == Spec => []ActiveIsLive
<1>1. IInv => ActiveIsLive
  BY DEF IInv
<1> QED
  BY <1>1, InvariantHolds, PTL

(***************************************************************************)
(* A scan that executeScan or a file calls completed has a result for each *)
(* of its images.                                                          *)
(***************************************************************************)
THEOREM NothingIsSkipped == Spec => []CompletedIsComplete
<1>1. IInv => CompletedIsComplete
  <2>1. \A scan \in Sound \cup {Torn} : scan.status = "completed" => scan.results = scan.total
    BY DEF Sound, Torn
  <2> QED
    BY <2>1 DEF IInv, Types, CompletedIsComplete
<1> QED
  BY <1>1, InvariantHolds, PTL

(***************************************************************************)
(* After recoverScans no scan is pending or running without a goroutine or *)
(* a request that is about to start it.                                    *)
(***************************************************************************)
THEOREM NothingIsAbandoned == Spec => []UnfinishedIsWorkedOn
<1>1. IInv => UnfinishedIsWorkedOn
  BY DEF IInv
<1> QED
  BY <1>1, InvariantHolds, PTL

--------------------------------------------------------------------------------
\* PersistScan leaves the files of other scans as they are.
LEMMA PersistSparesOthers ==
    ASSUME NEW id, NEW scan, Persist(id, scan), NEW k \in DOMAIN files, k # id
    PROVE  k \in DOMAIN files' /\ files'[k] = files[k]
BY DEF Persist, With

\* No step, and no restart, replaces a file with an outcome.
LEMMA OutcomeKept ==
    ASSUME IInv, [Next]_vars, NEW id \in DOMAIN files, HasOutcome(files[id])
    PROVE  id \in DOMAIN files' /\ files'[id] = files[id]
<1>1. CASE files' = files
  BY <1>1
<1>2. ASSUME NEW c \in Callers, StartWork(c)
      PROVE  id \in DOMAIN files' /\ files'[id] = files[id]
  <2>1. call[c].given # id
    BY <1>2, CallTypes DEF StartWork, IInv, Handed, Handing
  <2> QED
    BY <1>2, <2>1, PersistSparesOthers DEF StartWork, PersistScan
<1>3. ASSUME NEW k \in Ids, Save(k) \/ SaveLast(k)
      PROVE  id \in DOMAIN files' /\ files'[id] = files[id]
  <2>1. k # id
    BY <1>3 DEF Save, SaveLast, At, IInv, Stored
  <2> QED
    BY <1>3, <2>1, PersistSparesOthers DEF Save, SaveLast, PersistScan
<1>4. ASSUME NEW torn \in SUBSET Ids, Crash(torn)
      PROVE  id \in DOMAIN files' /\ files'[id] = files[id]
  <2>1. id \notin torn
    BY <1>4, WritingIsMade DEF Crash
  <2> QED
    BY <1>4, <2>1 DEF Crash
<1>5. ASSUME NEW k \in Ids, Recover(k)
      PROVE  id \in DOMAIN files' /\ files'[id] = files[id]
  <2>1. CASE k = id
    BY <1>5, <2>1 DEF Recover, IInv, Alone, HasOutcome
  <2>2. CASE k # id
    <3>1. files' = files \/ \E scan : Persist(k, scan)
      BY <1>5 DEF Recover
    <3> QED
      BY <2>2, <3>1, PersistSparesOthers
  <2> QED
    BY <2>1, <2>2
<1>6. CASE UNCHANGED vars
  BY <1>6 DEF vars
<1> QED
  BY <1>1, <1>2, <1>3, <1>4, <1>5, <1>6
     DEF Next, Request, FindActive, NoImages, MakeScan, Worker, Run, NextImage, Scanned, Settle, Expire

(***************************************************************************)
(* What a file says of how its scan ended is never written over, neither   *)
(* by PersistScan nor by a crash or the recovery after it.                 *)
(***************************************************************************)
THEOREM OutcomesStay == Spec => StoredOutcomeStays
<1>1. IInv /\ [Next]_vars =>
          [\A id \in DOMAIN files :
               (files[id] # Torn /\ files[id].status \notin Active)
                   => (id \in DOMAIN files' /\ files'[id] = files[id])]_vars
  BY OutcomeKept DEF HasOutcome
<1> QED
  BY <1>1, InvariantHolds, PTL DEF Spec, StoredOutcomeStays
================================================================================
