-------------------------------- MODULE RunIndex --------------------------------
(***************************************************************************)
(* The run records of one stack and the summary index over them            *)
(* (internal/backup/metadata.go).  PersistRun and DeleteRun change a run's *)
(* file first and the index afterwards; only the second is under indexMu.  *)
(* RunSummaries holds indexMu, and trusts an index that has as many        *)
(* entries as there are files.                                             *)
(*                                                                         *)
(* The calls that write are made one at a time: creates and restores by    *)
(* the operations service, deletes by the lock of the repository.  A file  *)
(* is replaced by a rename, so it is whole or not there.                   *)
(***************************************************************************)
EXTENDS Naturals, FiniteSets

CONSTANTS RunIds,   \* uuids of runs
          Listers,  \* listing requests
          Nobody    \* indexMu is free

ASSUME RunIndexAssumption == Nobody \notin Listers

VARIABLES file,     \* what the file of each run says, or "none"
          index,    \* the index: a summary for each run, or NoIndex
          writer,   \* the PersistRun or DeleteRun in progress
          up,       \* the agent serves requests
          indexMu,  \* the lister that holds the mutex, or Nobody
          lister,   \* the RunSummaries calls in progress
          listing,  \* what the last listing said
          born,     \* history: run ids handed out
          torn,     \* history: runs a crash has left differing from the index
          unsure    \* history: a write that was logged as failed has left
                    \* the index possibly stale

historyVars == <<born, torn, unsure>>
vars == <<file, index, writer, up, indexMu, lister, listing, historyVars>>

Statuses == {"none", "running", "settled"}
NoIndex == [exists |-> FALSE]
Index(summaries) == [exists |-> TRUE, summaries |-> summaries]
Empty == [r \in RunIds |-> "none"]
Runs(summaries) == { r \in RunIds : summaries[r] # "none" }

AtRest == [does |-> "nothing"]
Away == [at |-> "away"]
Unlisted == [known |-> FALSE]

Init ==
    /\ file = Empty
    /\ index = NoIndex
    /\ writer = AtRest
    /\ up = TRUE
    /\ indexMu = Nobody
    /\ lister = [l \in Listers |-> Away]
    /\ listing = Unlisted
    /\ born = {}
    /\ torn = {}
    /\ unsure = FALSE

--------------------------------------------------------------------------------
\* Mutant: an index that cannot be replaced is kept.
writeIndexKeeping(summaries) ==
    \/ /\ index' = Index(summaries)
       /\ torn' = { r \in torn : summaries[r] # file[r] }
       /\ UNCHANGED unsure
    \/ UNCHANGED <<index, torn, unsure>>

(***************************************************************************)
(* writeIndex: the index is replaced, or dropped when that fails; a drop   *)
(* that fails too leaves the old one.                                      *)
(***************************************************************************)
writeIndex(summaries) ==
    \/ /\ index' = Index(summaries)
       /\ torn' = { r \in torn : summaries[r] # file[r] }
       /\ UNCHANGED unsure
    \/ index' = NoIndex /\ torn' = {} /\ UNCHANGED unsure
    \/ UNCHANGED <<index, torn>> /\ unsure' = TRUE

\* updateIndex: a missing index is rebuilt from the files, otherwise the
\* entry of run r is set or removed.
updateIndex(r, status) ==
    IF index = NoIndex
    THEN writeIndex(file)
    ELSE writeIndex([index.summaries EXCEPT ![r] = status])

\* PersistRun, of a new run, of a run in progress or of its outcome.
BeginPersist(r, status) ==
    /\ up /\ writer = AtRest
    /\ \/ r \notin born /\ status = "running"
       \/ file[r] = "running"
    /\ writer' = [does |-> "persist", run |-> r, status |-> status, wrote |-> FALSE]
    /\ born' = born \cup {r}
    /\ UNCHANGED <<file, index, up, indexMu, lister, listing, torn, unsure>>

BeginDelete(r) ==
    /\ up /\ writer = AtRest
    /\ file[r] # "none"
    /\ writer' = [does |-> "delete", run |-> r, status |-> "none", wrote |-> FALSE]
    /\ UNCHANGED <<file, index, up, indexMu, lister, listing, historyVars>>

Leave == writer' = IF up THEN AtRest ELSE [does |-> "hygiene"]

\* The file is renamed over, or removed; if that fails the call ends.
ChangeFile ==
    /\ writer.does \in {"persist", "delete"} /\ ~writer.wrote
    /\ \/ /\ file' = [file EXCEPT ![writer.run] = writer.status]
          /\ writer' = [writer EXCEPT !.wrote = TRUE]
          /\ UNCHANGED unsure
       \/ Leave /\ unsure' = (unsure \/ ~up) /\ UNCHANGED file
    /\ UNCHANGED <<index, up, indexMu, lister, listing, born, torn>>

\* Mutant: the index is written without indexMu.
UpdateUnlocked ==
    /\ writer.does \in {"persist", "delete"} /\ writer.wrote
    /\ updateIndex(writer.run, writer.status)
    /\ IF writer.does = "delete" THEN writer' = [does |-> "discard"] ELSE Leave
    /\ UNCHANGED <<file, up, indexMu, lister, listing, born>>

Update ==
    /\ writer.does \in {"persist", "delete"} /\ writer.wrote
    /\ indexMu = Nobody
    /\ updateIndex(writer.run, writer.status)
    /\ IF writer.does = "delete" THEN writer' = [does |-> "discard"] ELSE Leave
    /\ UNCHANGED <<file, up, indexMu, lister, listing, born>>

(***************************************************************************)
(* discardStackIfEmpty, without indexMu: the index of a stack that has no  *)
(* runs left is removed after its directory, if both can be.               *)
(***************************************************************************)
Discard ==
    /\ writer.does = "discard"
    /\ writer' = AtRest
    /\ \/ Runs(file) = {} /\ index' = NoIndex
       \/ UNCHANGED index
    /\ UNCHANGED <<file, up, indexMu, lister, listing, historyVars>>
--------------------------------------------------------------------------------
\* RunSummaries.

\* Mutant: the index is never found to have drifted.
indexNeverDrifted(summaries) == FALSE

indexDrifted(summaries) == Cardinality(Runs(summaries)) # Cardinality(Runs(file))

Return(l, summaries) ==
    /\ lister' = [lister EXCEPT ![l] = Away]
    /\ listing' = [known |-> TRUE, summaries |-> summaries]
    /\ indexMu' = Nobody

(***************************************************************************)
(* The index is returned, or the directory is read for a rebuild.          *)
(***************************************************************************)
ReadIndex(l) ==
    /\ up /\ lister[l] = Away /\ indexMu = Nobody
    /\ IF index # NoIndex /\ ~indexDrifted(index.summaries)
       THEN Return(l, index.summaries)
       ELSE /\ lister' = [lister EXCEPT ![l] =
                    [at |-> "load", unread |-> Runs(file), found |-> Empty]]
            /\ indexMu' = l
            /\ UNCHANGED listing
    /\ UNCHANGED <<file, index, writer, up, historyVars>>

\* The files are read one by one; one removed meanwhile is left out.
LoadRun(l) ==
    /\ lister[l].at = "load"
    /\ \E r \in lister[l].unread :
           lister' = [lister EXCEPT ![l].unread = @ \ {r}, ![l].found[r] = file[r]]
    /\ UNCHANGED <<file, index, writer, up, indexMu, listing, historyVars>>

Rebuilt(l) ==
    /\ lister[l].at = "load" /\ lister[l].unread = {}
    /\ writeIndex(lister[l].found)
    /\ Return(l, lister[l].found)
    /\ UNCHANGED <<file, writer, up, born>>
--------------------------------------------------------------------------------
(***************************************************************************)
(* The agent dies, perhaps between a file and its index entry.             *)
(***************************************************************************)
Crash ==
    /\ up \/ writer.does # "hygiene"
    /\ up' = FALSE
    /\ torn' = IF writer.does \in {"persist", "delete"} /\ writer.wrote /\ index # NoIndex
               THEN torn \cup {writer.run} ELSE torn
    /\ writer' = [does |-> "hygiene"]
    /\ indexMu' = Nobody
    /\ lister' = [l \in Listers |-> Away]
    /\ UNCHANGED <<file, index, listing, born, unsure>>

\* MarkInterruptedRuns persists every run that is still "running" before
\* requests are served; a run it cannot write is passed over.
MarkInterrupted(r) ==
    /\ writer.does = "hygiene"
    /\ file[r] = "running"
    /\ writer' = [does |-> "persist", run |-> r, status |-> "settled", wrote |-> FALSE]
    /\ UNCHANGED <<file, index, up, indexMu, lister, listing, historyVars>>

Serve ==
    /\ writer.does = "hygiene"
    /\ unsure \/ \A r \in RunIds : file[r] # "running"
    /\ writer' = AtRest
    /\ up' = TRUE
    /\ UNCHANGED <<file, index, indexMu, lister, listing, historyVars>>

Next ==
    \/ \E r \in RunIds :
           \/ \E status \in {"running", "settled"} : BeginPersist(r, status)
           \/ BeginDelete(r)
           \/ MarkInterrupted(r)
    \/ ChangeFile \/ Update \/ Discard
    \/ \E l \in Listers : ReadIndex(l) \/ LoadRun(l) \/ Rebuilt(l)
    \/ Crash
    \/ Serve

Spec == Init /\ [][Next]_vars
--------------------------------------------------------------------------------
(***************************************************************************)
(* When nothing writes, an index that would be trusted says of every run   *)
(* what its file says: no interleaving of a rebuild with a writer loses an *)
(* update, and one crash between a file and the index is noticed by the    *)
(* count of the files - unless it overwrote the file of a run that was     *)
(* listed already, which then keeps its old entry.                         *)
(***************************************************************************)
Overwritten(r) == r \in torn /\ index.summaries[r] # "none" /\ file[r] # "none"
TrustedIndexAgrees ==
    (/\ writer = AtRest /\ indexMu = Nobody /\ index # NoIndex
     /\ ~indexDrifted(index.summaries)
     /\ ~unsure /\ Cardinality(torn) <= 1) =>
        \A r \in RunIds : index.summaries[r] = file[r] \/ Overwritten(r)

(***************************************************************************)
(* A run that has been listed as settled is not listed as running later.   *)
(***************************************************************************)
NoGoingBack ==
    [][(listing.known /\ listing'.known /\ ~unsure') =>
          \A r \in RunIds : listing.summaries[r] = "settled" =>
              listing'.summaries[r] # "running"]_vars
================================================================================
