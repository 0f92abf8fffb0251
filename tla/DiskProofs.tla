------------------------------- MODULE DiskProofs -------------------------------
(***************************************************************************)
(* Proofs about what the agent keeps on disk.                              *)
(*                                                                         *)
(* RunIndex, for any number of runs and of listers: an index that would be *)
(* trusted says what the files say, and no listing takes a run back to     *)
(* where it was.                                                           *)
(*                                                                         *)
(* LogRotation, for any sizes, days and numbers of entries: the audit log  *)
(* keeps every entry, once and in order, and no rotation takes a name that *)
(* is in use.                                                              *)
(*                                                                         *)
(* StackFiles, for any requests at the same time, any files and any        *)
(* depths: what is written under a temporary name is seen whole or not at  *)
(* all, and the requests use the audit log as it is specified.  Then what  *)
(* each step of a request does to the tree and the files, and what all the *)
(* changes of one edit mean; module AtomicProofs rests on both.            *)
(***************************************************************************)
EXTENDS RunIndex, StackFiles, FiniteSetTheorems, SequenceTheorems, WellFoundedInduction, TLAPS

(***************************************************************************)
(* The records of the runs and their index.                                *)
(***************************************************************************)

Summaries == [RunIds -> Statuses]
Call == [does : {"persist", "delete"}, run : RunIds, status : Statuses, wrote : BOOLEAN]
Loading == [at : {"load"}, unread : SUBSET RunIds, found : Summaries]

Types ==
    /\ file \in Summaries
    /\ index \in {NoIndex} \cup [exists : {TRUE}, summaries : Summaries]
    /\ writer \in {AtRest, [does |-> "hygiene"], [does |-> "discard"]} \cup Call
    /\ up \in BOOLEAN
    /\ indexMu \in Listers \cup {Nobody}
    /\ lister \in [Listers -> {Away} \cup Loading]
    /\ listing \in {Unlisted} \cup [known : {TRUE}, summaries : Summaries]
    /\ born \subseteq RunIds
    /\ torn \subseteq RunIds
    /\ unsure \in BOOLEAN

\* A lister that loads the files holds the mutex.
Exclusive == \A l \in Listers : lister[l] # Away => indexMu = l

\* Whatever is known of a run, it is one that has been made; those are finitely
\* many, so that they can be counted.
Known ==
    /\ IsFiniteSet(born)
    /\ Runs(file) \subseteq born
    /\ index # NoIndex => Runs(index.summaries) \subseteq born
    /\ \A l \in Listers : lister[l] # Away => Runs(lister[l].found) \subseteq born
    /\ torn \subseteq born
    /\ writer \in Call => writer.run \in born

\* The call that has changed its file and not yet the index.
Wrote == writer \in Call /\ writer.wrote
Ahead(r) == Wrote /\ r = writer.run

\* The index and what a lister has read say what the files say, but for the run
\* whose entry is still to be written and, in the index, for those a crash left.
Follows ==
    /\ Wrote => file[writer.run] = writer.status
    /\ (index # NoIndex /\ ~unsure) =>
          \A r \in RunIds : index.summaries[r] = file[r] \/ r \in torn \/ Ahead(r)
    /\ \A l \in Listers : lister[l] # Away =>
          \A r \in RunIds :
              r \in lister[l].unread \/ lister[l].found[r] = file[r] \/ Ahead(r)

\* A run that has been settled, or has been removed, does not run again.
Past(r) ==
    /\ r \in born /\ file[r] # "running"
    /\ writer \in Call /\ writer.run = r => writer.status # "running"
Settled ==
    \A r \in RunIds :
        /\ file[r] = "settled" => Past(r)
        /\ index # NoIndex /\ index.summaries[r] = "settled" => Past(r)
        /\ \A l \in Listers :
              lister[l] # Away /\ lister[l].found[r] = "settled" => Past(r)
        /\ listing.known /\ listing.summaries[r] = "settled" => Past(r)

\* What was listed as settled is not found running by whoever lists next.
Forward ==
    (listing.known /\ ~unsure) =>
        \A r \in RunIds : listing.summaries[r] = "settled" =>
            /\ index # NoIndex => index.summaries[r] # "running"
            /\ \A l \in Listers : lister[l] # Away => lister[l].found[r] # "running"

IInv == Types /\ Exclusive /\ Known /\ Follows /\ Settled /\ Forward

--------------------------------------------------------------------------------
LEMMA InitIInv == Init => IInv
<1> SUFFICES ASSUME Init PROVE IInv
  OBVIOUS
<1> USE DEF Init, Empty, Statuses
<1>1. Types
  BY DEF Types, Summaries
<1>2. Exclusive /\ Follows /\ Settled /\ Forward
  BY DEF Exclusive, Follows, Settled, Forward, Wrote, Ahead, AtRest, Call, Unlisted
<1>3. Known
  BY FS_EmptySet DEF Known, Runs, AtRest, Call
<1> QED
  BY <1>1, <1>2, <1>3 DEF IInv

\* A call in progress is told from the other states of the writer by what it does.
LEMMA CallDoes ==
    ASSUME Types
    PROVE  /\ writer \in Call <=> writer.does \in {"persist", "delete"}
           /\ writer \in Call => /\ writer.run \in RunIds /\ writer.status \in Statuses
                                 /\ writer.wrote \in BOOLEAN
BY DEF Types, Call, AtRest

--------------------------------------------------------------------------------
\* The calls that write.

LEMMA BeginPersistKeepsIInv ==
    ASSUME IInv, NEW r \in RunIds, NEW status \in {"running", "settled"},
           BeginPersist(r, status)
    PROVE  IInv'
<1> DEFINE call == [does |-> "persist", run |-> r, status |-> status, wrote |-> FALSE]
<1>1. /\ writer = AtRest /\ writer' = call /\ born' = born \cup {r}
      /\ (r \notin born /\ status = "running") \/ file[r] = "running"
      /\ UNCHANGED <<file, index, up, indexMu, lister, listing, torn, unsure>>
  BY DEF BeginPersist
<1>2. call \in Call /\ AtRest \notin Call /\ call.run = r /\ call.status = status /\ ~call.wrote
  BY DEF Call, Statuses, AtRest
<1> HIDE DEF call
<1>3. Types' /\ Exclusive'
  BY <1>1, <1>2 DEF IInv, Types, Exclusive
<1>4. Known'
  <2>1. IsFiniteSet(born')
    BY <1>1, FS_AddElement DEF IInv, Known
  <2> QED
    BY <1>1, <1>2, <2>1 DEF IInv, Known, Runs
<1>5. Follows'
  BY <1>1, <1>2 DEF IInv, Follows, Wrote, Ahead
<1>6. ASSUME NEW s \in RunIds, Past(s) PROVE Past(s)'
  BY <1>1, <1>2, <1>6 DEF Past
<1>7. Settled' /\ Forward'
  BY <1>1, <1>6 DEF IInv, Settled, Forward
<1> QED
  BY <1>3, <1>4, <1>5, <1>7 DEF IInv

LEMMA BeginDeleteKeepsIInv ==
    ASSUME IInv, NEW r \in RunIds, BeginDelete(r) PROVE IInv'
<1> DEFINE call == [does |-> "delete", run |-> r, status |-> "none", wrote |-> FALSE]
<1>1. /\ writer = AtRest /\ writer' = call /\ file[r] # "none"
      /\ UNCHANGED <<file, index, up, indexMu, lister, listing, born, torn, unsure>>
  BY DEF BeginDelete, historyVars
<1>2. call \in Call /\ AtRest \notin Call /\ call.run = r /\ call.status = "none" /\ ~call.wrote
  BY DEF Call, Statuses, AtRest
<1> HIDE DEF call
<1>3. Types' /\ Exclusive'
  BY <1>1, <1>2 DEF IInv, Types, Exclusive
<1>4. Known'
  BY <1>1, <1>2 DEF IInv, Known, Runs
<1>5. Follows'
  BY <1>1, <1>2 DEF IInv, Follows, Wrote, Ahead
<1>6. ASSUME NEW s \in RunIds, Past(s) PROVE Past(s)'
  BY <1>1, <1>2, <1>6 DEF Past
<1>7. Settled' /\ Forward'
  BY <1>1, <1>6 DEF IInv, Settled, Forward
<1> QED
  BY <1>3, <1>4, <1>5, <1>7 DEF IInv

LEMMA MarkInterruptedKeepsIInv ==
    ASSUME IInv, NEW r \in RunIds, MarkInterrupted(r) PROVE IInv'
<1> DEFINE call == [does |-> "persist", run |-> r, status |-> "settled", wrote |-> FALSE]
<1>1. /\ writer \notin Call /\ writer' = call /\ file[r] = "running"
      /\ UNCHANGED <<file, index, up, indexMu, lister, listing, born, torn, unsure>>
  BY DEF MarkInterrupted, historyVars, Call
<1>2. call \in Call /\ call.run = r /\ call.status = "settled" /\ ~call.wrote
  BY DEF Call, Statuses
<1> HIDE DEF call
<1>3. Types' /\ Exclusive'
  BY <1>1, <1>2 DEF IInv, Types, Exclusive
<1>4. Known'
  BY <1>1, <1>2 DEF IInv, Known, Runs
<1>5. Follows'
  BY <1>1, <1>2 DEF IInv, Follows, Wrote, Ahead
<1>6. ASSUME NEW s \in RunIds, Past(s) PROVE Past(s)'
  BY <1>1, <1>2, <1>6 DEF Past
<1>7. Settled' /\ Forward'
  BY <1>1, <1>6 DEF IInv, Settled, Forward
<1> QED
  BY <1>3, <1>4, <1>5, <1>7 DEF IInv

\* The writer comes to rest, or goes back to the hygiene, without anything written.
LEMMA RestKeepsIInv ==
    ASSUME IInv, ~Wrote, writer' \in {AtRest, [does |-> "hygiene"]},
           up' \in BOOLEAN, unsure' \in BOOLEAN, unsure => unsure',
           UNCHANGED <<file, index, indexMu, lister, listing, born, torn>>
    PROVE  IInv'
<1>1. writer' \notin Call
  BY DEF AtRest, Call
<1>2. Types' /\ Exclusive'
  BY DEF IInv, Types, Exclusive
<1>3. Known' /\ Follows'
  BY <1>1 DEF IInv, Known, Runs, Follows, Wrote, Ahead
<1>4. Settled' /\ Forward'
  BY <1>1 DEF IInv, Settled, Forward, Past
<1> QED
  BY <1>2, <1>3, <1>4 DEF IInv

LEMMA ServeKeepsIInv == ASSUME IInv, Serve PROVE IInv'
<1>1. ~Wrote
  BY DEF Serve, Wrote, Call
<1> QED
  BY <1>1, RestKeepsIInv DEF Serve, IInv, Types, historyVars

LEMMA ChangeFileKeepsIInv == ASSUME IInv, ChangeFile PROVE IInv'
<1>1. /\ writer \in Call /\ ~writer.wrote
      /\ writer.run \in RunIds /\ writer.status \in Statuses
  BY CallDoes DEF ChangeFile, IInv
<1>2. CASE Leave /\ unsure' = (unsure \/ ~up) /\ UNCHANGED file
  <2>1. ~Wrote /\ writer' \in {AtRest, [does |-> "hygiene"]}
    BY <1>1, <1>2 DEF Leave, Wrote
  <2> QED
    BY <1>2, <2>1, RestKeepsIInv DEF ChangeFile, IInv, Types
<1>3. CASE /\ file' = [file EXCEPT ![writer.run] = writer.status]
           /\ writer' = [writer EXCEPT !.wrote = TRUE]
           /\ UNCHANGED unsure
  <2>1. /\ writer' \in Call /\ writer'.run = writer.run /\ writer'.status = writer.status
        /\ writer'.wrote
        /\ UNCHANGED <<index, up, indexMu, lister, listing, born, torn, unsure>>
    BY <1>1, <1>3 DEF ChangeFile, Call
  <2>2. Types' /\ Exclusive'
    BY <1>1, <1>3, <2>1 DEF IInv, Types, Exclusive, Summaries
  <2>3. Known'
    <3>1. Runs(file') \subseteq Runs(file) \cup {writer.run}
      BY <1>1, <1>3 DEF Runs, IInv, Types, Summaries
    <3> QED
      BY <1>1, <2>1, <3>1 DEF IInv, Known, Runs
  <2>4. Follows'
    <3>1. file'[writer.run] = writer.status /\ Wrote'
      BY <1>1, <1>3, <2>1 DEF IInv, Types, Summaries, Wrote
    <3>2. \A s \in RunIds : Ahead(s)' \/ (file'[s] = file[s] /\ ~Ahead(s))
      BY <1>1, <1>3, <2>1, <3>1 DEF IInv, Types, Summaries, Wrote, Ahead
    <3> QED
      BY <2>1, <3>1, <3>2 DEF IInv, Follows
  <2>5. ASSUME NEW s \in RunIds, Past(s) PROVE Past(s)'
    BY <1>1, <1>3, <2>1, <2>5 DEF IInv, Past, Types, Summaries
  <2>6. ASSUME NEW s \in RunIds, file'[s] = "settled" PROVE Past(s)'
    <3>1. CASE s = writer.run
      BY <1>1, <1>3, <2>1, <2>6, <3>1 DEF IInv, Past, Known, Types, Summaries
    <3>2. CASE s # writer.run
      BY <1>1, <1>3, <2>5, <2>6, <3>2 DEF IInv, Settled, Types, Summaries
    <3> QED
      BY <3>1, <3>2
  <2>7. Settled' /\ Forward'
    BY <2>1, <2>5, <2>6 DEF IInv, Settled, Forward
  <2> QED
    BY <2>2, <2>3, <2>4, <2>7 DEF IInv
<1> QED
  BY <1>2, <1>3 DEF ChangeFile

(***************************************************************************)
(* Whoever writes the index, summaries that say what the files say but of  *)
(* the run whose entry is still to be written are as good as the index was.*)
(***************************************************************************)
LEMMA WriteIndexFollows ==
    ASSUME IInv, NEW s \in Summaries, writeIndex(s), UNCHANGED <<file, born>>,
           Runs(s) \subseteq born,
           \A r \in RunIds : s[r] = "settled" => Past(r),
           ~unsure => \A r \in RunIds : s[r] = file[r] \/ r \in torn \/ Ahead(r)
    PROVE  /\ index' \in {NoIndex} \cup [exists : {TRUE}, summaries : Summaries]
           /\ torn' \subseteq torn /\ unsure' \in BOOLEAN /\ (unsure => unsure')
           /\ index' # NoIndex => Runs(index'.summaries) \subseteq born
           /\ (index' # NoIndex /\ ~unsure') =>
                 \A r \in RunIds : \/ index'.summaries[r] = file[r] \/ r \in torn'
                                   \/ Ahead(r)
           /\ index' # NoIndex =>
                 \A r \in RunIds : index'.summaries[r] = "settled" => Past(r)
           /\ ~unsure' => index' \in {NoIndex, Index(s)}
<1>1. Types /\ Known /\ Follows /\ Settled
  BY DEF IInv
<1>2. Index(s) \in [exists : {TRUE}, summaries : Summaries] /\ Index(s).summaries = s
  BY DEF Index
<1>3. CASE /\ index' = Index(s)
           /\ torn' = { r \in torn : s[r] # file[r] }
           /\ UNCHANGED unsure
  <2>1. \A r \in RunIds : s[r] = file[r] \/ r \notin torn \/ r \in torn'
    BY <1>3
  <2> QED
    BY <1>1, <1>2, <1>3, <2>1 DEF Types
<1>4. CASE index' = NoIndex /\ torn' = {} /\ UNCHANGED unsure
  BY <1>1, <1>4 DEF Types
<1>5. CASE UNCHANGED <<index, torn>> /\ unsure' = TRUE
  BY <1>1, <1>5 DEF Types, Known, Settled
<1> QED
  BY <1>3, <1>4, <1>5 DEF writeIndex

LEMMA UpdateKeepsIInv == ASSUME IInv, Update PROVE IInv'
<1> DEFINE w == writer.run
<1> DEFINE s == IF index = NoIndex THEN file ELSE [index.summaries EXCEPT ![w] = writer.status]
<1>1. /\ writer \in Call /\ Wrote /\ w \in RunIds /\ writer.status \in Statuses
      /\ file[w] = writer.status /\ w \in born
  BY CallDoes DEF Update, IInv, Wrote, Follows, Known
<1>2. /\ indexMu = Nobody /\ writeIndex(s)
      /\ UNCHANGED <<file, up, indexMu, lister, listing, born>>
  BY DEF Update, updateIndex
<1>3. writer' \in {AtRest, [does |-> "hygiene"], [does |-> "discard"]} /\ writer' \notin Call
  BY DEF Update, Leave, Call, AtRest
<1>4. \A l \in Listers : lister[l] = Away
  BY <1>2, RunIndexAssumption DEF IInv, Exclusive
<1>5. /\ s \in Summaries
      /\ \A r \in RunIds : r # w => s[r] = IF index = NoIndex THEN file[r] ELSE index.summaries[r]
      /\ s[w] = file[w]
  BY <1>1 DEF IInv, Types, Summaries
<1> HIDE DEF s
<1>6. Runs(s) \subseteq born
  BY <1>1, <1>5 DEF Runs, IInv, Known
<1>7. \A r \in RunIds : s[r] = "settled" => Past(r)
  BY <1>5 DEF IInv, Settled
<1>8. ~unsure => \A r \in RunIds : s[r] = file[r] \/ r \in torn
  BY <1>5 DEF IInv, Follows, Ahead
<1>9. /\ index' \in {NoIndex} \cup [exists : {TRUE}, summaries : Summaries]
      /\ torn' \subseteq torn /\ unsure' \in BOOLEAN /\ (unsure => unsure')
      /\ index' # NoIndex => Runs(index'.summaries) \subseteq born
      /\ index' # NoIndex =>
            \A r \in RunIds : index'.summaries[r] = "settled" => Past(r)
      /\ ~unsure' => index' \in {NoIndex, Index(s)}
  BY <1>2, <1>5, <1>6, <1>7, <1>8, WriteIndexFollows
<1>10. (index' # NoIndex /\ ~unsure') =>
          \A r \in RunIds : index'.summaries[r] = file[r] \/ r \in torn'
  BY <1>2, <1>8 DEF writeIndex, Index
<1>11. \A r \in RunIds : Past(r) => Past(r)'
  BY <1>2, <1>3 DEF Past
<1>12. Types' /\ Exclusive' /\ Known'
  BY <1>2, <1>3, <1>9 DEF IInv, Types, Exclusive, Known
<1>13. Follows'
  BY <1>2, <1>3, <1>4, <1>10 DEF Follows, Wrote
<1>14. Settled'
  BY <1>2, <1>9, <1>11 DEF IInv, Settled
<1>15. Forward'
  <2> SUFFICES ASSUME listing.known, ~unsure', NEW r \in RunIds,
                      listing.summaries[r] = "settled", index' = Index(s)
               PROVE  s[r] # "running"
    BY <1>2, <1>4, <1>9 DEF Forward, Index
  <2>1. ~unsure /\ Past(r)
    BY <1>9 DEF IInv, Settled, Types
  <2>2. file[r] # "running" /\ (index # NoIndex => index.summaries[r] # "running")
    BY <2>1 DEF IInv, Forward, Past
  <2> QED
    BY <1>5, <2>2
<1> QED
  BY <1>12, <1>13, <1>14, <1>15 DEF IInv

LEMMA DiscardKeepsIInv == ASSUME IInv, Discard PROVE IInv'
<1>1. /\ writer.does = "discard" /\ writer' = AtRest
      /\ index' \in {index, NoIndex}
      /\ UNCHANGED <<file, up, indexMu, lister, listing, born, torn, unsure>>
  BY DEF Discard, historyVars
<1>2. writer \notin Call /\ writer' \notin Call
  BY <1>1 DEF AtRest, Call
<1>3. Types' /\ Exclusive'
  BY <1>1 DEF IInv, Types, Exclusive
<1>4. Known' /\ Follows'
  BY <1>1, <1>2 DEF IInv, Known, Runs, Follows, Wrote, Ahead
<1>5. Settled' /\ Forward'
  BY <1>1, <1>2 DEF IInv, Settled, Forward, Past
<1> QED
  BY <1>3, <1>4, <1>5 DEF IInv

--------------------------------------------------------------------------------
\* RunSummaries.

LEMMA ReadIndexKeepsIInv == ASSUME IInv, NEW l \in Listers, ReadIndex(l) PROVE IInv'
<1>1. /\ indexMu = Nobody
      /\ UNCHANGED <<file, index, writer, up, born, torn, unsure>>
  BY DEF ReadIndex, historyVars
<1>2. \A k \in Listers : lister[k] = Away
  BY <1>1, RunIndexAssumption DEF IInv, Exclusive
<1>3. \A r \in RunIds : Past(r)' = Past(r)
  BY <1>1 DEF Past
<1>4. CASE index # NoIndex /\ Return(l, index.summaries)
  <2>1. /\ \A k \in Listers : lister'[k] = Away
        /\ lister' \in [Listers -> {Away} \cup Loading]
        /\ listing' = [known |-> TRUE, summaries |-> index.summaries] /\ indexMu' = Nobody
    BY <1>2, <1>4 DEF Return, IInv, Types
  <2>2. listing' \in [known : {TRUE}, summaries : Summaries]
    BY <1>4, <2>1 DEF IInv, Types
  <2>3. Types' /\ Exclusive'
    BY <1>1, <2>1, <2>2 DEF IInv, Types, Exclusive
  <2>4. Known' /\ Follows'
    BY <1>1, <2>1 DEF IInv, Known, Follows, Wrote, Ahead
  <2>5. Settled' /\ Forward'
    BY <1>1, <1>3, <1>4, <2>1 DEF IInv, Settled, Forward
  <2> QED
    BY <2>3, <2>4, <2>5 DEF IInv
<1>5. CASE /\ lister' = [lister EXCEPT ![l] =
                   [at |-> "load", unread |-> Runs(file), found |-> Empty]]
           /\ indexMu' = l
           /\ UNCHANGED listing
  <2>1. /\ lister' \in [Listers -> {Away} \cup Loading]
        /\ \A k \in Listers : lister'[k] # Away =>
              k = l /\ lister'[k].unread = Runs(file) /\ lister'[k].found = Empty
    BY <1>2, <1>5 DEF IInv, Types, Loading, Empty, Summaries, Statuses, Runs
  <2>2. Types' /\ Exclusive'
    BY <1>1, <1>5, <2>1 DEF IInv, Types, Exclusive
  <2>3. Known'
    BY <1>1, <2>1 DEF IInv, Known, Runs, Empty
  <2>4. Follows'
    BY <1>1, <2>1 DEF IInv, Follows, Wrote, Ahead, Runs, Empty, Types, Summaries
  <2>5. Settled' /\ Forward'
    BY <1>1, <1>3, <1>5, <2>1 DEF IInv, Settled, Forward, Empty
  <2> QED
    BY <2>2, <2>3, <2>4, <2>5 DEF IInv
<1> QED
  BY <1>4, <1>5 DEF ReadIndex

LEMMA LoadRunKeepsIInv == ASSUME IInv, NEW l \in Listers, LoadRun(l) PROVE IInv'
<1>1. PICK r \in lister[l].unread :
          lister' = [lister EXCEPT ![l].unread = @ \ {r}, ![l].found[r] = file[r]]
  BY DEF LoadRun
<1>2. UNCHANGED <<file, index, writer, up, indexMu, listing, born, torn, unsure>>
  BY DEF LoadRun, historyVars
<1>3. lister[l] \in Loading /\ r \in RunIds
  BY <1>1 DEF LoadRun, IInv, Types, Loading, Away
<1>4. /\ lister'[l] = [at |-> "load", unread |-> lister[l].unread \ {r},
                       found |-> [lister[l].found EXCEPT ![r] = file[r]]]
      /\ \A k \in Listers : k # l => lister'[k] = lister[k]
      /\ lister' \in [Listers -> {Away} \cup Loading]
      /\ lister[l] # Away
  <2>1. lister \in [Listers -> {Away} \cup Loading] /\ file \in Summaries
    BY DEF IInv, Types
  <2> DEFINE loaded == [at |-> "load", unread |-> lister[l].unread \ {r},
                        found |-> [lister[l].found EXCEPT ![r] = file[r]]]
  <2>2. /\ lister[l].at = "load" /\ DOMAIN lister[l] = {"at", "unread", "found"}
        /\ lister[l].unread \in SUBSET RunIds /\ lister[l].found \in Summaries
    BY <1>3 DEF Loading
  <2>3. [lister[l] EXCEPT !.unread = @ \ {r}, !.found[r] = file[r]] = loaded
    <3>1. lister[l] = [at |-> "load", unread |-> lister[l].unread, found |-> lister[l].found]
      BY <1>3 DEF Loading
    <3> DEFINE unread == lister[l].unread
    <3> DEFINE found == lister[l].found
    <3> HIDE DEF unread, found
    <3>2. [[at |-> "load", unread |-> unread, found |-> found] EXCEPT !.unread = @ \ {r}]
            = [at |-> "load", unread |-> unread \ {r}, found |-> found]
      OBVIOUS
    <3>3. [[at |-> "load", unread |-> unread \ {r}, found |-> found] EXCEPT !.found[r] = file[r]]
            = [at |-> "load", unread |-> unread \ {r}, found |-> [found EXCEPT ![r] = file[r]]]
      OBVIOUS
    <3>4. [lister[l] EXCEPT !.unread = @ \ {r}, !.found[r] = file[r]]
            = [[lister[l] EXCEPT !.unread = @ \ {r}] EXCEPT !.found[r] = file[r]]
      OBVIOUS
    <3> QED
      BY <3>1, <3>2, <3>3, <3>4 DEF unread, found
  <2>4. [lister[l].found EXCEPT ![r] = file[r]] \in Summaries
    BY <1>3, <2>1, <2>2 DEF Summaries
  <2>5. loaded \in Loading
    BY <2>2, <2>4 DEF Loading
  <2>6. lister' = [lister EXCEPT ![l] = loaded]
    BY <1>1, <2>1, <2>3
  <2>7. lister[l] # Away
    BY <2>2 DEF Away
  <2> HIDE DEF loaded
  <2>8. lister'[l] = loaded /\ \A k \in Listers : k # l => lister'[k] = lister[k]
    BY <2>1, <2>6
  <2>9. lister' \in [Listers -> {Away} \cup Loading]
    BY <2>1, <2>5, <2>6
  <2> QED
    BY <2>7, <2>8, <2>9 DEF loaded
<1>5. \A s \in RunIds :
          lister'[l].found[s] = IF s = r THEN file[r] ELSE lister[l].found[s]
  BY <1>3, <1>4 DEF Loading, Summaries
<1>6. \A s \in RunIds : Past(s)' = Past(s)
  BY <1>2 DEF Past
<1>7. Types' /\ Exclusive'
  BY <1>2, <1>4 DEF IInv, Types, Exclusive
<1>8. Known'
  BY <1>2, <1>3, <1>4, <1>5 DEF IInv, Known, Runs
<1>9. Follows'
  <2>1. \A s \in RunIds :
            s \in lister'[l].unread \/ lister'[l].found[s] = file[s] \/ Ahead(s)
    BY <1>3, <1>4, <1>5 DEF IInv, Follows
  <2> QED
    BY <1>2, <1>4, <2>1 DEF IInv, Follows, Wrote, Ahead
<1>10. Settled'
  <2>1. \A s \in RunIds : lister'[l].found[s] = "settled" => Past(s)
    BY <1>4, <1>5 DEF IInv, Settled
  <2> QED
    BY <1>2, <1>4, <1>6, <2>1 DEF IInv, Settled
<1>11. Forward'
  <2> SUFFICES ASSUME listing.known, ~unsure, NEW s \in RunIds,
                      listing.summaries[s] = "settled"
               PROVE  lister'[l].found[s] # "running"
    BY <1>2, <1>4 DEF IInv, Forward
  <2>1. Past(s)
    BY DEF IInv, Settled
  <2> QED
    BY <1>4, <1>5, <2>1 DEF IInv, Forward, Past
<1> QED
  BY <1>7, <1>8, <1>9, <1>10, <1>11 DEF IInv

LEMMA RebuiltKeepsIInv == ASSUME IInv, NEW l \in Listers, Rebuilt(l) PROVE IInv'
<1> DEFINE s == lister[l].found
<1>1. /\ lister[l].at = "load" /\ lister[l].unread = {} /\ writeIndex(s) /\ Return(l, s)
      /\ UNCHANGED <<file, writer, up, born>>
  BY DEF Rebuilt
<1>2. lister[l] # Away /\ s \in Summaries
  BY <1>1 DEF IInv, Types, Loading, Away
<1>3. Runs(s) \subseteq born /\ \A r \in RunIds : s[r] = "settled" => Past(r)
  BY <1>2 DEF IInv, Known, Settled
<1>4. \A r \in RunIds : s[r] = file[r] \/ Ahead(r)
  BY <1>1, <1>2 DEF IInv, Follows
<1> HIDE DEF s
<1>5. /\ index' \in {NoIndex} \cup [exists : {TRUE}, summaries : Summaries]
      /\ torn' \subseteq torn /\ unsure' \in BOOLEAN /\ (unsure => unsure')
      /\ index' # NoIndex => Runs(index'.summaries) \subseteq born
      /\ (index' # NoIndex /\ ~unsure') =>
            \A r \in RunIds : index'.summaries[r] = file[r] \/ r \in torn' \/ Ahead(r)
      /\ index' # NoIndex =>
            \A r \in RunIds : index'.summaries[r] = "settled" => Past(r)
      /\ ~unsure' => index' \in {NoIndex, Index(s)}
  BY <1>1, <1>2, <1>3, <1>4, WriteIndexFollows
<1>6. /\ \A k \in Listers : lister'[k] = Away
      /\ lister' \in [Listers -> {Away} \cup Loading]
      /\ listing' = [known |-> TRUE, summaries |-> s] /\ indexMu' = Nobody
  BY <1>1, <1>2 DEF Return, IInv, Types, Exclusive
<1>7. listing' \in [known : {TRUE}, summaries : Summaries]
  BY <1>2, <1>6
<1>8. \A r \in RunIds : /\ Past(r)' = Past(r) /\ Ahead(r)' = Ahead(r)
  BY <1>1 DEF Past, Wrote, Ahead
<1>9. Types' /\ Exclusive'
  BY <1>1, <1>5, <1>6, <1>7 DEF IInv, Types, Exclusive
<1>10. Known'
  BY <1>1, <1>5, <1>6 DEF IInv, Known, Runs
<1>11. Follows'
  BY <1>1, <1>5, <1>6, <1>8 DEF IInv, Follows, Wrote
<1>12. Settled'
  BY <1>1, <1>3, <1>5, <1>6, <1>8 DEF IInv, Settled
<1>13. Forward'
  BY <1>5, <1>6 DEF Forward, Index
<1> QED
  BY <1>9, <1>10, <1>11, <1>12, <1>13 DEF IInv

--------------------------------------------------------------------------------
LEMMA CrashKeepsIInv == ASSUME IInv, Crash PROVE IInv'
<1>1. /\ torn' = IF Wrote /\ index # NoIndex THEN torn \cup {writer.run} ELSE torn
      /\ up' = FALSE /\ writer' = [does |-> "hygiene"] /\ indexMu' = Nobody
      /\ lister' = [l \in Listers |-> Away]
      /\ UNCHANGED <<file, index, listing, born, unsure>>
  BY CallDoes DEF Crash, IInv, Wrote
<1>2. writer' \notin Call /\ (Wrote => writer.run \in RunIds /\ writer.run \in born)
  BY <1>1, CallDoes DEF Call, IInv, Known, Wrote
<1>3. Types' /\ Exclusive'
  BY <1>1, <1>2 DEF IInv, Types, Exclusive
<1>4. Known'
  BY <1>1, <1>2 DEF IInv, Known, Runs
<1>5. Follows'
  BY <1>1, <1>2 DEF IInv, Follows, Wrote, Ahead
<1>6. Settled' /\ Forward'
  BY <1>1, <1>2 DEF IInv, Settled, Forward, Past
<1> QED
  BY <1>3, <1>4, <1>5, <1>6 DEF IInv

LEMMA NextKeepsIInv == ASSUME IInv, [Next]_vars PROVE IInv'
<1>1. CASE UNCHANGED vars
  BY <1>1 DEF vars, historyVars, IInv, Types, Exclusive, Known, Runs, Follows, Wrote, Ahead,
              Settled, Past, Forward
<1>2. CASE \E r \in RunIds :
              \/ \E status \in {"running", "settled"} : BeginPersist(r, status)
              \/ BeginDelete(r)
              \/ MarkInterrupted(r)
  BY <1>2, BeginPersistKeepsIInv, BeginDeleteKeepsIInv, MarkInterruptedKeepsIInv
<1>3. CASE ChangeFile \/ Update \/ Discard
  BY <1>3, ChangeFileKeepsIInv, UpdateKeepsIInv, DiscardKeepsIInv
<1>4. CASE \E l \in Listers : ReadIndex(l) \/ LoadRun(l) \/ Rebuilt(l)
  BY <1>4, ReadIndexKeepsIInv, LoadRunKeepsIInv, RebuiltKeepsIInv
<1>5. CASE Crash \/ Serve
  BY <1>5, CrashKeepsIInv, ServeKeepsIInv
<1> QED
  BY <1>1, <1>2, <1>3, <1>4, <1>5 DEF Next

LEMMA InvariantHolds == Spec => []IInv
<1>1. IInv /\ [Next]_vars => IInv'
  BY NextKeepsIInv
<1> QED
  BY InitIInv, <1>1, PTL DEF Spec

--------------------------------------------------------------------------------
\* Two lists of equally many runs that agree on all but one have that one, or not.
LEMMA EqualCounts ==
    ASSUME IsFiniteSet(born), NEW s \in Summaries, NEW t \in Summaries,
           Runs(s) \subseteq born, Runs(t) \subseteq born,
           NEW r \in RunIds, \A x \in RunIds \ {r} : s[x] = t[x],
           Cardinality(Runs(s)) = Cardinality(Runs(t))
    PROVE  s[r] = "none" <=> t[r] = "none"
<1>1. IsFiniteSet(Runs(s)) /\ IsFiniteSet(Runs(t))
  BY FS_Subset
<1>2. Runs(s) \subseteq Runs(t) \/ Runs(t) \subseteq Runs(s)
  BY DEF Runs
<1>3. Runs(s) = Runs(t)
  BY <1>1, <1>2, FS_Subset
<1> QED
  BY <1>3 DEF Runs

(***************************************************************************)
(* An index that RunSummaries would trust says of every run what its file  *)
(* says, over any interleaving of PersistRun, DeleteRun, rebuilds and one  *)
(* crash between a file and the index.                                     *)
(***************************************************************************)
THEOREM IndexAgrees == Spec => []TrustedIndexAgrees
<1>1. IInv => TrustedIndexAgrees
  <2> SUFFICES ASSUME IInv, writer = AtRest, indexMu = Nobody, index # NoIndex,
                      ~indexDrifted(index.summaries), ~unsure, Cardinality(torn) <= 1,
                      NEW r \in RunIds, index.summaries[r] # file[r]
               PROVE  Overwritten(r)
    BY DEF TrustedIndexAgrees
  <2>1. index.summaries \in Summaries /\ file \in Summaries
    BY DEF IInv, Types
  <2>2. \A x \in RunIds : index.summaries[x] = file[x] \/ x \in torn
    BY DEF IInv, Follows, Ahead, Wrote, AtRest, Call
  <2>3. \A x \in torn : x = r
    <3> SUFFICES ASSUME NEW x \in torn, x # r PROVE FALSE
      OBVIOUS
    <3>1. IsFiniteSet(torn) /\ {r} \subseteq torn
      BY <2>2, FS_Subset DEF IInv, Known
    <3>2. IsFiniteSet({r, x}) /\ Cardinality({r, x}) = 2
      <4> DEFINE one == {r}
      <4>1. IsFiniteSet(one) /\ Cardinality(one) = 1 /\ x \notin one
        BY FS_Singleton
      <4>2. {r, x} = one \cup {x}
        OBVIOUS
      <4> HIDE DEF one
      <4>3. /\ IsFiniteSet(one \cup {x})
            /\ Cardinality(one \cup {x}) = Cardinality(one) + 1
        BY <4>1, FS_AddElement
      <4> QED
        BY <4>1, <4>2, <4>3
    <3>3. Cardinality({r, x}) <= Cardinality(torn) /\ Cardinality(torn) \in Nat
      BY <3>1, FS_Subset, FS_CardinalityType
    <3> QED
      BY <3>2, <3>3
  <2>4. index.summaries[r] = "none" <=> file[r] = "none"
    BY <2>1, <2>2, <2>3, EqualCounts DEF IInv, Known, indexDrifted
  <2> QED
    BY <2>2, <2>4 DEF Overwritten
<1> QED
  BY <1>1, InvariantHolds, PTL

(***************************************************************************)
(* A run that RunSummaries has listed as settled is not listed as running  *)
(* later, by any other request or after any number of crashes.             *)
(***************************************************************************)
THEOREM ListingsAdvance == Spec => NoGoingBack
<1>1. IInv /\ [Next]_vars =>
          [(listing.known /\ listing'.known /\ ~unsure') =>
              \A r \in RunIds : listing.summaries[r] = "settled" =>
                  listing'.summaries[r] # "running"]_vars
  <2> SUFFICES ASSUME IInv, [Next]_vars, listing.known, listing'.known, ~unsure',
                      NEW r \in RunIds, listing.summaries[r] = "settled"
               PROVE  listing'.summaries[r] # "running"
    OBVIOUS
  <2>1. CASE UNCHANGED listing
    BY <2>1
  <2>2. ASSUME NEW l \in Listers, ReadIndex(l), listing' # listing
        PROVE  listing'.summaries[r] # "running"
    BY <2>2 DEF ReadIndex, Return, historyVars, IInv, Forward
  <2>3. ASSUME NEW l \in Listers, Rebuilt(l) PROVE listing'.summaries[r] # "running"
    <3>1. lister[l] # Away /\ listing'.summaries = lister[l].found
      BY <2>3 DEF Rebuilt, Return, Away
    <3>2. ~unsure
      BY <2>3 DEF Rebuilt, writeIndex
    <3> QED
      BY <3>1, <3>2 DEF IInv, Forward
  <2> QED
    BY <2>1, <2>2, <2>3 DEF Next, vars, BeginPersist, BeginDelete, MarkInterrupted, ChangeFile,
       Update, Discard, LoadRun, Crash, Serve
<1> QED
  BY <1>1, InvariantHolds, PTL DEF Spec, NoGoingBack

--------------------------------------------------------------------------------
(***************************************************************************)
(* The audit log.  The names in use are before any that the next rotation  *)
(* will give (Names), so that a file that is renamed keeps its place in    *)
(* the order.  For this a start of the agent has to look for the last      *)
(* number of the day.                                                      *)
(***************************************************************************)

Logs == [currentDate : Nat \ {0}, currentSeqNum : Nat, fileWriter : BOOLEAN,
         files : UNION { [names -> Seq(Nat)] : names \in SUBSET (Nat \X Nat) }]

Rotated(l) == DOMAIN l.files \ {Current}

\* The names in use are older than those the next rotations will give.
Names(l) ==
    \A n \in Rotated(l) :
        /\ n[1] \in 1..l.currentDate
        /\ n[1] = l.currentDate => n[2] \in 1..l.currentSeqNum

\* EntriesKept, name by name, of any files and number of entries.
Kept(files, count) ==
    /\ \A n \in DOMAIN files : \A i \in DOMAIN files[n] : files[n][i] \in 1..count
    /\ \A k \in 1..count : \E n \in DOMAIN files : \E i \in DOMAIN files[n] : files[n][i] = k
    /\ \A m, n \in DOMAIN files : \A i \in DOMAIN files[m], j \in DOMAIN files[n] :
          Before(m, n) \/ (m = n /\ i < j) => files[m][i] < files[n][j]

\* A log as every call of its service leaves it.
Sound(l, count) ==
    /\ l \in Logs
    /\ l.fileWriter => Current \in DOMAIN l.files
    /\ Names(l)
    /\ Kept(l.files, count)

LogInv ==
    /\ today \in Nat /\ written \in Nat
    /\ log.currentDate <= today
    /\ Sound(log, written)

\* A file that has been rotated is never renamed, replaced or written again.
RotatedStay ==
    [][\A n \in Rotated(log) : n \in DOMAIN log'.files /\ log'.files[n] = log.files[n]]_logVars

\* What a change of the log does not do to the files that have been rotated.
Spares(l, m) == \A n \in Rotated(l) : n \in Rotated(m) /\ m.files[n] = l.files[n]

\* A set of naturals with a bound has a largest element.
LEMMA Largest ==
    ASSUME NEW b \in Nat, NEW S \in SUBSET (0..b), S # {}
    PROVE  \E n \in S : \A m \in S : m <= n
<1> DEFINE Lt == OpToRel(<, Nat)
           T == { n \in Nat : \A m \in S : m <= n }
<1>1. b \in T
  OBVIOUS
<1>2. IsWellFoundedOn(Lt, Nat)
  BY NatLessThanWellFounded
<1>3. \A x, y \in Nat : y < x => <<y, x>> \in Lt
  BY DEF OpToRel
<1> HIDE DEF Lt
<1>4. PICK x \in T : \A y \in T : ~(<<y, x>> \in Lt)
  <2>1. T \subseteq Nat /\ T # {}
    BY <1>1
  <2> HIDE DEF T
  <2> QED
    BY <1>2, <2>1, WFMin
<1>5. x \in S
  <2> SUFFICES ASSUME x \notin S PROVE FALSE
    OBVIOUS
  <2>1. PICK k \in S : TRUE
    OBVIOUS
  <2>2. k < x
    BY <1>4
  <2>3. x - 1 \in T /\ x - 1 \in Nat /\ x \in Nat /\ x - 1 < x
    BY <2>2, <1>4
  <2> QED
    BY <2>3, <1>3, <1>4
<1> QED
  BY <1>4, <1>5

\* The fields of a log.
LEMMA LogFields ==
    ASSUME NEW l \in Logs
    PROVE  /\ l.currentDate \in Nat \ {0} /\ l.currentSeqNum \in Nat /\ l.fileWriter \in BOOLEAN
           /\ DOMAIN l.files \subseteq Nat \X Nat /\ l.files \in [DOMAIN l.files -> Seq(Nat)]
BY DEF Logs

\* What the setters of one field give.
LEMMA WithField ==
    ASSUME NEW l \in Logs
    PROVE  /\ \A w \in BOOLEAN :
                  /\ [l EXCEPT !.fileWriter = w] \in Logs
                  /\ [l EXCEPT !.fileWriter = w].fileWriter = w
                  /\ [l EXCEPT !.fileWriter = w].currentDate = l.currentDate
                  /\ [l EXCEPT !.fileWriter = w].currentSeqNum = l.currentSeqNum
                  /\ [l EXCEPT !.fileWriter = w].files = l.files
           /\ \A s \in Nat :
                  /\ [l EXCEPT !.currentSeqNum = s] \in Logs
                  /\ [l EXCEPT !.currentSeqNum = s].fileWriter = l.fileWriter
                  /\ [l EXCEPT !.currentSeqNum = s].currentDate = l.currentDate
                  /\ [l EXCEPT !.currentSeqNum = s].currentSeqNum = s
                  /\ [l EXCEPT !.currentSeqNum = s].files = l.files
           /\ \A d \in Nat \ {0} :
                  /\ [l EXCEPT !.currentDate = d] \in Logs
                  /\ [l EXCEPT !.currentDate = d].fileWriter = l.fileWriter
                  /\ [l EXCEPT !.currentDate = d].currentDate = d
                  /\ [l EXCEPT !.currentDate = d].currentSeqNum = l.currentSeqNum
                  /\ [l EXCEPT !.currentDate = d].files = l.files
BY DEF Logs

\* What replacing the files gives.
LEMMA WithFiles ==
    ASSUME NEW l \in Logs, NEW files, DOMAIN files \subseteq Nat \X Nat,
           files \in [DOMAIN files -> Seq(Nat)]
    PROVE  /\ [l EXCEPT !.files = files] \in Logs
           /\ [l EXCEPT !.files = files].fileWriter = l.fileWriter
           /\ [l EXCEPT !.files = files].currentDate = l.currentDate
           /\ [l EXCEPT !.files = files].currentSeqNum = l.currentSeqNum
           /\ [l EXCEPT !.files = files].files = files
BY DEF Logs

\* The name of the current file is that of no day.
LEMMA CurrentName == Current \in Nat \X Nat /\ Current[1] = 0
BY DEF Current

--------------------------------------------------------------------------------
\* openCurrentFile changes no file, but that the current one may be made.
LEMMA OpenKeeps ==
    ASSUME NEW count, NEW l, Sound(l, count), NEW m \in openCurrentFile(l)
    PROVE  Sound(m, count) /\ m.currentDate = l.currentDate /\ Spares(l, m)
<1>0. l \in Logs
  BY DEF Sound
<1>1. CASE m = l
  BY <1>1 DEF Spares
<1>2. CASE m # l
  <2> DEFINE files == [n \in DOMAIN l.files \cup {Current} |->
                           IF n \in DOMAIN l.files THEN l.files[n] ELSE <<>>]
             opened == [l EXCEPT !.fileWriter = TRUE]
  <2>1. m = [opened EXCEPT !.files = files]
    BY <1>2 DEF openCurrentFile
  <2>2. /\ opened \in Logs /\ opened.fileWriter = TRUE /\ opened.currentDate = l.currentDate
        /\ opened.currentSeqNum = l.currentSeqNum /\ opened.files = l.files
    BY <1>0, WithField
  <2>3. /\ DOMAIN files = DOMAIN l.files \cup {Current} /\ DOMAIN files \subseteq Nat \X Nat
        /\ files \in [DOMAIN files -> Seq(Nat)]
        /\ \A n \in DOMAIN l.files : files[n] = l.files[n]
        /\ Current \notin DOMAIN l.files => files[Current] = <<>>
    BY <1>0, LogFields, CurrentName
  <2> HIDE DEF files, opened
  <2>4. /\ m \in Logs /\ m.fileWriter = TRUE /\ m.currentDate = l.currentDate
        /\ m.currentSeqNum = l.currentSeqNum /\ m.files = files
    BY <2>1, <2>2, <2>3, WithFiles
  <2>5. Names(m) /\ Spares(l, m)
    BY <2>3, <2>4 DEF Names, Sound, Spares, Rotated
  <2>6. Kept(m.files, count)
    <3>1. \A n \in DOMAIN files : \A i \in DOMAIN files[n] :
              n \in DOMAIN l.files /\ i \in DOMAIN l.files[n] /\ files[n][i] = l.files[n][i]
      BY <2>3
    <3>2. \A n \in DOMAIN l.files : n \in DOMAIN files /\ files[n] = l.files[n]
      BY <2>3
    <3>3. Kept(l.files, count)
      BY DEF Sound
    <3> QED
      BY <3>1, <3>2, <3>3, <2>4 DEF Kept
  <2> QED
    BY <2>3, <2>4, <2>5, <2>6 DEF Sound
<1> QED
  BY <1>1, <1>2

\* A current file that is renamed to a name after all others keeps every entry
\* in its place in the order.
LEMMA MovedKeeps ==
    ASSUME NEW count, NEW l \in Logs, Kept(l.files, count), Current \in DOMAIN l.files,
           NEW name \in Nat \X Nat, name # Current, \A n \in Rotated(l) : Before(n, name)
    PROVE  /\ Moved(l, name) \in Logs
           /\ Moved(l, name).fileWriter = l.fileWriter
           /\ Moved(l, name).currentDate = l.currentDate
           /\ Moved(l, name).currentSeqNum = l.currentSeqNum
           /\ DOMAIN Moved(l, name).files = Rotated(l) \cup {name}
           /\ Kept(Moved(l, name).files, count)
           /\ Spares(l, Moved(l, name))
<1> DEFINE files == [n \in (DOMAIN l.files \cup {name}) \ {Current} |->
                         IF n = name THEN l.files[Current] ELSE l.files[n]]
<1>1. name \notin Rotated(l)
  BY LogFields DEF Before
<1>2. /\ DOMAIN files = Rotated(l) \cup {name} /\ DOMAIN files \subseteq Nat \X Nat
      /\ files \in [DOMAIN files -> Seq(Nat)]
      /\ \A n \in Rotated(l) : files[n] = l.files[n]
      /\ files[name] = l.files[Current]
      /\ DOMAIN l.files = Rotated(l) \cup {Current}
  BY <1>1, LogFields DEF Rotated
<1>3. Moved(l, name) = [l EXCEPT !.files = files]
  BY DEF Moved
<1> HIDE DEF files
<1>4. /\ Moved(l, name) \in Logs
      /\ Moved(l, name).fileWriter = l.fileWriter
      /\ Moved(l, name).currentDate = l.currentDate
      /\ Moved(l, name).currentSeqNum = l.currentSeqNum
      /\ Moved(l, name).files = files
  BY <1>2, <1>3, WithFiles
<1>5. Spares(l, Moved(l, name))
  BY <1>2, <1>4 DEF Spares, Rotated
<1>6. Kept(files, count)
  <2> DEFINE old(n) == IF n = name THEN Current ELSE n
  <2>1. \A n \in DOMAIN files : old(n) \in DOMAIN l.files /\ files[n] = l.files[old(n)]
    BY <1>1, <1>2
  <2>2. \A n \in DOMAIN l.files : \E k \in DOMAIN files : files[k] = l.files[n]
    BY <1>2
  <2>3. \A m, n \in DOMAIN files : Before(m, n) => Before(old(m), old(n))
    <3> SUFFICES ASSUME NEW m \in DOMAIN files, NEW n \in DOMAIN files, Before(m, n)
                 PROVE  Before(old(m), old(n))
      OBVIOUS
    <3>1. m # name
      <4> SUFFICES ASSUME m = name PROVE FALSE
        OBVIOUS
      <4>1. n # name
        BY <1>2 DEF Before
      <4>2. n \in Rotated(l) /\ Before(n, name)
        BY <1>2, <4>1
      <4> QED
        BY <1>2, <4>2 DEF Before
    <3> QED
      BY <3>1, <1>2 DEF Before, Rotated
  <2>4. \A m, n \in DOMAIN files : m = n => old(m) = old(n)
    OBVIOUS
  <2> HIDE DEF old
  <2> QED
    BY <2>1, <2>2, <2>3, <2>4 DEF Kept
<1> QED
  BY <1>2, <1>4, <1>5, <1>6

--------------------------------------------------------------------------------
\* A file with a size is there.
LEMMA SizeOf ==
    ASSUME NEW l \in Logs
    PROVE  Size(l) \in Nat /\ (Size(l) > 0 => Current \in DOMAIN l.files)
BY LogFields DEF Size

\* What two changes spare, both together spare.
LEMMA SparesOn ==
    ASSUME NEW l, NEW m, NEW n, Spares(l, m), Spares(m, n)
    PROVE  Spares(l, n)
BY DEF Spares

\* A rotation by size, of a log that has its current file.
LEMMA SizeKeeps ==
    ASSUME NEW count, NEW l, Sound(l, count), Current \in DOMAIN l.files, NEW m \in rotateSize(l)
    PROVE  Sound(m, count) /\ m.currentDate = l.currentDate /\ Spares(l, m)
<1> DEFINE shut == [l EXCEPT !.fileWriter = FALSE]
           next == l.currentSeqNum + 1
           closed == [shut EXCEPT !.currentSeqNum = next]
           name == <<l.currentDate, next>>
<1>0. l \in Logs
  BY DEF Sound
<1>1. /\ shut \in Logs /\ shut.fileWriter = FALSE /\ shut.currentDate = l.currentDate
      /\ shut.currentSeqNum = l.currentSeqNum /\ shut.files = l.files
  BY <1>0, WithField
<1>2. next \in Nat
  BY <1>0, LogFields
<1> HIDE DEF shut
<1>3. /\ closed \in Logs /\ closed.fileWriter = FALSE /\ closed.currentDate = l.currentDate
      /\ closed.currentSeqNum = next /\ closed.files = l.files
  BY <1>1, <1>2, WithField
<1>4. m = closed \/ m \in openCurrentFile(Moved(closed, name))
  <2>1. [l EXCEPT !.fileWriter = FALSE, !.currentSeqNum = @ + 1] = closed
    BY <1>0 DEF Logs, shut
  <2> QED
    BY <2>1, <1>3 DEF rotateSize
<1> HIDE DEF closed
<1>5. Sound(closed, count)
  BY <1>0, <1>3, LogFields DEF Sound, Names, Rotated
<1>6. \A n \in Rotated(closed) : Before(n, name)
  <2>1. \A n \in Rotated(l) : n[1] \in Nat /\ n[2] \in Nat
    BY <1>0, LogFields DEF Rotated
  <2>2. name[1] = l.currentDate /\ name[2] = l.currentSeqNum + 1 /\ name # Current
    BY <1>0, LogFields DEF Current
  <2> HIDE DEF name
  <2> QED
    BY <1>0, <1>3, <2>1, <2>2, LogFields DEF Rotated, Before, Sound, Names
<1>7. name \in Nat \X Nat /\ name # Current
  BY <1>0, <1>2, LogFields DEF Current
<1> DEFINE moved == Moved(closed, name)
<1>8. /\ moved \in Logs /\ moved.fileWriter = FALSE /\ moved.currentDate = l.currentDate
      /\ moved.currentSeqNum = next /\ DOMAIN moved.files = Rotated(closed) \cup {name}
      /\ Kept(moved.files, count) /\ Spares(closed, moved)
  BY <1>3, <1>5, <1>6, <1>7, MovedKeeps DEF Sound
<1>9. Sound(moved, count)
  <2>1. name[1] \in 1..l.currentDate /\ name[2] \in 1..next
    BY <1>0, <1>2, LogFields
  <2>2. \A n \in Rotated(moved) : n \in Rotated(closed) \/ n = name
    BY <1>8 DEF Rotated
  <2> HIDE DEF name, moved, next
  <2>3. Names(moved)
    BY <1>5, <1>3, <1>8, <2>1, <2>2 DEF Sound, Names
  <2> QED
    BY <1>8, <2>3 DEF Sound
<1> HIDE DEF moved
<1>10. Spares(l, closed)
  BY <1>3 DEF Spares, Rotated
<1>11. CASE m = closed
  BY <1>11, <1>5, <1>3, <1>10
<1>12. CASE m \in openCurrentFile(moved)
  BY <1>12, <1>8, <1>9, <1>10, OpenKeeps, SparesOn
<1> QED
  BY <1>4, <1>11, <1>12 DEF moved

\* The first entry of a day rotates what the days before have left.
LEMMA MidnightKeeps ==
    ASSUME NEW count, NEW l, Sound(l, count), NEW day \in Nat, l.currentDate < day,
           NEW m \in rotateMidnight([l EXCEPT !.currentDate = day], l.currentDate)
    PROVE  Sound(m, count) /\ m.currentDate = day /\ Spares(l, m)
<1> DEFINE dated == [l EXCEPT !.currentDate = day]
           closed == [dated EXCEPT !.fileWriter = FALSE]
           name == <<l.currentDate, IF l.currentSeqNum > 0 THEN l.currentSeqNum + 1 ELSE 0>>
           moved == IF Size(dated) > 0 THEN Moved(closed, name) ELSE closed
           reset == [moved EXCEPT !.currentSeqNum = 0]
<1>0. l \in Logs /\ l.currentDate \in Nat \ {0} /\ l.currentSeqNum \in Nat /\ day \in Nat \ {0}
  BY LogFields DEF Sound
<1>1. /\ dated \in Logs /\ dated.fileWriter = l.fileWriter /\ dated.currentDate = day
      /\ dated.currentSeqNum = l.currentSeqNum /\ dated.files = l.files
  BY <1>0, WithField
<1>2. /\ closed \in Logs /\ closed.fileWriter = FALSE /\ closed.currentDate = day
      /\ closed.currentSeqNum = l.currentSeqNum /\ closed.files = l.files
  BY <1>1, WithField
<1>3. m \in (IF Size(dated) > 0 THEN {closed} ELSE {}) \cup openCurrentFile(reset)
  BY <1>1 DEF rotateMidnight
<1> HIDE DEF dated, closed
<1>4. /\ \A n \in Rotated(closed) : n[1] \in 1..l.currentDate
      /\ \A n \in Rotated(closed) : n[1] = l.currentDate => n[2] \in 1..l.currentSeqNum
  BY <1>2 DEF Sound, Names, Rotated
<1>5. Sound(closed, count)
  <2>1. \A n \in Rotated(closed) : n[1] \in 1..day /\ n[1] # day
    BY <1>0, <1>4
  <2> QED
    BY <1>2, <2>1 DEF Sound, Names
<1>6. \A n \in Rotated(closed) : Before(n, name)
  <2>1. \A n \in Rotated(closed) : n[1] \in Nat /\ n[2] \in Nat /\ n # Current
    BY <1>2, LogFields DEF Rotated
  <2>2. name[1] = l.currentDate /\ (l.currentSeqNum > 0 => name[2] = l.currentSeqNum + 1)
        /\ name # Current
    BY <1>0 DEF Current
  <2> HIDE DEF name
  <2> QED
    BY <1>0, <1>4, <2>1, <2>2 DEF Before
<1>7. name \in Nat \X Nat /\ name # Current
  BY <1>0 DEF Current
<1>8. /\ moved \in Logs /\ moved.fileWriter = FALSE /\ moved.currentDate = day
      /\ \A n \in Rotated(moved) : n[1] \in 1..day /\ n[1] # day
      /\ Kept(moved.files, count) /\ Spares(closed, moved)
  <2>1. CASE Size(dated) > 0
    <3>1. Current \in DOMAIN closed.files
      BY <2>1, <1>1, <1>2, SizeOf
    <3>2. name[1] = l.currentDate
      OBVIOUS
    <3> HIDE DEF name
    <3>3. /\ Moved(closed, name) \in Logs /\ Moved(closed, name).fileWriter = FALSE
          /\ Moved(closed, name).currentDate = day
          /\ DOMAIN Moved(closed, name).files = Rotated(closed) \cup {name}
          /\ Kept(Moved(closed, name).files, count) /\ Spares(closed, Moved(closed, name))
      BY <3>1, <1>2, <1>5, <1>6, <1>7, MovedKeeps DEF Sound
    <3>4. moved = Moved(closed, name)
      BY <2>1
    <3>5. \A n \in Rotated(moved) : n[1] \in 1..day /\ n[1] # day
      <4>1. \A n \in Rotated(moved) : n \in Rotated(closed) \/ n = name
        BY <3>3, <3>4 DEF Rotated
      <4> HIDE DEF moved
      <4> QED
        BY <4>1, <1>0, <1>4, <3>2
    <3> QED
      BY <3>3, <3>4, <3>5
  <2>2. CASE ~(Size(dated) > 0)
    <3>1. moved = closed
      BY <2>2
    <3>2. \A n \in Rotated(closed) : n[1] \in 1..day /\ n[1] # day
      BY <1>0, <1>4
    <3> QED
      BY <3>1, <3>2, <1>2, <1>5 DEF Sound, Spares
  <2> QED
    BY <2>1, <2>2
<1> HIDE DEF moved
<1>9. /\ reset \in Logs /\ reset.fileWriter = FALSE /\ reset.currentDate = day
      /\ reset.files = moved.files
  BY <1>8, WithField
<1> HIDE DEF reset
<1>10. Sound(reset, count) /\ Spares(moved, reset)
  BY <1>8, <1>9 DEF Sound, Names, Rotated, Spares
<1>11. Spares(l, closed)
  BY <1>2 DEF Spares, Rotated
<1>12. CASE m = closed
  BY <1>12, <1>2, <1>5, <1>11
<1>13. CASE m \in openCurrentFile(reset)
  <2>1. Sound(m, count) /\ m.currentDate = day /\ Spares(reset, m)
    BY <1>13, <1>9, <1>10, OpenKeeps
  <2> QED
    BY <2>1, <1>8, <1>10, <1>11, SparesOn
<1> QED
  BY <1>3, <1>12, <1>13

\* An entry at the end of the current file is the last of all.
LEMMA AppendKeeps ==
    ASSUME NEW count \in Nat, NEW l, Sound(l, count), Current \in DOMAIN l.files
    PROVE  LET m == [l EXCEPT !.files[Current] = Append(@, count + 1)]
           IN  /\ Sound(m, count + 1) /\ m.currentDate = l.currentDate /\ Spares(l, m)
               /\ Current \in DOMAIN m.files
<1> DEFINE last == Append(l.files[Current], count + 1)
           files == [l.files EXCEPT ![Current] = last]
           m == [l EXCEPT !.files = files]
<1>0. l \in Logs /\ Kept(l.files, count)
  BY DEF Sound
<1>1. [l EXCEPT !.files[Current] = Append(@, count + 1)] = m
  OBVIOUS
<1>2. /\ l.files[Current] \in Seq(Nat) /\ last \in Seq(Nat)
      /\ DOMAIN last = 1..(Len(l.files[Current]) + 1) /\ Len(l.files[Current]) \in Nat
      /\ DOMAIN l.files[Current] = 1..Len(l.files[Current])
      /\ \A i \in DOMAIN l.files[Current] : last[i] = l.files[Current][i]
      /\ last[Len(l.files[Current]) + 1] = count + 1
  BY <1>0, LogFields
<1> HIDE DEF last
<1>3. /\ DOMAIN files = DOMAIN l.files /\ DOMAIN files \subseteq Nat \X Nat
      /\ files \in [DOMAIN files -> Seq(Nat)]
      /\ files[Current] = last
      /\ \A n \in Rotated(l) : files[n] = l.files[n]
  BY <1>0, <1>2, LogFields DEF Rotated
<1> HIDE DEF files
<1>4. /\ m \in Logs /\ m.fileWriter = l.fileWriter /\ m.currentDate = l.currentDate
      /\ m.currentSeqNum = l.currentSeqNum /\ m.files = files
  BY <1>0, <1>3, WithFiles
<1> HIDE DEF m
<1>5. Spares(l, m) /\ Names(m)
  BY <1>3, <1>4 DEF Spares, Rotated, Sound, Names
<1>6. Kept(files, count + 1)
  <2> DEFINE len == Len(l.files[Current])
  <2>1. \A n \in DOMAIN files : \A i \in DOMAIN files[n] :
            \/ n \in DOMAIN l.files /\ i \in DOMAIN l.files[n] /\ files[n][i] = l.files[n][i]
            \/ n = Current /\ i = len + 1 /\ files[n][i] = count + 1
    <3> SUFFICES ASSUME NEW n \in DOMAIN files, NEW i \in DOMAIN files[n]
                 PROVE  \/ n \in DOMAIN l.files /\ i \in DOMAIN l.files[n] /\ files[n][i] = l.files[n][i]
                        \/ n = Current /\ i = len + 1 /\ files[n][i] = count + 1
      OBVIOUS
    <3>1. CASE n = Current
      <4>1. i \in 1..(len + 1)
        BY <3>1, <1>2, <1>3
      <4>2. i \in 1..len \/ i = len + 1
        BY <4>1, <1>2
      <4> QED
        BY <3>1, <4>2, <1>2, <1>3
    <3>2. CASE n # Current
      BY <3>2, <1>3 DEF Rotated
    <3> QED
      BY <3>1, <3>2
  <2>2. \A n \in DOMAIN l.files : \A i \in DOMAIN l.files[n] :
            n \in DOMAIN files /\ i \in DOMAIN files[n] /\ files[n][i] = l.files[n][i]
    <3> SUFFICES ASSUME NEW n \in DOMAIN l.files, NEW i \in DOMAIN l.files[n]
                 PROVE  n \in DOMAIN files /\ i \in DOMAIN files[n] /\ files[n][i] = l.files[n][i]
      OBVIOUS
    <3>1. CASE n = Current
      <4>1. i \in 1..(len + 1)
        BY <3>1, <1>2
      <4> QED
        BY <3>1, <4>1, <1>2, <1>3
    <3>2. CASE n # Current
      BY <3>2, <1>3 DEF Rotated
    <3> QED
      BY <3>1, <3>2
  <2>3. \A n \in DOMAIN files : \A i \in DOMAIN files[n] : files[n][i] \in 1..(count + 1)
    BY <2>1, <1>0 DEF Kept
  <2>4. \A k \in 1..(count + 1) : \E n \in DOMAIN files : \E i \in DOMAIN files[n] : files[n][i] = k
    <3>1. Current \in DOMAIN files /\ len + 1 \in DOMAIN files[Current]
          /\ files[Current][len + 1] = count + 1
      BY <1>2, <1>3
    <3>2. \A k \in 1..(count + 1) : k \in 1..count \/ k = count + 1
      OBVIOUS
    <3>3. \A k \in 1..count : \E n \in DOMAIN l.files : \E i \in DOMAIN l.files[n] : l.files[n][i] = k
      BY <1>0 DEF Kept
    <3>4. \A k \in 1..count : \E n \in DOMAIN files : \E i \in DOMAIN files[n] : files[n][i] = k
      BY <3>3, <2>2
    <3> QED
      BY <3>1, <3>2, <3>4
  <2>5. ASSUME NEW p \in DOMAIN files, NEW q \in DOMAIN files,
               NEW i \in DOMAIN files[p], NEW j \in DOMAIN files[q],
               Before(p, q) \/ (p = q /\ i < j)
        PROVE  files[p][i] < files[q][j]
    <3>1. CASE /\ p \in DOMAIN l.files /\ i \in DOMAIN l.files[p] /\ files[p][i] = l.files[p][i]
               /\ q \in DOMAIN l.files /\ j \in DOMAIN l.files[q] /\ files[q][j] = l.files[q][j]
      BY <3>1, <2>5, <1>0 DEF Kept
    <3>2. CASE /\ p \in DOMAIN l.files /\ i \in DOMAIN l.files[p] /\ files[p][i] = l.files[p][i]
               /\ files[q][j] = count + 1
      <4>1. l.files[p][i] \in 1..count
        BY <3>2, <1>0 DEF Kept
      <4> QED
        BY <3>2, <4>1
    <3>3. p = Current /\ i = len + 1 => FALSE
      <4> SUFFICES ASSUME p = Current, i = len + 1 PROVE FALSE
        OBVIOUS
      <4>1. q = Current /\ i < j
        BY <2>5 DEF Before
      <4>2. j \in 1..(len + 1)
        BY <4>1, <1>2, <1>3
      <4> QED
        BY <4>1, <4>2, <1>2
    <3> QED
      BY <2>1, <3>1, <3>2, <3>3
  <2> QED
    BY <2>3, <2>4, <2>5 DEF Kept
<1>7. Sound(m, count + 1)
  BY <1>3, <1>4, <1>5, <1>6 DEF Sound
<1> QED
  BY <1>1, <1>3, <1>4, <1>5, <1>7

--------------------------------------------------------------------------------
\* What Log finds, or makes, before it writes.
LEMMA EnsureKeeps ==
    ASSUME LogInv, NEW l \in ensureCurrentLogFileLocked
    PROVE  Sound(l, written) /\ l.currentDate = today /\ Spares(log, l)
<1>1. CASE log.currentDate # today
  <2>1. log.currentDate < today
    BY <1>1, LogFields DEF LogInv, Sound
  <2> QED
    BY <1>1, <2>1, MidnightKeeps DEF ensureCurrentLogFileLocked, LogInv
<1>2. CASE log.currentDate = today /\ log.fileWriter
  BY <1>2 DEF ensureCurrentLogFileLocked, LogInv, Spares
<1>3. CASE log.currentDate = today /\ ~log.fileWriter
  BY <1>3, OpenKeeps DEF ensureCurrentLogFileLocked, LogInv
<1> QED
  BY <1>1, <1>2, <1>3

\* Log keeps the invariant and the rotated files.
LEMMA LogKeeps ==
    ASSUME LogInv, Log
    PROVE  LogInv' /\ Spares(log, log')
<1>1. PICK l \in ensureCurrentLogFileLocked :
          \/ log' = l /\ UNCHANGED written
          \/ /\ l.fileWriter
             /\ written' = written + 1
             /\ log' \in checkSizeRotation([l EXCEPT !.files[Current] = Append(@, written')])
  BY DEF Log
<1>2. /\ Sound(l, written) /\ l.currentDate = today /\ Spares(log, l)
      /\ written \in Nat /\ today \in Nat /\ today' = today
  BY EnsureKeeps DEF LogInv, Log
<1>3. CASE log' = l /\ UNCHANGED written
  BY <1>2, <1>3 DEF LogInv
<1>4. CASE /\ l.fileWriter
           /\ written' = written + 1
           /\ log' \in checkSizeRotation([l EXCEPT !.files[Current] = Append(@, written')])
  <2> DEFINE m == [l EXCEPT !.files[Current] = Append(@, written + 1)]
  <2>1. /\ Sound(m, written + 1) /\ m.currentDate = today /\ Spares(l, m)
        /\ Current \in DOMAIN m.files
    BY <1>2, <1>4, AppendKeeps DEF Sound
  <2>2. log' \in checkSizeRotation(m)
    BY <1>4
  <2> HIDE DEF m
  <2>3. log' = m \/ log' \in rotateSize(m)
    BY <2>2 DEF checkSizeRotation
  <2>4. Sound(log', written + 1) /\ log'.currentDate = today /\ Spares(m, log')
    <3>1. Spares(m, m)
      BY DEF Spares
    <3> QED
      BY <2>1, <2>3, <3>1, SizeKeeps
  <2>5. Spares(log, log')
    BY <1>2, <2>1, <2>4, SparesOn
  <2> QED
    BY <1>2, <1>4, <2>4, <2>5 DEF LogInv
<1> QED
  BY <1>1, <1>3, <1>4

\* A start of the agent finds the last number of the day, and so a name after all
\* that are in use.
LEMMA StartKeeps ==
    ASSUME LogInv, NewService
    PROVE  LogInv' /\ Spares(log, log')
<1> DEFINE maxSeq == scanExistingSequenceNumber
           dated == [log EXCEPT !.currentDate = today]
           found == [dated EXCEPT !.currentSeqNum = maxSeq]
<1>0. /\ log \in Logs /\ Sound(log, written) /\ today \in Nat /\ written \in Nat
      /\ log.currentDate \in Nat \ {0} /\ log.currentSeqNum \in Nat /\ log.currentDate <= today
  BY LogFields DEF LogInv, Sound
<1>1. today # 0 /\ Current[1] = 0
  BY <1>0, CurrentName
<1>2. \A n \in Rotated(log) : n[1] = today => n[2] \in 1..log.currentSeqNum
  <2>1. \A n \in Rotated(log) : n[1] = today => n[1] = log.currentDate
    BY <1>0 DEF Sound, Names
  <2> QED
    BY <2>1, <1>0 DEF Sound, Names
<1>3. Numbers(today) \in SUBSET (0..log.currentSeqNum)
  BY <1>0, <1>1, <1>2 DEF Numbers, Rotated
<1>4. maxSeq \in Numbers(today) \cup {0} /\ \A m \in Numbers(today) : m <= maxSeq
  <2>1. PICK n \in Numbers(today) \cup {0} : \A m \in Numbers(today) \cup {0} : m <= n
    <3>1. Numbers(today) \cup {0} \in SUBSET (0..log.currentSeqNum)
      BY <1>0, <1>3
    <3> QED
      BY <1>0, <3>1, Largest
  <2> QED
    BY <2>1 DEF scanExistingSequenceNumber
<1>5. maxSeq \in Nat
  BY <1>0, <1>3, <1>4
<1>6. \E l \in openCurrentFile(found) : log' = l
  <2>1. [log EXCEPT !.currentDate = today, !.currentSeqNum = maxSeq] = found
    BY <1>0 DEF Logs
  <2> QED
    BY <2>1 DEF NewService
<1> HIDE DEF maxSeq, dated
<1>7. /\ dated \in Logs /\ dated.fileWriter = log.fileWriter /\ dated.currentDate = today
      /\ dated.files = log.files
  BY <1>0, <1>1, WithField DEF dated
<1>8. /\ found \in Logs /\ found.fileWriter = log.fileWriter /\ found.currentDate = today
      /\ found.currentSeqNum = maxSeq /\ found.files = log.files
  BY <1>5, <1>7, WithField
<1> HIDE DEF found
<1>9. Names(found)
  <2> SUFFICES ASSUME NEW n \in Rotated(log)
               PROVE  n[1] \in 1..today /\ (n[1] = today => n[2] \in 1..maxSeq)
    BY <1>8 DEF Names, Rotated
  <2>1. n[1] \in 1..today
    BY <1>0 DEF Sound, Names
  <2>2. ASSUME n[1] = today PROVE n[2] \in 1..maxSeq
    <3>1. n[2] \in Numbers(today)
      BY <2>2 DEF Numbers, Rotated
    <3>2. n[2] <= maxSeq /\ n[2] \in Nat \ {0}
      BY <2>2, <3>1, <1>2, <1>4
    <3> QED
      BY <3>2, <1>5
  <2> QED
    BY <2>1, <2>2
<1>10. Sound(found, written) /\ Spares(log, found)
  BY <1>0, <1>8, <1>9 DEF Sound, Spares, Rotated
<1>11. Sound(log', written) /\ log'.currentDate = today /\ Spares(found, log')
  BY <1>6, <1>8, <1>10, OpenKeeps
<1>12. today' = today /\ written' = written
  BY DEF NewService
<1> QED
  BY <1>0, <1>10, <1>11, <1>12, SparesOn DEF LogInv

\* Every step keeps the invariant and the rotated files.
LEMMA LogNextKeeps ==
    ASSUME LogInv, [LogNext]_logVars
    PROVE  LogInv' /\ Spares(log, log')
<1>1. CASE Midnight
  BY <1>1, LogFields DEF Midnight, LogInv, Sound, Spares
<1>2. CASE UNCHANGED logVars
  BY <1>2 DEF logVars, LogInv, Spares
<1> QED
  BY <1>1, <1>2, LogKeeps, StartKeeps DEF LogNext

\* An agent that starts for the first time has one empty file.
LEMMA LogInitInv == LogInit => LogInv
<1> SUFFICES ASSUME LogInit PROVE LogInv
  OBVIOUS
<1> DEFINE files == [name \in {Current} |-> <<>>]
<1>1. DOMAIN files = {Current} /\ files \in [DOMAIN files -> Seq(Nat)] /\ files[Current] = <<>>
  OBVIOUS
<1>2. log = [currentDate |-> 1, currentSeqNum |-> 0, fileWriter |-> TRUE, files |-> files]
  BY DEF LogInit
<1> HIDE DEF files
<1>3. log \in Logs
  <2>1. DOMAIN files \subseteq Nat \X Nat
    BY <1>1, CurrentName
  <2>2. files \in UNION { [names -> Seq(Nat)] : names \in SUBSET (Nat \X Nat) }
    BY <1>1, <2>1
  <2> QED
    BY <1>2, <2>2 DEF Logs
<1>4. /\ log.currentDate = 1 /\ log.files = files /\ today = 1 /\ written = 0
  BY <1>2 DEF LogInit
<1>5. Names(log)
  BY <1>1, <1>4 DEF Names, Rotated
<1>6. Kept(log.files, 0)
  BY <1>1, <1>4 DEF Kept
<1> QED
  BY <1>1, <1>3, <1>4, <1>5, <1>6 DEF LogInv, Sound

\* The invariant, for any number of days and of entries.
LEMMA LogInvHolds == LogSpec => []LogInv
BY LogInitInv, LogNextKeeps, PTL DEF LogSpec

(***************************************************************************)
(* The audit log keeps every entry, once and in order, for any number of   *)
(* entries and days, and whatever close, rename, create or write fails.    *)
(***************************************************************************)
THEOREM NothingIsLost == LogSpec => []EntriesKept
<1>1. LogInv => EntriesKept
  <2> SUFFICES ASSUME LogInv PROVE EntriesKept
    OBVIOUS
  <2>1. Kept(log.files, written)
    BY DEF LogInv, Sound
  <2>2. \A p \in Places : /\ p = <<p[1], p[2]>> /\ p[1] \in DOMAIN log.files
                          /\ p[2] \in DOMAIN log.files[p[1]]
    BY DEF Places
  <2>3. \A n \in DOMAIN log.files : \A i \in DOMAIN log.files[n] : <<n, i>> \in Places
    BY DEF Places
  <2>4. { EntryAt(p) : p \in Places } = 1..written
    <3>1. \A p \in Places : EntryAt(p) \in 1..written
      BY <2>1, <2>2 DEF Kept, EntryAt
    <3>2. \A k \in 1..written : \E p \in Places : EntryAt(p) = k
      BY <2>1, <2>3 DEF Kept, EntryAt
    <3> QED
      BY <3>1, <3>2
  <2>5. ASSUME NEW p \in Places, NEW q \in Places, Earlier(p, q)
        PROVE  EntryAt(p) < EntryAt(q)
    BY <2>1, <2>2, <2>5 DEF Kept, EntryAt, Earlier
  <2> QED
    BY <2>4, <2>5 DEF EntriesKept
<1> QED
  BY <1>1, LogInvHolds, PTL

(***************************************************************************)
(* A log that has been rotated stays as it is: no rotation by day or by    *)
(* size, before or after a restart, takes a name that is in use.           *)
(***************************************************************************)
THEOREM NoNameIsTaken == LogSpec => RotatedStay
<1>1. LogInv /\ [LogNext]_logVars =>
          [\A n \in Rotated(log) :
               n \in DOMAIN log'.files /\ log'.files[n] = log.files[n]]_logVars
  BY LogNextKeeps DEF Spares, Rotated
<1> QED
  BY <1>1, LogInvHolds, PTL DEF LogSpec, RotatedStay
--------------------------------------------------------------------------------
(***************************************************************************)
(* The audit log is the one part of the agent's state that a request on a  *)
(* stack's files shares with all others: what a request does is a call of  *)
(* the log, or leaves it alone.                                            *)
(***************************************************************************)

\* The steps of a request before it answers leave the log alone.
LEMMA WorkSparesLog ==
    ASSUME NEW r \in Requests, Work(r), ~Respond(r)
    PROVE  UNCHANGED logVars
<1>1. CASE CheckTarget(r) \/ CheckPath(r) \/ MakeParents(r) \/ SetAttributes(r)
  BY <1>1 DEF CheckTarget, CheckPath, MakeParents, SetAttributes, Goto, Ok, Error, Step
<1>2. CASE OpenTemp(r) \/ WriteTemp(r) \/ Place(r) \/ Delete(r) \/ Rename(r)
  BY <1>2 DEF OpenTemp, OpenAt, WriteTemp, Place, Delete, Rename, Ok, Error, Step
<1>3. CASE copyDirectory(r) \/ copyFile(r) \/ Copied(r) \/ CopyMode(r) \/ CopyEnds(r)
  BY <1>3 DEF copyDirectory, copyFile, OpenAt, Copied, CopyMode, CopyEnds, Ok, Error, Step
<1>4. CASE CheckAttributes(r) \/ ChangeNext(r) \/ WalkEnds(r)
  BY <1>4 DEF CheckAttributes, ChangeNext, WalkEnds, Ok, Error, Step
<1>5. CASE CheckFile(r) \/ OpenToRead(r) \/ ReadContent(r) \/ ReadFails(r)
  BY <1>5 DEF CheckFile, OpenToRead, ReadContent, ReadFails, Goto, Error, Step
<1>6. CASE EditRead(r) \/ ValidateBegins(r) \/ Load(r) \/ EditOpen(r) \/ EditWrite(r)
  BY <1>6 DEF EditRead, ValidateBegins, Load, EditOpen, OpenAt, EditWrite, Error, Step
<1> QED
  BY <1>1, <1>2, <1>3, <1>4, <1>5, <1>6 DEF Work

\* A step of the files is one of the log, or leaves it alone.
LEMMA StepsAreCallsOfTheLog ==
    ASSUME [StackNext]_stackVars
    PROVE  [LogNext]_logVars
<1>1. ASSUME NEW r \in Requests, NEW op \in Operations, Begin(r, op)
      PROVE  UNCHANGED logVars
  BY <1>1 DEF Begin
<1>2. ASSUME NEW r \in Requests, Respond(r)
      PROVE  Log \/ UNCHANGED logVars
  BY <1>2 DEF Respond
<1>3. LogOther => Log
  BY DEF LogOther
<1>4. Restart => NewService
  BY DEF Restart
<1>5. DayPasses => Midnight
  BY DEF DayPasses
<1>6. UNCHANGED stackVars => UNCHANGED logVars
  BY DEF stackVars
<1> QED
  BY <1>1, <1>2, <1>3, <1>4, <1>5, <1>6, WorkSparesLog DEF StackNext, LogNext

(***************************************************************************)
(* The requests on the files, their answers and the restarts of the agent  *)
(* use the audit log only as its specification says: what is proved of the *)
(* log holds of the agent that serves the files.                           *)
(***************************************************************************)
THEOREM UsesTheLog == StackSpec => LogSpec
<1>1. StackInit => LogInit
  BY DEF StackInit
<1> QED
  BY <1>1, StepsAreCallsOfTheLog, PTL DEF StackSpec, LogSpec

\* The log of the agent that serves the files is the log that is proved about.
COROLLARY EntriesStay == StackSpec => []EntriesKept
BY UsesTheLog, NothingIsLost, PTL

COROLLARY RotatedLogsStay == StackSpec => RotatedStay
BY UsesTheLog, NoNameIsTaken, PTL

--------------------------------------------------------------------------------
(***************************************************************************)
(* The files of a stack.  What follows is about any tree t of paths, files *)
(* d and requests j, so that a step can be taken apart into what it does   *)
(* to each of them before they become the state.                           *)
(***************************************************************************)

ComposeNames == {"docker-compose.yml", "docker-compose.yaml", "compose.yml", "compose.yaml"}
FileNames == STRING \cup ComposeNames \cup Requests \cup TempNames
Paths == Seq(FileNames)
Fields == {"op", "at", "result", "in", "out", "todo", "file", "source", "edited", "before",
           "hindered"}
FileFields == {"content", "set", "mixed", "exposed", "opener"}
Uploads == {"write", "upload"}

\* A file is at one path only.
TreeSound(t, d) ==
    /\ DOMAIN t \subseteq Paths
    /\ \A p \in DOMAIN t : t[p] = Dir \/ t[p] \in DOMAIN d
    /\ \A p, q \in DOMAIN t : t[p] = t[q] /\ t[p] # Dir => p = q

DataSound(d) ==
    /\ IsFiniteSet(DOMAIN d) /\ DOMAIN d \subseteq Nat \ {Dir}
    /\ \A n \in DOMAIN d :
          /\ DOMAIN d[n] = FileFields
          /\ d[n].mixed \in BOOLEAN /\ d[n].exposed \in BOOLEAN
          /\ d[n].mixed => d[n].exposed

JobSound(d, k) ==
    /\ DOMAIN k = Fields
    /\ k.in \in DOMAIN d \cup {Dir} /\ k.out \in DOMAIN d \cup {Dir}
    /\ k.at \notin {"idle", "done"} => k.op \in Operations
    /\ \A task \in k.todo : task.to \in Paths
    /\ k.file \in Paths
    /\ k.at = "mkdir" => k.op.kind \in Uploads \cup {"mkdir", "rename", "copy"}
    /\ k.at \in {"copy", "mode"} => k.op.kind = "copy"
    /\ k.at = "write" => k.out # Dir
    /\ k.at = "place" => k.out = Dir

\* The file is under a name that is not a temporary one.
Shown(t, n) == \E p \in DOMAIN t : t[p] = n /\ Last(p) \notin TempNames
Writing(j, n) == \E s \in Requests : j[s].out = n

\* A file that is torn, or that somebody is writing, is not shown but as an exposed one.
Ready(d, j, n) == d[n].content = Torn \/ Writing(j, n) => d[n].exposed
ShownReady(t, d, j) == \A n \in DOMAIN d : Shown(t, n) => Ready(d, j, n)

\* A reader has a file that is not a temporary one, and as it is now if it is not exposed.
ReadSound(t, d, j, k) ==
    k.in # Dir /\ k.op.kind \in Reads =>
        /\ \A p \in DOMAIN t : t[p] = k.in => Last(p) \notin TempNames
        /\ Ready(d, j, k.in)
        /\ k.edited = d[k.in].content \/ d[k.in].exposed

\* Who writes a file that is not exposed is the one that opened it, under its temporary name.
OpenedSound(d, r, k) ==
    k.out # Dir => d[k.out].exposed \/ (d[k.out].opener = {r} /\ k.op.kind \in Uploads)

\* A write opens one file, and has written all of it when it moves it.
OwnSound(d, r, k) ==
    \A n \in DOMAIN d : d[n].opener = {r} /\ k.at # "done" =>
        /\ k.at # "idle"
        /\ k.op.kind \in Uploads =>
              /\ k.at \notin {"check", "mkdir", "open"}
              /\ k.at = "write" => n = k.out
              /\ k.at = "place" => d[n].content # Torn \/ d[n].exposed

RequestSound(t, d, j, r, k) ==
    JobSound(d, k) /\ ReadSound(t, d, j, k) /\ OpenedSound(d, r, k) /\ OwnSound(d, r, k)

FilesSound(t, d, j) ==
    /\ TreeSound(t, d) /\ DataSound(d) /\ ShownReady(t, d, j)
    /\ DOMAIN j = Requests
    /\ \A r \in Requests : RequestSound(t, d, j, r, j[r])

FilesInv == FilesSound(tree, data, job)

\* Only the jobs change; nobody opens a file to write it.
LEMMA JobsChange ==
    ASSUME NEW t, NEW d, NEW j, FilesSound(t, d, j),
           NEW i, DOMAIN i = Requests,
           \A r \in Requests : RequestSound(t, d, j, r, i[r]) /\ i[r].out \in {j[r].out, Dir}
    PROVE  FilesSound(t, d, i)
<1>1. \A n \in DOMAIN d : Writing(i, n) => Writing(j, n)
  BY DEF FilesSound, DataSound, Writing
<1>2. \A n \in DOMAIN d : Ready(d, j, n) => Ready(d, i, n)
  BY <1>1 DEF Ready
<1>3. ShownReady(t, d, i)
  BY <1>2 DEF FilesSound, ShownReady
<1>4. ASSUME NEW r \in Requests
      PROVE  RequestSound(t, d, i, r, i[r])
  <2>1. JobSound(d, i[r]) /\ ReadSound(t, d, j, i[r])
    BY DEF RequestSound
  <2>2. ReadSound(t, d, i, i[r])
    BY <2>1, <1>2 DEF ReadSound, JobSound
  <2> QED
    BY <2>2 DEF RequestSound
<1> QED
  BY <1>3, <1>4 DEF FilesSound

\* One job changes.
LEMMA JobChanges ==
    ASSUME NEW t, NEW d, NEW j, FilesSound(t, d, j), NEW r \in Requests,
           NEW k, RequestSound(t, d, j, r, k), k.out \in {j[r].out, Dir}
    PROVE  FilesSound(t, d, [j EXCEPT ![r] = k])
<1> DEFINE i == [j EXCEPT ![r] = k]
<1>1. DOMAIN i = Requests /\ i[r] = k /\ \A s \in Requests \ {r} : i[s] = j[s]
  BY DEF FilesSound
<1> HIDE DEF i
<1>2. \A s \in Requests : RequestSound(t, d, j, s, i[s]) /\ i[s].out \in {j[s].out, Dir}
  BY <1>1 DEF FilesSound
<1>3. FilesSound(t, d, i)
  BY <1>1, <1>2, JobsChange
<1> QED
  BY <1>3 DEF i

\* Of the files change only their attributes, and some may become exposed.
LEMMA FilesChange ==
    ASSUME NEW t, NEW d, NEW j, FilesSound(t, d, j), NEW e, DOMAIN e = DOMAIN d,
           \A n \in DOMAIN d :
               /\ DOMAIN e[n] = FileFields
               /\ e[n].content = d[n].content /\ e[n].mixed = d[n].mixed
               /\ e[n].opener = d[n].opener
               /\ e[n].exposed \in BOOLEAN /\ (d[n].exposed => e[n].exposed)
    PROVE  FilesSound(t, e, j)
<1>1. TreeSound(t, e) /\ DataSound(e)
  BY DEF FilesSound, TreeSound, DataSound
<1>2. \A n \in DOMAIN d : Ready(d, j, n) => Ready(e, j, n)
  BY DEF Ready
<1>3. ShownReady(t, e, j)
  BY <1>2 DEF FilesSound, ShownReady
<1>4. ASSUME NEW r \in Requests
      PROVE  RequestSound(t, e, j, r, j[r])
  <2>1. RequestSound(t, d, j, r, j[r])
    BY DEF FilesSound
  <2>2. JobSound(e, j[r])
    BY <2>1 DEF RequestSound, JobSound
  <2>3. ReadSound(t, e, j, j[r])
    BY <2>1, <1>2 DEF RequestSound, JobSound, ReadSound
  <2>4. OpenedSound(e, r, j[r])
    BY <2>1 DEF RequestSound, JobSound, OpenedSound
  <2>5. OwnSound(e, r, j[r])
    BY <2>1 DEF RequestSound, OwnSound
  <2> QED
    BY <2>2, <2>3, <2>4, <2>5 DEF RequestSound
<1> QED
  BY <1>1, <1>3, <1>4 DEF FilesSound

\* The tree changes: what is at a path now was at one before, and is not shown for the
\* first time before it is ready.
LEMMA TreeChanges ==
    ASSUME NEW t, NEW d, NEW j, FilesSound(t, d, j), NEW u, DOMAIN u \subseteq Paths,
           \A p, q \in DOMAIN u : u[p] = u[q] /\ u[p] # Dir => p = q,
           \A p \in DOMAIN u : u[p] # Dir =>
               \E q \in DOMAIN t :
                   /\ u[p] = t[q]
                   /\ Last(q) \notin TempNames => Last(p) \notin TempNames
                   /\ Last(p) \notin TempNames => Last(q) \notin TempNames \/ Ready(d, j, u[p])
    PROVE  FilesSound(u, d, j)
<1>1. TreeSound(u, d)
  BY DEF FilesSound, TreeSound
<1>2. ShownReady(u, d, j)
  <2> SUFFICES ASSUME NEW n \in DOMAIN d, NEW p \in DOMAIN u, u[p] = n, Last(p) \notin TempNames
               PROVE  Ready(d, j, n)
    BY DEF ShownReady, Shown
  <2>1. n # Dir
    BY DEF FilesSound, DataSound
  <2>2. PICK q \in DOMAIN t : u[p] = t[q] /\ (Last(q) \notin TempNames \/ Ready(d, j, u[p]))
    BY <2>1
  <2> QED
    BY <2>2 DEF FilesSound, ShownReady, Shown
<1>3. ASSUME NEW r \in Requests
      PROVE  RequestSound(u, d, j, r, j[r])
  <2>1. RequestSound(t, d, j, r, j[r])
    BY DEF FilesSound
  <2>2. ReadSound(u, d, j, j[r])
    BY <2>1 DEF RequestSound, ReadSound
  <2> QED
    BY <2>1, <2>2 DEF RequestSound
<1> QED
  BY <1>1, <1>2, <1>3 DEF FilesSound

\* A tree that has lost paths, or has new directories.
LEMMA PathsChange ==
    ASSUME NEW t, NEW d, NEW j, FilesSound(t, d, j), NEW u, DOMAIN u \subseteq Paths,
           \A p \in DOMAIN u : u[p] = Dir \/ (p \in DOMAIN t /\ u[p] = t[p])
    PROVE  FilesSound(u, d, j)
<1>1. \A p, q \in DOMAIN u : u[p] = u[q] /\ u[p] # Dir => p = q
  BY DEF FilesSound, TreeSound
<1> QED
  BY <1>1, TreeChanges

\* A file that is in no path and that nobody has open is forgotten.
LEMMA Forgotten ==
    ASSUME NEW t, NEW d, NEW j, FilesSound(t, d, j), NEW S,
           \A p \in DOMAIN t : t[p] \in S,
           \A r \in Requests : j[r].in \in S /\ j[r].out \in S
    PROVE  FilesSound(t, Restrict(d, DOMAIN d \cap S), j)
<1> DEFINE e == Restrict(d, DOMAIN d \cap S)
<1>1. DOMAIN e = DOMAIN d \cap S /\ \A n \in DOMAIN e : e[n] = d[n]
  BY DEF Restrict
<1>2. IsFiniteSet(DOMAIN e)
  BY <1>1, FS_Subset DEF FilesSound, DataSound
<1> HIDE DEF e
<1>3. TreeSound(t, e) /\ DataSound(e)
  BY <1>1, <1>2 DEF FilesSound, TreeSound, DataSound
<1>4. \A n \in DOMAIN e : Ready(d, j, n) => Ready(e, j, n)
  BY <1>1 DEF Ready
<1>5. ShownReady(t, e, j)
  BY <1>1, <1>4 DEF FilesSound, ShownReady
<1>6. ASSUME NEW r \in Requests
      PROVE  RequestSound(t, e, j, r, j[r])
  <2>1. RequestSound(t, d, j, r, j[r])
    BY DEF FilesSound
  <2>2. JobSound(e, j[r])
    BY <2>1, <1>1 DEF RequestSound, JobSound
  <2>3. ReadSound(t, e, j, j[r])
    <3>1. j[r].in # Dir => j[r].in \in DOMAIN e
      BY <2>2 DEF JobSound
    <3> QED
      BY <2>1, <1>1, <1>4, <3>1 DEF RequestSound, ReadSound
  <2>4. OpenedSound(e, r, j[r])
    BY <2>1, <2>2, <1>1 DEF RequestSound, JobSound, OpenedSound
  <2>5. OwnSound(e, r, j[r])
    BY <2>1, <1>1 DEF RequestSound, OwnSound
  <2> QED
    BY <2>2, <2>3, <2>4, <2>5 DEF RequestSound
<1>7. FilesSound(t, e, j)
  BY <1>3, <1>5, <1>6 DEF FilesSound
<1> QED
  BY <1>7 DEF e

\* What becomes the state.
LEMMA Becomes ==
    ASSUME NEW t, NEW d, NEW j, FilesSound(t, d, j), Become(t, d, j)
    PROVE  FilesInv'
<1> DEFINE live == { t[p] : p \in DOMAIN t } \cup UNION { {j[s].in, j[s].out} : s \in Requests }
<1>1. tree' = t /\ data' = Restrict(d, DOMAIN d \cap live) /\ job' = j
  BY DEF Become
<1>2. /\ \A p \in DOMAIN t : t[p] \in live
      /\ \A r \in Requests : j[r].in \in live /\ j[r].out \in live
  OBVIOUS
<1> HIDE DEF live
<1>3. FilesSound(t, Restrict(d, DOMAIN d \cap live), j)
  BY <1>2, Forgotten
<1>4. FilesSound(tree', data', job')
  BY <1>1, <1>3
<1> QED
  BY <1>4 DEF FilesInv, FilesSound, TreeSound, DataSound, ShownReady, Shown, Ready, Writing,
     RequestSound, JobSound, ReadSound, OpenedSound, OwnSound

\* A function with one more argument, or with another value there.
Put(f, g, x, value) ==
    DOMAIN g = DOMAIN f \cup {x} /\ g[x] = value /\ \A y \in DOMAIN f \ {x} : g[y] = f[y]

\* A file is made at a path, or the one that is there is opened anew.
LEMMA FileOpens ==
    ASSUME NEW t, NEW d, NEW j, FilesSound(t, d, j),
           NEW p \in Paths, NEW n \in Nat \ {Dir},
           n \notin DOMAIN d \/ (p \in DOMAIN t /\ t[p] = n),
           NEW u, Put(t, u, p, n), NEW e, Put(d, e, n, e[n]),
           DOMAIN e[n] = FileFields, e[n].mixed \in BOOLEAN, e[n].exposed \in BOOLEAN,
           e[n].mixed => e[n].exposed, e[n].exposed \/ Last(p) \in TempNames,
           NEW r \in Requests, e[n].opener \in {{}, {r}},
           \A s \in Requests : s # r /\ j[s].out = n => e[n].exposed,
           NEW k, k.out \in {n, j[r].out}, k.in = Dir \/ k.op.kind \notin Reads,
           JobSound(e, k), OpenedSound(e, r, k), OwnSound(e, r, k)
    PROVE  FilesSound(u, e, [j EXCEPT ![r] = k])
<1> DEFINE i == [j EXCEPT ![r] = k]
<1>1. DOMAIN u = DOMAIN t \cup {p} /\ u[p] = n /\ \A q \in DOMAIN t \ {p} : u[q] = t[q]
  BY DEF Put
<1>2. DOMAIN e = DOMAIN d \cup {n} /\ \A m \in DOMAIN d \ {n} : e[m] = d[m]
  BY DEF Put
<1>3. DOMAIN i = Requests /\ i[r] = k /\ \A s \in Requests \ {r} : i[s] = j[s]
  BY DEF FilesSound
<1>4. JobSound(e, k) /\ OpenedSound(e, r, k) /\ OwnSound(e, r, k)
  OBVIOUS
<1>5. IsFiniteSet(DOMAIN e)
  BY <1>2, FS_AddElement DEF FilesSound, DataSound
<1> HIDE DEF i
<1>6. \A q \in DOMAIN t \ {p} : t[q] # n
  BY DEF FilesSound, TreeSound
<1>7. TreeSound(u, e)
  BY <1>1, <1>2, <1>6 DEF FilesSound, TreeSound
<1>8. DataSound(e)
  BY <1>2, <1>5 DEF FilesSound, DataSound
<1>9. \A m \in DOMAIN e \ {n} : m \in DOMAIN d /\ (Writing(i, m) => Writing(j, m))
  BY <1>2, <1>3 DEF Writing
<1>10. \A m \in DOMAIN e \ {n} : Ready(d, j, m) => Ready(e, i, m)
  BY <1>2, <1>9 DEF Ready
<1>11. Ready(e, i, n) \/ Last(p) \in TempNames
  BY <1>2 DEF Ready
<1>12. ShownReady(u, e, i)
  <2> SUFFICES ASSUME NEW m \in DOMAIN e, NEW q \in DOMAIN u, u[q] = m, Last(q) \notin TempNames
               PROVE  Ready(e, i, m)
    BY DEF ShownReady, Shown
  <2>1. CASE q = p
    BY <2>1, <1>1, <1>11
  <2>2. CASE q # p
    <3>1. q \in DOMAIN t /\ t[q] = m /\ m # n
      BY <2>2, <1>1, <1>6
    <3> QED
      BY <3>1, <1>9, <1>10 DEF FilesSound, ShownReady, Shown
  <2> QED
    BY <2>1, <2>2
<1>13. ASSUME NEW s \in Requests
       PROVE  RequestSound(u, e, i, s, i[s])
  <2>1. CASE s = r
    <3>1. ReadSound(u, e, i, k)
      BY DEF ReadSound
    <3> QED
      BY <2>1, <3>1, <1>3, <1>4 DEF RequestSound
  <2>2. CASE s # r
    <3>1. RequestSound(t, d, j, s, j[s]) /\ i[s] = j[s]
      BY <2>2, <1>3 DEF FilesSound
    <3>2. JobSound(e, j[s])
      BY <3>1, <1>2 DEF RequestSound, JobSound
    <3>3. OpenedSound(e, s, j[s])
      BY <3>1, <2>2, <1>2 DEF RequestSound, JobSound, OpenedSound
    <3>4. OwnSound(e, s, j[s])
      BY <3>1, <2>2, <1>2 DEF RequestSound, OwnSound
    <3>5. ReadSound(u, e, i, j[s])
      <4> SUFFICES ASSUME j[s].in # Dir, j[s].op.kind \in Reads
                   PROVE  /\ \A q \in DOMAIN u : u[q] = j[s].in => Last(q) \notin TempNames
                          /\ Ready(e, i, j[s].in)
                          /\ j[s].edited = e[j[s].in].content \/ e[j[s].in].exposed
        BY DEF ReadSound
      <4>1. /\ j[s].in \in DOMAIN d
            /\ \A q \in DOMAIN t : t[q] = j[s].in => Last(q) \notin TempNames
            /\ Ready(d, j, j[s].in)
            /\ j[s].edited = d[j[s].in].content \/ d[j[s].in].exposed
        BY <3>1 DEF RequestSound, ReadSound, JobSound
      <4>2. CASE j[s].in # n
        BY <4>1, <4>2, <1>1, <1>2, <1>10
      <4>3. CASE j[s].in = n
        <5>1. p \in DOMAIN t /\ t[p] = n
          BY <4>1, <4>3
        <5>2. Last(p) \notin TempNames
          BY <4>1, <4>3, <5>1
        <5>3. e[n].exposed
          BY <5>2
        <5> QED
          BY <4>3, <5>2, <5>3, <1>1, <1>2, <1>6 DEF Ready
      <4> QED
        BY <4>2, <4>3
    <3> QED
      BY <3>1, <3>2, <3>3, <3>4, <3>5 DEF RequestSound
  <2> QED
    BY <2>1, <2>2
<1>14. FilesSound(u, e, i)
  BY <1>3, <1>7, <1>8, <1>12, <1>13 DEF FilesSound
<1> QED
  BY <1>14 DEF i

\* The last write of a request, and its close.  What it has written may be torn if the
\* file was open to two at once.
LEMMA FileCloses ==
    ASSUME NEW t, NEW d, NEW j, FilesSound(t, d, j), NEW r \in Requests,
           j[r].at = "write",
           NEW c, c = Torn => d[j[r].out].mixed \/ j[r].op.kind \notin Uploads,
           NEW k, k.in = Dir \/ k.op.kind \notin Reads, k.out = Dir, k.op = j[r].op,
           k.at \notin {"idle", "check", "mkdir", "open", "write"},
           JobSound(d, k)
    PROVE  FilesSound(t, [d EXCEPT ![j[r].out].content = c], [j EXCEPT ![r] = k])
<1> DEFINE n == j[r].out
           e == [d EXCEPT ![n].content = c]
           i == [j EXCEPT ![r] = k]
<1>1. RequestSound(t, d, j, r, j[r])
  BY DEF FilesSound
<1>2. n # Dir /\ n \in DOMAIN d /\ DOMAIN d[n] = FileFields
  BY <1>1 DEF RequestSound, JobSound, FilesSound, DataSound
<1>3. /\ DOMAIN e = DOMAIN d /\ \A m \in DOMAIN d \ {n} : e[m] = d[m]
      /\ DOMAIN e[n] = FileFields /\ e[n].content = c
      /\ e[n].mixed = d[n].mixed /\ e[n].exposed = d[n].exposed /\ e[n].opener = d[n].opener
  BY <1>2 DEF FileFields
<1>4. DOMAIN i = Requests /\ i[r] = k /\ \A s \in Requests \ {r} : i[s] = j[s]
  BY DEF FilesSound
<1>5. c = Torn => d[n].mixed \/ j[r].op.kind \notin Uploads
  OBVIOUS
<1>6. Writing(j, n)
  BY <1>2 DEF Writing
<1>7. d[n].exposed \/ (d[n].opener = {r} /\ j[r].op.kind \in Uploads)
  BY <1>1, <1>2 DEF RequestSound, OpenedSound
<1> HIDE DEF e, i
<1>8. TreeSound(t, e)
  BY <1>3 DEF FilesSound, TreeSound
<1>9. DataSound(e)
  BY <1>2, <1>3 DEF FilesSound, DataSound
<1>10. \A m \in DOMAIN d : Ready(d, j, m) => Ready(e, i, m)
  <2>1. \A m \in DOMAIN d : Writing(i, m) => Writing(j, m)
    BY <1>4 DEF Writing, FilesSound, DataSound
  <2> QED
    BY <2>1, <1>3, <1>6 DEF Ready
<1>11. ShownReady(t, e, i)
  BY <1>3, <1>10 DEF FilesSound, ShownReady
<1>12. ASSUME NEW s \in Requests
       PROVE  RequestSound(t, e, i, s, i[s])
  <2>1. RequestSound(t, d, j, s, j[s])
    BY DEF FilesSound
  <2>2. CASE s = r
    <3>1. JobSound(e, k)
      BY <1>3 DEF JobSound
    <3>2. ReadSound(t, e, i, k) /\ OpenedSound(e, r, k)
      BY DEF ReadSound, OpenedSound
    <3>3. OwnSound(e, r, k)
      <4> SUFFICES ASSUME NEW m \in DOMAIN d, e[m].opener = {r}, k.op.kind \in Uploads, k.at = "place"
                   PROVE  e[m].content # Torn \/ e[m].exposed
        BY <1>3 DEF OwnSound
      <4>1. d[m].opener = {r}
        BY <1>3
      <4>2. m = n
        BY <1>1, <4>1 DEF RequestSound, OwnSound
      <4> QED
        BY <4>2, <1>2, <1>3, <1>5 DEF FilesSound, DataSound
    <3> QED
      BY <2>2, <3>1, <3>2, <3>3, <1>4 DEF RequestSound
  <2>3. CASE s # r
    <3>1. i[s] = j[s]
      BY <2>3, <1>4
    <3>2. JobSound(e, j[s])
      BY <2>1, <1>3 DEF RequestSound, JobSound
    <3>3. OpenedSound(e, s, j[s])
      BY <2>1, <1>3 DEF RequestSound, JobSound, OpenedSound
    <3>4. OwnSound(e, s, j[s])
      <4> SUFFICES ASSUME NEW m \in DOMAIN d, e[m].opener = {s}, j[s].at # "done"
                   PROVE  /\ j[s].at # "idle"
                          /\ j[s].op.kind \in Uploads =>
                                /\ j[s].at \notin {"check", "mkdir", "open"}
                                /\ j[s].at = "write" => m = j[s].out
                                /\ j[s].at = "place" => e[m].content # Torn \/ e[m].exposed
        BY <1>3 DEF OwnSound
      <4>1. d[m].opener = {s}
        BY <1>3
      <4>2. CASE m = n
        <5>1. d[n].opener # {r}
          BY <4>1, <4>2, <2>3
        <5>2. e[m].exposed
          BY <5>1, <4>2, <1>3, <1>7
        <5> QED
          BY <5>2, <4>1, <2>1 DEF RequestSound, OwnSound
      <4>3. CASE m # n
        BY <4>1, <4>3, <1>3, <2>1 DEF RequestSound, OwnSound
      <4> QED
        BY <4>2, <4>3
    <3>5. ReadSound(t, e, i, j[s])
      <4> SUFFICES ASSUME j[s].in # Dir, j[s].op.kind \in Reads
                   PROVE  /\ \A q \in DOMAIN t : t[q] = j[s].in => Last(q) \notin TempNames
                          /\ Ready(e, i, j[s].in)
                          /\ j[s].edited = e[j[s].in].content \/ e[j[s].in].exposed
        BY DEF ReadSound
      <4>1. /\ j[s].in \in DOMAIN d
            /\ \A q \in DOMAIN t : t[q] = j[s].in => Last(q) \notin TempNames
            /\ Ready(d, j, j[s].in)
            /\ j[s].edited = d[j[s].in].content \/ d[j[s].in].exposed
        BY <2>1 DEF RequestSound, ReadSound, JobSound
      <4>2. CASE j[s].in # n
        BY <4>1, <4>2, <1>3, <1>10
      <4>3. CASE j[s].in = n
        BY <4>1, <4>3, <1>3, <1>6, <1>10 DEF Ready
      <4> QED
        BY <4>2, <4>3
    <3> QED
      BY <3>1, <3>2, <3>3, <3>4, <3>5 DEF RequestSound
  <2> QED
    BY <2>2, <2>3
<1>13. FilesSound(t, e, i)
  BY <1>4, <1>8, <1>9, <1>11, <1>12 DEF FilesSound
<1> QED
  BY <1>13 DEF e, i

\* The names of a path that are below a prefix of it.
Beneath(s, p) == SubSeq(s, Len(p) + 1, Len(s))

\* A path below another is that one and the rest.
LEMMA PrefixAndRest ==
    ASSUME NEW p \in Paths, NEW s \in Paths, IsPrefix(p, s)
    PROVE  Beneath(s, p) \in Paths /\ s = p \o Beneath(s, p)
<1>1. Len(p) \in Nat /\ Len(s) \in Nat /\ Len(p) <= Len(s)
  BY LenProperties DEF Paths, IsPrefix
<1>2. SubSeq(s, 1, Len(p)) = p
  BY SubSeqFull DEF Paths, IsPrefix
<1>3. SubSeq(s, 1, Len(p)) \o SubSeq(s, Len(p) + 1, Len(s)) = SubSeq(s, 1, Len(s))
  <2>1. 1 \in 1..Len(s)+1 /\ Len(p) \in 1-1..Len(s) /\ Len(s) \in Len(p)..Len(s)
    BY <1>1
  <2> QED
    BY <2>1, ConcatAdjacentSubSeq DEF Paths
<1>4. SubSeq(s, 1, Len(s)) = s
  BY SubSeqFull DEF Paths
<1>5. Beneath(s, p) \in Paths
  <2>1. \A i \in Len(p) + 1 .. Len(s) : s[i] \in FileNames
    BY <1>1, ElementOfSeq DEF Paths
  <2> QED
    BY <1>1, <2>1, SubSeqProperties DEF Paths, Beneath
<1> QED
  BY <1>2, <1>3, <1>4, <1>5 DEF Beneath

\* What is below the prefix that was put before it.
LEMMA RestOfPath ==
    ASSUME NEW q \in Paths, NEW rest \in Paths
    PROVE  /\ q \o rest \in Paths
           /\ Beneath(q \o rest, q) = rest
           /\ rest # <<>> => Last(q \o rest) = Last(rest)
<1>1. /\ q \o rest \in Paths /\ Len(q \o rest) = Len(q) + Len(rest)
      /\ \A i \in 1 .. Len(q) + Len(rest) :
            (q \o rest)[i] = IF i <= Len(q) THEN q[i] ELSE rest[i - Len(q)]
  BY ConcatProperties DEF Paths
<1>2. Len(q) \in Nat /\ Len(rest) \in Nat
  BY LenProperties DEF Paths
<1>3. /\ Beneath(q \o rest, q) \in Seq(FileNames)
      /\ Len(Beneath(q \o rest, q)) = Len(rest)
      /\ \A i \in 1 .. Len(rest) : Beneath(q \o rest, q)[i] = (q \o rest)[Len(q) + i]
  <2> DEFINE s == q \o rest
  <2>1. \A i \in Len(q) + 1 .. Len(s) : s[i] \in FileNames
    BY <1>1, <1>2, ElementOfSeq DEF Paths
  <2> HIDE DEF s
  <2>2. Len(s) = Len(q) + Len(rest)
    BY <1>1 DEF s
  <2>3. /\ SubSeq(s, Len(q) + 1, Len(s)) \in Seq(FileNames)
        /\ Len(SubSeq(s, Len(q) + 1, Len(s))) =
              IF Len(q) + 1 <= Len(s) THEN Len(s) - (Len(q) + 1) + 1 ELSE 0
        /\ \A i \in 1 .. Len(s) - (Len(q) + 1) + 1 :
              SubSeq(s, Len(q) + 1, Len(s))[i] = s[Len(q) + 1 + i - 1]
    BY <1>2, <2>1, <2>2, SubSeqProperties
  <2> QED
    BY <1>2, <2>2, <2>3 DEF Beneath, s
<1>4. Beneath(q \o rest, q) = rest
  <2>1. \A i \in 1 .. Len(rest) : Beneath(q \o rest, q)[i] = rest[i]
    BY <1>1, <1>2, <1>3
  <2> QED
    BY <1>3, <2>1, SeqEqual DEF Paths
<1>5. ASSUME rest # <<>>
      PROVE  Last(q \o rest) = Last(rest)
  <2>1. Len(rest) > 0
    BY <1>2, <1>5, EmptySeq DEF Paths
  <2> QED
    BY <1>1, <1>2, <2>1 DEF Last
<1> QED
  BY <1>1, <1>4, <1>5

\* What is at a path after a move was there before, or came with the directory or the file
\* that was moved; but for that one itself it has its last name.
LEMMA Moves ==
    ASSUME DOMAIN tree \subseteq Paths, NEW p \in Paths, NEW q \in Paths,
           NEW s \in DOMAIN Moving(p, q)
    PROVE  /\ s \in Paths
           /\ \/ s \in DOMAIN tree \ Under(p) /\ Moving(p, q)[s] = tree[s]
              \/ \E u \in Under(p) :
                    /\ s = q \o Beneath(u, p) /\ Moving(p, q)[s] = tree[u]
                    /\ Last(s) = Last(u) \/ (u = p /\ s = q)
<1> DEFINE moved == { q \o SubSeq(u, Len(p) + 1, Len(u)) : u \in Under(p) }
           to == [x \in (DOMAIN tree \ Under(p)) \cup moved |->
                     IF x \in moved THEN tree[p \o SubSeq(x, Len(q) + 1, Len(x))] ELSE tree[x]]
<1>1. Moving(p, q) = to
  BY DEF Moving
<1>2. s \in (DOMAIN tree \ Under(p)) \cup moved
  BY <1>1
<1>3. CASE s \notin moved
  BY <1>1, <1>2, <1>3
<1>4. CASE s \in moved
  <2>1. PICK u \in Under(p) : s = q \o Beneath(u, p)
    BY <1>4 DEF Beneath
  <2>2. u \in Paths /\ IsPrefix(p, u)
    BY <2>1 DEF Under
  <2>3. Beneath(u, p) \in Paths /\ u = p \o Beneath(u, p)
    BY <2>2, PrefixAndRest
  <2>4. s \in Paths /\ Beneath(s, q) = Beneath(u, p)
    BY <2>1, <2>3, RestOfPath
  <2>5. p \o SubSeq(s, Len(q) + 1, Len(s)) = u
    BY <2>3, <2>4 DEF Beneath
  <2>6. Moving(p, q)[s] = tree[u]
    BY <1>1, <1>2, <1>4, <2>5
  <2>7. Last(s) = Last(u) \/ (u = p /\ s = q)
    <3>1. CASE Beneath(u, p) # <<>>
      BY <2>1, <2>3, <3>1, RestOfPath
    <3>2. CASE Beneath(u, p) = <<>>
      BY <2>1, <2>3, <3>2, ConcatEmptySeq DEF Paths
    <3> QED
      BY <3>1, <3>2
  <2> QED
    BY <2>1, <2>4, <2>6, <2>7
<1> QED
  BY <1>3, <1>4

\* A move keeps the files sound, if what is moved is ready where it will be shown.
LEMMA MovingKeeps ==
    ASSUME NEW d, NEW j, FilesSound(tree, d, j), NEW p \in Paths, NEW q \in Paths,
           Last(q) \notin TempNames,
           IsFile(p) => Last(p) \notin TempNames \/ Ready(d, j, tree[p])
    PROVE  FilesSound(Moving(p, q), d, j)
<1> DEFINE u == Moving(p, q)
<1>1. DOMAIN tree \subseteq Paths
  BY DEF FilesSound, TreeSound
<1>2. \A s \in DOMAIN u :
          /\ s \in Paths
          /\ \/ s \in DOMAIN tree \ Under(p) /\ u[s] = tree[s]
             \/ \E x \in Under(p) :
                   /\ s = q \o Beneath(x, p) /\ u[s] = tree[x]
                   /\ Last(s) = Last(x) \/ (x = p /\ s = q)
  BY <1>1, Moves
<1> HIDE DEF u
<1>3. \A x \in Under(p) : x \in DOMAIN tree
  BY DEF Under
<1>4. ASSUME NEW s \in DOMAIN u, NEW x \in DOMAIN u, u[s] = u[x], u[s] # Dir
      PROVE  s = x
  BY <1>2, <1>3, <1>4 DEF FilesSound, TreeSound
<1>5. ASSUME NEW s \in DOMAIN u, u[s] # Dir
      PROVE  \E x \in DOMAIN tree :
                 /\ u[s] = tree[x]
                 /\ Last(x) \notin TempNames => Last(s) \notin TempNames
                 /\ Last(s) \notin TempNames => Last(x) \notin TempNames \/ Ready(d, j, u[s])
  <2>1. CASE s \in DOMAIN tree \ Under(p) /\ u[s] = tree[s]
    BY <2>1
  <2>2. ASSUME NEW x \in Under(p), u[s] = tree[x], Last(s) = Last(x)
        PROVE  \E y \in DOMAIN tree :
                 /\ u[s] = tree[y]
                 /\ Last(y) \notin TempNames => Last(s) \notin TempNames
                 /\ Last(s) \notin TempNames => Last(y) \notin TempNames \/ Ready(d, j, u[s])
    BY <2>2, <1>3
  <2>3. ASSUME p \in Under(p), u[s] = tree[p], s = q
        PROVE  \E y \in DOMAIN tree :
                 /\ u[s] = tree[y]
                 /\ Last(y) \notin TempNames => Last(s) \notin TempNames
                 /\ Last(s) \notin TempNames => Last(y) \notin TempNames \/ Ready(d, j, u[s])
    BY <2>3, <1>3, <1>5 DEF IsFile
  <2> QED
    BY <1>2, <2>1, <2>2, <2>3
<1>6. DOMAIN u \subseteq Paths
  BY <1>2
<1>7. FilesSound(u, d, j)
  BY <1>4, <1>5, <1>6, TreeChanges
<1> QED
  BY <1>7 DEF u

\* There is always a number that no file has.
LEMMA FreshIsNew ==
    ASSUME IsFiniteSet(DOMAIN data)
    PROVE  Fresh \in Nat \ {0} /\ Fresh \notin DOMAIN data
<1> DEFINE c == Cardinality(DOMAIN data)
<1>1. c \in Nat
  BY FS_CardinalityType
<1>2. IsFiniteSet(1..(c + 1)) /\ Cardinality(1..(c + 1)) = c + 1
  <2>1. 1 \in Int /\ c + 1 \in Int /\ 1 <= c + 1
    BY <1>1
  <2>2. /\ IsFiniteSet(1..(c + 1))
        /\ Cardinality(1..(c + 1)) = IF 1 > c + 1 THEN 0 ELSE (c + 1) - 1 + 1
    BY <2>1, FS_Interval
  <2> QED
    BY <1>1, <2>2
<1>3. \E n \in 1..(c + 1) : n \notin DOMAIN data
  <2> SUFFICES ASSUME 1..(c + 1) \subseteq DOMAIN data PROVE FALSE
    OBVIOUS
  <2>1. Cardinality(1..(c + 1)) <= Cardinality(DOMAIN data)
    BY FS_Subset
  <2> QED
    BY <1>1, <1>2, <2>1
<1>4. Fresh \in 1..(c + 1) /\ Fresh \notin DOMAIN data
  BY <1>3 DEF Fresh
<1> QED
  BY <1>1, <1>4
--------------------------------------------------------------------------------
(***************************************************************************)
(* The steps of a request.                                                 *)
(***************************************************************************)

\* A step whose parts keep the files sound.
LEMMA StepKeeps ==
    ASSUME NEW t, NEW d, NEW r, NEW k, FilesSound(t, d, [job EXCEPT ![r] = k]), Step(t, d, r, k)
    PROVE  FilesInv'
<1> DEFINE j == [job EXCEPT ![r] = k]
<1>1. FilesSound(t, d, j) /\ Become(t, d, j)
  BY DEF Step
<1> HIDE DEF j
<1> QED
  BY <1>1, Becomes

\* What holds of a request that works.
LEMMA Works ==
    ASSUME FilesInv, NEW r \in Requests, job[r].at \notin {"idle", "done"}
    PROVE  /\ RequestSound(tree, data, job, r, job[r])
           /\ DOMAIN job[r] = Fields /\ job[r].op \in Operations
           /\ job[r].op.path \in Paths /\ job[r].op.to \in Paths
<1>1. RequestSound(tree, data, job, r, job[r])
  BY DEF FilesInv, FilesSound
<1>2. DOMAIN job[r] = Fields /\ job[r].op \in Operations
  BY <1>1 DEF RequestSound, JobSound
<1>3. \A p \in Seq(STRING) : p \in Paths
  <2> SUFFICES ASSUME NEW p \in Seq(STRING) PROVE p \in Paths
    OBVIOUS
  <2>1. STRING \subseteq FileNames
    BY DEF FileNames
  <2> QED
    BY <2>1, SeqMonotonic DEF Paths
<1> QED
  BY <1>1, <1>2, <1>3, OperationsAssumption

\* A request that answers has no file open.
LEMMA AnswerSound ==
    ASSUME FilesInv, NEW r \in Requests, job[r].at \notin {"idle", "done"}, NEW said
    PROVE  FilesSound(tree, data, [job EXCEPT ![r] = Answer(r, said)])
<1> DEFINE k == Answer(r, said)
<1>1. RequestSound(tree, data, job, r, job[r]) /\ DOMAIN job[r] = Fields /\ job[r].op \in Operations
  BY Works
<1>2. /\ DOMAIN k = Fields /\ k.at = "answer" /\ k.op = job[r].op /\ k.file = job[r].file
      /\ k.in = Dir /\ k.out = Dir /\ k.todo = {}
  BY <1>1 DEF Answer, Fields
<1> HIDE DEF k
<1>3. RequestSound(tree, data, job, r, k)
  BY <1>1, <1>2 DEF RequestSound, JobSound, ReadSound, OpenedSound, OwnSound
<1>4. FilesSound(tree, data, [job EXCEPT ![r] = k])
  BY <1>2, <1>3, JobChanges DEF FilesInv
<1> QED
  BY <1>4 DEF k

\* A request that says "ok", or "error", without another change.
LEMMA OkKeeps ==
    ASSUME FilesInv, NEW r \in Requests, job[r].at \notin {"idle", "done"}, Ok(r)
    PROVE  FilesInv'
BY AnswerSound, StepKeeps DEF Ok

LEMMA ErrorKeeps ==
    ASSUME FilesInv, NEW r \in Requests, job[r].at \notin {"idle", "done"}, Error(r)
    PROVE  FilesInv'
BY AnswerSound, StepKeeps DEF Error

\* A request that goes on, with the files it has open.
LEMMA GoesOn ==
    ASSUME FilesInv, NEW r \in Requests, job[r].at \notin {"idle", "done"},
           NEW k, DOMAIN k = Fields, k.op = job[r].op,
           k.in = job[r].in, k.out = job[r].out,
           k.op.kind \in Reads => k.edited = job[r].edited,
           \A task \in k.todo : task.to \in Paths, k.file \in Paths,
           k.at \notin {"idle", "done", "check", "write", "place"},
           k.at = "mkdir" => k.op.kind \in Uploads \cup {"mkdir", "rename", "copy"},
           k.at \in {"copy", "mode"} => k.op.kind = "copy",
           k.at \in {"mkdir", "open"} /\ k.op.kind \in Uploads => job[r].at \in {"check", "mkdir"}
    PROVE  FilesSound(tree, data, [job EXCEPT ![r] = k])
<1>1. RequestSound(tree, data, job, r, job[r]) /\ job[r].op \in Operations
  BY Works
<1>2. JobSound(data, k)
  BY <1>1 DEF RequestSound, JobSound
<1>3. ReadSound(tree, data, job, k)
  BY <1>1 DEF RequestSound, ReadSound
<1>4. OpenedSound(data, r, k) /\ OwnSound(data, r, k)
  BY <1>1 DEF RequestSound, OpenedSound, OwnSound
<1> QED
  BY <1>2, <1>3, <1>4, JobChanges DEF RequestSound, FilesInv

\* A path that is on the way to another.
LEMMA OnTheWay ==
    ASSUME NEW p \in Paths, NEW k \in Int, k <= Len(p)
    PROVE  SubSeq(p, 1, k) \in Paths
<1>1. \A i \in 1..k : p[i] \in FileNames
  <2>1. Len(p) \in Nat
    BY LenProperties DEF Paths
  <2> QED
    BY <2>1, ElementOfSeq DEF Paths
<1> QED
  BY <1>1, SubSeqProperties DEF Paths

\* Making directories keeps the files sound.
LEMMA MkdirAllKeeps ==
    ASSUME NEW d, NEW j, FilesSound(tree, d, j), NEW p \in Paths
    PROVE  FilesSound(MkdirAll(p), d, j) /\ DOMAIN MkdirAll(p) \subseteq Paths
<1> DEFINE u == MkdirAll(p)
<1>1. /\ DOMAIN u = DOMAIN tree \cup { SubSeq(p, 1, k) : k \in 0..Len(p) }
      /\ \A q \in DOMAIN u : u[q] = IF q \in DOMAIN tree THEN tree[q] ELSE Dir
  BY DEF MkdirAll
<1>2. Len(p) \in Nat
  BY LenProperties DEF Paths
<1>3. \A k \in 0..Len(p) : SubSeq(p, 1, k) \in Paths
  BY <1>2, OnTheWay
<1>4. DOMAIN u \subseteq Paths
  BY <1>1, <1>3 DEF FilesSound, TreeSound
<1> HIDE DEF u
<1>5. FilesSound(u, d, j)
  BY <1>1, <1>4, PathsChange
<1> QED
  BY <1>4, <1>5 DEF u

\* Removing paths keeps the files sound.
LEMMA RestrictKeeps ==
    ASSUME NEW d, NEW j, FilesSound(tree, d, j), NEW S \in SUBSET DOMAIN tree
    PROVE  FilesSound(Restrict(tree, S), d, j)
<1> DEFINE u == Restrict(tree, S)
<1>1. DOMAIN u = S /\ \A q \in DOMAIN u : u[q] = tree[q]
  BY DEF Restrict
<1> HIDE DEF u
<1>2. FilesSound(u, d, j)
  <2>1. DOMAIN u \subseteq Paths /\ \A q \in DOMAIN u : q \in DOMAIN tree
    BY <1>1 DEF FilesSound, TreeSound
  <2> QED
    BY <1>1, <2>1, PathsChange
<1> QED
  BY <1>2 DEF u

LEMMA WithoutKeeps ==
    ASSUME NEW d, NEW j, FilesSound(tree, d, j), NEW p
    PROVE  FilesSound(Without(p), d, j)
<1>1. DOMAIN tree \ {p} \in SUBSET DOMAIN tree
  OBVIOUS
<1>2. FilesSound(Restrict(tree, DOMAIN tree \ {p}), d, j)
  BY <1>1, RestrictKeeps
<1> QED
  BY <1>2 DEF Without

\* chmod and chown keep the files sound.
LEMMA ChangedKeeps ==
    ASSUME NEW j, FilesSound(tree, data, j), NEW p, NEW attributes
    PROVE  FilesSound(tree, Changed(p, attributes), j)
<1>1. CASE IsFile(p)
  <2> DEFINE n == tree[p]
             e == [data EXCEPT ![n].set = @ \cup attributes]
  <2>1. n \in DOMAIN data /\ DOMAIN data[n] = FileFields
    BY <1>1 DEF IsFile, FilesSound, TreeSound, DataSound
  <2>2. /\ DOMAIN e = DOMAIN data /\ \A m \in DOMAIN data \ {n} : e[m] = data[m]
        /\ DOMAIN e[n] = FileFields /\ e[n].content = data[n].content
        /\ e[n].mixed = data[n].mixed /\ e[n].exposed = data[n].exposed /\ e[n].opener = data[n].opener
    BY <2>1 DEF FileFields
  <2> HIDE DEF e, n
  <2>3. \A m \in DOMAIN data :
            /\ DOMAIN e[m] = FileFields /\ e[m].content = data[m].content
            /\ e[m].mixed = data[m].mixed /\ e[m].opener = data[m].opener
            /\ e[m].exposed \in BOOLEAN /\ (data[m].exposed => e[m].exposed)
    <3>1. \A m \in DOMAIN data : DOMAIN data[m] = FileFields /\ data[m].exposed \in BOOLEAN
      BY DEF FilesSound, DataSound
    <3> QED
      BY <2>2, <3>1
  <2>4. FilesSound(tree, e, j)
    BY <2>2, <2>3, FilesChange
  <2>5. Changed(p, attributes) = e
    BY <1>1 DEF Changed, e, n
  <2> QED
    BY <2>4, <2>5
<1>2. CASE ~IsFile(p)
  BY <1>2 DEF Changed
<1> QED
  BY <1>1, <1>2

\* What only looks at the tree, or makes directories.
LEMMA CheckTargetKeeps ==
    ASSUME FilesInv, NEW r \in Requests, CheckTarget(r)
    PROVE  FilesInv'
<1> DEFINE op == job[r].op
           k == [job[r] EXCEPT !.at = "mkdir", !.todo = Task(op.path, op.to)]
<1>1. job[r].at = "check" /\ op.kind \in {"rename", "copy"}
  BY DEF CheckTarget, At
<1>2. RequestSound(tree, data, job, r, job[r]) /\ DOMAIN job[r] = Fields /\ op.to \in Paths
  BY <1>1, Works
<1>3. Step(tree, data, r, k) \/ Error(r)
  BY DEF CheckTarget
<1>4. ASSUME Step(tree, data, r, k) PROVE FilesInv'
  <2>1. /\ DOMAIN k = Fields /\ k.op = job[r].op /\ k.in = job[r].in /\ k.out = job[r].out
        /\ k.edited = job[r].edited /\ k.todo = Task(op.path, op.to) /\ k.file = job[r].file
        /\ k.at = "mkdir"
    BY <1>2 DEF Fields
  <2>2. \A task \in Task(op.path, op.to) : task.to \in Paths
    BY <1>2 DEF Task
  <2>3. job[r].file \in Paths
    BY <1>2 DEF RequestSound, JobSound
  <2> HIDE DEF k, op
  <2>4. FilesSound(tree, data, [job EXCEPT ![r] = k])
    <3>1. k.op.kind \in {"rename", "copy"}
      BY <1>1, <2>1 DEF op
    <3>2. \A task \in k.todo : task.to \in Paths
      BY <2>1, <2>2
    <3> QED
      BY <1>1, <2>1, <2>3, <3>1, <3>2, GoesOn DEF Uploads
  <2> QED
    BY <1>4, <2>4, StepKeeps
<1> QED
  BY <1>1, <1>3, <1>4, ErrorKeeps

LEMMA CheckPathKeeps ==
    ASSUME FilesInv, NEW r \in Requests, CheckPath(r)
    PROVE  FilesInv'
<1> DEFINE k == [job[r] EXCEPT !.at = "mkdir"]
<1>1. job[r].at = "check" /\ job[r].op.kind \in {"write", "upload", "mkdir"}
  BY DEF CheckPath, At
<1>2. RequestSound(tree, data, job, r, job[r]) /\ DOMAIN job[r] = Fields
  BY <1>1, Works
<1>3. Step(tree, data, r, k) \/ Error(r)
  BY DEF CheckPath, Goto
<1>4. ASSUME Step(tree, data, r, k) PROVE FilesInv'
  <2>1. /\ DOMAIN k = Fields /\ k.op = job[r].op /\ k.in = job[r].in /\ k.out = job[r].out
        /\ k.edited = job[r].edited /\ k.todo = job[r].todo /\ k.file = job[r].file
        /\ k.at = "mkdir"
    BY <1>2 DEF Fields
  <2>2. (\A task \in job[r].todo : task.to \in Paths) /\ job[r].file \in Paths
    BY <1>2 DEF RequestSound, JobSound
  <2> HIDE DEF k
  <2>3. FilesSound(tree, data, [job EXCEPT ![r] = k])
    BY <1>1, <2>1, <2>2, GoesOn DEF Uploads
  <2> QED
    BY <1>4, <2>3, StepKeeps
<1> QED
  BY <1>1, <1>3, <1>4, ErrorKeeps

LEMMA MakeParentsKeeps ==
    ASSUME FilesInv, NEW r \in Requests, MakeParents(r)
    PROVE  FilesInv'
<1> DEFINE op == job[r].op
           p == CASE op.kind \in {"write", "upload"} -> Parent(op.path)
                  [] op.kind = "mkdir" -> op.path
                  [] op.kind \in {"rename", "copy"} -> Parent(op.to)
           next == CASE op.kind \in {"write", "upload"} -> "open"
                     [] op.kind = "mkdir" -> "attributes"
                     [] op.kind \in {"rename", "copy"} -> op.kind
           k == [job[r] EXCEPT !.at = next]
<1>1. job[r].at = "mkdir"
  BY DEF MakeParents
<1>2. /\ RequestSound(tree, data, job, r, job[r]) /\ DOMAIN job[r] = Fields
      /\ op.path \in Paths /\ op.to \in Paths
  BY <1>1, Works
<1>3. op.kind \in Uploads \cup {"mkdir", "rename", "copy"}
  BY <1>1, <1>2 DEF RequestSound, JobSound
<1>4. Step(MkdirAll(p), data, r, k) \/ Error(r)
  BY DEF MakeParents
<1>5. ASSUME Step(MkdirAll(p), data, r, k) PROVE FilesInv'
  <2>1. /\ DOMAIN k = Fields /\ k.op = job[r].op /\ k.in = job[r].in /\ k.out = job[r].out
        /\ k.edited = job[r].edited /\ k.todo = job[r].todo /\ k.file = job[r].file
        /\ k.at = next
    BY <1>2 DEF Fields
  <2>2. (\A task \in job[r].todo : task.to \in Paths) /\ job[r].file \in Paths
    BY <1>2 DEF RequestSound, JobSound
  <2>3. /\ next \in {"open", "attributes", "rename", "copy"}
        /\ next = "copy" => op.kind = "copy"
    BY <1>3 DEF Uploads
  <2>4. p \in Paths
    <3>1. \A q \in Paths : Parent(q) \in Paths
      <4> SUFFICES ASSUME NEW q \in Paths PROVE Parent(q) \in Paths
        OBVIOUS
      <4>1. Len(q) - 1 \in Int /\ Len(q) - 1 <= Len(q)
        BY LenProperties DEF Paths
      <4> QED
        BY <4>1, OnTheWay DEF Parent, Front
    <3> QED
      BY <1>2, <1>3, <3>1 DEF Uploads
  <2> HIDE DEF k, next, p
  <2>5. FilesSound(tree, data, [job EXCEPT ![r] = k])
    BY <1>1, <2>1, <2>2, <2>3, GoesOn
  <2>6. FilesSound(MkdirAll(p), data, [job EXCEPT ![r] = k])
    BY <2>4, <2>5, MkdirAllKeeps
  <2> QED
    BY <1>5, <2>6, StepKeeps
<1> QED
  BY <1>1, <1>4, <1>5, ErrorKeeps

\* Attributes are no part of what is seen of a file.
LEMMA SetAttributesKeeps ==
    ASSUME FilesInv, NEW r \in Requests, SetAttributes(r)
    PROVE  FilesInv'
<1>1. job[r].at = "attributes"
  BY DEF SetAttributes
<1>2. ASSUME NEW some, NEW said, Step(tree, Changed(job[r].op.path, some), r, Answer(r, said))
      PROVE  FilesInv'
  <2>1. FilesSound(tree, data, [job EXCEPT ![r] = Answer(r, said)])
    BY <1>1, AnswerSound
  <2>2. FilesSound(tree, Changed(job[r].op.path, some), [job EXCEPT ![r] = Answer(r, said)])
    BY <2>1, ChangedKeeps
  <2> QED
    BY <1>2, <2>2, StepKeeps
<1> QED
  BY <1>1, <1>2, OkKeeps DEF SetAttributes

\* The opening of a file to write it, by a request that has none open to read it but that
\* which it copies.
LEMMA OpenAtKeeps ==
    ASSUME FilesInv, NEW r \in Requests, job[r].at \notin {"idle", "done"},
           NEW p \in Paths, NEW set, NEW inPlace \in BOOLEAN, NEW next,
           OpenAt(r, p, set, inPlace, next),
           DOMAIN next = Fields, next.op = job[r].op, next.at = "write",
           next.op.kind \notin Reads, next.in \in DOMAIN data \cup {Dir},
           \A task \in next.todo : task.to \in Paths, next.file \in Paths,
           inPlace \/ (Last(p) \in TempNames /\ next.op.kind \in Uploads),
           next.op.kind \in Uploads => job[r].at = "open"
    PROVE  FilesInv'
<1> DEFINE n == IF IsFile(p) THEN tree[p] ELSE Fresh
           f == File(Torn, IF IsFile(p) THEN data[n].set ELSE set,
                     Writers(n) # {}, inPlace \/ Writers(n) # {}, {r})
           k == [next EXCEPT !.out = n]
           u == [q \in DOMAIN tree \cup {p} |-> IF q = p THEN n ELSE tree[q]]
           e == [m \in DOMAIN data \cup {n} |-> IF m = n THEN f ELSE data[m]]
<1>1. Step(u, e, r, k)
  BY DEF OpenAt
<1>2. RequestSound(tree, data, job, r, job[r]) /\ job[r].op \in Operations
  BY Works
<1>3. TreeSound(tree, data) /\ DataSound(data) /\ IsFiniteSet(DOMAIN data)
  BY DEF FilesInv, FilesSound, DataSound
<1>4. /\ n \in Nat \ {Dir}
      /\ n \notin DOMAIN data \/ (p \in DOMAIN tree /\ tree[p] = n)
  <2>1. CASE IsFile(p)
    <3>1. p \in DOMAIN tree /\ n = tree[p] /\ n # Dir /\ n \in DOMAIN data
      BY <2>1, <1>3 DEF IsFile, TreeSound
    <3>2. DOMAIN data \subseteq Nat
      BY DEF FilesInv, FilesSound, DataSound
    <3> QED
      BY <3>1, <3>2
  <2>2. CASE ~IsFile(p)
    BY <2>2, <1>3, FreshIsNew DEF Dir
  <2> QED
    BY <2>1, <2>2
<1>5. /\ DOMAIN f = FileFields /\ f.mixed \in BOOLEAN /\ f.exposed \in BOOLEAN
      /\ f.mixed => f.exposed
      /\ f.opener = {r}
      /\ f.exposed \/ Last(p) \in TempNames
      /\ f.exposed \/ next.op.kind \in Uploads
      /\ Writers(n) # {} => f.exposed
  BY DEF File, FileFields
<1>6. /\ DOMAIN k = Fields /\ k.op = next.op /\ k.op = job[r].op /\ k.in = next.in /\ k.out = n /\ k.at = "write"
      /\ k.todo = next.todo /\ k.file = next.file
  BY DEF Fields
<1>7. DOMAIN e = DOMAIN data \cup {n} /\ e[n] = f /\ \A m \in DOMAIN data \ {n} : e[m] = data[m]
  OBVIOUS
<1>13. DOMAIN u = DOMAIN tree \cup {p} /\ u[p] = n /\ \A q \in DOMAIN tree \ {p} : u[q] = tree[q]
  OBVIOUS
<1> HIDE DEF n, f, k, e, u
<1>8. JobSound(e, k)
  BY <1>2, <1>4, <1>6, <1>7 DEF JobSound
<1>9. OpenedSound(e, r, k)
  <2>1. k.op.kind = next.op.kind
    BY <1>6
  <2>2. e[k.out] = f
    BY <1>6, <1>7
  <2>3. f.exposed \/ (f.opener = {r} /\ k.op.kind \in Uploads)
    BY <1>5, <2>1
  <2> QED
    BY <2>2, <2>3 DEF OpenedSound
<1>10. OwnSound(e, r, k)
  BY <1>2, <1>5, <1>6, <1>7 DEF OwnSound, RequestSound
<1>11. \A s \in Requests : s # r /\ job[s].out = n => f.exposed
  BY <1>5 DEF Writers
<1>12. FilesSound(u, e, [job EXCEPT ![r] = k])
  <2>1. e[n].opener \in {{}, {r}} /\ \A s \in Requests : s # r /\ job[s].out = n => e[n].exposed
    BY <1>5, <1>7, <1>11
  <2>5. /\ DOMAIN e[n] = FileFields /\ e[n].mixed \in BOOLEAN /\ e[n].exposed \in BOOLEAN
        /\ e[n].mixed => e[n].exposed
        /\ e[n].exposed \/ Last(p) \in TempNames
    BY <1>5, <1>7
  <2>2. k.out \in {n, job[r].out}
    BY <1>6
  <2>3. k.op.kind \notin Reads
    BY <1>6
  <2>4. FilesSound(tree, data, job)
    BY DEF FilesInv
  <2>6. Put(tree, u, p, n) /\ Put(data, e, n, e[n])
    BY <1>7, <1>13 DEF Put
  <2> QED
    BY <1>4, <1>8, <1>9, <1>10, <2>1, <2>2, <2>3, <2>4, <2>5, <2>6, FileOpens
<1> QED
  BY <1>1, <1>12, StepKeeps

\* The temporary name of what is written.
LEMMA TempOfWrite ==
    ASSUME NEW op \in Operations, op.kind \in Uploads
    PROVE  /\ Temp(op.path) \in Paths /\ Last(Temp(op.path)) \in TempNames
           /\ Last(op.path) \notin TempNames
<1> DEFINE p == op.path
<1>1. Last(Temp(p)) \in TempNames
  BY DEF TempNames, Uploads
<1>2. p \in Seq(STRING)
  BY OperationsAssumption
<1>3. p \in Paths
  <2>1. STRING \subseteq FileNames
    BY DEF FileNames
  <2> QED
    BY <1>2, <2>1, SeqMonotonic DEF Paths
<1>4. Len(p) \in Nat /\ DOMAIN p = 1..Len(p)
  BY <1>3, LenProperties DEF Paths
<1>5. Temp(p) \in Paths
  <2> DEFINE name == p[Len(p)] \o ".tmp"
  <2>1. CASE Len(p) > 0
    <3>1. Temp(p) = [p EXCEPT ![Len(p)] = name]
      BY DEF Temp
    <3>2. Len(p) \in 1..Len(p)
      BY <2>1, <1>4
    <3> HIDE DEF name
    <3>3. Len(Temp(p)) = Len(p) /\ Temp(p)[Len(p)] = name
      BY <1>4, <3>1, <3>2, <1>2, LenProperties
    <3>4. name \in FileNames
      <4>1. Last(Temp(p)) = name
        BY <3>3 DEF Last
      <4> QED
        BY <4>1, <1>1 DEF FileNames
    <3> HIDE DEF p
    <3> QED
      BY <1>3, <3>1, <3>2, <3>4, ExceptSeq DEF Paths
  <2>2. CASE Len(p) = 0
    <3>1. p = <<>>
      BY <1>3, <2>2, EmptySeq DEF Paths
    <3>2. Temp(p) = p
      BY <1>4, <2>2, <3>1 DEF Temp
    <3> QED
      BY <1>3, <3>2
  <2> QED
    BY <1>4, <2>1, <2>2
<1> QED
  BY <1>1, <1>5, TempNamesAssumption DEF Uploads

\* What is opened under its temporary name is not shown.
LEMMA OpenTempKeeps ==
    ASSUME FilesInv, NEW r \in Requests, OpenTemp(r)
    PROVE  FilesInv'
<1> DEFINE next == [job[r] EXCEPT !.at = "write"]
<1>1. job[r].at = "open" /\ job[r].op.kind \in Uploads
  BY DEF OpenTemp, At, Uploads
<1>2. RequestSound(tree, data, job, r, job[r]) /\ DOMAIN job[r] = Fields /\ job[r].op \in Operations
  BY <1>1, Works
<1>3. OpenAt(r, Temp(job[r].op.path), ModeAtOpen(r), FALSE, next) \/ Error(r)
  BY DEF OpenTemp
<1>4. ASSUME OpenAt(r, Temp(job[r].op.path), ModeAtOpen(r), FALSE, next) PROVE FilesInv'
  <2>1. /\ DOMAIN next = Fields /\ next.op = job[r].op /\ next.in = job[r].in
        /\ next.todo = job[r].todo /\ next.file = job[r].file /\ next.at = "write"
    BY <1>2 DEF Fields
  <2>2. (\A task \in job[r].todo : task.to \in Paths) /\ job[r].file \in Paths
        /\ job[r].in \in DOMAIN data \cup {Dir}
    BY <1>2 DEF RequestSound, JobSound
  <2>3. Temp(job[r].op.path) \in Paths /\ Last(Temp(job[r].op.path)) \in TempNames
    BY <1>1, <1>2, TempOfWrite
  <2>4. job[r].op.kind \notin Reads
    BY <1>1 DEF Uploads, Reads
  <2> HIDE DEF next
  <2> QED
    BY <1>1, <1>4, <2>1, <2>2, <2>3, <2>4, OpenAtKeeps
<1> QED
  BY <1>1, <1>3, <1>4, ErrorKeeps

\* What somebody has written, and what follows.
LEMMA WrittenKeeps ==
    ASSUME FilesInv, NEW r \in Requests, job[r].at = "write", NEW content,
           content = Torn => job[r].op.kind \notin Uploads,
           NEW d \in WrittenTo(job[r].out, content),
           NEW k, DOMAIN k = Fields, k.op = job[r].op, k.out = Dir,
           k.in = Dir \/ (k.in = job[r].in /\ k.op.kind \notin Reads),
           \A task \in k.todo : task.to \in Paths, k.file \in Paths,
           k.at \in {"place", "mode", "answer"}, k.at = "mode" => k.op.kind = "copy",
           Step(tree, d, r, k)
    PROVE  FilesInv'
<1>1. RequestSound(tree, data, job, r, job[r]) /\ job[r].op \in Operations
  BY Works
<1>2. JobSound(data, k)
  BY <1>1 DEF RequestSound, JobSound
<1>3. PICK c : /\ d = [data EXCEPT ![job[r].out].content = c]
               /\ c = content \/ (data[job[r].out].mixed /\ c = Torn)
  BY DEF WrittenTo
<1>4. c = Torn => data[job[r].out].mixed \/ job[r].op.kind \notin Uploads
  BY <1>3
<1>5. FilesSound(tree, data, job)
  BY DEF FilesInv
<1>6. FilesSound(tree, [data EXCEPT ![job[r].out].content = c], [job EXCEPT ![r] = k])
  BY <1>2, <1>4, <1>5, FileCloses
<1> QED
  BY <1>3, <1>6, StepKeeps

\* What is written is whole, unless two had the file open.
LEMMA WriteTempKeeps ==
    ASSUME FilesInv, NEW r \in Requests, WriteTemp(r)
    PROVE  FilesInv'
<1> DEFINE k == [job[r] EXCEPT !.at = "place", !.out = Dir]
<1>1. job[r].at = "write" /\ job[r].op.kind \in Uploads
  BY DEF WriteTemp, At, Uploads
<1>2. RequestSound(tree, data, job, r, job[r]) /\ DOMAIN job[r] = Fields /\ job[r].op \in Operations
  BY <1>1, Works
<1>3. \/ \E d \in WrittenTo(job[r].out, Content(r, <<>>)) : Step(tree, d, r, k)
      \/ Error(r)
      \/ Step(Without(Temp(job[r].op.path)), data, r, Answer(r, "error"))
  BY DEF WriteTemp
<1>4. ASSUME NEW d \in WrittenTo(job[r].out, Content(r, <<>>)), Step(tree, d, r, k)
      PROVE  FilesInv'
  <2>1. /\ DOMAIN k = Fields /\ k.op = job[r].op /\ k.in = job[r].in /\ k.out = Dir
        /\ k.todo = job[r].todo /\ k.file = job[r].file /\ k.at = "place"
    BY <1>2 DEF Fields
  <2>2. (\A task \in job[r].todo : task.to \in Paths) /\ job[r].file \in Paths
    BY <1>2 DEF RequestSound, JobSound
  <2>3. Content(r, <<>>) # Torn
    BY WholeAssumption DEF Content, Torn
  <2>4. job[r].op.kind \notin Reads
    BY <1>1 DEF Uploads, Reads
  <2> HIDE DEF k
  <2> QED
    BY <1>1, <1>4, <2>1, <2>2, <2>3, <2>4, WrittenKeeps
<1>5. ASSUME Step(Without(Temp(job[r].op.path)), data, r, Answer(r, "error"))
      PROVE  FilesInv'
  <2>1. FilesSound(tree, data, [job EXCEPT ![r] = Answer(r, "error")])
    BY <1>1, AnswerSound
  <2>2. FilesSound(Without(Temp(job[r].op.path)), data, [job EXCEPT ![r] = Answer(r, "error")])
    BY <2>1, WithoutKeeps
  <2> QED
    BY <1>5, <2>2, StepKeeps
<1> QED
  BY <1>1, <1>3, <1>4, <1>5, ErrorKeeps

\* A file that is moved from its temporary name is ready, or exposed from then on.
LEMMA PlaceKeeps ==
    ASSUME FilesInv, NEW r \in Requests, Place(r)
    PROVE  FilesInv'
<1> DEFINE p == job[r].op.path
           k == [job[r] EXCEPT !.at = "attributes"]
           e == Exposed(r, Temp(p))
           i == [job EXCEPT ![r] = k]
<1>1. job[r].at = "place" /\ job[r].op.kind \in Uploads
  BY DEF Place, At, Uploads
<1>2. /\ RequestSound(tree, data, job, r, job[r]) /\ DOMAIN job[r] = Fields
      /\ job[r].op \in Operations /\ p \in Paths
  BY <1>1, Works
<1>3. Temp(p) \in Paths /\ Last(p) \notin TempNames
  BY <1>1, <1>2, TempOfWrite
<1>4. \/ Step(Moving(Temp(p), p), e, r, k)
      \/ Step(Without(Temp(p)), data, r, Answer(r, "error"))
      \/ Error(r)
  BY DEF Place
<1>5. ASSUME Step(Moving(Temp(p), p), e, r, k) PROVE FilesInv'
  <2>1. /\ DOMAIN k = Fields /\ k.op = job[r].op /\ k.in = job[r].in /\ k.out = job[r].out
        /\ k.edited = job[r].edited /\ k.todo = job[r].todo /\ k.file = job[r].file
        /\ k.at = "attributes"
    BY <1>2 DEF Fields
  <2>2. (\A task \in job[r].todo : task.to \in Paths) /\ job[r].file \in Paths /\ job[r].out = Dir
    BY <1>1, <1>2 DEF RequestSound, JobSound
  <2> HIDE DEF k
  <2>3. FilesSound(tree, data, i)
    BY <1>1, <2>1, <2>2, GoesOn
  <2>4. \A s \in Requests : i[s].out = job[s].out
    BY <2>1 DEF FilesInv, FilesSound
  <2>5. /\ DOMAIN e = DOMAIN data
        /\ \A m \in DOMAIN data :
               /\ DOMAIN e[m] = FileFields /\ e[m].content = data[m].content
               /\ e[m].mixed = data[m].mixed /\ e[m].opener = data[m].opener
               /\ e[m].exposed \in BOOLEAN /\ (data[m].exposed => e[m].exposed)
        /\ IsFile(Temp(p)) =>
               data[tree[Temp(p)]].opener = {r} \/ e[tree[Temp(p)]].exposed
    <3> DEFINE n == tree[Temp(p)]
    <3>1. \A m \in DOMAIN data : DOMAIN data[m] = FileFields /\ data[m].exposed \in BOOLEAN
      BY DEF FilesInv, FilesSound, DataSound
    <3>2. CASE IsFile(Temp(p)) /\ data[n].opener # {r}
      <4> DEFINE x == [data EXCEPT ![n].exposed = TRUE]
      <4>1. e = x
        BY <3>2 DEF Exposed
      <4>2. n \in DOMAIN data /\ DOMAIN data[n] = FileFields
        BY <3>1, <3>2 DEF IsFile, FilesInv, FilesSound, TreeSound
      <4>3. /\ DOMAIN x = DOMAIN data /\ \A m \in DOMAIN data \ {n} : x[m] = data[m]
            /\ DOMAIN x[n] = FileFields /\ x[n].content = data[n].content
            /\ x[n].mixed = data[n].mixed /\ x[n].exposed = TRUE /\ x[n].opener = data[n].opener
        BY <4>2 DEF FileFields
      <4> HIDE DEF x, e, n
      <4> QED
        BY <3>1, <4>1, <4>2, <4>3 DEF n
    <3>3. CASE ~(IsFile(Temp(p)) /\ data[n].opener # {r})
      <4>1. e = data
        BY <3>3 DEF Exposed
      <4> QED
        BY <3>1, <3>3, <4>1
    <3> QED
      BY <3>2, <3>3
  <2> HIDE DEF e, i
  <2>6. FilesSound(tree, e, i)
    BY <2>3, <2>5, FilesChange
  <2>7. ASSUME IsFile(Temp(p))
        PROVE  Ready(e, i, tree[Temp(p)])
    <3> DEFINE n == tree[Temp(p)]
    <3>1. n \in DOMAIN data /\ n # Dir
      BY <2>7 DEF IsFile, FilesInv, FilesSound, TreeSound
    <3>2. CASE data[n].opener # {r}
      BY <3>2, <2>5, <2>7 DEF Ready
    <3>3. CASE data[n].opener = {r}
      <4>1. data[n].content # Torn \/ data[n].exposed
        BY <3>1, <3>3, <1>1, <1>2 DEF RequestSound, OwnSound
      <4>2. ASSUME NEW s \in Requests, job[s].out = n
            PROVE  data[n].exposed
        <5>1. OpenedSound(data, s, job[s])
          BY DEF FilesInv, FilesSound, RequestSound
        <5>2. data[n].exposed \/ data[n].opener = {s}
          BY <5>1, <4>2, <3>1 DEF OpenedSound
        <5>3. s # r
          BY <4>2, <3>1, <2>2
        <5> QED
          BY <5>2, <5>3, <3>3
      <4> HIDE DEF n
      <4>3. Ready(e, i, n)
        BY <4>1, <4>2, <3>1, <2>4, <2>5 DEF Ready, Writing
      <4> QED
        BY <4>3 DEF n
    <3> QED
      BY <3>2, <3>3
  <2>8. FilesSound(Moving(Temp(p), p), e, i)
    BY <1>2, <1>3, <2>6, <2>7, MovingKeeps
  <2>9. FilesSound(Moving(Temp(p), p), e, [job EXCEPT ![r] = k])
    BY <2>8 DEF i
  <2> QED
    BY <1>5, <2>9, StepKeeps
<1>6. ASSUME Step(Without(Temp(p)), data, r, Answer(r, "error")) PROVE FilesInv'
  <2>1. FilesSound(tree, data, [job EXCEPT ![r] = Answer(r, "error")])
    BY <1>1, AnswerSound
  <2>2. FilesSound(Without(Temp(p)), data, [job EXCEPT ![r] = Answer(r, "error")])
    BY <2>1, WithoutKeeps
  <2> QED
    BY <1>6, <2>2, StepKeeps
<1> QED
  BY <1>1, <1>4, <1>5, <1>6, ErrorKeeps

\* Delete and RemoveAll only take paths away.
LEMMA DeleteKeeps ==
    ASSUME FilesInv, NEW r \in Requests, Delete(r)
    PROVE  FilesInv'
<1>1. job[r].at = "check"
  BY DEF Delete, At
<1>2. ASSUME NEW S \in SUBSET DOMAIN tree, NEW said, Step(Restrict(tree, S), data, r, Answer(r, said))
      PROVE  FilesInv'
  <2>1. FilesSound(tree, data, [job EXCEPT ![r] = Answer(r, said)])
    BY <1>1, AnswerSound
  <2>2. FilesSound(Restrict(tree, S), data, [job EXCEPT ![r] = Answer(r, said)])
    BY <2>1, RestrictKeeps
  <2> QED
    BY <1>2, <2>2, StepKeeps
<1>3. \/ Error(r) \/ Ok(r)
      \/ \E S \in SUBSET DOMAIN tree, said \in {"ok", "error"} :
            Step(Restrict(tree, S), data, r, Answer(r, said))
  <2> DEFINE p == job[r].op.path
  <2>1. ASSUME NEW kept \in SUBSET Under(p)
        PROVE  (DOMAIN tree \ Under(p)) \cup kept \in SUBSET DOMAIN tree
    BY DEF Under
  <2>2. DOMAIN tree \ Under(p) \in SUBSET DOMAIN tree
    OBVIOUS
  <2> QED
    BY <2>1, <2>2 DEF Delete
<1> QED
  BY <1>1, <1>2, <1>3, OkKeeps, ErrorKeeps

\* A rename moves nothing from or to a temporary name.
LEMMA RenameKeeps ==
    ASSUME FilesInv, NEW r \in Requests, Rename(r)
    PROVE  FilesInv'
<1> DEFINE op == job[r].op
<1>1. job[r].at = "rename" /\ op.kind = "rename"
  BY DEF Rename, At
<1>2. op \in Operations /\ op.path \in Paths /\ op.to \in Paths
  BY <1>1, Works
<1>3. Last(op.path) \notin TempNames /\ Last(op.to) \notin TempNames
  BY <1>1, <1>2, TempNamesAssumption
<1>4. ASSUME Step(Moving(op.path, op.to), data, r, Answer(r, "ok")) PROVE FilesInv'
  <2>1. FilesSound(tree, data, [job EXCEPT ![r] = Answer(r, "ok")])
    BY <1>1, AnswerSound
  <2>2. FilesSound(Moving(op.path, op.to), data, [job EXCEPT ![r] = Answer(r, "ok")])
    BY <1>2, <1>3, <2>1, MovingKeeps
  <2> QED
    BY <1>4, <2>2, StepKeeps
<1> QED
  BY <1>1, <1>4, ErrorKeeps DEF Rename

\* Each task of a copy is a path below the target.
LEMMA copyDirectoryKeeps ==
    ASSUME FilesInv, NEW r \in Requests, copyDirectory(r)
    PROVE  FilesInv'
<1>1. job[r].at = "copy"
  BY DEF copyDirectory
<1>2. /\ RequestSound(tree, data, job, r, job[r]) /\ DOMAIN job[r] = Fields
      /\ job[r].op.kind = "copy"
  BY <1>1, Works DEF RequestSound, JobSound
<1>3. PICK t \in job[r].todo :
          \/ /\ IsDir(t.from)
             /\ Step(MkdirAll(t.to), data, r,
                     [job[r] EXCEPT !.todo = (@ \ {t}) \cup
                          { [from |-> q, to |-> Append(t.to, Last(q)),
                             isDir |-> MkdirAll(t.to)[q] = Dir] :
                               q \in { q \in DOMAIN MkdirAll(t.to) :
                                         Len(q) = Len(t.from) + 1 /\ IsPrefix(t.from, q) } }])
          \/ \E made \in {tree, MkdirAll(t.to)} : Step(made, data, r, Answer(r, "error"))
  BY DEF copyDirectory
<1>4. t.to \in Paths
  BY <1>2, <1>3 DEF RequestSound, JobSound
<1>5. ASSUME NEW made \in {tree, MkdirAll(t.to)}, Step(made, data, r, Answer(r, "error"))
      PROVE  FilesInv'
  <2>1. FilesSound(tree, data, [job EXCEPT ![r] = Answer(r, "error")])
    BY <1>1, AnswerSound
  <2>2. FilesSound(made, data, [job EXCEPT ![r] = Answer(r, "error")])
    BY <1>4, <2>1, MkdirAllKeeps
  <2> QED
    BY <1>5, <2>2, StepKeeps
<1>6. CASE IsDir(t.from)
  <2> DEFINE listed == { q \in DOMAIN MkdirAll(t.to) :
                             Len(q) = Len(t.from) + 1 /\ IsPrefix(t.from, q) }
             new == { [from |-> q, to |-> Append(t.to, Last(q)),
                       isDir |-> MkdirAll(t.to)[q] = Dir] : q \in listed }
             k == [job[r] EXCEPT !.todo = (@ \ {t}) \cup new]
  <2> SUFFICES ASSUME Step(MkdirAll(t.to), data, r, k) PROVE FilesInv'
    BY <1>3, <1>5
  <2>1. DOMAIN MkdirAll(t.to) \subseteq Paths /\ t.from \in Paths
    <3>1. FilesSound(tree, data, job)
      BY DEF FilesInv
    <3> QED
      BY <1>4, <1>6, <3>1, MkdirAllKeeps DEF IsDir, FilesSound, TreeSound
  <2>2. ASSUME NEW q \in listed
        PROVE  Append(t.to, Last(q)) \in Paths
    <3>1. q \in Paths /\ Len(q) = Len(t.from) + 1
      BY <2>1
    <3>2. Len(t.from) \in Nat
      BY <2>1, LenProperties DEF Paths
    <3>3. Last(q) \in FileNames
      BY <3>1, <3>2, ElementOfSeq DEF Paths, Last
    <3> QED
      BY <1>4, <3>3, AppendProperties DEF Paths
  <2>3. \A task \in new : task.to \in Paths
    <3> HIDE DEF listed
    <3> SUFFICES ASSUME NEW q \in listed
                 PROVE  [from |-> q, to |-> Append(t.to, Last(q)),
                         isDir |-> MkdirAll(t.to)[q] = Dir].to \in Paths
      OBVIOUS
    <3>1. Append(t.to, Last(q)) \in Paths
      BY <2>2
    <3> QED
      BY <3>1
  <2>4. /\ DOMAIN k = Fields /\ k.op = job[r].op /\ k.in = job[r].in /\ k.out = job[r].out
        /\ k.edited = job[r].edited /\ k.todo = (job[r].todo \ {t}) \cup new
        /\ k.file = job[r].file /\ k.at = "copy"
    BY <1>1, <1>2 DEF Fields
  <2>5. (\A task \in job[r].todo : task.to \in Paths) /\ job[r].file \in Paths
    BY <1>2 DEF RequestSound, JobSound
  <2> HIDE DEF k, new, listed
  <2>6. \A task \in k.todo : task.to \in Paths
    BY <2>3, <2>4, <2>5
  <2>7. FilesSound(tree, data, [job EXCEPT ![r] = k])
    BY <1>1, <1>2, <2>4, <2>5, <2>6, GoesOn
  <2>8. FilesSound(MkdirAll(t.to), data, [job EXCEPT ![r] = k])
    BY <1>4, <2>7, MkdirAllKeeps
  <2> QED
    BY <2>8, StepKeeps
<1> QED
  BY <1>3, <1>5, <1>6

\* The target is opened in place, so that it is exposed.
LEMMA copyFileKeeps ==
    ASSUME FilesInv, NEW r \in Requests, copyFile(r)
    PROVE  FilesInv'
<1>1. job[r].at = "copy"
  BY DEF copyFile
<1>2. /\ RequestSound(tree, data, job, r, job[r]) /\ DOMAIN job[r] = Fields
      /\ job[r].op.kind = "copy"
  BY <1>1, Works DEF RequestSound, JobSound
<1>3. PICK t \in job[r].todo :
          \/ /\ t.from \in DOMAIN tree
             /\ OpenAt(r, t.to, {}, TRUE,
                       [job[r] EXCEPT !.at = "write", !.in = tree[t.from], !.todo = @ \ {t},
                                      !.source = t.from, !.file = t.to])
          \/ Error(r)
  BY DEF copyFile
<1> DEFINE next == [job[r] EXCEPT !.at = "write", !.in = tree[t.from], !.todo = @ \ {t},
                                  !.source = t.from, !.file = t.to]
<1>4. ASSUME t.from \in DOMAIN tree, OpenAt(r, t.to, {}, TRUE, next) PROVE FilesInv'
  <2>1. /\ DOMAIN next = Fields /\ next.op = job[r].op /\ next.in = tree[t.from]
        /\ next.todo = job[r].todo \ {t} /\ next.file = t.to /\ next.at = "write"
    BY <1>2 DEF Fields
  <2>2. (\A task \in job[r].todo : task.to \in Paths) /\ t.to \in Paths
    BY <1>2, <1>3 DEF RequestSound, JobSound
  <2>3. tree[t.from] \in DOMAIN data \cup {Dir}
    BY <1>4 DEF FilesInv, FilesSound, TreeSound
  <2>4. job[r].op.kind \notin Reads \cup Uploads
    BY <1>2 DEF Uploads, Reads
  <2> HIDE DEF next
  <2> QED
    BY <1>1, <1>4, <2>1, <2>2, <2>3, <2>4, OpenAtKeeps
<1> QED
  BY <1>1, <1>3, <1>4, ErrorKeeps

\* What is copied may be torn, but to a file that is exposed.
LEMMA CopiedKeeps ==
    ASSUME FilesInv, NEW r \in Requests, Copied(r)
    PROVE  FilesInv'
<1>1. job[r].at = "write" /\ job[r].op.kind = "copy"
  BY DEF Copied, At
<1>2. RequestSound(tree, data, job, r, job[r]) /\ DOMAIN job[r] = Fields
  BY <1>1, Works
<1>3. ASSUME NEW content, NEW d \in WrittenTo(job[r].out, content), Step(tree, d, r, More(r))
      PROVE  FilesInv'
  <2> DEFINE k == More(r)
  <2>1. /\ DOMAIN k = Fields /\ k.op = job[r].op /\ k.in = Dir /\ k.out = Dir
        /\ k.todo = job[r].todo /\ k.file = job[r].file /\ k.at = "mode"
    BY <1>2 DEF Fields, More
  <2>2. (\A task \in job[r].todo : task.to \in Paths) /\ job[r].file \in Paths
    BY <1>2 DEF RequestSound, JobSound
  <2>3. job[r].op.kind \notin Uploads
    BY <1>1 DEF Uploads
  <2> HIDE DEF k
  <2>4. Step(tree, d, r, k)
    BY <1>3 DEF k
  <2> QED
    BY <1>1, <2>1, <2>2, <2>3, <2>4, WrittenKeeps
<1> QED
  BY <1>1, <1>3, ErrorKeeps DEF Copied

\* The mode of a copy.
LEMMA CopyModeKeeps ==
    ASSUME FilesInv, NEW r \in Requests, CopyMode(r)
    PROVE  FilesInv'
<1> DEFINE p == job[r].source
           q == job[r].file
           n == tree[q]
           k == [job[r] EXCEPT !.at = "copy", !.source = <<>>, !.file = <<>>]
           e == IF IsFile(q)
                THEN [data EXCEPT ![n].set = (@ \ {"mode"}) \cup (SetOf(p) \cap {"mode"})]
                ELSE data
<1>1. job[r].at = "mode"
  BY DEF CopyMode
<1>2. /\ RequestSound(tree, data, job, r, job[r]) /\ DOMAIN job[r] = Fields
      /\ job[r].op.kind = "copy"
  BY <1>1, Works DEF RequestSound, JobSound
<1>3. Step(tree, e, r, k) \/ Error(r)
  BY DEF CopyMode
<1>4. ASSUME Step(tree, e, r, k) PROVE FilesInv'
  <2>1. /\ DOMAIN k = Fields /\ k.op = job[r].op /\ k.in = job[r].in /\ k.out = job[r].out
        /\ k.edited = job[r].edited /\ k.todo = job[r].todo /\ k.file = <<>> /\ k.at = "copy"
    BY <1>2 DEF Fields
  <2>2. (\A task \in job[r].todo : task.to \in Paths) /\ <<>> \in Paths
    BY <1>2, EmptySeq DEF RequestSound, JobSound, Paths
  <2>3. \A m \in DOMAIN data : DOMAIN data[m] = FileFields /\ data[m].exposed \in BOOLEAN
    BY DEF FilesInv, FilesSound, DataSound
  <2>4. /\ DOMAIN e = DOMAIN data
        /\ \A m \in DOMAIN data :
               /\ DOMAIN e[m] = FileFields /\ e[m].content = data[m].content
               /\ e[m].mixed = data[m].mixed /\ e[m].opener = data[m].opener
               /\ e[m].exposed \in BOOLEAN /\ (data[m].exposed => e[m].exposed)
    <3>1. CASE IsFile(q)
      <4> DEFINE set == (data[n].set \ {"mode"}) \cup (SetOf(p) \cap {"mode"})
                 x == [data EXCEPT ![n].set = set]
      <4>1. e = x
        BY <3>1
      <4>2. n \in DOMAIN data /\ DOMAIN data[n] = FileFields
        BY <2>3, <3>1 DEF IsFile, FilesInv, FilesSound, TreeSound
      <4> HIDE DEF set
      <4>3. /\ DOMAIN x = DOMAIN data /\ \A m \in DOMAIN data \ {n} : x[m] = data[m]
            /\ DOMAIN x[n] = FileFields /\ x[n].content = data[n].content
            /\ x[n].mixed = data[n].mixed /\ x[n].exposed = data[n].exposed
            /\ x[n].opener = data[n].opener
        BY <4>2 DEF FileFields
      <4> HIDE DEF x, e, n
      <4> QED
        BY <2>3, <4>1, <4>2, <4>3
    <3>2. CASE ~IsFile(q)
      <4>1. e = data
        BY <3>2
      <4> QED
        BY <2>3, <4>1
    <3> QED
      BY <3>1, <3>2
  <2> HIDE DEF k, e
  <2>5. FilesSound(tree, data, [job EXCEPT ![r] = k])
    BY <1>1, <1>2, <2>1, <2>2, GoesOn DEF Reads
  <2>6. FilesSound(tree, e, [job EXCEPT ![r] = k])
    BY <2>4, <2>5, FilesChange
  <2> QED
    BY <1>4, <2>6, StepKeeps
<1> QED
  BY <1>1, <1>3, <1>4, ErrorKeeps

\* A copy or a walk that has nothing left to do.
LEMMA CopyEndsKeeps == ASSUME FilesInv, NEW r \in Requests, CopyEnds(r) PROVE FilesInv'
<1>1. job[r].at = "copy"
  BY DEF CopyEnds
<1> QED
  BY <1>1, OkKeeps DEF CopyEnds

LEMMA WalkEndsKeeps == ASSUME FilesInv, NEW r \in Requests, WalkEnds(r) PROVE FilesInv'
<1>1. job[r].at = "walk"
  BY DEF WalkEnds
<1> QED
  BY <1>1, OkKeeps DEF WalkEnds

\* chmod and chown walk over paths of the tree.
LEMMA CheckAttributesKeeps ==
    ASSUME FilesInv, NEW r \in Requests, CheckAttributes(r)
    PROVE  FilesInv'
<1> DEFINE p == job[r].op.path
           k == [job[r] EXCEPT !.at = "walk", !.todo = Task(p, p)]
<1>1. job[r].at = "check"
  BY DEF CheckAttributes, At
<1>2. RequestSound(tree, data, job, r, job[r]) /\ DOMAIN job[r] = Fields /\ p \in Paths
  BY <1>1, Works
<1>3. Step(tree, data, r, k) \/ Error(r)
  BY DEF CheckAttributes
<1>4. ASSUME Step(tree, data, r, k) PROVE FilesInv'
  <2>1. /\ DOMAIN k = Fields /\ k.op = job[r].op /\ k.in = job[r].in /\ k.out = job[r].out
        /\ k.edited = job[r].edited /\ k.todo = Task(p, p) /\ k.file = job[r].file /\ k.at = "walk"
    BY <1>2 DEF Fields
  <2>2. \A task \in Task(p, p) : task.to \in Paths
    BY <1>2 DEF Task
  <2>3. job[r].file \in Paths
    BY <1>2 DEF RequestSound, JobSound
  <2> HIDE DEF k
  <2>4. FilesSound(tree, data, [job EXCEPT ![r] = k])
    BY <1>1, <2>1, <2>2, <2>3, GoesOn
  <2> QED
    BY <1>4, <2>4, StepKeeps
<1> QED
  BY <1>1, <1>3, <1>4, ErrorKeeps

LEMMA ChangeNextKeeps == ASSUME FilesInv, NEW r \in Requests, ChangeNext(r) PROVE FilesInv'
<1> DEFINE attribute == IF job[r].op.kind = "chmod" THEN "mode" ELSE "owner"
           below(t) == UNION { Task(q, q) : q \in Children(t.from) }
           k(t) == [job[r] EXCEPT !.todo = (@ \ {t}) \cup below(t)]
<1>1. job[r].at = "walk"
  BY DEF ChangeNext
<1>2. RequestSound(tree, data, job, r, job[r]) /\ DOMAIN job[r] = Fields
  BY <1>1, Works
<1>3. PICK t \in job[r].todo : Step(tree, Changed(t.from, {attribute}), r, k(t)) \/ Error(r)
  BY DEF ChangeNext
<1>4. ASSUME Step(tree, Changed(t.from, {attribute}), r, k(t)) PROVE FilesInv'
  <2>1. /\ DOMAIN k(t) = Fields /\ k(t).op = job[r].op /\ k(t).in = job[r].in
        /\ k(t).out = job[r].out /\ k(t).edited = job[r].edited
        /\ k(t).todo = (job[r].todo \ {t}) \cup below(t)
        /\ k(t).file = job[r].file /\ k(t).at = "walk"
    BY <1>1, <1>2 DEF Fields
  <2>2. (\A task \in job[r].todo : task.to \in Paths) /\ job[r].file \in Paths
    BY <1>2 DEF RequestSound, JobSound
  <2>3. \A task \in below(t) : task.to \in Paths
    <3>1. \A q \in Children(t.from) : q \in Paths
      BY DEF Children, FilesInv, FilesSound, TreeSound
    <3> QED
      BY <3>1 DEF Task
  <2> HIDE DEF k, below
  <2>4. \A task \in k(t).todo : task.to \in Paths
    BY <2>1, <2>2, <2>3
  <2>5. FilesSound(tree, data, [job EXCEPT ![r] = k(t)])
    BY <1>1, <2>1, <2>2, <2>4, GoesOn
  <2>6. FilesSound(tree, Changed(t.from, {attribute}), [job EXCEPT ![r] = k(t)])
    BY <2>5, ChangedKeeps
  <2> QED
    BY <1>4, <2>6, StepKeeps
<1> QED
  BY <1>1, <1>3, <1>4, ErrorKeeps

\* A read looks at the path before it opens it.
LEMMA CheckFileKeeps == ASSUME FilesInv, NEW r \in Requests, CheckFile(r) PROVE FilesInv'
<1> DEFINE k == [job[r] EXCEPT !.at = "open"]
<1>1. job[r].at = "check" /\ job[r].op.kind \in Reads
  BY DEF CheckFile, At
<1>2. RequestSound(tree, data, job, r, job[r]) /\ DOMAIN job[r] = Fields
  BY <1>1, Works
<1>3. Step(tree, data, r, k) \/ Error(r)
  BY DEF CheckFile, Goto
<1>4. ASSUME Step(tree, data, r, k) PROVE FilesInv'
  <2>1. /\ DOMAIN k = Fields /\ k.op = job[r].op /\ k.in = job[r].in /\ k.out = job[r].out
        /\ k.edited = job[r].edited /\ k.todo = job[r].todo /\ k.file = job[r].file /\ k.at = "open"
    BY <1>2 DEF Fields
  <2>2. (\A task \in job[r].todo : task.to \in Paths) /\ job[r].file \in Paths
    BY <1>2 DEF RequestSound, JobSound
  <2> HIDE DEF k
  <2>3. FilesSound(tree, data, [job EXCEPT ![r] = k])
    BY <1>1, <2>1, <2>2, GoesOn
  <2> QED
    BY <1>4, <2>3, StepKeeps
<1> QED
  BY <1>1, <1>3, <1>4, ErrorKeeps

\* The file that is opened is ready: it is under a name that is not a temporary one.
LEMMA OpenToReadKeeps == ASSUME FilesInv, NEW r \in Requests, OpenToRead(r) PROVE FilesInv'
<1> DEFINE p == job[r].op.path
           k == [job[r] EXCEPT !.at = IF job[r].op.kind = "read" THEN "read" ELSE "answer",
                               !.result = "ok", !.in = tree[p], !.edited = Look(p)]
<1>1. job[r].at = "open" /\ job[r].op.kind \in Reads
  BY DEF OpenToRead, At
<1>2. /\ RequestSound(tree, data, job, r, job[r]) /\ DOMAIN job[r] = Fields
      /\ job[r].op \in Operations
  BY <1>1, Works
<1>3. (IsFile(p) /\ Step(tree, data, r, k)) \/ Error(r)
  BY DEF OpenToRead
<1>4. ASSUME IsFile(p), Step(tree, data, r, k) PROVE FilesInv'
  <2>1. p \in DOMAIN tree /\ tree[p] # Dir /\ tree[p] \in DOMAIN data
    BY <1>4 DEF IsFile, FilesInv, FilesSound, TreeSound
  <2>2. Last(p) \notin TempNames
    BY <1>1, <1>2, TempNamesAssumption
  <2>3. Ready(data, job, tree[p])
    BY <2>1, <2>2 DEF FilesInv, FilesSound, ShownReady, Shown
  <2>4. \A q \in DOMAIN tree : tree[q] = tree[p] => q = p
    BY <2>1 DEF FilesInv, FilesSound, TreeSound
  <2>5. /\ DOMAIN k = Fields /\ k.op = job[r].op /\ k.in = tree[p] /\ k.out = job[r].out
        /\ k.edited = data[tree[p]].content /\ k.todo = job[r].todo /\ k.file = job[r].file
        /\ k.at \in {"read", "answer"}
    BY <1>2, <2>1 DEF Fields, Look
  <2> HIDE DEF k, p
  <2>6. JobSound(data, k)
    BY <1>2, <2>1, <2>5 DEF RequestSound, JobSound
  <2>7. ReadSound(tree, data, job, k)
    BY <2>2, <2>3, <2>4, <2>5 DEF ReadSound
  <2>8. OpenedSound(data, r, k) /\ OwnSound(data, r, k)
    BY <1>1, <1>2, <2>5 DEF RequestSound, OpenedSound, OwnSound, Reads, Uploads
  <2>9. FilesSound(tree, data, [job EXCEPT ![r] = k])
    BY <2>5, <2>6, <2>7, <2>8, JobChanges DEF RequestSound, FilesInv
  <2> QED
    BY <1>4, <2>9, StepKeeps
<1> QED
  BY <1>1, <1>3, <1>4, ErrorKeeps

\* What is read is what the file is now, or it changed while it was read: then it is exposed.
LEMMA ReadContentKeeps == ASSUME FilesInv, NEW r \in Requests, ReadContent(r) PROVE FilesInv'
<1> DEFINE now == data[job[r].in].content
           k(content) == [job[r] EXCEPT !.at = IF @ = "read" THEN "answer" ELSE "sent",
                                        !.edited = content]
<1>1. job[r].at \in {"read", "stream"}
  BY DEF ReadContent
<1>2. RequestSound(tree, data, job, r, job[r]) /\ DOMAIN job[r] = Fields
  BY <1>1, Works
<1>3. PICK content : /\ content = now \/ (content = Torn /\ now # job[r].edited)
                     /\ Step(tree, data, r, k(content))
  BY DEF ReadContent
<1>4. /\ DOMAIN k(content) = Fields /\ k(content).op = job[r].op /\ k(content).in = job[r].in
      /\ k(content).out = job[r].out /\ k(content).edited = content
      /\ k(content).todo = job[r].todo /\ k(content).file = job[r].file
      /\ k(content).at \in {"answer", "sent"}
  BY <1>2 DEF Fields
<1> HIDE DEF k
<1>5. JobSound(data, k(content))
  BY <1>1, <1>2, <1>4 DEF RequestSound, JobSound
<1>6. ReadSound(tree, data, job, k(content))
  BY <1>2, <1>3, <1>4 DEF RequestSound, ReadSound
<1>7. OpenedSound(data, r, k(content)) /\ OwnSound(data, r, k(content))
  BY <1>1, <1>2, <1>4 DEF RequestSound, OpenedSound, OwnSound
<1>8. FilesSound(tree, data, [job EXCEPT ![r] = k(content)])
  BY <1>4, <1>5, <1>6, <1>7, JobChanges DEF RequestSound, FilesInv
<1> QED
  BY <1>3, <1>8, StepKeeps

\* A request that has ended has nothing open.
LEMMA EndedSound ==
    ASSUME NEW t, NEW d, NEW j, NEW r
    PROVE  RequestSound(t, d, j, r, Ended) /\ Ended.out = Dir
<1>1. /\ DOMAIN Ended = Fields /\ Ended.at = "done" /\ Ended.in = Dir /\ Ended.out = Dir
      /\ Ended.todo = {} /\ Ended.file = <<>>
  BY DEF Ended, Idle, Fields
<1>2. <<>> \in Paths
  BY EmptySeq DEF Paths
<1> QED
  BY <1>1, <1>2 DEF RequestSound, JobSound, ReadSound, OpenedSound, OwnSound

\* What fails, or has been sent, has nothing open.
LEMMA ReadFailsKeeps == ASSUME FilesInv, NEW r \in Requests, ReadFails(r) PROVE FilesInv'
<1>1. CASE job[r].at = "read" /\ Error(r)
  BY <1>1, ErrorKeeps
<1>2. CASE Step(tree, data, r, Ended)
  <2>1. FilesSound(tree, data, [job EXCEPT ![r] = Ended])
    BY EndedSound, JobChanges DEF FilesInv
  <2> QED
    BY <1>2, <2>1, StepKeeps
<1> QED
  BY <1>1, <1>2 DEF ReadFails

--------------------------------------------------------------------------------
\* An edit finds its compose file in the tree.
LEMMA EditReadKeeps == ASSUME FilesInv, NEW r \in Requests, EditRead(r) PROVE FilesInv'
<1> DEFINE c == ComposeFile
           k(edited) == [job[r] EXCEPT !.at = "validate", !.file = c, !.edited = edited]
<1>1. job[r].at = "check" /\ job[r].op.kind = "edit"
  BY DEF EditRead, At
<1>2. RequestSound(tree, data, job, r, job[r]) /\ DOMAIN job[r] = Fields
  BY <1>1, Works
<1>3. \/ IsFile(c) /\ \E edited : Step(tree, data, r, k(edited))
      \/ Error(r)
  BY DEF EditRead
<1>4. ASSUME IsFile(c), NEW edited, Step(tree, data, r, k(edited)) PROVE FilesInv'
  <2>1. /\ DOMAIN k(edited) = Fields /\ k(edited).op = job[r].op /\ k(edited).in = job[r].in
        /\ k(edited).out = job[r].out /\ k(edited).todo = job[r].todo
        /\ k(edited).file = c /\ k(edited).at = "validate"
    BY <1>2 DEF Fields
  <2>2. c \in Paths
    BY <1>4 DEF IsFile, FilesInv, FilesSound, TreeSound
  <2>3. \A task \in job[r].todo : task.to \in Paths
    BY <1>2 DEF RequestSound, JobSound
  <2> HIDE DEF k, c
  <2>4. FilesSound(tree, data, [job EXCEPT ![r] = k(edited)])
    BY <1>1, <2>1, <2>2, <2>3, GoesOn DEF Reads
  <2> QED
    BY <1>4, <2>4, StepKeeps
<1> QED
  BY <1>1, <1>3, <1>4, ErrorKeeps

\* The document that is to be validated is in a file of its own.
LEMMA ValidateBeginsKeeps == ASSUME FilesInv, NEW r \in Requests, ValidateBegins(r) PROVE FilesInv'
<1> DEFINE p == ValidatePath(r)
           n == Fresh
           f == File(job[r].edited, {}, FALSE, TRUE, {})
           k == [job[r] EXCEPT !.at = "load"]
           u == [q \in DOMAIN tree \cup {p} |-> IF q = p THEN n ELSE tree[q]]
           e == [m \in DOMAIN data \cup {n} |-> IF m = n THEN f ELSE data[m]]
<1>1. job[r].at = "validate" /\ job[r].op.kind = "edit"
  BY DEF ValidateBegins, At
<1>2. /\ RequestSound(tree, data, job, r, job[r]) /\ DOMAIN job[r] = Fields
      /\ job[r].op \in Operations
  BY <1>1, Works
<1>3. Step(u, e, r, k) \/ Error(r)
  BY DEF ValidateBegins
<1>4. ASSUME Step(u, e, r, k) PROVE FilesInv'
  <2>1. p \in Paths
    BY DEF ValidatePath, Paths, FileNames
  <2>2. n \in Nat \ {Dir} /\ n \notin DOMAIN data
    BY FreshIsNew DEF FilesInv, FilesSound, DataSound, Dir
  <2>3. /\ DOMAIN f = FileFields /\ f.mixed = FALSE /\ f.exposed = TRUE /\ f.opener = {}
    BY DEF File, FileFields
  <2>4. /\ DOMAIN k = Fields /\ k.op = job[r].op /\ k.in = job[r].in /\ k.out = job[r].out
        /\ k.todo = job[r].todo /\ k.file = job[r].file /\ k.at = "load"
    BY <1>2 DEF Fields
  <2>5. DOMAIN e = DOMAIN data \cup {n} /\ e[n] = f /\ \A m \in DOMAIN data \ {n} : e[m] = data[m]
    OBVIOUS
  <2>6. Put(tree, u, p, n)
    BY DEF Put
  <2> HIDE DEF p, n, f, k, u, e
  <2>7. Put(data, e, n, e[n])
    BY <2>5 DEF Put
  <2>8. JobSound(e, k)
    BY <1>1, <1>2, <2>4, <2>5 DEF RequestSound, JobSound
  <2>9. OpenedSound(e, r, k)
    <3>1. k.out # Dir => k.out \in DOMAIN data /\ k.out # n
      BY <1>2, <2>2, <2>4 DEF RequestSound, JobSound
    <3> QED
      BY <1>2, <2>4, <2>5, <3>1 DEF RequestSound, OpenedSound
  <2>10. OwnSound(e, r, k)
    BY <1>1, <1>2, <2>3, <2>4, <2>5 DEF RequestSound, OwnSound, Uploads
  <2>11. /\ DOMAIN e[n] = FileFields /\ e[n].mixed \in BOOLEAN /\ e[n].exposed \in BOOLEAN
         /\ e[n].mixed => e[n].exposed
    BY <2>3, <2>5
  <2>12. /\ e[n].exposed \/ Last(p) \in TempNames
         /\ e[n].opener \in {{}, {r}}
         /\ \A s \in Requests : s # r /\ job[s].out = n => e[n].exposed
    BY <2>3, <2>5
  <2>13. k.out \in {n, job[r].out} /\ k.op.kind \notin Reads
    BY <1>1, <2>4 DEF Reads
  <2>14. FilesSound(u, e, [job EXCEPT ![r] = k])
    BY <2>1, <2>2, <2>6, <2>7, <2>8, <2>9, <2>10, <2>11, <2>12, <2>13, FileOpens DEF FilesInv
  <2> QED
    BY <1>4, <2>14, StepKeeps
<1> QED
  BY <1>1, <1>3, <1>4, ErrorKeeps

\* The file of the validation is removed whatever its outcome.
LEMMA LoadKeeps == ASSUME FilesInv, NEW r \in Requests, Load(r) PROVE FilesInv'
<1> DEFINE p == ValidatePath(r)
           k == [job[r] EXCEPT !.at = "open"]
<1>1. job[r].at = "load" /\ job[r].op.kind = "edit"
  BY DEF Load, At
<1>2. RequestSound(tree, data, job, r, job[r]) /\ DOMAIN job[r] = Fields
  BY <1>1, Works
<1>3. \E i \in {k, Answer(r, "error")} : Step(Without(p), data, r, i)
  BY DEF Load
<1>4. /\ DOMAIN k = Fields /\ k.op = job[r].op /\ k.in = job[r].in /\ k.out = job[r].out
      /\ k.todo = job[r].todo /\ k.file = job[r].file /\ k.at = "open"
  BY <1>2 DEF Fields
<1>5. (\A task \in job[r].todo : task.to \in Paths) /\ job[r].file \in Paths
  BY <1>2 DEF RequestSound, JobSound
<1> HIDE DEF k
<1>6. FilesSound(tree, data, [job EXCEPT ![r] = k])
  BY <1>1, <1>4, <1>5, GoesOn DEF Reads, Uploads
<1>7. FilesSound(tree, data, [job EXCEPT ![r] = Answer(r, "error")])
  BY <1>1, AnswerSound
<1>8. ASSUME NEW i \in {k, Answer(r, "error")}, Step(Without(p), data, r, i)
      PROVE  FilesInv'
  <2>1. FilesSound(tree, data, [job EXCEPT ![r] = i])
    BY <1>6, <1>7
  <2>2. FilesSound(Without(p), data, [job EXCEPT ![r] = i])
    BY <2>1, WithoutKeeps
  <2> QED
    BY <1>8, <2>2, StepKeeps
<1> QED
  BY <1>3, <1>8

\* The compose file is opened in place, so that it is exposed.
LEMMA EditOpenKeeps == ASSUME FilesInv, NEW r \in Requests, EditOpen(r) PROVE FilesInv'
<1> DEFINE next == [job[r] EXCEPT !.at = "write"]
<1>1. job[r].at = "open" /\ job[r].op.kind = "edit"
  BY DEF EditOpen, At
<1>2. RequestSound(tree, data, job, r, job[r]) /\ DOMAIN job[r] = Fields
  BY <1>1, Works
<1>3. OpenAt(r, job[r].file, {}, TRUE, next) \/ Error(r)
  BY DEF EditOpen
<1>4. ASSUME OpenAt(r, job[r].file, {}, TRUE, next) PROVE FilesInv'
  <2>1. /\ DOMAIN next = Fields /\ next.op = job[r].op /\ next.in = job[r].in
        /\ next.todo = job[r].todo /\ next.file = job[r].file /\ next.at = "write"
    BY <1>2 DEF Fields
  <2>2. /\ \A task \in job[r].todo : task.to \in Paths
        /\ job[r].file \in Paths /\ job[r].in \in DOMAIN data \cup {Dir}
    BY <1>2 DEF RequestSound, JobSound
  <2>3. job[r].op.kind \notin Reads \cup Uploads
    BY <1>1 DEF Uploads, Reads
  <2> HIDE DEF next
  <2> QED
    BY <1>1, <1>4, <2>1, <2>2, <2>3, OpenAtKeeps
<1> QED
  BY <1>1, <1>3, <1>4, ErrorKeeps

\* The document is written to the file that was opened.
LEMMA EditWriteKeeps == ASSUME FilesInv, NEW r \in Requests, EditWrite(r) PROVE FilesInv'
<1>1. job[r].at = "write" /\ job[r].op.kind = "edit"
  BY DEF EditWrite, At
<1>2. RequestSound(tree, data, job, r, job[r]) /\ DOMAIN job[r] = Fields
  BY <1>1, Works
<1>3. ASSUME NEW d \in WrittenTo(job[r].out, job[r].edited), Step(tree, d, r, Answer(r, "ok"))
      PROVE  FilesInv'
  <2> DEFINE k == Answer(r, "ok")
  <2>1. /\ DOMAIN k = Fields /\ k.op = job[r].op /\ k.in = Dir /\ k.out = Dir
        /\ k.todo = {} /\ k.file = job[r].file /\ k.at = "answer"
    BY <1>2 DEF Fields, Answer
  <2>2. job[r].file \in Paths /\ job[r].op.kind \notin Uploads
    BY <1>1, <1>2 DEF RequestSound, JobSound, Uploads
  <2> HIDE DEF k
  <2>3. Step(tree, d, r, k)
    BY <1>3 DEF k
  <2> QED
    BY <1>1, <2>1, <2>2, <2>3, WrittenKeeps
<1> QED
  BY <1>1, <1>3, ErrorKeeps DEF EditWrite

\* An answer closes what is open, but for a download that is sent now.
LEMMA RespondKeeps == ASSUME FilesInv, NEW r \in Requests, Respond(r) PROVE FilesInv'
<1> DEFINE k == [job[r] EXCEPT !.at = "stream"]
<1>1. job[r].at = "answer"
  BY DEF Respond
<1>2. RequestSound(tree, data, job, r, job[r]) /\ DOMAIN job[r] = Fields
  BY <1>1, Works
<1>3. \E i \in {k, Ended} : Become(tree, data, [job EXCEPT ![r] = i])
  BY DEF Respond
<1>4. /\ DOMAIN k = Fields /\ k.op = job[r].op /\ k.in = job[r].in /\ k.out = job[r].out
      /\ k.edited = job[r].edited /\ k.todo = job[r].todo /\ k.file = job[r].file /\ k.at = "stream"
  BY <1>2 DEF Fields
<1>5. (\A task \in job[r].todo : task.to \in Paths) /\ job[r].file \in Paths
  BY <1>2 DEF RequestSound, JobSound
<1> HIDE DEF k
<1>6. FilesSound(tree, data, [job EXCEPT ![r] = k])
  BY <1>1, <1>4, <1>5, GoesOn
<1>7. FilesSound(tree, data, [job EXCEPT ![r] = Ended])
  BY EndedSound, JobChanges DEF FilesInv
<1> QED
  BY <1>3, <1>6, <1>7, Becomes

\* A request that begins has nothing open, and of the others only says whom it hinders.
LEMMA BeginKeeps ==
    ASSUME FilesInv, NEW r \in Requests, NEW op \in Operations, Begin(r, op)
    PROVE  FilesInv'
<1> DEFINE k == [Idle EXCEPT !.op = op, !.at = "check",
                             !.before = [p \in DOMAIN tree |-> See(p)],
                             !.hindered = \E q \in Active :
                                  \/ Hinders(job[q].op, op)
                                  \/ job[q].hindered /\ job[q].op.kind \notin Reads]
           hindered(s) == job[s].hindered \/ s \in { q \in Active : Hinders(op, job[q].op) }
           other(s) == [job[s] EXCEPT !.hindered = hindered(s)]
<1>1. /\ job[r].at = "idle" /\ tree' = tree /\ data' = data /\ DOMAIN job' = Requests
      /\ job'[r] = k /\ \A s \in Requests \ {r} : job'[s] = other(s)
  BY DEF Begin, fileVars
<1>2. \A s \in Requests : RequestSound(tree, data, job, s, job[s]) /\ DOMAIN job[s] = Fields
  BY DEF FilesInv, FilesSound, RequestSound, JobSound
<1>3. /\ DOMAIN k = Fields /\ k.op = op /\ k.at = "check" /\ k.in = Dir /\ k.out = Dir
      /\ k.todo = {} /\ k.file = <<>>
  BY DEF Idle, Fields
<1>4. \A s \in Requests :
         /\ DOMAIN other(s) = Fields /\ other(s).op = job[s].op /\ other(s).at = job[s].at
         /\ other(s).in = job[s].in /\ other(s).out = job[s].out /\ other(s).todo = job[s].todo
         /\ other(s).file = job[s].file /\ other(s).edited = job[s].edited
  BY <1>2 DEF Fields
<1> HIDE DEF k, other
<1>5. <<>> \in Paths
  BY EmptySeq DEF Paths
<1>6. RequestSound(tree, data, job, r, k)
  <2>1. \A n \in DOMAIN data : data[n].opener # {r}
    BY <1>1, <1>2 DEF RequestSound, OwnSound
  <2> QED
    BY <1>3, <1>5, <2>1 DEF RequestSound, JobSound, ReadSound, OpenedSound, OwnSound
<1>7. \A s \in Requests : RequestSound(tree, data, job, s, other(s))
  <2> TAKE s \in Requests
  <2>1. JobSound(data, other(s))
    BY <1>2, <1>4 DEF RequestSound, JobSound
  <2>2. ReadSound(tree, data, job, other(s))
    BY <1>2, <1>4 DEF RequestSound, ReadSound
  <2>3. OpenedSound(data, s, other(s)) /\ OwnSound(data, s, other(s))
    BY <1>2, <1>4 DEF RequestSound, OpenedSound, OwnSound
  <2> QED
    BY <2>1, <2>2, <2>3 DEF RequestSound
<1>8. \A s \in Requests : RequestSound(tree, data, job, s, job'[s]) /\ job'[s].out \in {job[s].out, Dir}
  BY <1>1, <1>3, <1>4, <1>6, <1>7
<1>9. FilesSound(tree, data, job')
  BY <1>1, <1>8, JobsChange DEF FilesInv
<1>10. FilesSound(tree', data', job')
  BY <1>1, <1>9
<1> QED
  BY <1>10 DEF FilesInv, FilesSound, TreeSound, DataSound, ShownReady, Shown, Ready, Writing,
     RequestSound, JobSound, ReadSound, OpenedSound, OwnSound

\* A restart closes what is open and leaves the files.
LEMMA RestartKeeps == ASSUME FilesInv, Restart PROVE FilesInv'
<1> DEFINE i == [r \in Requests |-> IF job[r].at = "idle" THEN Idle ELSE Ended]
<1>1. Become(tree, data, i)
  BY DEF Restart
<1>2. DOMAIN i = Requests /\ \A r \in Requests : i[r] = IF job[r].at = "idle" THEN Idle ELSE Ended
  OBVIOUS
<1> HIDE DEF i
<1>3. /\ DOMAIN Idle = Fields /\ Idle.at = "idle" /\ Idle.in = Dir /\ Idle.out = Dir
      /\ Idle.todo = {} /\ Idle.file = <<>>
  BY DEF Idle, Fields
<1>4. <<>> \in Paths
  BY EmptySeq DEF Paths
<1>5. \A r \in Requests : RequestSound(tree, data, job, r, i[r]) /\ i[r].out \in {job[r].out, Dir}
  <2> TAKE r \in Requests
  <2>1. CASE job[r].at = "idle"
    <3>1. \A n \in DOMAIN data : data[n].opener # {r}
      BY <2>1 DEF FilesInv, FilesSound, RequestSound, OwnSound
    <3> QED
      BY <1>2, <1>3, <1>4, <2>1, <3>1 DEF RequestSound, JobSound, ReadSound, OpenedSound, OwnSound
  <2>2. CASE job[r].at # "idle"
    BY <1>2, <2>2, EndedSound
  <2> QED
    BY <2>1, <2>2
<1>6. FilesSound(tree, data, i)
  BY <1>2, <1>5, JobsChange DEF FilesInv
<1> QED
  BY <1>1, <1>6, Becomes

\* Every step of a request that works.
LEMMA WorkKeeps == ASSUME FilesInv, NEW r \in Requests, Work(r) PROVE FilesInv'
BY CheckTargetKeeps, CheckPathKeeps, MakeParentsKeeps, SetAttributesKeeps, OpenTempKeeps,
   WriteTempKeeps, PlaceKeeps, DeleteKeeps, RenameKeeps, copyDirectoryKeeps, copyFileKeeps,
   CopiedKeeps, CopyModeKeeps, CopyEndsKeeps, CheckAttributesKeeps, ChangeNextKeeps,
   WalkEndsKeeps, CheckFileKeeps, OpenToReadKeeps, ReadContentKeeps, ReadFailsKeeps,
   EditReadKeeps, ValidateBeginsKeeps, LoadKeeps, EditOpenKeeps, EditWriteKeeps, RespondKeeps
   DEF Work

\* Every step keeps the files sound.
LEMMA StackNextKeeps == ASSUME FilesInv, [StackNext]_stackVars PROVE FilesInv'
<1>1. CASE UNCHANGED <<fileVars, job>>
  BY <1>1 DEF fileVars, FilesInv, FilesSound, TreeSound, DataSound, ShownReady, Shown, Ready, Writing,
     RequestSound, JobSound, ReadSound, OpenedSound, OwnSound
<1>2. LogOther \/ DayPasses \/ UNCHANGED stackVars => UNCHANGED <<fileVars, job>>
  BY DEF LogOther, DayPasses, stackVars, fileVars
<1> QED
  BY <1>1, <1>2, BeginKeeps, WorkKeeps, RestartKeeps DEF StackNext

--------------------------------------------------------------------------------
\* The files of the start are numbered, each by one number.
LEMMA Numbered ==
    ASSUME NEW S, IsFiniteSet(S)
    PROVE  /\ DOMAIN SetToSeq(S) = 1..Cardinality(S) /\ Cardinality(S) \in Nat
           /\ \A n \in DOMAIN SetToSeq(S) : SetToSeq(S)[n] \in S
           /\ \A x \in S : \E n \in DOMAIN SetToSeq(S) : SetToSeq(S)[n] = x
<1> DEFINE c == Cardinality(S)
           order == SetToSeq(S)
<1>1. c \in Nat /\ ExistsBijection(1..c, S)
  BY FS_CardinalityType
<1>2. \E f \in [1..c -> S] : IsInjective(f)
  BY <1>1 DEF ExistsBijection, Bijection, Injection
<1>3. order \in [1..c -> S] /\ IsInjective(order)
  <2>1. order = CHOOSE f \in [1..c -> S] : IsInjective(f)
    BY DEF SetToSeq
  <2> HIDE DEF order, c
  <2> QED
    BY <1>2, <2>1
<1>4. IsFiniteSet(1..c) /\ Cardinality(1..c) = c
  <2>1. 1 \in Int /\ c \in Int
    BY <1>1
  <2>2. IsFiniteSet(1..c) /\ Cardinality(1..c) = IF 1 > c THEN 0 ELSE c - 1 + 1
    BY <2>1, FS_Interval
  <2> QED
    BY <1>1, <2>2
<1> DEFINE T == { order[n] : n \in 1..c }
<1> HIDE DEF order, c
<1>5. order \in Bijection(1..c, T)
  BY <1>3 DEF Bijection, Injection, Surjection
<1>6. Cardinality(T) = c
  BY <1>4, <1>5, FS_Bijection DEF ExistsBijection
<1>7. T \subseteq S
  BY <1>3
<1>8. T = S
  BY <1>6, <1>7, FS_Subset DEF c
<1>9. \A x \in S : \E n \in 1..c : order[n] = x
  BY <1>8
<1>10. DOMAIN order = 1..c /\ \A n \in 1..c : order[n] \in S
  BY <1>3
<1> QED
  BY <1>1, <1>9, <1>10 DEF order, c

\* At the start no file is torn, and nobody has one open.
LEMMA StackInitSound == StackInit => FilesInv
<1> SUFFICES ASSUME StackInit PROVE FilesInv
  OBVIOUS
<1> DEFINE S == DOMAIN InitialFiles
           order == SetToSeq(S)
           folders == UNION { { SubSeq(p, 1, k) : k \in 0..(Len(p) - 1) } : p \in S }
<1>1. /\ tree = [p \in folders \cup S |->
                     IF p \in folders THEN Dir ELSE CHOOSE n \in DOMAIN order : order[n] = p]
      /\ data = [n \in DOMAIN order |-> File(InitialFiles[order[n]], {}, FALSE, FALSE, {})]
      /\ job = [r \in Requests |-> Idle]
  BY DEF StackInit
<1>2. /\ DOMAIN order = 1..Cardinality(S) /\ Cardinality(S) \in Nat
      /\ \A n \in DOMAIN order : order[n] \in S
      /\ \A x \in S : \E n \in DOMAIN order : order[n] = x
  BY Numbered, OperationsAssumption
<1>3. S \subseteq Paths
  <2> SUFFICES ASSUME NEW p \in Seq(STRING) PROVE p \in Paths
    BY OperationsAssumption
  <2>1. STRING \subseteq FileNames
    BY DEF FileNames
  <2> QED
    BY <2>1, SeqMonotonic DEF Paths
<1>4. folders \subseteq Paths
  <2>1. ASSUME NEW p \in S, NEW k \in 0..(Len(p) - 1)
        PROVE  SubSeq(p, 1, k) \in Paths
    <3>1. p \in Paths /\ Len(p) \in Nat
      BY <1>3, LenProperties DEF Paths
    <3>2. k \in Int /\ k <= Len(p)
      BY <3>1
    <3> QED
      BY <3>1, <3>2, OnTheWay
  <2>2. ASSUME NEW p \in S
        PROVE  { SubSeq(p, 1, k) : k \in 0..(Len(p) - 1) } \subseteq Paths
    BY <2>1
  <2> QED
    BY <2>2
<1> HIDE DEF order, folders
<1>5. \A p \in DOMAIN tree : p \notin folders =>
          p \in S /\ tree[p] \in DOMAIN order /\ order[tree[p]] = p
  BY <1>1, <1>2
<1>6. \A p \in DOMAIN tree : p \in folders => tree[p] = Dir
  BY <1>1
<1>7. DOMAIN data = 1..Cardinality(S) /\ IsFiniteSet(DOMAIN data)
  <2>1. 1 \in Int /\ Cardinality(S) \in Int
    BY <1>2
  <2> QED
    BY <1>1, <1>2, <2>1, FS_Interval
<1>8. \A n \in DOMAIN data :
          /\ DOMAIN data[n] = FileFields /\ data[n].content # Torn
          /\ data[n].mixed = FALSE /\ data[n].exposed = FALSE /\ data[n].opener = {}
  <2> TAKE n \in DOMAIN data
  <2>1. data[n] = File(InitialFiles[order[n]], {}, FALSE, FALSE, {}) /\ order[n] \in S
    BY <1>1, <1>2
  <2> QED
    BY <2>1, WholeAssumption DEF File, FileFields
<1>9. DOMAIN job = Requests /\ \A r \in Requests : job[r] = Idle
  BY <1>1
<1>10. TreeSound(tree, data)
  <2>1. DOMAIN tree \subseteq Paths
    BY <1>1, <1>3, <1>4
  <2>2. \A p \in DOMAIN tree : tree[p] = Dir \/ tree[p] \in DOMAIN data
    BY <1>2, <1>5, <1>6, <1>7
  <2>3. \A p, q \in DOMAIN tree : tree[p] = tree[q] /\ tree[p] # Dir => p = q
    BY <1>5, <1>6
  <2> QED
    BY <2>1, <2>2, <2>3 DEF TreeSound
<1>11. DataSound(data)
  <2>1. DOMAIN data \subseteq Nat \ {Dir}
    BY <1>2, <1>7 DEF Dir
  <2> QED
    BY <1>7, <1>8, <2>1 DEF DataSound
<1>12. /\ DOMAIN Idle = Fields /\ Idle.at = "idle" /\ Idle.in = Dir /\ Idle.out = Dir
       /\ Idle.todo = {} /\ Idle.file = <<>>
  BY DEF Idle, Fields
<1>13. \A n \in DOMAIN data : Ready(data, job, n)
  <2>1. \A n \in DOMAIN data : n # Dir
    BY <1>11 DEF DataSound
  <2>2. \A n \in DOMAIN data : ~Writing(job, n)
    BY <1>9, <1>12, <2>1 DEF Writing
  <2> QED
    BY <1>8, <2>2 DEF Ready
<1>14. ASSUME NEW r \in Requests
       PROVE  RequestSound(tree, data, job, r, job[r])
  <2>1. <<>> \in Paths
    BY EmptySeq DEF Paths
  <2> QED
    BY <1>8, <1>9, <1>12, <2>1 DEF RequestSound, JobSound, ReadSound, OpenedSound, OwnSound
<1> QED
  BY <1>9, <1>10, <1>11, <1>13, <1>14 DEF FilesInv, FilesSound, ShownReady

\* The invariant, for any requests, operations, files and depths.
LEMMA FilesInvHolds == StackSpec => []FilesInv
BY StackInitSound, StackNextKeeps, PTL DEF StackSpec

(***************************************************************************)
(* Whatever is asked for at the same time, whatever fails, and wherever    *)
(* the agent dies: a file at a path that is no temporary name is whole,    *)
(* and a reader is given one that is, unless it was written in place or    *)
(* two worked on it under its temporary name.                              *)
(***************************************************************************)
THEOREM SeenWhole == StackSpec => []WholeFiles
<1>1. FilesInv => WholeFiles
  <2> SUFFICES ASSUME FilesInv PROVE WholeFiles
    OBVIOUS
  <2>1. ASSUME NEW p \in DOMAIN tree, IsFile(p), Look(p) = Torn, Last(p) \notin TempNames
        PROVE  data[tree[p]].exposed
    <3>1. tree[p] \in DOMAIN data /\ data[tree[p]].content = Torn
      BY <2>1 DEF IsFile, Look, FilesInv, FilesSound, TreeSound
    <3>2. Shown(tree, tree[p])
      BY <2>1 DEF Shown
    <3> QED
      BY <3>1, <3>2 DEF FilesInv, FilesSound, ShownReady, Ready
  <2>2. ASSUME NEW r \in Requests, Given(r), job[r].edited = Torn
        PROVE  data[job[r].in].exposed
    <3>1. job[r].in # Dir /\ job[r].op.kind \in Reads
      BY <2>2 DEF Given, At, Reads
    <3>2. ReadSound(tree, data, job, job[r])
      BY DEF FilesInv, FilesSound, RequestSound
    <3> QED
      BY <2>2, <3>1, <3>2 DEF ReadSound, Ready
  <2> QED
    BY <2>1, <2>2 DEF WholeFiles
<1> QED
  BY <1>1, FilesInvHolds, PTL

--------------------------------------------------------------------------------
(***************************************************************************)
(* Paths and their prefixes.                                               *)
(***************************************************************************)

LEMMA PrefixIs ==
    ASSUME NEW p \in Paths, NEW q \in Paths
    PROVE  IsPrefix(p, q) <=> (Len(p) <= Len(q) /\ \A i \in 1..Len(p) : p[i] = q[i])
<1>1. Len(p) \in Nat /\ Len(q) \in Nat
  BY LenProperties DEF Paths
<1>2. SubSeq(p, 1, Len(p)) = p
  BY SubSeqFull DEF Paths
<1>3. ASSUME Len(p) <= Len(q)
      PROVE  SubSeq(q, 1, Len(p)) = p <=> \A i \in 1..Len(p) : p[i] = q[i]
  <2> DEFINE s == SubSeq(q, 1, Len(p))
  <2>1. s \in Paths
    BY <1>1, <1>3, OnTheWay
  <2>2. \A i \in 1..Len(p) : q[i] \in FileNames
    BY <1>1, <1>3, ElementOfSeq DEF Paths
  <2>3. Len(s) = (IF 1 <= Len(p) THEN Len(p) - 1 + 1 ELSE 0) /\ \A i \in 1..(Len(p) - 1 + 1) : s[i] = q[1 + i - 1]
    BY <1>1, <2>2, SubSeqProperties
  <2>4. Len(s) = Len(p) /\ \A i \in 1..Len(p) : s[i] = q[i]
    BY <1>1, <2>3
  <2> HIDE DEF s
  <2>5. s = p <=> \A i \in 1..Len(p) : s[i] = p[i]
    BY <2>1, <2>4, SeqEqual DEF Paths
  <2>6. s = p <=> \A i \in 1..Len(p) : p[i] = q[i]
    BY <2>4, <2>5
  <2> QED
    BY <2>6 DEF s
<1> QED
  BY <1>2, <1>3 DEF IsPrefix

LEMMA PrefixLaws ==
    /\ \A p \in Paths : IsPrefix(p, p)
    /\ \A p, q, s \in Paths : IsPrefix(p, q) /\ IsPrefix(q, s) => IsPrefix(p, s)
    /\ \A p, q, s \in Paths : IsPrefix(p, s) /\ IsPrefix(q, s) => IsPrefix(p, q) \/ IsPrefix(q, p)
    /\ \A p, q \in Paths : IsPrefix(p, q) /\ Len(q) <= Len(p) => p = q
    /\ \A p, q \in Paths : IsPrefix(p, q) => Len(p) <= Len(q)
    /\ \A p \in Paths : Len(p) \in Nat /\ IsPrefix(<<>>, p)
    /\ <<>> \in Paths /\ Len(<<>>) = 0
<1>0. <<>> \in Paths /\ Len(<<>>) = 0
  BY EmptySeq DEF Paths
<1>1. \A p \in Paths : Len(p) \in Nat
  BY LenProperties DEF Paths
<1>2. \A p, q \in Paths : IsPrefix(p, q) <=> (Len(p) <= Len(q) /\ \A i \in 1..Len(p) : p[i] = q[i])
  BY PrefixIs
<1>3. ASSUME NEW p \in Paths, NEW q \in Paths, IsPrefix(p, q), Len(q) <= Len(p)
      PROVE  p = q
  <2>1. Len(p) = Len(q) /\ \A i \in 1..Len(p) : p[i] = q[i]
    BY <1>1, <1>2, <1>3
  <2> QED
    BY <2>1, SeqEqual DEF Paths
<1>4. \A p \in Paths : IsPrefix(p, p)
  BY <1>1, <1>2
<1>5. ASSUME NEW p \in Paths, NEW q \in Paths, NEW s \in Paths, IsPrefix(p, q), IsPrefix(q, s)
      PROVE  IsPrefix(p, s)
  BY <1>1, <1>2, <1>5
<1>6. ASSUME NEW p \in Paths, NEW q \in Paths, NEW s \in Paths, IsPrefix(p, s), IsPrefix(q, s)
      PROVE  IsPrefix(p, q) \/ IsPrefix(q, p)
  BY <1>1, <1>2, <1>6
<1>7. \A p \in Paths : IsPrefix(<<>>, p)
  BY <1>0, <1>1, <1>2
<1>8. \A p, q \in Paths : IsPrefix(p, q) => Len(p) <= Len(q)
  BY <1>2
<1> QED
  BY <1>0, <1>1, <1>3, <1>4, <1>5, <1>6, <1>7, <1>8

\* The start of a path.
LEMMA Start ==
    ASSUME NEW p \in Paths, NEW k \in 0..Len(p)
    PROVE  /\ SubSeq(p, 1, k) \in Paths /\ Len(SubSeq(p, 1, k)) = k
           /\ IsPrefix(SubSeq(p, 1, k), p)
           /\ \A i \in 1..k : SubSeq(p, 1, k)[i] = p[i]
<1>1. Len(p) \in Nat /\ k \in Int /\ k <= Len(p)
  BY LenProperties DEF Paths
<1>2. SubSeq(p, 1, k) \in Paths
  BY <1>1, OnTheWay
<1>3. \A i \in 1..k : p[i] \in FileNames
  BY <1>1, ElementOfSeq DEF Paths
<1>4. /\ Len(SubSeq(p, 1, k)) = (IF 1 <= k THEN k - 1 + 1 ELSE 0)
      /\ \A i \in 1..(k - 1 + 1) : SubSeq(p, 1, k)[i] = p[1 + i - 1]
  BY <1>1, <1>3, SubSeqProperties
<1>5. Len(SubSeq(p, 1, k)) = k /\ \A i \in 1..k : SubSeq(p, 1, k)[i] = p[i]
  BY <1>1, <1>4
<1> QED
  BY <1>1, <1>2, <1>5, PrefixIs

LEMMA PrefixIsStart ==
    ASSUME NEW p \in Paths, NEW q \in Paths, IsPrefix(q, p)
    PROVE  Len(q) \in 0..Len(p) /\ q = SubSeq(p, 1, Len(q))
<1>1. Len(q) \in 0..Len(p)
  BY PrefixLaws
<1>2. SubSeq(p, 1, Len(q)) \in Paths /\ Len(SubSeq(p, 1, Len(q))) = Len(q)
      /\ IsPrefix(SubSeq(p, 1, Len(q)), p)
  BY <1>1, Start
<1> QED
  BY <1>1, <1>2, PrefixLaws

\* What is strictly before a path is its parent, or before it.
LEMMA ParentIs ==
    ASSUME NEW p \in Paths
    PROVE  /\ Parent(p) \in Paths /\ IsPrefix(Parent(p), p)
           /\ p # <<>> => Len(p) >= 1 /\ Len(Parent(p)) = Len(p) - 1
           /\ \A q \in Paths : IsPrefix(q, p) /\ q # p => IsPrefix(q, Parent(p))
<1>1. Len(p) \in Nat
  BY PrefixLaws
<1>2. CASE p = <<>>
  <2>1. Parent(p) = SubSeq(p, 1, Len(p) - 1) /\ Len(p) = 0
    BY <1>2, PrefixLaws DEF Parent, Front
  <2>2. Parent(p) = <<>>
    BY <2>1, SubSeqEmpty
  <2>3. \A q \in Paths : IsPrefix(q, p) => q = p
    BY <2>1, PrefixLaws
  <2> QED
    BY <1>2, <2>2, <2>3, PrefixLaws
<1>3. CASE p # <<>>
  <2>1. Len(p) >= 1
    BY <1>1, <1>3, EmptySeq DEF Paths
  <2>2. Len(p) - 1 \in 0..Len(p) /\ Parent(p) = SubSeq(p, 1, Len(p) - 1)
    BY <1>1, <2>1 DEF Parent, Front
  <2>3. Parent(p) \in Paths /\ Len(Parent(p)) = Len(p) - 1 /\ IsPrefix(Parent(p), p)
    BY <2>2, Start
  <2>4. ASSUME NEW q \in Paths, IsPrefix(q, p), q # p
        PROVE  IsPrefix(q, Parent(p))
    <3>1. Len(q) \in Nat /\ Len(q) <= Len(p) /\ Len(q) # Len(p)
      BY <2>4, PrefixLaws
    <3>2. IsPrefix(q, Parent(p)) \/ IsPrefix(Parent(p), q)
      BY <2>3, <2>4, PrefixLaws
    <3>3. Len(q) <= Len(Parent(p))
      BY <1>1, <2>3, <3>1
    <3> QED
      BY <2>3, <3>2, <3>3, PrefixLaws
  <2> QED
    BY <2>1, <2>3, <2>4
<1> QED
  BY <1>2, <1>3

\* What is put behind a path.
LEMMA Behind ==
    ASSUME NEW q \in Paths, NEW a \in Paths
    PROVE  /\ q \o a \in Paths /\ Len(q \o a) = Len(q) + Len(a) /\ IsPrefix(q, q \o a)
           /\ Beneath(q \o a, q) = a
           /\ a = <<>> <=> q \o a = q
           /\ \A b \in Paths : IsPrefix(q \o a, q \o b) <=> IsPrefix(a, b)
<1>1. \A b \in Paths : /\ q \o b \in Paths /\ Len(q \o b) = Len(q) + Len(b)
                       /\ \A i \in 1 .. Len(q) + Len(b) :
                              (q \o b)[i] = IF i <= Len(q) THEN q[i] ELSE b[i - Len(q)]
  BY ConcatProperties DEF Paths
<1>2. \A b \in Paths : Len(b) \in Nat
  BY PrefixLaws
<1>3. IsPrefix(q, q \o a)
  <2>1. \A i \in 1..Len(q) : (q \o a)[i] = q[i]
    BY <1>1, <1>2
  <2>2. Len(q) <= Len(q \o a)
    BY <1>1, <1>2
  <2> QED
    BY <1>1, <2>1, <2>2, PrefixIs
<1>4. a = <<>> <=> q \o a = q
  <2>1. a = <<>> => q \o a = q
    BY ConcatEmptySeq DEF Paths
  <2>2. q \o a = q => Len(a) = 0
    BY <1>1, <1>2
  <2> QED
    BY <2>1, <2>2, EmptySeq DEF Paths
<1>5. ASSUME NEW b \in Paths
      PROVE  IsPrefix(q \o a, q \o b) <=> IsPrefix(a, b)
  <2>1. ASSUME IsPrefix(q \o a, q \o b)
        PROVE  IsPrefix(a, b)
    <3>1. /\ Len(q \o a) <= Len(q \o b)
          /\ \A i \in 1..Len(q \o a) : (q \o a)[i] = (q \o b)[i]
      BY <1>1, <2>1, PrefixIs
    <3>2. Len(a) <= Len(b)
      BY <1>1, <1>2, <3>1
    <3>3. ASSUME NEW i \in 1..Len(a) PROVE a[i] = b[i]
      <4>1. /\ Len(q) + i \in 1..Len(q \o a) /\ Len(q) + i \in 1 .. Len(q) + Len(a)
            /\ Len(q) + i \in 1 .. Len(q) + Len(b) /\ ~(Len(q) + i <= Len(q))
            /\ Len(q) + i - Len(q) = i
        BY <1>1, <1>2, <3>2
      <4>2. (q \o a)[Len(q) + i] = a[Len(q) + i - Len(q)] /\ (q \o b)[Len(q) + i] = b[Len(q) + i - Len(q)]
        BY <1>1, <4>1
      <4> QED
        BY <3>1, <4>1, <4>2
    <3> QED
      BY <3>2, <3>3, PrefixIs
  <2>2. ASSUME IsPrefix(a, b)
        PROVE  IsPrefix(q \o a, q \o b)
    <3>1. Len(a) <= Len(b) /\ \A i \in 1..Len(a) : a[i] = b[i]
      BY <2>2, PrefixIs
    <3>2. Len(q \o a) <= Len(q \o b)
      BY <1>1, <1>2, <3>1
    <3>3. ASSUME NEW i \in 1..Len(q \o a) PROVE (q \o a)[i] = (q \o b)[i]
      <4>1. /\ i \in 1 .. Len(q) + Len(a) /\ i \in 1 .. Len(q) + Len(b)
            /\ ~(i <= Len(q)) => i - Len(q) \in 1..Len(a)
        BY <1>1, <1>2, <3>1
      <4> QED
        BY <1>1, <3>1, <4>1
    <3> QED
      BY <1>1, <3>2, <3>3, PrefixIs
  <2> QED
    BY <2>1, <2>2
<1>6. Beneath(q \o a, q) = a
  BY RestOfPath
<1> QED
  BY <1>1, <1>3, <1>4, <1>5, <1>6

--------------------------------------------------------------------------------
(***************************************************************************)
(* What a request works on, and what its steps change.                     *)
(***************************************************************************)

\* A path is one the operation works on.
On(op, p) == \E q \in Touches(op) : IsPrefix(q, p)

LEMMA OneName == ASSUME NEW S, NEW x \in S PROVE <<x>> \in Seq(S)
OBVIOUS

LEMMA TouchesArePaths == ASSUME NEW op \in Operations PROVE Touches(op) \subseteq Paths
<1>1. \A p \in Seq(STRING) : p \in Paths
  <2> SUFFICES ASSUME NEW p \in Seq(STRING) PROVE p \in Paths
    OBVIOUS
  <2>1. STRING \subseteq FileNames
    BY DEF FileNames
  <2> QED
    BY <2>1, SeqMonotonic DEF Paths
<1>2. op.path \in Paths /\ op.to \in Paths /\ op.kind \in Kinds
  BY <1>1, OperationsAssumption
<1>3. op.kind \in Uploads => Temp(op.path) \in Paths
  BY TempOfWrite
<1>4. \A k \in DOMAIN ComposeFiles : ComposeFiles[k] \in Paths
  <2>1. \A x \in ComposeNames : <<x>> \in Paths
    BY OneName DEF FileNames, Paths
  <2>2. /\ ComposeFiles[1] = <<"docker-compose.yml">> /\ ComposeFiles[2] = <<"docker-compose.yaml">>
        /\ ComposeFiles[3] = <<"compose.yml">> /\ ComposeFiles[4] = <<"compose.yaml">>
        /\ DOMAIN ComposeFiles = 1..4
    BY DEF ComposeFiles
  <2>3. \A k \in 1..4 : k = 1 \/ k = 2 \/ k = 3 \/ k = 4
    OBVIOUS
  <2> QED
    BY <2>1, <2>2, <2>3 DEF ComposeNames
<1>5. CASE op.kind \in {"write", "upload"}
  BY <1>2, <1>3, <1>5 DEF Touches, Uploads
<1>6. CASE op.kind \in {"mkdir", "delete", "chmod", "chown"} \cup Reads
  BY <1>2, <1>6 DEF Touches, Reads
<1>7. CASE op.kind \in {"rename", "copy"}
  BY <1>2, <1>7 DEF Touches, Reads
<1>8. CASE op.kind = "edit"
  BY <1>4, <1>8 DEF Touches, Reads
<1> QED
  BY <1>2, <1>5, <1>6, <1>7, <1>8 DEF Kinds

\* What it works on includes its path, and a target, and what is below.
LEMMA OnItsPaths ==
    ASSUME NEW op \in Operations
    PROVE  /\ op.path \in Paths /\ op.to \in Paths
           /\ op.kind # "edit" => On(op, op.path)
           /\ op.kind \in {"rename", "copy"} => On(op, op.to)
           /\ op.kind \in Uploads => On(op, Temp(op.path)) /\ Temp(op.path) \in Paths
           /\ \A p, q \in Paths : On(op, p) /\ IsPrefix(p, q) => On(op, q)
<1>1. op.path \in Paths /\ op.to \in Paths
  <2>1. STRING \subseteq FileNames
    BY DEF FileNames
  <2> QED
    BY <2>1, SeqMonotonic, OperationsAssumption DEF Paths
<1>2. Touches(op) \subseteq Paths
  BY TouchesArePaths
<1>3. op.kind \in Kinds
  BY OperationsAssumption
<1>4. op.kind # "edit" => op.path \in Touches(op)
  BY <1>3 DEF Touches, Kinds, Reads
<1>5. op.kind \in {"rename", "copy"} => op.to \in Touches(op)
  BY DEF Touches, Reads
<1>6. op.kind \in Uploads => Temp(op.path) \in Touches(op)
  BY DEF Touches, Uploads, Reads
<1>7. \A q \in Touches(op) : On(op, q)
  BY <1>2, PrefixLaws DEF On
<1>8. \A p, q \in Paths : On(op, p) /\ IsPrefix(p, q) => On(op, q)
  BY <1>2, PrefixLaws DEF On
<1> QED
  BY <1>1, <1>2, <1>4, <1>5, <1>6, <1>7, <1>8

\* Where a request may change the tree: what it works on, what is on the way there, and the
\* file of a validation.
Area(r, op) ==
    { p \in Paths : (\E q \in Paths : On(op, q) /\ IsPrefix(p, q))
                        \/ (op.kind = "edit" /\ p = ValidatePath(r)) }

\* The only prefix of a name that is a step is the name.
LEMMA OneStep ==
    ASSUME NEW p \in Paths, NEW q \in Paths, IsPrefix(p, q), p # <<>>, Len(q) = 1
    PROVE  p = q
<1>1. Len(p) \in Nat /\ Len(p) >= 1
  <2>1. Len(p) >= 1
    BY ParentIs
  <2> QED
    BY <2>1, PrefixLaws
<1>2. Len(q) <= Len(p)
  BY <1>1
<1> QED
  BY <1>2, PrefixLaws

\* Two that do not hinder each other.
LEMMA AreaApart ==
    ASSUME NEW op1 \in Operations, NEW op2 \in Operations, NEW r \in Requests,
           op1.kind \notin Reads, ~Hinders(op1, op2), NEW p \in Area(r, op1)
    PROVE  ~On(op2, p)
<1> SUFFICES ASSUME On(op2, p) PROVE FALSE
  OBVIOUS
<1>1. PICK b \in Touches(op2) : IsPrefix(b, p)
  BY DEF On
<1>2. b \in Paths /\ p \in Paths /\ Touches(op1) \subseteq Paths
  BY <1>1, TouchesArePaths DEF Area
<1>3. \A c \in Touches(op1) : ~IsPrefix(b, c) /\ ~IsPrefix(c, b)
  BY <1>1 DEF Hinders
<1>4. ASSUME NEW q \in Paths, On(op1, q), IsPrefix(p, q)
      PROVE  FALSE
  <2>1. PICK c \in Touches(op1) : IsPrefix(c, q)
    BY <1>4 DEF On
  <2>2. IsPrefix(b, q)
    BY <1>1, <1>2, <1>4, PrefixLaws
  <2>3. IsPrefix(b, c) \/ IsPrefix(c, b)
    BY <1>2, <2>1, <2>2, PrefixLaws
  <2> QED
    BY <1>3, <2>1, <2>3
<1>5. ASSUME op1.kind = "edit", p = ValidatePath(r)
      PROVE  FALSE
  <2>1. ComposeFiles[1] \in Touches(op1)
    BY <1>5 DEF Touches, Reads, ComposeFiles
  <2>2. b # <<>>
    BY <1>2, <1>3, <2>1, PrefixLaws
  <2>3. Len(p) = 1
    BY <1>5 DEF ValidatePath
  <2>4. b = p
    BY <1>1, <1>2, <2>2, <2>3, OneStep
  <2>5. IsPrefix(ValidatePath(r), b)
    BY <1>2, <1>5, <2>4, PrefixLaws
  <2> QED
    BY <1>1, <2>5, ValidateAssumption
<1> QED
  BY <1>4, <1>5 DEF Area

LEMMA OnIsInArea ==
    ASSUME NEW r, NEW op, NEW p \in Paths, On(op, p)
    PROVE  p \in Area(r, op)
BY PrefixLaws DEF Area

\* Above a path there are directories.
Closed(t) ==
    \A p \in DOMAIN t, q \in Paths : IsPrefix(q, p) /\ q # p => q \in DOMAIN t /\ t[q] = Dir

\* A tree changes in an area only.
Within(A, t, u) ==
    \A p \in Paths \ A : (p \in DOMAIN u <=> p \in DOMAIN t) /\ (p \in DOMAIN t => u[p] = t[p])

\* What is at a path by now was there before, or is a new file, or comes from where the
\* operation works.
Comes(op, d, t, u) ==
    \A p \in DOMAIN u :
        \/ u[p] = Dir \/ u[p] \notin DOMAIN d
        \/ p \in DOMAIN t /\ u[p] = t[p]
        \/ On(op, p) /\ \E q \in DOMAIN t : On(op, q) /\ t[q] = u[p]

\* The files change that are in an area, and that which is open.
Untouched(A, t, out, d, e) ==
    \A n \in DOMAIN d : \/ n = out
                        \/ \E p \in A : p \in DOMAIN t /\ t[p] = n
                        \/ n \in DOMAIN e /\ e[n] = d[n]

SetsIn(d) == \A n \in DOMAIN d : d[n].set \subseteq Attributes

\* A request that works has only paths of its own.
Own(k) ==
    /\ \A task \in k.todo : /\ task.from \in Paths /\ On(k.op, task.from)
                            /\ task.to \in Paths /\ On(k.op, task.to)
    /\ k.at \in {"write", "mode"} /\ k.op.kind = "copy" =>
          /\ k.source \in Paths /\ On(k.op, k.source)
          /\ k.file \in Paths /\ On(k.op, k.file)
    /\ k.at \in {"validate", "load", "open", "write"} /\ k.op.kind = "edit" =>
          k.file \in Paths /\ On(k.op, k.file)
    /\ k.out # Dir => k.at = "write" /\ k.op.kind \notin Reads
    /\ k.at = "attributes" => k.op.kind \in Uploads \cup {"mkdir"}
    /\ k.at = "walk" => k.op.kind \in {"chmod", "chown"}
    /\ k.at \in {"read", "stream", "sent"} => k.op.kind \in Reads

\* What a step of a request does to the tree, to the files and to the request itself.
TreeStep(r, op, t) ==
    Closed(t) /\ Within(Area(r, op), tree, t) /\ Comes(op, data, tree, t)
DataStep(r, op, d) == SetsIn(d) /\ Untouched(Area(r, op), tree, job[r].out, data, d)
JobStep(r, op, t, k) ==
    /\ Own(k)
    /\ \/ k = Ended
       \/ /\ k.op = op /\ k.before = job[r].before /\ k.hindered = job[r].hindered
          /\ k.at \notin {"idle", "done"}
    /\ k.out \in {Dir, job[r].out} \/ \E p \in DOMAIN t : On(op, p) /\ t[p] = k.out

FilesSafe ==
    FilesInv /\ Closed(tree) /\ SetsIn(data) /\ \A r \in Requests : Own(job[r])

LEMMA SafePaths ==
    ASSUME FilesSafe
    PROVE  /\ DOMAIN tree \subseteq Paths
           /\ \A p \in DOMAIN tree : tree[p] # Dir => tree[p] \in DOMAIN data
           /\ \A p, q \in DOMAIN tree : tree[p] = tree[q] /\ tree[p] # Dir => p = q
           /\ \A n \in DOMAIN data : DOMAIN data[n] = FileFields /\ n # Dir
           /\ IsFiniteSet(DOMAIN data)
BY DEF FilesSafe, FilesInv, FilesSound, TreeSound, DataSound

LEMMA SameTree == ASSUME FilesSafe, NEW r, NEW op PROVE TreeStep(r, op, tree)
BY DEF FilesSafe, TreeStep, Within, Comes

LEMMA SameData == ASSUME FilesSafe, NEW r, NEW op PROVE DataStep(r, op, data)
BY DEF FilesSafe, DataStep, Untouched

\* The directories on the way to a path, and it itself.
LEMMA MkdirAllIs ==
    ASSUME NEW p \in Paths
    PROVE  /\ \A q \in Paths : q \in DOMAIN MkdirAll(p) <=> q \in DOMAIN tree \/ IsPrefix(q, p)
           /\ \A q \in DOMAIN MkdirAll(p) : MkdirAll(p)[q] = IF q \in DOMAIN tree THEN tree[q] ELSE Dir
           /\ DOMAIN tree \subseteq DOMAIN MkdirAll(p)
           /\ CanMkdirAll(p) => \A q \in Paths : IsPrefix(q, p) => ~IsFile(q)
           /\ DOMAIN tree \subseteq Paths => DOMAIN MkdirAll(p) \subseteq Paths
<1> DEFINE u == MkdirAll(p)
<1>1. /\ DOMAIN u = DOMAIN tree \cup { SubSeq(p, 1, k) : k \in 0..Len(p) }
      /\ \A q \in DOMAIN u : u[q] = IF q \in DOMAIN tree THEN tree[q] ELSE Dir
  BY DEF MkdirAll
<1> HIDE DEF u
<1>2. \A k \in 0..Len(p) : SubSeq(p, 1, k) \in Paths /\ IsPrefix(SubSeq(p, 1, k), p)
  BY Start
<1>3. \A q \in Paths : IsPrefix(q, p) => Len(q) \in 0..Len(p) /\ q = SubSeq(p, 1, Len(q))
  BY PrefixIsStart
<1>4. CanMkdirAll(p) => \A q \in Paths : IsPrefix(q, p) => ~IsFile(q)
  BY <1>3 DEF CanMkdirAll
<1> QED
  BY <1>1, <1>2, <1>3, <1>4 DEF u

LEMMA MkdirStep ==
    ASSUME FilesSafe, NEW r, NEW op, NEW p \in Paths, NEW q \in Paths, On(op, q), IsPrefix(p, q),
           CanMkdirAll(p)
    PROVE  TreeStep(r, op, MkdirAll(p))
<1> DEFINE u == MkdirAll(p)
<1>1. /\ \A x \in Paths : x \in DOMAIN u <=> x \in DOMAIN tree \/ IsPrefix(x, p)
      /\ \A x \in DOMAIN u : u[x] = IF x \in DOMAIN tree THEN tree[x] ELSE Dir
      /\ \A x \in Paths : IsPrefix(x, p) => ~IsFile(x)
      /\ DOMAIN u \subseteq Paths
  BY MkdirAllIs, SafePaths
<1> HIDE DEF u
<1>2. \A x \in Paths : IsPrefix(x, p) => x \in Area(r, op)
  BY PrefixLaws DEF Area
<1>3. Closed(u)
  <2> SUFFICES ASSUME NEW x \in DOMAIN u, NEW y \in Paths, IsPrefix(y, x), y # x
               PROVE  y \in DOMAIN u /\ u[y] = Dir
    BY DEF Closed
  <2>1. CASE x \in DOMAIN tree
    BY <1>1, <2>1 DEF FilesSafe, Closed
  <2>2. CASE IsPrefix(x, p)
    <3>1. IsPrefix(y, p)
      BY <1>1, <2>2, PrefixLaws
    <3> QED
      BY <1>1, <3>1 DEF IsFile
  <2> QED
    BY <1>1, <2>1, <2>2
<1>4. Within(Area(r, op), tree, u)
  BY <1>1, <1>2 DEF Within
<1>5. Comes(op, data, tree, u)
  BY <1>1 DEF Comes
<1>6. TreeStep(r, op, u)
  BY <1>3, <1>4, <1>5 DEF TreeStep
<1> QED
  BY <1>6 DEF u

LEMMA RemoveStep ==
    ASSUME FilesSafe, NEW r, NEW op, NEW S \in SUBSET DOMAIN tree,
           \A p \in S, q \in Paths : IsPrefix(q, p) => q \in S,
           \A p \in DOMAIN tree \ S : p \in Area(r, op)
    PROVE  TreeStep(r, op, Restrict(tree, S))
<1> DEFINE u == Restrict(tree, S)
<1>1. DOMAIN u = S /\ \A x \in S : u[x] = tree[x]
  BY DEF Restrict
<1> HIDE DEF u
<1>2. Closed(u)
  BY <1>1 DEF FilesSafe, Closed
<1>3. Within(Area(r, op), tree, u)
  BY <1>1 DEF Within
<1>4. Comes(op, data, tree, u)
  BY <1>1 DEF Comes
<1>5. TreeStep(r, op, u)
  BY <1>2, <1>3, <1>4 DEF TreeStep
<1> QED
  BY <1>5 DEF u

LEMMA WithoutStep ==
    ASSUME FilesSafe, NEW r, NEW op, NEW p \in Area(r, op)
    PROVE  TreeStep(r, op, Without(p))
<1>1. CASE Under(p) = {p}
  <2>1. \A x \in DOMAIN tree : IsPrefix(p, x) => x = p
    BY <1>1 DEF Under
  <2>2. p \in Paths
    BY DEF Area
  <2>3. ASSUME NEW x \in DOMAIN tree \ {p}, NEW y \in Paths, IsPrefix(y, x)
        PROVE  y \in DOMAIN tree \ {p}
    <3>1. y # p
      BY <2>1, <2>3
    <3>2. y \in DOMAIN tree
      BY <2>3 DEF FilesSafe, Closed
    <3> QED
      BY <3>1, <3>2
  <2>4. DOMAIN tree \ {p} \in SUBSET DOMAIN tree
    OBVIOUS
  <2>5. TreeStep(r, op, Restrict(tree, DOMAIN tree \ {p}))
    BY <2>3, <2>4, RemoveStep
  <2> QED
    BY <1>1, <2>5 DEF Without
<1>2. CASE Under(p) # {p}
  BY <1>2, SameTree DEF Without
<1> QED
  BY <1>1, <1>2

\* What is moved keeps what is behind its path.
LEMMA MovingIs ==
    ASSUME DOMAIN tree \subseteq Paths, NEW p \in Paths, NEW q \in Paths
    PROVE  /\ \A a \in Paths : p \o a \in DOMAIN tree =>
                  q \o a \in DOMAIN Moving(p, q) /\ Moving(p, q)[q \o a] = tree[p \o a]
           /\ \A s \in DOMAIN Moving(p, q) :
                  /\ s \in Paths
                  /\ \/ \E a \in Paths : s = q \o a /\ p \o a \in DOMAIN tree
                     \/ s \in DOMAIN tree /\ ~IsPrefix(p, s) /\ Moving(p, q)[s] = tree[s]
           /\ \A s \in DOMAIN tree : ~IsPrefix(p, s) => s \in DOMAIN Moving(p, q)
<1> DEFINE moved == { q \o SubSeq(u, Len(p) + 1, Len(u)) : u \in Under(p) }
           to == [x \in (DOMAIN tree \ Under(p)) \cup moved |->
                     IF x \in moved THEN tree[p \o SubSeq(x, Len(q) + 1, Len(x))] ELSE tree[x]]
<1>1. Moving(p, q) = to
  BY DEF Moving
<1>2. DOMAIN to = (DOMAIN tree \ Under(p)) \cup moved
  OBVIOUS
<1>3. \A x \in DOMAIN to : to[x] = IF x \in moved THEN tree[p \o Beneath(x, q)] ELSE tree[x]
  BY DEF Beneath
<1>4. moved = { q \o Beneath(u, p) : u \in Under(p) }
  BY DEF Beneath
<1>5. \A u \in Under(p) : u \in DOMAIN tree /\ IsPrefix(p, u)
  BY DEF Under
<1>6. \A u \in DOMAIN tree : IsPrefix(p, u) => u \in Under(p)
  BY DEF Under
<1> HIDE DEF to, moved
<1>7. ASSUME NEW a \in Paths, p \o a \in DOMAIN tree
      PROVE  q \o a \in DOMAIN to /\ to[q \o a] = tree[p \o a]
  <2>1. p \o a \in Under(p) /\ Beneath(p \o a, p) = a /\ Beneath(q \o a, q) = a
    BY <1>6, <1>7, Behind
  <2>2. q \o a \in moved
    BY <1>4, <2>1
  <2> QED
    BY <1>2, <1>3, <2>1, <2>2
<1>8. ASSUME NEW s \in DOMAIN to
      PROVE  /\ s \in Paths
             /\ \/ \E a \in Paths : s = q \o a /\ p \o a \in DOMAIN tree
                \/ s \in DOMAIN tree /\ ~IsPrefix(p, s) /\ to[s] = tree[s]
  <2>1. CASE s \in moved
    <3>1. PICK u \in Under(p) : s = q \o Beneath(u, p)
      BY <1>4, <2>1
    <3>2. u \in Paths /\ IsPrefix(p, u) /\ u \in DOMAIN tree
      BY <1>5
    <3>3. Beneath(u, p) \in Paths /\ u = p \o Beneath(u, p)
      BY <3>2, PrefixAndRest
    <3>4. q \o Beneath(u, p) \in Paths
      BY <3>3, Behind
    <3> QED
      BY <3>1, <3>2, <3>3, <3>4
  <2>2. CASE s \notin moved
    BY <1>2, <1>3, <1>6, <2>2
  <2> QED
    BY <2>1, <2>2
<1>9. \A s \in DOMAIN tree : ~IsPrefix(p, s) => s \in DOMAIN to
  BY <1>2, <1>5
<1> QED
  BY <1>1, <1>7, <1>8, <1>9

LEMMA MoveStep ==
    ASSUME FilesSafe, NEW r, NEW op \in Operations, NEW p \in Paths, NEW q \in Paths,
           On(op, p), On(op, q), CanRename(p, q)
    PROVE  TreeStep(r, op, Moving(p, q))
<1> DEFINE m == Moving(p, q)
<1>0. DOMAIN tree \subseteq Paths
  BY SafePaths
<1>1. /\ \A a \in Paths : p \o a \in DOMAIN tree => q \o a \in DOMAIN m /\ m[q \o a] = tree[p \o a]
      /\ \A s \in DOMAIN m :
             /\ s \in Paths
             /\ \/ \E a \in Paths : s = q \o a /\ p \o a \in DOMAIN tree
                \/ s \in DOMAIN tree /\ ~IsPrefix(p, s) /\ m[s] = tree[s]
      /\ \A s \in DOMAIN tree : ~IsPrefix(p, s) => s \in DOMAIN m
  BY <1>0, MovingIs
<1> HIDE DEF m
<1>2. /\ p \in DOMAIN tree /\ IsDir(Parent(q)) /\ ~IsPrefix(p, q)
      /\ q \in DOMAIN tree => tree[q] # Dir
  BY DEF CanRename
<1>3. \A x \in DOMAIN tree, y \in Paths : IsPrefix(y, x) /\ y # x => y \in DOMAIN tree /\ tree[y] = Dir
  BY DEF FilesSafe, Closed
<1>4. ASSUME NEW y \in DOMAIN tree, tree[y] = Dir, ~IsPrefix(p, y), ~IsPrefix(q, y)
      PROVE  y \in DOMAIN m /\ m[y] = Dir
  <2>1. y \in DOMAIN m
    BY <1>1, <1>4
  <2>2. \A a \in Paths : y # q \o a
    BY <1>4, Behind, Zenon
  <2> QED
    BY <1>1, <1>4, <2>1, <2>2
<1>5. Closed(m)
  <2> SUFFICES ASSUME NEW s \in DOMAIN m, NEW y \in Paths, IsPrefix(y, s), y # s
               PROVE  y \in DOMAIN m /\ m[y] = Dir
    BY DEF Closed
  <2>1. ASSUME NEW a \in Paths, s = q \o a, p \o a \in DOMAIN tree
        PROVE  y \in DOMAIN m /\ m[y] = Dir
    <3>0. IsPrefix(q, s) /\ s \in Paths
      BY <2>1, Behind
    <3>1. CASE IsPrefix(q, y)
      <4> DEFINE b == Beneath(y, q)
      <4>1. b \in Paths /\ y = q \o b
        BY <3>1, PrefixAndRest
      <4> HIDE DEF b
      <4>2. IsPrefix(b, a) /\ b # a
        BY <2>1, <4>1, Behind
      <4>3. IsPrefix(p \o b, p \o a) /\ p \o b # p \o a /\ p \o b \in Paths
        <5>1. IsPrefix(p \o b, p \o a) /\ p \o b \in Paths
          BY <4>1, <4>2, Behind
        <5>2. Beneath(p \o b, p) = b /\ Beneath(p \o a, p) = a
          BY <4>1, Behind
        <5> QED
          BY <4>2, <5>1, <5>2
      <4>4. p \o b \in DOMAIN tree /\ tree[p \o b] = Dir
        BY <1>3, <2>1, <4>3
      <4> QED
        BY <1>1, <4>1, <4>4
    <3>2. CASE ~IsPrefix(q, y)
      <4>1. IsPrefix(y, q) /\ y # q
        BY <3>0, <3>2, PrefixLaws
      <4>2. IsPrefix(y, Parent(q)) /\ Parent(q) \in Paths
        BY <4>1, ParentIs
      <4>3. y \in DOMAIN tree /\ tree[y] = Dir
        BY <1>2, <1>3, <4>2 DEF IsDir
      <4>4. ~IsPrefix(p, y)
        BY <1>2, <4>1, PrefixLaws
      <4> QED
        BY <1>4, <3>2, <4>3, <4>4
    <3> QED
      BY <3>1, <3>2
  <2>2. ASSUME s \in DOMAIN tree, ~IsPrefix(p, s)
        PROVE  y \in DOMAIN m /\ m[y] = Dir
    <3>1. y \in DOMAIN tree /\ tree[y] = Dir
      BY <1>3, <2>2
    <3>2. ~IsPrefix(p, y)
      BY <1>0, <2>2, PrefixLaws
    <3>3. ~IsPrefix(q, y)
      <4> SUFFICES ASSUME IsPrefix(q, y) PROVE FALSE
        OBVIOUS
      <4>1. IsPrefix(q, s) /\ q # s
        BY <1>0, <2>2, PrefixLaws
      <4> QED
        BY <1>2, <1>3, <2>2, <4>1
    <3> QED
      BY <1>4, <3>1, <3>2, <3>3
  <2> QED
    BY <1>1, <2>1, <2>2
<1>6. \A a \in Paths : On(op, p \o a) /\ On(op, q \o a)
  BY Behind, OnItsPaths
<1>7. Within(Area(r, op), tree, m)
  <2> SUFFICES ASSUME NEW x \in Paths, x \notin Area(r, op)
               PROVE  /\ x \in DOMAIN m <=> x \in DOMAIN tree
                      /\ x \in DOMAIN tree => m[x] = tree[x]
    BY DEF Within
  <2>1. ~On(op, x)
    BY OnIsInArea
  <2>2. ~IsPrefix(p, x)
    BY <2>1, OnItsPaths
  <2>3. \A a \in Paths : x # q \o a
    BY <1>6, <2>1
  <2> QED
    BY <1>1, <2>2, <2>3
<1>8. Comes(op, data, tree, m)
  <2> SUFFICES ASSUME NEW x \in DOMAIN m
               PROVE  \/ x \in DOMAIN tree /\ m[x] = tree[x]
                      \/ On(op, x) /\ \E y \in DOMAIN tree : On(op, y) /\ tree[y] = m[x]
    BY DEF Comes
  <2>1. ASSUME NEW a \in Paths, x = q \o a, p \o a \in DOMAIN tree
        PROVE  On(op, x) /\ \E y \in DOMAIN tree : On(op, y) /\ tree[y] = m[x]
    BY <1>1, <1>6, <2>1
  <2> QED
    BY <1>1, <2>1
<1>9. TreeStep(r, op, m)
  BY <1>5, <1>7, <1>8 DEF TreeStep
<1> QED
  BY <1>9 DEF m

\* A file is opened where the request works.
LEMMA OpenStep ==
    ASSUME FilesSafe, NEW r \in Requests, NEW op, NEW p \in Paths, On(op, p), NEW set, set \subseteq Attributes,
           NEW inPlace, NEW next, OpenAt(r, p, set, inPlace, next)
    PROVE  \E n, u, e :
              /\ n \in Nat \ {Dir}
              /\ n = IF IsFile(p) THEN tree[p] ELSE Fresh
              /\ n \in DOMAIN data => IsFile(p)
              /\ Put(tree, u, p, n) /\ Put(data, e, n, e[n])
              /\ e[n] = File(Torn, IF IsFile(p) THEN data[n].set ELSE set,
                             Writers(n) # {}, inPlace \/ Writers(n) # {}, {r})
              /\ TreeStep(r, op, u) /\ DataStep(r, op, e)
              /\ Step(u, e, r, [next EXCEPT !.out = n])
<1> DEFINE n == IF IsFile(p) THEN tree[p] ELSE Fresh
           f == File(Torn, IF IsFile(p) THEN data[n].set ELSE set,
                     Writers(n) # {}, inPlace \/ Writers(n) # {}, {r})
           u == [q \in DOMAIN tree \cup {p} |-> IF q = p THEN n ELSE tree[q]]
           e == [m \in DOMAIN data \cup {n} |-> IF m = n THEN f ELSE data[m]]
<1>1. Step(u, e, r, [next EXCEPT !.out = n]) /\ IsDir(Parent(p)) /\ CanOpen(p)
  BY DEF OpenAt
<1>2. n \in Nat \ {Dir} /\ (n \in DOMAIN data => IsFile(p))
  <2>1. CASE IsFile(p)
    <3>1. tree[p] \in DOMAIN data /\ tree[p] # Dir
      BY <2>1, SafePaths DEF IsFile
    <3>2. DOMAIN data \subseteq Nat
      BY DEF FilesSafe, FilesInv, FilesSound, DataSound
    <3> QED
      BY <2>1, <3>1, <3>2
  <2>2. CASE ~IsFile(p)
    BY <2>2, SafePaths, FreshIsNew DEF Dir
  <2> QED
    BY <2>1, <2>2
<1>3. Put(tree, u, p, n) /\ Put(data, e, n, e[n]) /\ e[n] = f
  BY DEF Put
<1>4. f.set \subseteq Attributes
  BY <1>2, SafePaths DEF File, FilesSafe, SetsIn, IsFile
<1>5. IsFile(p) => n = tree[p]
  OBVIOUS
<1> HIDE DEF n, f, u, e
<1>6. TreeStep(r, op, u)
  <2>1. Closed(u)
    <3> SUFFICES ASSUME NEW x \in DOMAIN u, NEW y \in Paths, IsPrefix(y, x), y # x
                 PROVE  y \in DOMAIN u /\ u[y] = Dir
      BY DEF Closed
    <3>1. \A z \in DOMAIN tree : z # p => z \in DOMAIN u /\ u[z] = tree[z]
      BY <1>3 DEF Put
    <3>2. CASE x = p
      <4>1. IsPrefix(y, Parent(p)) /\ Parent(p) \in Paths
        BY <3>2, ParentIs
      <4>2. y \in DOMAIN tree /\ tree[y] = Dir
        BY <1>1, <4>1 DEF FilesSafe, Closed, IsDir
      <4> QED
        BY <3>1, <3>2, <4>2
    <3>3. CASE x # p
      <4>1. x \in DOMAIN tree
        BY <1>3, <3>3 DEF Put
      <4>2. y \in DOMAIN tree /\ tree[y] = Dir
        BY <4>1 DEF FilesSafe, Closed
      <4>3. y # p
        BY <1>1, <4>2 DEF CanOpen
      <4> QED
        BY <3>1, <4>2, <4>3
    <3> QED
      BY <3>2, <3>3
  <2>2. Within(Area(r, op), tree, u)
    BY <1>3, OnIsInArea DEF Within, Put
  <2>3. Comes(op, data, tree, u)
    <3>1. n \in DOMAIN data => p \in DOMAIN tree /\ tree[p] = n
      BY <1>2, <1>5 DEF IsFile
    <3> QED
      BY <1>3, <3>1 DEF Comes, Put
  <2> QED
    BY <2>1, <2>2, <2>3 DEF TreeStep
<1>7. DataStep(r, op, e)
  <2>1. SetsIn(e)
    BY <1>3, <1>4 DEF SetsIn, Put, FilesSafe
  <2>2. n \in DOMAIN data => p \in DOMAIN tree /\ tree[p] = n
    BY <1>2, <1>5 DEF IsFile
  <2>3. p \in Area(r, op)
    BY OnIsInArea
  <2>4. Untouched(Area(r, op), tree, job[r].out, data, e)
    BY <1>3, <2>2, <2>3 DEF Untouched, Put
  <2> QED
    BY <2>1, <2>4 DEF DataStep
<1>8. /\ n = IF IsFile(p) THEN tree[p] ELSE Fresh
      /\ e[n] = File(Torn, IF IsFile(p) THEN data[n].set ELSE set,
                     Writers(n) # {}, inPlace \/ Writers(n) # {}, {r})
  BY <1>3 DEF n, f
<1> QED
  BY <1>1, <1>2, <1>3, <1>6, <1>7, <1>8

\* The attributes of a file change where the request works.
LEMMA ChangedIs ==
    ASSUME FilesSafe, NEW p, NEW attributes
    PROVE  /\ DOMAIN Changed(p, attributes) = DOMAIN data
           /\ \A n \in DOMAIN data :
                 IF IsFile(p) /\ n = tree[p]
                 THEN /\ Changed(p, attributes)[n].set = data[n].set \cup attributes
                      /\ Changed(p, attributes)[n].content = data[n].content
                 ELSE Changed(p, attributes)[n] = data[n]
<1>1. CASE IsFile(p)
  <2> DEFINE n == tree[p]
             e == [data EXCEPT ![n].set = @ \cup attributes]
  <2>1. n \in DOMAIN data /\ DOMAIN data[n] = FileFields
    BY <1>1, SafePaths DEF IsFile
  <2>2. /\ DOMAIN e = DOMAIN data /\ \A m \in DOMAIN data \ {n} : e[m] = data[m]
        /\ e[n].content = data[n].content /\ e[n].set = data[n].set \cup attributes
    BY <2>1 DEF FileFields
  <2>3. Changed(p, attributes) = e
    BY <1>1 DEF Changed
  <2> HIDE DEF e
  <2> QED
    BY <1>1, <2>2, <2>3
<1>2. CASE ~IsFile(p)
  BY <1>2 DEF Changed
<1> QED
  BY <1>1, <1>2

LEMMA ChangedStep ==
    ASSUME FilesSafe, NEW r, NEW op, NEW p \in Paths, On(op, p),
           NEW attributes, attributes \subseteq Attributes
    PROVE  DataStep(r, op, Changed(p, attributes))
<1>1. p \in Area(r, op)
  BY OnIsInArea
<1> DEFINE e == Changed(p, attributes)
<1>2. /\ DOMAIN e = DOMAIN data
      /\ \A n \in DOMAIN data :
            IF IsFile(p) /\ n = tree[p]
            THEN /\ e[n].set = data[n].set \cup attributes
                 /\ e[n].content = data[n].content
            ELSE e[n] = data[n]
  BY ChangedIs
<1> HIDE DEF e
<1>3. SetsIn(e)
  BY <1>2 DEF SetsIn, FilesSafe
<1>4. Untouched(Area(r, op), tree, job[r].out, data, e)
  BY <1>1, <1>2 DEF Untouched, IsFile
<1> QED
  BY <1>3, <1>4 DEF DataStep, e

\* The last write to a file.
LEMMA WrittenIs ==
    ASSUME FilesSafe, NEW n \in DOMAIN data, NEW content, NEW d \in WrittenTo(n, content)
    PROVE  /\ DOMAIN d = DOMAIN data /\ \A m \in DOMAIN data \ {n} : d[m] = data[m]
           /\ d[n].set = data[n].set
           /\ data[n].mixed = FALSE => d[n].content = content
<1>1. PICK c : d = [data EXCEPT ![n].content = c] /\ (c = content \/ data[n].mixed)
  BY DEF WrittenTo
<1>2. DOMAIN data[n] = FileFields
  BY SafePaths
<1> QED
  BY <1>1, <1>2 DEF FileFields

LEMMA WrittenStep ==
    ASSUME FilesSafe, NEW r \in Requests, NEW op, job[r].at = "write", NEW content,
           NEW d \in WrittenTo(job[r].out, content)
    PROVE  DataStep(r, op, d)
<1> DEFINE n == job[r].out
<1>1. n \in DOMAIN data
  BY DEF FilesSafe, FilesInv, FilesSound, RequestSound, JobSound
<1>2. d \in WrittenTo(n, content)
  OBVIOUS
<1> HIDE DEF n
<1>3. /\ DOMAIN d = DOMAIN data /\ \A m \in DOMAIN data \ {n} : d[m] = data[m]
      /\ d[n].set = data[n].set
  BY <1>1, <1>2, WrittenIs, Zenon
<1>4. n = job[r].out
  BY DEF n
<1> QED
  BY <1>3, <1>4 DEF DataStep, SetsIn, Untouched, FilesSafe

LEMMA ExposedStep ==
    ASSUME FilesSafe, NEW r, NEW op, NEW p \in Paths, On(op, p)
    PROVE  /\ DataStep(r, op, Exposed(r, p))
           /\ DOMAIN Exposed(r, p) = DOMAIN data
           /\ \A n \in DOMAIN data : /\ Exposed(r, p)[n].content = data[n].content
                                     /\ Exposed(r, p)[n].set = data[n].set
<1> DEFINE n == tree[p]
           e == [data EXCEPT ![n].exposed = TRUE]
<1>1. CASE IsFile(p) /\ data[n].opener # {r}
  <2>1. Exposed(r, p) = e
    BY <1>1 DEF Exposed
  <2>2. p \in DOMAIN tree /\ n \in DOMAIN data /\ DOMAIN data[n] = FileFields
    BY <1>1, SafePaths DEF IsFile
  <2>3. /\ DOMAIN e = DOMAIN data /\ \A m \in DOMAIN data \ {n} : e[m] = data[m]
        /\ e[n].content = data[n].content /\ e[n].set = data[n].set
    BY <2>2 DEF FileFields
  <2> HIDE DEF e
  <2>4. \A m \in DOMAIN data : e[m].content = data[m].content /\ e[m].set = data[m].set
    BY <2>3
  <2>5. DataStep(r, op, e)
    <3>1. p \in Area(r, op)
      BY OnIsInArea
    <3>2. SetsIn(e)
      BY <2>3, <2>4 DEF SetsIn, FilesSafe
    <3> QED
      BY <2>2, <2>3, <3>1, <3>2 DEF DataStep, Untouched
  <2> QED
    BY <2>1, <2>3, <2>4, <2>5
<1>2. CASE ~(IsFile(p) /\ data[n].opener # {r})
  <2>1. Exposed(r, p) = data
    BY <1>2 DEF Exposed
  <2> QED
    BY <2>1, SameData
<1> QED
  BY <1>1, <1>2
--------------------------------------------------------------------------------
(***************************************************************************)
(* Every step of a request is one of these.                                *)
(***************************************************************************)
WorkedTo(r, t, d, k) ==
    /\ Become(t, d, [job EXCEPT ![r] = k])
    /\ TreeStep(r, job[r].op, t) /\ DataStep(r, job[r].op, d) /\ JobStep(r, job[r].op, t, k)
    /\ job[r].op.kind \in Reads => t = tree /\ d = data
Worked(r) == \E t, d, k : WorkedTo(r, t, d, k)

LEMMA Worker ==
    ASSUME FilesSafe, NEW r \in Requests, job[r].at \notin {"idle", "done"}
    PROVE  /\ job[r].op \in Operations /\ DOMAIN job[r] = Fields /\ Own(job[r])
           /\ job[r].op.path \in Paths /\ job[r].op.to \in Paths
           /\ job[r].op.kind \in Kinds /\ job[r].op.set \subseteq Attributes
           /\ job[r].in \in DOMAIN data \cup {Dir} /\ job[r].out \in DOMAIN data \cup {Dir}
           /\ JobSound(data, job[r])
<1>1. FilesInv /\ Own(job[r])
  BY DEF FilesSafe
<1>2. /\ RequestSound(tree, data, job, r, job[r]) /\ DOMAIN job[r] = Fields /\ job[r].op \in Operations
      /\ job[r].op.path \in Paths /\ job[r].op.to \in Paths
  BY <1>1, Works
<1> QED
  BY <1>1, <1>2, OperationsAssumption DEF RequestSound, JobSound

LEMMA AnswerStep ==
    ASSUME FilesSafe, NEW r \in Requests, job[r].at \notin {"idle", "done"}, NEW t, NEW said
    PROVE  JobStep(r, job[r].op, t, Answer(r, said))
<1> DEFINE k == Answer(r, said)
<1>1. DOMAIN job[r] = Fields
  BY Worker
<1>2. /\ k.op = job[r].op /\ k.before = job[r].before /\ k.hindered = job[r].hindered
      /\ k.at = "answer" /\ k.out = Dir /\ k.todo = {}
  BY <1>1 DEF Answer, Fields
<1> HIDE DEF k
<1>3. Own(k)
  BY <1>2 DEF Own
<1>4. JobStep(r, job[r].op, t, k)
  BY <1>2, <1>3 DEF JobStep
<1> QED
  BY <1>4 DEF k

LEMMA OkWorks ==
    ASSUME FilesSafe, NEW r \in Requests, job[r].at \notin {"idle", "done"}, Ok(r) \/ Error(r)
    PROVE  Worked(r)
<1>1. PICK said : Step(tree, data, r, Answer(r, said))
  BY DEF Ok, Error
<1>2. JobStep(r, job[r].op, tree, Answer(r, said))
  BY AnswerStep
<1>3. WorkedTo(r, tree, data, Answer(r, said))
  BY <1>1, <1>2, SameTree, SameData DEF WorkedTo, Step
<1> QED
  BY <1>3 DEF Worked

\* A request that only goes on.
LEMMA GoesWorks ==
    ASSUME FilesSafe, NEW r \in Requests, job[r].at \notin {"idle", "done"},
           NEW k, Step(tree, data, r, k), JobStep(r, job[r].op, tree, k)
    PROVE  Worked(r)
<1>1. WorkedTo(r, tree, data, k)
  BY SameTree, SameData DEF WorkedTo, Step
<1> QED
  BY <1>1 DEF Worked

LEMMA CheckTargetWorks == ASSUME FilesSafe, NEW r \in Requests, CheckTarget(r) PROVE Worked(r)
<1> DEFINE op == job[r].op
           k == [job[r] EXCEPT !.at = "mkdir", !.todo = Task(op.path, op.to)]
<1>1. job[r].at = "check" /\ op.kind \in {"rename", "copy"}
  BY DEF CheckTarget, At
<1>2. DOMAIN job[r] = Fields /\ op \in Operations /\ Own(job[r])
  BY <1>1, Worker
<1>3. Step(tree, data, r, k) \/ Error(r)
  BY DEF CheckTarget
<1>4. /\ k.op = op /\ k.before = job[r].before /\ k.hindered = job[r].hindered
      /\ k.at = "mkdir" /\ k.out = job[r].out /\ k.todo = Task(op.path, op.to)
  BY <1>2 DEF Fields
<1>5. On(op, op.path) /\ On(op, op.to) /\ op.path \in Paths /\ op.to \in Paths
  BY <1>1, <1>2, OnItsPaths
<1>6. job[r].out = Dir
  BY <1>1, <1>2 DEF Own
<1> HIDE DEF k, op
<1>7. Own(k)
  <2>1. \A task \in k.todo : /\ task.from \in Paths /\ On(k.op, task.from)
                             /\ task.to \in Paths /\ On(k.op, task.to)
    BY <1>4, <1>5 DEF Task
  <2> QED
    BY <1>4, <1>6, <2>1 DEF Own
<1>8. JobStep(r, job[r].op, tree, k)
  BY <1>4, <1>7 DEF JobStep, op
<1> QED
  BY <1>1, <1>3, <1>8, GoesWorks, OkWorks

LEMMA CheckWorks ==
    ASSUME FilesSafe, NEW r \in Requests, CheckPath(r) \/ CheckFile(r)
    PROVE  Worked(r)
<1>1. job[r].at = "check" /\ job[r].op.kind \in Uploads \cup {"mkdir"} \cup Reads
  BY DEF CheckPath, CheckFile, At, Uploads
<1>2. PICK place \in {"mkdir", "open"} : Goto(r, place) \/ Error(r)
  BY DEF CheckPath, CheckFile
<1>3. DOMAIN job[r] = Fields /\ Own(job[r])
  BY <1>1, Worker
<1> DEFINE k == [job[r] EXCEPT !.at = place]
<1>4. /\ k.op = job[r].op /\ k.before = job[r].before /\ k.hindered = job[r].hindered
      /\ k.at = place /\ k.out = job[r].out /\ k.todo = job[r].todo
  BY <1>3 DEF Fields
<1>5. Goto(r, place) => Step(tree, data, r, k)
  BY DEF Goto
<1> HIDE DEF k
<1>6. Own(k)
  BY <1>1, <1>3, <1>4 DEF Own, Uploads, Reads
<1>7. JobStep(r, job[r].op, tree, k)
  BY <1>4, <1>6 DEF JobStep
<1> QED
  BY <1>1, <1>2, <1>5, <1>7, GoesWorks, OkWorks

LEMMA MakeParentsWorks == ASSUME FilesSafe, NEW r \in Requests, MakeParents(r) PROVE Worked(r)
<1> DEFINE op == job[r].op
           p == CASE op.kind \in {"write", "upload"} -> Parent(op.path)
                  [] op.kind = "mkdir" -> op.path
                  [] op.kind \in {"rename", "copy"} -> Parent(op.to)
           next == CASE op.kind \in {"write", "upload"} -> "open"
                     [] op.kind = "mkdir" -> "attributes"
                     [] op.kind \in {"rename", "copy"} -> op.kind
           k == [job[r] EXCEPT !.at = next]
<1>1. job[r].at = "mkdir" /\ ((CanMkdirAll(p) /\ Step(MkdirAll(p), data, r, k)) \/ Error(r))
  BY DEF MakeParents
<1>2. /\ DOMAIN job[r] = Fields /\ op \in Operations /\ Own(job[r]) /\ JobSound(data, job[r])
  BY <1>1, Worker
<1>3. op.kind \in {"write", "upload", "mkdir", "rename", "copy"}
  BY <1>1, <1>2 DEF JobSound, Uploads
<1>4. p \in Paths /\ \E q \in Paths : On(op, q) /\ IsPrefix(p, q)
  <2>1. op.path \in Paths /\ op.to \in Paths /\ On(op, op.path)
    BY <1>2, <1>3, OnItsPaths
  <2>2. op.kind \in {"rename", "copy"} => On(op, op.to)
    BY <1>2, OnItsPaths
  <2>3. IsPrefix(op.path, op.path)
    BY <2>1, PrefixLaws
  <2> QED
    BY <1>3, <2>1, <2>2, <2>3, ParentIs
<1>5. /\ k.op = op /\ k.before = job[r].before /\ k.hindered = job[r].hindered
      /\ k.at = next /\ k.out = job[r].out /\ k.todo = job[r].todo
  BY <1>2 DEF Fields
<1>6. /\ next \in {"open", "attributes", "rename", "copy"}
      /\ next = "open" => op.kind \in {"write", "upload"}
      /\ next = "attributes" => op.kind = "mkdir"
  BY <1>3
<1> HIDE DEF k, p, next
<1>7. Own(k)
  <2>1. \A task \in k.todo : /\ task.from \in Paths /\ On(k.op, task.from)
                             /\ task.to \in Paths /\ On(k.op, task.to)
    BY <1>2, <1>5 DEF Own
  <2>2. k.out = Dir
    BY <1>1, <1>2, <1>5 DEF Own
  <2> QED
    BY <1>5, <1>6, <2>1, <2>2 DEF Own, Uploads
<1>8. ASSUME CanMkdirAll(p), Step(MkdirAll(p), data, r, k)
      PROVE  Worked(r)
  <2>1. TreeStep(r, op, MkdirAll(p))
    BY <1>4, <1>8, MkdirStep
  <2>2. JobStep(r, op, MkdirAll(p), k)
    BY <1>1, <1>5, <1>6, <1>7 DEF JobStep
  <2>3. op.kind \notin Reads
    BY <1>3 DEF Reads
  <2>4. WorkedTo(r, MkdirAll(p), data, k)
    BY <1>8, <2>1, <2>2, <2>3, SameData DEF WorkedTo, Step
  <2> QED
    BY <2>4 DEF Worked
<1> QED
  BY <1>1, <1>8, OkWorks

LEMMA AnswerWorks ==
    ASSUME FilesSafe, NEW r \in Requests, job[r].at \notin {"idle", "done"}, job[r].op.kind \notin Reads,
           NEW t, NEW d, NEW said, Step(t, d, r, Answer(r, said)),
           TreeStep(r, job[r].op, t), DataStep(r, job[r].op, d)
    PROVE  Worked(r)
<1>1. JobStep(r, job[r].op, t, Answer(r, said))
  BY AnswerStep
<1>2. WorkedTo(r, t, d, Answer(r, said))
  BY <1>1 DEF WorkedTo, Step
<1> QED
  BY <1>2 DEF Worked

LEMMA SetAttributesWorks == ASSUME FilesSafe, NEW r \in Requests, SetAttributes(r) PROVE Worked(r)
<1> DEFINE op == job[r].op
           wanted == IF op.kind = "upload" THEN op.set ELSE op.set \cap {"owner"}
<1>1. job[r].at = "attributes"
  BY DEF SetAttributes
<1>2. op \in Operations /\ op.set \subseteq Attributes /\ Own(job[r])
  BY <1>1, Worker
<1>3. op.kind \notin Reads /\ op.kind # "edit"
  BY <1>1, <1>2 DEF Own, Uploads, Reads
<1>4. op.path \in Paths /\ On(op, op.path)
  BY <1>2, <1>3, OnItsPaths
<1>5. \/ Ok(r)
      \/ \E some \in SUBSET wanted, said \in {"ok", "error"} :
            Step(tree, Changed(op.path, some), r, Answer(r, said))
  BY DEF SetAttributes
<1>6. wanted \subseteq Attributes
  BY <1>2
<1> HIDE DEF wanted
<1>7. ASSUME NEW some \in SUBSET wanted, NEW said, Step(tree, Changed(op.path, some), r, Answer(r, said))
      PROVE  Worked(r)
  <2>1. some \subseteq Attributes
    BY <1>6
  <2>2. DataStep(r, op, Changed(op.path, some))
    BY <1>4, <2>1, ChangedStep
  <2>3. TreeStep(r, op, tree)
    BY SameTree
  <2> QED
    BY <1>1, <1>3, <1>7, <2>2, <2>3, AnswerWorks
<1> QED
  BY <1>1, <1>5, <1>7, OkWorks

LEMMA OpenWorks ==
    ASSUME FilesSafe, NEW r \in Requests, job[r].at \notin {"idle", "done"}, job[r].op.kind \notin Reads,
           NEW p \in Paths, On(job[r].op, p), NEW set, set \subseteq Attributes, NEW inPlace, NEW next,
           OpenAt(r, p, set, inPlace, next),
           DOMAIN next = Fields, next.op = job[r].op, next.before = job[r].before,
           next.hindered = job[r].hindered, next.at = "write", Own(next)
    PROVE  Worked(r)
<1> DEFINE op == job[r].op
<1>1. PICK n, u, e :
          /\ Put(tree, u, p, n) /\ TreeStep(r, op, u) /\ DataStep(r, op, e)
          /\ Step(u, e, r, [next EXCEPT !.out = n])
  BY OpenStep
<1> DEFINE k == [next EXCEPT !.out = n]
<1>2. /\ k.op = op /\ k.before = job[r].before /\ k.hindered = job[r].hindered /\ k.at = "write"
      /\ k.out = n /\ k.todo = next.todo /\ k.source = next.source /\ k.file = next.file
  BY DEF Fields
<1> HIDE DEF k
<1>3. Own(k)
  BY <1>2 DEF Own
<1>4. p \in DOMAIN u /\ u[p] = n
  BY <1>1 DEF Put
<1>5. JobStep(r, op, u, k)
  BY <1>2, <1>3, <1>4 DEF JobStep
<1>6. WorkedTo(r, u, e, k)
  BY <1>1, <1>5 DEF WorkedTo, Step, k
<1> QED
  BY <1>6 DEF Worked

LEMMA OpenTempWorks == ASSUME FilesSafe, NEW r \in Requests, OpenTemp(r) PROVE Worked(r)
<1> DEFINE op == job[r].op
           next == [job[r] EXCEPT !.at = "write"]
<1>1. /\ job[r].at = "open" /\ op.kind \in {"write", "upload"}
      /\ OpenAt(r, Temp(op.path), ModeAtOpen(r), FALSE, next) \/ Error(r)
  BY DEF OpenTemp, At
<1>2. DOMAIN job[r] = Fields /\ op \in Operations /\ Own(job[r]) /\ op.set \subseteq Attributes
  BY <1>1, Worker
<1>3. op.kind \in Uploads /\ op.kind \notin Reads \cup {"edit", "copy"}
  BY <1>1 DEF Uploads, Reads
<1>4. Temp(op.path) \in Paths /\ On(op, Temp(op.path))
  BY <1>2, <1>3, OnItsPaths
<1>5. ModeAtOpen(r) \subseteq Attributes
  BY <1>2 DEF ModeAtOpen
<1>6. /\ DOMAIN next = Fields /\ next.op = op /\ next.before = job[r].before
      /\ next.hindered = job[r].hindered /\ next.at = "write" /\ next.todo = job[r].todo
  BY <1>2 DEF Fields
<1> HIDE DEF next
<1>7. Own(next)
  BY <1>2, <1>3, <1>6 DEF Own
<1>8. ASSUME OpenAt(r, Temp(op.path), ModeAtOpen(r), FALSE, next)
      PROVE  Worked(r)
  BY <1>1, <1>3, <1>4, <1>5, <1>6, <1>7, <1>8, OpenWorks
<1> QED
  BY <1>1, <1>8, OkWorks

LEMMA WriteTempWorks == ASSUME FilesSafe, NEW r \in Requests, WriteTemp(r) PROVE Worked(r)
<1> DEFINE op == job[r].op
           k == [job[r] EXCEPT !.at = "place", !.out = Dir]
<1>1. /\ job[r].at = "write" /\ op.kind \in {"write", "upload"}
      /\ \/ \E d \in WrittenTo(job[r].out, Content(r, <<>>)) : Step(tree, d, r, k)
         \/ Error(r)
         \/ Step(Without(Temp(op.path)), data, r, Answer(r, "error"))
  BY DEF WriteTemp, At
<1>2. DOMAIN job[r] = Fields /\ op \in Operations /\ Own(job[r])
  BY <1>1, Worker
<1>3. op.kind \in Uploads /\ op.kind \notin Reads \cup {"edit", "copy"}
  BY <1>1 DEF Uploads, Reads
<1>4. Temp(op.path) \in Area(r, op)
  BY <1>2, <1>3, OnItsPaths, OnIsInArea
<1>5. TreeStep(r, op, Without(Temp(op.path))) /\ DataStep(r, op, data)
  BY <1>4, WithoutStep, SameData
<1>6. /\ k.op = op /\ k.before = job[r].before /\ k.hindered = job[r].hindered
      /\ k.at = "place" /\ k.out = Dir /\ k.todo = job[r].todo
  BY <1>2 DEF Fields
<1> HIDE DEF k
<1>7. Own(k)
  BY <1>2, <1>6 DEF Own
<1>8. ASSUME NEW d \in WrittenTo(job[r].out, Content(r, <<>>)), Step(tree, d, r, k)
      PROVE  Worked(r)
  <2>1. JobStep(r, op, tree, k)
    BY <1>6, <1>7 DEF JobStep
  <2>2. DataStep(r, op, d)
    BY <1>1, <1>8, WrittenStep
  <2>3. WorkedTo(r, tree, d, k)
    BY <1>3, <1>8, <2>1, <2>2, SameTree DEF WorkedTo, Step
  <2> QED
    BY <2>3 DEF Worked
<1> QED
  BY <1>1, <1>3, <1>5, <1>8, OkWorks, AnswerWorks

LEMMA PlaceWorks == ASSUME FilesSafe, NEW r \in Requests, Place(r) PROVE Worked(r)
<1> DEFINE op == job[r].op
           p == op.path
           k == [job[r] EXCEPT !.at = "attributes"]
<1>1. /\ job[r].at = "place" /\ op.kind \in {"write", "upload"}
      /\ \/ /\ CanRename(Temp(p), p)
            /\ Step(Moving(Temp(p), p), Exposed(r, Temp(p)), r, k)
         \/ Step(Without(Temp(p)), data, r, Answer(r, "error"))
  BY DEF Place, At
<1>2. DOMAIN job[r] = Fields /\ op \in Operations /\ Own(job[r])
  BY <1>1, Worker
<1>3. op.kind \in Uploads /\ op.kind \notin Reads \cup {"edit"}
  BY <1>1 DEF Uploads, Reads
<1>4. p \in Paths /\ On(op, p) /\ Temp(p) \in Paths /\ On(op, Temp(p)) /\ Temp(p) \in Area(r, op)
  BY <1>2, <1>3, OnItsPaths, OnIsInArea
<1>5. TreeStep(r, op, Without(Temp(p))) /\ DataStep(r, op, data)
  BY <1>4, WithoutStep, SameData
<1>6. /\ k.op = op /\ k.before = job[r].before /\ k.hindered = job[r].hindered
      /\ k.at = "attributes" /\ k.out = job[r].out /\ k.todo = job[r].todo
  BY <1>2 DEF Fields
<1> HIDE DEF k
<1>7. Own(k)
  BY <1>1, <1>2, <1>3, <1>6 DEF Own
<1>8. ASSUME CanRename(Temp(p), p), Step(Moving(Temp(p), p), Exposed(r, Temp(p)), r, k)
      PROVE  Worked(r)
  <2>1. JobStep(r, op, Moving(Temp(p), p), k)
    BY <1>6, <1>7 DEF JobStep
  <2>2. TreeStep(r, op, Moving(Temp(p), p))
    BY <1>2, <1>4, <1>8, MoveStep
  <2>3. DataStep(r, op, Exposed(r, Temp(p)))
    BY <1>4, ExposedStep
  <2>4. WorkedTo(r, Moving(Temp(p), p), Exposed(r, Temp(p)), k)
    BY <1>3, <1>8, <2>1, <2>2, <2>3 DEF WorkedTo, Step
  <2> QED
    BY <2>4 DEF Worked
<1> QED
  BY <1>1, <1>3, <1>5, <1>8, AnswerWorks

LEMMA DeleteWorks == ASSUME FilesSafe, NEW r \in Requests, Delete(r) PROVE Worked(r)
<1> DEFINE op == job[r].op
           p == op.path
<1>1. job[r].at = "check" /\ op.kind = "delete"
  BY DEF Delete, At
<1>2. op \in Operations /\ op.kind \notin Reads \cup {"edit"}
  BY <1>1, Worker DEF Reads
<1>3. p \in Paths /\ On(op, p)
  BY <1>2, OnItsPaths
<1>4. \A q \in Under(p) : q \in Paths /\ q \in DOMAIN tree /\ IsPrefix(p, q) /\ q \in Area(r, op)
  <2>1. \A q \in Under(p) : q \in Paths /\ q \in DOMAIN tree /\ IsPrefix(p, q)
    BY SafePaths DEF Under
  <2> QED
    BY <1>2, <1>3, <2>1, OnItsPaths, OnIsInArea
<1>5. ASSUME NEW kept \in SUBSET Under(p), \A q \in Under(p) : (\E s \in kept : IsPrefix(q, s)) => q \in kept
      PROVE  TreeStep(r, op, Restrict(tree, (DOMAIN tree \ Under(p)) \cup kept))
  <2> DEFINE S == (DOMAIN tree \ Under(p)) \cup kept
  <2>1. S \in SUBSET DOMAIN tree /\ \A q \in DOMAIN tree \ S : q \in Area(r, op)
    BY <1>4
  <2>2. ASSUME NEW s \in S, NEW q \in Paths, IsPrefix(q, s)
        PROVE  q \in S
    <3>1. s \in DOMAIN tree /\ s \in Paths
      BY <2>1, SafePaths
    <3>2. q \in DOMAIN tree
      BY <2>2, <3>1 DEF FilesSafe, Closed
    <3>3. CASE q \in Under(p)
      <4>1. IsPrefix(p, s)
        BY <1>3, <1>4, <2>2, <3>1, <3>3, PrefixLaws
      <4>2. s \in kept
        BY <3>1, <4>1 DEF Under
      <4> QED
        BY <1>5, <2>2, <3>3, <4>2
    <3> QED
      BY <3>2, <3>3
  <2> HIDE DEF S
  <2>3. TreeStep(r, op, Restrict(tree, S))
    BY <2>1, <2>2, RemoveStep
  <2> QED
    BY <2>3 DEF S
<1>6. TreeStep(r, op, Restrict(tree, DOMAIN tree \ Under(p)))
  <2>1. {} \in SUBSET Under(p) /\ (DOMAIN tree \ Under(p)) \cup {} = DOMAIN tree \ Under(p)
    OBVIOUS
  <2> QED
    BY <1>5, <2>1
<1>7. DataStep(r, op, data)
  BY SameData
<1>8. \/ Ok(r) \/ Error(r)
      \/ Step(Restrict(tree, DOMAIN tree \ Under(p)), data, r, Answer(r, "ok"))
      \/ \E kept \in SUBSET Under(p) :
            /\ \A q \in Under(p) : (\E s \in kept : IsPrefix(q, s)) => q \in kept
            /\ Step(Restrict(tree, (DOMAIN tree \ Under(p)) \cup kept), data, r, Answer(r, "error"))
  BY DEF Delete
<1>9. ASSUME NEW t, NEW said, TreeStep(r, op, t), Step(t, data, r, Answer(r, said))
      PROVE  Worked(r)
  BY <1>1, <1>2, <1>7, <1>9, AnswerWorks
<1>10. ASSUME NEW kept \in SUBSET Under(p),
              \A q \in Under(p) : (\E s \in kept : IsPrefix(q, s)) => q \in kept,
              Step(Restrict(tree, (DOMAIN tree \ Under(p)) \cup kept), data, r, Answer(r, "error"))
       PROVE  Worked(r)
  <2>1. TreeStep(r, op, Restrict(tree, (DOMAIN tree \ Under(p)) \cup kept))
    BY <1>5, <1>10
  <2> QED
    BY <1>9, <1>10, <2>1
<1> QED
  BY <1>1, <1>6, <1>8, <1>9, <1>10, OkWorks

LEMMA RenameWorks == ASSUME FilesSafe, NEW r \in Requests, Rename(r) PROVE Worked(r)
<1> DEFINE op == job[r].op
<1>1. /\ job[r].at = "rename" /\ op.kind = "rename"
      /\ \/ /\ CanRename(op.path, op.to)
            /\ Step(Moving(op.path, op.to), data, r, Answer(r, "ok"))
         \/ Error(r)
  BY DEF Rename, At
<1>2. op \in Operations /\ op.kind \notin Reads \cup {"edit"}
  BY <1>1, Worker DEF Reads
<1>3. op.path \in Paths /\ op.to \in Paths /\ On(op, op.path) /\ On(op, op.to)
  BY <1>1, <1>2, OnItsPaths
<1>4. CanRename(op.path, op.to) => TreeStep(r, op, Moving(op.path, op.to))
  BY <1>2, <1>3, MoveStep
<1> QED
  BY <1>1, <1>2, <1>4, SameData, AnswerWorks, OkWorks

\* The last name of a path, put behind another.
LEMMA LastBehind ==
    ASSUME NEW p \in Paths, NEW q \in Paths, NEW y \in Paths, IsPrefix(p, q), Len(q) = Len(p) + 1
    PROVE  Append(y, Last(q)) = y \o Beneath(q, p) /\ Beneath(q, p) \in Paths
<1> DEFINE b == Beneath(q, p)
<1>1. Len(p) \in Nat /\ Len(q) \in Nat /\ Len(y) \in Nat
  BY PrefixLaws
<1>2. b \in Paths /\ q = p \o b
  BY PrefixAndRest
<1> HIDE DEF b
<1>3. /\ Len(b) = 1
      /\ q[Len(q)] = b[1]
  <2> DEFINE c == p \o b
  <2>1. Len(c) = Len(p) + Len(b) /\ Len(b) \in Nat
    BY <1>2, Behind, PrefixLaws
  <2>2. \A i \in 1 .. Len(p) + Len(b) : c[i] = IF i <= Len(p) THEN p[i] ELSE b[i - Len(p)]
    BY <1>2, ConcatProperties DEF Paths
  <2>3. q = c
    BY <1>2
  <2> HIDE DEF c
  <2>4. Len(b) = 1
    <3>1. Len(c) = Len(p) + 1
      BY <2>3
    <3>2. \A i, j, k \in Nat : k = i + j /\ k = i + 1 => j = 1
      OBVIOUS
    <3>3. Len(p) \in Nat /\ Len(b) \in Nat /\ Len(c) \in Nat
      BY <1>1, <2>1, <2>3
    <3> QED
      BY <2>1, <3>1, <3>2, <3>3
  <2>5. c[Len(p) + 1] = b[Len(p) + 1 - Len(p)] /\ Len(p) + 1 - Len(p) = 1
    BY <1>1, <2>2, <2>4
  <2> QED
    BY <2>3, <2>4, <2>5
<1>4. Last(q) = b[1] /\ b[1] \in FileNames
  <2>1. 1 \in 1..Len(b)
    BY <1>3
  <2>2. b[1] \in FileNames
    BY <1>2, <2>1, ElementOfSeq DEF Paths
  <2> QED
    BY <1>3, <2>2 DEF Last
<1> DEFINE s == Append(y, Last(q))
<1>5. /\ s \in Paths /\ Len(s) = Len(y) + 1 /\ s[Len(y) + 1] = b[1]
      /\ \A i \in 1..Len(y) : s[i] = y[i]
  BY <1>4, AppendProperties DEF Paths
<1>6. /\ y \o b \in Paths /\ Len(y \o b) = Len(y) + 1
      /\ \A i \in 1..(Len(y) + 1) : (y \o b)[i] = IF i <= Len(y) THEN y[i] ELSE b[i - Len(y)]
  BY <1>2, <1>3, ConcatProperties DEF Paths
<1> HIDE DEF s
<1>7. s = y \o b
  <2>1. \A i \in 1..Len(s) : i \in 1..Len(y) \/ i = Len(y) + 1
    BY <1>1, <1>5
  <2>2. \A i \in 1..Len(y) : s[i] = (y \o b)[i]
    BY <1>1, <1>5, <1>6
  <2>3. (y \o b)[Len(y) + 1] = b[1]
    <3>1. Len(y) + 1 \in 1..(Len(y) + 1) /\ ~(Len(y) + 1 <= Len(y)) /\ Len(y) + 1 - Len(y) = 1
      BY <1>1
    <3> QED
      BY <1>6, <3>1
  <2> QED
    BY <1>5, <1>6, <2>1, <2>2, <2>3, SeqEqual DEF Paths
<1> QED
  BY <1>2, <1>7 DEF s, b

LEMMA CopyDirectoryWorks == ASSUME FilesSafe, NEW r \in Requests, copyDirectory(r) PROVE Worked(r)
<1> DEFINE op == job[r].op
<1>1. job[r].at = "copy"
  BY DEF copyDirectory
<1>2. DOMAIN job[r] = Fields /\ op \in Operations /\ Own(job[r]) /\ op.kind = "copy"
  BY <1>1, Worker DEF JobSound
<1>3. op.kind \notin Reads
  BY <1>2 DEF Reads
<1>4. PICK t \in job[r].todo :
          \/ /\ CanMkdirAll(t.to) /\ IsDir(t.from)
             /\ Step(MkdirAll(t.to), data, r,
                     [job[r] EXCEPT !.todo = (@ \ {t}) \cup
                          { [from |-> q, to |-> Append(t.to, Last(q)),
                             isDir |-> MkdirAll(t.to)[q] = Dir] :
                               q \in { q \in DOMAIN MkdirAll(t.to) :
                                         Len(q) = Len(t.from) + 1 /\ IsPrefix(t.from, q) } }])
          \/ Error(r)
          \/ CanMkdirAll(t.to) /\ Step(MkdirAll(t.to), data, r, Answer(r, "error"))
  BY DEF copyDirectory, Error
<1>5. t.from \in Paths /\ On(op, t.from) /\ t.to \in Paths /\ On(op, t.to) /\ IsPrefix(t.to, t.to)
  BY <1>2, <1>4, PrefixLaws DEF Own
<1>6. CanMkdirAll(t.to) => TreeStep(r, op, MkdirAll(t.to))
  BY <1>5, MkdirStep
<1>7. DataStep(r, op, data)
  BY SameData
<1> DEFINE listed == { q \in DOMAIN MkdirAll(t.to) :
                           Len(q) = Len(t.from) + 1 /\ IsPrefix(t.from, q) }
           new == { [from |-> q, to |-> Append(t.to, Last(q)),
                     isDir |-> MkdirAll(t.to)[q] = Dir] : q \in listed }
           k == [job[r] EXCEPT !.todo = (@ \ {t}) \cup new]
<1>8. ASSUME CanMkdirAll(t.to), Step(MkdirAll(t.to), data, r, k)
      PROVE  Worked(r)
  <2>1. ASSUME NEW q \in listed
        PROVE  /\ q \in Paths /\ On(op, q)
               /\ Append(t.to, Last(q)) \in Paths /\ On(op, Append(t.to, Last(q)))
    <3>1. q \in Paths /\ IsPrefix(t.from, q) /\ Len(q) = Len(t.from) + 1
      BY <1>5, <2>1, MkdirAllIs, SafePaths
    <3>2. Append(t.to, Last(q)) = t.to \o Beneath(q, t.from) /\ Beneath(q, t.from) \in Paths
      BY <1>5, <3>1, LastBehind
    <3>3. t.to \o Beneath(q, t.from) \in Paths /\ IsPrefix(t.to, t.to \o Beneath(q, t.from))
      BY <1>5, <3>2, Behind
    <3> QED
      BY <1>2, <1>5, <3>1, <3>2, <3>3, OnItsPaths
  <2> HIDE DEF listed
  <2>2. ASSUME NEW task \in new
        PROVE  /\ task.from \in Paths /\ On(op, task.from)
               /\ task.to \in Paths /\ On(op, task.to)
    <3>1. PICK q \in listed : task = [from |-> q, to |-> Append(t.to, Last(q)),
                                      isDir |-> MkdirAll(t.to)[q] = Dir]
      BY <2>2
    <3>2. task.from = q /\ task.to = Append(t.to, Last(q))
      BY <3>1
    <3> QED
      BY <2>1, <3>2
  <2> HIDE DEF new
  <2>3. /\ k.op = op /\ k.before = job[r].before /\ k.hindered = job[r].hindered
        /\ k.at = "copy" /\ k.out = job[r].out /\ k.todo = (job[r].todo \ {t}) \cup new
    BY <1>1, <1>2 DEF Fields
  <2> HIDE DEF k
  <2>4. Own(k)
    <3>1. k.out = Dir
      BY <1>1, <1>2, <2>3 DEF Own
    <3>2. \A task \in k.todo : /\ task.from \in Paths /\ On(k.op, task.from)
                               /\ task.to \in Paths /\ On(k.op, task.to)
      BY <1>2, <2>2, <2>3 DEF Own
    <3> QED
      BY <2>3, <3>1, <3>2 DEF Own
  <2>5. JobStep(r, op, MkdirAll(t.to), k)
    BY <2>3, <2>4 DEF JobStep
  <2>6. WorkedTo(r, MkdirAll(t.to), data, k)
    BY <1>3, <1>6, <1>7, <1>8, <2>5 DEF WorkedTo, Step
  <2> QED
    BY <2>6 DEF Worked
<1> QED
  BY <1>1, <1>3, <1>4, <1>6, <1>7, <1>8, OkWorks, AnswerWorks

LEMMA CopyFileWorks == ASSUME FilesSafe, NEW r \in Requests, copyFile(r) PROVE Worked(r)
<1> DEFINE op == job[r].op
<1>1. job[r].at = "copy"
  BY DEF copyFile
<1>2. DOMAIN job[r] = Fields /\ op \in Operations /\ Own(job[r]) /\ op.kind = "copy"
  BY <1>1, Worker DEF JobSound
<1>3. op.kind \notin Reads
  BY <1>2 DEF Reads
<1>4. PICK t \in job[r].todo :
          \/ /\ t.from \in DOMAIN tree
             /\ OpenAt(r, t.to, {}, TRUE,
                       [job[r] EXCEPT !.at = "write", !.in = tree[t.from], !.todo = @ \ {t},
                                      !.source = t.from, !.file = t.to])
          \/ Error(r)
  BY DEF copyFile
<1> DEFINE next == [job[r] EXCEPT !.at = "write", !.in = tree[t.from], !.todo = @ \ {t},
                                  !.source = t.from, !.file = t.to]
<1>5. t.from \in Paths /\ On(op, t.from) /\ t.to \in Paths /\ On(op, t.to)
  BY <1>2, <1>4 DEF Own
<1>6. /\ DOMAIN next = Fields /\ next.op = op /\ next.before = job[r].before
      /\ next.hindered = job[r].hindered /\ next.at = "write" /\ next.todo = job[r].todo \ {t}
      /\ next.source = t.from /\ next.file = t.to
  BY <1>2 DEF Fields
<1> HIDE DEF next
<1>7. Own(next)
  BY <1>2, <1>3, <1>5, <1>6 DEF Own
<1>8. ASSUME OpenAt(r, t.to, {}, TRUE, next)
      PROVE  Worked(r)
  <2>1. {} \subseteq Attributes
    OBVIOUS
  <2> QED
    BY <1>1, <1>3, <1>5, <1>6, <1>7, <1>8, <2>1, OpenWorks
<1> QED
  BY <1>1, <1>4, <1>8, OkWorks DEF next

LEMMA CopiedWorks == ASSUME FilesSafe, NEW r \in Requests, Copied(r) PROVE Worked(r)
<1> DEFINE op == job[r].op
           k == More(r)
<1>1. /\ job[r].at = "write" /\ op.kind = "copy"
      /\ \/ \E d \in WrittenTo(job[r].out, data[job[r].in].content) : Step(tree, d, r, k)
         \/ Error(r)
  BY DEF Copied, At
<1>2. DOMAIN job[r] = Fields /\ op \in Operations /\ Own(job[r])
  BY <1>1, Worker
<1>3. op.kind \notin Reads
  BY <1>1 DEF Reads
<1>4. /\ k.op = op /\ k.before = job[r].before /\ k.hindered = job[r].hindered /\ k.at = "mode"
      /\ k.out = Dir /\ k.todo = job[r].todo /\ k.source = job[r].source /\ k.file = job[r].file
  BY <1>2 DEF Fields, More
<1> HIDE DEF k
<1>5. Own(k)
  BY <1>1, <1>2, <1>4 DEF Own
<1>6. JobStep(r, op, tree, k)
  BY <1>4, <1>5 DEF JobStep
<1>7. ASSUME NEW d \in WrittenTo(job[r].out, data[job[r].in].content), Step(tree, d, r, k)
      PROVE  Worked(r)
  <2>1. DataStep(r, op, d)
    BY <1>1, <1>7, WrittenStep
  <2>2. WorkedTo(r, tree, d, k)
    BY <1>3, <1>6, <1>7, <2>1, SameTree DEF WorkedTo, Step
  <2> QED
    BY <2>2 DEF Worked
<1> QED
  BY <1>1, <1>7, OkWorks

\* What CopyMode makes of the files.
WithMode(p, q) ==
    IF IsFile(q)
    THEN [data EXCEPT ![tree[q]].set = (@ \ {"mode"}) \cup (SetOf(p) \cap {"mode"})]
    ELSE data

LEMMA WithModeIs ==
    ASSUME FilesSafe, NEW p, NEW q
    PROVE  /\ DOMAIN WithMode(p, q) = DOMAIN data
           /\ \A n \in DOMAIN data :
                 IF IsFile(q) /\ n = tree[q]
                 THEN /\ WithMode(p, q)[n].set = (data[n].set \ {"mode"}) \cup (SetOf(p) \cap {"mode"})
                      /\ WithMode(p, q)[n].content = data[n].content
                 ELSE WithMode(p, q)[n] = data[n]
<1>1. CASE IsFile(q)
  <2> DEFINE n == tree[q]
             set == (data[n].set \ {"mode"}) \cup (SetOf(p) \cap {"mode"})
             e == [data EXCEPT ![n].set = set]
  <2>1. n \in DOMAIN data /\ DOMAIN data[n] = FileFields
    BY <1>1, SafePaths DEF IsFile
  <2>2. WithMode(p, q) = e
    BY <1>1 DEF WithMode
  <2>3. set = (data[n].set \ {"mode"}) \cup (SetOf(p) \cap {"mode"})
    OBVIOUS
  <2> HIDE DEF set
  <2>4. /\ DOMAIN e = DOMAIN data /\ \A m \in DOMAIN data \ {n} : e[m] = data[m]
        /\ e[n].content = data[n].content /\ e[n].set = set
    BY <2>1 DEF FileFields
  <2> HIDE DEF e
  <2> QED
    BY <1>1, <2>2, <2>3, <2>4
<1>2. CASE ~IsFile(q)
  BY <1>2 DEF WithMode
<1> QED
  BY <1>1, <1>2

LEMMA CopyModeWorks == ASSUME FilesSafe, NEW r \in Requests, CopyMode(r) PROVE Worked(r)
<1> DEFINE op == job[r].op
           p == job[r].source
           q == job[r].file
           k == [job[r] EXCEPT !.at = "copy", !.source = <<>>, !.file = <<>>]
           e == WithMode(p, q)
<1>1. /\ job[r].at = "mode"
      /\ (p \in DOMAIN tree /\ Step(tree, e, r, k)) \/ Error(r)
  BY DEF CopyMode, WithMode
<1>2. DOMAIN job[r] = Fields /\ op \in Operations /\ Own(job[r]) /\ op.kind = "copy"
  BY <1>1, Worker DEF JobSound
<1>3. op.kind \notin Reads
  BY <1>2 DEF Reads
<1>4. q \in Paths /\ On(op, q) /\ q \in Area(r, op)
  BY <1>1, <1>2, OnIsInArea DEF Own
<1>5. /\ k.op = op /\ k.before = job[r].before /\ k.hindered = job[r].hindered /\ k.at = "copy"
      /\ k.out = job[r].out /\ k.todo = job[r].todo
  BY <1>2 DEF Fields
<1>6. /\ DOMAIN e = DOMAIN data
      /\ \A n \in DOMAIN data :
            IF IsFile(q) /\ n = tree[q]
            THEN e[n].set = (data[n].set \ {"mode"}) \cup (SetOf(p) \cap {"mode"})
            ELSE e[n] = data[n]
  BY WithModeIs
<1> HIDE DEF k, e
<1>7. Own(k)
  BY <1>1, <1>2, <1>5 DEF Own
<1>8. JobStep(r, op, tree, k)
  BY <1>5, <1>7 DEF JobStep
<1>9. DataStep(r, op, e)
  <2>1. SetsIn(e)
    <3>1. \A n \in DOMAIN data : (data[n].set \ {"mode"}) \cup (SetOf(p) \cap {"mode"}) \subseteq Attributes
      BY DEF FilesSafe, SetsIn, Attributes
    <3> QED
      BY <1>6, <3>1 DEF FilesSafe, SetsIn
  <2>2. Untouched(Area(r, op), tree, job[r].out, data, e)
    BY <1>4, <1>6 DEF Untouched, IsFile
  <2> QED
    BY <2>1, <2>2 DEF DataStep
<1>10. ASSUME Step(tree, e, r, k) PROVE Worked(r)
  <2>1. WorkedTo(r, tree, e, k)
    BY <1>3, <1>8, <1>9, <1>10, SameTree DEF WorkedTo, Step
  <2> QED
    BY <2>1 DEF Worked
<1> QED
  BY <1>1, <1>10, OkWorks

LEMMA EndsWork ==
    ASSUME FilesSafe, NEW r \in Requests, CopyEnds(r) \/ WalkEnds(r)
    PROVE  Worked(r)
<1>1. job[r].at \in {"copy", "walk"} /\ Ok(r)
  BY DEF CopyEnds, WalkEnds
<1> QED
  BY <1>1, OkWorks

LEMMA CheckAttributesWorks ==
    ASSUME FilesSafe, NEW r \in Requests, CheckAttributes(r)
    PROVE  Worked(r)
<1> DEFINE op == job[r].op
           p == op.path
           k == [job[r] EXCEPT !.at = "walk", !.todo = Task(p, p)]
<1>1. /\ job[r].at = "check" /\ op.kind \in {"chmod", "chown"}
      /\ Step(tree, data, r, k) \/ Error(r)
  BY DEF CheckAttributes, At
<1>2. DOMAIN job[r] = Fields /\ op \in Operations /\ Own(job[r])
  BY <1>1, Worker
<1>3. p \in Paths /\ On(op, p)
  BY <1>1, <1>2, OnItsPaths
<1>4. /\ k.op = op /\ k.before = job[r].before /\ k.hindered = job[r].hindered /\ k.at = "walk"
      /\ k.out = job[r].out /\ k.todo = Task(p, p)
  BY <1>2 DEF Fields
<1> HIDE DEF k
<1>5. Own(k)
  <2>1. \A task \in k.todo : /\ task.from \in Paths /\ On(k.op, task.from)
                             /\ task.to \in Paths /\ On(k.op, task.to)
    BY <1>3, <1>4 DEF Task
  <2>2. k.out = Dir
    BY <1>1, <1>2, <1>4 DEF Own
  <2> QED
    BY <1>1, <1>4, <2>1, <2>2 DEF Own
<1>6. JobStep(r, op, tree, k)
  BY <1>4, <1>5 DEF JobStep
<1> QED
  BY <1>1, <1>6, GoesWorks, OkWorks

LEMMA ChangeNextWorks == ASSUME FilesSafe, NEW r \in Requests, ChangeNext(r) PROVE Worked(r)
<1> DEFINE op == job[r].op
           attribute == IF op.kind = "chmod" THEN "mode" ELSE "owner"
           below(t) == UNION { Task(q, q) : q \in Children(t.from) }
           k(t) == [job[r] EXCEPT !.todo = (@ \ {t}) \cup below(t)]
<1>1. job[r].at = "walk"
  BY DEF ChangeNext
<1>2. DOMAIN job[r] = Fields /\ op \in Operations /\ Own(job[r])
  BY <1>1, Worker
<1>3. op.kind \in {"chmod", "chown"} /\ op.kind \notin Reads
  BY <1>1, <1>2 DEF Own, Reads
<1>4. PICK t \in job[r].todo : Step(tree, Changed(t.from, {attribute}), r, k(t)) \/ Error(r)
  BY DEF ChangeNext
<1>5. t.from \in Paths /\ On(op, t.from)
  BY <1>2, <1>4 DEF Own
<1>6. ASSUME NEW q \in Children(t.from)
      PROVE  q \in Paths /\ On(op, q)
  <2>1. q \in Paths /\ IsPrefix(t.from, q)
    BY SafePaths DEF Children
  <2> QED
    BY <1>2, <1>5, <2>1, OnItsPaths
<1>7. /\ k(t).op = op /\ k(t).before = job[r].before /\ k(t).hindered = job[r].hindered
      /\ k(t).at = "walk" /\ k(t).out = job[r].out /\ k(t).todo = (job[r].todo \ {t}) \cup below(t)
  BY <1>1, <1>2 DEF Fields
<1>8. \A task \in below(t) : /\ task.from \in Paths /\ On(op, task.from)
                             /\ task.to \in Paths /\ On(op, task.to)
  BY <1>6 DEF Task
<1> HIDE DEF k, below
<1>9. Own(k(t))
  <2>1. \A task \in k(t).todo : /\ task.from \in Paths /\ On(k(t).op, task.from)
                                /\ task.to \in Paths /\ On(k(t).op, task.to)
    BY <1>2, <1>7, <1>8 DEF Own
  <2>2. k(t).out = Dir
    BY <1>1, <1>2, <1>7 DEF Own
  <2> QED
    BY <1>3, <1>7, <2>1, <2>2 DEF Own
<1>10. JobStep(r, op, tree, k(t))
  BY <1>7, <1>9 DEF JobStep
<1>11. DataStep(r, op, Changed(t.from, {attribute}))
  <2>1. {attribute} \subseteq Attributes
    BY DEF Attributes
  <2> QED
    BY <1>5, <2>1, ChangedStep
<1>12. ASSUME Step(tree, Changed(t.from, {attribute}), r, k(t)) PROVE Worked(r)
  <2>1. WorkedTo(r, tree, Changed(t.from, {attribute}), k(t))
    BY <1>3, <1>10, <1>11, <1>12, SameTree DEF WorkedTo, Step
  <2> QED
    BY <2>1 DEF Worked
<1> QED
  BY <1>1, <1>4, <1>12, OkWorks

LEMMA OpenToReadWorks == ASSUME FilesSafe, NEW r \in Requests, OpenToRead(r) PROVE Worked(r)
<1> DEFINE p == job[r].op.path
           next == IF job[r].op.kind = "read" THEN "read" ELSE "answer"
           k == [job[r] EXCEPT !.at = next, !.result = "ok", !.in = tree[p], !.edited = Look(p)]
<1>1. /\ job[r].at = "open" /\ job[r].op.kind \in Reads
      /\ Step(tree, data, r, k) \/ Error(r)
  BY DEF OpenToRead, At
<1>2. DOMAIN job[r] = Fields /\ Own(job[r])
  BY <1>1, Worker
<1>3. /\ k.op = job[r].op /\ k.before = job[r].before /\ k.hindered = job[r].hindered /\ k.at = next
      /\ k.out = job[r].out /\ k.todo = job[r].todo
  BY <1>2 DEF Fields
<1>4. next \in {"read", "answer"}
  OBVIOUS
<1> HIDE DEF k, next
<1>5. Own(k)
  BY <1>1, <1>2, <1>3, <1>4 DEF Own, Reads
<1>6. JobStep(r, job[r].op, tree, k)
  BY <1>3, <1>4, <1>5 DEF JobStep
<1> QED
  BY <1>1, <1>6, GoesWorks, OkWorks

LEMMA ReadContentWorks == ASSUME FilesSafe, NEW r \in Requests, ReadContent(r) PROVE Worked(r)
<1> DEFINE next == IF job[r].at = "read" THEN "answer" ELSE "sent"
           k(content) == [job[r] EXCEPT !.at = next, !.edited = content]
<1>1. job[r].at \in {"read", "stream"}
  BY DEF ReadContent
<1>2. DOMAIN job[r] = Fields /\ Own(job[r])
  BY <1>1, Worker
<1>3. job[r].op.kind \in Reads
  BY <1>1, <1>2 DEF Own
<1>4. PICK content : Step(tree, data, r, k(content))
  <2>1. PICK content : Step(tree, data, r,
                            [job[r] EXCEPT !.at = IF @ = "read" THEN "answer" ELSE "sent",
                                           !.edited = content])
    BY DEF ReadContent
  <2>2. [job[r] EXCEPT !.at = IF @ = "read" THEN "answer" ELSE "sent", !.edited = content]
            = k(content)
    OBVIOUS
  <2> QED
    BY <2>1, <2>2
<1>5. /\ k(content).op = job[r].op /\ k(content).before = job[r].before
      /\ k(content).hindered = job[r].hindered /\ k(content).at = next
      /\ k(content).out = job[r].out /\ k(content).todo = job[r].todo
  BY <1>2 DEF Fields
<1>6. next \in {"sent", "answer"}
  OBVIOUS
<1> HIDE DEF k, next
<1>7. Own(k(content))
  BY <1>1, <1>2, <1>3, <1>5, <1>6 DEF Own, Reads
<1>8. JobStep(r, job[r].op, tree, k(content))
  BY <1>5, <1>6, <1>7 DEF JobStep
<1> QED
  BY <1>1, <1>4, <1>8, GoesWorks

LEMMA EndedIs ==
    /\ Ended.at = "done" /\ Ended.op = Nothing /\ Ended.in = Dir /\ Ended.out = Dir /\ Ended.todo = {}
    /\ Own(Ended)
<1>1. Ended.at = "done" /\ Ended.op = Nothing /\ Ended.in = Dir /\ Ended.out = Dir /\ Ended.todo = {}
  BY DEF Ended, Idle
<1> QED
  BY <1>1 DEF Own

LEMMA RespondWorks ==
    ASSUME FilesSafe, NEW r \in Requests, Respond(r) \/ ReadFails(r)
    PROVE  Worked(r)
<1> DEFINE k == [job[r] EXCEPT !.at = "stream"]
<1>1. /\ job[r].at \in {"answer", "read", "stream", "sent"}
      /\ \/ Error(r)
         \/ job[r].op.kind = "download" /\ job[r].at = "answer" /\ Become(tree, data, [job EXCEPT ![r] = k])
         \/ Become(tree, data, [job EXCEPT ![r] = Ended])
  BY DEF Respond, ReadFails, Step
<1>2. DOMAIN job[r] = Fields /\ Own(job[r])
  BY <1>1, Worker
<1>3. /\ k.op = job[r].op /\ k.before = job[r].before /\ k.hindered = job[r].hindered /\ k.at = "stream"
      /\ k.out = job[r].out /\ k.todo = job[r].todo
  BY <1>2 DEF Fields
<1> HIDE DEF k
<1>4. ASSUME job[r].op.kind = "download", job[r].at = "answer", Become(tree, data, [job EXCEPT ![r] = k])
      PROVE  Worked(r)
  <2>1. Own(k)
    BY <1>2, <1>3, <1>4 DEF Own, Reads
  <2>2. JobStep(r, job[r].op, tree, k)
    BY <1>3, <2>1 DEF JobStep
  <2>3. WorkedTo(r, tree, data, k)
    BY <1>4, <2>2, SameTree, SameData DEF WorkedTo
  <2> QED
    BY <2>3 DEF Worked
<1>5. ASSUME Become(tree, data, [job EXCEPT ![r] = Ended])
      PROVE  Worked(r)
  <2>1. JobStep(r, job[r].op, tree, Ended)
    BY EndedIs DEF JobStep
  <2>2. WorkedTo(r, tree, data, Ended)
    BY <1>5, <2>1, SameTree, SameData DEF WorkedTo
  <2> QED
    BY <2>2 DEF Worked
<1> QED
  BY <1>1, <1>4, <1>5, OkWorks
--------------------------------------------------------------------------------

LEMMA ComposeFileIs ==
    ASSUME Candidates # {}
    PROVE  \E k \in DOMAIN ComposeFiles : ComposeFile = ComposeFiles[k]
<1>1. DOMAIN ComposeFiles = 1..4
  BY DEF ComposeFiles
<1>2. Candidates \subseteq 1..4
  BY <1>1 DEF Candidates
<1>3. \E k \in Candidates : \A m \in Candidates : k <= m
  <2>1. CASE 1 \in Candidates
    BY <1>2, <2>1
  <2>2. CASE 1 \notin Candidates /\ 2 \in Candidates
    BY <1>2, <2>2
  <2>3. CASE 1 \notin Candidates /\ 2 \notin Candidates /\ 3 \in Candidates
    BY <1>2, <2>3
  <2>4. CASE 1 \notin Candidates /\ 2 \notin Candidates /\ 3 \notin Candidates
    <3>1. PICK k : k \in Candidates
      OBVIOUS
    <3>2. \A m \in Candidates : m = 4
      BY <1>2, <2>4
    <3> QED
      BY <3>1, <3>2
  <2> QED
    BY <2>1, <2>2, <2>3, <2>4
<1>4. (CHOOSE k \in Candidates : \A m \in Candidates : k <= m) \in Candidates
  BY <1>3
<1> QED
  BY <1>1, <1>2, <1>4 DEF ComposeFile

LEMMA EditReadWorks == ASSUME FilesSafe, NEW r \in Requests, EditRead(r) PROVE Worked(r)
<1> DEFINE op == job[r].op
           k(edited) == [job[r] EXCEPT !.at = "validate", !.file = ComposeFile, !.edited = edited]
<1>1. job[r].at = "check" /\ op.kind = "edit"
  BY DEF EditRead, At
<1>2. DOMAIN job[r] = Fields /\ op \in Operations /\ Own(job[r])
  BY <1>1, Worker
<1>3. \/ Candidates # {} /\ IsFile(ComposeFile) /\ \E edited : Step(tree, data, r, k(edited))
      \/ Error(r)
  BY DEF EditRead
<1>4. ASSUME Candidates # {}, IsFile(ComposeFile), NEW edited, Step(tree, data, r, k(edited))
      PROVE  Worked(r)
  <2>1. /\ k(edited).op = op /\ k(edited).before = job[r].before
        /\ k(edited).hindered = job[r].hindered /\ k(edited).at = "validate"
        /\ k(edited).out = job[r].out /\ k(edited).todo = job[r].todo /\ k(edited).file = ComposeFile
    BY <1>2 DEF Fields
  <2> HIDE DEF k
  <2>2. ComposeFile \in Paths /\ On(op, ComposeFile)
    <3>1. ComposeFile \in Paths
      BY <1>4, SafePaths DEF IsFile
    <3>2. ComposeFile \in Touches(op)
      BY <1>1, <1>4, ComposeFileIs DEF Touches, Reads
    <3> QED
      BY <3>1, <3>2, PrefixLaws DEF On
  <2>3. Own(k(edited))
    BY <1>1, <1>2, <2>1, <2>2 DEF Own
  <2>4. JobStep(r, op, tree, k(edited))
    BY <2>1, <2>3 DEF JobStep
  <2> QED
    BY <1>1, <1>4, <2>4, GoesWorks
<1> QED
  BY <1>1, <1>3, <1>4, OkWorks

LEMMA ValidateBeginsWorks ==
    ASSUME FilesSafe, NEW r \in Requests, ValidateBegins(r)
    PROVE  Worked(r)
<1> DEFINE op == job[r].op
           p == ValidatePath(r)
           n == Fresh
           f == File(job[r].edited, {}, FALSE, TRUE, {})
           k == [job[r] EXCEPT !.at = "load"]
           u == [q \in DOMAIN tree \cup {p} |-> IF q = p THEN n ELSE tree[q]]
           e == [m \in DOMAIN data \cup {n} |-> IF m = n THEN f ELSE data[m]]
<1>1. /\ job[r].at = "validate" /\ op.kind = "edit"
      /\ \/ IsDir(Parent(p)) /\ p \notin DOMAIN tree /\ Step(u, e, r, k)
         \/ Error(r)
  BY DEF ValidateBegins, At
<1>2. DOMAIN job[r] = Fields /\ op \in Operations /\ Own(job[r])
  BY <1>1, Worker
<1>3. p \in Paths /\ p \in Area(r, op)
  <2>1. p \in Paths
    BY DEF ValidatePath, Paths, FileNames
  <2> QED
    BY <1>1, <2>1 DEF Area
<1>4. n \notin DOMAIN data
  BY SafePaths, FreshIsNew
<1>5. Put(tree, u, p, n) /\ Put(data, e, n, f) /\ f.set = {}
  BY DEF Put, File
<1>6. /\ k.op = op /\ k.before = job[r].before /\ k.hindered = job[r].hindered /\ k.at = "load"
      /\ k.out = job[r].out /\ k.todo = job[r].todo /\ k.file = job[r].file
  BY <1>2 DEF Fields
<1> HIDE DEF p, n, f, k, u, e
<1>7. JobStep(r, op, u, k)
  <2>1. Own(k)
    BY <1>1, <1>2, <1>6 DEF Own
  <2> QED
    BY <1>6, <2>1 DEF JobStep
<1>8. ASSUME IsDir(Parent(p)), p \notin DOMAIN tree
      PROVE  TreeStep(r, op, u) /\ DataStep(r, op, e)
  <2>1. Closed(u)
    <3> SUFFICES ASSUME NEW x \in DOMAIN u, NEW y \in Paths, IsPrefix(y, x), y # x
                 PROVE  y \in DOMAIN u /\ u[y] = Dir
      BY DEF Closed
    <3>1. \A z \in DOMAIN tree : z \in DOMAIN u /\ u[z] = tree[z]
      BY <1>5, <1>8 DEF Put
    <3>2. CASE x = p
      <4>1. IsPrefix(y, Parent(p)) /\ Parent(p) \in Paths
        BY <1>3, <3>2, ParentIs
      <4>2. y \in DOMAIN tree /\ tree[y] = Dir
        BY <1>8, <4>1 DEF FilesSafe, Closed, IsDir
      <4> QED
        BY <3>1, <4>2
    <3>3. CASE x # p
      <4>1. x \in DOMAIN tree
        BY <1>5, <3>3 DEF Put
      <4>2. y \in DOMAIN tree /\ tree[y] = Dir
        BY <4>1 DEF FilesSafe, Closed
      <4> QED
        BY <3>1, <4>2
    <3> QED
      BY <3>2, <3>3
  <2>2. Within(Area(r, op), tree, u)
    BY <1>3, <1>5 DEF Within, Put
  <2>3. Comes(op, data, tree, u)
    BY <1>4, <1>5 DEF Comes, Put
  <2>4. SetsIn(e)
    BY <1>5 DEF SetsIn, Put, FilesSafe
  <2>5. Untouched(Area(r, op), tree, job[r].out, data, e)
    BY <1>4, <1>5 DEF Untouched, Put
  <2> QED
    BY <2>1, <2>2, <2>3, <2>4, <2>5 DEF TreeStep, DataStep
<1>9. ASSUME IsDir(Parent(p)), p \notin DOMAIN tree, Step(u, e, r, k)
      PROVE  Worked(r)
  <2>1. WorkedTo(r, u, e, k)
    BY <1>1, <1>7, <1>8, <1>9 DEF WorkedTo, Step, Reads
  <2> QED
    BY <2>1 DEF Worked
<1> QED
  BY <1>1, <1>9, OkWorks

LEMMA LoadWorks == ASSUME FilesSafe, NEW r \in Requests, Load(r) PROVE Worked(r)
<1> DEFINE op == job[r].op
           p == ValidatePath(r)
           k == [job[r] EXCEPT !.at = "open"]
<1>1. /\ job[r].at = "load" /\ op.kind = "edit"
      /\ Step(Without(p), data, r, k) \/ Step(Without(p), data, r, Answer(r, "error"))
  BY DEF Load, At
<1>2. DOMAIN job[r] = Fields /\ op \in Operations /\ Own(job[r])
  BY <1>1, Worker
<1>3. p \in Area(r, op)
  <2>1. p \in Paths
    BY DEF ValidatePath, Paths, FileNames
  <2> QED
    BY <1>1, <2>1 DEF Area
<1>4. TreeStep(r, op, Without(p)) /\ DataStep(r, op, data)
  BY <1>3, WithoutStep, SameData
<1>5. /\ k.op = op /\ k.before = job[r].before /\ k.hindered = job[r].hindered /\ k.at = "open"
      /\ k.out = job[r].out /\ k.todo = job[r].todo /\ k.file = job[r].file
  BY <1>2 DEF Fields
<1>6. op.kind \notin Reads
  BY <1>1 DEF Reads
<1> HIDE DEF k
<1>7. JobStep(r, op, Without(p), k)
  <2>1. Own(k)
    BY <1>1, <1>2, <1>5 DEF Own
  <2> QED
    BY <1>5, <2>1 DEF JobStep
<1>8. ASSUME Step(Without(p), data, r, k) PROVE Worked(r)
  <2>1. WorkedTo(r, Without(p), data, k)
    BY <1>4, <1>6, <1>7, <1>8 DEF WorkedTo, Step
  <2> QED
    BY <2>1 DEF Worked
<1> QED
  BY <1>1, <1>4, <1>6, <1>8, AnswerWorks

LEMMA EditOpenWorks == ASSUME FilesSafe, NEW r \in Requests, EditOpen(r) PROVE Worked(r)
<1> DEFINE op == job[r].op
           p == job[r].file
           next == [job[r] EXCEPT !.at = "write"]
<1>1. job[r].at = "open" /\ op.kind = "edit" /\ (OpenAt(r, p, {}, TRUE, next) \/ Error(r))
  BY DEF EditOpen, At
<1>2. DOMAIN job[r] = Fields /\ op \in Operations /\ Own(job[r])
  BY <1>1, Worker
<1>3. p \in Paths /\ On(op, p) /\ op.kind \notin Reads
  BY <1>1, <1>2 DEF Own, Reads
<1>4. /\ DOMAIN next = Fields /\ next.op = op /\ next.before = job[r].before
      /\ next.hindered = job[r].hindered /\ next.at = "write" /\ next.todo = job[r].todo
      /\ next.file = p
  BY <1>2 DEF Fields
<1> HIDE DEF next
<1>5. Own(next)
  BY <1>1, <1>2, <1>3, <1>4 DEF Own
<1>6. ASSUME OpenAt(r, p, {}, TRUE, next) PROVE Worked(r)
  <2>1. {} \subseteq Attributes
    OBVIOUS
  <2> QED
    BY <1>1, <1>3, <1>4, <1>5, <1>6, <2>1, OpenWorks
<1> QED
  BY <1>1, <1>6, OkWorks

LEMMA EditWriteWorks == ASSUME FilesSafe, NEW r \in Requests, EditWrite(r) PROVE Worked(r)
<1>1. /\ job[r].at = "write" /\ job[r].op.kind = "edit"
      /\ \/ \E d \in WrittenTo(job[r].out, job[r].edited) : Step(tree, d, r, Answer(r, "ok"))
         \/ Error(r)
  BY DEF EditWrite, At
<1>2. ASSUME NEW d \in WrittenTo(job[r].out, job[r].edited), Step(tree, d, r, Answer(r, "ok"))
      PROVE  Worked(r)
  <2>1. DataStep(r, job[r].op, d)
    BY <1>1, <1>2, WrittenStep
  <2> QED
    BY <1>1, <1>2, <2>1, SameTree, AnswerWorks DEF Reads
<1> QED
  BY <1>1, <1>2, OkWorks

\* Whatever a request does next, it keeps to its own files.
LEMMA WorkIsWorked ==
    ASSUME FilesSafe, NEW r \in Requests, Work(r)
    PROVE  Worked(r) /\ job[r].at \notin {"idle", "done"}
<1>1. job[r].at \notin {"idle", "done"}
  BY Zenon DEF Work, CheckTarget, CheckPath, MakeParents, SetAttributes, OpenTemp, WriteTemp, Place, Delete,
         Rename, copyDirectory, copyFile, Copied, CopyMode, CopyEnds, CheckAttributes, ChangeNext,
         WalkEnds, CheckFile, OpenToRead, ReadContent, ReadFails, EditRead, ValidateBegins, Load,
         EditOpen, EditWrite, Respond, At
<1> QED
  BY <1>1, CheckTargetWorks, CheckWorks, MakeParentsWorks, SetAttributesWorks, OpenTempWorks,
     WriteTempWorks, PlaceWorks, DeleteWorks, RenameWorks, CopyDirectoryWorks, CopyFileWorks,
     CopiedWorks, CopyModeWorks, EndsWork, CheckAttributesWorks, ChangeNextWorks, OpenToReadWorks,
     ReadContentWorks, RespondWorks, EditReadWorks, ValidateBeginsWorks, LoadWorks, EditOpenWorks,
     EditWriteWorks DEF Work
--------------------------------------------------------------------------------
(***************************************************************************)
(* What the changes of an edit mean.                                       *)
(***************************************************************************)
\* The documents when some of the renames are done, from those when all but one of them are.
DoneOf(services, renames, done, documents) ==
    IF done = {} THEN {Document(services)}
    ELSE UNION { { RenameNext(doc, old, renames[old]) : doc \in documents[done \ {old}] } :
                     old \in done }
Documents(services, renames) ==
    CHOOSE documents : documents = [done \in SUBSET DOMAIN renames |->
                                        DoneOf(services, renames, done, documents)]

LEMMA DocumentsAre ==
    ASSUME NEW services, NEW renames
    PROVE  applyRenameServicesToYaml(services, renames)
               = Documents(services, renames)[DOMAIN renames]
BY DEF applyRenameServicesToYaml, Documents, DoneOf

LEMMA DoneIs ==
    ASSUME NEW services, NEW renames, NEW done, NEW documents,
           NEW doc \in DoneOf(services, renames, done, documents)
    PROVE  \/ done = {} /\ doc = Document(services)
           \/ \E old \in done : \E was \in documents[done \ {old}] :
                  doc = RenameNext(was, old, renames[old])
BY DEF DoneOf

LEMMA DoneSame ==
    ASSUME NEW services, NEW renames, NEW done, NEW f, NEW g,
           \A old \in done : f[done \ {old}] = g[done \ {old}]
    PROVE  DoneOf(services, renames, done, f) = DoneOf(services, renames, done, g)
<1>1. CASE done = {}
  BY <1>1 DEF DoneOf
<1>2. CASE done # {}
  <2> DEFINE out(h, old) == { RenameNext(doc, old, renames[old]) : doc \in h[done \ {old}] }
             step(h) == UNION { out(h, old) : old \in done }
  <2>1. \A old \in done : out(f, old) = out(g, old)
    OBVIOUS
  <2>2. step(f) = step(g)
    <3> HIDE DEF out
    <3>1. \A x : x \in step(f) <=> \E old \in done : x \in out(f, old)
      OBVIOUS
    <3>2. \A x : x \in step(g) <=> \E old \in done : x \in out(g, old)
      OBVIOUS
    <3> HIDE DEF step
    <3>3. \A x : x \in step(f) <=> x \in step(g)
      BY <2>1, <3>1, <3>2
    <3>4. \A x \in step(f) : x \in step(g)
      BY <3>3
    <3>5. \A x \in step(g) : x \in step(f)
      BY <3>3
    <3>6. step(f) \subseteq step(g) /\ step(g) \subseteq step(f)
      BY <3>4, <3>5
    <3>7. step(f) = UNION { out(f, old) : old \in done } /\ step(g) = UNION { out(g, old) : old \in done }
      BY DEF step
    <3> QED
      BY <3>6, <3>7
  <2> QED
    BY <1>2, <2>2 DEF DoneOf
<1> QED
  BY <1>1, <1>2

LEMMA LeastNumber ==
    ASSUME NEW B \in SUBSET Nat, B # {}
    PROVE  \E n \in B : \A m \in B : n <= m
<1>1. \E n \in B : \A m \in B : ~(<<m, n>> \in OpToRel(<, Nat))
  BY NatLessThanWellFounded, WFMin, Zenon
<1>2. PICK n \in B : \A m \in B : ~(<<m, n>> \in OpToRel(<, Nat))
  BY <1>1
<1>3. \A m \in B : ~(m < n)
  BY <1>2 DEF OpToRel
<1> QED
  BY <1>3

LEMMA LeastSet ==
    ASSUME NEW D, IsFiniteSet(D), NEW B \in SUBSET SUBSET D, B # {}
    PROVE  \E S \in B : \A T \in B : T \subseteq S => T = S
<1>1. FiniteSubsetsOf(D) = SUBSET D /\ IsWellFoundedOn(StrictSubsetOrdering(D), FiniteSubsetsOf(D))
  BY FS_FiniteSubsetsOfFinite, FS_StrictSubsetOrderingWellFounded
<1>2. \E S \in B : \A T \in B : ~(<<T, S>> \in StrictSubsetOrdering(D))
  BY <1>1, WFMin, Zenon
<1>3. PICK S \in B : \A T \in B : ~(<<T, S>> \in StrictSubsetOrdering(D))
  BY <1>2
<1>4. \A T \in B : <<T, S>> \in (SUBSET D) \X (SUBSET D)
  OBVIOUS
<1> QED
  BY <1>3, <1>4 DEF StrictSubsetOrdering

\* The documents are there: the renames are finitely many.
Small(D, n) == { done \in SUBSET D : Cardinality(done) <= n }
Solves(services, renames, n, f) ==
    f = [done \in Small(DOMAIN renames, n) |-> DoneOf(services, renames, done, f)]

LEMMA SolvedNext ==
    ASSUME NEW services, NEW renames, IsFiniteSet(DOMAIN renames), NEW n \in Nat,
           NEW f, Solves(services, renames, n, f)
    PROVE  \E g : Solves(services, renames, n + 1, g)
<1> DEFINE D == DOMAIN renames
           g == [done \in Small(D, n + 1) |-> DoneOf(services, renames, done, f)]
<1>1. ASSUME NEW done \in Small(D, n)
      PROVE  done \in Small(D, n + 1) /\ f[done] = DoneOf(services, renames, done, f)
  <2>1. done \in SUBSET D /\ IsFiniteSet(done) /\ Cardinality(done) <= n
    BY FS_Subset DEF Small
  <2>2. Cardinality(done) \in Nat
    BY <2>1, FS_CardinalityType
  <2>3. done \in Small(D, n + 1)
    BY <2>1, <2>2 DEF Small
  <2> QED
    BY <2>3 DEF Solves
<1>2. \A done \in Small(D, n) : g[done] = f[done]
  BY <1>1
<1>3. ASSUME NEW done \in Small(D, n + 1), NEW old \in done
      PROVE  done \ {old} \in Small(D, n)
  <2>1. done \in SUBSET D /\ IsFiniteSet(done) /\ Cardinality(done) <= n + 1
    BY FS_Subset DEF Small
  <2>2. Cardinality(done) \in Nat /\ Cardinality(done \ {old}) = Cardinality(done) - 1
    BY <2>1, FS_CardinalityType, FS_RemoveElement
  <2>3. done \ {old} \in SUBSET D /\ Cardinality(done \ {old}) <= n
    BY <2>1, <2>2
  <2> QED
    BY <2>3 DEF Small
<1> HIDE DEF g
<1>4. ASSUME NEW done \in Small(D, n + 1)
      PROVE  DoneOf(services, renames, done, f) = DoneOf(services, renames, done, g)
  <2>1. \A old \in done : f[done \ {old}] = g[done \ {old}]
    BY <1>2, <1>3
  <2> QED
    BY <2>1, DoneSame
<1>5. g = [done \in Small(D, n + 1) |-> DoneOf(services, renames, done, g)]
  BY <1>4 DEF g
<1> QED
  BY <1>5 DEF Solves

LEMMA Solved ==
    ASSUME NEW services, NEW renames, IsFiniteSet(DOMAIN renames), NEW n \in Nat
    PROVE  \E f : Solves(services, renames, n, f)
<1> DEFINE B == { m \in Nat : ~(\E f : Solves(services, renames, m, f)) }
<1> SUFFICES ASSUME B # {} PROVE FALSE
  OBVIOUS
<1>1. PICK m \in B : \A k \in B : m <= k
  BY LeastNumber
<1>2. m \in Nat /\ ~(\E f : Solves(services, renames, m, f))
  OBVIOUS
<1>3. CASE m = 0
  <2> DEFINE g == [done \in Small(DOMAIN renames, 0) |-> {Document(services)}]
  <2>1. ASSUME NEW done \in Small(DOMAIN renames, 0)
        PROVE  done = {}
    <3>1. done \in SUBSET DOMAIN renames /\ IsFiniteSet(done) /\ Cardinality(done) <= 0
      BY FS_Subset DEF Small
    <3>2. Cardinality(done) \in Nat
      BY <3>1, FS_CardinalityType
    <3> QED
      BY <3>1, <3>2, FS_EmptySet
  <2>2. \A done \in Small(DOMAIN renames, 0) :
            DoneOf(services, renames, done, g) = {Document(services)}
    BY <2>1 DEF DoneOf
  <2>3. g = [done \in Small(DOMAIN renames, 0) |-> DoneOf(services, renames, done, g)]
    BY <2>2
  <2> QED
    BY <1>2, <1>3, <2>3 DEF Solves
<1>4. CASE m # 0
  <2>1. m - 1 \in Nat /\ (m - 1) + 1 = m /\ ~(m <= m - 1)
    BY <1>2, <1>4
  <2>2. \E f : Solves(services, renames, m - 1, f)
    BY <1>1, <2>1
  <2>3. PICK f : Solves(services, renames, m - 1, f)
    BY <2>2
  <2>4. \E g : Solves(services, renames, (m - 1) + 1, g)
    BY <2>1, <2>3, SolvedNext
  <2> QED
    BY <1>2, <2>1, <2>4
<1> QED
  BY <1>3, <1>4

LEMMA DocumentsSolve ==
    ASSUME NEW services, NEW renames, IsFiniteSet(DOMAIN renames), NEW done \in SUBSET DOMAIN renames
    PROVE  Documents(services, renames)[done]
               = DoneOf(services, renames, done, Documents(services, renames))
<1> DEFINE D == DOMAIN renames
           n == Cardinality(D)
           f == Documents(services, renames)
<1>1. n \in Nat /\ Small(D, n) = SUBSET D
  <2>1. \A S \in SUBSET D : Cardinality(S) <= n
    BY FS_Subset
  <2>2. n \in Nat
    BY FS_CardinalityType
  <2> QED
    BY <2>1, <2>2 DEF Small
<1>2. PICK g : Solves(services, renames, n, g)
  <2> HIDE DEF n
  <2> QED
    BY <1>1, Solved
<1>3. g = [S \in SUBSET D |-> DoneOf(services, renames, S, g)]
  BY <1>1, <1>2 DEF Solves
<1>4. f = [S \in SUBSET D |-> DoneOf(services, renames, S, f)]
  BY <1>3 DEF Documents
<1> HIDE DEF f
<1>5. f[done] = DoneOf(services, renames, done, f)
  BY <1>4
<1> QED
  BY <1>5 DEF f

\* The names of services when some renames are done.
NowNamed(renames, done, n) == IF n \in done THEN renames[n] ELSE n
AllNamed(renames, done, names) == { NowNamed(renames, done, n) : n \in names }
RenamedAs(services, renames, done, result) ==
    /\ \A m, n \in DOMAIN services :
           NowNamed(renames, done, m) = NowNamed(renames, done, n) => m = n
    /\ DOMAIN result = AllNamed(renames, done, DOMAIN services)
    /\ \A n \in DOMAIN services :
           result[NowNamed(renames, done, n)] = AllNamed(renames, done, services[n])

LEMMA NamedIs ==
    ASSUME NEW renames, NEW done, NEW names
    PROVE  \A e : e \in AllNamed(renames, done, names) <=>
                      \E n \in names : e = NowNamed(renames, done, n)
BY DEF AllNamed

LEMMA RenameOneIs ==
    ASSUME NEW services, NEW old, NEW new, RenameOne(services, old, new).ok
    PROVE  LET result == RenameOne(services, old, new).services
           IN  /\ old \in DOMAIN services /\ new \notin DOMAIN services
               /\ DOMAIN result = { Renamed(n, old, new) : n \in DOMAIN services }
               /\ \A s \in DOMAIN result :
                      result[s] = { Renamed(d, old, new) :
                                        d \in services[IF s = new THEN old ELSE s] }
BY DEF RenameOne, Refused, Document

LEMMA NextNamed ==
    ASSUME NEW services, NEW renames, NEW done, NEW old, old \in DOMAIN services, old \notin done,
           done \subseteq DOMAIN services,
           \A m, n \in DOMAIN services :
               NowNamed(renames, done, m) = NowNamed(renames, done, n) => m = n,
           NEW n
    PROVE  Renamed(NowNamed(renames, done, n), old, renames[old])
               = NowNamed(renames, done \cup {old}, n)
<1>1. NowNamed(renames, done, old) = old
  BY DEF NowNamed
<1>2. CASE n = old
  BY <1>1, <1>2 DEF NowNamed, Renamed
<1>3. CASE n # old /\ n \in done
  <2>1. NowNamed(renames, done, n) # old
    BY <1>1, <1>3
  <2> QED
    BY <1>3, <2>1 DEF NowNamed, Renamed
<1>4. CASE n # old /\ n \notin done
  BY <1>4 DEF NowNamed, Renamed
<1> QED
  BY <1>2, <1>3, <1>4

LEMMA RenamedNext ==
    ASSUME NEW services, NEW renames, NEW done, NEW old, old \in DOMAIN services, old \notin done,
           done \subseteq DOMAIN services,
           NEW was, RenamedAs(services, renames, done, was),
           RenameOne(was, old, renames[old]).ok
    PROVE  RenamedAs(services, renames, done \cup {old}, RenameOne(was, old, renames[old]).services)
<1> DEFINE new == renames[old]
           more == done \cup {old}
           result == RenameOne(was, old, new).services
           Now(n) == NowNamed(renames, done, n)
           Then(n) == NowNamed(renames, more, n)
<1>1. /\ old \in DOMAIN was /\ new \notin DOMAIN was
      /\ DOMAIN result = { Renamed(n, old, new) : n \in DOMAIN was }
      /\ \A s \in DOMAIN result :
             result[s] = { Renamed(d, old, new) : d \in was[IF s = new THEN old ELSE s] }
  BY RenameOneIs
<1>2. \A n : Renamed(Now(n), old, new) = Then(n)
  BY NextNamed DEF RenamedAs
<1>3. /\ \A m, n \in DOMAIN services : Now(m) = Now(n) => m = n
      /\ \A e : e \in DOMAIN was <=> \E n \in DOMAIN services : e = Now(n)
      /\ \A n \in DOMAIN services : \A e : e \in was[Now(n)] <=> \E d \in services[n] : e = Now(d)
  BY NamedIs DEF RenamedAs
<1>4. Now(old) = old /\ Then(old) = new
  BY DEF NowNamed
<1>5. \A n : n # old => Then(n) = Now(n)
  BY DEF NowNamed
<1> HIDE DEF result, Now, Then, new, more
<1>6. \A n \in DOMAIN services : n # old => Then(n) # new
  BY <1>1, <1>3, <1>5
<1>7. \A m, n \in DOMAIN services : Then(m) = Then(n) => m = n
  BY <1>3, <1>4, <1>5, <1>6
<1>8. ASSUME NEW e PROVE e \in DOMAIN result <=> \E n \in DOMAIN services : e = Then(n)
  <2>1. e \in DOMAIN result <=> \E x \in DOMAIN was : e = Renamed(x, old, new)
    BY <1>1
  <2> QED
    BY <1>2, <1>3, <2>1
<1>9. ASSUME NEW n \in DOMAIN services
      PROVE  \A e : e \in result[Then(n)] <=> \E d \in services[n] : e = Then(d)
  <2>1. Then(n) \in DOMAIN result
    BY <1>8
  <2>2. (IF Then(n) = new THEN old ELSE Then(n)) = Now(n)
    BY <1>4, <1>5, <1>6
  <2>3. result[Then(n)] = { Renamed(d, old, new) : d \in was[Now(n)] }
    BY <1>1, <2>1, <2>2
  <2>4. \A e : e \in result[Then(n)] <=> \E x \in was[Now(n)] : e = Renamed(x, old, new)
    BY <2>3
  <2> QED
    BY <1>2, <1>3, <2>4
<1>10. \A names : \A e : e \in AllNamed(renames, more, names) <=> \E n \in names : e = Then(n)
  BY NamedIs DEF Then
<1>11. DOMAIN result = AllNamed(renames, more, DOMAIN services)
  BY <1>8, <1>10
<1>12. ASSUME NEW n \in DOMAIN services
       PROVE  result[Then(n)] = AllNamed(renames, more, services[n])
  <2>1. result[Then(n)] = { Renamed(d, old, new) : d \in was[IF Then(n) = new THEN old ELSE Then(n)] }
    BY <1>1, <1>8
  <2>2. \A e : e \in result[Then(n)] <=> e \in AllNamed(renames, more, services[n])
    BY <1>9, <1>10
  <2> DEFINE left == { Renamed(d, old, new) : d \in was[IF Then(n) = new THEN old ELSE Then(n)] }
             right == AllNamed(renames, more, services[n])
  <2>3. left \subseteq right
    BY <2>1, <2>2
  <2>4. right \subseteq left
    BY <2>1, <2>2
  <2>5. left = right
    BY <2>3, <2>4 DEF AllNamed
  <2> QED
    BY <2>1, <2>5
<1> QED
  BY <1>7, <1>11, <1>12 DEF RenamedAs, Then, result, new, more

\* When all the renames that are done are accepted, all names have changed at once.
LEMMA AllRenamed ==
    ASSUME NEW services, NEW renames, IsFiniteSet(DOMAIN renames),
           DOMAIN renames \subseteq DOMAIN services,
           NEW done \in SUBSET DOMAIN renames, NEW doc \in Documents(services, renames)[done], doc.ok
    PROVE  RenamedAs(services, renames, done, doc.services)
<1> DEFINE D == DOMAIN renames
           f == Documents(services, renames)
           Right(S) == \A x \in f[S] : x.ok => RenamedAs(services, renames, S, x.services)
           B == { S \in SUBSET D : ~Right(S) }
<1> SUFFICES ASSUME B # {} PROVE FALSE
  OBVIOUS
<1>1. PICK S \in B : \A T \in B : T \subseteq S => T = S
  <2> HIDE DEF B, D
  <2>1. B \in SUBSET SUBSET D
    BY DEF B
  <2> QED
    BY <2>1, LeastSet DEF D
<1>2. S \in SUBSET D /\ ~Right(S)
  OBVIOUS
<1>3. PICK x \in f[S] : x.ok /\ ~RenamedAs(services, renames, S, x.services)
  BY <1>2
<1>4. x \in DoneOf(services, renames, S, f)
  BY <1>2, DocumentsSolve
<1>5. \/ S = {} /\ x = Document(services)
      \/ \E old \in S : \E was \in f[S \ {old}] : x = RenameNext(was, old, renames[old])
  BY <1>4, DoneIs
<1>6. CASE S = {} /\ x = Document(services)
  <2>1. x.services = services
    BY <1>6 DEF Document
  <2>2. \A n : NowNamed(renames, S, n) = n
    BY <1>6 DEF NowNamed
  <2>3. \A X : AllNamed(renames, S, X) = X
    <3> TAKE X
    <3>1. AllNamed(renames, S, X) \subseteq X
      BY <2>2, NamedIs
    <3>2. X \subseteq AllNamed(renames, S, X)
      BY <2>2, NamedIs
    <3> QED
      BY <3>1, <3>2
  <2> QED
    BY <1>3, <2>1, <2>2, <2>3 DEF RenamedAs
<1>7. CASE \E old \in S : \E was \in f[S \ {old}] : x = RenameNext(was, old, renames[old])
  <2>1. PICK old \in S : \E was \in f[S \ {old}] : x = RenameNext(was, old, renames[old])
    BY <1>7
  <2>2. PICK was \in f[S \ {old}] : x = RenameNext(was, old, renames[old])
    BY <2>1
  <2>3. was.ok /\ x = RenameOne(was.services, old, renames[old])
    BY <1>3, <2>2 DEF RenameNext
  <2>4. S \ {old} \in SUBSET D /\ S \ {old} \notin B
    BY <1>1, <1>2
  <2>5. RenamedAs(services, renames, S \ {old}, was.services)
    BY <2>2, <2>3, <2>4
  <2>6. RenamedAs(services, renames, (S \ {old}) \cup {old}, RenameOne(was.services, old, renames[old]).services)
    <3>1. old \in DOMAIN services /\ S \ {old} \subseteq DOMAIN services
      BY <1>2
    <3> HIDE DEF f, B, D
    <3> QED
      BY <1>3, <2>3, <2>5, <3>1, RenamedNext
  <2>7. (S \ {old}) \cup {old} = S
    OBVIOUS
  <2> QED
    BY <1>3, <2>3, <2>6, <2>7
<1> QED
  BY <1>5, <1>6, <1>7

LEMMA ChangesAre ==
    ASSUME NEW services, NEW changes, NEW doc \in applyChangesToYaml(services, changes), doc.ok
    PROVE  LET changed == applyServiceChangesToYaml(services, changes.dependsOn)
           IN  /\ changed.ok
               /\ \E was \in applyRenameServicesToYaml(changed.services, changes.rename) :
                      /\ was.ok
                      /\ doc = applyAddServicesToYaml(
                                   applyDeleteServicesToYaml(was.services, changes.delete), changes.add)
<1> DEFINE changed == applyServiceChangesToYaml(services, changes.dependsOn)
           next(was) == IF was.ok
                        THEN applyAddServicesToYaml(
                                 applyDeleteServicesToYaml(was.services, changes.delete), changes.add)
                        ELSE Refused
           renamed == IF changed.ok
                      THEN applyRenameServicesToYaml(changed.services, changes.rename) ELSE {Refused}
<1>1. doc \in { next(was) : was \in renamed }
  BY DEF applyChangesToYaml
<1>2. PICK was \in renamed : doc = next(was)
  BY <1>1
<1>3. Refused.ok = FALSE
  BY DEF Refused
<1>4. was.ok
  BY <1>2, <1>3
<1>5. changed.ok
  BY <1>3, <1>4
<1> QED
  BY <1>2, <1>4, <1>5

LEMMA DependsOnIs ==
    ASSUME NEW services, NEW dependsOn, applyServiceChangesToYaml(services, dependsOn).ok
    PROVE  LET result == applyServiceChangesToYaml(services, dependsOn).services
           IN  /\ DOMAIN result = DOMAIN services
               /\ \A s \in DOMAIN services :
                      result[s] = IF s \in DOMAIN dependsOn THEN dependsOn[s] ELSE services[s]
BY DEF applyServiceChangesToYaml, Refused, Document

Deleted(services, deletes, adds) ==
    [s \in (DOMAIN services \ deletes) \cup adds |-> IF s \in adds THEN {} ELSE services[s]]

LEMMA AddedIs ==
    ASSUME NEW services, NEW deletes, NEW adds,
           applyAddServicesToYaml(applyDeleteServicesToYaml(services, deletes), adds).ok
    PROVE  applyAddServicesToYaml(applyDeleteServicesToYaml(services, deletes), adds).services
               = Deleted(services, deletes, adds)
<1> DEFINE kept == DOMAIN services \ deletes
           rest == applyDeleteServicesToYaml(services, deletes)
<1>1. DOMAIN rest = kept /\ \A s \in kept : rest[s] = services[s]
  BY DEF applyDeleteServicesToYaml, Restrict
<1> HIDE DEF rest, kept
<1>2. applyAddServicesToYaml(rest, adds).services
          = [s \in DOMAIN rest \cup adds |-> IF s \in adds THEN {} ELSE rest[s]]
  BY DEF applyAddServicesToYaml, Refused, Document, rest
<1>3. [s \in DOMAIN rest \cup adds |-> IF s \in adds THEN {} ELSE rest[s]]
          = [s \in kept \cup adds |-> IF s \in adds THEN {} ELSE services[s]]
  BY <1>1
<1> QED
  BY <1>2, <1>3 DEF rest, kept, Deleted

(***************************************************************************)
(* applyChangesToYaml takes the renames of an edit one by one, in the      *)
(* random order of a Go map (composeeditor/service_lifecycle.go), then     *)
(* deletes and adds.  If all that is renamed is there and the edit is not  *)
(* refused, then whatever the order, chains of renames included, each      *)
(* service has its new name and what depends on it has followed.           *)
(***************************************************************************)
THEOREM EditsMean ==
    ASSUME NEW services, NEW changes, IsFiniteSet(DOMAIN changes.rename),
           DOMAIN changes.rename \subseteq DOMAIN services,
           NEW doc \in applyChangesToYaml(services, changes), doc.ok
    PROVE  doc.services = Meaning(services, changes)
<1> DEFINE renames == changes.rename
           deletes == changes.delete
           adds == changes.add
           Now(n) == NowNamed(renames, DOMAIN renames, n)
           changed == applyServiceChangesToYaml(services, changes.dependsOn)
           first == changed.services
           kept == { n \in DOMAIN services : Now(n) \notin deletes }
           Depends(n) == IF n \in DOMAIN changes.dependsOn THEN changes.dependsOn[n] ELSE services[n]
<1>1. /\ changed.ok
      /\ \E was \in applyRenameServicesToYaml(first, renames) :
             /\ was.ok
             /\ doc = applyAddServicesToYaml(applyDeleteServicesToYaml(was.services, deletes), adds)
  BY ChangesAre
<1>2. DOMAIN first = DOMAIN services /\ \A s \in DOMAIN services : first[s] = Depends(s)
  BY <1>1, DependsOnIs
<1>3. PICK was \in applyRenameServicesToYaml(first, renames) :
             /\ was.ok
             /\ doc = applyAddServicesToYaml(applyDeleteServicesToYaml(was.services, deletes), adds)
  BY <1>1
<1>4. RenamedAs(first, renames, DOMAIN renames, was.services)
  <2>1. was \in Documents(first, renames)[DOMAIN renames]
    BY DocumentsAre
  <2>2. DOMAIN renames \subseteq DOMAIN first /\ IsFiniteSet(DOMAIN renames)
    BY <1>2
  <2> HIDE DEF first, renames
  <2> QED
    BY <1>3, <2>1, <2>2, AllRenamed
<1> HIDE DEF first, renames
<1>5. /\ \A m, n \in DOMAIN services : Now(m) = Now(n) => m = n
      /\ \A s : s \in DOMAIN was.services <=> \E n \in DOMAIN services : s = Now(n)
      /\ \A n \in DOMAIN services : was.services[Now(n)] = AllNamed(renames, DOMAIN renames, Depends(n))
  BY <1>2, <1>4, NamedIs DEF RenamedAs
<1>6. doc.services = [s \in (DOMAIN was.services \ deletes) \cup adds |->
                          IF s \in adds THEN {} ELSE was.services[s]]
  <2>1. applyAddServicesToYaml(applyDeleteServicesToYaml(was.services, deletes), adds).ok
    BY <1>3
  <2> DEFINE all == was.services
  <2>0. applyAddServicesToYaml(applyDeleteServicesToYaml(all, deletes), adds).ok
    BY <2>1
  <2> HIDE DEF deletes, adds, all
  <2>2. applyAddServicesToYaml(applyDeleteServicesToYaml(all, deletes), adds).services
            = Deleted(all, deletes, adds)
    BY <2>0, AddedIs
  <2> QED
    BY <1>3, <2>2 DEF all, Deleted
<1>7. Meaning(services, changes)
          = [s \in { Now(n) : n \in kept } \cup adds |->
                 IF s \in adds THEN {}
                 ELSE { Now(d) : d \in Depends(CHOOSE n \in kept : Now(n) = s) }]
  BY DEF Meaning, NewName, NowNamed, renames
<1>8. (DOMAIN was.services \ deletes) \cup adds = { Now(n) : n \in kept } \cup adds
  BY <1>5
<1>9. ASSUME NEW s \in DOMAIN was.services \ deletes
      PROVE  was.services[s] = { Now(d) : d \in Depends(CHOOSE n \in kept : Now(n) = s) }
  <2>1. PICK m \in DOMAIN services : s = Now(m)
    BY <1>5
  <2>2. m \in kept
    BY <2>1
  <2>3. \A n \in kept : Now(n) = s => n = m
    BY <1>5, <2>1
  <2>4. (CHOOSE n \in kept : Now(n) = s) = m
    BY <2>1, <2>2, <2>3
  <2>5. was.services[s] = AllNamed(renames, DOMAIN renames, Depends(m))
    BY <1>5, <2>1
  <2> QED
    BY <2>4, <2>5 DEF AllNamed
<1> QED
  BY <1>6, <1>7, <1>8, <1>9
================================================================================
