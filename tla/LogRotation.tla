------------------------------ MODULE LogRotation ------------------------------
(***************************************************************************)
(* The audit log (internal/audit/service.go): entries are appended to the  *)
(* current file, which is renamed when the day changes or when it is full, *)
(* and the agent may die and start again in between.  Every call runs      *)
(* under writeMutex, so that a call is a step; each system call in it may  *)
(* fail.  The clock never steps back, the log's directory can be listed    *)
(* when the agent starts, and a size is a number of entries.  Of an entry  *)
(* only its number is kept, the n-th that was written.  The API log        *)
(* (internal/logging/service.go) is the same code.                         *)
(***************************************************************************)
EXTENDS Naturals, Sequences

CONSTANTS MaxSize,     \* maxSizeBytes, in entries; 0 if a file may have any size
          MaxDay,      \* bound: the days a run sees
          MaxEntries   \* bound: the entries that are written

ASSUME LogAssumption == MaxSize \in Nat

VARIABLES today,    \* the day of the clock
          log,      \* the service's fields and the files in logDir
          written   \* history: how many entries were written

logVars == <<today, log, written>>

\* A file is named by its day and its number; the current one by day 0.
Current == <<0, 0>>

LogInit ==
    /\ today = 1
    /\ log = [currentDate |-> 1, currentSeqNum |-> 0, fileWriter |-> TRUE,
              files |-> [name \in {Current} |-> <<>>]]
    /\ written = 0

--------------------------------------------------------------------------------
\* The outcomes of opening the current file for appending.
openCurrentFile(l) ==
    { l,
      [l EXCEPT !.fileWriter = TRUE,
                !.files = [n \in DOMAIN l.files \cup {Current} |->
                               IF n \in DOMAIN l.files THEN l.files[n] ELSE <<>>]] }

\* os.Rename of the current file, which replaces a file of the new name.
Moved(l, name) ==
    [l EXCEPT !.files = [n \in (DOMAIN l.files \cup {name}) \ {Current} |->
                             IF n = name THEN l.files[Current] ELSE l.files[n]]]

Size(l) == IF Current \in DOMAIN l.files THEN Len(l.files[Current]) ELSE 0

\* The number is reset only after the rename: one that fails keeps counting.
rotateMidnight(l, previousDate) ==
    LET closed == [l EXCEPT !.fileWriter = FALSE]
        name == <<previousDate, IF l.currentSeqNum > 0 THEN l.currentSeqNum + 1 ELSE 0>>
        moved == IF Size(l) > 0 THEN Moved(closed, name) ELSE closed
    IN  (IF Size(l) > 0 THEN {closed} ELSE {})
            \cup openCurrentFile([moved EXCEPT !.currentSeqNum = 0])

rotateSize(l) ==
    LET closed == [l EXCEPT !.fileWriter = FALSE, !.currentSeqNum = @ + 1]
    IN  {closed} \cup openCurrentFile(Moved(closed, <<l.currentDate, closed.currentSeqNum>>))

ensureCurrentLogFileLocked ==
    IF log.currentDate # today
    THEN rotateMidnight([log EXCEPT !.currentDate = today], log.currentDate)
    ELSE IF log.fileWriter THEN {log} ELSE openCurrentFile(log)

checkSizeRotation(l) == {l} \cup (IF MaxSize > 0 /\ Size(l) >= MaxSize THEN rotateSize(l) ELSE {})

(***************************************************************************)
(* Log: an entry without an open file, or whose write fails, is dropped.   *)
(***************************************************************************)
Log ==
    /\ \E l \in ensureCurrentLogFileLocked :
          \/ /\ log' = l
             /\ UNCHANGED written
          \/ /\ l.fileWriter
             /\ written < MaxEntries
             /\ written' = written + 1
             /\ log' \in checkSizeRotation([l EXCEPT !.files[Current] = Append(@, written')])
    /\ UNCHANGED today

\* Mutant: the numbers of the day are not looked for.
StartFromZero ==
    /\ \E l \in openCurrentFile([log EXCEPT !.currentDate = today, !.currentSeqNum = 0]) :
          l.fileWriter /\ log' = l
    /\ UNCHANGED <<today, written>>

\* The numbers in the names of a day; a file without one has the number 0.
Numbers(day) == { name[2] : name \in { n \in DOMAIN log.files : n[1] = day } }
scanExistingSequenceNumber == CHOOSE n \in Numbers(today) \cup {0} : \A m \in Numbers(today) : m <= n

(***************************************************************************)
(* NewService at the start of the agent, on any day since: the last number *)
(* of today is found, whatever day the current file is from.               *)
(***************************************************************************)
NewService ==
    /\ \E l \in openCurrentFile([log EXCEPT !.currentDate = today,
                                            !.currentSeqNum = scanExistingSequenceNumber]) :
          l.fileWriter /\ log' = l
    /\ UNCHANGED <<today, written>>

Midnight ==
    /\ today < MaxDay
    /\ today' = today + 1
    /\ UNCHANGED <<log, written>>

LogNext == Log \/ NewService \/ Midnight

LogSpec == LogInit /\ [][LogNext]_logVars
--------------------------------------------------------------------------------
\* The files in the order of their names, the current one last.
Before(m, n) ==
    \/ m # Current /\ n = Current
    \/ m # Current /\ n # Current /\ (m[1] < n[1] \/ (m[1] = n[1] /\ m[2] < n[2]))

\* The places of the entries: the i-th of the file of a name.
Places == UNION { {n} \X DOMAIN log.files[n] : n \in DOMAIN log.files }
EntryAt(p) == log.files[p[1]][p[2]]
Earlier(p, q) == Before(p[1], q[1]) \/ (p[1] = q[1] /\ p[2] < q[2])

(***************************************************************************)
(* Every entry that was written is still in the files, once, and the files *)
(* read one after the other give the entries in the order they were        *)
(* written: no rotation takes a name that is in use, whatever failed, on   *)
(* whatever day the agent was started.                                     *)
(***************************************************************************)
EntriesKept ==
    /\ { EntryAt(p) : p \in Places } = 1..written
    /\ \A p, q \in Places : Earlier(p, q) => EntryAt(p) < EntryAt(q)
================================================================================
