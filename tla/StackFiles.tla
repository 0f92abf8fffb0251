------------------------------- MODULE StackFiles -------------------------------
(***************************************************************************)
(* The files of a stack under requests that run at the same time: those of *)
(* the file manager (internal/files), each entered in the audit log when   *)
(* it ends (LogRotation), and edits of the compose file                    *)
(* (internal/composeeditor, ComposeEdit).  A system call is a step, and    *)
(* may fail; the agent may die between two.  Nothing locks the files.      *)
(* Paths are taken inside the stack, without symbolic links.  Of the mode  *)
(* and the owner of a file only whether they were asked for is kept, of    *)
(* those of a directory nothing.                                           *)
(***************************************************************************)
EXTENDS LogRotation, ComposeEdit

CONSTANTS Requests,      \* the requests of the run
          Operations,    \* what they may ask for
          InitialFiles,  \* the files at the start and their content
          MaxDepth,      \* bound: the names of a path that is not too long
          Nothing        \* no operation

\* The places findComposeFile looks in, in its order.
ComposeFiles ==
    << <<"docker-compose.yml">>, <<"docker-compose.yaml">>, <<"compose.yml">>, <<"compose.yaml">> >>

Attributes == {"mode", "owner"}
Reads == {"read", "download"}
Kinds == {"write", "upload", "mkdir", "delete", "rename", "copy", "chmod", "chown", "edit"} \cup Reads

ASSUME OperationsAssumption ==
    /\ IsFiniteSet(DOMAIN InitialFiles) /\ DOMAIN InitialFiles \subseteq Seq(STRING)
    /\ \A op \in Operations :
          /\ op.kind \in Kinds /\ op.set \subseteq Attributes
          /\ op.path \in Seq(STRING) /\ op.to \in Seq(STRING)
          /\ op.kind = "edit" => IsFiniteSet(DOMAIN op.changes.rename)

VARIABLES tree,  \* what is at each path: a directory, or the number of a file
          data,  \* the files that are in the tree or open: content and history
          job    \* the requests

stackVars == <<tree, data, job, logVars>>
fileVars == <<tree, data>>

Dir == 0
Content(text, services) == [text |-> text, services |-> services]
Torn == Content("torn", <<>>)   \* truncated, or written in part, or by two at once
Folder == Content("dir", <<>>)
File(content, set, mixed, exposed, opener) ==
    [content |-> content, set |-> set, mixed |-> mixed, exposed |-> exposed, opener |-> opener]

\* "torn" is nobody's text, and no file is torn at the start.
ASSUME WholeAssumption ==
    "torn" \notin Requests /\ \A p \in DOMAIN InitialFiles : InitialFiles[p] # Torn

Idle == [op |-> Nothing, at |-> "idle", result |-> "none", in |-> Dir, out |-> Dir,
         todo |-> {}, file |-> <<>>, source |-> <<>>, edited |-> Torn, before |-> <<>>, hindered |-> FALSE]
Ended == [Idle EXCEPT !.at = "done"]
Active == { r \in Requests : job[r].at \notin {"idle", "done"} }

StackInit ==
    LET order == SetToSeq(DOMAIN InitialFiles)
        folders == UNION { { SubSeq(p, 1, k) : k \in 0..(Len(p) - 1) } : p \in DOMAIN InitialFiles }
    IN  /\ tree = [p \in folders \cup DOMAIN InitialFiles |->
                       IF p \in folders THEN Dir ELSE CHOOSE n \in DOMAIN order : order[n] = p]
        /\ data = [n \in DOMAIN order |-> File(InitialFiles[order[n]], {}, FALSE, FALSE, {})]
        /\ job = [r \in Requests |-> Idle]
        /\ LogInit

--------------------------------------------------------------------------------
Parent(p) == Front(p)
Children(p) == { q \in DOMAIN tree : Len(q) = Len(p) + 1 /\ IsPrefix(p, q) }
Temp(p) == [p EXCEPT ![Len(p)] = @ \o ".tmp"]
TempNames == { Last(Temp(op.path)) : op \in { o \in Operations : o.kind \in {"write", "upload"} } }

\* The temporary name of a file is not asked for by others: the code keeps nobody from
\* reading or renaming a file under it, and whoever does so sees what is half written.
ASSUME TempNamesAssumption ==
    \A op \in Operations :
        /\ op.kind \in {"write", "upload", "rename"} \cup Reads => Last(op.path) \notin TempNames
        /\ op.kind = "rename" => Last(op.to) \notin TempNames

IsFile(p) == p \in DOMAIN tree /\ tree[p] # Dir
IsDir(p) == p \in DOMAIN tree /\ tree[p] = Dir
Under(p) == { q \in DOMAIN tree : IsPrefix(p, q) }
Look(p) == IF tree[p] = Dir THEN Folder ELSE data[tree[p]].content
SetOf(p) == IF tree[p] = Dir THEN {} ELSE data[tree[p]].set
See(p) == [dir |-> tree[p] = Dir, content |-> Look(p), set |-> SetOf(p)]

\* A path that leads through a file, or whose names are too many, cannot be made.
CanMkdirAll(p) == Len(p) <= MaxDepth /\ \A k \in 0..Len(p) : ~IsFile(SubSeq(p, 1, k))
MkdirAll(p) ==
    [q \in DOMAIN tree \cup { SubSeq(p, 1, k) : k \in 0..Len(p) } |->
         IF q \in DOMAIN tree THEN tree[q] ELSE Dir]

\* The tree, the files and the requests after a step; a file nobody has is gone.
Become(newTree, newData, jobs) ==
    LET live == { newTree[p] : p \in DOMAIN newTree }
                    \cup UNION { {jobs[s].in, jobs[s].out} : s \in Requests }
    IN  /\ tree' = newTree
        /\ data' = Restrict(newData, DOMAIN newData \cap live)
        /\ job' = jobs

Step(newTree, newData, r, newJob) ==
    /\ Become(newTree, newData, [job EXCEPT ![r] = newJob])
    /\ UNCHANGED logVars

Goto(r, place) == Step(tree, data, r, [job[r] EXCEPT !.at = place])
Answer(r, said) ==
    [job[r] EXCEPT !.at = "answer", !.result = said, !.in = Dir, !.out = Dir, !.todo = {},
                           !.source = <<>>]
Ok(r) == Step(tree, data, r, Answer(r, "ok"))
Error(r) == Step(tree, data, r, Answer(r, "error"))

At(r, place, kinds) == job[r].at = place /\ job[r].op.kind \in kinds
--------------------------------------------------------------------------------
\* What an operation works on, with the temporary names it uses.
Touches(op) ==
    CASE op.kind \in {"write", "upload"} -> {op.path, Temp(op.path)}
      [] op.kind \in {"mkdir", "delete", "chmod", "chown"} \cup Reads -> {op.path}
      [] op.kind \in {"rename", "copy"} -> {op.path, op.to}
      [] op.kind = "edit" -> { ComposeFiles[k] : k \in DOMAIN ComposeFiles }

\* compose-validate-*.yml, a name nobody else has.
ValidatePath(r) == <<r>>
ASSUME ValidateAssumption ==
    \A op \in Operations : \A r \in Requests, p \in Touches(op) : ~IsPrefix(ValidatePath(r), p)

Hinders(op1, op2) ==
    /\ op1.kind \notin Reads
    /\ \E p \in Touches(op1), q \in Touches(op2) : IsPrefix(p, q) \/ IsPrefix(q, p)

\* validateStackPath: the stack is there, and a path that does not exist yet is one
\* below a directory.
validateStackPath(p) == IsDir(<<>>) /\ \A k \in 1..(Len(p) - 1) : ~IsFile(SubSeq(p, 1, k))

(***************************************************************************)
(* A request arrives; two that work on the same files hinder each other,   *)
(* but for reads, which hinder nobody.  One that was hindered may have     *)
(* open what has been moved since, and hinders everybody.                  *)
(***************************************************************************)
Begin(r, op) ==
    LET hindered == { s \in Active : Hinders(op, job[s].op) }
    IN  /\ job[r].at = "idle"
        /\ written = 0 \/ \E s \in Requests : job[s].at # "idle"   \* bound
        /\ job' = [s \in Requests |->
                      IF s = r
                      THEN [Idle EXCEPT !.op = op, !.at = "check",
                                        !.before = [p \in DOMAIN tree |-> See(p)],
                                        !.hindered = \E q \in Active :
                                             \/ Hinders(job[q].op, op)
                                             \/ job[q].hindered /\ job[q].op.kind \notin Reads]
                      ELSE [job[s] EXCEPT !.hindered = @ \/ s \in hindered]]
        /\ UNCHANGED <<fileVars, logVars>>

\* What there is to copy, and whether it was a directory when it was looked at.
Task(p, q) == { [from |-> p, to |-> q, isDir |-> IsDir(p)] }

\* Mutant: the target may be there already.
CheckSourceOnly(r) ==
    LET op == job[r].op
    IN  /\ At(r, "check", {"rename", "copy"})
        /\ IF validateStackPath(op.path) /\ op.path \in DOMAIN tree
           THEN Step(tree, data, r, [job[r] EXCEPT !.at = "mkdir", !.todo = Task(op.path, op.to)])
           ELSE Error(r)

\* Rename and Copy: the source is there and the target is not.
CheckTarget(r) ==
    LET op == job[r].op
    IN  /\ At(r, "check", {"rename", "copy"})
        /\ IF /\ validateStackPath(op.path) /\ validateStackPath(op.to)
              /\ op.path \in DOMAIN tree /\ op.to \notin DOMAIN tree
           THEN Step(tree, data, r, [job[r] EXCEPT !.at = "mkdir", !.todo = Task(op.path, op.to)])
           ELSE Error(r)

CheckPath(r) ==
    /\ At(r, "check", {"write", "upload", "mkdir"})
    /\ IF validateStackPath(job[r].op.path) THEN Goto(r, "mkdir") ELSE Error(r)

\* MkdirAll of the parent of the path that is about to be made, or of itself.
MakeParents(r) ==
    LET op == job[r].op
        p == CASE op.kind \in {"write", "upload"} -> Parent(op.path)
               [] op.kind = "mkdir" -> op.path
               [] op.kind \in {"rename", "copy"} -> Parent(op.to)
        next == CASE op.kind \in {"write", "upload"} -> "open"
                  [] op.kind = "mkdir" -> "attributes"
                  [] op.kind \in {"rename", "copy"} -> op.kind
    IN  /\ job[r].at = "mkdir"
        /\ \/ CanMkdirAll(p) /\ Step(MkdirAll(p), data, r, [job[r] EXCEPT !.at = next])
           \/ Error(r)

\* chmod or chown of what is at the path by now.
Changed(p, attributes) ==
    IF IsFile(p) THEN [data EXCEPT ![tree[p]].set = @ \cup attributes] ELSE data

\* After the file, or the directory, is in place.  WriteFile has given the mode to
\* the temporary file when it created it.
SetAttributes(r) ==
    LET op == job[r].op
        wanted == IF op.kind = "upload" THEN op.set ELSE op.set \cap {"owner"}
    IN  /\ job[r].at = "attributes"
        /\ \/ wanted = {} /\ Ok(r)
           \/ /\ wanted # {} /\ op.path \in DOMAIN tree
              /\ Step(tree, Changed(op.path, wanted), r, Answer(r, "ok"))
           \/ /\ wanted # {}
              /\ \E some \in SUBSET wanted \ {wanted} :
                    Step(tree, Changed(op.path, some), r, Answer(r, "error"))

--------------------------------------------------------------------------------
Writers(n) == { s \in Requests : job[s].out = n }
CanOpen(p) == p \in DOMAIN tree => tree[p] # Dir
Fresh == CHOOSE n \in 1..(Cardinality(DOMAIN data) + 1) : n \notin DOMAIN data

(***************************************************************************)
(* A file is created, or the one that is there truncated.  The writes of   *)
(* two that have it open are mixed; it is exposed if it is written in      *)
(* place, or by two at once.                                               *)
(***************************************************************************)
OpenAt(r, p, set, inPlace, next) ==
    LET n == IF IsFile(p) THEN tree[p] ELSE Fresh
        file == File(Torn, IF IsFile(p) THEN data[n].set ELSE set,
                     Writers(n) # {}, inPlace \/ Writers(n) # {}, {r})
    IN  /\ IsDir(Parent(p)) /\ CanOpen(p) /\ Len(p) <= MaxDepth
        /\ Step([q \in DOMAIN tree \cup {p} |-> IF q = p THEN n ELSE tree[q]],
                [m \in DOMAIN data \cup {n} |-> IF m = n THEN file ELSE data[m]],
                r, [next EXCEPT !.out = n])

\* The data after the last write; two that wrote at once may have mixed theirs.
WrittenTo(n, content) ==
    { [data EXCEPT ![n].content = c] :
          c \in {content} \cup (IF data[n].mixed THEN {Torn} ELSE {}) }

\* The mode of os.WriteFile is that of a file it creates, not of one that is there.
ModeAtOpen(r) == IF job[r].op.kind = "write" THEN job[r].op.set \cap {"mode"} ELSE {}

\* Mutant: the file itself is written, without a temporary one.
OpenInPlace(r) ==
    /\ At(r, "open", {"write", "upload"})
    /\ \/ OpenAt(r, job[r].op.path, ModeAtOpen(r), FALSE, [job[r] EXCEPT !.at = "write"])
       \/ Error(r)

\* WriteFile and WriteUploadedFile open the same temporary file of a path.
OpenTemp(r) ==
    /\ At(r, "open", {"write", "upload"})
    /\ \/ OpenAt(r, Temp(job[r].op.path), ModeAtOpen(r), FALSE, [job[r] EXCEPT !.at = "write"])
       \/ Error(r)

\* What os.Remove leaves.
Without(p) == IF Under(p) = {p} THEN Restrict(tree, DOMAIN tree \ {p}) ELSE tree

(***************************************************************************)
(* The content is written and the file closed.  A write that fails leaves  *)
(* the temporary file; an upload removes what is at its name then.         *)
(***************************************************************************)
WriteTemp(r) ==
    LET op == job[r].op
    IN  /\ At(r, "write", {"write", "upload"})
        /\ \/ \E d \in WrittenTo(job[r].out, Content(r, <<>>)) :
                 Step(tree, d, r, [job[r] EXCEPT !.at = "place", !.out = Dir])
           \/ op.kind = "write" /\ Error(r)
           \/ op.kind = "upload" /\ Step(Without(Temp(op.path)), data, r, Answer(r, "error"))

\* What os.Rename does: it replaces a file, and nothing else.
CanRename(p, q) ==
    /\ p \in DOMAIN tree /\ IsDir(Parent(q))
    /\ q \in DOMAIN tree => tree[q] # Dir /\ tree[p] # Dir
    /\ ~IsPrefix(p, q)
Moving(p, q) ==
    LET moved == { q \o SubSeq(s, Len(p) + 1, Len(s)) : s \in Under(p) }
    IN  [s \in (DOMAIN tree \ Under(p)) \cup moved |->
             IF s \in moved THEN tree[p \o SubSeq(s, Len(q) + 1, Len(s))] ELSE tree[s]]

\* A file that is moved by another than the last that opened it is exposed.
Exposed(r, p) ==
    IF IsFile(p) /\ data[tree[p]].opener # {r} THEN [data EXCEPT ![tree[p]].exposed = TRUE] ELSE data

Place(r) ==
    LET p == job[r].op.path
    IN  /\ At(r, "place", {"write", "upload"})
        /\ \/ /\ CanRename(Temp(p), p)
              /\ Step(Moving(Temp(p), p), Exposed(r, Temp(p)), r,
                      [job[r] EXCEPT !.at = "attributes"])
           \/ Step(Without(Temp(p)), data, r, Answer(r, "error"))

(***************************************************************************)
(* Delete: nothing at the path is a success.  RemoveAll is one step, and   *)
(* may stop half-way.                                                      *)
(***************************************************************************)
Delete(r) ==
    LET p == job[r].op.path
    IN  /\ At(r, "check", {"delete"})
        /\ \/ ~validateStackPath(p) /\ Error(r)
           \/ p \notin DOMAIN tree /\ validateStackPath(p) /\ Ok(r)
           \/ /\ p \in DOMAIN tree
              /\ Step(Restrict(tree, DOMAIN tree \ Under(p)), data, r, Answer(r, "ok"))
           \/ \E kept \in SUBSET Under(p) :
                 /\ \A q \in Under(p) : (\E s \in kept : IsPrefix(q, s)) => q \in kept
                 /\ kept # {}
                 /\ Step(Restrict(tree, (DOMAIN tree \ Under(p)) \cup kept), data, r,
                         Answer(r, "error"))

Rename(r) ==
    LET op == job[r].op
    IN  /\ At(r, "rename", {"rename"})
        /\ \/ CanRename(op.path, op.to) /\ Step(Moving(op.path, op.to), data, r, Answer(r, "ok"))
           \/ Error(r)
--------------------------------------------------------------------------------
(***************************************************************************)
(* copyDirectory: the target is made before the source is listed, so that  *)
(* a copy into itself finds the copy and goes on until a path is too long. *)
(***************************************************************************)
copyDirectory(r) ==
    /\ job[r].at = "copy"
    /\ \E t \in job[r].todo :
          /\ t.isDir
          /\ \/ /\ CanMkdirAll(t.to) /\ IsDir(t.from)
                /\ LET made == MkdirAll(t.to)
                       listed == { q \in DOMAIN made : Len(q) = Len(t.from) + 1 /\ IsPrefix(t.from, q) }
                   IN  Step(made, data, r,
                            [job[r] EXCEPT !.todo = (@ \ {t}) \cup
                                 { [from |-> q, to |-> Append(t.to, Last(q)),
                                    isDir |-> made[q] = Dir] : q \in listed }])
             \/ \E made \in {tree} \cup (IF CanMkdirAll(t.to) THEN {MkdirAll(t.to)} ELSE {}) :
                   Step(made, data, r, Answer(r, "error"))

\* copyFile: the source is opened, the target created or truncated in place.
copyFile(r) ==
    /\ job[r].at = "copy"
    /\ \E t \in job[r].todo :
          /\ ~t.isDir
          /\ \/ /\ t.from \in DOMAIN tree
                /\ OpenAt(r, t.to, {}, TRUE,
                          [job[r] EXCEPT !.at = "write", !.in = tree[t.from], !.todo = @ \ {t},
                                         !.source = t.from, !.file = t.to])
             \/ Error(r)

More(r) == [job[r] EXCEPT !.at = "mode", !.in = Dir, !.out = Dir]

Copied(r) ==
    /\ At(r, "write", {"copy"})
    /\ \/ /\ job[r].in # Dir
          /\ \E d \in WrittenTo(job[r].out, data[job[r].in].content) : Step(tree, d, r, More(r))
       \/ Error(r)

\* The mode of what is at the source by now is given to what is at the target.
CopyMode(r) ==
    LET p == job[r].source
        q == job[r].file
    IN  /\ job[r].at = "mode"
        /\ \/ /\ p \in DOMAIN tree /\ q \in DOMAIN tree
              /\ Step(tree,
                      IF IsFile(q)
                      THEN [data EXCEPT ![tree[q]].set = (@ \ {"mode"}) \cup (SetOf(p) \cap {"mode"})]
                      ELSE data,
                      r, [job[r] EXCEPT !.at = "copy", !.source = <<>>, !.file = <<>>])
           \/ Error(r)

CopyEnds(r) == job[r].at = "copy" /\ job[r].todo = {} /\ Ok(r)
--------------------------------------------------------------------------------
CheckAttributes(r) ==
    LET p == job[r].op.path
    IN  /\ At(r, "check", {"chmod", "chown"})
        /\ IF validateStackPath(p) /\ p \in DOMAIN tree
           THEN Step(tree, data, r, [job[r] EXCEPT !.at = "walk", !.todo = Task(p, p)])
           ELSE Error(r)

(***************************************************************************)
(* chmodRecursive and chownRecursive: one path, then what is below it by   *)
(* now; the first that has gone or cannot be changed ends it.              *)
(***************************************************************************)
ChangeNext(r) ==
    LET attribute == IF job[r].op.kind = "chmod" THEN "mode" ELSE "owner"
    IN  /\ job[r].at = "walk"
        /\ \E t \in job[r].todo :
              \/ /\ t.from \in DOMAIN tree
                 /\ Step(tree, Changed(t.from, {attribute}), r,
                         [job[r] EXCEPT !.todo = (@ \ {t}) \cup
                              UNION { Task(q, q) : q \in Children(t.from) }])
              \/ Error(r)

WalkEnds(r) == job[r].at = "walk" /\ job[r].todo = {} /\ Ok(r)
--------------------------------------------------------------------------------
(***************************************************************************)
(* ReadFile and OpenFile: a file is at the path.  Of a file that changes   *)
(* while it is read a part may be what it was and the rest what it is now. *)
(* A download is entered in the log before it is sent.                     *)
(***************************************************************************)
CheckFile(r) ==
    /\ At(r, "check", Reads)
    /\ IF validateStackPath(job[r].op.path) /\ IsFile(job[r].op.path)
       THEN Goto(r, "open") ELSE Error(r)

OpenToRead(r) ==
    LET p == job[r].op.path
        opened == [job[r] EXCEPT !.at = IF job[r].op.kind = "read" THEN "read" ELSE "answer",
                                 !.result = "ok", !.in = tree[p], !.edited = Look(p)]
    IN  /\ At(r, "open", Reads)
        /\ \/ IsFile(p) /\ Step(tree, data, r, opened)
           \/ Error(r)

ReadContent(r) ==
    LET now == data[job[r].in].content
        given == {now, IF now = job[r].edited THEN now ELSE Torn}
    IN  /\ job[r].at \in {"read", "stream"}
        /\ \E content \in given :
              Step(tree, data, r,
                   [job[r] EXCEPT !.at = IF @ = "read" THEN "answer" ELSE "sent", !.edited = content])

\* What cannot be read, or sent to the end.
ReadFails(r) ==
    \/ job[r].at = "read" /\ Error(r)
    \/ job[r].at \in {"stream", "sent"} /\ Step(tree, data, r, Ended)
--------------------------------------------------------------------------------
\* findComposeFile: the first of the names that is there.
Candidates == { k \in DOMAIN ComposeFiles : ComposeFiles[k] \in DOMAIN tree }
ComposeFile == ComposeFiles[CHOOSE k \in Candidates : \A m \in Candidates : k <= m]

(***************************************************************************)
(* UpdateCompose finds and reads the file and changes what it has read.    *)
(* The start of a file that is being written may be read and parsed.       *)
(***************************************************************************)
EditRead(r) ==
    /\ At(r, "check", {"edit"})
    /\ \/ /\ Candidates # {} /\ IsFile(ComposeFile)
          /\ LET read == Look(ComposeFile)
             IN  \E doc \in applyChangesToYaml(read.services, job[r].op.changes) :
                    /\ doc.ok
                    /\ Step(tree, data, r,
                            [job[r] EXCEPT !.at = "validate", !.file = ComposeFile,
                                           !.edited = Content(read.text, doc.services)])
       \/ /\ \/ Candidates = {} \/ IsDir(ComposeFile)
             \/ Look(ComposeFile) = Torn
             \/ Refused \in applyChangesToYaml(Look(ComposeFile).services, job[r].op.changes)
          /\ Error(r)

\* validateComposeYaml: the document is written beside the file and loaded there.
ValidateBegins(r) ==
    /\ At(r, "validate", {"edit"})
    /\ \/ LET file == File(job[r].edited, {}, FALSE, TRUE, {})
          IN  /\ IsDir(Parent(ValidatePath(r))) /\ ValidatePath(r) \notin DOMAIN tree
              /\ Step([q \in DOMAIN tree \cup {ValidatePath(r)} |->
                           IF q = ValidatePath(r) THEN Fresh ELSE tree[q]],
                      [m \in DOMAIN data \cup {Fresh} |-> IF m = Fresh THEN file ELSE data[m]],
                      r, [job[r] EXCEPT !.at = "load"])
       \/ Error(r)

\* Loaded under wdMutex; the temporary file is removed whatever the outcome.
Load(r) ==
    /\ At(r, "load", {"edit"})
    /\ \/ /\ Consistent(job[r].edited.services)
          /\ Step(Without(ValidatePath(r)), data, r, [job[r] EXCEPT !.at = "open"])
       \/ Step(Without(ValidatePath(r)), data, r, Answer(r, "error"))

\* os.WriteFile of the compose file itself: truncated, then written.
EditOpen(r) ==
    /\ At(r, "open", {"edit"})
    /\ \/ OpenAt(r, job[r].file, {}, TRUE, [job[r] EXCEPT !.at = "write"])
       \/ Error(r)

EditWrite(r) ==
    /\ At(r, "write", {"edit"})
    /\ \/ \E d \in WrittenTo(job[r].out, job[r].edited) : Step(tree, d, r, Answer(r, "ok"))
       \/ Error(r)
--------------------------------------------------------------------------------
\* The handler enters the outcome of a file request in the audit log and answers.
Respond(r) ==
    LET sends == job[r].op.kind = "download" /\ job[r].result = "ok"
        next == IF sends THEN [job[r] EXCEPT !.at = "stream"] ELSE Ended
    IN  /\ job[r].at = "answer"
        /\ Become(tree, data, [job EXCEPT ![r] = next])
        /\ IF job[r].op.kind = "edit" THEN UNCHANGED logVars ELSE Log

\* Another request of the agent is entered in the audit log.  Bound: no request
\* on the files comes with these.
LogOther ==
    /\ \A r \in Requests : job[r].at = "idle"
    /\ Log
    /\ UNCHANGED <<fileVars, job>>

\* The agent dies and starts again; its requests end where they are.
Restart ==
    /\ NewService
    /\ Become(tree, data, [r \in Requests |-> IF job[r].at = "idle" THEN Idle ELSE Ended])

DayPasses == Midnight /\ UNCHANGED <<fileVars, job>>

Work(r) ==
    \/ CheckTarget(r) \/ CheckPath(r) \/ MakeParents(r) \/ SetAttributes(r)
    \/ OpenTemp(r) \/ WriteTemp(r) \/ Place(r) \/ Delete(r) \/ Rename(r)
    \/ copyDirectory(r) \/ copyFile(r) \/ Copied(r) \/ CopyMode(r) \/ CopyEnds(r)
    \/ CheckAttributes(r) \/ ChangeNext(r) \/ WalkEnds(r)
    \/ CheckFile(r) \/ OpenToRead(r) \/ ReadContent(r) \/ ReadFails(r)
    \/ EditRead(r) \/ ValidateBegins(r) \/ Load(r) \/ EditOpen(r) \/ EditWrite(r)
    \/ Respond(r)

StackNext ==
    \/ \E r \in Requests, op \in Operations : Begin(r, op)
    \/ \E r \in Requests : Work(r)
    \/ LogOther
    \/ Restart
    \/ DayPasses

StackSpec == StackInit /\ [][StackNext]_stackVars
--------------------------------------------------------------------------------
\* A read or a download that has the content it gives.
Given(r) ==
    /\ job[r].in # Dir
    /\ At(r, "answer", {"read"}) \/ At(r, "sent", {"download"})

(***************************************************************************)
(* What is written or uploaded is seen as a whole or not at all, at every  *)
(* moment, after a crash, and by whoever reads it meanwhile: a file that   *)
(* is not is a temporary one, or is written in place by a copy or an edit, *)
(* or two requests had it open under its temporary name at once, or one    *)
(* moved it from there that was not the last to open it.                   *)
(***************************************************************************)
WholeFiles ==
    /\ \A p \in DOMAIN tree :
          (IsFile(p) /\ Look(p) = Torn) =>
              Last(p) \in TempNames \/ data[tree[p]].exposed
    /\ \A r \in Requests :
          (Given(r) /\ job[r].edited = Torn) => data[job[r].in].exposed

Touched(r, paths) == { p \in paths : \E q \in Touches(job[r].op) : IsPrefix(q, p) }
Found(r) == Restrict(job[r].before, Touched(r, DOMAIN job[r].before))
Left(r) == [p \in Touched(r, DOMAIN tree) |-> See(p)]
Below(f, p) == { q \in DOMAIN f : IsPrefix(p, q) }
Elsewhere(f, p) == Restrict(f, DOMAIN f \ Below(f, p))
Onto(f, p, q) ==
    [s \in { q \o SubSeq(t, Len(p) + 1, Len(t)) : t \in Below(f, p) } |->
         f[p \o SubSeq(s, Len(q) + 1, Len(s))]]
\* A temporary file that was left keeps its mode and its owner.
Written(r) ==
    { [dir |-> FALSE, content |-> Content(r, <<>>), set |-> set] :
          set \in IF Temp(job[r].op.path) \in DOMAIN Found(r) THEN SUBSET Attributes
                                                            ELSE {job[r].op.set} }
Created == [dir |-> TRUE, content |-> Folder, set |-> {}]
Dirs(paths) == [p \in paths |-> Created]
\* f, and g where f has nothing: @@, spelt out to be reasoned about.
Both(f, g) == [p \in DOMAIN f \cup DOMAIN g |-> IF p \in DOMAIN f THEN f[p] ELSE g[p]]
Edited(r, was) ==
    [was EXCEPT !.content = Content(@.text, Meaning(@.services, job[r].op.changes))]
WithSet(seen, attribute) ==
    IF seen.dir THEN seen ELSE [seen EXCEPT !.set = @ \cup {attribute}]
\* A copy is given the mode of its source and the owner of the agent.
Copy(found, p, q) ==
    LET onto == Onto(found, p, q)
    IN  [s \in DOMAIN onto |-> [onto[s] EXCEPT !.set = @ \ {"owner"}]]

\* What a request that found the files so has to leave when it says "ok".
Accomplished(r) ==
    LET op == job[r].op
        found == Found(r)
        left == Left(r)
    IN  CASE op.kind \in {"write", "upload"} ->
                 DOMAIN left = {op.path} /\ left[op.path] \in Written(r)
          [] op.kind = "mkdir" -> left = Both(found, Dirs({op.path}))
          [] op.kind = "delete" -> left = <<>>
          [] op.kind = "rename" ->
                 /\ op.path \in DOMAIN found /\ op.to \notin DOMAIN found
                 /\ left = Onto(found, op.path, op.to)
          [] op.kind = "copy" ->
                 /\ op.path \in DOMAIN found /\ op.to \notin DOMAIN found
                 /\ left = Both(found, Copy(found, op.path, op.to))
          [] op.kind = "chmod" -> left = [p \in DOMAIN found |-> WithSet(found[p], "mode")]
          [] op.kind = "chown" -> left = [p \in DOMAIN found |-> WithSet(found[p], "owner")]
          [] op.kind \in Reads -> left = found
          [] op.kind = "edit" ->
                 /\ job[r].file \in DOMAIN found
                 /\ left = [found EXCEPT ![job[r].file] = Edited(r, @)]

\* With the directories that were made on the way to a path in what it works on.
WithParents(found, p) ==
    { Both(found, Dirs(new)) : new \in SUBSET { SubSeq(p, 1, k) : k \in 0..(Len(p) - 1) } }

\* What it may leave when it says "error".
Spared(r) ==
    LET op == job[r].op
        found == Found(r)
        left == Left(r)
        Same(p) == left[p].content = found[p].content
    IN  CASE op.kind \in {"write", "upload"} ->
                 LET rest == Elsewhere(left, Temp(op.path))
                 IN  \/ rest = Elsewhere(found, Temp(op.path))
                     \/ DOMAIN rest = {op.path} /\ rest[op.path].content = Content(r, <<>>)
          [] op.kind = "mkdir" -> left \in { found, Dirs({op.path}) }
          [] op.kind = "delete" ->
                 DOMAIN left \subseteq DOMAIN found /\ \A p \in DOMAIN left : left[p] = found[p]
          [] op.kind \in Reads -> left = found
          [] op.kind = "rename" -> left \in WithParents(found, op.to)
          [] op.kind = "copy" ->
                 /\ Elsewhere(left, op.to) \in WithParents(Elsewhere(found, op.to), op.to)
                 /\ op.to \in DOMAIN found => left = found
          [] op.kind \in {"chmod", "chown"} ->
                 DOMAIN left = DOMAIN found /\ \A p \in DOMAIN left : Same(p)
          [] op.kind = "edit" ->
                 \/ left = found
                 \/ left = [found EXCEPT ![job[r].file].content = Torn]

\* A service is renamed that is not there, before another takes its name.
RenamesNothing(r) ==
    /\ job[r].op.kind = "edit"
    /\ job[r].file \in DOMAIN job[r].before
    /\ ~(DOMAIN job[r].op.changes.rename \subseteq DOMAIN job[r].before[job[r].file].content.services)

(***************************************************************************)
(* A request that shares its files with no other one does all it was asked *)
(* or spares what was there: a rename moves everything or nothing, a copy  *)
(* leaves its source alone and replaces nothing, a failed write keeps the  *)
(* old file, an edit renames all services at once with what depends on     *)
(* them, chmod reaches all files, a reader gets what was there. A failed   *)
(* edit may leave a torn compose file; one that renames a service that is  *)
(* not there may be accepted, as the order of a map goes; a file written   *)
(* over a temporary one that was left has its mode and owner.              *)
(***************************************************************************)
Atomic(r) ==
    ~job[r].hindered =>
        /\ job[r].at = "answer" =>
              IF job[r].result = "ok" THEN Accomplished(r) \/ RenamesNothing(r) ELSE Spared(r)
        /\ Given(r) => job[r].edited = job[r].before[job[r].op.path].content

UnhinderedIsAtomic == \A r \in Requests : Atomic(r)

================================================================================
