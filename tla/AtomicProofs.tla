------------------------------ MODULE AtomicProofs ------------------------------
(***************************************************************************)
(* Proofs about the requests on a stack's files, module StackFiles: one    *)
(* that nobody works on the files of does all that it was asked to do, or  *)
(* changes nothing, for any other requests at the same time, any files,    *)
(* failures and restarts (RequestsAreAtomic).                              *)
(*                                                                         *)
(* Two invariants carry it.  Isolated: while a request is not hindered, no *)
(* other has a path that it works on, or one of its files open to write.   *)
(* OnCourse: what such a request has before it, in the tree and in the     *)
(* files, is where its kind is at that step, counted from what it found    *)
(* (Progress).  A step of another request leaves that alone because of     *)
(* Isolated; a step of its own takes it from one stage to the next.        *)
(*                                                                         *)
(* What a step can change is in module DiskProofs, and so is what the      *)
(* changes of an edit mean (EditsMean).                                    *)
(***************************************************************************)
EXTENDS DiskProofs

--------------------------------------------------------------------------------
(***************************************************************************)
(* A request that is not hindered has its files to itself.                 *)
(***************************************************************************)
Free(k) == k.at \notin {"idle", "done"} /\ ~k.hindered
Busy(k) == k.at \notin {"idle", "done"} /\ k.op.kind \notin Reads

\* Nobody else works on its files, or has one of them open.
Alone(t, j) ==
    \A u, s \in Requests : u # s /\ Free(j[u]) /\ Busy(j[s]) =>
        /\ ~Hinders(j[s].op, j[u].op)
        /\ \A p \in DOMAIN t : On(j[u].op, p) /\ t[p] = j[s].out => t[p] = Dir

\* What it has open itself is one of its files.
OwnOut(t, j) ==
    \A s \in Requests : Free(j[s]) /\ Busy(j[s]) =>
        \A p \in DOMAIN t : t[p] = j[s].out /\ t[p] # Dir => On(j[s].op, p)

Isolated == FilesSafe /\ Alone(tree, job) /\ OwnOut(tree, job)

\* What an operation works on is the same.
SameFor(op, t, d, u, e) ==
    \A p \in Paths : On(op, p) =>
        /\ p \in DOMAIN u <=> p \in DOMAIN t
        /\ p \in DOMAIN t => u[p] = t[p] /\ (t[p] # Dir => e[t[p]] = d[t[p]])

LEMMA Remains ==
    ASSUME NEW t, NEW d, NEW j, Become(t, d, j)
    PROVE  /\ tree' = t /\ job' = j
           /\ DOMAIN data' \subseteq DOMAIN d /\ \A n \in DOMAIN data' : data'[n] = d[n]
           /\ \A p \in DOMAIN t : t[p] \in DOMAIN d => t[p] \in DOMAIN data'
           /\ \A r \in Requests : /\ j[r].in \in DOMAIN d => j[r].in \in DOMAIN data'
                                  /\ j[r].out \in DOMAIN d => j[r].out \in DOMAIN data'
<1> DEFINE live == { t[p] : p \in DOMAIN t } \cup UNION { {j[s].in, j[s].out} : s \in Requests }
<1>1. tree' = t /\ data' = Restrict(d, DOMAIN d \cap live) /\ job' = j
  BY DEF Become
<1>2. DOMAIN data' = DOMAIN d \cap live /\ \A n \in DOMAIN data' : data'[n] = d[n]
  BY <1>1 DEF Restrict
<1>3. /\ \A p \in DOMAIN t : t[p] \in live
      /\ \A r \in Requests : j[r].in \in live /\ j[r].out \in live
  OBVIOUS
<1> HIDE DEF live
<1> QED
  BY <1>1, <1>2, <1>3

\* The step of one request leaves alone what another works on.
LEMMA OthersStay ==
    ASSUME Isolated, NEW r \in Requests, Busy(job[r]), NEW t, NEW d, NEW k, WorkedTo(r, t, d, k),
           NEW u \in Requests, u # r, Free(job[u])
    PROVE  SameFor(job[u].op, tree, data, tree', data')
<1> DEFINE op == job[r].op
           mine == job[u].op
<1>1. TreeStep(r, op, t) /\ DataStep(r, op, d) /\ Become(t, d, [job EXCEPT ![r] = k])
  BY DEF WorkedTo
<1>2. FilesSafe /\ op \in Operations /\ mine \in Operations
  <2>1. FilesSafe /\ job[r].at \notin {"idle", "done"} /\ job[u].at \notin {"idle", "done"}
    BY DEF Isolated, Busy, Free
  <2> QED
    BY <2>1, Worker
<1>3. /\ op.kind \notin Reads /\ ~Hinders(op, mine)
      /\ \A p \in DOMAIN tree : On(mine, p) /\ tree[p] = job[r].out => tree[p] = Dir
  BY DEF Isolated, Alone, Busy
<1>4. \A p \in Area(r, op) : ~On(mine, p)
  BY <1>2, <1>3, AreaApart
<1>5. /\ tree' = t /\ DOMAIN data' \subseteq DOMAIN d /\ \A n \in DOMAIN data' : data'[n] = d[n]
      /\ \A p \in DOMAIN t : t[p] \in DOMAIN d => t[p] \in DOMAIN data'
  BY <1>1, Remains
<1>6. ASSUME NEW p \in Paths, On(mine, p)
      PROVE  /\ p \in DOMAIN t <=> p \in DOMAIN tree
             /\ p \in DOMAIN tree => t[p] = tree[p]
  BY <1>1, <1>4, <1>6 DEF TreeStep, Within
<1>7. ASSUME NEW p \in DOMAIN tree, On(mine, p), tree[p] # Dir
      PROVE  data'[tree[p]] = data[tree[p]]
  <2>1. p \in Paths /\ tree[p] \in DOMAIN data
    BY <1>2, <1>7, SafePaths
  <2>2. tree[p] # job[r].out
    BY <1>3, <1>7
  <2>3. ~\E q \in Area(r, op) : q \in DOMAIN tree /\ tree[q] = tree[p]
    <3>1. \A q \in DOMAIN tree : tree[q] = tree[p] => q = p
      BY <1>2, <1>7, SafePaths
    <3> QED
      BY <1>4, <1>7, <3>1
  <2>4. tree[p] \in DOMAIN d /\ d[tree[p]] = data[tree[p]]
    BY <1>1, <2>1, <2>2, <2>3 DEF DataStep, Untouched
  <2>5. p \in DOMAIN t /\ t[p] = tree[p]
    BY <1>6, <1>7, <2>1
  <2> QED
    BY <1>5, <2>4, <2>5
<1> QED
  BY <1>5, <1>6, <1>7 DEF SameFor

\* A read leaves everything alone.
LEMMA ReadsLeave ==
    ASSUME FilesSafe, NEW r \in Requests, job[r].op.kind \in Reads, NEW t, NEW d, NEW k, WorkedTo(r, t, d, k),
           NEW op
    PROVE  SameFor(op, tree, data, tree', data')
<1>1. t = tree /\ d = data /\ Become(t, d, [job EXCEPT ![r] = k])
  BY DEF WorkedTo
<1>2. /\ tree' = tree /\ \A n \in DOMAIN data' : data'[n] = data[n]
      /\ \A p \in DOMAIN tree : tree[p] \in DOMAIN data => tree[p] \in DOMAIN data'
  BY <1>1, Remains
<1>3. \A p \in DOMAIN tree : tree[p] # Dir => tree[p] \in DOMAIN data
  BY SafePaths
<1> QED
  BY <1>2, <1>3 DEF SameFor

LEMMA SafeNext ==
    ASSUME FilesSafe, FilesInv', NEW r \in Requests, NEW t, NEW d, NEW k, WorkedTo(r, t, d, k)
    PROVE  FilesSafe'
<1>1. /\ Closed(t) /\ SetsIn(d) /\ Own(k)
      /\ Become(t, d, [job EXCEPT ![r] = k])
  BY DEF WorkedTo, TreeStep, DataStep, JobStep
<1>2. /\ tree' = t /\ job' = [job EXCEPT ![r] = k]
      /\ DOMAIN data' \subseteq DOMAIN d /\ \A n \in DOMAIN data' : data'[n] = d[n]
  BY <1>1, Remains
<1>3. Closed(tree)'
  BY <1>1, <1>2 DEF Closed
<1>4. SetsIn(data)'
  BY <1>1, <1>2 DEF SetsIn
<1>5. \A s \in Requests : Own(job[s])'
  <2>1. DOMAIN job = Requests
    BY DEF FilesSafe, FilesInv, FilesSound
  <2>2. \A s \in Requests : job'[s] = IF s = r THEN k ELSE job[s]
    BY <1>2, <2>1
  <2>3. \A s \in Requests : Own(job'[s])
    BY <1>1, <2>2 DEF FilesSafe
  <2> QED
    BY <2>3 DEF Own
<1> QED
  BY <1>3, <1>4, <1>5 DEF FilesSafe

\* What a request has open next is what it had, or one of its files.
LEMMA OutNext ==
    ASSUME FilesSafe, FilesInv', NEW r \in Requests, NEW t, NEW d, NEW k, WorkedTo(r, t, d, k),
           NEW p \in DOMAIN t, t[p] = k.out, t[p] # Dir
    PROVE  On(job[r].op, p) \/ (t[p] = job[r].out /\ t[p] \in DOMAIN data)
<1>1. tree' = t
  BY Remains DEF WorkedTo
<1>2. \A x, y \in DOMAIN t : t[x] = t[y] /\ t[x] # Dir => x = y
  BY <1>1 DEF FilesInv, FilesSound, TreeSound
<1>3. k.out \in {Dir, job[r].out} \/ \E q \in DOMAIN t : On(job[r].op, q) /\ t[q] = k.out
  BY DEF WorkedTo, JobStep
<1>4. job[r].out \in DOMAIN data \cup {Dir}
  BY DEF FilesSafe, FilesInv, FilesSound, RequestSound, JobSound
<1> QED
  BY <1>2, <1>3, <1>4

LEMMA WorkIsolated ==
    ASSUME Isolated, FilesInv', NEW r \in Requests, job[r].at \notin {"idle", "done"},
           NEW t, NEW d, NEW k, WorkedTo(r, t, d, k)
    PROVE  Isolated'
<1> DEFINE op == job[r].op
<1>1. FilesSafe /\ FilesSafe'
  BY SafeNext DEF Isolated
<1>2. /\ TreeStep(r, op, t) /\ JobStep(r, op, t, k) /\ Become(t, d, [job EXCEPT ![r] = k])
      /\ op.kind \in Reads => t = tree
  BY DEF WorkedTo
<1>3. tree' = t /\ \A s \in Requests : job'[s] = IF s = r THEN k ELSE job[s]
  <2>1. DOMAIN job = Requests
    BY <1>1 DEF FilesSafe, FilesInv, FilesSound
  <2>2. tree' = t /\ job' = [job EXCEPT ![r] = k]
    BY <1>2, Remains
  <2> QED
    BY <2>1, <2>2
<1>4. \A s \in Requests : job[s].at \notin {"idle", "done"} => job[s].op \in Operations
  BY <1>1, Worker
<1>5. k.at = "done" \/ (k.op = op /\ k.hindered = job[r].hindered)
  BY <1>2, EndedIs DEF JobStep
<1>6. \A s \in Requests : /\ Free(job'[s]) => Free(job[s]) /\ job'[s].op = job[s].op
                          /\ Busy(job'[s]) => Busy(job[s]) /\ job'[s].op = job[s].op
  BY <1>3, <1>5 DEF Free, Busy
<1>7. \A s \in Requests : job[s].out \in DOMAIN data \cup {Dir}
  BY <1>1 DEF FilesSafe, FilesInv, FilesSound, RequestSound, JobSound
<1>8. \A x, y \in DOMAIN t : t[x] = t[y] /\ t[x] # Dir => x = y
  BY <1>3 DEF FilesInv, FilesSound, TreeSound
<1>9. DOMAIN t \subseteq Paths
  BY <1>1, <1>3 DEF FilesInv, FilesSound, TreeSound
\* A file that was in the tree is where it was, or where r works.
<1>10. ASSUME NEW p \in DOMAIN t, t[p] # Dir, t[p] \in DOMAIN data
       PROVE  \/ p \in DOMAIN tree /\ tree[p] = t[p]
              \/ Busy(job[r]) /\ On(op, p) /\ \E q \in DOMAIN tree : On(op, q) /\ tree[q] = t[p]
  <2>1. CASE op.kind \in Reads
    BY <1>2, <2>1
  <2>2. CASE op.kind \notin Reads
    BY <1>2, <1>10, <2>2 DEF TreeStep, Comes, Busy
  <2> QED
    BY <2>1, <2>2
<1>11. \A u, s \in Requests : u # s /\ Free(job[u]) /\ Busy(job[s]) =>
           /\ ~Hinders(job[s].op, job[u].op)
           /\ \A p \in DOMAIN tree : On(job[u].op, p) /\ tree[p] = job[s].out => tree[p] = Dir
  BY DEF Isolated, Alone
<1>12. \A s \in Requests : Free(job[s]) /\ Busy(job[s]) =>
           \A p \in DOMAIN tree : tree[p] = job[s].out /\ tree[p] # Dir => On(job[s].op, p)
  BY DEF Isolated, OwnOut
\* Two that do not hinder each other have no path together.
<1>13. ASSUME NEW u \in Requests, NEW s \in Requests, u # s, Free(job[u]), Busy(job[s]),
              NEW p \in Paths, On(job[s].op, p)
       PROVE  ~On(job[u].op, p)
  <2>1. p \in Area(s, job[s].op)
    BY <1>13, OnIsInArea
  <2>2. job[s].op \in Operations /\ job[u].op \in Operations /\ job[s].op.kind \notin Reads
    BY <1>4, <1>13 DEF Free, Busy
  <2> QED
    BY <1>11, <1>13, <2>1, <2>2, AreaApart
<1>14. ASSUME NEW u \in Requests, NEW s \in Requests, u # s, Free(job'[u]), Busy(job'[s])
       PROVE  /\ ~Hinders(job'[s].op, job'[u].op)
              /\ \A p \in DOMAIN t : On(job'[u].op, p) /\ t[p] = job'[s].out => t[p] = Dir
  <2>1. /\ Free(job[u]) /\ Busy(job[s]) /\ job'[u].op = job[u].op /\ job'[s].op = job[s].op
    BY <1>6, <1>14
  <2>2. ~Hinders(job'[s].op, job'[u].op)
    BY <1>11, <1>14, <2>1
  <2>3. ASSUME NEW p \in DOMAIN t, On(job[u].op, p), t[p] = job'[s].out, t[p] # Dir
        PROVE  FALSE
    <3>0. p \in Paths
      BY <1>9
    <3>1. ~On(job[s].op, p)
      BY <1>13, <1>14, <2>1, <2>3, <3>0
    <3>2. t[p] = job[s].out /\ t[p] \in DOMAIN data
      <4>1. CASE s = r
        <5>1. t[p] = k.out
          BY <1>3, <2>3, <4>1
        <5> QED
          BY <1>1, <2>3, <3>1, <4>1, <5>1, OutNext
      <4>2. CASE s # r
        BY <1>3, <1>7, <2>3, <4>2
      <4> QED
        BY <4>1, <4>2
    <3>3. CASE p \in DOMAIN tree /\ tree[p] = t[p]
      BY <1>11, <1>14, <2>1, <2>3, <3>2, <3>3
    <3>4. ASSUME Busy(job[r]), On(op, p), NEW q \in DOMAIN tree, On(op, q), tree[q] = t[p]
          PROVE  FALSE
      <4>1. u = r
        BY <1>13, <2>1, <2>3, <3>0, <3>4
      <4> QED
        BY <1>11, <1>14, <2>1, <2>3, <3>2, <3>4, <4>1
    <3> QED
      BY <1>10, <2>3, <3>2, <3>3, <3>4
  <2> QED
    BY <2>1, <2>2, <2>3
<1>15. ASSUME NEW s \in Requests, Free(job'[s]), Busy(job'[s]),
              NEW p \in DOMAIN t, t[p] = job'[s].out, t[p] # Dir
       PROVE  On(job'[s].op, p)
  <2>1. Free(job[s]) /\ Busy(job[s]) /\ job'[s].op = job[s].op
    BY <1>6, <1>15
  <2> SUFFICES ASSUME ~On(job[s].op, p) PROVE FALSE
    BY <2>1
  <2>2. t[p] = job[s].out /\ t[p] \in DOMAIN data
    <3>1. CASE s = r
      <4>1. t[p] = k.out
        BY <1>3, <1>15, <3>1
      <4> QED
        BY <1>1, <1>15, <3>1, <4>1, OutNext
    <3>2. CASE s # r
      BY <1>3, <1>7, <1>15, <3>2
    <3> QED
      BY <3>1, <3>2
  <2>3. CASE p \in DOMAIN tree /\ tree[p] = t[p]
    BY <1>12, <1>15, <2>1, <2>2, <2>3
  <2>4. ASSUME Busy(job[r]), On(op, p), NEW q \in DOMAIN tree, On(op, q), tree[q] = t[p]
        PROVE  FALSE
    <3>1. s # r
      BY <2>4
    <3>2. On(job[s].op, q) /\ q \in Paths
      BY <1>1, <1>12, <1>15, <2>1, <2>2, <2>4, SafePaths
    <3> QED
      BY <1>13, <2>1, <2>4, <3>1, <3>2
  <2> QED
    BY <1>10, <1>15, <2>2, <2>3, <2>4
<1>16. Alone(t, job') /\ OwnOut(t, job')
  BY <1>14, <1>15 DEF Alone, OwnOut
<1>17. Alone(tree', job') /\ OwnOut(tree', job')
  BY <1>3, <1>16
<1> QED
  BY <1>1, <1>17 DEF Isolated, Alone, OwnOut, Free, Busy, Hinders, On

LEMMA BeginIsolated ==
    ASSUME Isolated, FilesInv', NEW r \in Requests, NEW op \in Operations, Begin(r, op)
    PROVE  Isolated'
<1> DEFINE k == [Idle EXCEPT !.op = op, !.at = "check",
                             !.before = [p \in DOMAIN tree |-> See(p)],
                             !.hindered = \E q \in Active :
                                  \/ Hinders(job[q].op, op)
                                  \/ job[q].hindered /\ job[q].op.kind \notin Reads]
           hindered(s) == job[s].hindered \/ s \in { q \in Active : Hinders(op, job[q].op) }
           other(s) == [job[s] EXCEPT !.hindered = hindered(s)]
<1>0. FilesSafe
  BY DEF Isolated
<1>1. /\ job[r].at = "idle" /\ tree' = tree /\ data' = data
      /\ job'[r] = k /\ \A s \in Requests \ {r} : job'[s] = other(s)
  BY DEF Begin, fileVars
<1>2. \A s \in Requests : DOMAIN job[s] = Fields
  BY <1>0 DEF FilesSafe, FilesInv, FilesSound, RequestSound, JobSound
<1>3. /\ k.op = op /\ k.at = "check" /\ k.out = Dir /\ k.todo = {}
      /\ k.hindered = \E q \in Active :
                          \/ Hinders(job[q].op, op)
                          \/ job[q].hindered /\ job[q].op.kind \notin Reads
  BY DEF Idle
<1>4. \A s \in Requests :
         /\ other(s).op = job[s].op /\ other(s).at = job[s].at /\ other(s).out = job[s].out
         /\ other(s).todo = job[s].todo /\ other(s).source = job[s].source
         /\ other(s).file = job[s].file
         /\ other(s).hindered = (job[s].hindered \/ s \in { q \in Active : Hinders(op, job[q].op) })
  BY <1>2 DEF Fields
<1> HIDE DEF k, other
<1>5. \A s \in Requests : job[s].at \notin {"idle", "done"} => s \in Active /\ job[s].op \in Operations
  BY <1>0, Worker DEF Active
<1>6. Own(k)
  BY <1>3 DEF Own
<1>7. \A s \in Requests : Own(other(s))
  <2> TAKE s \in Requests
  <2>1. Own(job[s])
    BY <1>0 DEF FilesSafe
  <2> QED
    BY <1>4, <2>1 DEF Own
<1>8. FilesSafe'
  <2>1. \A s \in Requests : Own(job'[s])
    BY <1>1, <1>6, <1>7
  <2>2. Closed(tree') /\ SetsIn(data')
    BY <1>0, <1>1 DEF FilesSafe
  <2>3. Closed(tree)' /\ SetsIn(data)'
    BY <2>2 DEF Closed, SetsIn
  <2>4. \A s \in Requests : Own(job[s])'
    BY <2>1 DEF Own
  <2> QED
    BY <2>3, <2>4 DEF FilesSafe
<1>9. \A u, s \in Requests : u # s /\ Free(job[u]) /\ Busy(job[s]) =>
          /\ ~Hinders(job[s].op, job[u].op)
          /\ \A p \in DOMAIN tree : On(job[u].op, p) /\ tree[p] = job[s].out => tree[p] = Dir
  BY DEF Isolated, Alone
<1>10. \A s \in Requests : Free(job[s]) /\ Busy(job[s]) =>
           \A p \in DOMAIN tree : tree[p] = job[s].out /\ tree[p] # Dir => On(job[s].op, p)
  BY DEF Isolated, OwnOut
<1>11. ASSUME NEW u \in Requests, NEW s \in Requests, u # s, Free(job'[u]), Busy(job'[s])
       PROVE  /\ ~Hinders(job'[s].op, job'[u].op)
              /\ \A p \in DOMAIN tree : On(job'[u].op, p) /\ tree[p] = job'[s].out => tree[p] = Dir
  <2>1. CASE u = r
    <3>1. /\ job'[s].op = job[s].op /\ job'[s].out = job[s].out /\ s \in Active
          /\ job[s].at \notin {"idle", "done"} /\ job[s].op \in Operations
          /\ job[s].op.kind \notin Reads /\ job'[u].op = op /\ ~k.hindered
      BY <1>1, <1>3, <1>4, <1>5, <1>11, <2>1, Zenon DEF Free, Busy
    <3>2. ~Hinders(job[s].op, op) /\ ~job[s].hindered
      BY <1>3, <3>1
    <3>3. Free(job[s]) /\ Busy(job[s])
      BY <3>1, <3>2 DEF Free, Busy
    <3>4. ASSUME NEW p \in DOMAIN tree, On(op, p), tree[p] = job[s].out, tree[p] # Dir
          PROVE  FALSE
      <4>1. On(job[s].op, p) /\ p \in Paths
        BY <1>0, <1>10, <3>3, <3>4, SafePaths
      <4>2. p \in Area(s, job[s].op)
        BY <4>1, OnIsInArea
      <4> QED
        BY <3>1, <3>2, <3>4, <4>2, AreaApart
    <3> QED
      BY <3>1, <3>2, <3>4
  <2>2. CASE u # r /\ s = r
    <3>1. /\ job'[u].op = job[u].op /\ job'[s].op = op /\ job'[s].out = Dir
          /\ u \in Active /\ u \notin { q \in Active : Hinders(op, job[q].op) }
      BY <1>1, <1>3, <1>4, <1>5, <1>11, <2>2, Zenon DEF Free
    <3> QED
      BY <3>1
  <2>3. CASE u # r /\ s # r
    <3>1. /\ job'[u].op = job[u].op /\ job'[s].op = job[s].op /\ job'[s].out = job[s].out
          /\ Free(job[u]) /\ Busy(job[s])
      BY <1>1, <1>4, <1>11, <2>3 DEF Free, Busy
    <3> QED
      BY <1>9, <1>11, <3>1
  <2> QED
    BY <2>1, <2>2, <2>3
<1>12. ASSUME NEW s \in Requests, Free(job'[s]), Busy(job'[s]),
              NEW p \in DOMAIN tree, tree[p] = job'[s].out, tree[p] # Dir
       PROVE  On(job'[s].op, p)
  <2>1. CASE s = r
    BY <1>1, <1>3, <1>12, <2>1
  <2>2. CASE s # r
    <3>1. /\ job'[s].op = job[s].op /\ job'[s].out = job[s].out /\ Free(job[s]) /\ Busy(job[s])
      BY <1>1, <1>4, <1>12, <2>2 DEF Free, Busy
    <3> QED
      BY <1>10, <1>12, <3>1
  <2> QED
    BY <2>1, <2>2
<1>13. Alone(tree, job') /\ OwnOut(tree, job')
  BY <1>11, <1>12 DEF Alone, OwnOut
<1>14. Alone(tree', job') /\ OwnOut(tree', job')
  BY <1>1, <1>13
<1> QED
  BY <1>8, <1>14 DEF Isolated, Alone, OwnOut, Free, Busy, Hinders, On

LEMMA RestartIsolated == ASSUME Isolated, FilesInv', Restart PROVE Isolated'
<1> DEFINE i == [r \in Requests |-> IF job[r].at = "idle" THEN Idle ELSE Ended]
<1>1. Become(tree, data, i)
  BY DEF Restart
<1>2. /\ tree' = tree /\ job' = i
      /\ DOMAIN data' \subseteq DOMAIN data /\ \A n \in DOMAIN data' : data'[n] = data[n]
  BY <1>1, Remains
<1>3. \A s \in Requests : job'[s] = Idle \/ job'[s] = Ended
  BY <1>2
<1> HIDE DEF i
<1>4. Own(Idle) /\ Idle.at = "idle" /\ Own(Ended) /\ Ended.at = "done"
  <2>1. Idle.at = "idle" /\ Idle.out = Dir /\ Idle.todo = {}
    BY DEF Idle
  <2> QED
    BY <2>1, EndedIs DEF Own
<1>5. \A s \in Requests : Own(job'[s]) /\ job'[s].at \in {"idle", "done"}
  BY <1>3, <1>4
<1>6. FilesSafe'
  <2>1. Closed(tree) /\ SetsIn(data)
    BY DEF Isolated, FilesSafe
  <2>2. Closed(tree)' /\ SetsIn(data)'
    BY <1>2, <2>1 DEF Closed, SetsIn
  <2>3. \A s \in Requests : Own(job[s])'
    BY <1>5 DEF Own
  <2> QED
    BY <2>2, <2>3 DEF FilesSafe
<1>7. Alone(tree, job)' /\ OwnOut(tree, job)'
  BY <1>5 DEF Alone, OwnOut, Free, Busy
<1> QED
  BY <1>6, <1>7 DEF Isolated

\* At the start the directories are those of the files.
LEMMA InitIsolated == StackInit => Isolated
<1> DEFINE order == SetToSeq(DOMAIN InitialFiles)
           folders == UNION { { SubSeq(p, 1, k) : k \in 0..(Len(p) - 1) } : p \in DOMAIN InitialFiles }
<1> SUFFICES ASSUME StackInit PROVE Isolated
  OBVIOUS
<1>1. /\ DOMAIN tree = folders \cup DOMAIN InitialFiles
      /\ \A p \in folders : tree[p] = Dir
      /\ data = [n \in DOMAIN order |-> File(InitialFiles[order[n]], {}, FALSE, FALSE, {})]
      /\ job = [r \in Requests |-> Idle]
  BY DEF StackInit
<1>2. FilesInv
  BY StackInitSound
<1>3. DOMAIN tree \subseteq Paths
  BY <1>2 DEF FilesInv, FilesSound, TreeSound
<1>4. ASSUME NEW f \in DOMAIN InitialFiles, NEW q \in Paths, IsPrefix(q, f), q # f
      PROVE  q \in folders
  <2>1. f \in Paths /\ Len(f) \in Nat /\ Len(q) \in Nat
    BY <1>1, <1>3, PrefixLaws
  <2>2. Len(q) \in 0..Len(f) /\ q = SubSeq(f, 1, Len(q))
    BY <1>4, <2>1, PrefixIsStart
  <2>3. Len(q) # Len(f)
    BY <1>4, <2>1, PrefixLaws
  <2>4. Len(q) \in 0..(Len(f) - 1)
    BY <2>1, <2>2, <2>3
  <2>5. q \in { SubSeq(f, 1, k) : k \in 0..(Len(f) - 1) }
    BY <2>2, <2>4
  <2> QED
    BY <2>5
<1>5. ASSUME NEW p \in folders
      PROVE  \E f \in DOMAIN InitialFiles : f \in Paths /\ p \in Paths /\ IsPrefix(p, f) /\ p # f
  <2>0. PICK f \in DOMAIN InitialFiles : \E k \in 0..(Len(f) - 1) : p = SubSeq(f, 1, k)
    OBVIOUS
  <2>1. PICK k \in 0..(Len(f) - 1) : p = SubSeq(f, 1, k)
    BY <2>0
  <2>2. f \in Paths /\ Len(f) \in Nat
    BY <1>1, <1>3, PrefixLaws
  <2>3. k \in 0..Len(f) /\ k # Len(f)
    BY <2>1, <2>2
  <2>4. p \in Paths /\ IsPrefix(p, f) /\ Len(p) = k
    BY <2>1, <2>2, <2>3, Start
  <2> QED
    BY <2>2, <2>3, <2>4
<1> HIDE DEF folders
<1>6. Closed(tree)
  <2> SUFFICES ASSUME NEW p \in DOMAIN tree, NEW q \in Paths, IsPrefix(q, p), q # p
               PROVE  q \in DOMAIN tree /\ tree[q] = Dir
    BY DEF Closed
  <2>1. CASE p \in DOMAIN InitialFiles
    BY <1>1, <1>4, <2>1
  <2>2. CASE p \in folders
    <3>1. PICK f \in DOMAIN InitialFiles : f \in Paths /\ p \in Paths /\ IsPrefix(p, f) /\ p # f
      BY <1>5, <2>2
    <3>2. IsPrefix(q, f) /\ q # f
      BY <3>1, PrefixLaws
    <3> QED
      BY <1>1, <1>4, <3>2
  <2> QED
    BY <1>1, <2>1, <2>2
<1>7. SetsIn(data)
  BY <1>1 DEF SetsIn, File
<1>8. \A r \in Requests : Own(job[r]) /\ job[r].at = "idle"
  <2>1. Idle.at = "idle" /\ Idle.out = Dir /\ Idle.todo = {}
    BY DEF Idle
  <2>2. Own(Idle)
    BY <2>1 DEF Own
  <2> QED
    BY <1>1, <2>1, <2>2
<1> QED
  BY <1>2, <1>6, <1>7, <1>8 DEF Isolated, FilesSafe, Alone, OwnOut, Free, Busy

LEMMA NextIsolated == ASSUME Isolated, FilesInv', [StackNext]_stackVars PROVE Isolated'
<1>1. CASE UNCHANGED <<fileVars, job>>
  <2>1. tree' = tree /\ data' = data /\ job' = job
    BY <1>1 DEF fileVars
  <2>2. Closed(tree') /\ SetsIn(data') /\ (\A r \in Requests : Own(job'[r]))
        /\ Alone(tree', job') /\ OwnOut(tree', job')
    BY <2>1 DEF Isolated, FilesSafe
  <2> QED
    BY <2>2 DEF Isolated, FilesSafe, Closed, SetsIn, Own, Alone, OwnOut, Free, Busy, Hinders, On
<1>2. ASSUME NEW r \in Requests, Work(r) PROVE Isolated'
  <2>1. Worked(r) /\ job[r].at \notin {"idle", "done"}
    BY <1>2, WorkIsWorked DEF Isolated
  <2> QED
    BY <2>1, WorkIsolated DEF Worked
<1>3. LogOther \/ DayPasses \/ UNCHANGED stackVars => UNCHANGED <<fileVars, job>>
  BY DEF LogOther, DayPasses, stackVars, fileVars
<1> QED
  BY <1>1, <1>2, <1>3, BeginIsolated, RestartIsolated DEF StackNext

\* A request that is not hindered is alone with its files.
LEMMA IsolatedHolds == StackSpec => []Isolated
<1>1. FilesInv /\ FilesInv' /\ Isolated /\ [StackNext]_stackVars => Isolated'
  BY NextIsolated
<1> QED
  BY <1>1, InitIsolated, FilesInvHolds, PTL DEF StackSpec
--------------------------------------------------------------------------------
(***************************************************************************)
(* What a request found when it began and what it has before it now.  f    *)
(* and g are what is at some paths, as See gives it.                       *)
(***************************************************************************)
SeenFields == {"dir", "content", "set"}
Sight(s) ==
    /\ DOMAIN s = SeenFields /\ s = [dir |-> s.dir, content |-> s.content, set |-> s.set]
    /\ s.set \subseteq Attributes /\ s.dir \in BOOLEAN /\ (s.dir => s = Created)

IsTable(f) == f = [x \in DOMAIN f |-> f[x]]

\* Something seen at paths that has the directories above each, as far as the operation works.
View(op, f) ==
    /\ IsTable(f)
    /\ \A p \in DOMAIN f : p \in Paths /\ On(op, p) /\ Sight(f[p])
    /\ \A p \in DOMAIN f, q \in Paths : On(op, q) /\ IsPrefix(q, p) /\ q # p =>
           q \in DOMAIN f /\ f[q] = Created

\* All that was there when a request began.
Seen(f) ==
    /\ IsTable(f)
    /\ \A p \in DOMAIN f : p \in Paths /\ Sight(f[p])
    /\ \A p \in DOMAIN f, q \in Paths : IsPrefix(q, p) /\ q # p => q \in DOMAIN f /\ f[q] = Created

\* What is at a path: a directory, or a file with what it has in it.
SeenAt(t, d, p) ==
    IF t[p] = Dir THEN Created
    ELSE [dir |-> FALSE, content |-> d[t[p]].content, set |-> d[t[p]].set]

Where(op, f) == { q \in DOMAIN f : On(op, q) }

\* What an operation has before it: where it works, each file with its number.
Scene(op, t, d) ==
    [p \in Where(op, t) |->
         [node |-> t[p], mixed |-> t[p] # Dir /\ d[t[p]].mixed, seen |-> SeenAt(t, d, p)]]
LeftIn(w) == [p \in DOMAIN w |-> w[p].seen]
FoundBy(k) == Restrict(k.before, Where(k.op, k.before))

LEMMA TablesEqual ==
    ASSUME NEW f, NEW g, IsTable(f), IsTable(g), DOMAIN f = DOMAIN g, \A x \in DOMAIN f : f[x] = g[x]
    PROVE  f = g
BY DEF IsTable

LEMMA SceneIs ==
    ASSUME NEW op, NEW t, NEW d
    PROVE  /\ DOMAIN Scene(op, t, d) = Where(op, t)
           /\ DOMAIN LeftIn(Scene(op, t, d)) = Where(op, t)
           /\ \A p \in DOMAIN LeftIn(Scene(op, t, d)) :
                 /\ Scene(op, t, d)[p].node = t[p]
                 /\ Scene(op, t, d)[p].mixed = (t[p] # Dir /\ d[t[p]].mixed)
                 /\ LeftIn(Scene(op, t, d))[p] = SeenAt(t, d, p)
           /\ IsTable(LeftIn(Scene(op, t, d)))
BY DEF Scene, LeftIn, IsTable

LEMMA SightIs ==
    ASSUME NEW t, NEW d, NEW p, t[p] # Dir => d[t[p]].set \subseteq Attributes
    PROVE  /\ Sight(SeenAt(t, d, p)) /\ (SeenAt(t, d, p).dir <=> t[p] = Dir)
           /\ t[p] # Dir => /\ SeenAt(t, d, p).content = d[t[p]].content
                            /\ SeenAt(t, d, p).set = d[t[p]].set
           /\ t[p] = Dir => SeenAt(t, d, p) = Created
<1>1. CASE t[p] = Dir
  <2>1. Sight(Created) /\ Created.dir
    BY DEF Sight, SeenFields, Created
  <2> QED
    BY <1>1, <2>1 DEF SeenAt
<1>2. CASE t[p] # Dir
  <2> DEFINE s == [dir |-> FALSE, content |-> d[t[p]].content, set |-> d[t[p]].set]
  <2>1. /\ DOMAIN s = SeenFields /\ s.dir = FALSE /\ s.content = d[t[p]].content /\ s.set = d[t[p]].set
        /\ s = [dir |-> s.dir, content |-> s.content, set |-> s.set]
    BY DEF SeenFields
  <2>2. SeenAt(t, d, p) = s
    BY <1>2 DEF SeenAt
  <2> HIDE DEF s
  <2> QED
    BY <1>2, <2>1, <2>2 DEF Sight
<1> QED
  BY <1>1, <1>2

\* Any tree is seen so.
LEMMA SceneViewed ==
    ASSUME NEW op, NEW t, NEW d, Closed(t), SetsIn(d), TreeSound(t, d)
    PROVE  View(op, LeftIn(Scene(op, t, d)))
<1> DEFINE left == LeftIn(Scene(op, t, d))
<1>1. /\ DOMAIN left = Where(op, t)
      /\ \A p \in DOMAIN left : left[p] = SeenAt(t, d, p)
      /\ IsTable(left)
  BY SceneIs
<1> HIDE DEF left
<1>2. \A p \in DOMAIN left : /\ p \in Paths /\ Sight(left[p]) /\ On(op, p)
                             /\ t[p] = Dir => left[p] = Created
  <2> TAKE p \in DOMAIN left
  <2>1. p \in DOMAIN t /\ p \in Paths /\ On(op, p) /\ left[p] = SeenAt(t, d, p)
    BY <1>1 DEF Where, TreeSound
  <2>2. t[p] # Dir => d[t[p]].set \subseteq Attributes
    BY <2>1 DEF SetsIn, TreeSound
  <2> QED
    BY <2>1, <2>2, SightIs
<1>3. ASSUME NEW p \in DOMAIN left, NEW q \in Paths, On(op, q), IsPrefix(q, p), q # p
      PROVE  q \in DOMAIN left /\ left[q] = Created
  BY <1>1, <1>2, <1>3 DEF Where, Closed
<1> QED
  BY <1>1, <1>2, <1>3 DEF View, left

LEMMA BeginSees ==
    ASSUME FilesSafe
    PROVE  /\ Seen([p \in DOMAIN tree |-> See(p)])
           /\ \A op \in Operations :
                 Restrict([p \in DOMAIN tree |-> See(p)], Where(op, tree))
                     = LeftIn(Scene(op, tree, data))
<1> DEFINE f == [p \in DOMAIN tree |-> See(p)]
<1>1. \A p \in DOMAIN tree : See(p) = SeenAt(tree, data, p)
  BY DEF See, SeenAt, Look, SetOf, Created
<1>2. DOMAIN f = DOMAIN tree /\ \A p \in DOMAIN tree : f[p] = SeenAt(tree, data, p)
  BY <1>1
<1>3. IsTable(f)
  BY DEF IsTable
<1>4. Closed(tree) /\ SetsIn(data) /\ TreeSound(tree, data)
  BY DEF FilesSafe, FilesInv, FilesSound
<1> HIDE DEF f
<1>5. \A p \in DOMAIN f : p \in Paths /\ Sight(f[p]) /\ (tree[p] = Dir => f[p] = Created)
  <2> TAKE p \in DOMAIN f
  <2>1. p \in DOMAIN tree /\ p \in Paths /\ f[p] = SeenAt(tree, data, p)
    BY <1>2, <1>4 DEF TreeSound
  <2>2. tree[p] # Dir => data[tree[p]].set \subseteq Attributes
    BY <1>4, <2>1 DEF SetsIn, TreeSound
  <2> QED
    BY <2>1, <2>2, SightIs
<1>6. Seen(f)
  <2>1. ASSUME NEW p \in DOMAIN f, NEW q \in Paths, IsPrefix(q, p), q # p
        PROVE  q \in DOMAIN f /\ f[q] = Created
    BY <1>2, <1>4, <1>5, <2>1 DEF Closed
  <2> QED
    BY <1>3, <1>5, <2>1 DEF Seen
<1>7. ASSUME NEW op \in Operations
      PROVE  Restrict(f, Where(op, tree)) = LeftIn(Scene(op, tree, data))
  <2> DEFINE left == LeftIn(Scene(op, tree, data))
             S == Where(op, tree)
  <2>1. /\ DOMAIN left = S /\ \A p \in DOMAIN left : left[p] = SeenAt(tree, data, p)
        /\ IsTable(left)
    BY SceneIs
  <2>2. IsTable(Restrict(f, S)) /\ DOMAIN Restrict(f, S) = S /\ \A p \in S : Restrict(f, S)[p] = f[p]
    BY DEF Restrict, IsTable
  <2>3. \A p \in S : p \in DOMAIN tree
    BY DEF Where
  <2> HIDE DEF left, S
  <2>5. Restrict(f, S) = left
    BY <1>2, <2>1, <2>2, <2>3, TablesEqual
  <2> QED
    BY <2>5 DEF left, S
<1> QED
  BY <1>6, <1>7 DEF f

LEMMA FoundIs ==
    ASSUME NEW k, Seen(k.before)
    PROVE  /\ View(k.op, FoundBy(k))
           /\ \A p : p \in DOMAIN FoundBy(k) <=> p \in DOMAIN k.before /\ On(k.op, p)
           /\ \A p \in DOMAIN FoundBy(k) : FoundBy(k)[p] = k.before[p]
<1> DEFINE f == FoundBy(k)
<1>1. /\ DOMAIN f = Where(k.op, k.before)
      /\ \A p \in DOMAIN f : f[p] = k.before[p]
      /\ IsTable(f)
  BY DEF FoundBy, Restrict, IsTable
<1> HIDE DEF f
<1>2. View(k.op, f)
  BY <1>1 DEF Where, View, Seen
<1> QED
  BY <1>1, <1>2 DEF Where, f

\* Found and Left.
LEMMA FoundLeft ==
    ASSUME NEW r
    PROVE  Found(r) = FoundBy(job[r]) /\ Left(r) = LeftIn(Scene(job[r].op, tree, data))
<1>1. \A p \in DOMAIN tree : See(p) = SeenAt(tree, data, p)
  BY DEF See, SeenAt, Look, SetOf, Created
<1>2. Left(r) = [p \in Where(job[r].op, tree) |-> SeenAt(tree, data, p)]
  BY <1>1 DEF Where, Left, Touched, On
<1>3. LeftIn(Scene(job[r].op, tree, data))
          = [p \in Where(job[r].op, tree) |-> SeenAt(tree, data, p)]
  BY DEF LeftIn, Scene
<1>4. Found(r) = FoundBy(job[r])
  BY DEF Where, Found, FoundBy, Touched, On
<1> QED
  BY <1>2, <1>3, <1>4

\* What is before an operation does not change with what is elsewhere.
LEMMA SceneSame ==
    ASSUME NEW op, NEW t, NEW d, NEW u, NEW e, SameFor(op, t, d, u, e),
           DOMAIN t \subseteq Paths, DOMAIN u \subseteq Paths
    PROVE  Scene(op, u, e) = Scene(op, t, d)
<1> DEFINE S == Where(op, t)
           U == Where(op, u)
<1>1. U = S
  BY DEF Where, SameFor
<1>2. \A p \in S : u[p] = t[p] /\ (t[p] # Dir => e[t[p]] = d[t[p]])
  BY DEF Where, SameFor
<1>3. \A p \in S : /\ SeenAt(u, e, p) = SeenAt(t, d, p)
                   /\ (u[p] # Dir /\ e[u[p]].mixed) = (t[p] # Dir /\ d[t[p]].mixed)
  BY <1>2 DEF SeenAt
<1> HIDE DEF S, U
<1>4. [p \in U |-> [node |-> u[p], mixed |-> u[p] # Dir /\ e[u[p]].mixed, seen |-> SeenAt(u, e, p)]]
    = [p \in S |-> [node |-> t[p], mixed |-> t[p] # Dir /\ d[t[p]].mixed, seen |-> SeenAt(t, d, p)]]
  BY <1>1, <1>2, <1>3
<1> QED
  BY <1>4 DEF Scene, S, U

LEMMA SceneBecomes ==
    ASSUME FilesInv', NEW op, NEW t, NEW d, NEW j, Become(t, d, j)
    PROVE  Scene(op, tree', data') = Scene(op, t, d)
<1>1. /\ tree' = t /\ DOMAIN data' \subseteq DOMAIN d
      /\ \A n \in DOMAIN data' : data'[n] = d[n]
  BY Remains
<1>2. /\ DOMAIN tree' \subseteq Paths
      /\ \A p \in DOMAIN tree' : tree'[p] # Dir => tree'[p] \in DOMAIN data'
  BY DEF FilesInv, FilesSound, TreeSound
<1>3. SameFor(op, t, d, tree', data')
  BY <1>1, <1>2 DEF SameFor
<1> QED
  BY <1>1, <1>2, <1>3, SceneSame
--------------------------------------------------------------------------------
(***************************************************************************)
(* How far a request has come that has its files to itself, by its kind: k *)
(* is the request, f what it found, w what it has before it.               *)
(***************************************************************************)
ReadProgress(k, f, w) ==
    /\ LeftIn(w) = f
    /\ k.in # Dir => /\ k.op.path \in DOMAIN w /\ w[k.op.path].node = k.in
                     /\ k.edited = f[k.op.path].content

Made(op, f, left) == left = Both(f, Dirs({op.path}))
MakeProgress(k, f, w) ==
    LET left == LeftIn(w)
    IN  /\ k.at \in {"check", "mkdir"} => left = f
        /\ k.at = "attributes" =>
              Made(k.op, f, left) /\ k.op.path \in DOMAIN left /\ left[k.op.path] = Created
        /\ k.at = "answer" => IF k.result = "ok" THEN Made(k.op, f, left)
                              ELSE left = f \/ Made(k.op, f, left)

DeleteProgress(k, f, w) ==
    LET left == LeftIn(w)
    IN  /\ k.at = "check" => left = f
        /\ k.at = "answer" =>
              IF k.result = "ok" THEN left = <<>>
              ELSE DOMAIN left \subseteq DOMAIN f /\ \A p \in DOMAIN left : left[p] = f[p]

RenameProgress(k, f, w) ==
    LET left == LeftIn(w)
        op == k.op
        target == op.path \in DOMAIN f /\ op.to \notin DOMAIN f
    IN  /\ k.at \in {"check", "mkdir"} => left = f
        /\ k.at \in {"mkdir", "rename"} => target
        /\ k.at = "rename" =>
              left \in WithParents(f, op.to) /\ (~IsPrefix(op.path, op.to) => left = f)
        /\ k.at = "answer" =>
              IF k.result = "ok" THEN target /\ left = Onto(f, op.path, op.to)
              ELSE left \in WithParents(f, op.to)

\* The modes and owners a temporary file may have.
TempSets(op, f, set) == IF Temp(op.path) \in DOMAIN f THEN SUBSET Attributes ELSE {set}
WriteProgress(r, k, f, w) ==
    LET left == LeftIn(w)
        op == k.op
        temp == Temp(op.path)
        set == IF op.kind = "write" THEN op.set \cap {"mode"} ELSE {}
        text == Content(r, <<>>)
        Rest(g) == Elsewhere(g, temp)
    IN  /\ k.at \in {"check", "mkdir", "open"} => left = f
        /\ k.at \in {"write", "place"} =>
              /\ temp \in DOMAIN w /\ Rest(left) = Rest(f)
              /\ ~left[temp].dir /\ left[temp].set \in TempSets(op, f, set)
        /\ k.at = "write" => w[temp].node = k.out /\ ~w[temp].mixed
        /\ k.at = "place" => left[temp].content = text
        /\ k.at = "attributes" =>
              /\ DOMAIN left = {op.path} /\ ~left[op.path].dir
              /\ left[op.path].content = text /\ left[op.path].set \in TempSets(op, f, set)
        /\ k.at = "answer" =>
              IF k.result = "ok"
              THEN /\ DOMAIN left = {op.path} /\ ~left[op.path].dir
                   /\ left[op.path].content = text /\ left[op.path].set \in TempSets(op, f, op.set)
              ELSE \/ Rest(left) = Rest(f)
                   \/ DOMAIN Rest(left) = {op.path} /\ left[op.path].content = text

ChangeProgress(k, f, w) ==
    LET left == LeftIn(w)
        attribute == IF k.op.kind = "chmod" THEN "mode" ELSE "owner"
    IN  /\ DOMAIN left = DOMAIN f
        /\ \A p \in DOMAIN f : left[p] \in {f[p], WithSet(f[p], attribute)}
        /\ k.at = "walk" => \A p \in DOMAIN f : \/ left[p] = WithSet(f[p], attribute)
                                               \/ \E t \in k.todo : IsPrefix(t.from, p)
        /\ k.at = "answer" /\ k.result = "ok" =>
              \A p \in DOMAIN f : left[p] = WithSet(f[p], attribute)
        /\ k.at = "check" => left = f

EditProgress(k, f, w) ==
    LET left == LeftIn(w)
        was == f[k.file].content
        cut == [f EXCEPT ![k.file].content = Torn]
    IN  /\ k.at \in {"check", "validate", "load", "open"} => left = f
        /\ k.at \in {"validate", "load", "open", "write"} \/ (k.at = "answer" /\ k.result = "ok") =>
              /\ k.file \in DOMAIN f /\ ~f[k.file].dir
              /\ \E doc \in applyChangesToYaml(was.services, k.op.changes) :
                    doc.ok /\ k.edited = Content(was.text, doc.services)
        /\ k.at = "write" => /\ k.file \in DOMAIN w
                             /\ w[k.file].node = k.out /\ ~w[k.file].mixed /\ left = cut
        /\ k.at = "answer" =>
              IF k.result = "ok" THEN left = [f EXCEPT ![k.file].content = k.edited]
              ELSE left = f \/ (k.file \in DOMAIN f /\ left = cut)

\* The other end of a copy.
Across(x, p, q) == q \o SubSeq(x, Len(p) + 1, Len(x))
CopyOf(seen) == [seen EXCEPT !.set = @ \ {"owner"}]
CopyingOut(k, f, w) ==
    LET left == LeftIn(w)
        op == k.op
        busy == k.at \in {"write", "mode"}
    IN  /\ Elsewhere(left, op.to) = f
        /\ \A t \in k.todo : /\ t.from \in DOMAIN f /\ IsPrefix(op.path, t.from)
                             /\ t.to = Across(t.from, op.path, op.to)
                             /\ t.isDir = f[t.from].dir
        /\ \A x \in Below(left, op.to) : LET y == Across(x, op.to, op.path) IN
              /\ y \in DOMAIN f
              /\ left[x] = CopyOf(f[y]) \/ (busy /\ x = k.file)
        /\ \A y \in Below(f, op.path) :
              \/ Across(y, op.path, op.to) \in DOMAIN left
              \/ \E t \in k.todo : IsPrefix(t.from, y)
        /\ busy =>
              /\ k.source \in Below(f, op.path) /\ ~f[k.source].dir
              /\ k.file = Across(k.source, op.path, op.to) /\ k.file \in DOMAIN w
              /\ ~left[k.file].dir /\ left[k.file].set \subseteq {"mode"}
        /\ k.at = "write" =>
              /\ w[k.file].node = k.out /\ ~w[k.file].mixed
              /\ w[k.source].node = k.in
        /\ k.at = "mode" => left[k.file].content = f[k.source].content

CopyProgress(k, f, w) ==
    LET left == LeftIn(w)
        op == k.op
    IN  /\ k.at \in {"check", "mkdir"} => left = f
        /\ k.at \in {"mkdir", "copy", "write", "mode"} =>
              op.path \in DOMAIN f /\ op.to \notin DOMAIN f
        /\ k.at = "mkdir" => k.todo = { [from |-> op.path, to |-> op.to, isDir |-> f[op.path].dir] }
        /\ k.at \in {"copy", "write", "mode"} =>
              IF IsPrefix(op.path, op.to)
              THEN /\ Elsewhere(left, op.to) \in WithParents(f, op.to)
                   /\ \A t \in k.todo : IsPrefix(op.to, t.to)
                   /\ k.at # "copy" => IsPrefix(op.to, k.file)
                   /\ k.at = "write" => k.file \in DOMAIN w /\ w[k.file].node = k.out
                   /\ \E t \in k.todo : t.isDir /\ IsPrefix(t.from, t.to) /\ t.from # t.to
              ELSE CopyingOut(k, f, w)
        /\ k.at = "answer" =>
              IF k.result = "ok"
              THEN /\ op.path \in DOMAIN f /\ op.to \notin DOMAIN f
                   /\ left = Both(f, Copy(f, op.path, op.to))
              ELSE \/ left = f
                   \/ op.to \notin DOMAIN f /\ Elsewhere(left, op.to) \in WithParents(f, op.to)

Progress(r, k, w) ==
    LET f == FoundBy(k)
        kind == k.op.kind
    IN  /\ kind \in Reads => ReadProgress(k, f, w)
        /\ kind = "mkdir" => MakeProgress(k, f, w)
        /\ kind = "delete" => DeleteProgress(k, f, w)
        /\ kind = "rename" => RenameProgress(k, f, w)
        /\ kind \in {"write", "upload"} => WriteProgress(r, k, f, w)
        /\ kind \in {"chmod", "chown"} => ChangeProgress(k, f, w)
        /\ kind = "edit" => EditProgress(k, f, w)
        /\ kind = "copy" => CopyProgress(k, f, w)
OnCourse ==
    \A r \in Requests :
        /\ job[r].at \notin {"idle", "done"} => Seen(job[r].before)
        /\ Free(job[r]) => Progress(r, job[r], Scene(job[r].op, tree, data))

\* What has to be shown of a request that makes a step.
Proceeds(r) == Free(job'[r]) => Progress(r, job'[r], Scene(job'[r].op, tree', data'))

LEMMA StepProceeds ==
    ASSUME Isolated, FilesInv', NEW r \in Requests, NEW t, NEW d, NEW k,
           Step(t, d, r, k) \/ Become(t, d, [job EXCEPT ![r] = k]),
           Free(k) => Progress(r, k, Scene(k.op, t, d))
    PROVE  Proceeds(r)
<1>1. Become(t, d, [job EXCEPT ![r] = k])
  BY DEF Step
<1>2. DOMAIN job = Requests
  BY DEF Isolated, FilesSafe, FilesInv, FilesSound
<1>3. job' = [job EXCEPT ![r] = k]
  BY <1>1, Remains
<1>4. job'[r] = k
  BY <1>2, <1>3
<1>5. Scene(k.op, tree', data') = Scene(k.op, t, d)
  BY <1>1, SceneBecomes
<1> QED
  BY <1>4, <1>5 DEF Proceeds

\* What there is to know of a request before its step.
LEMMA Course ==
    ASSUME Isolated, OnCourse, NEW r \in Requests, Free(job[r])
    PROVE  /\ FilesSafe /\ job[r].op \in Operations /\ job[r].op.kind \in Kinds
           /\ job[r].at \notin {"idle", "done"}
           /\ job[r].op.path \in Paths /\ job[r].op.to \in Paths
           /\ DOMAIN job[r] = Fields /\ Own(job[r]) /\ JobSound(data, job[r])
           /\ Seen(job[r].before) /\ View(job[r].op, FoundBy(job[r]))
           /\ View(job[r].op, LeftIn(Scene(job[r].op, tree, data)))
           /\ Progress(r, job[r], Scene(job[r].op, tree, data))
<1>1. FilesSafe /\ job[r].at \notin {"idle", "done"}
  BY DEF Isolated, Free
<1>2. Seen(job[r].before) /\ Progress(r, job[r], Scene(job[r].op, tree, data))
  BY <1>1 DEF OnCourse
<1>3. View(job[r].op, FoundBy(job[r]))
  BY <1>2, FoundIs
<1>4. Closed(tree) /\ SetsIn(data) /\ TreeSound(tree, data)
  BY <1>1 DEF FilesSafe, FilesInv, FilesSound
<1>5. View(job[r].op, LeftIn(Scene(job[r].op, tree, data)))
  BY <1>4, SceneViewed
<1> QED
  BY <1>1, <1>2, <1>3, <1>5, Worker

LEMMA SameFound ==
    ASSUME NEW k, NEW m, k.op = m.op, k.before = m.before
    PROVE  FoundBy(k) = FoundBy(m)
BY DEF FoundBy

LEMMA AnswerIs ==
    ASSUME NEW r, DOMAIN job[r] = Fields, NEW said
    PROVE  LET k == Answer(r, said)
           IN  /\ k.op = job[r].op /\ k.before = job[r].before /\ k.at = "answer" /\ k.result = said
               /\ k.in = Dir /\ k.out = Dir /\ k.todo = {} /\ k.file = job[r].file
               /\ k.edited = job[r].edited
               /\ FoundBy(k) = FoundBy(job[r])
<1> DEFINE k == Answer(r, said)
<1>1. /\ k.op = job[r].op /\ k.before = job[r].before /\ k.at = "answer" /\ k.result = said
      /\ k.in = Dir /\ k.out = Dir /\ k.todo = {} /\ k.file = job[r].file /\ k.edited = job[r].edited
  BY DEF Answer, Fields
<1> HIDE DEF k
<1>2. FoundBy(k) = FoundBy(job[r])
  BY <1>1, SameFound
<1> QED
  BY <1>1, <1>2 DEF k

\* Directories are made on the way to a path: they are seen as created.
LEMMA MkdirSeen ==
    ASSUME FilesSafe, NEW op \in Operations, NEW p \in Paths, CanMkdirAll(p)
    PROVE  LET w == Scene(op, tree, data)
               v == Scene(op, MkdirAll(p), data)
           IN  /\ \A x : x \in DOMAIN LeftIn(v) <=>
                            x \in DOMAIN LeftIn(w) \/ (x \in Paths /\ On(op, x) /\ IsPrefix(x, p))
               /\ DOMAIN v = DOMAIN LeftIn(v)
               /\ \A x \in DOMAIN LeftIn(w) : /\ v[x].node = w[x].node /\ v[x].mixed = w[x].mixed
                                              /\ LeftIn(v)[x] = LeftIn(w)[x]
               /\ \A x \in DOMAIN LeftIn(v) : IsPrefix(x, p) => LeftIn(v)[x] = Created
               /\ IsTable(LeftIn(v))
<1> DEFINE u == MkdirAll(p)
           w == Scene(op, tree, data)
           v == Scene(op, u, data)
           left == LeftIn(w)
           now == LeftIn(v)
<1>1. /\ \A x \in Paths : x \in DOMAIN u <=> x \in DOMAIN tree \/ IsPrefix(x, p)
      /\ \A x \in DOMAIN u : u[x] = IF x \in DOMAIN tree THEN tree[x] ELSE Dir
      /\ \A x \in Paths : IsPrefix(x, p) => ~IsFile(x)
      /\ DOMAIN u \subseteq Paths /\ DOMAIN tree \subseteq Paths
  BY MkdirAllIs, SafePaths
<1> HIDE DEF u
<1>2. /\ DOMAIN left = Where(op, tree)
      /\ \A x \in DOMAIN left : /\ w[x].node = tree[x]
                                /\ w[x].mixed = (tree[x] # Dir /\ data[tree[x]].mixed)
                                /\ left[x] = SeenAt(tree, data, x)
  BY SceneIs
<1>3. /\ DOMAIN v = DOMAIN now /\ DOMAIN now = Where(op, u) /\ IsTable(now)
      /\ \A x \in DOMAIN now : /\ v[x].node = u[x]
                               /\ v[x].mixed = (u[x] # Dir /\ data[u[x]].mixed)
                               /\ now[x] = SeenAt(u, data, x)
  BY SceneIs
<1>4. \A x \in DOMAIN u : u[x] = Dir => SeenAt(u, data, x) = Created
  BY DEF SeenAt
<1>5. \A x \in DOMAIN u : x \in DOMAIN tree => SeenAt(u, data, x) = SeenAt(tree, data, x)
  BY <1>1 DEF SeenAt
<1> HIDE DEF w, v, left, now
<1>6. \A x : x \in DOMAIN now <=> x \in DOMAIN left \/ (x \in Paths /\ On(op, x) /\ IsPrefix(x, p))
  BY <1>1, <1>2, <1>3 DEF Where
<1>7. ASSUME NEW x \in DOMAIN left
      PROVE  v[x].node = w[x].node /\ v[x].mixed = w[x].mixed /\ now[x] = left[x]
  <2>1. x \in DOMAIN now /\ x \in DOMAIN u /\ x \in DOMAIN tree /\ u[x] = tree[x]
    BY <1>1, <1>2, <1>3, <1>6, <1>7 DEF Where
  <2> QED
    BY <1>2, <1>3, <1>5, <1>7, <2>1
<1>8. ASSUME NEW x \in DOMAIN now, IsPrefix(x, p)
      PROVE  now[x] = Created
  <2>1. x \in DOMAIN u /\ x \in Paths
    BY <1>1, <1>3, <1>8 DEF Where
  <2>2. u[x] = Dir
    BY <1>1, <1>8, <2>1 DEF IsFile
  <2> QED
    BY <1>3, <1>4, <1>8, <2>1, <2>2
<1> QED
  BY <1>3, <1>6, <1>7, <1>8 DEF w, v, left, now, u

\* What it works on, kind by kind.
LEMMA OnIs ==
    ASSUME NEW op \in Operations, NEW x
    PROVE  /\ op.kind \in {"mkdir", "delete", "chmod", "chown"} \cup Reads =>
                  (On(op, x) <=> IsPrefix(op.path, x))
           /\ op.kind \in {"rename", "copy"} =>
                  (On(op, x) <=> IsPrefix(op.path, x) \/ IsPrefix(op.to, x))
           /\ op.kind \in Uploads =>
                  (On(op, x) <=> IsPrefix(op.path, x) \/ IsPrefix(Temp(op.path), x))
<1>1. op.kind \in {"mkdir", "delete", "chmod", "chown"} \cup Reads => Touches(op) = {op.path}
  BY DEF Touches, Reads
<1>2. op.kind \in {"rename", "copy"} => Touches(op) = {op.path, op.to}
  BY DEF Touches, Reads
<1>3. op.kind \in Uploads => Touches(op) = {op.path, Temp(op.path)}
  BY DEF Touches, Reads, Uploads
<1> QED
  BY <1>1, <1>2, <1>3 DEF On

LEMMA BothIs ==
    ASSUME NEW f, NEW g
    PROVE  /\ IsTable(Both(f, g)) /\ DOMAIN Both(f, g) = DOMAIN f \cup DOMAIN g
           /\ \A x \in DOMAIN f : Both(f, g)[x] = f[x]
           /\ \A x \in DOMAIN g : x \notin DOMAIN f => Both(f, g)[x] = g[x]
<1>1. IsTable(Both(f, g))
  BY DEF Both, IsTable
<1> QED
  BY <1>1 DEF Both

LEMMA BothElse ==
    ASSUME NEW f, NEW g, NEW x \in DOMAIN g, x \notin DOMAIN f
    PROVE  Both(f, g)[x] = g[x]
BY DEF Both

LEMMA DirsIs ==
    ASSUME NEW S
    PROVE  IsTable(Dirs(S)) /\ DOMAIN Dirs(S) = S /\ \A x \in S : Dirs(S)[x] = Created
BY DEF Dirs, IsTable

LEMMA DirsElse ==
    ASSUME NEW f, NEW S, NEW x \in S, x \notin DOMAIN f
    PROVE  Both(f, Dirs(S))[x] = Created
<1> DEFINE g == Dirs(S)
<1>1. x \in DOMAIN g /\ g[x] = Created
  BY DirsIs
<1> HIDE DEF g
<1>2. Both(f, g)[x] = g[x]
  BY <1>1, BothElse
<1> QED
  BY <1>1, <1>2 DEF g

LEMMA BothDirs ==
    ASSUME NEW f, NEW S
    PROVE  /\ IsTable(Both(f, Dirs(S))) /\ DOMAIN Both(f, Dirs(S)) = DOMAIN f \cup S
           /\ \A x \in DOMAIN f : Both(f, Dirs(S))[x] = f[x]
<1> DEFINE g == Dirs(S)
<1>1. DOMAIN g = S
  BY DirsIs
<1> HIDE DEF g
<1>2. IsTable(Both(f, g)) /\ DOMAIN Both(f, g) = DOMAIN f \cup S
  BY <1>1, BothIs
<1>3. \A x \in DOMAIN f : Both(f, g)[x] = f[x]
  BY BothIs
<1> QED
  BY <1>2, <1>3 DEF g

LEMMA SeenSame ==
    ASSUME NEW t, NEW d, NEW u, NEW e, NEW p, NEW q, u[q] = t[p], t[p] # Dir => e[t[p]] = d[t[p]]
    PROVE  SeenAt(u, e, q) = SeenAt(t, d, p)
BY DEF SeenAt

LEMMA NoTable ==
    /\ IsTable(<<>>) /\ DOMAIN <<>> = {}
    /\ \A f : IsTable(f) /\ DOMAIN f = {} => f = <<>>
<1>1. IsTable(<<>>) /\ DOMAIN <<>> = {}
  BY DEF IsTable
<1> QED
  BY <1>1, TablesEqual

--------------------------------------------------------------------------------
\* Reads.
LEMMA ReadStays ==
    ASSUME Isolated, FilesInv', OnCourse, NEW r \in Requests, Free(job[r]), job[r].op.kind \in Reads,
           NEW k, Step(tree, data, r, k) \/ Become(tree, data, [job EXCEPT ![r] = k]),
           k.op = job[r].op, k.before = job[r].before,
           k.in = Dir \/ (k.in = job[r].in /\ k.edited = job[r].edited)
    PROVE  Proceeds(r)
<1> DEFINE f == FoundBy(job[r])
           w == Scene(job[r].op, tree, data)
<1>1. ReadProgress(job[r], f, w)
  BY Course DEF Progress
<1>2. FoundBy(k) = f
  BY SameFound
<1> HIDE DEF f, w
<1>3. ReadProgress(k, f, w)
  BY <1>1 DEF ReadProgress
<1>4. Progress(r, k, w)
  BY <1>2, <1>3 DEF Progress, Reads
<1> QED
  BY <1>4, StepProceeds DEF w

LEMMA CheckFileProceeds ==
    ASSUME Isolated, FilesInv', OnCourse, NEW r \in Requests, Free(job[r]), CheckFile(r)
    PROVE  Proceeds(r)
<1> DEFINE k == [job[r] EXCEPT !.at = "open"]
           e == Answer(r, "error")
<1>1. job[r].op.kind \in Reads /\ (Step(tree, data, r, k) \/ Step(tree, data, r, e))
  BY DEF CheckFile, At, Goto, Error
<1>2. DOMAIN job[r] = Fields
  BY Course
<1>3. k.op = job[r].op /\ k.before = job[r].before /\ k.in = job[r].in /\ k.edited = job[r].edited
  BY <1>2 DEF Fields
<1>4. e.op = job[r].op /\ e.before = job[r].before /\ e.in = Dir
  BY <1>2, AnswerIs
<1> HIDE DEF k, e
<1> QED
  BY <1>1, <1>3, <1>4, ReadStays

LEMMA OpenToReadProceeds ==
    ASSUME Isolated, FilesInv', OnCourse, NEW r \in Requests, Free(job[r]), OpenToRead(r)
    PROVE  Proceeds(r)
<1> DEFINE f == FoundBy(job[r])
           w == Scene(job[r].op, tree, data)
           op == job[r].op
           p == op.path
           k == [job[r] EXCEPT !.at = IF job[r].op.kind = "read" THEN "read" ELSE "answer",
                               !.result = "ok", !.in = tree[p], !.edited = Look(p)]
           e == Answer(r, "error")
<1>1. /\ op.kind \in Reads
      /\ (IsFile(p) /\ Step(tree, data, r, k)) \/ Step(tree, data, r, e)
  BY DEF OpenToRead, At, Error
<1>2. /\ DOMAIN job[r] = Fields /\ op \in Operations /\ p \in Paths
      /\ ReadProgress(job[r], f, w)
  BY <1>1, Course DEF Progress
<1>3. k.op = op /\ k.before = job[r].before /\ k.in = tree[p] /\ k.edited = Look(p)
  BY <1>2 DEF Fields
<1>4. e.op = op /\ e.before = job[r].before /\ e.in = Dir
  BY <1>2, AnswerIs
<1>5. LeftIn(w) = f
  BY <1>2 DEF ReadProgress
<1>6. /\ DOMAIN LeftIn(w) = Where(op, tree) /\ DOMAIN w = Where(op, tree)
      /\ \A x \in DOMAIN LeftIn(w) : w[x].node = tree[x] /\ LeftIn(w)[x] = SeenAt(tree, data, x)
  BY SceneIs
<1> HIDE DEF f, w, k, e
<1>7. FoundBy(k) = f
  BY <1>3, SameFound DEF f
<1>8. ASSUME IsFile(p), Step(tree, data, r, k)
      PROVE  Proceeds(r)
  <2>1. p \in Where(op, tree)
    BY <1>1, <1>2, <1>8, OnIs, PrefixLaws DEF Where, IsFile
  <2>2. SeenAt(tree, data, p).content = Look(p)
    BY <1>8 DEF SeenAt, Look, IsFile
  <2>3. ReadProgress(k, f, w)
    BY <1>3, <1>5, <1>6, <2>1, <2>2 DEF ReadProgress
  <2>4. Progress(r, k, w)
    BY <1>1, <1>3, <1>7, <2>3 DEF Progress, Reads
  <2> QED
    BY <1>3, <1>8, <2>4, StepProceeds DEF w
<1> QED
  BY <1>1, <1>4, <1>8, ReadStays

LEMMA ReadContentProceeds ==
    ASSUME Isolated, FilesInv', OnCourse, NEW r \in Requests, Free(job[r]), ReadContent(r)
    PROVE  Proceeds(r)
<1> DEFINE f == FoundBy(job[r])
           w == Scene(job[r].op, tree, data)
           op == job[r].op
           p == op.path
           now == data[job[r].in].content
<1>1. /\ job[r].at \in {"read", "stream"}
      /\ \E content \in {now, IF now = job[r].edited THEN now ELSE Torn}, place \in {"answer", "sent"} :
            Step(tree, data, r, [job[r] EXCEPT !.at = place, !.edited = content])
  BY DEF ReadContent
<1>2. /\ DOMAIN job[r] = Fields /\ op \in Operations /\ p \in Paths /\ Own(job[r])
      /\ Progress(r, job[r], w)
  BY Course
<1>3. op.kind \in Reads
  BY <1>1, <1>2 DEF Own
<1>4. ReadProgress(job[r], f, w)
  BY <1>2, <1>3 DEF Progress
<1>5. /\ DOMAIN LeftIn(w) = Where(op, tree) /\ DOMAIN w = Where(op, tree)
      /\ \A x \in DOMAIN LeftIn(w) : w[x].node = tree[x] /\ LeftIn(w)[x] = SeenAt(tree, data, x)
  BY SceneIs
<1> HIDE DEF f, w
<1>6. job[r].in # Dir => now = job[r].edited
  <2> SUFFICES ASSUME job[r].in # Dir PROVE now = job[r].edited
    OBVIOUS
  <2>1. p \in DOMAIN w /\ w[p].node = job[r].in /\ job[r].edited = LeftIn(w)[p].content
    BY <1>4 DEF ReadProgress
  <2>2. tree[p] = job[r].in /\ LeftIn(w)[p] = SeenAt(tree, data, p)
    BY <1>5, <2>1
  <2>3. SeenAt(tree, data, p).content = now
    BY <2>2 DEF SeenAt
  <2> QED
    BY <2>1, <2>2, <2>3
<1>7. PICK content \in {now, IF now = job[r].edited THEN now ELSE Torn}, place \in {"answer", "sent"} :
          Step(tree, data, r, [job[r] EXCEPT !.at = place, !.edited = content])
  BY <1>1
<1> DEFINE k == [job[r] EXCEPT !.at = place, !.edited = content]
<1>8. k.op = op /\ k.before = job[r].before /\ k.in = job[r].in /\ k.edited = content
  BY <1>2 DEF Fields
<1>9. Step(tree, data, r, k)
  BY <1>7
<1>10. job[r].in # Dir => content = job[r].edited
  BY <1>6
<1> HIDE DEF k, now
<1> QED
  BY <1>3, <1>8, <1>9, <1>10, ReadStays

LEMMA ReadEndsProceeds ==
    ASSUME Isolated, FilesInv', OnCourse, NEW r \in Requests, Free(job[r]), ReadFails(r) \/ Respond(r)
    PROVE  Proceeds(r)
<1> DEFINE e == Answer(r, "error")
           s == [job[r] EXCEPT !.at = "stream"]
<1>1. /\ DOMAIN job[r] = Fields /\ Own(job[r])
  BY Course
<1>2. /\ e.op = job[r].op /\ e.before = job[r].before /\ e.in = Dir
  BY <1>1, AnswerIs
<1>3. s.op = job[r].op /\ s.before = job[r].before /\ s.in = job[r].in /\ s.edited = job[r].edited
  BY <1>1 DEF Fields
<1>4. \/ Step(tree, data, r, Ended) \/ Become(tree, data, [job EXCEPT ![r] = Ended])
      \/ job[r].at = "read" /\ Step(tree, data, r, e)
      \/ job[r].op.kind = "download" /\ Become(tree, data, [job EXCEPT ![r] = s])
  BY DEF ReadFails, Respond, Error
<1>5. ~Free(Ended)
  BY EndedIs DEF Free
<1>6. job[r].at = "read" \/ job[r].op.kind = "download" => job[r].op.kind \in Reads
  BY <1>1 DEF Own, Reads
<1> HIDE DEF e, s
<1> QED
  BY <1>2, <1>3, <1>4, <1>5, <1>6, ReadStays, StepProceeds
--------------------------------------------------------------------------------
\* Nothing has changed yet.
LEMMA NoParents ==
    ASSUME NEW f, IsTable(f), NEW p
    PROVE  f \in WithParents(f, p)
<1> DEFINE S == { SubSeq(p, 1, k) : k \in 0..(Len(p) - 1) }
<1>1. Both(f, Dirs({})) = f
  <2>1. /\ IsTable(Both(f, Dirs({}))) /\ DOMAIN Both(f, Dirs({})) = DOMAIN f
        /\ \A x \in DOMAIN f : Both(f, Dirs({}))[x] = f[x]
    BY BothDirs
  <2> QED
    BY <2>1, TablesEqual
<1>2. {} \in SUBSET S
  OBVIOUS
<1> HIDE DEF S
<1>3. f \in { Both(f, Dirs(new)) : new \in SUBSET S }
  BY <1>1, <1>2
<1> QED
  BY <1>3 DEF WithParents, S

LEMMA EarlyError ==
    ASSUME Isolated, FilesInv', OnCourse, NEW r \in Requests, Free(job[r]), Error(r),
           LeftIn(Scene(job[r].op, tree, data)) = FoundBy(job[r])
    PROVE  Proceeds(r)
<1> DEFINE f == FoundBy(job[r])
           w == Scene(job[r].op, tree, data)
           e == Answer(r, "error")
<1>1. Step(tree, data, r, e) /\ IsTable(f) /\ LeftIn(w) = f /\ DOMAIN job[r] = Fields
  BY Course DEF Error, View
<1>2. /\ e.op = job[r].op /\ e.before = job[r].before /\ e.in = Dir
      /\ e.at = "answer" /\ e.result = "error" /\ FoundBy(e) = f
  BY <1>1, AnswerIs
<1> HIDE DEF e, f, w
<1>3. f \in WithParents(f, e.op.to)
  BY <1>1, NoParents
<1>4. /\ ReadProgress(e, f, w) /\ MakeProgress(e, f, w) /\ DeleteProgress(e, f, w)
      /\ RenameProgress(e, f, w) /\ ChangeProgress(e, f, w)
  BY <1>1, <1>2, <1>3 DEF ReadProgress, MakeProgress, DeleteProgress, RenameProgress, ChangeProgress
<1>5. WriteProgress(r, e, f, w) /\ EditProgress(e, f, w) /\ CopyProgress(e, f, w)
  BY <1>1, <1>2 DEF WriteProgress, EditProgress, CopyProgress
<1>6. Progress(r, e, w)
  BY <1>2, <1>4, <1>5 DEF Progress
<1>7. w = Scene(e.op, tree, data)
  BY <1>2 DEF w
<1> QED
  BY <1>1, <1>6, <1>7, StepProceeds

LEMMA AtCheck ==
    ASSUME Isolated, OnCourse, NEW r \in Requests, Free(job[r]), job[r].at = "check"
    PROVE  LeftIn(Scene(job[r].op, tree, data)) = FoundBy(job[r])
<1>1. Progress(r, job[r], Scene(job[r].op, tree, data)) /\ job[r].op.kind \in Kinds
  BY Course
<1> QED
  BY <1>1 DEF Progress, Kinds, ReadProgress, MakeProgress, DeleteProgress, RenameProgress,
              WriteProgress, ChangeProgress, EditProgress, CopyProgress

LEMMA CheckPathProceeds ==
    ASSUME Isolated, FilesInv', OnCourse, NEW r \in Requests, Free(job[r]), CheckPath(r)
    PROVE  Proceeds(r)
<1> DEFINE f == FoundBy(job[r])
           w == Scene(job[r].op, tree, data)
           k == [job[r] EXCEPT !.at = "mkdir"]
<1>1. /\ job[r].at = "check" /\ job[r].op.kind \in {"write", "upload", "mkdir"}
      /\ Step(tree, data, r, k) \/ Error(r)
  BY DEF CheckPath, At, Goto
<1>2. LeftIn(w) = f /\ DOMAIN job[r] = Fields
  BY <1>1, AtCheck, Course
<1>3. k.op = job[r].op /\ k.before = job[r].before /\ k.at = "mkdir"
  BY <1>2 DEF Fields
<1>4. FoundBy(k) = f
  BY <1>3, SameFound
<1>5. Error(r) => Proceeds(r)
  BY <1>2, EarlyError
<1> HIDE DEF k, f, w
<1>6. MakeProgress(k, f, w) /\ WriteProgress(r, k, f, w)
  BY <1>2, <1>3 DEF MakeProgress, WriteProgress
<1>7. Progress(r, k, w)
  BY <1>1, <1>3, <1>4, <1>6 DEF Progress, Reads
<1>8. w = Scene(k.op, tree, data)
  BY <1>3 DEF w
<1> QED
  BY <1>1, <1>5, <1>7, <1>8, StepProceeds

--------------------------------------------------------------------------------
\* mkdir.
LEMMA MkdirProceeds ==
    ASSUME Isolated, FilesInv', OnCourse, NEW r \in Requests, Free(job[r]), job[r].op.kind = "mkdir",
           job[r].at = "mkdir", CanMkdirAll(job[r].op.path),
           Step(MkdirAll(job[r].op.path), data, r, [job[r] EXCEPT !.at = "attributes"])
    PROVE  Proceeds(r)
<1> DEFINE op == job[r].op
           p == op.path
           f == FoundBy(job[r])
           w == Scene(op, tree, data)
           v == Scene(op, MkdirAll(p), data)
           left == LeftIn(w)
           now == LeftIn(v)
           k == [job[r] EXCEPT !.at = "attributes"]
<1>1. /\ FilesSafe /\ op \in Operations /\ p \in Paths /\ DOMAIN job[r] = Fields
      /\ View(op, f) /\ MakeProgress(job[r], f, w)
  BY Course DEF Progress
<1>2. left = f
  BY <1>1 DEF MakeProgress
<1>3. k.op = op /\ k.before = job[r].before /\ k.at = "attributes"
  BY <1>1 DEF Fields
<1>4. FoundBy(k) = f
  BY <1>3, SameFound
<1>5. /\ \A x : x \in DOMAIN now <=> x \in DOMAIN left \/ (x \in Paths /\ On(op, x) /\ IsPrefix(x, p))
      /\ \A x \in DOMAIN left : now[x] = left[x]
      /\ \A x \in DOMAIN now : IsPrefix(x, p) => now[x] = Created
      /\ IsTable(now)
  BY <1>1, MkdirSeen
<1>6. Step(MkdirAll(p), data, r, k)
  OBVIOUS
<1> HIDE DEF f, w, v, left, now, k
<1>7. \A x \in Paths : On(op, x) /\ IsPrefix(x, p) <=> x = p
  BY <1>1, OnIs, PrefixLaws
<1>8. p \in DOMAIN now /\ now[p] = Created
  BY <1>1, <1>5, <1>7, PrefixLaws
<1>9. now = Both(f, Dirs({p}))
  <2>0. p \in {p}
    OBVIOUS
  <2>1. /\ IsTable(Both(f, Dirs({p}))) /\ DOMAIN Both(f, Dirs({p})) = DOMAIN f \cup {p}
        /\ \A x \in DOMAIN f : Both(f, Dirs({p}))[x] = f[x]
    BY BothDirs
  <2>3. ASSUME p \notin DOMAIN f PROVE Both(f, Dirs({p}))[p] = Created
    BY <2>0, <2>3, DirsElse
  <2>2. DOMAIN now = DOMAIN f \cup {p}
    BY <1>1, <1>2, <1>5, <1>7
  <2> QED
    BY <1>2, <1>5, <1>8, <2>1, <2>2, <2>3, TablesEqual
<1>10. MakeProgress(k, f, v)
  BY <1>3, <1>8, <1>9 DEF MakeProgress, Made, now
<1>11. Progress(r, k, v)
  BY <1>3, <1>4, <1>10 DEF Progress, Reads
<1>12. v = Scene(k.op, MkdirAll(p), data)
  BY <1>3 DEF v
<1> QED
  BY <1>6, <1>11, <1>12, StepProceeds

LEMMA MkdirEnds ==
    ASSUME Isolated, FilesInv', OnCourse, NEW r \in Requests, Free(job[r]), job[r].op.kind = "mkdir",
           SetAttributes(r)
    PROVE  Proceeds(r)
<1> DEFINE op == job[r].op
           f == FoundBy(job[r])
           w == Scene(op, tree, data)
           left == LeftIn(w)
<1>1. /\ op \in Operations /\ op.path \in Paths /\ DOMAIN job[r] = Fields /\ MakeProgress(job[r], f, w)
      /\ job[r].at = "attributes"
  BY Course DEF Progress, SetAttributes
<1>2. Made(op, f, left) /\ op.path \in DOMAIN left /\ left[op.path] = Created
  BY <1>1 DEF MakeProgress
<1>3. ~IsFile(op.path)
  <2>1. left[op.path] = SeenAt(tree, data, op.path)
    BY <1>2, SceneIs
  <2> QED
    BY <1>2, <2>1 DEF SeenAt, IsFile, Created
<1>4. \A some : Changed(op.path, some) = data
  BY <1>3 DEF Changed
<1>5. \E said \in {"ok", "error"} : Step(tree, data, r, Answer(r, said))
  BY <1>4 DEF SetAttributes, Ok
<1>6. PICK said \in {"ok", "error"} : Step(tree, data, r, Answer(r, said))
  BY <1>5
<1> DEFINE k == Answer(r, said)
<1>7. k.op = op /\ k.at = "answer" /\ k.result = said /\ FoundBy(k) = f
  BY <1>1, AnswerIs
<1>8. Step(tree, data, r, k)
  BY <1>6
<1> HIDE DEF k, f, w
<1>9. MakeProgress(k, f, w)
  BY <1>2, <1>7 DEF MakeProgress
<1>10. Progress(r, k, w)
  BY <1>7, <1>9 DEF Progress, Reads
<1>11. w = Scene(k.op, tree, data)
  BY <1>7 DEF w
<1> QED
  BY <1>8, <1>10, <1>11, StepProceeds

--------------------------------------------------------------------------------
\* delete.
LEMMA DeleteProceeds ==
    ASSUME Isolated, FilesInv', OnCourse, NEW r \in Requests, Free(job[r]), Delete(r)
    PROVE  Proceeds(r)
<1> DEFINE op == job[r].op
           p == op.path
           f == FoundBy(job[r])
           w == Scene(op, tree, data)
           left == LeftIn(w)
<1>1. /\ job[r].at = "check" /\ op.kind = "delete"
      /\ \/ Error(r)
         \/ p \notin DOMAIN tree /\ Step(tree, data, r, Answer(r, "ok"))
         \/ Step(Restrict(tree, DOMAIN tree \ Under(p)), data, r, Answer(r, "ok"))
         \/ \E kept \in SUBSET Under(p) :
               Step(Restrict(tree, (DOMAIN tree \ Under(p)) \cup kept), data, r, Answer(r, "error"))
  BY DEF Delete, At, Ok
<1>2. /\ FilesSafe /\ op \in Operations /\ p \in Paths /\ DOMAIN job[r] = Fields
  BY Course
<1>3. left = f
  BY <1>1, AtCheck
<1>4. Error(r) => Proceeds(r)
  BY <1>3, EarlyError
<1>5. \A x : On(op, x) <=> IsPrefix(p, x)
  BY <1>1, <1>2, OnIs
<1>6. /\ DOMAIN left = Where(op, tree) /\ \A x \in DOMAIN left : left[x] = SeenAt(tree, data, x)
  BY SceneIs
<1> HIDE DEF f, w, left
\* What is below the path is what the operation works on.
<1>7. ASSUME NEW S \in SUBSET DOMAIN tree, NEW said, Step(Restrict(tree, S), data, r, Answer(r, said)),
             said = "ok" => \A x \in S : ~IsPrefix(p, x)
      PROVE  Proceeds(r)
  <2> DEFINE t == Restrict(tree, S)
             v == Scene(op, t, data)
             now == LeftIn(v)
             k == Answer(r, said)
  <2>1. DOMAIN t = S /\ \A x \in S : t[x] = tree[x]
    BY DEF Restrict
  <2>2. DOMAIN now = Where(op, t) /\ IsTable(now) /\ \A x \in DOMAIN now : now[x] = SeenAt(t, data, x)
    BY SceneIs
  <2>3. k.op = op /\ k.at = "answer" /\ k.result = said /\ FoundBy(k) = f
    BY <1>2, AnswerIs DEF f
  <2>4. Step(t, data, r, k)
    BY <1>7
  <2> HIDE DEF t, v, now, k
  <2>5. \A x \in DOMAIN now : x \in S /\ IsPrefix(p, x) /\ x \in DOMAIN left /\ now[x] = left[x]
    <3> TAKE x \in DOMAIN now
    <3>1. x \in S /\ IsPrefix(p, x) /\ x \in DOMAIN tree
      BY <1>5, <2>1, <2>2 DEF Where
    <3>2. x \in DOMAIN left /\ t[x] = tree[x]
      BY <1>5, <1>6, <2>1, <3>1 DEF Where
    <3> QED
      BY <1>6, <2>2, <3>1, <3>2, SeenSame
  <2>6. said = "ok" => now = <<>>
    BY <1>7, <2>2, <2>5, NoTable
  <2>7. DeleteProgress(k, f, v)
    BY <1>3, <2>3, <2>5, <2>6 DEF DeleteProgress, now
  <2>8. Progress(r, k, v)
    BY <1>1, <2>3, <2>7 DEF Progress, Reads
  <2>9. v = Scene(k.op, t, data)
    BY <2>3 DEF v
  <2> QED
    BY <2>4, <2>8, <2>9, StepProceeds
<1>8. ASSUME p \notin DOMAIN tree, Step(tree, data, r, Answer(r, "ok"))
      PROVE  Proceeds(r)
  <2>1. \A x \in DOMAIN tree : ~IsPrefix(p, x)
    <3> SUFFICES ASSUME NEW x \in DOMAIN tree, IsPrefix(p, x) PROVE FALSE
      OBVIOUS
    <3>1. x # p
      BY <1>8
    <3> QED
      BY <1>2, <1>8, <3>1 DEF FilesSafe, Closed
  <2>2. left = <<>>
    <3>1. DOMAIN left = {}
      BY <1>5, <1>6, <2>1 DEF Where
    <3>2. IsTable(left)
      BY SceneIs DEF left, w
    <3> QED
      BY <3>1, <3>2, NoTable
  <2> DEFINE k == Answer(r, "ok")
  <2>3. k.op = op /\ k.at = "answer" /\ k.result = "ok" /\ FoundBy(k) = f
    BY <1>2, AnswerIs DEF f
  <2>4. Step(tree, data, r, k)
    BY <1>8
  <2> HIDE DEF k
  <2>5. DeleteProgress(k, f, w)
    BY <2>2, <2>3 DEF DeleteProgress, left
  <2>6. Progress(r, k, w)
    BY <1>1, <2>3, <2>5 DEF Progress, Reads
  <2>7. w = Scene(k.op, tree, data)
    BY <2>3 DEF w
  <2> QED
    BY <2>4, <2>6, <2>7, StepProceeds
<1>9. ASSUME Step(Restrict(tree, DOMAIN tree \ Under(p)), data, r, Answer(r, "ok"))
      PROVE  Proceeds(r)
  <2>1. \A x \in DOMAIN tree \ Under(p) : ~IsPrefix(p, x)
    BY DEF Under
  <2>2. DOMAIN tree \ Under(p) \in SUBSET DOMAIN tree
    OBVIOUS
  <2> QED
    BY <1>7, <1>9, <2>1, <2>2
<1>10. ASSUME NEW kept \in SUBSET Under(p),
              Step(Restrict(tree, (DOMAIN tree \ Under(p)) \cup kept), data, r, Answer(r, "error"))
       PROVE  Proceeds(r)
  <2>1. (DOMAIN tree \ Under(p)) \cup kept \in SUBSET DOMAIN tree
    BY DEF Under
  <2> QED
    BY <1>7, <1>10, <2>1
<1> QED
  BY <1>1, <1>4, <1>8, <1>9, <1>10
--------------------------------------------------------------------------------
\* rename, and the beginning of a copy.
LEMMA ParentsIs ==
    ASSUME NEW f, NEW p \in Paths, NEW new, \A x \in new : x \in Paths /\ IsPrefix(x, p) /\ x # p
    PROVE  Both(f, Dirs(new)) \in WithParents(f, p)
<1> DEFINE S == { SubSeq(p, 1, k) : k \in 0..(Len(p) - 1) }
<1>1. ASSUME NEW x \in new PROVE x \in S
  <2>1. x \in Paths /\ IsPrefix(x, p) /\ x # p /\ Len(p) \in Nat /\ Len(x) \in Nat
    BY <1>1, PrefixLaws
  <2>2. Len(x) \in 0..Len(p) /\ x = SubSeq(p, 1, Len(x))
    BY <2>1, PrefixIsStart
  <2>3. Len(x) # Len(p)
    BY <2>1, PrefixLaws
  <2>4. Len(x) \in 0..(Len(p) - 1)
    BY <2>1, <2>2, <2>3
  <2> QED
    BY <2>2, <2>4
<1>2. new \in SUBSET S
  BY <1>1
<1> HIDE DEF S
<1>3. Both(f, Dirs(new)) \in { Both(f, Dirs(some)) : some \in SUBSET S }
  BY <1>2
<1> QED
  BY <1>3 DEF WithParents, S

LEMMA CheckTargetProceeds ==
    ASSUME Isolated, FilesInv', OnCourse, NEW r \in Requests, Free(job[r]), CheckTarget(r)
    PROVE  Proceeds(r)
<1> DEFINE op == job[r].op
           f == FoundBy(job[r])
           w == Scene(op, tree, data)
           left == LeftIn(w)
           todo == { [from |-> op.path, to |-> op.to, isDir |-> IsDir(op.path)] }
           k == [job[r] EXCEPT !.at = "mkdir", !.todo = todo]
<1>1. /\ job[r].at = "check" /\ op.kind \in {"rename", "copy"}
      /\ \/ op.path \in DOMAIN tree /\ op.to \notin DOMAIN tree /\ Step(tree, data, r, k)
         \/ Error(r)
  BY DEF CheckTarget, At, Task
<1>2. left = f /\ DOMAIN job[r] = Fields /\ op \in Operations /\ op.path \in Paths
  BY <1>1, AtCheck, Course
<1>3. k.op = op /\ k.before = job[r].before /\ k.at = "mkdir" /\ k.todo = todo
  BY <1>2 DEF Fields
<1>4. FoundBy(k) = f
  BY <1>3, SameFound
<1>5. Error(r) => Proceeds(r)
  BY <1>2, EarlyError
<1>6. On(op, op.path)
  BY <1>1, <1>2, OnIs, PrefixLaws
<1>7. DOMAIN left = Where(op, tree) /\ \A x \in DOMAIN left : left[x] = SeenAt(tree, data, x)
  BY SceneIs
<1> HIDE DEF k, f, w, left
<1>8. ASSUME op.path \in DOMAIN tree, op.to \notin DOMAIN tree
      PROVE  op.path \in DOMAIN f /\ op.to \notin DOMAIN f /\ f[op.path].dir = IsDir(op.path)
  <2>1. op.path \in DOMAIN left /\ op.to \notin DOMAIN left
    BY <1>6, <1>7, <1>8 DEF Where
  <2>2. f[op.path] = SeenAt(tree, data, op.path)
    BY <1>2, <1>7, <2>1
  <2>3. CASE tree[op.path] = Dir
    <3>1. IsDir(op.path) = TRUE /\ Created.dir = TRUE
      BY <1>8, <2>3 DEF IsDir, Created
    <3> QED
      BY <1>2, <2>1, <2>2, <2>3, <3>1 DEF SeenAt
  <2>4. CASE tree[op.path] # Dir
    <3>1. IsDir(op.path) = FALSE
      BY <1>8, <2>4 DEF IsDir
    <3>2. f[op.path].dir = FALSE
      BY <2>2, <2>4 DEF SeenAt
    <3> QED
      BY <1>2, <2>1, <3>1, <3>2
  <2> QED
    BY <2>3, <2>4
<1>9. ASSUME op.path \in DOMAIN tree, op.to \notin DOMAIN tree, Step(tree, data, r, k)
      PROVE  Proceeds(r)
  <2>1. RenameProgress(k, f, w) /\ CopyProgress(k, f, w)
    BY <1>2, <1>3, <1>8, <1>9 DEF RenameProgress, CopyProgress, left
  <2>2. Progress(r, k, w)
    BY <1>1, <1>3, <1>4, <2>1 DEF Progress, Reads
  <2>3. w = Scene(k.op, tree, data)
    BY <1>3 DEF w
  <2> QED
    BY <1>9, <2>2, <2>3, StepProceeds
<1> QED
  BY <1>1, <1>5, <1>9

\* The target of a rename or of a copy is not there, and so is not the root.
LEMMA TargetIs ==
    ASSUME NEW op \in Operations, op.kind \in {"rename", "copy"}, op.path \in Paths, op.to \in Paths,
           NEW f, View(op, f), op.path \in DOMAIN f, op.to \notin DOMAIN f
    PROVE  /\ op.to # <<>> /\ ~IsPrefix(op.to, op.path)
           /\ \A x \in DOMAIN f : ~IsPrefix(op.to, x) /\ IsPrefix(op.path, x)
<1>1. On(op, op.to)
  BY OnIs, PrefixLaws
<1>2. \A x \in DOMAIN f : ~IsPrefix(op.to, x) /\ x \in Paths /\ On(op, x)
  BY <1>1 DEF View
<1> QED
  BY <1>2, OnIs, PrefixLaws

\* The parents of the target are made.
LEMMA ParentsMade ==
    ASSUME FilesSafe, NEW op \in Operations, op.kind \in {"rename", "copy"},
           op.path \in Paths, op.to \in Paths, op.to # <<>>, CanMkdirAll(Parent(op.to))
    PROVE  LET w == Scene(op, tree, data)
               v == Scene(op, MkdirAll(Parent(op.to)), data)
           IN  /\ LeftIn(v) \in WithParents(LeftIn(w), op.to)
               /\ ~IsPrefix(op.path, op.to) => LeftIn(v) = LeftIn(w)
               /\ IsPrefix(op.path, op.to) /\ op.path # op.to =>
                      op.path \in DOMAIN LeftIn(v) /\ LeftIn(v)[op.path] = Created
<1> DEFINE p == Parent(op.to)
           w == Scene(op, tree, data)
           v == Scene(op, MkdirAll(p), data)
           left == LeftIn(w)
           now == LeftIn(v)
           new == { x \in Paths : On(op, x) /\ IsPrefix(x, p) }
<1>1. /\ p \in Paths /\ IsPrefix(p, op.to) /\ Len(p) = Len(op.to) - 1 /\ Len(op.to) \in Nat
      /\ \A q \in Paths : IsPrefix(q, op.to) /\ q # op.to => IsPrefix(q, p)
  BY ParentIs, PrefixLaws
<1>2. /\ \A x : x \in DOMAIN now <=>
             x \in DOMAIN left \/ (x \in Paths /\ On(op, x) /\ IsPrefix(x, p))
      /\ \A x \in DOMAIN left : now[x] = left[x]
      /\ \A x \in DOMAIN now : IsPrefix(x, p) => now[x] = Created
      /\ IsTable(now)
  BY <1>1, MkdirSeen
<1>3. IsTable(left)
  BY SceneIs
<1>4. \A x \in new : x \in Paths /\ IsPrefix(x, op.to) /\ x # op.to
  BY <1>1, PrefixLaws
<1>5. \A x : x \in new <=> (x \in Paths /\ On(op, x) /\ IsPrefix(x, p))
  OBVIOUS
<1> HIDE DEF w, v, left, now, new, p
<1>6. DOMAIN now = DOMAIN left \cup new
  BY <1>2, <1>5
<1>7. now = Both(left, Dirs(new))
  <2>1. /\ IsTable(Both(left, Dirs(new))) /\ DOMAIN Both(left, Dirs(new)) = DOMAIN left \cup new
        /\ \A x \in DOMAIN left : Both(left, Dirs(new))[x] = left[x]
    BY BothDirs
  <2>2. ASSUME NEW x \in new, x \notin DOMAIN left PROVE Both(left, Dirs(new))[x] = now[x]
    <3>1. now[x] = Created
      BY <1>2, <1>5, <1>6
    <3> QED
      BY <2>2, <3>1, DirsElse
  <2> QED
    BY <1>2, <1>6, <2>1, <2>2, TablesEqual
<1>8. now \in WithParents(left, op.to)
  BY <1>4, <1>7, ParentsIs
<1>9. ASSUME ~IsPrefix(op.path, op.to) PROVE now = left
  <2>1. new = {}
    <3> SUFFICES ASSUME NEW x \in new PROVE FALSE
      OBVIOUS
    <3>1. x \in Paths /\ IsPrefix(x, op.to) /\ x # op.to /\ On(op, x)
      BY <1>4, <1>5
    <3>2. IsPrefix(op.path, x) \/ IsPrefix(op.to, x)
      BY <3>1, OnIs
    <3> QED
      BY <1>9, <3>1, <3>2, PrefixLaws
  <2> QED
    BY <1>2, <1>3, <1>6, <2>1, TablesEqual
<1>10. ASSUME IsPrefix(op.path, op.to), op.path # op.to
       PROVE  op.path \in DOMAIN now /\ now[op.path] = Created
  <2>1. IsPrefix(op.path, p) /\ On(op, op.path)
    BY <1>1, <1>10, OnIs, PrefixLaws
  <2> QED
    BY <1>2, <2>1
<1> QED
  BY <1>8, <1>9, <1>10 DEF w, v, left, now, p

LEMMA RenameMkdir ==
    ASSUME Isolated, FilesInv', OnCourse, NEW r \in Requests, Free(job[r]), job[r].op.kind = "rename",
           job[r].at = "mkdir", CanMkdirAll(Parent(job[r].op.to)),
           Step(MkdirAll(Parent(job[r].op.to)), data, r, [job[r] EXCEPT !.at = "rename"])
    PROVE  Proceeds(r)
<1> DEFINE op == job[r].op
           t == MkdirAll(Parent(op.to))
           f == FoundBy(job[r])
           w == Scene(op, tree, data)
           v == Scene(op, t, data)
           k == [job[r] EXCEPT !.at = "rename"]
<1>1. /\ FilesSafe /\ op \in Operations /\ op.path \in Paths /\ op.to \in Paths
      /\ DOMAIN job[r] = Fields /\ View(op, f) /\ RenameProgress(job[r], f, w)
  BY Course DEF Progress
<1>2. LeftIn(w) = f /\ op.path \in DOMAIN f /\ op.to \notin DOMAIN f
  BY <1>1 DEF RenameProgress
<1>3. k.op = op /\ k.before = job[r].before /\ k.at = "rename"
  BY <1>1 DEF Fields
<1>4. FoundBy(k) = f
  BY <1>3, SameFound
<1>5. op.to # <<>>
  BY <1>1, <1>2, TargetIs
<1>6. /\ LeftIn(v) \in WithParents(LeftIn(w), op.to)
      /\ ~IsPrefix(op.path, op.to) => LeftIn(v) = LeftIn(w)
  BY <1>1, <1>5, ParentsMade
<1>7. Step(t, data, r, k)
  OBVIOUS
<1> HIDE DEF f, w, v, t, k
<1>8. RenameProgress(k, f, v)
  BY <1>2, <1>3, <1>6 DEF RenameProgress
<1>9. Progress(r, k, v)
  BY <1>3, <1>4, <1>8 DEF Progress, Reads
<1>10. v = Scene(k.op, t, data)
  BY <1>3 DEF v
<1> QED
  BY <1>7, <1>9, <1>10, StepProceeds

\* What is moved from one path to another.
MovedTo(f, p, q, g) ==
    /\ IsTable(g)
    /\ \A x : x \in DOMAIN g <=> \E a \in Paths : x = q \o a /\ p \o a \in DOMAIN f
    /\ \A a \in Paths : p \o a \in DOMAIN f => g[q \o a] = f[p \o a]

LEMMA OntoIs ==
    ASSUME NEW f, DOMAIN f \subseteq Paths, NEW p \in Paths, NEW q \in Paths
    PROVE  MovedTo(f, p, q, Onto(f, p, q))
<1> DEFINE S == { q \o Beneath(t, p) : t \in Below(f, p) }
           g == [s \in S |-> f[p \o Beneath(s, q)]]
<1>1. Onto(f, p, q) = g
  BY DEF Onto, Beneath
<1>2. IsTable(g) /\ DOMAIN g = S /\ \A s \in S : g[s] = f[p \o Beneath(s, q)]
  BY DEF IsTable
<1>3. ASSUME NEW x \in S
      PROVE  \E a \in Paths : x = q \o a /\ p \o a \in DOMAIN f
  <2>1. PICK t \in Below(f, p) : x = q \o Beneath(t, p)
    OBVIOUS
  <2>2. t \in DOMAIN f /\ t \in Paths /\ IsPrefix(p, t)
    BY DEF Below
  <2>3. Beneath(t, p) \in Paths /\ t = p \o Beneath(t, p)
    BY <2>2, PrefixAndRest
  <2> QED
    BY <2>1, <2>2, <2>3
<1>4. ASSUME NEW a \in Paths, p \o a \in DOMAIN f
      PROVE  q \o a \in S /\ g[q \o a] = f[p \o a]
  <2>1. p \o a \in Below(f, p)
    BY <1>4, Behind DEF Below
  <2>2. Beneath(p \o a, p) = a /\ Beneath(q \o a, q) = a
    BY Behind
  <2>3. q \o a \in S
    BY <2>1, <2>2
  <2> HIDE DEF S, g
  <2> QED
    BY <1>2, <2>2, <2>3
<1> HIDE DEF S, g
<1> QED
  BY <1>1, <1>2, <1>3, <1>4 DEF MovedTo

LEMMA RenameProceeds ==
    ASSUME Isolated, FilesInv', OnCourse, NEW r \in Requests, Free(job[r]), Rename(r)
    PROVE  Proceeds(r)
<1> DEFINE op == job[r].op
           p == op.path
           q == op.to
           t == Moving(p, q)
           f == FoundBy(job[r])
           w == Scene(op, tree, data)
           v == Scene(op, t, data)
           left == LeftIn(w)
           now == LeftIn(v)
<1>1. /\ job[r].at = "rename" /\ op.kind = "rename"
      /\ \/ ~IsPrefix(p, q) /\ Step(t, data, r, Answer(r, "ok"))
         \/ Step(tree, data, r, Answer(r, "error"))
  BY DEF Rename, At, CanRename, Error
<1>2. /\ FilesSafe /\ op \in Operations /\ p \in Paths /\ q \in Paths
      /\ DOMAIN job[r] = Fields /\ View(op, f) /\ RenameProgress(job[r], f, w)
      /\ DOMAIN tree \subseteq Paths
  BY <1>1, Course, SafePaths DEF Progress
<1>3. /\ left \in WithParents(f, q) /\ (~IsPrefix(p, q) => left = f)
      /\ p \in DOMAIN f /\ q \notin DOMAIN f
  BY <1>1, <1>2 DEF RenameProgress
<1>4. \A said : Answer(r, said).op = op /\ FoundBy(Answer(r, said)) = f
               /\ Answer(r, said).at = "answer" /\ Answer(r, said).result = said
  BY <1>2, AnswerIs
<1>5. ASSUME Step(tree, data, r, Answer(r, "error"))
      PROVE  Proceeds(r)
  <2> DEFINE k == Answer(r, "error")
  <2>1. k.op = op /\ FoundBy(k) = f /\ k.at = "answer" /\ k.result = "error"
    BY <1>4
  <2> HIDE DEF k, f, w, left
  <2>2. RenameProgress(k, f, w)
    BY <1>3, <2>1 DEF RenameProgress, left
  <2>3. Progress(r, k, w)
    BY <1>1, <2>1, <2>2 DEF Progress, Reads
  <2>4. w = Scene(k.op, tree, data) /\ Step(tree, data, r, k)
    BY <1>5, <2>1 DEF w, k
  <2> QED
    BY <2>3, <2>4, StepProceeds
<1>6. ASSUME ~IsPrefix(p, q), Step(t, data, r, Answer(r, "ok"))
      PROVE  Proceeds(r)
  <2> DEFINE k == Answer(r, "ok")
  <2>1. k.op = op /\ FoundBy(k) = f /\ k.at = "answer" /\ k.result = "ok"
    BY <1>4
  <2>2. DOMAIN left = Where(op, tree) /\ \A x \in DOMAIN left : left[x] = SeenAt(tree, data, x)
    BY SceneIs
  <2>3. DOMAIN now = Where(op, t) /\ IsTable(now) /\ \A x \in DOMAIN now : now[x] = SeenAt(t, data, x)
    BY SceneIs
  <2>4. /\ \A a \in Paths : p \o a \in DOMAIN tree => q \o a \in DOMAIN t /\ t[q \o a] = tree[p \o a]
        /\ \A s \in DOMAIN t : \/ \E a \in Paths : s = q \o a /\ p \o a \in DOMAIN tree
                               \/ s \in DOMAIN tree /\ ~IsPrefix(p, s)
    BY <1>2, MovingIs
  <2>5. left = f
    BY <1>3, <1>6
  <2>6. \A x \in Paths : On(op, x) <=> IsPrefix(p, x) \/ IsPrefix(q, x)
    BY <1>1, <1>2, OnIs
  <2> HIDE DEF k, f, w, v, left, now, t
  <2>15. DOMAIN f \subseteq Paths
    BY <1>2 DEF View
  <2>16. MovedTo(f, p, q, Onto(f, p, q))
    BY <1>2, <2>15, OntoIs
  <2>7. /\ IsTable(Onto(f, p, q))
        /\ \A x : x \in DOMAIN Onto(f, p, q) <=> \E a \in Paths : x = q \o a /\ p \o a \in DOMAIN f
        /\ \A a \in Paths : p \o a \in DOMAIN f => Onto(f, p, q)[q \o a] = f[p \o a]
    BY <2>16 DEF MovedTo
  <2>8. \A a \in Paths : p \o a \in DOMAIN f <=> p \o a \in DOMAIN tree
    BY <1>2, <2>2, <2>5, <2>6, Behind DEF Where
  <2>9. ASSUME NEW x \in DOMAIN now
        PROVE  x \in DOMAIN Onto(f, p, q)
    <3>1. x \in DOMAIN t /\ On(op, x)
      BY <2>3 DEF Where
    <3>2. CASE \E a \in Paths : x = q \o a /\ p \o a \in DOMAIN tree
      BY <2>7, <2>8, <3>2
    <3>3. CASE x \in DOMAIN tree /\ ~IsPrefix(p, x)
      <4>1. x \in DOMAIN f
        BY <2>2, <2>5, <3>1, <3>3 DEF Where
      <4> QED
        BY <1>1, <1>2, <1>3, <3>3, <4>1, TargetIs
    <3> QED
      BY <2>4, <3>1, <3>2, <3>3
  <2>10. ASSUME NEW a \in Paths, p \o a \in DOMAIN f
         PROVE  q \o a \in DOMAIN now /\ now[q \o a] = f[p \o a]
    <3>1. q \o a \in DOMAIN t /\ t[q \o a] = tree[p \o a]
      BY <2>4, <2>8, <2>10
    <3>2. On(op, q \o a)
      BY <1>2, <2>6, Behind
    <3>3. q \o a \in DOMAIN now
      BY <2>3, <3>1, <3>2 DEF Where
    <3>4. SeenAt(t, data, q \o a) = SeenAt(tree, data, p \o a)
      BY <3>1, SeenSame
    <3> QED
      BY <2>2, <2>3, <2>5, <2>10, <3>3, <3>4
  <2>11. now = Onto(f, p, q)
    <3>1. DOMAIN now = DOMAIN Onto(f, p, q)
      BY <2>7, <2>9, <2>10
    <3>2. ASSUME NEW x \in DOMAIN now PROVE now[x] = Onto(f, p, q)[x]
      <4>1. PICK a \in Paths : x = q \o a /\ p \o a \in DOMAIN f
        BY <2>7, <2>9
      <4>2. now[q \o a] = f[p \o a] /\ Onto(f, p, q)[q \o a] = f[p \o a]
        BY <2>7, <2>10, <4>1
      <4> QED
        BY <4>1, <4>2
    <3> QED
      BY <2>3, <2>7, <3>1, <3>2, TablesEqual
  <2>12. RenameProgress(k, f, v)
    BY <1>3, <2>1, <2>11 DEF RenameProgress, now
  <2>13. Progress(r, k, v)
    BY <1>1, <2>1, <2>12 DEF Progress, Reads
  <2>14. v = Scene(k.op, t, data) /\ Step(t, data, r, k)
    BY <1>6, <2>1 DEF v, k
  <2> QED
    BY <2>13, <2>14, StepProceeds
<1> QED
  BY <1>1, <1>5, <1>6
--------------------------------------------------------------------------------
\* write and upload.
LEMMA TempIs ==
    ASSUME NEW op \in Operations, op.kind \in Uploads
    PROVE  LET temp == Temp(op.path)
           IN  /\ op.path \in Paths /\ temp \in Paths /\ op.path # <<>>
               /\ ~IsPrefix(temp, op.path) /\ ~IsPrefix(op.path, temp)
               /\ \A x \in Paths : On(op, x) => ~IsPrefix(x, Parent(op.path))
<1> DEFINE p == op.path
           temp == Temp(p)
<1>1. p \in Paths /\ temp \in Paths /\ Last(temp) \in TempNames /\ Last(p) \notin TempNames
  BY TempOfWrite, OnItsPaths
<1>2. temp # p
  BY <1>1
<1>3. DOMAIN temp = DOMAIN p
  BY <1>1 DEF Temp
<1>4. Len(temp) = Len(p) /\ Len(p) \in Nat /\ DOMAIN p = 1..Len(p)
  BY <1>1, <1>3 DEF Paths
<1>5. p # <<>>
  <2> SUFFICES ASSUME p = <<>> PROVE FALSE
    OBVIOUS
  <2>1. Len(p) = 0 /\ Len(temp) = 0
    BY <1>4, PrefixLaws
  <2>2. IsPrefix(p, temp)
    BY <1>1, PrefixLaws
  <2> QED
    BY <1>1, <1>2, <2>1, <2>2, PrefixLaws
<1> HIDE DEF temp, p
<1>6. ~IsPrefix(temp, p) /\ ~IsPrefix(p, temp)
  BY <1>1, <1>2, <1>4, PrefixLaws
<1>7. ASSUME NEW x \in Paths, On(op, x), IsPrefix(x, Parent(p)) PROVE FALSE
  <2>1. Parent(p) \in Paths /\ Len(Parent(p)) = Len(p) - 1 /\ Len(x) \in Nat /\ Len(x) <= Len(Parent(p))
    BY <1>1, <1>5, <1>7, ParentIs, PrefixLaws
  <2>2. IsPrefix(p, x) \/ IsPrefix(temp, x)
    BY <1>7, OnIs DEF p, temp
  <2>3. Len(p) <= Len(x)
    BY <1>1, <1>4, <2>2, PrefixLaws
  <2> QED
    BY <1>4, <2>1, <2>3
<1> QED
  BY <1>1, <1>5, <1>6, <1>7 DEF p, temp

\* A file is put at a path, or the one that is there is changed.
Puts(w, v, p, n, new) ==
    /\ DOMAIN v = DOMAIN w \cup {p} /\ DOMAIN LeftIn(v) = DOMAIN v /\ DOMAIN LeftIn(w) = DOMAIN w
    /\ IsTable(LeftIn(v))
    /\ v[p].node = n /\ (new.mixed = FALSE => ~v[p].mixed)
    /\ LeftIn(v)[p] = [dir |-> FALSE, content |-> new.content, set |-> new.set]
    /\ ~LeftIn(v)[p].dir /\ LeftIn(v)[p].content = new.content /\ LeftIn(v)[p].set = new.set
    /\ \A x \in DOMAIN w : x # p => /\ v[x].node = w[x].node /\ v[x].mixed = w[x].mixed
                                    /\ LeftIn(v)[x] = LeftIn(w)[x]

LEMMA PutSeen ==
    ASSUME NEW op, NEW p, On(op, p), NEW n, n # Dir, NEW u, Put(tree, u, p, n), NEW e,
           \A m \in DOMAIN data \ {n} : e[m] = data[m],
           \A x \in DOMAIN tree : tree[x] = Dir \/ tree[x] \in DOMAIN data,
           \A x \in DOMAIN tree : tree[x] = n => x = p
    PROVE  Puts(Scene(op, tree, data), Scene(op, u, e), p, n, e[n])
<1> DEFINE w == Scene(op, tree, data)
           v == Scene(op, u, e)
           left == LeftIn(w)
           now == LeftIn(v)
<1>1. /\ DOMAIN w = Where(op, tree) /\ DOMAIN left = Where(op, tree)
      /\ \A x \in DOMAIN left : /\ w[x].node = tree[x]
                                /\ w[x].mixed = (tree[x] # Dir /\ data[tree[x]].mixed)
                                /\ left[x] = SeenAt(tree, data, x)
  BY SceneIs
<1>2. /\ DOMAIN v = Where(op, u) /\ DOMAIN now = Where(op, u) /\ IsTable(now)
      /\ \A x \in DOMAIN now : /\ v[x].node = u[x]
                               /\ v[x].mixed = (u[x] # Dir /\ e[u[x]].mixed)
                               /\ now[x] = SeenAt(u, e, x)
  BY SceneIs
<1>3. DOMAIN u = DOMAIN tree \cup {p} /\ u[p] = n /\ \A x \in DOMAIN tree \ {p} : u[x] = tree[x]
  BY DEF Put
<1> HIDE DEF w, v, left, now
<1>4. DOMAIN v = DOMAIN w \cup {p}
  BY <1>1, <1>2, <1>3 DEF Where
<1>5. p \in DOMAIN now
  BY <1>2, <1>3 DEF Where
<1>6. v[p].node = n /\ v[p].mixed = (n # Dir /\ e[n].mixed) /\ now[p] = SeenAt(u, e, p)
  BY <1>2, <1>3, <1>5
<1>7. SeenAt(u, e, p) = [dir |-> FALSE, content |-> e[n].content, set |-> e[n].set]
  BY <1>3 DEF SeenAt
<1>8. ASSUME NEW x \in DOMAIN w, x # p
      PROVE  v[x].node = w[x].node /\ v[x].mixed = w[x].mixed /\ now[x] = left[x]
  <2>1. x \in DOMAIN tree /\ x \in DOMAIN left /\ x \in DOMAIN now /\ u[x] = tree[x] /\ tree[x] # n
    BY <1>1, <1>2, <1>3, <1>4, <1>8 DEF Where
  <2>2. tree[x] # Dir => e[tree[x]] = data[tree[x]]
    BY <2>1
  <2>3. SeenAt(u, e, x) = SeenAt(tree, data, x)
    BY <2>1, <2>2, SeenSame
  <2>4. (u[x] # Dir /\ e[u[x]].mixed) = (tree[x] # Dir /\ data[tree[x]].mixed)
    BY <2>1, <2>2
  <2> QED
    BY <1>1, <1>2, <2>1, <2>3, <2>4
<1>9. ~now[p].dir /\ now[p].content = e[n].content /\ now[p].set = e[n].set
  BY <1>6, <1>7
<1> QED
  BY <1>1, <1>2, <1>4, <1>6, <1>7, <1>8, <1>9 DEF Puts, w, v, left, now

\* Another file is elsewhere.
LEMMA ElseIs ==
    ASSUME NEW f, NEW p
    PROVE  /\ IsTable(Elsewhere(f, p))
           /\ \A x : x \in DOMAIN Elsewhere(f, p) <=> x \in DOMAIN f /\ ~IsPrefix(p, x)
           /\ \A x \in DOMAIN Elsewhere(f, p) : Elsewhere(f, p)[x] = f[x]
BY DEF Elsewhere, Restrict, Below, IsTable

LEMMA ElseSame ==
    ASSUME NEW f, NEW g, NEW p,
           \A x : ~IsPrefix(p, x) => (x \in DOMAIN f <=> x \in DOMAIN g),
           \A x \in DOMAIN f : ~IsPrefix(p, x) => f[x] = g[x]
    PROVE  Elsewhere(f, p) = Elsewhere(g, p)
<1> DEFINE a == Elsewhere(f, p)
           b == Elsewhere(g, p)
<1>1. /\ IsTable(a) /\ \A x : x \in DOMAIN a <=> x \in DOMAIN f /\ ~IsPrefix(p, x)
      /\ \A x \in DOMAIN a : a[x] = f[x]
  BY ElseIs
<1>2. /\ IsTable(b) /\ \A x : x \in DOMAIN b <=> x \in DOMAIN g /\ ~IsPrefix(p, x)
      /\ \A x \in DOMAIN b : b[x] = g[x]
  BY ElseIs
<1> HIDE DEF a, b
<1>3. DOMAIN a = DOMAIN b
  BY <1>1, <1>2
<1>4. a = b
  BY <1>1, <1>2, <1>3, TablesEqual
<1> QED
  BY <1>4 DEF a, b

LEMMA WithoutSeen ==
    ASSUME NEW op, NEW p
    PROVE  LET left == LeftIn(Scene(op, tree, data))
               now == LeftIn(Scene(op, Without(p), data))
           IN  /\ \A x : x # p => (x \in DOMAIN now <=> x \in DOMAIN left)
               /\ \A x \in DOMAIN now : x \in DOMAIN left /\ now[x] = left[x]
<1> DEFINE u == Without(p)
           left == LeftIn(Scene(op, tree, data))
           now == LeftIn(Scene(op, u, data))
<1>1. /\ \A x : x # p => (x \in DOMAIN u <=> x \in DOMAIN tree)
      /\ \A x \in DOMAIN u : x \in DOMAIN tree /\ u[x] = tree[x]
  BY DEF Without, Restrict
<1>2. DOMAIN left = Where(op, tree) /\ \A x \in DOMAIN left : left[x] = SeenAt(tree, data, x)
  BY SceneIs
<1>3. DOMAIN now = Where(op, u) /\ \A x \in DOMAIN now : now[x] = SeenAt(u, data, x)
  BY SceneIs
<1> HIDE DEF u, left, now
<1>4. \A x : x # p => (x \in DOMAIN now <=> x \in DOMAIN left)
  BY <1>1, <1>2, <1>3 DEF Where
<1>5. ASSUME NEW x \in DOMAIN now PROVE x \in DOMAIN left /\ now[x] = left[x]
  <2>1. x \in DOMAIN left /\ u[x] = tree[x]
    BY <1>1, <1>2, <1>3, <1>5 DEF Where
  <2>2. SeenAt(u, data, x) = SeenAt(tree, data, x)
    BY <2>1, SeenSame
  <2> QED
    BY <1>2, <1>3, <2>1, <2>2
<1> QED
  BY <1>4, <1>5 DEF u, left, now

\* Nobody has open what is opened.
LEMMA NoWriters ==
    ASSUME Isolated, NEW r \in Requests, Free(job[r]), job[r].at # "write",
           NEW p, On(job[r].op, p)
    PROVE  Writers(IF IsFile(p) THEN tree[p] ELSE Fresh) = {}
<1> DEFINE n == IF IsFile(p) THEN tree[p] ELSE Fresh
<1>1. FilesSafe
  BY DEF Isolated
<1>2. Fresh \in Nat \ {Dir} /\ Fresh \notin DOMAIN data
  BY <1>1, FreshIsNew, SafePaths DEF Dir
<1>3. n # Dir
  BY <1>2 DEF IsFile
<1> SUFFICES ASSUME NEW s \in Requests, job[s].out = n PROVE FALSE
  BY DEF Writers
<1>4. Own(job[s]) /\ job[s].out \in DOMAIN data \cup {Dir}
  BY <1>1 DEF FilesSafe, FilesInv, FilesSound, RequestSound, JobSound
<1>5. job[s].at = "write" /\ job[s].op.kind \notin Reads
  BY <1>3, <1>4 DEF Own
<1>6. s # r /\ Busy(job[s])
  BY <1>5 DEF Busy
<1>7. IsFile(p) /\ tree[p] = job[s].out
  BY <1>2, <1>3, <1>4
<1>8. p \in DOMAIN tree /\ tree[p] # Dir
  BY <1>7 DEF IsFile
<1> QED
  BY <1>6, <1>7, <1>8 DEF Isolated, Alone

LEMMA AtMkdir ==
    ASSUME Isolated, OnCourse, NEW r \in Requests, Free(job[r]), job[r].at = "mkdir"
    PROVE  LeftIn(Scene(job[r].op, tree, data)) = FoundBy(job[r])
<1>1. Progress(r, job[r], Scene(job[r].op, tree, data)) /\ JobSound(data, job[r])
  BY Course
<1>2. job[r].op.kind \in Uploads \cup {"mkdir", "rename", "copy"}
  BY <1>1 DEF JobSound
<1> QED
  BY <1>1, <1>2 DEF Progress, Uploads, MakeProgress, RenameProgress, WriteProgress, CopyProgress

LEMMA WriteMkdir ==
    ASSUME Isolated, FilesInv', OnCourse, NEW r \in Requests, Free(job[r]), job[r].op.kind \in Uploads,
           job[r].at = "mkdir", CanMkdirAll(Parent(job[r].op.path)),
           Step(MkdirAll(Parent(job[r].op.path)), data, r, [job[r] EXCEPT !.at = "open"])
    PROVE  Proceeds(r)
<1> DEFINE op == job[r].op
           p == Parent(op.path)
           f == FoundBy(job[r])
           w == Scene(op, tree, data)
           v == Scene(op, MkdirAll(p), data)
           left == LeftIn(w)
           now == LeftIn(v)
           k == [job[r] EXCEPT !.at = "open"]
<1>1. /\ FilesSafe /\ op \in Operations /\ op.path \in Paths /\ DOMAIN job[r] = Fields
  BY Course
<1>2. left = f
  BY AtMkdir
<1>3. k.op = op /\ k.before = job[r].before /\ k.at = "open"
  BY <1>1 DEF Fields
<1>4. FoundBy(k) = f
  BY <1>3, SameFound
<1>5. p \in Paths /\ \A x \in Paths : On(op, x) => ~IsPrefix(x, p)
  BY <1>1, ParentIs, TempIs
<1>6. /\ \A x : x \in DOMAIN now <=> x \in DOMAIN left \/ (x \in Paths /\ On(op, x) /\ IsPrefix(x, p))
      /\ \A x \in DOMAIN left : now[x] = left[x]
      /\ IsTable(now)
  BY <1>1, <1>5, MkdirSeen
<1>7. IsTable(left)
  BY SceneIs
<1>8. Step(MkdirAll(p), data, r, k)
  OBVIOUS
<1> HIDE DEF f, w, v, left, now, k, p
<1>9. DOMAIN now = DOMAIN left
  BY <1>5, <1>6
<1>10. now = left
  BY <1>6, <1>7, <1>9, TablesEqual
<1>11. WriteProgress(r, k, f, v)
  BY <1>2, <1>3, <1>10 DEF WriteProgress, now
<1>12. Progress(r, k, v)
  BY <1>3, <1>4, <1>11 DEF Progress, Reads, Uploads
<1>13. v = Scene(k.op, MkdirAll(p), data)
  BY <1>3 DEF v
<1> QED
  BY <1>8, <1>12, <1>13, StepProceeds

LEMMA FileIs ==
    ASSUME NEW content, NEW set, NEW mixed, NEW exposed, NEW opener,
           NEW made, made = File(content, set, mixed, exposed, opener)
    PROVE  made.content = content /\ made.set = set /\ made.mixed = mixed
BY DEF File

\* A file is opened by nobody else: it is empty, and has the attributes it had.
LEMMA OpenSeen ==
    ASSUME Isolated, NEW r \in Requests, Free(job[r]), job[r].at # "write",
           NEW p \in Paths, On(job[r].op, p), NEW set, set \subseteq Attributes,
           NEW inPlace, NEW next, OpenAt(r, p, set, inPlace, next)
    PROVE  \E n, u, e :
              /\ Puts(Scene(job[r].op, tree, data), Scene(job[r].op, u, e), p, n, e[n])
              /\ e[n].mixed = FALSE /\ e[n].content = Torn
              /\ e[n].set \subseteq Attributes /\ (~IsFile(p) => e[n].set = set)
              /\ IsFile(p) => e[n].set = data[tree[p]].set
              /\ Step(u, e, r, [next EXCEPT !.out = n])
<1> DEFINE op == job[r].op
<1>1. FilesSafe
  BY DEF Isolated
<1>2. PICK n, u, e :
            /\ n \in Nat \ {Dir}
            /\ n = IF IsFile(p) THEN tree[p] ELSE Fresh
            /\ n \in DOMAIN data => IsFile(p)
            /\ Put(tree, u, p, n) /\ Put(data, e, n, e[n])
            /\ e[n] = File(Torn, IF IsFile(p) THEN data[n].set ELSE set,
                           Writers(n) # {}, inPlace \/ Writers(n) # {}, {r})
            /\ TreeStep(r, op, u) /\ DataStep(r, op, e)
            /\ Step(u, e, r, [next EXCEPT !.out = n])
  BY <1>1, OpenStep
<1>3. Writers(n) = {}
  BY <1>2, NoWriters
<1>4. e[n].mixed = FALSE /\ e[n].content = Torn /\ e[n].set = IF IsFile(p) THEN data[n].set ELSE set
  <2> DEFINE given == IF IsFile(p) THEN data[n].set ELSE set
             busy == Writers(n) # {}
             shown == inPlace \/ Writers(n) # {}
  <2>1. e[n] = File(Torn, given, busy, shown, {r})
    BY <1>2
  <2>2. busy = FALSE
    BY <1>3
  <2> HIDE DEF given, busy, shown
  <2>3. e[n].mixed = busy /\ e[n].content = Torn /\ e[n].set = given
    BY <2>1, FileIs
  <2> QED
    BY <2>2, <2>3 DEF given
<1>5. Puts(Scene(op, tree, data), Scene(op, u, e), p, n, e[n])
  <2>1. \A m \in DOMAIN data \ {n} : e[m] = data[m]
    BY <1>2 DEF Put
  <2>2. \A x \in DOMAIN tree : tree[x] = Dir \/ tree[x] \in DOMAIN data
    BY <1>1, SafePaths
  <2>3. \A x \in DOMAIN tree : tree[x] = n => x = p
    BY <1>1, <1>2, <2>2, SafePaths DEF IsFile
  <2> QED
    BY <1>2, <2>1, <2>2, <2>3, PutSeen
<1>6. IsFile(p) => data[n].set \subseteq Attributes
  BY <1>1, <1>2, SafePaths DEF IsFile, FilesSafe, SetsIn
<1> QED
  BY <1>2, <1>4, <1>5, <1>6

LEMMA OpenTempProceeds ==
    ASSUME Isolated, FilesInv', OnCourse, NEW r \in Requests, Free(job[r]), OpenTemp(r)
    PROVE  Proceeds(r)
<1> DEFINE op == job[r].op
           temp == Temp(op.path)
           f == FoundBy(job[r])
           w == Scene(op, tree, data)
           left == LeftIn(w)
           next == [job[r] EXCEPT !.at = "write"]
           set == IF op.kind = "write" THEN op.set \cap {"mode"} ELSE {}
<1>1. /\ job[r].at = "open" /\ op.kind \in Uploads
      /\ OpenAt(r, temp, ModeAtOpen(r), FALSE, next) \/ Error(r)
  BY DEF OpenTemp, At, Uploads
<1>2. /\ op \in Operations /\ DOMAIN job[r] = Fields /\ Progress(r, job[r], w)
  BY Course
<1>3. left = f
  BY <1>1, <1>2 DEF Progress, Uploads, WriteProgress
<1>4. Error(r) => Proceeds(r)
  BY <1>3, EarlyError
<1>5. ASSUME OpenAt(r, temp, ModeAtOpen(r), FALSE, next)
      PROVE  Proceeds(r)
  <2>1. temp \in Paths /\ On(op, temp)
    BY <1>1, <1>2, OnItsPaths
  <2>2. ModeAtOpen(r) = set /\ ModeAtOpen(r) \subseteq Attributes /\ job[r].at # "write"
    BY <1>1 DEF ModeAtOpen, Attributes
  <2>3. PICK n, u, e :
              /\ Puts(w, Scene(op, u, e), temp, n, e[n])
              /\ e[n].mixed = FALSE /\ e[n].content = Torn
              /\ e[n].set \subseteq Attributes /\ (~IsFile(temp) => e[n].set = ModeAtOpen(r))
              /\ Step(u, e, r, [next EXCEPT !.out = n])
    BY <1>1, <1>5, <2>1, <2>2, OpenSeen
  <2> DEFINE k == [next EXCEPT !.out = n]
             v == Scene(op, u, e)
             now == LeftIn(v)
  <2>4. k.op = op /\ k.before = job[r].before /\ k.at = "write" /\ k.out = n
    BY <1>2 DEF Fields
  <2>5. FoundBy(k) = f
    BY <2>4, SameFound
  <2>6. Step(u, e, r, k) /\ Puts(w, v, temp, n, e[n])
    BY <2>3
  <2>7. e[n].set \in TempSets(op, f, set)
    <3>1. temp \in DOMAIN tree => IsFile(temp)
      BY <1>5 DEF OpenAt, CanOpen, IsFile
    <3>2. temp \in DOMAIN left <=> temp \in DOMAIN tree
      <4>1. DOMAIN left = Where(op, tree)
        BY SceneIs
      <4> QED
        BY <2>1, <4>1 DEF Where
    <3>3. IsFile(temp) <=> temp \in DOMAIN f
      BY <1>3, <3>1, <3>2 DEF IsFile
    <3> QED
      BY <2>2, <2>3, <3>3 DEF TempSets
  <2> HIDE DEF k, v, now, f, w, left, next, set
  <2>8. Elsewhere(now, temp) = Elsewhere(f, temp)
    <3>1. IsPrefix(temp, temp)
      BY <2>1, PrefixLaws
    <3>2. DOMAIN now = DOMAIN left \cup {temp} /\ \A x \in DOMAIN left : x # temp => now[x] = left[x]
      BY <2>6 DEF Puts, now, left
    <3>3. \A x \in DOMAIN now : ~IsPrefix(temp, x) => now[x] = f[x]
      BY <1>3, <3>1, <3>2
    <3>4. \A x : ~IsPrefix(temp, x) => (x \in DOMAIN now <=> x \in DOMAIN f)
      BY <1>3, <3>1, <3>2
    <3> HIDE DEF temp
    <3> QED
      BY <3>3, <3>4, ElseSame
  <2>9. /\ temp \in DOMAIN v /\ ~now[temp].dir /\ now[temp].set = e[n].set
        /\ v[temp].node = n /\ ~v[temp].mixed
    BY <2>3, <2>6 DEF Puts, now
  <2>10. WriteProgress(r, k, f, v)
    BY <2>4, <2>7, <2>8, <2>9 DEF WriteProgress, now, set
  <2>11. Progress(r, k, v)
    BY <1>1, <2>4, <2>5, <2>10 DEF Progress, Reads, Uploads
  <2>12. v = Scene(k.op, u, e)
    BY <2>4 DEF v
  <2> QED
    BY <2>6, <2>11, <2>12, StepProceeds
<1> QED
  BY <1>1, <1>4, <1>5

\* What is left of the temporary file may be removed.
LEMMA WriteFails ==
    ASSUME Isolated, FilesInv', OnCourse, NEW r \in Requests, Free(job[r]), job[r].op.kind \in Uploads,
           Elsewhere(LeftIn(Scene(job[r].op, tree, data)), Temp(job[r].op.path))
               = Elsewhere(FoundBy(job[r]), Temp(job[r].op.path)),
           NEW t, t \in {tree, Without(Temp(job[r].op.path))}, Step(t, data, r, Answer(r, "error"))
    PROVE  Proceeds(r)
<1> DEFINE op == job[r].op
           temp == Temp(op.path)
           f == FoundBy(job[r])
           w == Scene(op, tree, data)
           left == LeftIn(w)
           v == Scene(op, t, data)
           now == LeftIn(v)
           k == Answer(r, "error")
<1>1. /\ DOMAIN job[r] = Fields /\ op \in Operations /\ temp \in Paths
  BY Course, OnItsPaths
<1>2. k.op = op /\ k.at = "answer" /\ k.result = "error" /\ FoundBy(k) = f
  BY <1>1, AnswerIs
<1>3. /\ \A x : x # temp => (x \in DOMAIN now <=> x \in DOMAIN left)
      /\ \A x \in DOMAIN now : x \in DOMAIN left /\ now[x] = left[x]
  <2>1. CASE t = tree
    BY <2>1
  <2>2. CASE t = Without(temp)
    BY <2>2, WithoutSeen
  <2> QED
    BY <2>1, <2>2
<1>4. Elsewhere(left, temp) = Elsewhere(f, temp) /\ Step(t, data, r, k)
  OBVIOUS
<1>5. IsPrefix(temp, temp)
  BY <1>1, PrefixLaws
<1> HIDE DEF k, v, now, w, left, f, temp
<1>6. Elsewhere(now, temp) = Elsewhere(left, temp)
  <2>1. \A x : ~IsPrefix(temp, x) => (x \in DOMAIN now <=> x \in DOMAIN left)
    BY <1>3, <1>5
  <2>2. \A x \in DOMAIN now : ~IsPrefix(temp, x) => now[x] = left[x]
    BY <1>3
  <2> QED
    BY <2>1, <2>2, ElseSame
<1>7. WriteProgress(r, k, f, v)
  BY <1>2, <1>4, <1>6 DEF WriteProgress, now, temp
<1>8. Progress(r, k, v)
  BY <1>2, <1>7 DEF Progress, Reads, Uploads
<1>9. v = Scene(k.op, t, data)
  BY <1>2 DEF v
<1> QED
  BY <1>4, <1>8, <1>9, StepProceeds

\* The file that a request has open gets its content.
LEMMA WrittenSeen ==
    ASSUME Isolated, NEW r \in Requests, job[r].at = "write",
           NEW p, p \in DOMAIN Scene(job[r].op, tree, data),
           Scene(job[r].op, tree, data)[p].node = job[r].out,
           NEW content, NEW d \in WrittenTo(job[r].out, content)
    PROVE  /\ Puts(Scene(job[r].op, tree, data), Scene(job[r].op, tree, d), p, job[r].out, d[job[r].out])
           /\ ~Scene(job[r].op, tree, data)[p].mixed => d[job[r].out].content = content
           /\ d[job[r].out].set = LeftIn(Scene(job[r].op, tree, data))[p].set
<1> DEFINE op == job[r].op
           n == job[r].out
           w == Scene(op, tree, data)
<1>1. FilesSafe /\ JobSound(data, job[r])
  BY DEF Isolated, FilesSafe, FilesInv, FilesSound, RequestSound
<1>2. n # Dir /\ n \in DOMAIN data /\ data[n].mixed \in BOOLEAN
  BY <1>1 DEF JobSound, FilesSafe, FilesInv, FilesSound, DataSound
<1>3. /\ p \in Where(op, tree) /\ w[p].node = tree[p] /\ w[p].mixed = (tree[p] # Dir /\ data[tree[p]].mixed)
      /\ LeftIn(w)[p] = SeenAt(tree, data, p)
  BY SceneIs
<1>4. p \in DOMAIN tree /\ On(op, p) /\ tree[p] = n /\ (~w[p].mixed => data[n].mixed = FALSE)
  BY <1>2, <1>3 DEF Where
<1>5. SeenAt(tree, data, p).set = data[n].set
  BY <1>2, <1>4 DEF SeenAt
<1>6. /\ DOMAIN d = DOMAIN data /\ \A m \in DOMAIN data \ {n} : d[m] = data[m]
      /\ d[n].set = data[n].set /\ (~w[p].mixed => d[n].content = content)
  <2>1. d \in WrittenTo(n, content)
    OBVIOUS
  <2>2. /\ DOMAIN d = DOMAIN data /\ \A m \in DOMAIN data \ {n} : d[m] = data[m]
        /\ d[n].set = data[n].set
        /\ data[n].mixed = FALSE => d[n].content = content
    BY <1>1, <1>2, <2>1, WrittenIs
  <2> QED
    BY <1>4, <2>2
<1>7. Put(tree, tree, p, n)
  BY <1>4 DEF Put
<1>8. \A x \in DOMAIN tree : tree[x] = Dir \/ tree[x] \in DOMAIN data
  BY <1>1, SafePaths
<1>9. \A x \in DOMAIN tree : tree[x] = n => x = p
  BY <1>1, <1>2, <1>4, SafePaths
<1>10. Puts(w, Scene(op, tree, d), p, n, d[n])
  BY <1>2, <1>4, <1>6, <1>7, <1>8, <1>9, PutSeen
<1> QED
  BY <1>3, <1>5, <1>6, <1>10

LEMMA WriteTempProceeds ==
    ASSUME Isolated, FilesInv', OnCourse, NEW r \in Requests, Free(job[r]), WriteTemp(r)
    PROVE  Proceeds(r)
<1> DEFINE op == job[r].op
           temp == Temp(op.path)
           f == FoundBy(job[r])
           w == Scene(op, tree, data)
           left == LeftIn(w)
           text == Content(r, <<>>)
           set == IF op.kind = "write" THEN op.set \cap {"mode"} ELSE {}
           k == [job[r] EXCEPT !.at = "place", !.out = Dir]
<1>1. /\ job[r].at = "write" /\ op.kind \in Uploads
      /\ \/ \E d \in WrittenTo(job[r].out, text) : Step(tree, d, r, k)
         \/ Step(tree, data, r, Answer(r, "error"))
         \/ Step(Without(temp), data, r, Answer(r, "error"))
  BY DEF WriteTemp, At, Error, Uploads
<1>2. /\ op \in Operations /\ DOMAIN job[r] = Fields /\ Progress(r, job[r], w) /\ temp \in Paths
  BY <1>1, Course, OnItsPaths
<1>3. /\ temp \in DOMAIN w /\ Elsewhere(left, temp) = Elsewhere(f, temp)
      /\ left[temp].set \in TempSets(op, f, set)
      /\ w[temp].node = job[r].out /\ ~w[temp].mixed
  BY <1>1, <1>2 DEF Progress, Uploads, WriteProgress
<1>4. (\E t \in {tree, Without(temp)} : Step(t, data, r, Answer(r, "error"))) => Proceeds(r)
  BY <1>1, <1>3, WriteFails
<1>5. ASSUME NEW d \in WrittenTo(job[r].out, text), Step(tree, d, r, k)
      PROVE  Proceeds(r)
  <2> DEFINE v == Scene(op, tree, d)
             now == LeftIn(v)
             n == job[r].out
  <2>1. Puts(w, v, temp, n, d[n]) /\ d[n].content = text /\ d[n].set = left[temp].set
    BY <1>1, <1>3, <1>5, WrittenSeen, Zenon
  <2>2. k.op = op /\ k.before = job[r].before /\ k.at = "place"
    BY <1>2 DEF Fields
  <2>3. FoundBy(k) = f
    BY <2>2, SameFound
  <2>4. Step(tree, d, r, k)
    BY <1>5
  <2> HIDE DEF k, v, now, f, w, left, text, set, n
  <2>5. Elsewhere(now, temp) = Elsewhere(left, temp)
    <3>1. IsPrefix(temp, temp)
      BY <1>2, PrefixLaws
    <3>2. DOMAIN now = DOMAIN left \cup {temp} /\ \A x \in DOMAIN left : x # temp => now[x] = left[x]
      BY <2>1 DEF Puts, now, left
    <3>3. \A x \in DOMAIN now : ~IsPrefix(temp, x) => now[x] = left[x]
      BY <3>1, <3>2
    <3>4. \A x : ~IsPrefix(temp, x) => (x \in DOMAIN now <=> x \in DOMAIN left)
      BY <3>1, <3>2
    <3> HIDE DEF temp
    <3> QED
      BY <3>3, <3>4, ElseSame
  <2>6. temp \in DOMAIN v /\ ~now[temp].dir /\ now[temp].set = left[temp].set /\ now[temp].content = text
    BY <2>1 DEF Puts, now
  <2>7. WriteProgress(r, k, f, v)
    BY <1>3, <2>2, <2>5, <2>6 DEF WriteProgress, now, set, text
  <2>8. Progress(r, k, v)
    BY <1>1, <2>2, <2>3, <2>7 DEF Progress, Reads, Uploads
  <2>9. v = Scene(k.op, tree, d)
    BY <2>2 DEF v
  <2> QED
    BY <2>4, <2>8, <2>9, StepProceeds
<1> QED
  BY <1>1, <1>4, <1>5

LEMMA PlaceProceeds ==
    ASSUME Isolated, FilesInv', OnCourse, NEW r \in Requests, Free(job[r]), Place(r)
    PROVE  Proceeds(r)
<1> DEFINE op == job[r].op
           p == op.path
           temp == Temp(p)
           f == FoundBy(job[r])
           w == Scene(op, tree, data)
           left == LeftIn(w)
           text == Content(r, <<>>)
           set == IF op.kind = "write" THEN op.set \cap {"mode"} ELSE {}
           t == Moving(temp, p)
           d == Exposed(r, temp)
           k == [job[r] EXCEPT !.at = "attributes"]
<1>1. /\ job[r].at = "place" /\ op.kind \in Uploads
      /\ \/ CanRename(temp, p) /\ Step(t, d, r, k)
         \/ Step(Without(temp), data, r, Answer(r, "error"))
  BY DEF Place, At, Uploads
<1>2. /\ op \in Operations /\ DOMAIN job[r] = Fields /\ Progress(r, job[r], w) /\ FilesSafe
  BY Course
<1>3. /\ temp \in DOMAIN w /\ Elsewhere(left, temp) = Elsewhere(f, temp)
      /\ ~left[temp].dir /\ left[temp].set \in TempSets(op, f, set) /\ left[temp].content = text
  BY <1>1, <1>2 DEF Progress, Uploads, WriteProgress
<1>4. Step(Without(temp), data, r, Answer(r, "error")) => Proceeds(r)
  BY <1>1, <1>3, WriteFails
<1>5. ASSUME CanRename(temp, p), Step(t, d, r, k)
      PROVE  Proceeds(r)
  <2> DEFINE v == Scene(op, t, d)
             now == LeftIn(v)
  <2>1. p \in Paths /\ temp \in Paths /\ ~IsPrefix(temp, p) /\ ~IsPrefix(p, temp)
    BY <1>1, <1>2, TempIs
  <2>2. temp \in DOMAIN tree /\ left[temp] = SeenAt(tree, data, temp)
    <3>1. DOMAIN left = Where(op, tree) /\ DOMAIN w = Where(op, tree)
          /\ \A x \in DOMAIN left : left[x] = SeenAt(tree, data, x)
      BY SceneIs
    <3> QED
      BY <1>3, <3>1 DEF Where
  <2>3. tree[temp] # Dir /\ tree[temp] \in DOMAIN data
    BY <1>2, <1>3, <2>2, SafePaths DEF SeenAt, Created
  <2>4. \A x \in DOMAIN tree : IsPrefix(temp, x) => x = temp
    BY <1>2, <2>1, <2>3, SafePaths DEF FilesSafe, Closed
  <2>5. \A x \in DOMAIN tree : IsPrefix(p, x) => x = p
    BY <1>2, <1>5, <2>1, SafePaths DEF FilesSafe, Closed, CanRename
  <2>6. \A x \in Paths : On(op, x) <=> IsPrefix(p, x) \/ IsPrefix(temp, x)
    BY <1>1, <1>2, OnIs
  <2>7. /\ \A a \in Paths : temp \o a \in DOMAIN tree => p \o a \in DOMAIN t /\ t[p \o a] = tree[temp \o a]
        /\ \A s \in DOMAIN t : s \in Paths
        /\ \A s \in DOMAIN t : \/ \E a \in Paths : s = p \o a /\ temp \o a \in DOMAIN tree
                               \/ s \in DOMAIN tree /\ ~IsPrefix(temp, s)
    <3>1. DOMAIN tree \subseteq Paths
      BY <1>2, SafePaths
    <3>2. \A a \in Paths : temp \o a \in DOMAIN tree => p \o a \in DOMAIN t /\ t[p \o a] = tree[temp \o a]
      BY <2>1, <3>1, MovingIs
    <3>3. \A s \in DOMAIN t : s \in Paths
      BY <2>1, <3>1, MovingIs
    <3>4. \A s \in DOMAIN t : \/ \E a \in Paths : s = p \o a /\ temp \o a \in DOMAIN tree
                              \/ s \in DOMAIN tree /\ ~IsPrefix(temp, s)
      BY <2>1, <3>1, MovingIs
    <3> QED
      BY <3>2, <3>3, <3>4
  <2>8. <<>> \in Paths /\ temp \o <<>> = temp /\ p \o <<>> = p
    BY <2>1, Behind, PrefixLaws
  <2>9. p \in DOMAIN t /\ t[p] = tree[temp]
    BY <2>2, <2>7, <2>8
  <2>10. ASSUME NEW s \in DOMAIN t, On(op, s) PROVE s = p
    <3>1. CASE \E a \in Paths : s = p \o a /\ temp \o a \in DOMAIN tree
      <4>1. PICK a \in Paths : s = p \o a /\ temp \o a \in DOMAIN tree
        BY <3>1
      <4>2. temp \o a = temp
        BY <2>1, <2>4, <4>1, Behind
      <4> QED
        BY <2>1, <4>1, <4>2, Behind
    <3>2. CASE s \in DOMAIN tree /\ ~IsPrefix(temp, s)
      BY <2>5, <2>6, <2>7, <2>10, <3>2
    <3> QED
      BY <2>7, <3>1, <3>2
  <2>11. /\ DOMAIN now = Where(op, t) /\ \A x \in DOMAIN now : now[x] = SeenAt(t, d, x)
    BY SceneIs
  <2>12. DOMAIN now = {p}
    <3>1. On(op, p)
      BY <1>1, <1>2, OnItsPaths, PrefixLaws, <2>1, <2>6
    <3> QED
      BY <2>9, <2>10, <2>11, <3>1 DEF Where
  <2>13. ~now[p].dir /\ now[p].content = text /\ now[p].set = left[temp].set
    <3>1. d[tree[temp]].content = data[tree[temp]].content /\ d[tree[temp]].set = data[tree[temp]].set
      <4>1. On(op, temp)
        BY <1>1, <1>2, OnItsPaths
      <4>2. \A n \in DOMAIN data : d[n].content = data[n].content /\ d[n].set = data[n].set
        BY <1>2, <2>1, <4>1, ExposedStep
      <4> QED
        BY <2>3, <4>2
    <3>2. now[p] = [dir |-> FALSE, content |-> d[tree[temp]].content, set |-> d[tree[temp]].set]
      BY <2>3, <2>9, <2>11, <2>12 DEF SeenAt
    <3>3. left[temp] = [dir |-> FALSE, content |-> data[tree[temp]].content, set |-> data[tree[temp]].set]
      BY <2>2, <2>3 DEF SeenAt
    <3> HIDE DEF now, left, d
    <3> QED
      BY <1>3, <3>1, <3>2, <3>3
  <2>14. k.op = op /\ k.before = job[r].before /\ k.at = "attributes"
    BY <1>2 DEF Fields
  <2>15. FoundBy(k) = f
    BY <2>14, SameFound
  <2>16. Step(t, d, r, k)
    BY <1>5
  <2> HIDE DEF k, v, now, f, w, left, text, set, t, d
  <2>17. WriteProgress(r, k, f, v)
    BY <1>3, <2>12, <2>13, <2>14 DEF WriteProgress, now, set, text
  <2>18. Progress(r, k, v)
    BY <1>1, <2>14, <2>15, <2>17 DEF Progress, Reads, Uploads
  <2>19. v = Scene(k.op, t, d)
    BY <2>14 DEF v
  <2> QED
    BY <2>16, <2>18, <2>19, StepProceeds
<1> QED
  BY <1>1, <1>4, <1>5

\* The attributes of what is at a path are changed.
SetSeen(left, now, p, attributes) ==
    /\ DOMAIN now = DOMAIN left
    /\ \A x \in DOMAIN left : x # p => now[x] = left[x]
    /\ left[p].dir => now[p] = left[p]
    /\ ~left[p].dir => now[p] = [dir |-> FALSE, content |-> left[p].content,
                                 set |-> left[p].set \cup attributes]

LEMMA ChangedSeen ==
    ASSUME FilesSafe, NEW op, NEW p \in DOMAIN tree, On(op, p), NEW attributes
    PROVE  SetSeen(LeftIn(Scene(op, tree, data)), LeftIn(Scene(op, tree, Changed(p, attributes))),
                   p, attributes)
<1> DEFINE e == Changed(p, attributes)
           w == Scene(op, tree, data)
           v == Scene(op, tree, e)
           left == LeftIn(w)
           now == LeftIn(v)
           n == tree[p]
<1>1. /\ DOMAIN left = Where(op, tree) /\ IsTable(left)
      /\ \A x \in DOMAIN left : left[x] = SeenAt(tree, data, x)
  BY SceneIs
<1>2. p \in DOMAIN left
  BY <1>1 DEF Where
<1>3. CASE tree[p] = Dir
  <2>1. e = data
    BY <1>3 DEF Changed, IsFile
  <2>2. left[p].dir = TRUE
    BY <1>1, <1>2, <1>3 DEF SeenAt, Created
  <2>3. now = left
    BY <2>1
  <2> HIDE DEF now, left
  <2>4. SetSeen(left, now, p, attributes)
    BY <2>2, <2>3 DEF SetSeen
  <2> QED
    BY <2>4 DEF left, now
<1>4. CASE tree[p] # Dir
  <2>1. IsFile(p) /\ n \in DOMAIN data
    BY <1>4, SafePaths DEF IsFile
  <2>2. /\ \A m \in DOMAIN data \ {n} : e[m] = data[m]
        /\ e[n].set = data[n].set \cup attributes /\ e[n].content = data[n].content
    BY <2>1, ChangedIs
  <2>3. Put(tree, tree, p, n)
    BY DEF Put
  <2>4. \A x \in DOMAIN tree : tree[x] = Dir \/ tree[x] \in DOMAIN data
    BY SafePaths
  <2>5. \A x \in DOMAIN tree : tree[x] = n => x = p
    BY <1>4, SafePaths
  <2>6. Puts(w, v, p, n, e[n])
    BY <1>4, <2>2, <2>3, <2>4, <2>5, PutSeen
  <2>7. left[p].dir = FALSE /\ left[p].content = data[n].content /\ left[p].set = data[n].set
    BY <1>1, <1>2, <1>4 DEF SeenAt
  <2> HIDE DEF e, w, v, n
  <2>8. /\ now[p] = [dir |-> FALSE, content |-> e[n].content, set |-> e[n].set]
        /\ \A x \in DOMAIN left : x # p => now[x] = left[x]
        /\ DOMAIN now = DOMAIN left \cup {p}
    BY <2>6 DEF Puts
  <2> HIDE DEF now, left
  <2>9. SetSeen(left, now, p, attributes)
    BY <1>2, <2>2, <2>7, <2>8 DEF SetSeen
  <2> QED
    BY <2>9 DEF left, now, w, v, e
<1> QED
  BY <1>3, <1>4

LEMMA WriteEnds ==
    ASSUME Isolated, FilesInv', OnCourse, NEW r \in Requests, Free(job[r]), job[r].op.kind \in Uploads,
           SetAttributes(r)
    PROVE  Proceeds(r)
<1> DEFINE op == job[r].op
           p == op.path
           temp == Temp(p)
           f == FoundBy(job[r])
           w == Scene(op, tree, data)
           left == LeftIn(w)
           text == Content(r, <<>>)
           set == IF op.kind = "write" THEN op.set \cap {"mode"} ELSE {}
           wanted == IF op.kind = "upload" THEN op.set ELSE op.set \cap {"owner"}
<1>1. /\ FilesSafe /\ op \in Operations /\ DOMAIN job[r] = Fields /\ Progress(r, job[r], w)
      /\ op.set \subseteq Attributes /\ job[r].at = "attributes"
  BY Course, Worker DEF SetAttributes
<1>2. p \in Paths /\ temp \in Paths /\ ~IsPrefix(temp, p) /\ On(op, p)
  BY <1>1, TempIs, OnItsPaths DEF Uploads
<1>3. /\ DOMAIN left = {p} /\ ~left[p].dir
      /\ left[p].content = text /\ left[p].set \in TempSets(op, f, set)
  BY <1>1 DEF Progress, Uploads, WriteProgress
<1>4. set \cup wanted = op.set
  BY <1>1 DEF Attributes, Uploads
<1>5. p \in DOMAIN tree
  <2>1. DOMAIN left = Where(op, tree)
    BY SceneIs
  <2> QED
    BY <1>3, <2>1 DEF Where
<1>6. left[p].set \subseteq Attributes
  BY <1>1, <1>3 DEF TempSets, Attributes
<1>7. ASSUME NEW some \in SUBSET wanted, NEW said \in {"ok", "error"}, said = "ok" => some = wanted,
             NEW e, SetSeen(left, LeftIn(Scene(op, tree, e)), p, some),
             Step(tree, e, r, Answer(r, said))
      PROVE  Proceeds(r)
  <2> DEFINE v == Scene(op, tree, e)
             now == LeftIn(v)
             k == Answer(r, said)
  <2>1. SetSeen(left, now, p, some)
    BY <1>7
  <2>2. k.op = op /\ k.at = "answer" /\ k.result = said /\ FoundBy(k) = f
    BY <1>1, AnswerIs
  <2>3. Step(tree, e, r, k)
    BY <1>7
  <2>4. some \subseteq Attributes /\ (said = "ok" => set \cup some = op.set)
    BY <1>1, <1>4, <1>7 DEF Attributes
  <2> HIDE DEF v, now, k, f, w, left, text, set, wanted
  <2>5. /\ DOMAIN now = {p} /\ ~now[p].dir /\ now[p].content = text
        /\ now[p].set = left[p].set \cup some
    BY <1>3, <2>1 DEF SetSeen
  <2>6. said = "ok" => now[p].set \in TempSets(op, f, op.set)
    <3>1. CASE temp \in DOMAIN f
      BY <1>6, <2>4, <2>5, <3>1 DEF TempSets
    <3>2. CASE temp \notin DOMAIN f
      <4>1. left[p].set = set
        BY <1>3, <3>2 DEF TempSets
      <4> QED
        BY <2>4, <2>5, <3>2, <4>1 DEF TempSets
    <3> QED
      BY <3>1, <3>2
  <2>7. said = "error" => DOMAIN Elsewhere(now, temp) = {p}
    <3>1. \A x : x \in DOMAIN Elsewhere(now, temp) <=> x \in DOMAIN now /\ ~IsPrefix(temp, x)
      BY ElseIs
    <3>2. \A x : x \in DOMAIN Elsewhere(now, temp) <=> x = p
      BY <1>2, <2>5, <3>1
    <3> QED
      BY <3>2
  <2>8. WriteProgress(r, k, f, v)
    BY <1>7, <2>2, <2>5, <2>6, <2>7 DEF WriteProgress, now, text
  <2>9. Progress(r, k, v)
    BY <2>2, <2>8 DEF Progress, Reads, Uploads
  <2>10. v = Scene(k.op, tree, e)
    BY <2>2 DEF v
  <2> QED
    BY <2>3, <2>9, <2>10, StepProceeds
<1>8. ASSUME wanted = {}, Ok(r) PROVE Proceeds(r)
  <2>1. left[p] = [dir |-> left[p].dir, content |-> left[p].content, set |-> left[p].set]
        /\ left[p].dir \in BOOLEAN
    BY <1>1, <1>3, Course DEF View, Sight
  <2>2. left[p].dir = FALSE /\ left[p].set \cup wanted = left[p].set
    BY <1>3, <1>8, <2>1
  <2> DEFINE e == data
  <2>3. LeftIn(Scene(op, tree, e)) = left
    OBVIOUS
  <2> HIDE DEF left, wanted
  <2>4. SetSeen(left, left, p, wanted)
    BY <2>1, <2>2 DEF SetSeen
  <2>5. SetSeen(left, LeftIn(Scene(op, tree, e)), p, wanted)
    BY <2>3, <2>4
  <2>6. Step(tree, e, r, Answer(r, "ok"))
    BY <1>8 DEF Ok
  <2> QED
    BY <1>7, <2>5, <2>6
<1>9. \/ wanted = {} /\ Ok(r)
      \/ Step(tree, Changed(p, wanted), r, Answer(r, "ok"))
      \/ \E some \in SUBSET wanted : Step(tree, Changed(p, some), r, Answer(r, "error"))
  BY DEF SetAttributes
<1> HIDE DEF wanted
<1>10. \A some : SetSeen(left, LeftIn(Scene(op, tree, Changed(p, some))), p, some)
  BY <1>1, <1>2, <1>5, ChangedSeen
<1>11. Step(tree, Changed(p, wanted), r, Answer(r, "ok")) => Proceeds(r)
  BY <1>7, <1>10
<1>12. (\E some \in SUBSET wanted : Step(tree, Changed(p, some), r, Answer(r, "error"))) => Proceeds(r)
  BY <1>7, <1>10
<1> QED
  BY <1>8, <1>9, <1>11, <1>12
--------------------------------------------------------------------------------
\* chmod and chown.
LEMMA SightWith ==
    ASSUME NEW b, NEW c, NEW z, NEW s, s = [dir |-> b, content |-> c, set |-> z], NEW y
    PROVE  /\ [s EXCEPT !.set = y] = [dir |-> b, content |-> c, set |-> y]
           /\ [s EXCEPT !.content = y] = [dir |-> b, content |-> y, set |-> z]
<1> DEFINE S == {b, c, z, y}
<1>1. b \in S /\ c \in S /\ z \in S /\ y \in S
  OBVIOUS
<1> HIDE DEF S
<1> QED
  BY <1>1

LEMMA WithSetIs ==
    ASSUME NEW s, Sight(s), NEW attribute
    PROVE  /\ WithSet(WithSet(s, attribute), attribute) = WithSet(s, attribute)
           /\ WithSet(s, attribute).content = s.content /\ WithSet(s, attribute).dir = s.dir
           /\ s.dir => WithSet(s, attribute) = s
           /\ ~s.dir => /\ ~WithSet(s, attribute).dir
                        /\ WithSet(s, attribute).set = s.set \cup {attribute}
                        /\ WithSet(s, attribute) = [dir |-> FALSE, content |-> s.content,
                                                    set |-> s.set \cup {attribute}]
<1>1. CASE s.dir
  BY <1>1 DEF WithSet
<1>2. CASE ~s.dir
  <2> DEFINE b == s.dir
             c == s.content
             z == s.set
             y == z \cup {attribute}
             made == [dir |-> b, content |-> c, set |-> y]
  <2>1. s = [dir |-> b, content |-> c, set |-> z] /\ b = FALSE
    BY <1>2 DEF Sight
  <2>2. WithSet(s, attribute) = [s EXCEPT !.set = y]
    BY <1>2 DEF WithSet
  <2>3. made.dir = b /\ made.content = c /\ made.set = y
    OBVIOUS
  <2>4. y \cup {attribute} = y
    OBVIOUS
  <2>5. WithSet(made, attribute) = [made EXCEPT !.set = y]
    BY <2>1, <2>3, <2>4 DEF WithSet
  <2>6. made = [dir |-> b, content |-> c, set |-> y]
    OBVIOUS
  <2>7. s.dir = b /\ s.content = c /\ s.set = z /\ y = z \cup {attribute}
    OBVIOUS
  <2> HIDE DEF b, c, z, y, made
  <2>8. [s EXCEPT !.set = y] = made /\ [made EXCEPT !.set = y] = made
    BY <2>1, <2>6, SightWith
  <2>9. made = [dir |-> FALSE, content |-> s.content, set |-> s.set \cup {attribute}]
    BY <2>1, <2>6, <2>7
  <2>10. WithSet(s, attribute) = made /\ WithSet(made, attribute) = made
    BY <2>2, <2>5, <2>8
  <2> QED
    BY <1>2, <2>1, <2>3, <2>7, <2>9, <2>10
<1> QED
  BY <1>1, <1>2

LEMMA SetAgain ==
    ASSUME NEW s, Sight(s), NEW attribute, NEW was, was \in {s, WithSet(s, attribute)}, NEW now,
           was.dir => now = was,
           ~was.dir => now = [dir |-> FALSE, content |-> was.content, set |-> was.set \cup {attribute}]
    PROVE  now = WithSet(s, attribute)
<1>1. /\ s.dir => WithSet(s, attribute) = s
      /\ WithSet(s, attribute).content = s.content /\ WithSet(s, attribute).dir = s.dir
      /\ ~s.dir => /\ WithSet(s, attribute).set = s.set \cup {attribute}
                   /\ WithSet(s, attribute) = [dir |-> FALSE, content |-> s.content,
                                               set |-> s.set \cup {attribute}]
  BY WithSetIs
<1> DEFINE t == WithSet(s, attribute)
<1> HIDE DEF t
<1>2. CASE s.dir
  <2>1. was = s
    BY <1>1, <1>2
  <2> QED
    BY <1>1, <1>2, <2>1
<1>3. CASE ~s.dir
  <2>1. ~was.dir /\ was.content = s.content
    BY <1>1, <1>3
  <2>2. was.set \cup {attribute} = s.set \cup {attribute}
    BY <1>1, <1>3
  <2> QED
    BY <1>1, <1>3, <2>1, <2>2
<1> QED
  BY <1>2, <1>3

LEMMA CheckAttributesProceeds ==
    ASSUME Isolated, FilesInv', OnCourse, NEW r \in Requests, Free(job[r]), CheckAttributes(r)
    PROVE  Proceeds(r)
<1> DEFINE op == job[r].op
           p == op.path
           f == FoundBy(job[r])
           w == Scene(op, tree, data)
           left == LeftIn(w)
           first == [from |-> p, to |-> p, isDir |-> IsDir(p)]
           k == [job[r] EXCEPT !.at = "walk", !.todo = {first}]
<1>1. /\ job[r].at = "check" /\ op.kind \in {"chmod", "chown"}
      /\ Step(tree, data, r, k) \/ Error(r)
  BY DEF CheckAttributes, At, Task
<1>2. /\ op \in Operations /\ DOMAIN job[r] = Fields /\ View(op, f)
  BY Course
<1>3. left = f
  BY <1>1, AtCheck
<1>4. Error(r) => Proceeds(r)
  BY <1>3, EarlyError
<1>5. k.op = op /\ k.before = job[r].before /\ k.at = "walk" /\ k.todo = {first} /\ first.from = p
  BY <1>2 DEF Fields
<1>6. FoundBy(k) = f
  BY <1>5, SameFound
<1>7. \A x \in DOMAIN f : IsPrefix(p, x)
  BY <1>1, <1>2, OnIs DEF View
<1>8. first \in k.todo
  BY <1>5
<1> HIDE DEF k, f, w, left, first
<1>9. \A x \in DOMAIN f : \E t \in k.todo : IsPrefix(t.from, x)
  BY <1>5, <1>7, <1>8
<1>10. ChangeProgress(k, f, w)
  BY <1>3, <1>5, <1>9 DEF ChangeProgress, left
<1>11. Progress(r, k, w)
  BY <1>1, <1>5, <1>6, <1>10 DEF Progress, Reads
<1>12. w = Scene(k.op, tree, data)
  BY <1>5 DEF w
<1> QED
  BY <1>1, <1>4, <1>11, <1>12, StepProceeds

\* Whatever has been reached so far may be changed when it ends.
LEMMA ChangeEnds ==
    ASSUME Isolated, FilesInv', OnCourse, NEW r \in Requests, Free(job[r]), job[r].at = "walk",
           Error(r) \/ (job[r].todo = {} /\ Ok(r))
    PROVE  Proceeds(r)
<1> DEFINE op == job[r].op
           f == FoundBy(job[r])
           w == Scene(op, tree, data)
<1>1. /\ DOMAIN job[r] = Fields /\ Own(job[r]) /\ Progress(r, job[r], w)
  BY Course
<1>2. op.kind \in {"chmod", "chown"}
  BY <1>1 DEF Own
<1>3. ChangeProgress(job[r], f, w)
  BY <1>1, <1>2 DEF Progress
<1>4. PICK said \in {"ok", "error"} :
         Step(tree, data, r, Answer(r, said)) /\ (said = "ok" => job[r].todo = {})
  BY DEF Ok, Error
<1> DEFINE k == Answer(r, said)
<1>5. k.op = op /\ k.at = "answer" /\ k.result = said /\ FoundBy(k) = f
  BY <1>1, AnswerIs
<1>6. Step(tree, data, r, k)
  BY <1>4
<1> HIDE DEF k, f, w
<1>7. ChangeProgress(k, f, w)
  BY <1>3, <1>4, <1>5 DEF ChangeProgress
<1>8. Progress(r, k, w)
  BY <1>2, <1>5, <1>7 DEF Progress, Reads
<1>9. w = Scene(k.op, tree, data)
  BY <1>5 DEF w
<1> QED
  BY <1>6, <1>8, <1>9, StepProceeds

\* On the way to what is below a path there is a child of it.
LEMMA ChildOnTheWay ==
    ASSUME FilesSafe, NEW p \in Paths, NEW x \in DOMAIN tree, IsPrefix(p, x), x # p
    PROVE  \E c \in Children(p) : IsPrefix(c, x)
<1>1. x \in Paths /\ Len(p) \in Nat /\ Len(x) \in Nat /\ Len(p) <= Len(x)
  BY SafePaths, PrefixLaws
<1>2. Len(x) # Len(p)
  BY <1>1, PrefixLaws
<1> DEFINE c == SubSeq(x, 1, Len(p) + 1)
<1>3. Len(p) + 1 \in 0..Len(x)
  BY <1>1, <1>2
<1>4. c \in Paths /\ Len(c) = Len(p) + 1 /\ IsPrefix(c, x)
  BY <1>1, <1>3, Start
<1> HIDE DEF c
<1>5. IsPrefix(p, c)
  <2>1. IsPrefix(p, c) \/ IsPrefix(c, p)
    BY <1>1, <1>4, PrefixLaws
  <2>2. ~IsPrefix(c, p)
    BY <1>1, <1>4, PrefixLaws
  <2> QED
    BY <2>1, <2>2
<1>6. c \in DOMAIN tree
  BY <1>1, <1>4 DEF FilesSafe, Closed
<1> QED
  BY <1>4, <1>5, <1>6 DEF Children

LEMMA ChangeNextProceeds ==
    ASSUME Isolated, FilesInv', OnCourse, NEW r \in Requests, Free(job[r]), ChangeNext(r)
    PROVE  Proceeds(r)
<1> DEFINE op == job[r].op
           f == FoundBy(job[r])
           w == Scene(op, tree, data)
           left == LeftIn(w)
           attribute == IF op.kind = "chmod" THEN "mode" ELSE "owner"
<1>1. job[r].at = "walk"
  BY DEF ChangeNext
<1>2. /\ DOMAIN job[r] = Fields /\ Own(job[r]) /\ Progress(r, job[r], w) /\ FilesSafe /\ View(op, f)
  BY Course
<1>3. op.kind \in {"chmod", "chown"}
  BY <1>1, <1>2 DEF Own
<1>4. ChangeProgress(job[r], f, w)
  BY <1>2, <1>3 DEF Progress
<1>5. Error(r) => Proceeds(r)
  BY <1>1, ChangeEnds
<1>6. ASSUME NEW t \in job[r].todo, t.from \in DOMAIN tree,
             NEW todo, todo = (job[r].todo \ {t}) \cup UNION { Task(q, q) : q \in Children(t.from) },
             Step(tree, Changed(t.from, {attribute}), r, [job[r] EXCEPT !.todo = todo])
      PROVE  Proceeds(r)
  <2> DEFINE q == t.from
             e == Changed(q, {attribute})
             v == Scene(op, tree, e)
             now == LeftIn(v)
             k == [job[r] EXCEPT !.todo = todo]
  <2>1. q \in Paths /\ On(op, q)
    BY <1>2 DEF Own
  <2>2. SetSeen(left, now, q, {attribute})
    BY <1>2, <1>6, <2>1, ChangedSeen
  <2>3. k.op = op /\ k.before = job[r].before /\ k.at = "walk" /\ k.todo = todo
    BY <1>1, <1>2 DEF Fields
  <2>4. FoundBy(k) = f
    BY <2>3, SameFound
  <2>5. Step(tree, e, r, k)
    BY <1>6
  <2>6. DOMAIN left = Where(op, tree)
    BY SceneIs
  <2>7. \A s \in job[r].todo : s # t => s \in todo
    BY <1>6
  <2>8. \A c \in Children(q) : \E s \in todo : s.from = c
    <3> TAKE c \in Children(q)
    <3> DEFINE s == [from |-> c, to |-> c, isDir |-> IsDir(c)]
    <3>1. s \in Task(c, c) /\ s.from = c
      BY DEF Task
    <3>2. s \in UNION { Task(y, y) : y \in Children(q) }
      BY <3>1
    <3> QED
      BY <1>6, <3>1, <3>2
  <2>9. q \in DOMAIN left
    BY <1>6, <2>1, <2>6 DEF Where
  <2>16. /\ DOMAIN left = DOMAIN f
         /\ \A x \in DOMAIN f : left[x] \in {f[x], WithSet(f[x], attribute)}
         /\ \A x \in DOMAIN f : \/ left[x] = WithSet(f[x], attribute)
                                \/ \E s \in job[r].todo : IsPrefix(s.from, x)
    BY <1>1, <1>4 DEF ChangeProgress
  <2> HIDE DEF k, v, now, f, w, left, attribute, e
  <2>10. now[q] = WithSet(f[q], attribute)
    <3>1. Sight(f[q]) /\ left[q] \in {f[q], WithSet(f[q], attribute)}
      BY <1>2, <2>9, <2>16 DEF View
    <3> QED
      BY <2>2, <3>1, SetAgain DEF SetSeen
  <2>11. \A x \in DOMAIN f : now[x] = left[x] \/ x = q
    BY <2>2, <2>16 DEF SetSeen
  <2>12. ASSUME NEW x \in DOMAIN f
         PROVE  now[x] = WithSet(f[x], attribute) \/ \E s \in todo : IsPrefix(s.from, x)
    <3>1. CASE x = q
      BY <2>10, <3>1
    <3>2. CASE x # q /\ left[x] = WithSet(f[x], attribute)
      BY <2>11, <3>2
    <3>3. CASE x # q /\ \E s \in job[r].todo : s # t /\ IsPrefix(s.from, x)
      BY <2>7, <3>3
    <3>4. CASE x # q /\ IsPrefix(q, x)
      <4>1. x \in DOMAIN tree
        BY <2>6, <2>16 DEF Where
      <4>2. PICK c \in Children(q) : IsPrefix(c, x)
        BY <1>2, <2>1, <3>4, <4>1, ChildOnTheWay
      <4> QED
        BY <2>8, <4>2
    <3> QED
      BY <2>16, <3>1, <3>2, <3>3, <3>4
  <2>13. /\ DOMAIN now = DOMAIN f
         /\ \A x \in DOMAIN f : now[x] \in {f[x], WithSet(f[x], attribute)}
    BY <2>2, <2>10, <2>11, <2>16 DEF SetSeen
  <2>14. ChangeProgress(k, f, v)
    BY <2>3, <2>12, <2>13 DEF ChangeProgress, now, attribute
  <2>15. Progress(r, k, v)
    BY <1>3, <2>3, <2>4, <2>14 DEF Progress, Reads
  <2>17. v = Scene(k.op, tree, e)
    BY <2>3 DEF v
  <2> QED
    BY <2>5, <2>15, <2>17, StepProceeds
<1>7. \/ Error(r)
      \/ \E t \in job[r].todo :
            t.from \in DOMAIN tree /\
            Step(tree, Changed(t.from, {attribute}), r,
                 [job[r] EXCEPT !.todo = (@ \ {t}) \cup UNION { Task(q, q) : q \in Children(t.from) }])
  BY DEF ChangeNext
<1>8. ASSUME NEW t \in job[r].todo, t.from \in DOMAIN tree,
             Step(tree, Changed(t.from, {attribute}), r,
                  [job[r] EXCEPT !.todo = (@ \ {t}) \cup UNION { Task(q, q) : q \in Children(t.from) }])
      PROVE  Proceeds(r)
  BY <1>6, <1>8
<1> HIDE DEF attribute
<1> QED
  BY <1>5, <1>7, <1>8
--------------------------------------------------------------------------------
\* edit.
LEMMA ContentPutIs ==
    ASSUME NEW f, NEW p \in DOMAIN f, Sight(f[p]), ~f[p].dir, NEW content
    PROVE  LET g == [f EXCEPT ![p].content = content]
           IN  /\ IsTable(g) /\ DOMAIN g = DOMAIN f /\ \A x \in DOMAIN f : x # p => g[x] = f[x]
               /\ g[p] = [dir |-> FALSE, content |-> content, set |-> f[p].set]
<1> DEFINE b == f[p].dir
           c == f[p].content
           z == f[p].set
           y == [f[p] EXCEPT !.content = content]
           h == [f EXCEPT ![p] = y]
<1>1. f[p] = [dir |-> b, content |-> c, set |-> z] /\ b = FALSE
  BY DEF Sight
<1>2. z = f[p].set
  OBVIOUS
<1> HIDE DEF b, c, z
<1>3. y = [dir |-> b, content |-> content, set |-> z]
  BY <1>1, SightWith
<1>4. y = [dir |-> FALSE, content |-> content, set |-> f[p].set]
  BY <1>1, <1>2, <1>3
<1>5. /\ DOMAIN h = DOMAIN f /\ h[p] = y /\ \A x \in DOMAIN f : x # p => h[x] = f[x]
  OBVIOUS
<1>6. IsTable(h)
  BY DEF IsTable
<1>7. [f EXCEPT ![p].content = content] = h
  OBVIOUS
<1> HIDE DEF y, h
<1> QED
  BY <1>4, <1>5, <1>6, <1>7

LEMMA ContentPut ==
    ASSUME NEW f, NEW p \in DOMAIN f, Sight(f[p]), ~f[p].dir, NEW content,
           NEW g, IsTable(g), DOMAIN g = DOMAIN f, \A x \in DOMAIN f : x # p => g[x] = f[x],
           g[p] = [dir |-> FALSE, content |-> content, set |-> f[p].set]
    PROVE  g = [f EXCEPT ![p].content = content]
<1> DEFINE h == [f EXCEPT ![p].content = content]
<1>1. /\ IsTable(h) /\ DOMAIN h = DOMAIN f /\ \A x \in DOMAIN f : x # p => h[x] = f[x]
      /\ h[p] = [dir |-> FALSE, content |-> content, set |-> f[p].set]
  BY ContentPutIs
<1> HIDE DEF h
<1>2. \A x \in DOMAIN g : g[x] = h[x]
  BY <1>1
<1>3. g = h
  BY <1>1, <1>2, TablesEqual
<1> QED
  BY <1>3 DEF h

LEMMA ComposeFilesAre ==
    ASSUME NEW op \in Operations, op.kind = "edit"
    PROVE  /\ \A k \in DOMAIN ComposeFiles : On(op, ComposeFiles[k])
           /\ \A r \in Requests : ~On(op, ValidatePath(r)) /\ ValidatePath(r) \in Paths
<1>1. Touches(op) = { ComposeFiles[k] : k \in DOMAIN ComposeFiles }
  BY DEF Touches, Reads
<1>2. Touches(op) \subseteq Paths
  BY TouchesArePaths
<1>3. \A k \in DOMAIN ComposeFiles : ComposeFiles[k] \in Touches(op) /\ ComposeFiles[k] \in Paths
  BY <1>1, <1>2
<1>4. \A k \in DOMAIN ComposeFiles : On(op, ComposeFiles[k])
  BY <1>3, PrefixLaws DEF On
<1>5. \A p \in Touches(op) : Len(p) = 1
  BY <1>1 DEF ComposeFiles
<1>6. ASSUME NEW r \in Requests PROVE ~On(op, ValidatePath(r)) /\ ValidatePath(r) \in Paths
  <2>1. ValidatePath(r) \in Paths /\ Len(ValidatePath(r)) = 1
    <3>1. r \in FileNames
      BY DEF FileNames
    <3> QED
      BY <3>1, OneName DEF ValidatePath, Paths
  <2>2. ASSUME NEW p \in Touches(op), IsPrefix(p, ValidatePath(r)) PROVE FALSE
    <3>1. p = ValidatePath(r)
      BY <1>2, <1>5, <2>1, <2>2, PrefixLaws
    <3>2. ~IsPrefix(ValidatePath(r), p)
      BY ValidateAssumption
    <3> QED
      BY <1>2, <3>1, <3>2, PrefixLaws
  <2> QED
    BY <2>1, <2>2 DEF On
<1> QED
  BY <1>4, <1>6

LEMMA EditReadProceeds ==
    ASSUME Isolated, FilesInv', OnCourse, NEW r \in Requests, Free(job[r]), EditRead(r)
    PROVE  Proceeds(r)
<1> DEFINE op == job[r].op
           f == FoundBy(job[r])
           w == Scene(op, tree, data)
           left == LeftIn(w)
           p == ComposeFile
           read == Look(p)
<1>1. job[r].at = "check" /\ op.kind = "edit"
  BY DEF EditRead, At
<1>2. /\ op \in Operations /\ DOMAIN job[r] = Fields
  BY Course
<1>3. left = f
  BY <1>1, AtCheck
<1>4. Error(r) => Proceeds(r)
  BY <1>3, EarlyError
<1>5. ASSUME Candidates # {}, IsFile(p), NEW doc \in applyChangesToYaml(read.services, op.changes), doc.ok,
             NEW k, k = [job[r] EXCEPT !.at = "validate", !.file = p,
                                       !.edited = Content(read.text, doc.services)],
             Step(tree, data, r, k)
      PROVE  Proceeds(r)
  <2>1. On(op, p)
    BY <1>1, <1>2, <1>5, ComposeFileIs, ComposeFilesAre
  <2>2. /\ DOMAIN left = Where(op, tree) /\ \A x \in DOMAIN left : left[x] = SeenAt(tree, data, x)
    BY SceneIs
  <2>3. p \in DOMAIN left /\ left[p].dir = FALSE /\ left[p].content = read
    <3>1. p \in DOMAIN tree /\ tree[p] # Dir
      BY <1>5 DEF IsFile
    <3>2. p \in DOMAIN left /\ left[p] = SeenAt(tree, data, p)
      BY <2>1, <2>2, <3>1 DEF Where
    <3>3. SeenAt(tree, data, p).dir = FALSE /\ SeenAt(tree, data, p).content = read
      BY <3>1 DEF SeenAt, Look
    <3> QED
      BY <3>2, <3>3
  <2>4. /\ k.op = op /\ k.before = job[r].before /\ k.at = "validate" /\ k.file = p
        /\ k.edited = Content(read.text, doc.services)
    BY <1>2, <1>5 DEF Fields
  <2>5. FoundBy(k) = f
    BY <2>4, SameFound
  <2> HIDE DEF f, w, left, read, p
  <2>6. EditProgress(k, f, w)
    BY <1>3, <1>5, <2>3, <2>4 DEF EditProgress, left
  <2>7. Progress(r, k, w)
    BY <1>1, <2>4, <2>5, <2>6 DEF Progress, Reads
  <2>8. w = Scene(k.op, tree, data)
    BY <2>4 DEF w
  <2> QED
    BY <1>5, <2>7, <2>8, StepProceeds
<1> HIDE DEF p
<1>6. \/ Error(r)
      \/ /\ Candidates # {} /\ IsFile(p)
         /\ \E doc \in applyChangesToYaml(read.services, op.changes) :
               /\ doc.ok
               /\ Step(tree, data, r, [job[r] EXCEPT !.at = "validate", !.file = p,
                                                     !.edited = Content(read.text, doc.services)])
  BY DEF EditRead, p
<1> QED
  BY <1>4, <1>5, <1>6

\* What is before it stays as it is, and it goes on or gives up.
LEMMA EditGoes ==
    ASSUME Isolated, FilesInv', OnCourse, NEW r \in Requests, Free(job[r]), job[r].op.kind = "edit",
           job[r].at \in {"validate", "load"},
           NEW t, NEW d, Scene(job[r].op, t, d) = Scene(job[r].op, tree, data),
           NEW k, k = Answer(r, "error") \/ \E at \in {"load", "open"} : k = [job[r] EXCEPT !.at = at],
           Step(t, d, r, k)
    PROVE  Proceeds(r)
<1> DEFINE op == job[r].op
           f == FoundBy(job[r])
           w == Scene(op, tree, data)
<1>1. /\ DOMAIN job[r] = Fields /\ EditProgress(job[r], f, w)
  BY Course DEF Progress
<1>2. /\ k.op = op /\ FoundBy(k) = f /\ k.file = job[r].file /\ k.edited = job[r].edited
      /\ k.at \in {"load", "open"} \/ (k.at = "answer" /\ k.result = "error")
  <2>1. CASE k = Answer(r, "error")
    BY <1>1, <2>1, AnswerIs
  <2>2. CASE \E at \in {"load", "open"} : k = [job[r] EXCEPT !.at = at]
    <3>1. /\ k.op = op /\ k.before = job[r].before /\ k.file = job[r].file /\ k.edited = job[r].edited
          /\ k.at \in {"load", "open"}
      BY <1>1, <2>2 DEF Fields
    <3> QED
      BY <3>1, SameFound
  <2> QED
    BY <2>1, <2>2
<1>3. w = Scene(k.op, t, d)
  BY <1>2
<1> HIDE DEF f, w
<1>4. EditProgress(k, f, w)
  BY <1>1, <1>2 DEF EditProgress
<1>5. Progress(r, k, w)
  BY <1>2, <1>4 DEF Progress, Reads
<1> QED
  BY <1>3, <1>5, StepProceeds

LEMMA ValidateProceeds ==
    ASSUME Isolated, FilesInv', OnCourse, NEW r \in Requests, Free(job[r]), ValidateBegins(r)
    PROVE  Proceeds(r)
<1> DEFINE op == job[r].op
           p == ValidatePath(r)
           k == [job[r] EXCEPT !.at = "load"]
           new == File(job[r].edited, {}, FALSE, TRUE, {})
           u == [q \in DOMAIN tree \cup {p} |-> IF q = p THEN Fresh ELSE tree[q]]
           e == [m \in DOMAIN data \cup {Fresh} |-> IF m = Fresh THEN new ELSE data[m]]
<1>1. job[r].at = "validate" /\ op.kind = "edit"
  BY DEF ValidateBegins, At
<1>2. /\ Step(u, e, r, k) \/ Step(tree, data, r, Answer(r, "error"))
  BY DEF ValidateBegins, Error
<1>3. op \in Operations /\ FilesSafe
  BY Course
<1>4. ~On(op, p) /\ p \in Paths
  BY <1>1, <1>3, ComposeFilesAre
<1>5. Fresh \notin DOMAIN data
  BY <1>3, FreshIsNew, SafePaths
<1>6. /\ \A x : x # p => (x \in DOMAIN u <=> x \in DOMAIN tree)
      /\ \A x \in DOMAIN tree : x # p => u[x] = tree[x]
      /\ DOMAIN u = DOMAIN tree \cup {p}
      /\ \A m \in DOMAIN data : e[m] = data[m]
  BY <1>5
<1>7. DOMAIN tree \subseteq Paths /\ \A x \in DOMAIN tree : tree[x] # Dir => tree[x] \in DOMAIN data
  BY <1>3, SafePaths
<1> HIDE DEF u, e, p, new
<1>8. SameFor(op, tree, data, u, e)
  BY <1>4, <1>6, <1>7 DEF SameFor
<1>9. Scene(op, u, e) = Scene(op, tree, data)
  BY <1>4, <1>6, <1>7, <1>8, SceneSame
<1>10. \E at \in {"load", "open"} : k = [job[r] EXCEPT !.at = at]
  OBVIOUS
<1> HIDE DEF k
<1> QED
  BY <1>1, <1>2, <1>9, <1>10, EditGoes

LEMMA LoadProceeds ==
    ASSUME Isolated, FilesInv', OnCourse, NEW r \in Requests, Free(job[r]), Load(r)
    PROVE  Proceeds(r)
<1> DEFINE op == job[r].op
           p == ValidatePath(r)
           k == [job[r] EXCEPT !.at = "open"]
           u == Without(p)
<1>1. job[r].at = "load" /\ op.kind = "edit"
  BY DEF Load, At
<1>2. Step(u, data, r, k) \/ Step(u, data, r, Answer(r, "error"))
  BY DEF Load
<1>3. op \in Operations /\ FilesSafe
  BY Course
<1>4. ~On(op, p) /\ p \in Paths
  BY <1>1, <1>3, ComposeFilesAre
<1>5. DOMAIN u \subseteq DOMAIN tree /\ (\A x \in DOMAIN tree : x # p => x \in DOMAIN u)
      /\ \A x \in DOMAIN u : u[x] = tree[x]
  BY DEF Without, Restrict
<1>6. DOMAIN tree \subseteq Paths
  BY <1>3, SafePaths
<1> HIDE DEF u, p
<1>7. SameFor(op, tree, data, u, data)
  BY <1>4, <1>5 DEF SameFor
<1>8. Scene(op, u, data) = Scene(op, tree, data)
  BY <1>5, <1>6, <1>7, SceneSame
<1>9. \E at \in {"load", "open"} : k = [job[r] EXCEPT !.at = at]
  OBVIOUS
<1> HIDE DEF k
<1> QED
  BY <1>1, <1>2, <1>8, <1>9, EditGoes

LEMMA EditOpenProceeds ==
    ASSUME Isolated, FilesInv', OnCourse, NEW r \in Requests, Free(job[r]), EditOpen(r)
    PROVE  Proceeds(r)
<1> DEFINE op == job[r].op
           p == job[r].file
           f == FoundBy(job[r])
           w == Scene(op, tree, data)
           left == LeftIn(w)
           next == [job[r] EXCEPT !.at = "write"]
<1>1. /\ job[r].at = "open" /\ op.kind = "edit"
      /\ OpenAt(r, p, {}, TRUE, next) \/ Error(r)
  BY DEF EditOpen, At
<1>2. /\ op \in Operations /\ DOMAIN job[r] = Fields /\ EditProgress(job[r], f, w)
      /\ View(op, f) /\ Own(job[r]) /\ View(op, left)
  BY <1>1, Course DEF Progress
<1>3. /\ left = f /\ p \in DOMAIN f /\ ~f[p].dir
      /\ \E doc \in applyChangesToYaml(f[p].content.services, op.changes) :
            doc.ok /\ job[r].edited = Content(f[p].content.text, doc.services)
  BY <1>1, <1>2 DEF EditProgress
<1>4. Error(r) => Proceeds(r)
  BY <1>3, EarlyError
<1>5. ASSUME OpenAt(r, p, {}, TRUE, next)
      PROVE  Proceeds(r)
  <2>1. p \in Paths /\ On(op, p) /\ {} \subseteq Attributes /\ job[r].at # "write"
    BY <1>1, <1>2 DEF Own
  <2>2. PICK n, u, e :
              /\ Puts(w, Scene(op, u, e), p, n, e[n])
              /\ e[n].mixed = FALSE /\ e[n].content = Torn
              /\ e[n].set \subseteq Attributes /\ (~IsFile(p) => e[n].set = {})
              /\ IsFile(p) => e[n].set = data[tree[p]].set
              /\ Step(u, e, r, [next EXCEPT !.out = n])
    BY <1>5, <2>1, OpenSeen
  <2> DEFINE k == [next EXCEPT !.out = n]
             v == Scene(op, u, e)
             now == LeftIn(v)
  <2>3. /\ k.op = op /\ k.before = job[r].before /\ k.at = "write" /\ k.out = n
        /\ k.file = p /\ k.edited = job[r].edited
    BY <1>2 DEF Fields
  <2>4. FoundBy(k) = f
    BY <2>3, SameFound
  <2>5. Step(u, e, r, k) /\ Puts(w, v, p, n, e[n])
    BY <2>2
  <2>6. e[n].set = f[p].set
    <3>1. DOMAIN left = Where(op, tree) /\ left[p] = SeenAt(tree, data, p)
      BY <1>3, SceneIs
    <3>2. IsFile(p)
      BY <1>3, <3>1 DEF IsFile, Where, SeenAt, Created
    <3>3. SeenAt(tree, data, p).set = data[tree[p]].set
      BY <3>2 DEF SeenAt, IsFile
    <3> QED
      BY <1>3, <2>2, <3>1, <3>2, <3>3
  <2> HIDE DEF k, v, now, f, w, left, next, p
  <2>7. /\ DOMAIN now = DOMAIN left \cup {p} /\ IsTable(now)
        /\ \A x \in DOMAIN left : x # p => now[x] = left[x]
        /\ now[p] = [dir |-> FALSE, content |-> e[n].content, set |-> e[n].set]
        /\ p \in DOMAIN v /\ v[p].node = n /\ ~v[p].mixed
    BY <2>2, <2>5 DEF Puts, now, left
  <2>8. now = [f EXCEPT ![p].content = Torn]
    <3>1. Sight(f[p])
      BY <1>2, <1>3 DEF View
    <3>2. DOMAIN now = DOMAIN f /\ \A x \in DOMAIN f : x # p => now[x] = f[x]
      BY <1>3, <2>7
    <3>3. now[p] = [dir |-> FALSE, content |-> Torn, set |-> f[p].set]
      BY <2>2, <2>6, <2>7
    <3> QED
      BY <1>3, <2>7, <3>1, <3>2, <3>3, ContentPut
  <2>9. EditProgress(k, f, v)
    BY <1>3, <2>3, <2>7, <2>8 DEF EditProgress, now
  <2>10. Progress(r, k, v)
    BY <1>1, <2>3, <2>4, <2>9 DEF Progress, Reads
  <2>11. v = Scene(k.op, u, e)
    BY <2>3 DEF v
  <2> QED
    BY <2>5, <2>10, <2>11, StepProceeds
<1> QED
  BY <1>1, <1>4, <1>5

LEMMA EditWriteProceeds ==
    ASSUME Isolated, FilesInv', OnCourse, NEW r \in Requests, Free(job[r]), EditWrite(r)
    PROVE  Proceeds(r)
<1> DEFINE op == job[r].op
           p == job[r].file
           f == FoundBy(job[r])
           w == Scene(op, tree, data)
           left == LeftIn(w)
           content == job[r].edited
<1>1. /\ job[r].at = "write" /\ op.kind = "edit"
      /\ \/ \E d \in WrittenTo(job[r].out, content) : Step(tree, d, r, Answer(r, "ok"))
         \/ Step(tree, data, r, Answer(r, "error"))
  BY DEF EditWrite, At, Error
<1>2. /\ op \in Operations /\ DOMAIN job[r] = Fields /\ EditProgress(job[r], f, w) /\ View(op, f)
  BY <1>1, Course DEF Progress
<1>3. /\ p \in DOMAIN f /\ ~f[p].dir /\ left = [f EXCEPT ![p].content = Torn]
      /\ p \in DOMAIN w /\ w[p].node = job[r].out /\ ~w[p].mixed
      /\ \E doc \in applyChangesToYaml(f[p].content.services, op.changes) :
            doc.ok /\ content = Content(f[p].content.text, doc.services)
  BY <1>1, <1>2 DEF EditProgress
<1>4. \A said : LET k == Answer(r, said)
                IN  /\ k.op = op /\ k.at = "answer" /\ k.result = said /\ FoundBy(k) = f
                    /\ k.file = p /\ k.edited = content
  BY <1>2, AnswerIs
<1>5. ASSUME Step(tree, data, r, Answer(r, "error"))
      PROVE  Proceeds(r)
  <2> DEFINE k == Answer(r, "error")
  <2>1. /\ k.op = op /\ k.at = "answer" /\ k.result = "error" /\ FoundBy(k) = f
        /\ k.file = p
    BY <1>4
  <2>2. Step(tree, data, r, k)
    BY <1>5
  <2> HIDE DEF k, f, w, left, p
  <2>3. EditProgress(k, f, w)
    BY <1>3, <2>1 DEF EditProgress, left
  <2>4. Progress(r, k, w)
    BY <1>1, <2>1, <2>3 DEF Progress, Reads
  <2>5. w = Scene(k.op, tree, data)
    BY <2>1 DEF w
  <2> QED
    BY <2>2, <2>4, <2>5, StepProceeds
<1>6. ASSUME NEW d \in WrittenTo(job[r].out, content), Step(tree, d, r, Answer(r, "ok"))
      PROVE  Proceeds(r)
  <2> DEFINE k == Answer(r, "ok")
             v == Scene(op, tree, d)
             now == LeftIn(v)
             n == job[r].out
  <2>1. Puts(w, v, p, n, d[n]) /\ d[n].content = content /\ d[n].set = left[p].set
    BY <1>1, <1>3, <1>6, WrittenSeen
  <2>2. /\ k.op = op /\ k.at = "answer" /\ k.result = "ok" /\ FoundBy(k) = f
        /\ k.file = p /\ k.edited = content
    BY <1>4
  <2>3. Step(tree, d, r, k)
    BY <1>6
  <2>4. /\ DOMAIN left = DOMAIN f /\ left[p].set = f[p].set
        /\ \A x \in DOMAIN f : x # p => left[x] = f[x]
    <3> DEFINE cut == [f EXCEPT ![p].content = Torn]
    <3>1. Sight(f[p])
      BY <1>2, <1>3 DEF View
    <3>2. /\ DOMAIN cut = DOMAIN f /\ \A x \in DOMAIN f : x # p => cut[x] = f[x]
          /\ cut[p] = [dir |-> FALSE, content |-> Torn, set |-> f[p].set]
      BY <1>3, <3>1, ContentPutIs
    <3>3. left = cut
      BY <1>3
    <3> HIDE DEF cut, left
    <3> QED
      BY <3>2, <3>3
  <2> HIDE DEF k, v, now, f, w, left, p, n, content
  <2>5. /\ DOMAIN now = DOMAIN left \cup {p} /\ IsTable(now)
        /\ \A x \in DOMAIN left : x # p => now[x] = left[x]
        /\ now[p] = [dir |-> FALSE, content |-> d[n].content, set |-> d[n].set]
    BY <2>1 DEF Puts, now, left
  <2>6. now = [f EXCEPT ![p].content = content]
    <3>1. Sight(f[p])
      BY <1>2, <1>3 DEF View
    <3>2. DOMAIN now = DOMAIN f /\ \A x \in DOMAIN f : x # p => now[x] = f[x]
      BY <1>3, <2>4, <2>5
    <3>3. now[p] = [dir |-> FALSE, content |-> content, set |-> f[p].set]
      BY <2>1, <2>4, <2>5
    <3> QED
      BY <1>3, <2>5, <3>1, <3>2, <3>3, ContentPut
  <2>7. EditProgress(k, f, v)
    BY <1>3, <2>2, <2>6 DEF EditProgress, now
  <2>8. Progress(r, k, v)
    BY <1>1, <2>2, <2>7 DEF Progress, Reads
  <2>9. v = Scene(k.op, tree, d)
    BY <2>2 DEF v
  <2> QED
    BY <2>3, <2>8, <2>9, StepProceeds
<1> QED
  BY <1>1, <1>5, <1>6
--------------------------------------------------------------------------------
\* copy.  A path and the one it is copied to.
LEMMA AcrossRest ==
    ASSUME NEW p \in Paths, NEW q \in Paths, NEW x \in Paths, IsPrefix(p, x)
    PROVE  \E a \in Paths : x = p \o a /\ Across(x, p, q) = q \o a
<1> DEFINE a == Beneath(x, p)
<1>1. a \in Paths /\ x = p \o a /\ Across(x, p, q) = q \o a
  BY PrefixAndRest DEF Across, Beneath
<1> QED
  BY <1>1

LEMMA AcrossIs ==
    ASSUME NEW p \in Paths, NEW q \in Paths, NEW x \in Paths, IsPrefix(p, x)
    PROVE  /\ Across(x, p, q) \in Paths /\ IsPrefix(q, Across(x, p, q))
           /\ Across(Across(x, p, q), q, p) = x
           /\ x = p <=> Across(x, p, q) = q
<1> DEFINE a == Beneath(x, p)
           y == Across(x, p, q)
<1>1. a \in Paths /\ x = p \o a /\ y = q \o a
  BY PrefixAndRest DEF Across, Beneath
<1> HIDE DEF a, y
<1>5. q \o a \in Paths /\ IsPrefix(q, q \o a) /\ Beneath(q \o a, q) = a
  BY <1>1, Behind
<1>2. y \in Paths /\ IsPrefix(q, y) /\ Beneath(q \o a, q) = a
  BY <1>1, <1>5
<1>3. Across(y, q, p) = x
  BY <1>1, <1>2 DEF Across, Beneath
<1>4. (a = <<>> <=> p \o a = p) /\ (a = <<>> <=> q \o a = q)
  BY <1>1, Behind
<1> QED
  BY <1>1, <1>2, <1>3, <1>4 DEF y

LEMMA AcrossBehind ==
    ASSUME NEW p \in Paths, NEW q \in Paths, NEW a \in Paths
    PROVE  Across(p \o a, p, q) = q \o a
BY Behind DEF Across, Beneath

LEMMA AcrossOrder ==
    ASSUME NEW p \in Paths, NEW q \in Paths, NEW x \in Paths, IsPrefix(p, x),
           NEW y \in Paths, IsPrefix(p, y)
    PROVE  IsPrefix(x, y) <=> IsPrefix(Across(x, p, q), Across(y, p, q))
<1>1. PICK a \in Paths : x = p \o a /\ Across(x, p, q) = q \o a
  BY AcrossRest, Zenon
<1>2. PICK b \in Paths : y = p \o b /\ Across(y, p, q) = q \o b
  BY AcrossRest, Zenon
<1>3. IsPrefix(p \o a, p \o b) <=> IsPrefix(a, b)
  BY Behind
<1>4. IsPrefix(q \o a, q \o b) <=> IsPrefix(a, b)
  BY Behind
<1> QED
  BY <1>1, <1>2, <1>3, <1>4

LEMMA AcrossChild ==
    ASSUME NEW p \in Paths, NEW q \in Paths, NEW x \in Paths, IsPrefix(p, x),
           NEW y \in Paths, IsPrefix(x, y), Len(y) = Len(x) + 1
    PROVE  Append(Across(x, p, q), Last(y)) = Across(y, p, q)
<1> DEFINE c == Beneath(y, x)
<1>1. PICK a \in Paths : x = p \o a /\ Across(x, p, q) = q \o a
  BY AcrossRest, Zenon
<1>2. Across(x, p, q) \in Paths
  BY AcrossIs
<1>3. Append(Across(x, p, q), Last(y)) = Across(x, p, q) \o c /\ c \in Paths
  BY <1>2, LastBehind
<1>4. y = x \o c
  BY PrefixAndRest
<1> HIDE DEF c
<1>5. a \o c \in Paths
  BY <1>3, Behind
<1>6. (p \o a) \o c = p \o (a \o c) /\ (q \o a) \o c = q \o (a \o c)
  <2>1. ASSUME NEW d \in Paths PROVE (d \o a) \o c = d \o (a \o c)
    <3>1. d \in Seq(FileNames) /\ a \in Seq(FileNames) /\ c \in Seq(FileNames)
      BY <1>3 DEF Paths
    <3> QED
      BY <3>1, ConcatAssociative
  <2> QED
    BY <2>1
<1>7. Across(p \o (a \o c), p, q) = q \o (a \o c)
  BY <1>5, AcrossBehind, Zenon
<1> QED
  BY <1>1, <1>3, <1>4, <1>6, <1>7

\* Directories that are made on the way to a path.
Grows(f, g, p) ==
    /\ IsTable(g) /\ DOMAIN f \subseteq DOMAIN g /\ \A x \in DOMAIN f : g[x] = f[x]
    /\ \A x \in DOMAIN g : x \notin DOMAIN f => /\ x \in Paths /\ IsPrefix(x, p) /\ x # p
                                                /\ g[x] = Created

LEMMA GrowsIs ==
    ASSUME NEW f, NEW g, NEW p \in Paths, Grows(f, g, p)
    PROVE  g \in WithParents(f, p)
<1> DEFINE new == { x \in DOMAIN g : x \notin DOMAIN f }
<1>1. \A x \in new : x \in Paths /\ IsPrefix(x, p) /\ x # p
  BY DEF Grows
<1>2. \A x : x \in new <=> x \in DOMAIN g /\ x \notin DOMAIN f
  OBVIOUS
<1> HIDE DEF new
<1>3. /\ IsTable(Both(f, Dirs(new))) /\ DOMAIN Both(f, Dirs(new)) = DOMAIN f \cup new
      /\ \A x \in DOMAIN f : Both(f, Dirs(new))[x] = f[x]
  BY BothDirs
<1>4. ASSUME NEW x \in new PROVE Both(f, Dirs(new))[x] = g[x]
  BY <1>2, DirsElse DEF Grows
<1>5. g = Both(f, Dirs(new))
  BY <1>2, <1>3, <1>4, TablesEqual DEF Grows
<1> QED
  BY <1>1, <1>5, ParentsIs

LEMMA ParentsGrow ==
    ASSUME NEW f, NEW p \in Paths, NEW g \in WithParents(f, p)
    PROVE  Grows(f, g, p)
<1>1. PICK new \in SUBSET { SubSeq(p, 1, k) : k \in 0..(Len(p) - 1) } : g = Both(f, Dirs(new))
  BY DEF WithParents
<1>2. ASSUME NEW x \in new PROVE x \in Paths /\ IsPrefix(x, p) /\ x # p
  <2>1. PICK k \in 0..(Len(p) - 1) : x = SubSeq(p, 1, k)
    BY <1>1
  <2>2. k \in 0..Len(p) /\ k # Len(p)
    BY PrefixLaws
  <2> QED
    BY <2>1, <2>2, Start
<1>3. /\ IsTable(g) /\ DOMAIN g = DOMAIN f \cup new /\ \A x \in DOMAIN f : g[x] = f[x]
  BY <1>1, BothDirs
<1>4. ASSUME NEW x \in new, x \notin DOMAIN f PROVE g[x] = Created
  BY <1>1, <1>4, DirsElse
<1> QED
  BY <1>2, <1>3, <1>4 DEF Grows

LEMMA ParentsAgain ==
    ASSUME NEW f, NEW p \in Paths, NEW g \in WithParents(f, p), NEW h \in WithParents(g, p)
    PROVE  h \in WithParents(f, p)
<1>1. Grows(f, g, p) /\ Grows(g, h, p)
  BY ParentsGrow
<1>2. Grows(f, h, p)
  BY <1>1 DEF Grows
<1> QED
  BY <1>2, GrowsIs

LEMMA CopyOfIs ==
    ASSUME NEW s, Sight(s)
    PROVE  /\ CopyOf(s) = [dir |-> s.dir, content |-> s.content, set |-> s.set \ {"owner"}]
           /\ CopyOf(s).dir = s.dir /\ CopyOf(s).content = s.content
           /\ CopyOf(s).set = s.set \ {"owner"} /\ CopyOf(s).set \subseteq {"mode"}
           /\ CopyOf(Created) = Created
<1> DEFINE S == {s.dir, s.content, s.set, s.set \ {"owner"}}
<1>1. s = [dir |-> s.dir, content |-> s.content, set |-> s.set] /\ s.set \subseteq Attributes
  BY DEF Sight
<1>2. CopyOf(s) = [dir |-> s.dir, content |-> s.content, set |-> s.set \ {"owner"}]
  <2>1. CopyOf(s) = [s EXCEPT !.set = s.set \ {"owner"}]
    BY DEF CopyOf
  <2> QED
    BY <1>1, <2>1, SightWith
<1>3. s.set \ {"owner"} \subseteq {"mode"}
  BY <1>1 DEF Attributes
<1>4. CopyOf(Created) = Created
  <2>1. Created = [dir |-> TRUE, content |-> Folder, set |-> {}] /\ Created.set = {}
    BY DEF Created
  <2>2. CopyOf(Created) = [Created EXCEPT !.set = {} \ {"owner"}]
    BY <2>1 DEF CopyOf
  <2>3. CopyOf(Created) = [dir |-> TRUE, content |-> Folder, set |-> {} \ {"owner"}]
    BY <2>1, <2>2, SightWith
  <2> QED
    BY <2>1, <2>3
<1> QED
  BY <1>2, <1>3, <1>4

LEMMA NothingBelow ==
    ASSUME NEW f, IsTable(f), NEW p, \A x \in DOMAIN f : ~IsPrefix(p, x)
    PROVE  Elsewhere(f, p) = f
<1>1. /\ IsTable(Elsewhere(f, p))
      /\ \A x : x \in DOMAIN Elsewhere(f, p) <=> x \in DOMAIN f /\ ~IsPrefix(p, x)
      /\ \A x \in DOMAIN Elsewhere(f, p) : Elsewhere(f, p)[x] = f[x]
  BY ElseIs
<1>2. DOMAIN Elsewhere(f, p) = DOMAIN f
  BY <1>1
<1> QED
  BY <1>1, <1>2, TablesEqual

\* The target is not there before the copy begins, nor when its parents have been made.
LEMMA ElseGrows ==
    ASSUME NEW op \in Operations, op.kind = "copy", op.path \in Paths, op.to \in Paths,
           NEW f, View(op, f), op.path \in DOMAIN f, op.to \notin DOMAIN f,
           NEW g, Grows(f, g, op.to)
    PROVE  /\ Elsewhere(g, op.to) = g
           /\ \A x \in DOMAIN g : ~IsPrefix(op.to, x)
<1>1. \A x \in DOMAIN f : ~IsPrefix(op.to, x)
  BY TargetIs
<1>2. ASSUME NEW x \in DOMAIN g PROVE ~IsPrefix(op.to, x)
  <2>1. CASE x \in DOMAIN f
    BY <1>1, <2>1
  <2>2. CASE x \notin DOMAIN f
    <3>1. x \in Paths /\ IsPrefix(x, op.to) /\ x # op.to
      BY <2>2 DEF Grows
    <3> QED
      BY <3>1, PrefixLaws
  <2> QED
    BY <2>1, <2>2
<1>3. IsTable(g)
  BY DEF Grows
<1> QED
  BY <1>2, <1>3, NothingBelow

LEMMA CopyMkdir ==
    ASSUME Isolated, FilesInv', OnCourse, NEW r \in Requests, Free(job[r]), job[r].op.kind = "copy",
           job[r].at = "mkdir", CanMkdirAll(Parent(job[r].op.to)),
           Step(MkdirAll(Parent(job[r].op.to)), data, r, [job[r] EXCEPT !.at = "copy"])
    PROVE  Proceeds(r)
<1> DEFINE op == job[r].op
           t == MkdirAll(Parent(op.to))
           f == FoundBy(job[r])
           w == Scene(op, tree, data)
           v == Scene(op, t, data)
           now == LeftIn(v)
           k == [job[r] EXCEPT !.at = "copy"]
           task == [from |-> op.path, to |-> op.to, isDir |-> f[op.path].dir]
<1>1. /\ FilesSafe /\ op \in Operations /\ op.path \in Paths /\ op.to \in Paths
      /\ DOMAIN job[r] = Fields /\ View(op, f) /\ CopyProgress(job[r], f, w)
  BY Course DEF Progress
<1>2. LeftIn(w) = f /\ op.path \in DOMAIN f /\ op.to \notin DOMAIN f /\ job[r].todo = {task}
  BY <1>1 DEF CopyProgress
<1>3. k.op = op /\ k.before = job[r].before /\ k.at = "copy" /\ k.todo = job[r].todo
  BY <1>1 DEF Fields
<1>4. FoundBy(k) = f
  BY <1>3, SameFound
<1>5. op.to # <<>> /\ \A x \in DOMAIN f : ~IsPrefix(op.to, x)
  BY <1>1, <1>2, TargetIs
<1>6. /\ now \in WithParents(f, op.to)
      /\ ~IsPrefix(op.path, op.to) => now = f
      /\ IsPrefix(op.path, op.to) /\ op.path # op.to =>
             op.path \in DOMAIN now /\ now[op.path] = Created
  <2>1. /\ LeftIn(v) \in WithParents(LeftIn(w), op.to)
        /\ ~IsPrefix(op.path, op.to) => LeftIn(v) = LeftIn(w)
        /\ IsPrefix(op.path, op.to) /\ op.path # op.to =>
               op.path \in DOMAIN LeftIn(v) /\ LeftIn(v)[op.path] = Created
    BY <1>1, <1>5, ParentsMade
  <2> QED
    BY <1>2, <2>1
<1>7. Step(t, data, r, k)
  OBVIOUS
<1>8. task.from = op.path /\ task.to = op.to /\ task.isDir = f[op.path].dir
  OBVIOUS
<1>9. Grows(f, now, op.to)
  BY <1>1, <1>6, ParentsGrow
<1>10. Elsewhere(now, op.to) = now
  BY <1>1, <1>2, <1>9, ElseGrows
<1> HIDE DEF f, w, v, t, k, now, task
<1>11. ASSUME IsPrefix(op.path, op.to)
       PROVE  CopyProgress(k, f, v)
  <2>1. task.isDir
    <3>1. now[op.path] = Created /\ Created.dir
      BY <1>2, <1>6, <1>11 DEF Created
    <3>2. now[op.path] = f[op.path]
      BY <1>2, <1>9 DEF Grows
    <3> QED
      BY <1>8, <3>1, <3>2
  <2>2. Elsewhere(now, op.to) \in WithParents(f, op.to)
    BY <1>6, <1>10
  <2>3. \A s \in k.todo : IsPrefix(op.to, s.to)
    BY <1>1, <1>2, <1>3, <1>8, PrefixLaws
  <2>4. \E s \in k.todo : s.isDir /\ IsPrefix(s.from, s.to) /\ s.from # s.to
    BY <1>2, <1>3, <1>8, <1>11, <2>1
  <2> QED
    BY <1>2, <1>3, <1>11, <2>2, <2>3, <2>4 DEF CopyProgress, now
<1>12. ASSUME ~IsPrefix(op.path, op.to)
       PROVE  CopyProgress(k, f, v)
  <2>1. now = f /\ Elsewhere(now, op.to) = f
    BY <1>6, <1>10, <1>12
  <2>2. \A s \in k.todo : /\ s.from \in DOMAIN f /\ IsPrefix(op.path, s.from)
                          /\ s.to = Across(s.from, op.path, op.to)
                          /\ s.isDir = f[s.from].dir
    <3>1. IsPrefix(op.path, op.path)
      BY <1>1, PrefixLaws
    <3>2. Across(op.path, op.path, op.to) = op.to
      BY <1>1, <3>1, AcrossIs
    <3> QED
      BY <1>2, <1>3, <1>8, <3>1, <3>2
  <2>3. Below(now, op.to) = {}
    BY <1>5, <2>1 DEF Below
  <2>4. \A y \in Below(f, op.path) : \E s \in k.todo : IsPrefix(s.from, y)
    BY <1>2, <1>3, <1>8 DEF Below
  <2>5. CopyingOut(k, f, v)
    BY <1>3, <2>1, <2>2, <2>3, <2>4 DEF CopyingOut, now
  <2> QED
    BY <1>2, <1>3, <1>12, <2>5 DEF CopyProgress, now
<1>13. Progress(r, k, v)
  BY <1>3, <1>4, <1>11, <1>12 DEF Progress, Reads
<1>14. v = Scene(k.op, t, data)
  BY <1>3 DEF v
<1> QED
  BY <1>7, <1>13, <1>14, StepProceeds

\* Where a copy stands while it is at work, and how it fails.
LEMMA CopyStands ==
    ASSUME Isolated, OnCourse, NEW r \in Requests, Free(job[r]), job[r].op.kind = "copy",
           job[r].at \in {"copy", "write", "mode"}
    PROVE  LET op == job[r].op
               f == FoundBy(job[r])
               w == Scene(op, tree, data)
           IN  /\ FilesSafe /\ op \in Operations /\ op.path \in Paths /\ op.to \in Paths
               /\ DOMAIN job[r] = Fields /\ View(op, f) /\ IsTable(f) /\ Own(job[r])
               /\ op.path \in DOMAIN f /\ op.to \notin DOMAIN f
               /\ Elsewhere(LeftIn(w), op.to) \in WithParents(f, op.to)
               /\ ~IsPrefix(op.path, op.to) => CopyingOut(job[r], f, w)
               /\ IsPrefix(op.path, op.to) =>
                      /\ \A t \in job[r].todo : IsPrefix(op.to, t.to)
                      /\ job[r].at # "copy" => IsPrefix(op.to, job[r].file)
                      /\ job[r].at = "write" => job[r].file \in DOMAIN w
                                                    /\ w[job[r].file].node = job[r].out
                      /\ \E t \in job[r].todo : t.isDir /\ IsPrefix(t.from, t.to) /\ t.from # t.to
<1> DEFINE op == job[r].op
           f == FoundBy(job[r])
           w == Scene(op, tree, data)
<1>1. /\ FilesSafe /\ op \in Operations /\ op.path \in Paths /\ op.to \in Paths
      /\ DOMAIN job[r] = Fields /\ View(op, f) /\ CopyProgress(job[r], f, w) /\ Own(job[r])
  BY Course DEF Progress
<1>2. IsTable(f)
  BY <1>1 DEF View
<1> HIDE DEF f, w
<1>3. op.path \in DOMAIN f /\ op.to \notin DOMAIN f
  BY <1>1 DEF CopyProgress
<1>4. CASE IsPrefix(op.path, op.to)
  BY <1>1, <1>2, <1>3, <1>4 DEF CopyProgress, f, w
<1>5. CASE ~IsPrefix(op.path, op.to)
  <2>1. CopyingOut(job[r], f, w)
    BY <1>1, <1>5 DEF CopyProgress
  <2>2. Elsewhere(LeftIn(w), op.to) = f
    BY <2>1 DEF CopyingOut
  <2>3. f \in WithParents(f, op.to)
    BY <1>2, NoParents
  <2> QED
    BY <1>1, <1>2, <1>3, <1>5, <2>1, <2>2, <2>3 DEF f, w
<1> QED
  BY <1>4, <1>5

LEMMA CopyFails ==
    ASSUME Isolated, FilesInv', OnCourse, NEW r \in Requests, Free(job[r]), job[r].op.kind = "copy",
           job[r].at \in {"copy", "write", "mode"}, NEW t, NEW d, Step(t, d, r, Answer(r, "error")),
           Elsewhere(LeftIn(Scene(job[r].op, t, d)), job[r].op.to)
               \in WithParents(FoundBy(job[r]), job[r].op.to)
    PROVE  Proceeds(r)
<1> DEFINE op == job[r].op
           f == FoundBy(job[r])
           v == Scene(op, t, d)
           k == Answer(r, "error")
<1>1. DOMAIN job[r] = Fields /\ op.to \notin DOMAIN f
  BY CopyStands
<1>2. k.op = op /\ FoundBy(k) = f /\ k.at = "answer" /\ k.result = "error"
  BY <1>1, AnswerIs
<1>3. Step(t, d, r, k) /\ Elsewhere(LeftIn(v), op.to) \in WithParents(f, op.to)
  OBVIOUS
<1> HIDE DEF f, v, k
<1>4. CopyProgress(k, f, v)
  BY <1>1, <1>2, <1>3 DEF CopyProgress
<1>5. Progress(r, k, v)
  BY <1>2, <1>4 DEF Progress, Reads
<1>6. v = Scene(k.op, t, d)
  BY <1>2 DEF v
<1> QED
  BY <1>3, <1>5, <1>6, StepProceeds

LEMMA CopyError ==
    ASSUME Isolated, FilesInv', OnCourse, NEW r \in Requests, Free(job[r]), job[r].op.kind = "copy",
           job[r].at \in {"copy", "write", "mode"}, Error(r)
    PROVE  Proceeds(r)
<1>1. Elsewhere(LeftIn(Scene(job[r].op, tree, data)), job[r].op.to)
          \in WithParents(FoundBy(job[r]), job[r].op.to)
  BY CopyStands
<1>2. Step(tree, data, r, Answer(r, "error"))
  BY DEF Error
<1> QED
  BY <1>1, <1>2, CopyFails

\* A directory is made at the target or below it.
LEMMA MadeElsewhere ==
    ASSUME FilesSafe, NEW op \in Operations, op.kind = "copy", op.path \in Paths, op.to \in Paths,
           NEW p \in Paths, IsPrefix(op.to, p), CanMkdirAll(p), NEW f,
           Elsewhere(LeftIn(Scene(op, tree, data)), op.to) \in WithParents(f, op.to)
    PROVE  LET was == Elsewhere(LeftIn(Scene(op, tree, data)), op.to)
               now == Elsewhere(LeftIn(Scene(op, MkdirAll(p), data)), op.to)
           IN  /\ now \in WithParents(f, op.to)
               /\ ~IsPrefix(op.path, op.to) => now = was
<1> DEFINE left == LeftIn(Scene(op, tree, data))
           then == LeftIn(Scene(op, MkdirAll(p), data))
           was == Elsewhere(left, op.to)
           now == Elsewhere(then, op.to)
<1>1. /\ \A x : x \in DOMAIN then <=>
             x \in DOMAIN left \/ (x \in Paths /\ On(op, x) /\ IsPrefix(x, p))
      /\ \A x \in DOMAIN left : then[x] = left[x]
      /\ \A x \in DOMAIN then : IsPrefix(x, p) => then[x] = Created
  BY MkdirSeen
<1>2. /\ IsTable(was)
      /\ \A x : x \in DOMAIN was <=> x \in DOMAIN left /\ ~IsPrefix(op.to, x)
      /\ \A x \in DOMAIN was : was[x] = left[x]
  BY ElseIs
<1>3. /\ IsTable(now)
      /\ \A x : x \in DOMAIN now <=> x \in DOMAIN then /\ ~IsPrefix(op.to, x)
      /\ \A x \in DOMAIN now : now[x] = then[x]
  BY ElseIs
<1>4. was \in WithParents(f, op.to)
  OBVIOUS
<1> HIDE DEF left, then, was, now
<1>5. ASSUME NEW x \in DOMAIN now, x \notin DOMAIN was
      PROVE  /\ x \in Paths /\ IsPrefix(x, op.to) /\ x # op.to /\ now[x] = Created
             /\ On(op, x) /\ ~IsPrefix(op.to, x)
  <2>1. x \in DOMAIN then /\ ~IsPrefix(op.to, x) /\ now[x] = then[x]
    BY <1>3
  <2>2. x \in Paths /\ On(op, x) /\ IsPrefix(x, p)
    BY <1>1, <1>2, <1>5, <2>1
  <2> QED
    BY <1>1, <2>1, <2>2, PrefixLaws
<1>6. DOMAIN was \subseteq DOMAIN now /\ \A x \in DOMAIN was : now[x] = was[x]
  BY <1>1, <1>2, <1>3
<1>7. Grows(was, now, op.to)
  BY <1>3, <1>5, <1>6 DEF Grows
<1>8. now \in WithParents(f, op.to)
  BY <1>4, <1>7, GrowsIs, ParentsAgain
<1>9. ASSUME ~IsPrefix(op.path, op.to) PROVE now = was
  <2>1. ASSUME NEW x \in DOMAIN now, x \notin DOMAIN was PROVE FALSE
    BY <1>5, <1>9, <2>1, OnIs, PrefixLaws
  <2>2. DOMAIN now = DOMAIN was
    BY <1>6, <2>1
  <2> QED
    BY <1>2, <1>3, <1>6, <2>2, TablesEqual
<1> QED
  BY <1>8, <1>9 DEF left, then, was, now

\* What is left to copy after a directory has been listed.
Listed(a, b, made) ==
    { [from |-> q, to |-> Append(b, Last(q)), isDir |-> made[q] = Dir] :
          q \in { p \in DOMAIN made : Len(p) = Len(a) + 1 /\ IsPrefix(a, p) } }

LEMMA ListedIs ==
    ASSUME NEW a, NEW b, NEW made
    PROVE  /\ \A s \in Listed(a, b, made) :
                 /\ s.from \in DOMAIN made /\ Len(s.from) = Len(a) + 1
                 /\ IsPrefix(a, s.from)
                 /\ s.to = Append(b, Last(s.from)) /\ s.isDir = (made[s.from] = Dir)
           /\ \A q \in DOMAIN made : Len(q) = Len(a) + 1 /\ IsPrefix(a, q) =>
                 \E s \in Listed(a, b, made) : /\ s.from = q /\ s.to = Append(b, Last(q))
                                            /\ s.isDir = (made[q] = Dir)
<1> DEFINE S == { p \in DOMAIN made : Len(p) = Len(a) + 1 /\ IsPrefix(a, p) }
           Task1(q) == [from |-> q, to |-> Append(b, Last(q)), isDir |-> made[q] = Dir]
<1>1. \A q : /\ Task1(q).from = q /\ Task1(q).to = Append(b, Last(q))
             /\ Task1(q).isDir = (made[q] = Dir)
  OBVIOUS
<1>2. \A q : q \in S <=> q \in DOMAIN made /\ Len(q) = Len(a) + 1 /\ IsPrefix(a, q)
  OBVIOUS
<1>3. Listed(a, b, made) = { Task1(q) : q \in S }
  BY DEF Listed
<1> HIDE DEF S, Task1
<1> QED
  BY <1>1, <1>2, <1>3

\* A copy into itself goes on: the directory that was made is on the way to its own copy.
LEMMA GoesDeeper ==
    ASSUME FilesSafe, NEW a \in Paths, NEW b \in Paths, IsPrefix(a, b), a # b, CanMkdirAll(b)
    PROVE  \E s \in Listed(a, b, MkdirAll(b)) : s.isDir /\ IsPrefix(s.from, s.to) /\ s.from # s.to
<1> DEFINE made == MkdirAll(b)
           q == SubSeq(b, 1, Len(a) + 1)
<1>1. /\ Len(a) \in Nat /\ Len(b) \in Nat /\ Len(a) < Len(b)
      /\ Len(a) + 1 \in 0..Len(b)
  BY PrefixLaws
<1>2. q \in Paths /\ Len(q) = Len(a) + 1 /\ IsPrefix(q, b)
  BY <1>1, Start
<1> HIDE DEF q
<1>3. IsPrefix(a, q)
  <2>1. IsPrefix(a, q) \/ IsPrefix(q, a)
    BY <1>2, PrefixLaws
  <2>2. ~IsPrefix(q, a)
    BY <1>1, <1>2, PrefixLaws
  <2> QED
    BY <2>1, <2>2
<1>4. q \in DOMAIN made /\ made[q] = Dir
  <2>1. q \in DOMAIN made /\ made[q] = (IF q \in DOMAIN tree THEN tree[q] ELSE Dir)
    BY <1>2, MkdirAllIs
  <2>2. ~IsFile(q)
    BY <1>2, MkdirAllIs
  <2> QED
    BY <2>1, <2>2 DEF IsFile
<1>5. PICK s \in Listed(a, b, made) : /\ s.from = q /\ s.to = Append(b, Last(q))
                                   /\ s.isDir = (made[q] = Dir)
  BY <1>2, <1>3, <1>4, ListedIs
<1>6. s.to = b \o Beneath(q, a) /\ Beneath(q, a) \in Paths
  BY <1>2, <1>3, <1>5, LastBehind
<1>7. IsPrefix(b, s.to) /\ s.to \in Paths
  BY <1>6, Behind
<1>8. s.to # b
  <2>1. Beneath(q, a) # <<>>
    <3>1. q = a \o Beneath(q, a)
      BY <1>2, <1>3, PrefixAndRest
    <3>2. q # a
      BY <1>1, <1>2
    <3> QED
      BY <1>6, <3>1, <3>2, Behind
  <2> QED
    BY <1>6, <2>1, Behind
<1>9. IsPrefix(q, s.to) /\ q # s.to
  BY <1>2, <1>7, <1>8, PrefixLaws
<1> QED
  BY <1>4, <1>5, <1>9

LEMMA ListedBelow ==
    ASSUME NEW a \in Paths, NEW b \in Paths, NEW made, DOMAIN made \subseteq Paths,
           NEW s \in Listed(a, b, made)
    PROVE  s.from \in Paths /\ s.to \in Paths /\ IsPrefix(b, s.to)
<1> DEFINE q == s.from
           c == Beneath(q, a)
<1>1. /\ q \in DOMAIN made /\ Len(q) = Len(a) + 1 /\ IsPrefix(a, q)
      /\ s.to = Append(b, Last(q))
  BY ListedIs
<1> HIDE DEF q
<1>2. s.to = b \o c /\ c \in Paths /\ q \in Paths
  BY <1>1, LastBehind
<1> HIDE DEF c
<1>3. b \o c \in Paths /\ IsPrefix(b, b \o c)
  BY <1>2, Behind
<1> QED
  BY <1>2, <1>3 DEF q

\* A directory of a copy that is not into itself is made.
LEMMA MadeOut ==
    ASSUME Isolated, OnCourse, NEW r \in Requests, Free(job[r]), job[r].op.kind = "copy",
           job[r].at = "copy", ~IsPrefix(job[r].op.path, job[r].op.to),
           NEW t \in job[r].todo, t.isDir, CanMkdirAll(t.to),
           NEW k, k.op = job[r].op, k.at = "copy",
           k.todo = (job[r].todo \ {t}) \cup Listed(t.from, t.to, MkdirAll(t.to))
    PROVE  CopyingOut(k, FoundBy(job[r]), Scene(job[r].op, MkdirAll(t.to), data))
<1> DEFINE op == job[r].op
           p == op.path
           a == t.from
           b == t.to
           f == FoundBy(job[r])
           made == MkdirAll(b)
           w == Scene(op, tree, data)
           v == Scene(op, made, data)
           left == LeftIn(w)
           now == LeftIn(v)
<1>1. /\ FilesSafe /\ op \in Operations /\ p \in Paths /\ op.to \in Paths
      /\ View(op, f) /\ p \in DOMAIN f /\ op.to \notin DOMAIN f
      /\ Elsewhere(left, op.to) \in WithParents(f, op.to)
      /\ CopyingOut(job[r], f, w)
  BY CopyStands
<1>2. /\ a \in DOMAIN f /\ IsPrefix(p, a) /\ b = Across(a, p, op.to)
      /\ t.isDir = f[a].dir /\ Elsewhere(left, op.to) = f
  BY <1>1 DEF CopyingOut
<1>20. /\ t.isDir /\ CanMkdirAll(b) /\ k.op = op /\ k.at = "copy" /\ t \in job[r].todo
       /\ k.todo = (job[r].todo \ {t}) \cup Listed(a, b, made) /\ t.from = a
  OBVIOUS
<1> HIDE DEF a, b
<1>3. a \in Paths /\ b \in Paths /\ IsPrefix(op.to, b) /\ Across(b, op.to, p) = a
  <2>1. a \in Paths
    BY <1>1, <1>2 DEF View
  <2> DEFINE to == op.to
             from == op.path
  <2>3. to \in Paths /\ from \in Paths /\ IsPrefix(from, a)
    BY <1>1, <1>2
  <2> HIDE DEF to, from
  <2>4. /\ Across(a, from, to) \in Paths /\ IsPrefix(to, Across(a, from, to))
        /\ Across(Across(a, from, to), to, from) = a
    BY <2>1, <2>3, AcrossIs
  <2>2. /\ Across(a, p, op.to) \in Paths /\ IsPrefix(op.to, Across(a, p, op.to))
        /\ Across(Across(a, p, op.to), op.to, p) = a
    BY <2>4 DEF to, from
  <2> QED
    BY <1>2, <2>1, <2>2
<1>4. /\ \A x : x \in DOMAIN now <=>
             x \in DOMAIN left \/ (x \in Paths /\ On(op, x) /\ IsPrefix(x, b))
      /\ \A x \in DOMAIN left : now[x] = left[x]
      /\ \A x \in DOMAIN now : IsPrefix(x, b) => now[x] = Created
  BY <1>1, <1>3, <1>20, MkdirSeen
<1>5. DOMAIN left = Where(op, tree) /\ \A x \in DOMAIN left : left[x] = SeenAt(tree, data, x)
  BY SceneIs
<1>6. /\ \A x : x \in DOMAIN f <=> x \in DOMAIN left /\ ~IsPrefix(op.to, x)
      /\ \A x \in DOMAIN f : f[x] = left[x]
  BY <1>2, ElseIs
<1>7. \A x : On(op, x) <=> IsPrefix(p, x) \/ IsPrefix(op.to, x)
  BY <1>1, OnIs
<1>8. DOMAIN tree \subseteq Paths /\ DOMAIN made \subseteq Paths
  BY <1>1, <1>3, SafePaths, MkdirAllIs
<1>9. /\ \A q \in Paths : q \in DOMAIN made <=> q \in DOMAIN tree \/ IsPrefix(q, b)
      /\ \A q \in DOMAIN made : made[q] = IF q \in DOMAIN tree THEN tree[q] ELSE Dir
  BY <1>3, MkdirAllIs
<1>10. ~IsPrefix(op.to, p)
  BY <1>1, TargetIs
<1>11. f[a] = Created
  BY <1>1, <1>2 DEF View, Sight
<1>12. Elsewhere(now, op.to) = f
  BY <1>1, <1>2, <1>3, <1>20, MadeElsewhere
<1>21. /\ CopyingOut(job[r], f, w) /\ left = LeftIn(w) /\ now = LeftIn(v) /\ made = MkdirAll(b)
  BY <1>1
<1> HIDE DEF f, made, w, v, left, now
<1>13. ASSUME NEW s \in k.todo
       PROVE  /\ s.from \in DOMAIN f /\ IsPrefix(p, s.from) /\ s.to = Across(s.from, p, op.to)
              /\ s.isDir = f[s.from].dir
  <2>1. CASE s \in job[r].todo
    BY <1>1, <2>1 DEF CopyingOut
  <2>2. CASE s \in Listed(a, b, made)
    <3> DEFINE q == s.from
    <3>1. /\ q \in DOMAIN made /\ Len(q) = Len(a) + 1 /\ IsPrefix(a, q)
          /\ s.to = Append(b, Last(q)) /\ s.isDir = (made[q] = Dir)
      BY <2>2, ListedIs
    <3>2. q \in Paths /\ IsPrefix(p, q)
      BY <1>1, <1>2, <1>3, <1>8, <3>1, PrefixLaws
    <3>3. q \in DOMAIN tree
      BY <1>1, <1>3, <1>9, <1>10, <3>1, <3>2, PrefixLaws
    <3>4. q \in DOMAIN f
      BY <1>1, <1>5, <1>6, <1>7, <1>10, <3>2, <3>3, PrefixLaws DEF Where
    <3>5. s.to = Across(q, p, op.to)
      BY <1>1, <1>2, <1>3, <3>1, <3>2, AcrossChild
    <3>6. s.isDir = f[q].dir
      <4>1. f[q] = SeenAt(tree, data, q) /\ made[q] = tree[q]
        BY <1>5, <1>6, <1>9, <3>1, <3>3, <3>4
      <4>2. CASE tree[q] = Dir
        <5>1. (made[q] = Dir) = TRUE
          BY <4>1, <4>2
        <5>2. f[q].dir = TRUE
          BY <4>1, <4>2 DEF SeenAt, Created
        <5> QED
          BY <3>1, <5>1, <5>2
      <4>3. CASE tree[q] # Dir
        <5>1. (made[q] = Dir) = FALSE
          BY <4>1, <4>3
        <5>2. f[q].dir = FALSE
          BY <4>1, <4>3 DEF SeenAt
        <5> QED
          BY <3>1, <5>1, <5>2
      <4> QED
        BY <4>2, <4>3
    <3> QED
      BY <3>2, <3>4, <3>5, <3>6
  <2> QED
    BY <1>20, <2>1, <2>2
<1>14. ASSUME NEW x \in Below(now, op.to)
       PROVE  Across(x, op.to, p) \in DOMAIN f /\ now[x] = CopyOf(f[Across(x, op.to, p)])
  <2> DEFINE y == Across(x, op.to, p)
  <2>1. x \in DOMAIN now /\ IsPrefix(op.to, x)
    BY DEF Below
  <2>2. CASE x \in DOMAIN left
    <3>1. x \in Below(left, op.to)
      BY <2>1, <2>2 DEF Below
    <3>2. y \in DOMAIN f /\ left[x] = CopyOf(f[y])
      BY <1>1, <3>1 DEF CopyingOut, left
    <3> QED
      BY <1>4, <2>2, <3>2
  <2>3. CASE x \notin DOMAIN left
    <3>1. x \in Paths /\ On(op, x) /\ IsPrefix(x, b) /\ now[x] = Created
      BY <1>4, <2>1, <2>3
    <3>2. y \in Paths /\ IsPrefix(p, y)
      BY <1>1, <2>1, <3>1, AcrossIs
    <3>3. IsPrefix(y, a)
      BY <1>1, <1>3, <2>1, <3>1, AcrossOrder
    <3>4. On(op, y)
      BY <1>7, <3>2
    <3> HIDE DEF y
    <3>5. y \in DOMAIN f /\ f[y] = Created
      BY <1>1, <1>2, <1>11, <3>2, <3>3, <3>4 DEF View
    <3>6. CopyOf(f[y]) = Created
      BY <1>1, <3>5, CopyOfIs DEF View
    <3> QED
      BY <3>1, <3>5, <3>6 DEF y
  <2> QED
    BY <2>2, <2>3
<1>15. ASSUME NEW y \in Below(f, p)
       PROVE  \/ Across(y, p, op.to) \in DOMAIN now
              \/ \E s \in k.todo : IsPrefix(s.from, y)
  <2>1. y \in DOMAIN f /\ IsPrefix(p, y) /\ y \in Paths
    BY <1>1 DEF Below, View
  <2>2. CASE Across(y, p, op.to) \in DOMAIN left
    BY <1>4, <2>2
  <2>3. CASE \E s \in job[r].todo : IsPrefix(s.from, y) /\ s # t
    BY <1>20, <2>3
  <2>4. CASE IsPrefix(a, y) /\ y = a
    <3>1. Across(y, p, op.to) = b
      BY <1>2, <2>4
    <3>2. On(op, b) /\ IsPrefix(b, b)
      BY <1>3, <1>7, PrefixLaws
    <3> QED
      BY <1>3, <1>4, <3>1, <3>2
  <2>5. CASE IsPrefix(a, y) /\ y # a
    <3>1. y \in DOMAIN tree
      BY <1>5, <1>6, <2>1 DEF Where
    <3>2. PICK c \in Children(a) : IsPrefix(c, y)
      BY <1>1, <1>3, <2>5, <3>1, ChildOnTheWay
    <3>3. c \in DOMAIN tree /\ Len(c) = Len(a) + 1 /\ IsPrefix(a, c)
      BY DEF Children
    <3>4. c \in DOMAIN made
      BY <1>8, <1>9, <3>3
    <3>5. PICK s \in Listed(a, b, made) : s.from = c
      BY <3>3, <3>4, ListedIs
    <3>6. s \in k.todo
      BY <1>20, <3>5
    <3> QED
      BY <3>2, <3>5, <3>6
  <2>6. \/ Across(y, p, op.to) \in DOMAIN left
        \/ \E s \in job[r].todo : IsPrefix(s.from, y)
    BY <1>1 DEF CopyingOut, left
  <2> QED
    BY <1>20, <2>2, <2>3, <2>4, <2>5, <2>6
<1> QED
  BY <1>12, <1>13, <1>14, <1>15, <1>20 DEF CopyingOut, now, v, f, made, b

LEMMA TaskBelow ==
    ASSUME Isolated, OnCourse, NEW r \in Requests, Free(job[r]), job[r].op.kind = "copy",
           job[r].at \in {"copy", "write", "mode"}, NEW t \in job[r].todo
    PROVE  t.from \in Paths /\ t.to \in Paths /\ IsPrefix(job[r].op.to, t.to)
<1> DEFINE from == job[r].op.path
           to == job[r].op.to
           a == t.from
<1>1. from \in Paths /\ to \in Paths
  BY CopyStands
<1>2. a \in Paths /\ t.to \in Paths
  BY CopyStands DEF Own
<1>3. CASE IsPrefix(from, to)
  BY <1>2, <1>3, CopyStands
<1>4. CASE ~IsPrefix(from, to)
  <2>1. t.to = Across(a, from, to) /\ IsPrefix(from, a)
    BY <1>4, CopyStands DEF CopyingOut
  <2> HIDE DEF from, to, a
  <2>2. IsPrefix(to, Across(a, from, to))
    BY <1>1, <1>2, <2>1, AcrossIs
  <2> QED
    BY <1>2, <2>1, <2>2 DEF to, a
<1> QED
  BY <1>3, <1>4

LEMMA CopyDirectoryProceeds ==
    ASSUME Isolated, FilesInv', OnCourse, NEW r \in Requests, Free(job[r]), copyDirectory(r)
    PROVE  Proceeds(r)
<1> DEFINE op == job[r].op
           f == FoundBy(job[r])
           w == Scene(op, tree, data)
<1>1. job[r].at = "copy" /\ op.kind = "copy"
  <2>1. JobSound(data, job[r]) /\ job[r].at = "copy"
    BY Course DEF copyDirectory
  <2> QED
    BY <2>1 DEF JobSound
<1>2. /\ FilesSafe /\ op \in Operations /\ op.path \in Paths /\ op.to \in Paths
      /\ DOMAIN job[r] = Fields /\ Own(job[r]) /\ View(op, f)
      /\ op.path \in DOMAIN f /\ op.to \notin DOMAIN f
      /\ Elsewhere(LeftIn(w), op.to) \in WithParents(f, op.to)
      /\ ~IsPrefix(op.path, op.to) => CopyingOut(job[r], f, w)
      /\ IsPrefix(op.path, op.to) =>
             /\ \A s \in job[r].todo : IsPrefix(op.to, s.to)
             /\ \E s \in job[r].todo : s.isDir /\ IsPrefix(s.from, s.to) /\ s.from # s.to
  BY <1>1, CopyStands
<1>3. PICK t \in job[r].todo :
         /\ t.isDir
         /\ \/ /\ CanMkdirAll(t.to) /\ IsDir(t.from)
               /\ LET made == MkdirAll(t.to)
                      listed == { q \in DOMAIN made : Len(q) = Len(t.from) + 1 /\ IsPrefix(t.from, q) }
                  IN  Step(made, data, r,
                           [job[r] EXCEPT !.todo = (@ \ {t}) \cup
                                { [from |-> q, to |-> Append(t.to, Last(q)),
                                   isDir |-> made[q] = Dir] : q \in listed }])
            \/ \E made \in {tree} \cup (IF CanMkdirAll(t.to) THEN {MkdirAll(t.to)} ELSE {}) :
                  Step(made, data, r, Answer(r, "error"))
  BY DEF copyDirectory
<1> DEFINE a == t.from
           b == t.to
           made == MkdirAll(b)
           v == Scene(op, made, data)
<1>4. a \in Paths /\ b \in Paths
  BY <1>2 DEF Own
<1>5. IsPrefix(op.to, b)
  BY <1>1, TaskBelow
<1>6. ASSUME CanMkdirAll(b)
      PROVE  Elsewhere(LeftIn(v), op.to) \in WithParents(f, op.to)
  <2> HIDE DEF a, b, f
  <2> QED
    BY <1>1, <1>2, <1>4, <1>5, <1>6, MadeElsewhere
<1>7. ASSUME NEW u \in {tree} \cup (IF CanMkdirAll(b) THEN {made} ELSE {}),
             Step(u, data, r, Answer(r, "error"))
      PROVE  Proceeds(r)
  <2>1. u = tree \/ (CanMkdirAll(b) /\ u = made)
    OBVIOUS
  <2> HIDE DEF made
  <2>2. Elsewhere(LeftIn(Scene(op, u, data)), op.to) \in WithParents(f, op.to)
    BY <1>2, <1>6, <2>1
  <2> QED
    BY <1>1, <1>7, <2>2, CopyFails
<1>8. ASSUME CanMkdirAll(b), IsDir(a),
             Step(made, data, r, [job[r] EXCEPT !.todo = (@ \ {t}) \cup Listed(a, b, made)])
      PROVE  Proceeds(r)
  <2> DEFINE k == [job[r] EXCEPT !.todo = (@ \ {t}) \cup Listed(a, b, made)]
  <2>1. /\ k.op = op /\ k.before = job[r].before /\ k.at = "copy"
        /\ k.todo = (job[r].todo \ {t}) \cup Listed(a, b, made)
    BY <1>1, <1>2 DEF Fields
  <2>2. FoundBy(k) = f
    BY <2>1, SameFound
  <2>3. Step(made, data, r, k)
    BY <1>8
  <2>4. DOMAIN made \subseteq Paths
    BY <1>2, <1>4, SafePaths, MkdirAllIs
  <2>5. ASSUME IsPrefix(op.path, op.to) PROVE CopyProgress(k, f, v)
    <3>1. \A s \in Listed(a, b, made) : IsPrefix(b, s.to) /\ s.to \in Paths
      <4> HIDE DEF a, b, made
      <4> QED
        BY <1>4, <2>4, ListedBelow
    <3>2. \A s \in k.todo : IsPrefix(op.to, s.to)
      <4> HIDE DEF a, b, made, k
      <4> QED
        BY <1>2, <1>4, <1>5, <2>1, <2>5, <3>1, PrefixLaws
    <3>3. PICK s \in job[r].todo : s.isDir /\ IsPrefix(s.from, s.to) /\ s.from # s.to
      BY <1>2, <2>5
    <3>4. \E z \in k.todo : z.isDir /\ IsPrefix(z.from, z.to) /\ z.from # z.to
      <4>1. CASE s = t
        <5>1. IsPrefix(a, b) /\ a # b
          BY <3>3, <4>1
        <5> HIDE DEF a, b
        <5>2. \E z \in Listed(a, b, made) : z.isDir /\ IsPrefix(z.from, z.to) /\ z.from # z.to
          BY <1>2, <1>4, <1>8, <5>1, GoesDeeper
        <5> QED
          BY <2>1, <5>2
      <4>2. CASE s # t
        BY <2>1, <3>3, <4>2
      <4> QED
        BY <4>1, <4>2
    <3>5. Elsewhere(LeftIn(v), op.to) \in WithParents(f, op.to)
      BY <1>6, <1>8
    <3> HIDE DEF f, v, k
    <3> QED
      BY <1>2, <2>1, <2>5, <3>2, <3>4, <3>5 DEF CopyProgress
  <2>6. ASSUME ~IsPrefix(op.path, op.to) PROVE CopyProgress(k, f, v)
    <3> HIDE DEF k
    <3>1. k.todo = (job[r].todo \ {t}) \cup Listed(t.from, t.to, MkdirAll(t.to))
      BY <2>1
    <3>2. CopyingOut(k, FoundBy(job[r]), Scene(job[r].op, MkdirAll(t.to), data))
      BY <1>1, <1>3, <1>8, <2>1, <2>6, <3>1, MadeOut
    <3>3. CopyingOut(k, f, v)
      BY <3>2
    <3> HIDE DEF f, v
    <3> QED
      BY <1>2, <2>1, <2>6, <3>3 DEF CopyProgress
  <2> HIDE DEF k, f, v, made
  <2>7. Progress(r, k, v)
    BY <1>1, <2>1, <2>2, <2>5, <2>6 DEF Progress, Reads
  <2>8. v = Scene(k.op, made, data)
    BY <2>1 DEF v
  <2> QED
    BY <2>3, <2>7, <2>8, StepProceeds
<1>9. \/ /\ CanMkdirAll(b) /\ IsDir(a)
         /\ Step(made, data, r, [job[r] EXCEPT !.todo = (@ \ {t}) \cup Listed(a, b, made)])
      \/ \E u \in {tree} \cup (IF CanMkdirAll(b) THEN {made} ELSE {}) :
            Step(u, data, r, Answer(r, "error"))
  BY <1>3 DEF Listed
<1> QED
  BY <1>7, <1>8, <1>9

\* What is put below a path leaves the rest alone.
LEMMA PutElsewhere ==
    ASSUME NEW w, NEW v, NEW p, NEW n, NEW new, Puts(w, v, p, n, new), NEW q, IsPrefix(q, p)
    PROVE  Elsewhere(LeftIn(v), q) = Elsewhere(LeftIn(w), q)
<1> DEFINE left == LeftIn(w)
           now == LeftIn(v)
<1>1. DOMAIN now = DOMAIN left \cup {p} /\ \A x \in DOMAIN left : x # p => now[x] = left[x]
  BY DEF Puts
<1> HIDE DEF left, now
<1>2. \A x : ~IsPrefix(q, x) => (x \in DOMAIN now <=> x \in DOMAIN left)
  BY <1>1
<1>3. \A x \in DOMAIN now : ~IsPrefix(q, x) => now[x] = left[x]
  BY <1>1
<1>4. Elsewhere(now, q) = Elsewhere(left, q)
  BY <1>2, <1>3, ElseSame
<1> QED
  BY <1>4 DEF left, now

\* A file of a copy that is not into itself is opened.
LEMMA OpenOut ==
    ASSUME Isolated, OnCourse, NEW r \in Requests, Free(job[r]), job[r].op.kind = "copy",
           job[r].at = "copy", ~IsPrefix(job[r].op.path, job[r].op.to),
           NEW t \in job[r].todo, ~t.isDir,
           NEW n, NEW new, NEW v, Puts(Scene(job[r].op, tree, data), v, t.to, n, new),
           new.mixed = FALSE, ~IsFile(t.to) => new.set = {},
           IsFile(t.to) => new.set = data[tree[t.to]].set,
           NEW k, k.op = job[r].op, k.at = "write", k.todo = job[r].todo \ {t},
           k.in = tree[t.from], k.out = n, k.source = t.from, k.file = t.to
    PROVE  CopyingOut(k, FoundBy(job[r]), v)
<1> DEFINE op == job[r].op
           p == op.path
           q == op.to
           a == t.from
           b == t.to
           f == FoundBy(job[r])
           w == Scene(op, tree, data)
           left == LeftIn(w)
           now == LeftIn(v)
<1>1. /\ FilesSafe /\ op \in Operations /\ p \in Paths /\ q \in Paths
      /\ View(op, f) /\ p \in DOMAIN f /\ q \notin DOMAIN f
      /\ CopyingOut(job[r], f, w)
  BY CopyStands
<1>2. /\ a \in DOMAIN f /\ IsPrefix(p, a) /\ b = Across(a, p, q)
      /\ t.isDir = f[a].dir /\ Elsewhere(left, q) = f
  BY <1>1 DEF CopyingOut
<1>3. /\ ~t.isDir /\ t \in job[r].todo /\ Puts(w, v, b, n, new) /\ new.mixed = FALSE
      /\ (~IsFile(b) => new.set = {}) /\ (IsFile(b) => new.set = data[tree[b]].set)
      /\ k.op = op /\ k.at = "write" /\ k.todo = job[r].todo \ {t} /\ t.from = a
      /\ k.in = tree[a] /\ k.out = n /\ k.source = a /\ k.file = b /\ job[r].at = "copy"
  OBVIOUS
<1>4. DOMAIN left = Where(op, tree) /\ \A x \in DOMAIN left : left[x] = SeenAt(tree, data, x)
  BY SceneIs
<1>5. DOMAIN w = DOMAIN left /\ \A x \in DOMAIN left : w[x].node = tree[x]
  BY SceneIs
<1> HIDE DEF p, q, a, b, f, w, left, now
<1>6. a \in Paths /\ Sight(f[a]) /\ f[a].dir = FALSE
  BY <1>1, <1>2, <1>3 DEF View, Sight
<1>7. b \in Paths /\ IsPrefix(q, b) /\ Across(b, q, p) = a
  BY <1>1, <1>2, <1>6, AcrossIs
<1>8. /\ \A x : x \in DOMAIN f <=> x \in DOMAIN left /\ ~IsPrefix(q, x)
      /\ \A x \in DOMAIN f : f[x] = left[x]
  BY <1>2, ElseIs
<1>9. /\ DOMAIN v = DOMAIN left \cup {b} /\ DOMAIN now = DOMAIN v
      /\ v[b].node = n /\ ~v[b].mixed /\ ~now[b].dir /\ now[b].set = new.set
      /\ \A x \in DOMAIN left : x # b => v[x].node = w[x].node /\ now[x] = left[x]
  BY <1>3, <1>5 DEF Puts, now, left
<1>10. Elsewhere(now, q) = f
  <2>1. Elsewhere(LeftIn(v), q) = Elsewhere(LeftIn(w), q)
    BY <1>3, <1>7, PutElsewhere
  <2> QED
    BY <1>2, <2>1 DEF now, left
<1>11. now[b].set \subseteq {"mode"}
  <2>1. CASE IsFile(b)
    <3>1. b \in DOMAIN left
      BY <1>1, <1>4, <1>7, <2>1, OnIs DEF Where, IsFile, q
    <3>2. left[b] = CopyOf(f[a])
      <4>1. b \in Below(left, q)
        BY <1>7, <3>1 DEF Below
      <4>2. LET y == Across(b, q, p) IN y \in DOMAIN f /\ left[b] = CopyOf(f[y])
        BY <1>1, <1>3, <4>1 DEF CopyingOut, left, p, q
      <4> QED
        BY <1>7, <4>2
    <3>3. left[b].set \subseteq {"mode"}
      BY <1>6, <3>2, CopyOfIs
    <3>4. left[b].set = data[tree[b]].set
      <4>1. tree[b] # Dir /\ left[b] = SeenAt(tree, data, b)
        BY <1>4, <2>1, <3>1 DEF IsFile
      <4> QED
        BY <4>1 DEF SeenAt
    <3> QED
      BY <1>3, <1>9, <2>1, <3>3, <3>4
  <2>2. CASE ~IsFile(b)
    BY <1>3, <1>9, <2>2
  <2> QED
    BY <2>1, <2>2
<1>12. ASSUME NEW s \in k.todo
       PROVE  /\ s.from \in DOMAIN f /\ IsPrefix(p, s.from) /\ s.to = Across(s.from, p, q)
              /\ s.isDir = f[s.from].dir
  BY <1>1, <1>3 DEF CopyingOut, p, q
<1>13. ASSUME NEW x \in Below(now, q)
       PROVE  Across(x, q, p) \in DOMAIN f /\ (now[x] = CopyOf(f[Across(x, q, p)]) \/ x = b)
  <2>1. x \in DOMAIN now /\ IsPrefix(q, x)
    BY DEF Below
  <2>2. CASE x = b
    BY <1>2, <1>7, <2>2
  <2>3. CASE x # b
    <3>1. x \in Below(left, q) /\ now[x] = left[x]
      BY <1>9, <2>1, <2>3 DEF Below
    <3>2. Across(x, q, p) \in DOMAIN f /\ left[x] = CopyOf(f[Across(x, q, p)])
      BY <1>1, <1>3, <3>1 DEF CopyingOut, left, p, q
    <3> QED
      BY <3>1, <3>2
  <2> QED
    BY <2>2, <2>3
<1>14. ASSUME NEW y \in Below(f, p)
       PROVE  \/ Across(y, p, q) \in DOMAIN now
              \/ \E s \in k.todo : IsPrefix(s.from, y)
  <2>1. y \in DOMAIN f /\ y \in Paths
    BY <1>1 DEF Below, View
  <2>2. \/ Across(y, p, q) \in DOMAIN left
        \/ \E s \in job[r].todo : IsPrefix(s.from, y)
    BY <1>1 DEF CopyingOut, left, p, q
  <2>3. CASE Across(y, p, q) \in DOMAIN left
    BY <1>9, <2>3
  <2>4. CASE \E s \in job[r].todo : IsPrefix(s.from, y) /\ s # t
    BY <1>3, <2>4
  <2>5. CASE IsPrefix(a, y)
    <3>1. y = a
      <4>1. y # a => f[a] = Created
        BY <1>1, <1>2, <1>6, <2>1, <2>5 DEF View
      <4> QED
        BY <1>6, <4>1 DEF Created
    <3> QED
      BY <1>2, <1>9, <3>1
  <2> QED
    BY <1>3, <2>2, <2>3, <2>4, <2>5
<1>15. a \in Below(f, p) /\ a \in DOMAIN left /\ a # b
  BY <1>2, <1>7, <1>8 DEF Below
<1>16. v[a].node = k.in
  BY <1>3, <1>5, <1>9, <1>15
<1>17. k.op.path = p /\ k.op.to = q
  BY <1>3 DEF p, q
<1>18. CopyingOut(k, f, v)
  <2>1. /\ k.source \in Below(f, p) /\ ~f[k.source].dir
        /\ k.file = Across(k.source, p, q) /\ k.file \in DOMAIN v
        /\ ~now[k.file].dir /\ now[k.file].set \subseteq {"mode"}
        /\ v[k.file].node = k.out /\ ~v[k.file].mixed /\ v[k.source].node = k.in
        /\ k.at = "write"
    BY <1>2, <1>3, <1>6, <1>9, <1>11, <1>15, <1>16
  <2>2. \A x \in Below(now, q) :
           Across(x, q, p) \in DOMAIN f /\ (now[x] = CopyOf(f[Across(x, q, p)]) \/ x = k.file)
    BY <1>3, <1>13
  <2> QED
    BY <1>10, <1>12, <1>14, <1>17, <2>1, <2>2 DEF CopyingOut, now
<1> QED
  BY <1>18 DEF f

LEMMA CopyFileProceeds ==
    ASSUME Isolated, FilesInv', OnCourse, NEW r \in Requests, Free(job[r]), copyFile(r)
    PROVE  Proceeds(r)
<1> DEFINE op == job[r].op
           f == FoundBy(job[r])
           w == Scene(op, tree, data)
<1>1. job[r].at = "copy" /\ op.kind = "copy"
  <2>1. JobSound(data, job[r]) /\ job[r].at = "copy"
    BY Course DEF copyFile
  <2> QED
    BY <2>1 DEF JobSound
<1>2. /\ FilesSafe /\ op \in Operations /\ op.path \in Paths /\ op.to \in Paths
      /\ DOMAIN job[r] = Fields /\ Own(job[r])
      /\ op.path \in DOMAIN f /\ op.to \notin DOMAIN f
      /\ Elsewhere(LeftIn(w), op.to) \in WithParents(f, op.to)
      /\ IsPrefix(op.path, op.to) =>
             /\ \A s \in job[r].todo : IsPrefix(op.to, s.to)
             /\ \E s \in job[r].todo : s.isDir /\ IsPrefix(s.from, s.to) /\ s.from # s.to
  BY <1>1, CopyStands
<1>3. PICK t \in job[r].todo :
         /\ ~t.isDir
         /\ \/ OpenAt(r, t.to, {}, TRUE,
                      [job[r] EXCEPT !.at = "write", !.in = tree[t.from], !.todo = @ \ {t},
                                     !.source = t.from, !.file = t.to])
            \/ Error(r)
  BY DEF copyFile
<1> DEFINE a == t.from
           b == t.to
           next == [job[r] EXCEPT !.at = "write", !.in = tree[a], !.todo = @ \ {t},
                                  !.source = a, !.file = b]
<1>4. a \in Paths /\ b \in Paths /\ IsPrefix(op.to, b) /\ On(op, b)
  BY <1>1, <1>2, TaskBelow DEF Own
<1>5. Error(r) => Proceeds(r)
  BY <1>1, CopyError
<1>6. ASSUME OpenAt(r, b, {}, TRUE, next)
      PROVE  Proceeds(r)
  <2>1. job[r].at # "write" /\ {} \subseteq Attributes
    BY <1>1
  <2>2. PICK n, u, e :
              /\ Puts(w, Scene(op, u, e), b, n, e[n])
              /\ e[n].mixed = FALSE
              /\ (~IsFile(b) => e[n].set = {}) /\ (IsFile(b) => e[n].set = data[tree[b]].set)
              /\ Step(u, e, r, [next EXCEPT !.out = n])
    <3> HIDE DEF b, next
    <3> QED
      BY <1>4, <1>6, <2>1, OpenSeen
  <2> DEFINE k == [next EXCEPT !.out = n]
             v == Scene(op, u, e)
  <2>3. /\ k.op = op /\ k.before = job[r].before /\ k.at = "write" /\ k.out = n
        /\ k.todo = job[r].todo \ {t} /\ k.in = tree[a] /\ k.source = a /\ k.file = b
    BY <1>2 DEF Fields
  <2>4. FoundBy(k) = f
    BY <2>3, SameFound
  <2>5. Step(u, e, r, k) /\ Puts(w, v, b, n, e[n])
    BY <2>2
  <2>6. /\ ~t.isDir /\ e[n].mixed = FALSE /\ (~IsFile(b) => e[n].set = {})
        /\ (IsFile(b) => e[n].set = data[tree[b]].set)
    BY <1>3, <2>2
  <2> HIDE DEF k, v, next
  <2>7. ASSUME IsPrefix(op.path, op.to) PROVE CopyProgress(k, f, v)
    <3>1. Elsewhere(LeftIn(v), op.to) = Elsewhere(LeftIn(w), op.to)
      <4> HIDE DEF w, b
      <4> QED
        BY <1>4, <2>5, PutElsewhere
    <3>2. b \in DOMAIN v /\ v[b].node = n
      BY <2>5 DEF Puts
    <3>3. \A s \in k.todo : IsPrefix(op.to, s.to)
      BY <1>2, <2>3, <2>7
    <3>4. \E s \in k.todo : s.isDir /\ IsPrefix(s.from, s.to) /\ s.from # s.to
      BY <1>2, <2>3, <2>6, <2>7
    <3>5. Elsewhere(LeftIn(v), op.to) \in WithParents(f, op.to)
      BY <1>2, <3>1
    <3> HIDE DEF f, b
    <3> QED
      BY <1>2, <1>4, <2>3, <2>7, <3>2, <3>3, <3>4, <3>5 DEF CopyProgress
  <2>8. ASSUME ~IsPrefix(op.path, op.to) PROVE CopyProgress(k, f, v)
    <3>1. CopyingOut(k, FoundBy(job[r]), v)
      BY <1>1, <2>3, <2>5, <2>6, <2>8, OpenOut
    <3> HIDE DEF f
    <3> QED
      BY <1>2, <2>3, <2>8, <3>1 DEF CopyProgress, f
  <2> HIDE DEF f
  <2>9. Progress(r, k, v)
    BY <1>1, <2>3, <2>4, <2>7, <2>8 DEF Progress, Reads
  <2>10. v = Scene(k.op, u, e)
    BY <2>3 DEF v
  <2> QED
    BY <2>5, <2>9, <2>10, StepProceeds
<1> QED
  BY <1>3, <1>5, <1>6

LEMMA CopiedProceeds ==
    ASSUME Isolated, FilesInv', OnCourse, NEW r \in Requests, Free(job[r]), Copied(r)
    PROVE  Proceeds(r)
<1> DEFINE op == job[r].op
           p == op.path
           q == op.to
           f == FoundBy(job[r])
           w == Scene(op, tree, data)
           left == LeftIn(w)
           n == job[r].out
           file0 == job[r].file
           source == job[r].source
           k == More(r)
<1>1. /\ job[r].at = "write" /\ op.kind = "copy"
      /\ \/ /\ job[r].in # Dir
            /\ \E d \in WrittenTo(n, data[job[r].in].content) : Step(tree, d, r, k)
         \/ Error(r)
  BY DEF Copied, At
<1>2. /\ FilesSafe /\ op \in Operations /\ p \in Paths /\ q \in Paths
      /\ DOMAIN job[r] = Fields /\ Own(job[r]) /\ View(op, f)
      /\ p \in DOMAIN f /\ q \notin DOMAIN f
      /\ Elsewhere(left, q) \in WithParents(f, q)
      /\ ~IsPrefix(p, q) => CopyingOut(job[r], f, w)
      /\ IsPrefix(p, q) =>
             /\ \A t \in job[r].todo : IsPrefix(q, t.to)
             /\ IsPrefix(q, file0) /\ file0 \in DOMAIN w /\ w[file0].node = n
             /\ \E t \in job[r].todo : t.isDir /\ IsPrefix(t.from, t.to) /\ t.from # t.to
  BY <1>1, CopyStands
<1>3. Error(r) => Proceeds(r)
  BY <1>1, CopyError
<1>4. /\ k.op = op /\ k.before = job[r].before /\ k.at = "mode" /\ k.todo = job[r].todo
      /\ k.file = file0 /\ k.source = source
  BY <1>2 DEF Fields, More
<1>5. FoundBy(k) = f
  BY <1>4, SameFound
<1>6. DOMAIN left = Where(op, tree) /\ \A x \in DOMAIN left : left[x] = SeenAt(tree, data, x)
  BY SceneIs
<1>7. DOMAIN w = DOMAIN left /\ \A x \in DOMAIN left : w[x].node = tree[x]
  BY SceneIs
<1> HIDE DEF k
<1>8. ASSUME job[r].in # Dir, NEW d \in WrittenTo(n, data[job[r].in].content), Step(tree, d, r, k)
      PROVE  Proceeds(r)
  <2> DEFINE v == Scene(op, tree, d)
             now == LeftIn(v)
             new == d[n]
  <2>1. IsPrefix(q, file0) /\ file0 \in DOMAIN w /\ w[file0].node = n
    <3>1. CASE IsPrefix(p, q)
      BY <1>2, <3>1
    <3>2. CASE ~IsPrefix(p, q)
      <4>1. /\ file0 \in DOMAIN w /\ w[file0].node = n
            /\ source \in Below(f, p) /\ file0 = Across(source, p, q)
        BY <1>1, <1>2, <3>2 DEF CopyingOut
      <4>2. source \in Paths /\ IsPrefix(p, source)
        BY <1>2, <4>1 DEF Below, View
      <4> HIDE DEF p, q, source, file0, w, f
      <4>3. IsPrefix(q, Across(source, p, q))
        BY <1>2, <4>2, AcrossIs
      <4> QED
        BY <4>1, <4>3
    <3> QED
      BY <3>1, <3>2
  <2>2. /\ Puts(w, v, file0, n, new)
        /\ ~w[file0].mixed => new.content = data[job[r].in].content
        /\ new.set = left[file0].set
    <3> HIDE DEF file0
    <3> QED
      BY <1>1, <2>1, WrittenSeen
  <2>3. Elsewhere(now, q) = Elsewhere(left, q)
    <3> HIDE DEF w, v, new, q, file0
    <3> QED
      BY <2>1, <2>2, PutElsewhere
  <2> HIDE DEF f, w, v, left, n, file0, source, p, q
  <2>4. /\ DOMAIN v = DOMAIN left /\ DOMAIN now = DOMAIN v
        /\ ~now[file0].dir /\ now[file0].set = new.set /\ now[file0].content = new.content
        /\ \A x \in DOMAIN left : x # file0 => now[x] = left[x]
    BY <1>7, <2>1, <2>2 DEF Puts, left
  <2> HIDE DEF now, new
  <2>5. k.op.path = p /\ k.op.to = q
    BY <1>4 DEF p, q
  <2>6. ASSUME IsPrefix(p, q) PROVE CopyProgress(k, f, v)
    BY <1>2, <1>4, <2>1, <2>3, <2>5, <2>6 DEF CopyProgress, now
  <2>7. ASSUME ~IsPrefix(p, q) PROVE CopyingOut(k, f, v)
    <3>1. CopyingOut(job[r], f, w)
      BY <1>2, <2>7
    <3>2. /\ Elsewhere(left, q) = f
          /\ \A t \in job[r].todo : /\ t.from \in DOMAIN f /\ IsPrefix(p, t.from)
                                    /\ t.to = Across(t.from, p, q)
                                    /\ t.isDir = f[t.from].dir
          /\ \A x \in Below(left, q) :
                /\ Across(x, q, p) \in DOMAIN f
                /\ left[x] = CopyOf(f[Across(x, q, p)]) \/ x = file0
          /\ \A y \in Below(f, p) :
                \/ Across(y, p, q) \in DOMAIN left
                \/ \E t \in job[r].todo : IsPrefix(t.from, y)
      BY <3>1 DEF CopyingOut, left, p, q, file0
    <3>3. /\ source \in Below(f, p) /\ ~f[source].dir
          /\ file0 = Across(source, p, q) /\ left[file0].set \subseteq {"mode"}
          /\ ~w[file0].mixed /\ w[source].node = job[r].in
      BY <1>1, <3>1 DEF CopyingOut, left, p, q, file0, source
    <3>4. \A x \in Below(now, q) :
                /\ Across(x, q, p) \in DOMAIN f
                /\ now[x] = CopyOf(f[Across(x, q, p)]) \/ x = file0
      <4>1. Below(now, q) = Below(left, q)
        BY <2>4 DEF Below
      <4>2. \A x \in Below(left, q) : x \in DOMAIN left
        BY DEF Below
      <4> QED
        BY <2>4, <3>2, <4>1, <4>2
    <3>5. now[file0].content = f[source].content
      <4>1. source \in DOMAIN left /\ f[source] = left[source]
        <5>1. source \in DOMAIN f
          BY <3>3 DEF Below
        <5> QED
          BY <3>2, <5>1, ElseIs
      <4>2. tree[source] = job[r].in
        BY <1>7, <3>3, <4>1
      <4>3. f[source].content = data[job[r].in].content
        BY <1>6, <1>8, <4>1, <4>2 DEF SeenAt
      <4> QED
        BY <2>2, <2>4, <3>3, <4>3
    <3>6. /\ k.source \in Below(f, p) /\ ~f[k.source].dir
          /\ k.file = Across(k.source, p, q) /\ k.file \in DOMAIN v
          /\ ~now[k.file].dir /\ now[k.file].set \subseteq {"mode"}
          /\ now[k.file].content = f[k.source].content /\ k.at = "mode"
      BY <1>4, <1>7, <2>1, <2>2, <2>4, <3>3, <3>5
    <3>7. \A x \in Below(now, q) :
                /\ Across(x, q, p) \in DOMAIN f
                /\ now[x] = CopyOf(f[Across(x, q, p)]) \/ x = k.file
      BY <1>4, <3>4
    <3>8. \A y \in Below(f, p) :
                \/ Across(y, p, q) \in DOMAIN now
                \/ \E t \in k.todo : IsPrefix(t.from, y)
      BY <1>4, <2>4, <3>2
    <3> QED
      BY <1>4, <2>3, <2>5, <3>2, <3>6, <3>7, <3>8 DEF CopyingOut, now
  <2>8. ASSUME ~IsPrefix(p, q) PROVE CopyProgress(k, f, v)
    BY <1>2, <1>4, <2>5, <2>7, <2>8 DEF CopyProgress
  <2>9. Progress(r, k, v)
    BY <1>1, <1>4, <1>5, <2>6, <2>8 DEF Progress, Reads
  <2>10. v = Scene(k.op, tree, d)
    BY <1>4 DEF v
  <2> QED
    BY <1>8, <2>9, <2>10, StepProceeds
<1> QED
  BY <1>1, <1>3, <1>8

\* The copy of a file is given the mode of its source.
ModeSeen(left, now, q, set) ==
    /\ DOMAIN now = DOMAIN left
    /\ \A x \in DOMAIN left : x # q => now[x] = left[x]
    /\ left[q].dir => now[q] = left[q]
    /\ ~left[q].dir => now[q] = [dir |-> FALSE, content |-> left[q].content,
                                 set |-> (left[q].set \ {"mode"}) \cup (set \cap {"mode"})]

LEMMA WithModeSeen ==
    ASSUME FilesSafe, NEW op, NEW p, NEW q \in DOMAIN tree, On(op, q)
    PROVE  ModeSeen(LeftIn(Scene(op, tree, data)), LeftIn(Scene(op, tree, WithMode(p, q))), q, SetOf(p))
<1> DEFINE e == WithMode(p, q)
           w == Scene(op, tree, data)
           v == Scene(op, tree, e)
           left == LeftIn(w)
           now == LeftIn(v)
           n == tree[q]
<1>1. /\ DOMAIN left = Where(op, tree) /\ IsTable(left)
      /\ \A x \in DOMAIN left : left[x] = SeenAt(tree, data, x)
  BY SceneIs
<1>2. q \in DOMAIN left
  BY <1>1 DEF Where
<1>3. CASE tree[q] = Dir
  <2>1. e = data
    BY <1>3 DEF WithMode, IsFile
  <2>2. left[q].dir = TRUE
    BY <1>1, <1>2, <1>3 DEF SeenAt, Created
  <2>3. now = left
    BY <2>1
  <2> HIDE DEF now, left
  <2>4. ModeSeen(left, now, q, SetOf(p))
    BY <2>2, <2>3 DEF ModeSeen
  <2> QED
    BY <2>4 DEF left, now
<1>4. CASE tree[q] # Dir
  <2>1. IsFile(q) /\ n \in DOMAIN data
    BY <1>4, SafePaths DEF IsFile
  <2>2. /\ \A m \in DOMAIN data \ {n} : e[m] = data[m]
        /\ e[n].set = (data[n].set \ {"mode"}) \cup (SetOf(p) \cap {"mode"})
        /\ e[n].content = data[n].content
    BY <2>1, WithModeIs
  <2>3. Put(tree, tree, q, n)
    BY DEF Put
  <2>4. \A x \in DOMAIN tree : tree[x] = Dir \/ tree[x] \in DOMAIN data
    BY SafePaths
  <2>5. \A x \in DOMAIN tree : tree[x] = n => x = q
    BY <1>4, SafePaths
  <2>6. Puts(w, v, q, n, e[n])
    BY <1>4, <2>2, <2>3, <2>4, <2>5, PutSeen
  <2>7. left[q].dir = FALSE /\ left[q].content = data[n].content /\ left[q].set = data[n].set
    BY <1>1, <1>2, <1>4 DEF SeenAt
  <2> HIDE DEF e, w, v, n
  <2>8. /\ now[q] = [dir |-> FALSE, content |-> e[n].content, set |-> e[n].set]
        /\ \A x \in DOMAIN left : x # q => now[x] = left[x]
        /\ DOMAIN now = DOMAIN left \cup {q}
    BY <2>6 DEF Puts
  <2> HIDE DEF now, left
  <2>9. ModeSeen(left, now, q, SetOf(p))
    BY <1>2, <2>2, <2>7, <2>8 DEF ModeSeen
  <2> QED
    BY <2>9 DEF left, now, w, v, e
<1> QED
  BY <1>3, <1>4

LEMMA CopyModeProceeds ==
    ASSUME Isolated, FilesInv', OnCourse, NEW r \in Requests, Free(job[r]), CopyMode(r)
    PROVE  Proceeds(r)
<1> DEFINE op == job[r].op
           p == op.path
           q == op.to
           f == FoundBy(job[r])
           w == Scene(op, tree, data)
           left == LeftIn(w)
           end == job[r].file
           source == job[r].source
           e == WithMode(source, end)
           k == [job[r] EXCEPT !.at = "copy", !.source = <<>>, !.file = <<>>]
<1>1. /\ job[r].at = "mode" /\ op.kind = "copy"
      /\ \/ source \in DOMAIN tree /\ end \in DOMAIN tree /\ Step(tree, e, r, k)
         \/ Error(r)
  <2>1. JobSound(data, job[r]) /\ job[r].at = "mode"
    BY Course DEF CopyMode
  <2>2. op.kind = "copy"
    BY <2>1 DEF JobSound
  <2> QED
    BY <2>1, <2>2 DEF CopyMode, WithMode
<1>2. /\ FilesSafe /\ op \in Operations /\ p \in Paths /\ q \in Paths
      /\ DOMAIN job[r] = Fields /\ Own(job[r]) /\ View(op, f)
      /\ p \in DOMAIN f /\ q \notin DOMAIN f
      /\ Elsewhere(left, q) \in WithParents(f, q)
      /\ ~IsPrefix(p, q) => CopyingOut(job[r], f, w)
      /\ IsPrefix(p, q) =>
             /\ \A t \in job[r].todo : IsPrefix(q, t.to)
             /\ IsPrefix(q, end)
             /\ \E t \in job[r].todo : t.isDir /\ IsPrefix(t.from, t.to) /\ t.from # t.to
  BY <1>1, CopyStands
<1>3. Error(r) => Proceeds(r)
  BY <1>1, CopyError
<1>4. k.op = op /\ k.before = job[r].before /\ k.at = "copy" /\ k.todo = job[r].todo
  BY <1>2 DEF Fields
<1>5. FoundBy(k) = f
  BY <1>4, SameFound
<1>6. DOMAIN left = Where(op, tree) /\ \A x \in DOMAIN left : left[x] = SeenAt(tree, data, x)
  BY SceneIs
<1>7. end \in Paths /\ On(op, end)
  BY <1>1, <1>2 DEF Own
<1> HIDE DEF k
<1>8. ASSUME source \in DOMAIN tree, end \in DOMAIN tree, Step(tree, e, r, k)
      PROVE  Proceeds(r)
  <2> DEFINE v == Scene(op, tree, e)
             now == LeftIn(v)
             set == SetOf(source)
  <2>1. ModeSeen(left, now, end, set)
    <3> HIDE DEF end, source
    <3> QED
      BY <1>2, <1>7, <1>8, WithModeSeen
  <2>2. end \in DOMAIN left
    BY <1>6, <1>7, <1>8 DEF Where
  <2> HIDE DEF f, w, v, left, now, end, source, p, q, e
  <2>3. DOMAIN now = DOMAIN left /\ \A x \in DOMAIN left : x # end => now[x] = left[x]
    BY <2>1 DEF ModeSeen
  <2>4. k.op.path = p /\ k.op.to = q
    BY <1>4 DEF p, q
  <2>5. IsPrefix(q, end) => Elsewhere(now, q) = Elsewhere(left, q)
    <3> SUFFICES ASSUME IsPrefix(q, end) PROVE Elsewhere(now, q) = Elsewhere(left, q)
      OBVIOUS
    <3>1. \A x : ~IsPrefix(q, x) => (x \in DOMAIN now <=> x \in DOMAIN left)
      BY <2>3
    <3>2. \A x \in DOMAIN now : ~IsPrefix(q, x) => now[x] = left[x]
      BY <2>3
    <3> QED
      BY <3>1, <3>2, ElseSame
  <2>6. ASSUME IsPrefix(p, q) PROVE CopyProgress(k, f, v)
    BY <1>2, <1>4, <2>4, <2>5, <2>6 DEF CopyProgress, now
  <2>7. ASSUME ~IsPrefix(p, q) PROVE CopyingOut(k, f, v)
    <3>1. CopyingOut(job[r], f, w)
      BY <1>2, <2>7
    <3>2. /\ Elsewhere(left, q) = f
          /\ \A t \in job[r].todo : /\ t.from \in DOMAIN f /\ IsPrefix(p, t.from)
                                    /\ t.to = Across(t.from, p, q)
                                    /\ t.isDir = f[t.from].dir
          /\ \A x \in Below(left, q) :
                /\ Across(x, q, p) \in DOMAIN f
                /\ left[x] = CopyOf(f[Across(x, q, p)]) \/ x = end
          /\ \A y \in Below(f, p) :
                \/ Across(y, p, q) \in DOMAIN left
                \/ \E t \in job[r].todo : IsPrefix(t.from, y)
      BY <3>1 DEF CopyingOut, left, p, q, end
    <3>3. /\ source \in Below(f, p) /\ ~f[source].dir
          /\ end = Across(source, p, q) /\ left[end].set \subseteq {"mode"}
          /\ ~left[end].dir /\ left[end].content = f[source].content
      BY <1>1, <3>1 DEF CopyingOut, left, p, q, end, source
    <3>4. source \in DOMAIN f /\ source \in Paths /\ IsPrefix(p, source) /\ Sight(f[source])
      BY <1>2, <3>3 DEF Below, View
    <3>5. IsPrefix(q, end) /\ Across(end, q, p) = source
      BY <1>2, <3>3, <3>4, AcrossIs
    <3>6. set = f[source].set
      <4>1. source \in DOMAIN left /\ f[source] = left[source]
        BY <3>2, <3>4, ElseIs
      <4>2. f[source] = SeenAt(tree, data, source)
        BY <1>6, <4>1
      <4>3. tree[source] # Dir
        BY <3>3, <4>2 DEF SeenAt, Created
      <4> QED
        BY <4>2, <4>3 DEF SeenAt, SetOf, set
    <3> HIDE DEF set
    <3>7. now[end] = CopyOf(f[source])
      <4>1. now[end] = [dir |-> FALSE, content |-> left[end].content,
                        set |-> (left[end].set \ {"mode"}) \cup (set \cap {"mode"})]
        BY <2>1, <3>3 DEF ModeSeen
      <4>2. CopyOf(f[source]) = [dir |-> f[source].dir, content |-> f[source].content,
                                 set |-> f[source].set \ {"owner"}]
        BY <3>4, CopyOfIs
      <4>3. f[source].dir = FALSE /\ f[source].set \subseteq Attributes
        BY <3>3, <3>4 DEF Sight
      <4>4. (left[end].set \ {"mode"}) \cup (set \cap {"mode"}) = f[source].set \ {"owner"}
        BY <3>3, <3>6, <4>3 DEF Attributes
      <4> QED
        BY <3>3, <4>1, <4>2, <4>3, <4>4
    <3>8. \A x \in Below(now, q) :
                /\ Across(x, q, p) \in DOMAIN f
                /\ now[x] = CopyOf(f[Across(x, q, p)])
      <4> SUFFICES ASSUME NEW x \in Below(now, q)
                   PROVE  Across(x, q, p) \in DOMAIN f /\ now[x] = CopyOf(f[Across(x, q, p)])
        OBVIOUS
      <4>1. x \in DOMAIN left /\ x \in Below(left, q)
        BY <2>3 DEF Below
      <4>2. CASE x = end
        BY <3>4, <3>5, <3>7, <4>2
      <4>3. CASE x # end
        BY <2>3, <3>2, <4>1, <4>3
      <4> QED
        BY <4>2, <4>3
    <3>9. Elsewhere(now, q) = f
      BY <2>5, <3>2, <3>5
    <3>10. \A y \in Below(f, p) :
                \/ Across(y, p, q) \in DOMAIN now
                \/ \E t \in k.todo : IsPrefix(t.from, y)
      BY <1>4, <2>3, <3>2
    <3> QED
      BY <1>4, <2>4, <3>2, <3>8, <3>9, <3>10 DEF CopyingOut, now
  <2>8. ASSUME ~IsPrefix(p, q) PROVE CopyProgress(k, f, v)
    BY <1>2, <1>4, <2>4, <2>7, <2>8 DEF CopyProgress
  <2>9. Progress(r, k, v)
    BY <1>1, <1>4, <1>5, <2>6, <2>8 DEF Progress, Reads
  <2>10. v = Scene(k.op, tree, e)
    BY <1>4 DEF v
  <2> QED
    BY <1>8, <2>9, <2>10, StepProceeds
<1> QED
  BY <1>1, <1>3, <1>8

LEMMA CopyIs ==
    ASSUME NEW f, NEW p, NEW q
    PROVE  LET g == Copy(f, p, q)
           IN  /\ IsTable(g) /\ DOMAIN g = DOMAIN Onto(f, p, q)
               /\ \A x \in DOMAIN g : g[x] = CopyOf(Onto(f, p, q)[x])
BY DEF Copy, CopyOf, IsTable

\* All is at the target when nothing is left to copy.
LEMMA AllCopied ==
    ASSUME NEW p \in Paths, NEW q \in Paths, NEW f, DOMAIN f \subseteq Paths, NEW left, IsTable(left),
           DOMAIN left \subseteq Paths, Elsewhere(left, q) = f,
           \A x \in Below(left, q) : /\ Across(x, q, p) \in DOMAIN f
                                     /\ left[x] = CopyOf(f[Across(x, q, p)]),
           \A y \in Below(f, p) : Across(y, p, q) \in DOMAIN left
    PROVE  left = Both(f, Copy(f, p, q))
<1> DEFINE g == Copy(f, p, q)
           o == Onto(f, p, q)
           h == Both(f, g)
<1>1. /\ DOMAIN g = DOMAIN o /\ \A x \in DOMAIN g : g[x] = CopyOf(o[x])
  BY CopyIs
<1>2. /\ \A x : x \in DOMAIN o <=> \E a \in Paths : x = q \o a /\ p \o a \in DOMAIN f
      /\ \A a \in Paths : p \o a \in DOMAIN f => o[q \o a] = f[p \o a]
  <2>1. MovedTo(f, p, q, Onto(f, p, q))
    BY OntoIs
  <2> QED
    BY <2>1 DEF MovedTo
<1> HIDE DEF g, o
<1>3. /\ IsTable(h) /\ DOMAIN h = DOMAIN f \cup DOMAIN g
      /\ \A x \in DOMAIN f : h[x] = f[x]
  <2>1. IsTable(Both(f, g))
    BY BothIs
  <2>2. DOMAIN Both(f, g) = DOMAIN f \cup DOMAIN g /\ \A x \in DOMAIN f : Both(f, g)[x] = f[x]
    BY DEF Both
  <2> QED
    BY <2>1, <2>2
<1>4. /\ \A x : x \in DOMAIN f <=> x \in DOMAIN left /\ ~IsPrefix(q, x)
      /\ \A x \in DOMAIN f : f[x] = left[x]
  BY ElseIs
<1>5. ASSUME NEW x \in DOMAIN g, x \notin DOMAIN f PROVE h[x] = g[x]
  BY <1>5, BothElse
<1> HIDE DEF h
<1>6. ASSUME NEW x \in DOMAIN left, x \notin DOMAIN f
      PROVE  x \in DOMAIN g /\ left[x] = g[x]
  <2>1. x \in Paths /\ IsPrefix(q, x)
    BY <1>4, <1>6
  <2>2. PICK a \in Paths : x = q \o a /\ Across(x, q, p) = p \o a
    BY <2>1, AcrossRest, Zenon
  <2>3. p \o a \in DOMAIN f /\ left[x] = CopyOf(f[p \o a])
    BY <2>1, <2>2 DEF Below
  <2>4. x \in DOMAIN o /\ o[x] = f[p \o a]
    BY <1>2, <2>2, <2>3
  <2> QED
    BY <1>1, <2>3, <2>4
<1>7. ASSUME NEW x \in DOMAIN g PROVE x \in DOMAIN left
  <2>1. PICK a \in Paths : x = q \o a /\ p \o a \in DOMAIN f
    BY <1>1, <1>2
  <2>2. IsPrefix(p, p \o a)
    BY Behind
  <2>3. Across(p \o a, p, q) = q \o a
    BY AcrossBehind
  <2> QED
    BY <2>1, <2>2, <2>3 DEF Below
<1>8. DOMAIN left = DOMAIN h
  BY <1>3, <1>4, <1>6, <1>7
<1>9. \A x \in DOMAIN left : left[x] = h[x]
  BY <1>3, <1>4, <1>5, <1>6
<1>10. left = h
  BY <1>3, <1>8, <1>9, TablesEqual
<1> QED
  BY <1>10 DEF h, g

LEMMA CopyEndsProceeds ==
    ASSUME Isolated, FilesInv', OnCourse, NEW r \in Requests, Free(job[r]), CopyEnds(r)
    PROVE  Proceeds(r)
<1> DEFINE op == job[r].op
           p == op.path
           q == op.to
           f == FoundBy(job[r])
           w == Scene(op, tree, data)
           left == LeftIn(w)
           k == Answer(r, "ok")
<1>1. job[r].at = "copy" /\ op.kind = "copy" /\ job[r].todo = {} /\ Step(tree, data, r, k)
  <2>1. JobSound(data, job[r]) /\ job[r].at = "copy"
    BY Course DEF CopyEnds
  <2> QED
    BY <2>1 DEF JobSound, CopyEnds, Ok
<1>2. /\ FilesSafe /\ p \in Paths /\ q \in Paths /\ DOMAIN job[r] = Fields /\ View(op, f)
      /\ p \in DOMAIN f /\ q \notin DOMAIN f
      /\ ~IsPrefix(p, q) => CopyingOut(job[r], f, w)
      /\ IsPrefix(p, q) => \E t \in job[r].todo : t.isDir
  BY <1>1, CopyStands
<1>3. k.op = op /\ FoundBy(k) = f /\ k.at = "answer" /\ k.result = "ok"
  BY <1>2, AnswerIs
<1>4. CopyingOut(job[r], f, w)
  BY <1>1, <1>2
<1>5. IsTable(left) /\ DOMAIN left \subseteq Paths
  <2>1. DOMAIN left = Where(op, tree) /\ IsTable(left)
    BY SceneIs
  <2> QED
    BY <1>2, <2>1, SafePaths DEF Where
<1>6. DOMAIN f \subseteq Paths
  BY <1>2 DEF View
<1> HIDE DEF f, w, left, p, q, k
<1>7. /\ Elsewhere(left, q) = f
      /\ \A x \in Below(left, q) :
            Across(x, q, p) \in DOMAIN f /\ left[x] = CopyOf(f[Across(x, q, p)])
      /\ \A y \in Below(f, p) : Across(y, p, q) \in DOMAIN left
  BY <1>1, <1>4 DEF CopyingOut, left, p, q
<1>8. left = Both(f, Copy(f, p, q))
  BY <1>2, <1>5, <1>6, <1>7, AllCopied
<1>9. k.op.path = p /\ k.op.to = q
  BY <1>3 DEF p, q
<1>10. CopyProgress(k, f, w)
  BY <1>2, <1>3, <1>8, <1>9 DEF CopyProgress, left
<1>11. Progress(r, k, w)
  BY <1>1, <1>3, <1>10 DEF Progress, Reads
<1>12. w = Scene(k.op, tree, data)
  BY <1>3 DEF w
<1> QED
  BY <1>1, <1>11, <1>12, StepProceeds

--------------------------------------------------------------------------------
LEMMA MakeParentsProceeds ==
    ASSUME Isolated, FilesInv', OnCourse, NEW r \in Requests, Free(job[r]), MakeParents(r)
    PROVE  Proceeds(r)
<1> DEFINE op == job[r].op
<1>1. job[r].at = "mkdir" /\ op.kind \in Uploads \cup {"mkdir", "rename", "copy"}
  <2>1. JobSound(data, job[r]) /\ job[r].at = "mkdir"
    BY Course DEF MakeParents
  <2> QED
    BY <2>1 DEF JobSound
<1>2. Error(r) => Proceeds(r)
  <2>1. LeftIn(Scene(job[r].op, tree, data)) = FoundBy(job[r])
    BY <1>1, AtMkdir
  <2> QED
    BY <2>1, EarlyError
<1>3. CASE op.kind \in Uploads
  <2>1. Error(r) \/ (/\ CanMkdirAll(Parent(op.path))
                     /\ Step(MkdirAll(Parent(op.path)), data, r, [job[r] EXCEPT !.at = "open"]))
    BY <1>3 DEF MakeParents, Uploads
  <2> QED
    BY <1>1, <1>2, <1>3, <2>1, WriteMkdir
<1>4. CASE op.kind = "mkdir"
  <2>1. Error(r) \/ (/\ CanMkdirAll(op.path)
                     /\ Step(MkdirAll(op.path), data, r, [job[r] EXCEPT !.at = "attributes"]))
    BY <1>4 DEF MakeParents
  <2> QED
    BY <1>1, <1>2, <1>4, <2>1, MkdirProceeds
<1>5. CASE op.kind = "rename"
  <2>1. Error(r) \/ (/\ CanMkdirAll(Parent(op.to))
                     /\ Step(MkdirAll(Parent(op.to)), data, r, [job[r] EXCEPT !.at = "rename"]))
    BY <1>5 DEF MakeParents
  <2> QED
    BY <1>1, <1>2, <1>5, <2>1, RenameMkdir
<1>6. CASE op.kind = "copy"
  <2>1. Error(r) \/ (/\ CanMkdirAll(Parent(op.to))
                     /\ Step(MkdirAll(Parent(op.to)), data, r, [job[r] EXCEPT !.at = "copy"]))
    BY <1>6 DEF MakeParents
  <2> QED
    BY <1>1, <1>2, <1>6, <2>1, CopyMkdir
<1> QED
  BY <1>1, <1>3, <1>4, <1>5, <1>6

LEMMA SetAttributesProceeds ==
    ASSUME Isolated, FilesInv', OnCourse, NEW r \in Requests, Free(job[r]), SetAttributes(r)
    PROVE  Proceeds(r)
<1>1. job[r].op.kind \in Uploads \cup {"mkdir"}
  <2>1. Own(job[r]) /\ job[r].at = "attributes"
    BY Course DEF SetAttributes
  <2> QED
    BY <2>1 DEF Own
<1>2. CASE job[r].op.kind \in Uploads
  BY <1>2, WriteEnds
<1>3. CASE job[r].op.kind = "mkdir"
  BY <1>3, MkdirEnds
<1> QED
  BY <1>1, <1>2, <1>3

LEMMA WalkEndsProceeds ==
    ASSUME Isolated, FilesInv', OnCourse, NEW r \in Requests, Free(job[r]), WalkEnds(r)
    PROVE  Proceeds(r)
BY ChangeEnds DEF WalkEnds

\* A step of a request that is free keeps it on its course.
LEMMA WorkProceeds ==
    ASSUME Isolated, FilesInv', OnCourse, NEW r \in Requests, Free(job[r]), Work(r)
    PROVE  Proceeds(r)
<1>1. CASE \/ CheckTarget(r) \/ CheckPath(r) \/ MakeParents(r) \/ SetAttributes(r)
           \/ OpenTemp(r) \/ WriteTemp(r) \/ Place(r) \/ Delete(r) \/ Rename(r)
  BY <1>1, CheckTargetProceeds, CheckPathProceeds, MakeParentsProceeds, SetAttributesProceeds,
     OpenTempProceeds, WriteTempProceeds, PlaceProceeds, DeleteProceeds, RenameProceeds
<1>2. CASE \/ copyDirectory(r) \/ copyFile(r) \/ Copied(r) \/ CopyMode(r) \/ CopyEnds(r)
           \/ CheckAttributes(r) \/ ChangeNext(r) \/ WalkEnds(r)
  BY <1>2, CopyDirectoryProceeds, CopyFileProceeds, CopiedProceeds, CopyModeProceeds,
     CopyEndsProceeds, CheckAttributesProceeds, ChangeNextProceeds, WalkEndsProceeds
<1>3. CASE \/ CheckFile(r) \/ OpenToRead(r) \/ ReadContent(r) \/ ReadFails(r) \/ Respond(r)
           \/ EditRead(r) \/ ValidateBegins(r) \/ Load(r) \/ EditOpen(r) \/ EditWrite(r)
  BY <1>3, CheckFileProceeds, OpenToReadProceeds, ReadContentProceeds, ReadEndsProceeds,
     EditReadProceeds, ValidateProceeds, LoadProceeds, EditOpenProceeds, EditWriteProceeds
<1> QED
  BY <1>1, <1>2, <1>3 DEF Work

\* The course of the requests, in a state that is given.
CourseIn(t, d, j) ==
    \A r \in Requests :
        /\ j[r].at \notin {"idle", "done"} => Seen(j[r].before)
        /\ Free(j[r]) => Progress(r, j[r], Scene(j[r].op, t, d))

LEMMA CourseIs == OnCourse <=> CourseIn(tree, data, job)
BY DEF OnCourse, CourseIn

LEMMA CourseNext == ASSUME CourseIn(tree', data', job') PROVE OnCourse'
BY DEF OnCourse, CourseIn

\* A step of one leaves what the others have before them.
LEMMA OthersSee ==
    ASSUME Isolated, FilesInv', NEW r \in Requests, job[r].at \notin {"idle", "done"},
           NEW t, NEW d, NEW k, WorkedTo(r, t, d, k),
           NEW u \in Requests, u # r, Free(job[u])
    PROVE  Scene(job[u].op, tree', data') = Scene(job[u].op, tree, data)
<1>1. FilesSafe
  BY DEF Isolated
<1>2. SameFor(job[u].op, tree, data, tree', data')
  <2>1. CASE job[r].op.kind \in Reads
    BY <1>1, <2>1, ReadsLeave
  <2>2. CASE job[r].op.kind \notin Reads
    <3>1. Busy(job[r])
      BY <2>2 DEF Busy
    <3> QED
      BY <3>1, OthersStay
  <2> QED
    BY <2>1, <2>2
<1>3. DOMAIN tree \subseteq Paths
  BY <1>1, SafePaths
<1>4. DOMAIN tree' \subseteq Paths
  BY DEF FilesInv, FilesSound, TreeSound
<1> QED
  BY <1>2, <1>3, <1>4, SceneSame

LEMMA WorkOnCourse ==
    ASSUME Isolated, FilesInv', OnCourse, NEW r \in Requests, Work(r)
    PROVE  OnCourse'
<1>1. FilesSafe /\ Worked(r) /\ job[r].at \notin {"idle", "done"}
  BY WorkIsWorked DEF Isolated
<1>2. PICK t, d, k : WorkedTo(r, t, d, k)
  BY <1>1, Zenon DEF Worked
<1>3. Become(t, d, [job EXCEPT ![r] = k]) /\ JobStep(r, job[r].op, t, k)
  BY <1>2 DEF WorkedTo
<1>4. \A s \in Requests : job'[s] = IF s = r THEN k ELSE job[s]
  <2>1. DOMAIN job = Requests
    BY <1>1 DEF FilesSafe, FilesInv, FilesSound
  <2>2. job' = [job EXCEPT ![r] = k]
    BY <1>3, Remains
  <2> QED
    BY <2>1, <2>2
<1>5. k.at = "done" \/ (k.op = job[r].op /\ k.hindered = job[r].hindered /\ k.before = job[r].before)
  BY <1>3, EndedIs DEF JobStep
<1>6. ASSUME NEW s \in Requests
      PROVE  /\ job'[s].at \notin {"idle", "done"} => Seen(job'[s].before)
             /\ Free(job'[s]) => Progress(s, job'[s], Scene(job'[s].op, tree', data'))
  <2>1. CASE s = r
    <3>1. job'[s] = k
      BY <1>4, <2>1
    <3>2. k.at \notin {"idle", "done"} => Seen(k.before)
      BY <1>1, <1>5 DEF OnCourse
    <3>3. ASSUME Free(k)
          PROVE  Progress(s, job'[s], Scene(job'[s].op, tree', data'))
      <4>1. Free(job[r])
        BY <1>1, <1>5, <3>3 DEF Free
      <4>2. Proceeds(r)
        BY <4>1, WorkProceeds
      <4> QED
        BY <2>1, <3>1, <3>3, <4>2 DEF Proceeds
    <3> QED
      BY <3>1, <3>2, <3>3
  <2>2. CASE s # r
    <3>1. job'[s] = job[s]
      BY <1>4, <2>2
    <3>2. job[s].at \notin {"idle", "done"} => Seen(job[s].before)
      BY DEF OnCourse
    <3>3. ASSUME Free(job[s])
          PROVE  Progress(s, job[s], Scene(job[s].op, tree', data'))
      <4>1. Scene(job[s].op, tree', data') = Scene(job[s].op, tree, data)
        BY <1>1, <1>2, <2>2, <3>3, OthersSee
      <4>2. Progress(s, job[s], Scene(job[s].op, tree, data))
        BY <3>3 DEF OnCourse
      <4> QED
        BY <4>1, <4>2
    <3> QED
      BY <3>1, <3>2, <3>3
  <2> QED
    BY <2>1, <2>2
<1>7. CourseIn(tree', data', job')
  BY <1>6 DEF CourseIn
<1> QED
  BY <1>7, CourseNext

\* Who is hindered says nothing of the progress.
LEMMA SameProgress ==
    ASSUME NEW r, NEW k, NEW m, NEW w, k.op = m.op, k.before = m.before, k.at = m.at,
           k.result = m.result, k.in = m.in, k.out = m.out, k.todo = m.todo, k.file = m.file,
           k.source = m.source, k.edited = m.edited, Progress(r, m, w)
    PROVE  Progress(r, k, w)
<1>1. FoundBy(k) = FoundBy(m)
  BY SameFound
<1> DEFINE f == FoundBy(m)
           f2 == FoundBy(k)
<1>0. f2 = f
  BY <1>1
<1>2. k.op.kind \in Reads => ReadProgress(k, f, w)
  BY DEF Progress, ReadProgress
<1>3. k.op.kind = "mkdir" => MakeProgress(k, f, w)
  BY DEF Progress, MakeProgress
<1>4. k.op.kind = "delete" => DeleteProgress(k, f, w)
  BY DEF Progress, DeleteProgress
<1>5. k.op.kind = "rename" => RenameProgress(k, f, w)
  BY DEF Progress, RenameProgress
<1>6. k.op.kind \in {"write", "upload"} => WriteProgress(r, k, f, w)
  BY DEF Progress, WriteProgress
<1>7. k.op.kind \in {"chmod", "chown"} => ChangeProgress(k, f, w)
  BY DEF Progress, ChangeProgress
<1>8. k.op.kind = "edit" => EditProgress(k, f, w)
  BY DEF Progress, EditProgress
<1>9. k.op.kind = "copy" => CopyProgress(k, f, w)
  BY DEF Progress, CopyProgress, CopyingOut
<1> HIDE DEF f
<1> QED
  BY <1>0, <1>2, <1>3, <1>4, <1>5, <1>6, <1>7, <1>8, <1>9 DEF Progress

LEMMA BeginOnCourse ==
    ASSUME Isolated, FilesInv', OnCourse, NEW r \in Requests, NEW op \in Operations, Begin(r, op)
    PROVE  OnCourse'
<1> DEFINE seen == [p \in DOMAIN tree |-> See(p)]
           others == { s \in Active : Hinders(op, job[s].op) }
           hindered == \E q \in Active : \/ Hinders(job[q].op, op)
                                         \/ job[q].hindered /\ job[q].op.kind \notin Reads
           k == [Idle EXCEPT !.op = op, !.at = "check", !.before = seen, !.hindered = hindered]
           other(s) == [job[s] EXCEPT !.hindered = @ \/ s \in others]
<1>1. /\ tree' = tree /\ data' = data
      /\ job'[r] = k /\ \A s \in Requests \ {r} : job'[s] = other(s)
  BY DEF Begin, fileVars
<1>2. FilesSafe
  BY DEF Isolated
<1>3. \A s \in Requests : DOMAIN job[s] = Fields
  BY <1>2 DEF FilesSafe, FilesInv, FilesSound, RequestSound, JobSound
<1>4. k.op = op /\ k.at = "check" /\ k.before = seen /\ k.in = Dir /\ k.todo = {}
  BY DEF Idle
<1>5. \A s \in Requests :
         /\ other(s).op = job[s].op /\ other(s).before = job[s].before /\ other(s).at = job[s].at
         /\ other(s).result = job[s].result /\ other(s).in = job[s].in /\ other(s).out = job[s].out
         /\ other(s).todo = job[s].todo /\ other(s).file = job[s].file
         /\ other(s).source = job[s].source /\ other(s).edited = job[s].edited
         /\ other(s).hindered = (job[s].hindered \/ s \in others)
  BY <1>3 DEF Fields
<1>6. Seen(seen) /\ Restrict(seen, Where(op, tree)) = LeftIn(Scene(op, tree, data))
  BY <1>2, BeginSees
<1>7. DOMAIN seen = DOMAIN tree
  OBVIOUS
<1> HIDE DEF seen, others, hindered, k, other
<1>8. FoundBy(k) = LeftIn(Scene(op, tree, data))
  BY <1>4, <1>6, <1>7 DEF FoundBy, Where
<1>9. Progress(r, k, Scene(op, tree, data))
  BY <1>4, <1>8 DEF Progress, ReadProgress, MakeProgress, DeleteProgress, RenameProgress,
                    WriteProgress, ChangeProgress, EditProgress, CopyProgress
<1>10. ASSUME NEW s \in Requests
       PROVE  /\ job'[s].at \notin {"idle", "done"} => Seen(job'[s].before)
              /\ Free(job'[s]) => Progress(s, job'[s], Scene(job'[s].op, tree, data))
  <2>1. CASE s = r
    BY <1>1, <1>4, <1>6, <1>9, <2>1
  <2>2. CASE s # r
    <3>1. job'[s] = other(s)
      BY <1>1, <2>2
    <3>2. other(s).at \notin {"idle", "done"} => Seen(other(s).before)
      BY <1>5 DEF OnCourse
    <3>3. ASSUME Free(other(s))
          PROVE  Progress(s, other(s), Scene(other(s).op, tree, data))
      <4>1. Free(job[s])
        BY <1>5, <3>3 DEF Free
      <4>2. Progress(s, job[s], Scene(job[s].op, tree, data))
        BY <4>1 DEF OnCourse
      <4>3. other(s).op = job[s].op
        BY <1>5
      <4>4. Progress(s, other(s), Scene(job[s].op, tree, data))
        BY <1>5, <4>2, SameProgress
      <4> QED
        BY <4>3, <4>4
    <3> QED
      BY <3>1, <3>2, <3>3
  <2> QED
    BY <2>1, <2>2
<1>11. CourseIn(tree', data', job')
  BY <1>1, <1>10 DEF CourseIn
<1> QED
  BY <1>11, CourseNext

LEMMA IdleOnCourse ==
    ASSUME \A r \in Requests : job[r].at \in {"idle", "done"}
    PROVE  OnCourse
BY DEF OnCourse, Free

LEMMA InitOnCourse == StackInit => OnCourse
<1> SUFFICES ASSUME StackInit PROVE OnCourse
  OBVIOUS
<1>1. job = [r \in Requests |-> Idle]
  BY DEF StackInit
<1>2. Idle.at = "idle"
  BY DEF Idle
<1> HIDE DEF StackInit
<1> QED
  BY <1>1, <1>2, IdleOnCourse

LEMMA RestartOnCourse == ASSUME Restart PROVE OnCourse'
<1> DEFINE i == [r \in Requests |-> IF job[r].at = "idle" THEN Idle ELSE Ended]
<1>1. Become(tree, data, i)
  BY DEF Restart
<1>2. job' = i
  BY <1>1, Remains
<1>3. Idle.at = "idle" /\ Ended.at = "done"
  BY EndedIs DEF Idle
<1>4. \A s \in Requests : job'[s].at \in {"idle", "done"}
  BY <1>2, <1>3
<1>5. CourseIn(tree', data', job')
  BY <1>4 DEF CourseIn, Free
<1> QED
  BY <1>5, CourseNext

LEMMA NextOnCourse ==
    ASSUME Isolated, FilesInv', OnCourse, [StackNext]_stackVars
    PROVE  OnCourse'
<1>1. CASE UNCHANGED <<fileVars, job>>
  <2>1. tree' = tree /\ data' = data /\ job' = job
    BY <1>1 DEF fileVars
  <2>2. CourseIn(tree', data', job')
    BY <2>1, CourseIs
  <2> QED
    BY <2>2, CourseNext
<1>2. LogOther \/ DayPasses \/ UNCHANGED stackVars => UNCHANGED <<fileVars, job>>
  BY DEF LogOther, DayPasses, stackVars, fileVars
<1> QED
  BY <1>1, <1>2, BeginOnCourse, WorkOnCourse, RestartOnCourse DEF StackNext

\* A request that is not hindered has come as far as its kind says.
LEMMA OnCourseHolds == StackSpec => []OnCourse
<1>1. FilesInv' /\ Isolated /\ OnCourse /\ [StackNext]_stackVars => OnCourse'
  BY NextOnCourse
<1> QED
  BY <1>1, InitOnCourse, FilesInvHolds, IsolatedHolds, PTL DEF StackSpec
--------------------------------------------------------------------------------
(***************************************************************************)
(* The progress at the end is what is asked of a request.                  *)
(***************************************************************************)
LEMMA BothNothing ==
    ASSUME NEW f, IsTable(f)
    PROVE  Both(f, Dirs({})) = f
<1> DEFINE g == Both(f, Dirs({}))
<1>1. DOMAIN Dirs({}) = {}
  BY DEF Dirs
<1>2. DOMAIN g = DOMAIN f /\ IsTable(g) /\ \A x \in DOMAIN f : g[x] = f[x]
  BY <1>1 DEF Both, IsTable
<1> HIDE DEF g
<1>3. g = f
  BY <1>2, TablesEqual
<1> QED
  BY <1>3 DEF g

LEMMA ParentsMayBeNone ==
    ASSUME NEW f, IsTable(f), NEW p \in Paths
    PROVE  f \in WithParents(f, p)
<1>1. Both(f, Dirs({})) \in WithParents(f, p)
  BY ParentsIs
<1> QED
  BY <1>1, BothNothing

LEMMA MadeAgain ==
    ASSUME NEW op \in Operations, op.kind = "mkdir", NEW f, View(op, f), NEW left, Made(op, f, left)
    PROVE  left \in {f, Dirs({op.path})}
<1> DEFINE p == op.path
           g == Dirs({p})
<1>1. DOMAIN g = {p} /\ IsTable(g) /\ IsTable(f)
  BY DEF Dirs, IsTable, View
<1>2. DOMAIN left = DOMAIN f \cup {p} /\ IsTable(left)
      /\ (\A x \in DOMAIN f : left[x] = f[x]) /\ (p \notin DOMAIN f => left[p] = g[p])
  BY <1>1 DEF Made, Both, IsTable
<1> HIDE DEF g
<1>3. CASE p \in DOMAIN f
  <2>1. DOMAIN left = DOMAIN f
    BY <1>2, <1>3
  <2>2. left = f
    BY <1>1, <1>2, <2>1, TablesEqual
  <2> QED
    BY <2>2
<1>4. CASE p \notin DOMAIN f
  <2>1. p \in Paths /\ On(op, p)
    BY OnItsPaths
  <2>2. ASSUME NEW x \in DOMAIN f PROVE FALSE
    <3>1. x \in Paths /\ IsPrefix(p, x)
      BY DEF View, On, Touches
    <3>2. x # p
      BY <1>4
    <3> HIDE DEF p
    <3> QED
      BY <1>4, <2>1, <3>1, <3>2 DEF View
  <2>3. DOMAIN left = {p}
    BY <1>2, <2>2
  <2>4. left = g
    BY <1>1, <1>2, <1>4, <2>3, TablesEqual
  <2> QED
    BY <2>4 DEF g
<1> QED
  BY <1>3, <1>4

LEMMA NothingThere ==
    ASSUME NEW op, NEW f, View(op, f), NEW q \in Paths, On(op, q), q \notin DOMAIN f
    PROVE  Elsewhere(f, q) = f
<1>1. \A x \in DOMAIN f : ~IsPrefix(q, x)
  BY DEF View
<1> DEFINE g == Elsewhere(f, q)
<1>2. IsTable(g) /\ IsTable(f) /\ (\A x : x \in DOMAIN g <=> x \in DOMAIN f /\ ~IsPrefix(q, x))
      /\ \A x \in DOMAIN g : g[x] = f[x]
  BY ElseIs DEF View
<1> HIDE DEF g
<1>3. g = f
  BY <1>1, <1>2, TablesEqual
<1> QED
  BY <1>3 DEF g

ContentAt(f, p, content) == [f EXCEPT ![p].content = content]
EditedAt(f, p, r) == [f EXCEPT ![p] = Edited(r, @)]

LEMMA EditedIs ==
    ASSUME NEW f, NEW p \in DOMAIN f, IsTable(f), Sight(f[p]), NEW r,
           NEW content, content = Content(f[p].content.text, Meaning(f[p].content.services, job[r].op.changes))
    PROVE  ContentAt(f, p, content) = EditedAt(f, p, r)
<1> DEFINE was == f[p]
<1>1. Edited(r, was) = [was EXCEPT !.content = content]
  BY DEF Edited
<1> HIDE DEF was
<1>2. [f EXCEPT ![p] = [was EXCEPT !.content = content]] = [f EXCEPT ![p] = Edited(r, was)]
  BY <1>1
<1> QED
  BY <1>2 DEF was, ContentAt, EditedAt

LEMMA DoesAll ==
    ASSUME Isolated, OnCourse, NEW r \in Requests, Free(job[r]), job[r].at = "answer",
           job[r].result = "ok"
    PROVE  Accomplished(r) \/ RenamesNothing(r)
<1> DEFINE k == job[r]
           op == k.op
           f == FoundBy(k)
           w == Scene(op, tree, data)
           left == LeftIn(w)
<1>1. /\ op \in Operations /\ op.kind \in Kinds /\ op.path \in Paths /\ op.to \in Paths
      /\ Seen(k.before) /\ View(op, f) /\ View(op, left) /\ Progress(r, k, w)
  BY Course
<1>2. Found(r) = f /\ Left(r) = left
  BY FoundLeft
<1>3. /\ op.kind \in Reads => ReadProgress(k, f, w)
      /\ op.kind = "mkdir" => MakeProgress(k, f, w)
      /\ op.kind = "delete" => DeleteProgress(k, f, w)
      /\ op.kind = "rename" => RenameProgress(k, f, w)
      /\ op.kind \in {"write", "upload"} => WriteProgress(r, k, f, w)
      /\ op.kind \in {"chmod", "chown"} => ChangeProgress(k, f, w)
      /\ op.kind = "edit" => EditProgress(k, f, w)
      /\ op.kind = "copy" => CopyProgress(k, f, w)
  BY <1>1 DEF Progress
<1>4. k.at = "answer" /\ k.result = "ok"
  OBVIOUS
<1>5. IsTable(f) /\ IsTable(left)
      /\ (\A p \in DOMAIN f : Sight(f[p])) /\ (\A p \in DOMAIN left : Sight(left[p]))
  BY <1>1 DEF View
<1> HIDE DEF f, w
<1>6. CASE op.kind \in Reads
  <2>1. left = f
    BY <1>3, <1>6 DEF ReadProgress
  <2> QED
    BY <1>2, <1>6, <2>1 DEF Accomplished, Reads
<1>7. CASE op.kind = "mkdir"
  <2>1. left = Both(f, Dirs({op.path}))
    BY <1>3, <1>4, <1>7 DEF MakeProgress, Made
  <2> QED
    BY <1>2, <1>7, <2>1 DEF Accomplished, Reads
<1>8. CASE op.kind = "delete"
  <2>1. left = <<>>
    BY <1>3, <1>4, <1>8 DEF DeleteProgress
  <2> QED
    BY <1>2, <1>8, <2>1 DEF Accomplished, Reads
<1>9. CASE op.kind = "rename"
  <2>1. op.path \in DOMAIN f /\ op.to \notin DOMAIN f /\ left = Onto(f, op.path, op.to)
    BY <1>3, <1>4, <1>9 DEF RenameProgress
  <2> QED
    BY <1>2, <1>9, <2>1 DEF Accomplished, Reads
<1>10. CASE op.kind = "copy"
  <2>1. op.path \in DOMAIN f /\ op.to \notin DOMAIN f /\ left = Both(f, Copy(f, op.path, op.to))
    BY <1>3, <1>4, <1>10 DEF CopyProgress
  <2> QED
    BY <1>2, <1>10, <2>1 DEF Accomplished, Reads
<1>11. CASE op.kind \in {"write", "upload"}
  <2>1. /\ DOMAIN left = {op.path} /\ ~left[op.path].dir
        /\ left[op.path].content = Content(r, <<>>) /\ left[op.path].set \in TempSets(op, f, op.set)
    BY <1>3, <1>4, <1>11 DEF WriteProgress
  <2>2. left[op.path] = [dir |-> FALSE, content |-> Content(r, <<>>), set |-> left[op.path].set]
    <3> DEFINE seen == left[op.path]
    <3>1. Sight(seen) /\ ~seen.dir /\ seen.content = Content(r, <<>>)
      BY <1>5, <2>1
    <3> HIDE DEF seen
    <3>2. seen = [dir |-> seen.dir, content |-> seen.content, set |-> seen.set] /\ seen.dir = FALSE
      BY <3>1 DEF Sight
    <3>3. seen = [dir |-> FALSE, content |-> Content(r, <<>>), set |-> seen.set]
      BY <3>1, <3>2
    <3> QED
      BY <3>3 DEF seen
  <2>3. left[op.path].set \in IF Temp(op.path) \in DOMAIN f THEN SUBSET Attributes ELSE {op.set}
    BY <2>1 DEF TempSets
  <2>4. left[op.path] \in Written(r)
    BY <1>2, <2>2, <2>3 DEF Written
  <2> QED
    BY <1>2, <1>11, <2>1, <2>4 DEF Accomplished, Reads
<1>12. CASE op.kind \in {"chmod", "chown"}
  <2> DEFINE attribute == IF op.kind = "chmod" THEN "mode" ELSE "owner"
             after == [p \in DOMAIN f |-> WithSet(f[p], attribute)]
  <2>1. DOMAIN left = DOMAIN f /\ \A p \in DOMAIN f : left[p] = WithSet(f[p], attribute)
    BY <1>3, <1>4, <1>12 DEF ChangeProgress
  <2>2. left = after
    <3>1. IsTable(after) /\ DOMAIN after = DOMAIN left /\ \A p \in DOMAIN left : left[p] = after[p]
      BY <2>1 DEF IsTable
    <3> HIDE DEF after
    <3> QED
      BY <1>5, <3>1, TablesEqual
  <2>3. CASE op.kind = "chmod"
    BY <1>2, <2>2, <2>3 DEF Accomplished, Reads
  <2>4. CASE op.kind = "chown"
    BY <1>2, <2>2, <2>4 DEF Accomplished, Reads
  <2> QED
    BY <1>12, <2>3, <2>4
<1>13. CASE op.kind = "edit"
  <2> DEFINE p == k.file
             was == f[p].content
  <2> SUFFICES ASSUME ~RenamesNothing(r) PROVE Accomplished(r)
    OBVIOUS
  <2>1. /\ p \in DOMAIN f /\ left = [f EXCEPT ![p].content = k.edited]
        /\ \E doc \in applyChangesToYaml(was.services, op.changes) :
               doc.ok /\ k.edited = Content(was.text, doc.services)
    BY <1>3, <1>4, <1>13 DEF EditProgress
  <2>2. PICK doc \in applyChangesToYaml(was.services, op.changes) :
               doc.ok /\ k.edited = Content(was.text, doc.services)
    BY <2>1
  <2>3. p \in DOMAIN k.before /\ f[p] = k.before[p]
    BY <1>1, <2>1, FoundIs DEF f
  <2>4. DOMAIN op.changes.rename \subseteq DOMAIN was.services
    BY <1>13, <2>3 DEF RenamesNothing
  <2>5. IsFiniteSet(DOMAIN op.changes.rename)
    BY <1>1, <1>13, OperationsAssumption
  <2>6. doc.services = Meaning(was.services, op.changes)
    <3> DEFINE services == was.services
               changes == op.changes
    <3>1. /\ IsFiniteSet(DOMAIN changes.rename) /\ DOMAIN changes.rename \subseteq DOMAIN services
          /\ doc \in applyChangesToYaml(services, changes) /\ doc.ok
      BY <2>2, <2>4, <2>5
    <3> HIDE DEF services, changes
    <3>2. doc.services = Meaning(services, changes)
      BY <3>1, EditsMean
    <3> QED
      BY <3>2 DEF services, changes
  <2>7. k.edited = Content(f[p].content.text, Meaning(f[p].content.services, job[r].op.changes))
    BY <2>2, <2>6
  <2>8. [f EXCEPT ![p].content = k.edited] = EditedAt(f, p, r)
    <3> DEFINE content == k.edited
    <3>1. content = Content(f[p].content.text, Meaning(f[p].content.services, job[r].op.changes))
      BY <2>7
    <3>2. IsTable(f) /\ p \in DOMAIN f /\ Sight(f[p])
      BY <1>5, <2>1
    <3> HIDE DEF content, p
    <3>3. ContentAt(f, p, content) = EditedAt(f, p, r)
      BY <3>1, <3>2, EditedIs
    <3> QED
      BY <3>3 DEF content, ContentAt
  <2>9. left = [f EXCEPT ![p] = Edited(r, @)]
    BY <2>1, <2>8 DEF EditedAt
  <2> QED
    BY <1>2, <1>13, <2>1, <2>9 DEF Accomplished, Reads
<1> QED
  BY <1>1, <1>6, <1>7, <1>8, <1>9, <1>10, <1>11, <1>12, <1>13 DEF Kinds

LEMMA SparesAll ==
    ASSUME Isolated, OnCourse, NEW r \in Requests, Free(job[r]), job[r].at = "answer",
           job[r].result # "ok"
    PROVE  Spared(r)
<1> DEFINE k == job[r]
           op == k.op
           f == FoundBy(k)
           w == Scene(op, tree, data)
           left == LeftIn(w)
<1>1. /\ op \in Operations /\ op.kind \in Kinds /\ op.path \in Paths /\ op.to \in Paths
      /\ View(op, f) /\ View(op, left) /\ Progress(r, k, w)
  BY Course
<1>2. Found(r) = f /\ Left(r) = left
  BY FoundLeft
<1>3. /\ op.kind \in Reads => ReadProgress(k, f, w)
      /\ op.kind = "mkdir" => MakeProgress(k, f, w)
      /\ op.kind = "delete" => DeleteProgress(k, f, w)
      /\ op.kind = "rename" => RenameProgress(k, f, w)
      /\ op.kind \in {"write", "upload"} => WriteProgress(r, k, f, w)
      /\ op.kind \in {"chmod", "chown"} => ChangeProgress(k, f, w)
      /\ op.kind = "edit" => EditProgress(k, f, w)
      /\ op.kind = "copy" => CopyProgress(k, f, w)
  BY <1>1 DEF Progress
<1>4. k.at = "answer" /\ k.result # "ok"
  OBVIOUS
<1>5. IsTable(f) /\ IsTable(left) /\ \A p \in DOMAIN f : Sight(f[p])
  BY <1>1 DEF View
<1> HIDE DEF f, w
<1>6. CASE op.kind \in Reads
  <2>1. left = f
    BY <1>3, <1>6 DEF ReadProgress
  <2> QED
    BY <1>2, <1>6, <2>1 DEF Spared, Reads
<1>7. CASE op.kind = "mkdir"
  <2>1. left = f \/ Made(op, f, left)
    BY <1>3, <1>4, <1>7 DEF MakeProgress
  <2>2. left \in {f, Dirs({op.path})}
    <3> HIDE DEF op, left
    <3> QED
      BY <1>1, <1>7, <2>1, MadeAgain
  <2> QED
    BY <1>2, <1>7, <2>2 DEF Spared, Reads
<1>8. CASE op.kind = "delete"
  <2>1. DOMAIN left \subseteq DOMAIN f /\ \A p \in DOMAIN left : left[p] = f[p]
    BY <1>3, <1>4, <1>8 DEF DeleteProgress
  <2> QED
    BY <1>2, <1>8, <2>1 DEF Spared, Reads
<1>9. CASE op.kind = "rename"
  <2>1. left \in WithParents(f, op.to)
    BY <1>3, <1>4, <1>9 DEF RenameProgress
  <2> QED
    BY <1>2, <1>9, <2>1 DEF Spared, Reads
<1>10. CASE op.kind = "copy"
  <2> DEFINE q == op.to
  <2>1. \/ left = f
        \/ q \notin DOMAIN f /\ Elsewhere(left, q) \in WithParents(f, q)
    BY <1>3, <1>4, <1>10 DEF CopyProgress
  <2>2. q \in Paths /\ On(op, q)
    BY <1>1, <1>10, OnItsPaths
  <2> HIDE DEF q
  <2>3. IsTable(Elsewhere(f, q))
    BY ElseIs
  <2>4. Elsewhere(f, q) \in WithParents(Elsewhere(f, q), q)
    BY <2>2, <2>3, ParentsMayBeNone
  <2>5. q \notin DOMAIN f => Elsewhere(f, q) = f
    BY <1>1, <2>2, NothingThere
  <2>6. /\ Elsewhere(left, q) \in WithParents(Elsewhere(f, q), q)
        /\ q \in DOMAIN f => left = f
    BY <2>1, <2>4, <2>5
  <2> QED
    BY <1>2, <1>10, <2>6 DEF Spared, Reads, q
<1>11. CASE op.kind \in {"write", "upload"}
  <2> DEFINE temp == Temp(op.path)
  <2>1. \/ Elsewhere(left, temp) = Elsewhere(f, temp)
        \/ DOMAIN Elsewhere(left, temp) = {op.path} /\ left[op.path].content = Content(r, <<>>)
    BY <1>3, <1>4, <1>11 DEF WriteProgress
  <2>2. \A x \in DOMAIN Elsewhere(left, temp) : Elsewhere(left, temp)[x] = left[x]
    BY ElseIs
  <2>3. \/ Elsewhere(left, temp) = Elsewhere(f, temp)
        \/ DOMAIN Elsewhere(left, temp) = {op.path}
               /\ Elsewhere(left, temp)[op.path].content = Content(r, <<>>)
    BY <2>1, <2>2
  <2> QED
    BY <1>2, <1>11, <2>3 DEF Spared, Reads
<1>12. CASE op.kind \in {"chmod", "chown"}
  <2>1. DOMAIN left = DOMAIN f
        /\ \A p \in DOMAIN f : \E attribute : left[p] \in {f[p], WithSet(f[p], attribute)}
    BY <1>3, <1>12 DEF ChangeProgress
  <2>2. \A p \in DOMAIN f : \A attribute : WithSet(f[p], attribute).content = f[p].content
    BY <1>5, WithSetIs
  <2>3. \A p \in DOMAIN left : left[p].content = f[p].content
    BY <2>1, <2>2
  <2> QED
    BY <1>2, <1>12, <2>1, <2>3 DEF Spared, Reads
<1>13. CASE op.kind = "edit"
  <2>1. left = f \/ left = [f EXCEPT ![k.file].content = Torn]
    BY <1>3, <1>4, <1>13 DEF EditProgress
  <2> QED
    BY <1>2, <1>13, <2>1 DEF Spared, Reads
<1> QED
  BY <1>1, <1>6, <1>7, <1>8, <1>9, <1>10, <1>11, <1>12, <1>13 DEF Kinds

LEMMA GivesWhatWas ==
    ASSUME Isolated, OnCourse, NEW r \in Requests, ~job[r].hindered, Given(r)
    PROVE  job[r].edited = job[r].before[job[r].op.path].content
<1>1. /\ Free(job[r]) /\ job[r].in # Dir /\ job[r].op.kind \in Reads
  BY DEF Given, At, Free, Reads
<1> DEFINE op == job[r].op
           f == FoundBy(job[r])
           w == Scene(op, tree, data)
           path == op.path
<1>2. Seen(job[r].before) /\ Progress(r, job[r], w)
  BY <1>1, Course
<1>3. ReadProgress(job[r], f, w)
  BY <1>1, <1>2 DEF Progress
<1> HIDE DEF w
<1>4. /\ LeftIn(w) = f /\ path \in DOMAIN w /\ job[r].edited = f[path].content
  BY <1>1, <1>3 DEF ReadProgress
<1>5. path \in DOMAIN f
  BY <1>4 DEF LeftIn
<1>6. f[path] = job[r].before[path]
  BY <1>2, <1>5, FoundIs
<1> QED
  BY <1>4, <1>6

(***************************************************************************)
(* A request on files (files/service.go, composeeditor/service.go) that    *)
(* works on no path that another one works on at the same time does all    *)
(* that it was asked to do if it answers ok, and spares what was there if  *)
(* it answers an error; a reader gets what was there when it began.  The   *)
(* exceptions are those that UnhinderedIsAtomic names.                     *)
(***************************************************************************)
THEOREM RequestsAreAtomic == StackSpec => []UnhinderedIsAtomic
<1>1. Isolated /\ OnCourse => UnhinderedIsAtomic
  <2> SUFFICES ASSUME Isolated, OnCourse, NEW r \in Requests, ~job[r].hindered PROVE Atomic(r)
    BY DEF UnhinderedIsAtomic, Atomic
  <2>1. job[r].at = "answer" => Free(job[r])
    BY DEF Free
  <2>2. job[r].at = "answer" =>
            IF job[r].result = "ok" THEN Accomplished(r) \/ RenamesNothing(r) ELSE Spared(r)
    BY <2>1, DoesAll, SparesAll
  <2>3. Given(r) => job[r].edited = job[r].before[job[r].op.path].content
    BY GivesWhatWas
  <2> QED
    BY <2>2, <2>3 DEF Atomic
<1> QED
  BY <1>1, IsolatedHolds, OnCourseHolds, PTL
================================================================================
