----------------------------- MODULE TerminalProofs -----------------------------
(***************************************************************************)
(* Proofs about Terminal, for any number of messages and of chunks: the    *)
(* frames of the four goroutines that share the websocket reach the client *)
(* in the order of their numbers, and the shell's output reaches it in the *)
(* order it was written, all of it before the end of the session.          *)
(***************************************************************************)
EXTENDS Terminal, SequenceTheorems, TLAPS

Labels ==
    {"none", "read", "find", "create", "creating", "bindOutput", "bindClose", "input",
     "enter", "terminate", "sleep", "gone", "fetch", "call", "write", "log", "close",
     "shut", "wait", "done"}
Kinds == {"error", "success", "output", "warning", "close"}
Session == [registered : BOOLEAN, closed : BOOLEAN, hijack : {"none", "open", "closed"},
            onOutput : BOOLEAN, onClose : BOOLEAN, closedBy : Actors \cup {"nobody"}]
Shell == [state : {"none", "running", "exited"}, out : Nat, taken : Nat, early : Nat]
Frame == [by : Actors, kind : Kinds, chunk : Nat, seq : Nat,
          turn : BOOLEAN, overtaken : BOOLEAN]

StateTypes ==
    /\ sock \in {"open", "closed"}
    /\ at \in [Actors -> Labels]
    /\ session \in Session
    /\ shell \in Shell

WireTypes ==
    /\ frames \in [sequence : Nat, callers : Seq(Frame)]
    /\ sent \in [next : Nat, chunk : Nat, end : BOOLEAN]

\* An actor that does not run yet is started by what only happens once.
Places ==
    /\ held = "none" => at["reader"] = "none" /\ at["warner"] = "none"
    /\ at["handler"] \in {"find", "create", "creating"} => held = "none"
    /\ at["closer"] # "none" => session.closed

\* Each actor that is writing has one frame, and one frame at most is at its turn.
Queue ==
    /\ \A i, j \in DOMAIN frames.callers :
          frames.callers[i].by = frames.callers[j].by => i = j
    /\ \A i \in DOMAIN frames.callers : at[frames.callers[i].by] = "write"
    /\ \A i, j \in DOMAIN frames.callers :
          frames.callers[i].turn /\ frames.callers[j].turn => i = j

\* A number that was given out was sent, or lost, or is that of the frame at its turn.
Numbers ==
    /\ sent.next <= frames.sequence
    /\ \A i \in DOMAIN frames.callers :
          frames.callers[i].turn =>
              /\ frames.callers[i].seq + 1 = frames.sequence
              /\ sent.next <= frames.callers[i].seq
    /\ sock = "open" =>
          \A n \in sent.next..frames.sequence - 1 :
              \/ n \in { f.seq : f \in lost }
              \/ \E i \in DOMAIN frames.callers :
                    frames.callers[i].turn /\ frames.callers[i].seq = n

State == StateTypes /\ Places
Wire == WireTypes /\ Queue /\ Numbers
IInv == State /\ Wire

Step == sent'.next # sent.next /\ Up' =>
            /\ sent'.next > sent.next
            /\ sent.next..sent'.next - 2 \subseteq { f.seq : f \in lost }

LEMMA InitIInv == Init => IInv
<1> SUFFICES ASSUME Init PROVE IInv
  OBVIOUS
<1>1. frames.sequence = 0 /\ frames.callers = << >> /\ frames \in [sequence : Nat, callers : Seq(Frame)]
  BY DEF Init, NoFrames
<1>2. Queue
  BY <1>1 DEF Queue
<1>3. Numbers
  BY <1>1 DEF Numbers, Init
<1>4. WireTypes
  BY <1>1 DEF WireTypes, Init
<1>5. StateTypes
  <2>1. at \in [Actors -> Labels]
    BY DEF Init, Labels
  <2>2. session \in Session
    BY DEF Init, NoSession, Session
  <2>3. shell \in Shell
    BY DEF Init, NoShell, Shell
  <2> QED
    BY <2>1, <2>2, <2>3 DEF Init, StateTypes
<1>6. Places
  BY DEF Init, Places, Actors
<1> QED
  BY <1>2, <1>3, <1>4, <1>5, <1>6 DEF IInv, State, Wire

LEMMA Callers ==
    ASSUME Wire
    PROVE  /\ frames.callers \in Seq(Frame) /\ frames.sequence \in Nat
           /\ Len(frames.callers) \in Nat
           /\ DOMAIN frames.callers = 1..Len(frames.callers)
           /\ \A i \in DOMAIN frames.callers :
                 frames.callers[i] \in Frame /\ frames.callers[i].by \in Actors
<1>1. frames.callers \in Seq(Frame) /\ frames.sequence \in Nat
  BY DEF Wire, WireTypes
<1>2. \A i \in DOMAIN frames.callers : frames.callers[i] \in Frame
  BY <1>1
<1> QED
  BY <1>1, <1>2 DEF Frame

--------------------------------------------------------------------------------
\* What the steps do to the frames.

\* A step that leaves the frames alone and takes no actor out of its write.
Quiet ==
    /\ wireVars' = wireVars
    /\ sock' \in {sock, "closed"}
    /\ \A b \in Actors : at[b] = "write" => at'[b] = "write"

LEMMA QuietKeepsWire == ASSUME Wire, Quiet PROVE Wire' /\ Step
<1>1. frames' = frames /\ sent' = sent /\ lost' = lost
  BY DEF Quiet, wireVars
<1>2. \A i \in DOMAIN frames.callers : frames.callers[i].by \in Actors
  BY Callers
<1>3. Queue'
  BY <1>1, <1>2 DEF Wire, Queue, Quiet
<1>4. Numbers'
  BY <1>1 DEF Wire, Numbers, Quiet
<1> QED
  BY <1>1, <1>3, <1>4 DEF Wire, WireTypes, Step

\* A caller that was not writing takes its place behind the others.
LEMMA CallKeepsWire ==
    ASSUME Wire, StateTypes,
           NEW a \in Actors, NEW kind \in Kinds, NEW chunk \in Nat,
           at[a] # "write", at' = [at EXCEPT ![a] = "write"],
           Call(a, kind, chunk), UNCHANGED <<sent, lost, sock>>
    PROVE  Wire' /\ Step
<1> DEFINE new == [by |-> a, kind |-> kind, chunk |-> chunk,
                   seq |-> 0, turn |-> FALSE, overtaken |-> FALSE]
           old == frames.callers
<1>1. new \in Frame
  BY DEF Frame
<1>2. old \in Seq(Frame) /\ frames.sequence \in Nat
  BY DEF Wire, WireTypes
<1>3. frames' = [frames EXCEPT !.callers = Append(old, new)]
  BY DEF Call
<1>4. frames'.callers = Append(old, new) /\ frames'.sequence = frames.sequence
  BY <1>3 DEF Wire, WireTypes
<1>5. WireTypes'
  BY <1>1, <1>2, <1>3 DEF Wire, WireTypes
<1>6. /\ DOMAIN frames'.callers = 1..Len(old) + 1
      /\ \A i \in 1..Len(old) : frames'.callers[i] = old[i]
      /\ frames'.callers[Len(old) + 1] = new
      /\ DOMAIN old = 1..Len(old) /\ Len(old) \in Nat
  BY <1>1, <1>2, <1>4
<1>7. \A i \in DOMAIN old : old[i] \in Frame /\ old[i].by # a
  BY <1>2 DEF Wire, Queue
<1> HIDE DEF new, old
<1>8. new.by = a /\ ~new.turn
  BY DEF new
<1>9. \A i \in DOMAIN frames'.callers :
          IF i = Len(old) + 1 THEN frames'.callers[i] = new
                              ELSE i \in DOMAIN old /\ frames'.callers[i] = old[i]
  BY <1>6
<1>10. Queue'
  <2>1. \A i, j \in DOMAIN frames'.callers :
            frames'.callers[i].by = frames'.callers[j].by => i = j
    BY <1>7, <1>8, <1>9 DEF Wire, Queue, old
  <2>2. \A i \in DOMAIN frames'.callers : at'[frames'.callers[i].by] = "write"
    BY <1>7, <1>8, <1>9 DEF Wire, Queue, old, StateTypes, Frame
  <2>3. \A i, j \in DOMAIN frames'.callers :
            frames'.callers[i].turn /\ frames'.callers[j].turn => i = j
    BY <1>8, <1>9 DEF Wire, Queue, old
  <2> QED
    BY <2>1, <2>2, <2>3 DEF Queue
<1>11. Numbers'
  <2>1. \A i \in DOMAIN frames'.callers :
            frames'.callers[i].turn => i \in DOMAIN old /\ frames'.callers[i] = old[i]
    BY <1>8, <1>9
  <2>2. \A i \in DOMAIN old : i \in DOMAIN frames'.callers /\ frames'.callers[i] = old[i]
    BY <1>6
  <2> QED
    BY <1>4, <2>1, <2>2 DEF Wire, Numbers, old
<1> QED
  BY <1>5, <1>10, <1>11 DEF Wire, Step

\* The caller that takes its turn is given the next number.
LEMMA SendKeepsWire ==
    ASSUME Wire, NEW a \in Actors, SendTyped(a)
    PROVE  Wire' /\ Step
<1> DEFINE old == frames.callers
           k == CallOf(a)
<1>1. PICK i \in DOMAIN old : old[i].by = a /\ ~old[i].turn
  BY DEF SendTyped, Wrap
<1>2. k \in DOMAIN old /\ old[k].by = a
  BY <1>1 DEF CallOf
<1>3. \A j \in DOMAIN old : ~old[j].turn
  BY DEF SendTyped
<1>4. old \in Seq(Frame) /\ frames.sequence \in Nat /\ DOMAIN old = 1..Len(old) /\ Len(old) \in Nat
      /\ \A j \in DOMAIN old : old[j] \in Frame
  BY Callers
<1>5. frames' = [sequence |-> frames.sequence + 1,
                 callers |-> [j \in DOMAIN old |->
                     IF j = k THEN [old[j] EXCEPT !.seq = frames.sequence, !.turn = TRUE]
                              ELSE [old[j] EXCEPT !.overtaken = @ \/ j < k]]]
  BY DEF SendTyped, Wrap
<1> HIDE DEF old, k
<1>6. /\ frames'.sequence = frames.sequence + 1
      /\ DOMAIN frames'.callers = DOMAIN old
      /\ \A j \in DOMAIN old :
            frames'.callers[j] = IF j = k THEN [old[j] EXCEPT !.seq = frames.sequence, !.turn = TRUE]
                                          ELSE [old[j] EXCEPT !.overtaken = @ \/ j < k]
  BY <1>5
<1>7. ASSUME NEW j \in DOMAIN old
      PROVE  /\ frames'.callers[j] \in Frame
             /\ frames'.callers[j].by = old[j].by
             /\ j = k => frames'.callers[j].turn = TRUE /\ frames'.callers[j].seq = frames.sequence
             /\ j # k => frames'.callers[j].turn = FALSE
  <2>1. old[j] \in Frame /\ old[j].turn = FALSE
    BY <1>3, <1>4 DEF Frame
  <2>2. CASE j = k
    <3>1. frames'.callers[j] = [old[j] EXCEPT !.seq = frames.sequence, !.turn = TRUE]
      BY <1>6, <2>2
    <3> QED
      BY <1>4, <2>1, <2>2, <3>1 DEF Frame
  <2>3. CASE j # k
    <3>1. frames'.callers[j] = [old[j] EXCEPT !.overtaken = @ \/ j < k]
      BY <1>6, <2>3
    <3>2. PICK o \in BOOLEAN : frames'.callers[j] = [old[j] EXCEPT !.overtaken = o]
      BY <3>1
    <3> QED
      BY <2>1, <2>3, <3>2 DEF Frame
  <2> QED
    BY <2>2, <2>3
<1>8. frames'.callers \in Seq(Frame)
  <2>1. frames'.callers \in [1..Len(old) -> Frame]
    BY <1>4, <1>5, <1>7
  <2> QED
    BY <1>4, <2>1
<1>9. sent' = sent /\ lost' = lost /\ at' = at /\ sock' = sock
  BY DEF SendTyped, Wrap
<1>10. WireTypes'
  <2>1. frames' \in [sequence : Nat, callers : Seq(Frame)]
    <3> DEFINE callers == [j \in DOMAIN old |->
                     IF j = k THEN [old[j] EXCEPT !.seq = frames.sequence, !.turn = TRUE]
                              ELSE [old[j] EXCEPT !.overtaken = @ \/ j < k]]
    <3>1. frames' = [sequence |-> frames.sequence + 1, callers |-> callers]
      BY <1>5
    <3> HIDE DEF callers
    <3>2. callers \in Seq(Frame) /\ frames.sequence + 1 \in Nat
      BY <1>4, <1>8, <3>1
    <3> QED
      BY <3>1, <3>2
  <2> QED
    BY <1>9, <2>1 DEF Wire, WireTypes
<1>11. Queue'
  <2>1. \A j \in DOMAIN old : frames'.callers[j].by = old[j].by /\ (frames'.callers[j].turn => j = k)
    BY <1>7
  <2>2. /\ \A i1, j \in DOMAIN old : old[i1].by = old[j].by => i1 = j
        /\ \A j \in DOMAIN old : at[old[j].by] = "write"
    BY DEF Wire, Queue, old
  <2>3. DOMAIN frames'.callers = DOMAIN old
    BY <1>6
  <2> QED
    BY <1>9, <2>1, <2>2, <2>3 DEF Queue
<1>12. Numbers'
  <2>1. sent.next \in Nat /\ sent.next <= frames.sequence
    BY DEF Wire, WireTypes, Numbers
  <2>2. ASSUME sock = "open", NEW n \in sent.next..frames.sequence - 1
        PROVE  n \in { f.seq : f \in lost }
    BY <1>3, <2>2 DEF Wire, Numbers, old
  <2>3. \A j \in DOMAIN frames'.callers :
            frames'.callers[j].turn =>
                frames'.callers[j].seq + 1 = frames'.sequence /\ sent'.next <= frames'.callers[j].seq
    BY <1>4, <1>6, <1>7, <1>9, <2>1
  <2>4. ASSUME sock' = "open", NEW n \in sent'.next..frames'.sequence - 1
        PROVE  \/ n \in { f.seq : f \in lost' }
               \/ \E j \in DOMAIN frames'.callers :
                     frames'.callers[j].turn /\ frames'.callers[j].seq = n
    <3>1. CASE n = frames.sequence
      BY <1>2, <1>6, <1>7, <3>1 DEF old
    <3>2. CASE n # frames.sequence
      <4>1. sent'.next = sent.next /\ frames'.sequence = frames.sequence + 1
            /\ frames.sequence \in Nat /\ sock = "open"
        BY <1>4, <1>6, <1>9, <2>4
      <4>2. n \in sent.next..frames.sequence - 1
        BY <2>1, <3>2, <4>1
      <4> QED
        BY <1>9, <2>2, <4>1, <4>2
    <3> QED
      BY <3>1, <3>2
  <2> QED
    <3>1. sent'.next <= frames'.sequence
      <4>1. /\ sent'.next = sent.next /\ frames'.sequence = frames.sequence + 1
            /\ frames.sequence \in Nat
        BY <1>4, <1>6, <1>9
      <4> QED
        BY <2>1, <4>1
    <3> QED
      BY <2>3, <2>4, <3>1 DEF Numbers
<1> QED
  BY <1>9, <1>10, <1>11, <1>12 DEF Wire, Step

\* The frame of a caller leaves the queue.
LEMMA Removed ==
    ASSUME NEW q \in Seq(Frame), NEW k \in DOMAIN q
    PROVE  /\ RemoveAt(q, k) \in Seq(Frame)
           /\ \A i \in DOMAIN RemoveAt(q, k) :
                 \E j \in DOMAIN q :
                    j # k /\ RemoveAt(q, k)[i] = q[j] /\ j = IF i < k THEN i ELSE i + 1
<1>1. /\ Len(q) \in Nat /\ DOMAIN q = 1..Len(q) /\ k \in 1..Len(q)
      /\ \A i \in 1..Len(q) : q[i] \in Frame
  OBVIOUS
<1> DEFINE left == SubSeq(q, 1, k - 1)
           right == SubSeq(q, k + 1, Len(q))
<1>2. /\ left \in Seq(Frame) /\ Len(left) = k - 1
      /\ \A i \in 1..k - 1 : left[i] = q[i]
  <2>1. 1 \in 1..Len(q) + 1 /\ k - 1 \in 1 - 1..Len(q)
    BY <1>1
  <2>2. /\ left \in Seq(Frame)
        /\ Len(left) = IF 1 <= k - 1 THEN (k - 1) - 1 + 1 ELSE 0
        /\ \A i \in 1..(k - 1) - 1 + 1 : left[i] = q[1 + i - 1]
    BY <2>1, SubSeqProperties
  <2> HIDE DEF left
  <2>3. Len(left) = k - 1
    BY <1>1, <2>2
  <2>4. ASSUME NEW i \in 1..k - 1 PROVE left[i] = q[i]
    <3>1. i \in 1..(k - 1) - 1 + 1 /\ 1 + i - 1 = i
      BY <1>1
    <3> QED
      BY <3>1, <2>2
  <2> QED
    BY <2>2, <2>3, <2>4
<1>3. /\ right \in Seq(Frame) /\ Len(right) = Len(q) - k
      /\ \A i \in 1..Len(q) - k : right[i] = q[k + i]
  <2>1. k + 1 \in 1..Len(q) + 1 /\ Len(q) \in (k + 1) - 1..Len(q)
    BY <1>1
  <2>2. /\ right \in Seq(Frame)
        /\ Len(right) = IF k + 1 <= Len(q) THEN Len(q) - (k + 1) + 1 ELSE 0
        /\ \A i \in 1..Len(q) - (k + 1) + 1 : right[i] = q[(k + 1) + i - 1]
    BY <2>1, SubSeqProperties
  <2> HIDE DEF right
  <2>3. Len(right) = Len(q) - k
    BY <1>1, <2>2
  <2>4. ASSUME NEW i \in 1..Len(q) - k PROVE right[i] = q[k + i]
    <3>1. i \in 1..Len(q) - (k + 1) + 1 /\ (k + 1) + i - 1 = k + i
      BY <1>1
    <3> QED
      BY <3>1, <2>2
  <2> QED
    BY <2>2, <2>3, <2>4
<1> HIDE DEF left, right
<1>4. /\ left \o right \in Seq(Frame) /\ Len(left \o right) = Len(q) - 1
      /\ DOMAIN (left \o right) = 1..Len(q) - 1
      /\ \A i \in 1..Len(q) - 1 : (left \o right)[i] = IF i < k THEN left[i] ELSE right[i - (k - 1)]
  <2>1. /\ left \o right \in Seq(Frame)
        /\ Len(left \o right) = Len(left) + Len(right)
        /\ \A i \in 1..Len(left) + Len(right) :
              (left \o right)[i] = IF i <= Len(left) THEN left[i] ELSE right[i - Len(left)]
    BY <1>2, <1>3, ConcatProperties
  <2>2. Len(left) + Len(right) = Len(q) - 1
    BY <1>1, <1>2, <1>3
  <2>3. DOMAIN (left \o right) = 1..Len(left \o right)
    BY <2>1
  <2>4. \A i \in 1..Len(q) - 1 :
            (left \o right)[i] = IF i <= k - 1 THEN left[i] ELSE right[i - (k - 1)]
    BY <1>2, <2>1, <2>2
  <2>5. \A i \in 1..Len(q) - 1 : i <= k - 1 <=> i < k
    BY <1>1
  <2> QED
    BY <2>1, <2>2, <2>3, <2>4, <2>5
<1>5. ASSUME NEW i \in 1..Len(q) - 1
      PROVE  \E j \in DOMAIN q :
                j # k /\ (left \o right)[i] = q[j] /\ j = IF i < k THEN i ELSE i + 1
  <2>1. CASE i < k
    <3>1. i \in 1..k - 1 /\ i \in 1..Len(q) /\ i # k
      BY <1>1, <2>1
    <3>2. (left \o right)[i] = q[i]
      BY <1>2, <1>4, <2>1, <3>1
    <3> QED
      BY <1>1, <2>1, <3>1, <3>2
  <2>2. CASE ~(i < k)
    <3>1. i - (k - 1) \in 1..Len(q) - k /\ k + (i - (k - 1)) = i + 1 /\ i + 1 \in 1..Len(q) /\ i + 1 # k
      BY <1>1, <2>2
    <3>2. (left \o right)[i] = q[i + 1]
      BY <1>3, <1>4, <2>2, <3>1
    <3> QED
      BY <1>1, <2>2, <3>1, <3>2
  <2> QED
    BY <2>1, <2>2
<1> QED
  BY <1>4, <1>5 DEF RemoveAt, left, right

\* What is known of the frame that is at its turn when its write ends.
LEMMA TurnEnds ==
    ASSUME Wire, StateTypes, NEW a \in Actors, AtTurn(a), NEW ok \in BOOLEAN, EndTurn(a, ok)
    PROVE  /\ frames' \in [sequence : Nat, callers : Seq(Frame)]
           /\ Queue'
           /\ \A i \in DOMAIN frames'.callers : ~frames'.callers[i].turn
           /\ frames'.sequence = frames.sequence
           /\ CallOf(a) \in DOMAIN frames.callers
           /\ frames.callers[CallOf(a)] \in Frame
           /\ frames.callers[CallOf(a)].turn
           /\ frames.callers[CallOf(a)].by = a
           /\ \A i \in DOMAIN frames'.callers :
                 \E j \in DOMAIN frames.callers : frames'.callers[i] = frames.callers[j]
           /\ at[a] = "write"
<1> DEFINE old == frames.callers
           k == CallOf(a)
           new == RemoveAt(old, k)
<1>1. PICK i \in DOMAIN old : old[i].by = a /\ old[i].turn
  BY DEF AtTurn
<1>2. k \in DOMAIN old /\ old[k].by = a
  BY <1>1 DEF CallOf
<1>3. old[k].turn /\ k = i /\ at[a] = "write"
  BY <1>1, <1>2 DEF Wire, Queue
<1>4. old \in Seq(Frame) /\ frames.sequence \in Nat /\ old[k] \in Frame
  BY <1>2, Callers
<1>5. frames' = [frames EXCEPT !.callers = new]
  BY DEF EndTurn
<1>6. \E l \in Labels : at' = [at EXCEPT ![a] = l]
  BY DEF EndTurn, GoTo, Labels
<1> HIDE DEF new, k, old
<1>7. /\ new \in Seq(Frame)
      /\ \A m \in DOMAIN new : \E j \in DOMAIN old :
            j # k /\ new[m] = old[j] /\ j = IF m < k THEN m ELSE m + 1
  BY <1>2, <1>4, Removed DEF new
<1>8. frames'.callers = new /\ frames'.sequence = frames.sequence
      /\ frames' \in [sequence : Nat, callers : Seq(Frame)]
  BY <1>5, <1>7 DEF Wire, WireTypes
<1>9. \A m \in DOMAIN new : new[m].by # a /\ new[m].by \in Actors /\ at[new[m].by] = "write" /\ ~new[m].turn
  BY <1>2, <1>3, <1>7, Callers DEF Wire, Queue, old
<1>10. Queue'
  <2>1. \A m, n \in DOMAIN new : new[m].by = new[n].by => m = n
    <3> SUFFICES ASSUME NEW m \in DOMAIN new, NEW n \in DOMAIN new, new[m].by = new[n].by
                 PROVE  m = n
      OBVIOUS
    <3>1. PICK j1 \in DOMAIN old : j1 # k /\ new[m] = old[j1] /\ j1 = IF m < k THEN m ELSE m + 1
      BY <1>7
    <3>2. PICK j2 \in DOMAIN old : j2 # k /\ new[n] = old[j2] /\ j2 = IF n < k THEN n ELSE n + 1
      BY <1>7
    <3>3. j1 = j2
      BY <3>1, <3>2 DEF Wire, Queue, old
    <3>4. m \in Nat /\ n \in Nat /\ k \in Nat
      BY <1>2, <1>4, <1>7
    <3> QED
      BY <3>1, <3>2, <3>3, <3>4
  <2>2. \A m \in DOMAIN new : at'[new[m].by] = "write"
    BY <1>6, <1>9 DEF StateTypes
  <2> QED
    BY <1>8, <1>9, <2>1, <2>2 DEF Queue
<1> QED
  BY <1>2, <1>3, <1>4, <1>7, <1>8, <1>9, <1>10 DEF old, k

LEMMA DeliverKeepsWire ==
    ASSUME Wire, StateTypes, NEW a \in Actors, Deliver(a)
    PROVE  Wire' /\ Step
<1> DEFINE frame == frames.callers[CallOf(a)]
<1>1. /\ frames' \in [sequence : Nat, callers : Seq(Frame)]
      /\ Queue'
      /\ \A i \in DOMAIN frames'.callers : ~frames'.callers[i].turn
      /\ frames'.sequence = frames.sequence
      /\ CallOf(a) \in DOMAIN frames.callers
      /\ frame \in Frame /\ frame.turn
  BY TurnEnds DEF Deliver
<1>2. sent' = [next |-> frame.seq + 1, end |-> frame.kind = "close",
               chunk |-> IF frame.kind = "output" THEN frame.chunk ELSE sent.chunk]
  BY DEF Deliver
<1>3. sock = "open" /\ sock' = sock /\ lost' = lost
  BY DEF Deliver
<1>4. frame.seq + 1 = frames.sequence /\ sent.next <= frame.seq
  BY <1>1 DEF Wire, Numbers
<1>5. \A i \in DOMAIN frames.callers : frames.callers[i].turn => frames.callers[i].seq = frame.seq
  BY <1>1 DEF Wire, Queue
<1>6. \A n \in sent.next..frames.sequence - 1 : n \in { f.seq : f \in lost } \/ n = frame.seq
  BY <1>3, <1>5 DEF Wire, Numbers
<1>7. sent.next \in Nat /\ sent.chunk \in Nat /\ frames.sequence \in Nat
  BY DEF Wire, WireTypes
<1> HIDE DEF frame
<1>8. frame.seq \in Nat /\ frame.chunk \in Nat
  BY <1>1 DEF Frame
<1>9. sent'.next = frame.seq + 1 /\ sent' \in [next : Nat, chunk : Nat, end : BOOLEAN]
  BY <1>2, <1>7, <1>8
<1>10. sent'.next = frames'.sequence /\ sent'.next > sent.next
  BY <1>1, <1>4, <1>7, <1>8, <1>9
<1>11. Numbers'
  <2>1. sent'.next <= frames'.sequence /\ sent'.next..frames'.sequence - 1 = {}
    BY <1>1, <1>7, <1>10
  <2> QED
    BY <1>1, <2>1 DEF Numbers
<1>12. sent.next..sent'.next - 2 \subseteq { f.seq : f \in lost }
  <2> SUFFICES ASSUME NEW n \in sent.next..sent'.next - 2
               PROVE  n \in { f.seq : f \in lost }
    OBVIOUS
  <2>1. n \in sent.next..frames.sequence - 1 /\ n # frame.seq
    BY <1>4, <1>7, <1>8, <1>9
  <2> QED
    BY <1>6, <2>1
<1> QED
  BY <1>1, <1>9, <1>10, <1>11, <1>12 DEF Wire, WireTypes, Step

LEMMA DeliverFailsKeepsWire ==
    ASSUME Wire, StateTypes, NEW a \in Actors, DeliverFails(a)
    PROVE  Wire' /\ Step
<1>1. /\ frames' \in [sequence : Nat, callers : Seq(Frame)]
      /\ Queue'
      /\ \A i \in DOMAIN frames'.callers : ~frames'.callers[i].turn
      /\ frames'.sequence = frames.sequence
  BY TurnEnds DEF DeliverFails
<1>2. sock' = "closed" /\ sent' = sent /\ lost' = lost
  BY DEF DeliverFails
<1>3. Numbers'
  BY <1>1, <1>2 DEF Wire, Numbers
<1> QED
  BY <1>1, <1>2, <1>3 DEF Wire, WireTypes, Step

LEMMA DeliverLateKeepsWire ==
    ASSUME Wire, StateTypes, NEW a \in Actors, DeliverLate(a)
    PROVE  Wire' /\ Step
<1> DEFINE frame == frames.callers[CallOf(a)]
<1>1. /\ frames' \in [sequence : Nat, callers : Seq(Frame)]
      /\ Queue'
      /\ \A i \in DOMAIN frames'.callers : ~frames'.callers[i].turn
      /\ frames'.sequence = frames.sequence
      /\ CallOf(a) \in DOMAIN frames.callers
      /\ frame \in Frame /\ frame.turn
  BY TurnEnds DEF DeliverLate
<1>2. lost' = lost \cup {[seq |-> frame.seq, kind |-> frame.kind, chunk |-> frame.chunk]}
  BY DEF DeliverLate
<1>3. sock = "open" /\ sock' = sock /\ sent' = sent
  BY DEF DeliverLate
<1>4. \A i \in DOMAIN frames.callers : frames.callers[i].turn => frames.callers[i].seq = frame.seq
  BY <1>1 DEF Wire, Queue
<1>5. \A n \in sent.next..frames.sequence - 1 : n \in { f.seq : f \in lost } \/ n = frame.seq
  BY <1>3, <1>4 DEF Wire, Numbers
<1> HIDE DEF frame
<1>6. frame.seq \in { f.seq : f \in lost' } /\ \A n \in { f.seq : f \in lost } : n \in { f.seq : f \in lost' }
  <2> DEFINE late == [seq |-> frame.seq, kind |-> frame.kind, chunk |-> frame.chunk]
  <2>1. late.seq = frame.seq
    OBVIOUS
  <2>2. late \in lost' /\ \A f \in lost : f \in lost'
    BY <1>2
  <2> HIDE DEF late
  <2> QED
    BY <2>1, <2>2
<1>7. sent.next <= frames.sequence
  BY DEF Wire, Numbers
<1>8. Numbers'
  BY <1>1, <1>3, <1>5, <1>6, <1>7 DEF Numbers
<1> QED
  BY <1>1, <1>3, <1>8 DEF Wire, WireTypes, Step

--------------------------------------------------------------------------------
\* What the steps do to the actors.

\* One actor that runs goes on.
LEMMA MoveKeepsState ==
    ASSUME State, NEW a \in Actors, NEW l \in Labels,
           at[a] # "none", at' = [at EXCEPT ![a] = l],
           sock' \in {sock, "closed"}, shell' \in Shell,
           session' \in Session, session.closed => session'.closed,
           held' = held \/ (a = "handler" /\ held' # "none"),
           a = "handler" /\ l \in {"find", "create", "creating"} => held' = "none"
    PROVE  State'
<1>1. at \in [Actors -> Labels] /\ sock \in {"open", "closed"}
  BY DEF State, StateTypes
<1>2. at' \in [Actors -> Labels] /\ at'[a] = l /\ \A b \in Actors : b # a => at'[b] = at[b]
  BY <1>1
<1>3. "handler" \in Actors /\ "reader" \in Actors /\ "warner" \in Actors /\ "closer" \in Actors
  BY DEF Actors
<1>4. StateTypes'
  BY <1>1, <1>2 DEF StateTypes
<1>5. held' = "none" => at'["reader"] = "none" /\ at'["warner"] = "none"
  BY <1>2, <1>3 DEF State, Places
<1>6. at'["handler"] \in {"find", "create", "creating"} => held' = "none"
  BY <1>2, <1>3 DEF State, Places
<1>7. at'["closer"] # "none" => session'.closed
  BY <1>2, <1>3 DEF State, Places
<1> QED
  BY <1>4, <1>5, <1>6, <1>7 DEF State, Places

\* It leaves the frames alone,
LEMMA QuietMove ==
    ASSUME IInv, NEW a \in Actors, NEW l \in Labels,
           at[a] \notin {"none", "write"}, at' = [at EXCEPT ![a] = l], wireVars' = wireVars,
           sock' \in {sock, "closed"}, shell' \in Shell,
           session' \in Session, session.closed => session'.closed,
           held' = held \/ (a = "handler" /\ held' # "none"),
           a = "handler" /\ l \in {"find", "create", "creating"} => held' = "none"
    PROVE  IInv' /\ Step
<1>1. State'
  BY MoveKeepsState DEF IInv
<1>2. Quiet
  BY DEF Quiet, IInv, State, StateTypes
<1> QED
  BY <1>1, <1>2, QuietKeepsWire DEF IInv

\* or begins to write.
LEMMA CallMove ==
    ASSUME IInv, NEW a \in Actors, NEW kind \in Kinds, NEW chunk \in Nat,
           at[a] \notin {"none", "write"}, at' = [at EXCEPT ![a] = "write"],
           Call(a, kind, chunk), UNCHANGED <<sent, lost, sock, shell, held>>,
           session' \in Session, session.closed => session'.closed
    PROVE  IInv' /\ Step
<1>1. "write" \in Labels
  BY DEF Labels
<1>2. State /\ shell' \in Shell /\ sock' = sock /\ held' = held
  BY DEF IInv, State, StateTypes
<1>3. State'
  BY <1>1, <1>2, MoveKeepsState
<1>4. Wire' /\ Step
  BY CallKeepsWire DEF IInv, State
<1> QED
  BY <1>3, <1>4 DEF IInv

\* No actor moves.
LEMMA StillMove ==
    ASSUME IInv, UNCHANGED <<at, held, session, wireVars>>,
           shell' \in Shell, sock' \in {sock, "closed"}
    PROVE  IInv' /\ Step
<1>1. State'
  BY DEF IInv, State, StateTypes, Places
<1>2. Quiet
  BY DEF Quiet
<1> QED
  BY <1>1, <1>2, QuietKeepsWire DEF IInv

\* The process ends.
LEMMA EndMove == ASSUME NEW how, how # "up", EndProcess(how) PROVE IInv' /\ Step
<1>1. frames'.sequence = 0 /\ frames'.callers = << >> /\ frames' \in [sequence : Nat, callers : Seq(Frame)]
  BY DEF EndProcess, NoFrames
<1>2. Queue'
  BY <1>1 DEF Queue
<1>3. Numbers'
  BY <1>1 DEF Numbers, EndProcess
<1>4. WireTypes'
  BY <1>1 DEF WireTypes, EndProcess
<1>5. StateTypes'
  <2>1. at' \in [Actors -> Labels]
    BY DEF EndProcess, Labels
  <2>2. session' \in Session
    BY DEF EndProcess, NoSession, Session
  <2>3. shell' \in Shell
    BY DEF EndProcess, NoShell, Shell
  <2> QED
    BY <2>1, <2>2, <2>3 DEF EndProcess, StateTypes
<1>6. Places'
  BY DEF EndProcess, Places, Actors
<1>7. Step
  BY DEF EndProcess, Up, Step
<1> QED
  BY <1>2, <1>3, <1>4, <1>5, <1>6, <1>7 DEF IInv, State, Wire

\* The session is closed, or was: the goroutine that tells the client may start.
LEMMA CloseMove ==
    ASSUME IInv, NEW a \in {"handler", "reader"}, at[a] \notin {"none", "write"},
           closeSession(a), UNCHANGED <<sock, held, shell, wireVars>>
    PROVE  IInv' /\ Step
<1> USE DEF IInv, State
<1>1. a \in Actors /\ "closer" \in Actors /\ "terminate" \in Labels /\ "call" \in Labels
      /\ a # "closer"
  BY DEF Actors, Labels
<1>2. CASE session.closed
  <2>1. session' = session /\ at' = [at EXCEPT ![a] = "terminate"]
    BY <1>2 DEF closeSession, GoTo
  <2>2. session' \in Session /\ shell' \in Shell
    BY <2>1 DEF StateTypes
  <2> QED
    BY <1>1, <2>1, <2>2, QuietMove
<1>3. CASE ~session.closed
  <2>1. /\ session' = [session EXCEPT !.closed = TRUE, !.hijack = "closed", !.closedBy = a]
        /\ at' = [at EXCEPT ![a] = "terminate",
                            !["closer"] = IF session.onClose THEN "call" ELSE @]
    BY <1>3 DEF closeSession
  <2>2. session' \in Session /\ session'.closed
    BY <1>1, <2>1 DEF StateTypes, Session
  <2>3. at["closer"] = "none"
    BY <1>3 DEF Places
  <2>4. at' \in [Actors -> Labels] /\ at'[a] = "terminate"
        /\ \A b \in Actors : b # a /\ b # "closer" => at'[b] = at[b]
    BY <1>1, <2>1 DEF StateTypes
  <2>5. State'
    BY <1>1, <2>2, <2>4 DEF StateTypes, Places, Actors
  <2>6. Quiet
    BY <1>1, <2>3, <2>4 DEF Quiet, Actors
  <2> QED
    BY <2>5, <2>6, QuietKeepsWire
<1> QED
  BY <1>2, <1>3

--------------------------------------------------------------------------------
\* Every step keeps the invariant, and the frames in step.

LEMMA Facts ==
    /\ \A l \in {"read", "find", "create", "creating", "bindOutput", "bindClose", "input",
                 "enter", "terminate", "sleep", "gone", "fetch", "call", "write", "log",
                 "close", "shut", "wait", "done"} : l \in Labels
    /\ \A a \in {"handler", "reader", "warner", "closer"} : a \in Actors
    /\ IInv => shell \in Shell /\ session \in Session
BY DEF Labels, Actors, IInv, State, StateTypes

LEMMA ClientKeeps == ASSUME IInv, Client PROVE IInv' /\ Step
<1>1. CASE Refuse
  <2>1. /\ at["handler"] = "read" /\ at' = [at EXCEPT !["handler"] = "write"]
        /\ Call("handler", "error", 0)
        /\ UNCHANGED <<sent, lost, sock, shell, held, session>>
    BY <1>1 DEF Refuse, Message, At, Say, GoTo, sessionVars
  <2>2. "error" \in Kinds /\ 0 \in Nat
    BY DEF Kinds
  <2> QED
    BY <2>1, <2>2, Facts, CallMove
<1>2. CASE Start
  <2>1. /\ at["handler"] = "read" /\ at' = [at EXCEPT !["handler"] = "find"] /\ held = "none"
        /\ UNCHANGED <<wireVars, sock, shell, held, session>>
    BY <1>2 DEF Start, Message, At, GoTo, sessionVars
  <2> QED
    BY <2>1, Facts, QuietMove
<1>3. CASE Input
  <2>1. /\ at["handler"] = "read" /\ at' = [at EXCEPT !["handler"] = "input"]
        /\ UNCHANGED <<wireVars, sock, shell, held, session>>
    BY <1>3 DEF Input, Message, At, GoTo, sessionVars
  <2> QED
    BY <2>1, Facts, QuietMove
<1>4. CASE CloseMessage
  <2>1. /\ at["handler"] = "read" /\ held' = (IF held = "set" THEN "closing" ELSE held)
        /\ UNCHANGED <<wireVars, sock, shell, session>>
    BY <1>4 DEF CloseMessage, Message, At, sessionVars
  <2>2. \E l \in {"enter", "sleep"} : at' = [at EXCEPT !["handler"] = l]
    BY <1>4 DEF CloseMessage, GoTo
  <2> QED
    BY <2>1, <2>2, Facts, QuietMove
<1>5. CASE LoseConnection
  <2>1. sock' = "closed" /\ UNCHANGED <<at, held, session, wireVars, shell>>
    BY <1>5 DEF LoseConnection, handlerVars, sessionVars
  <2> QED
    BY <2>1, Facts, StillMove
<1> QED
  BY <1>1, <1>2, <1>3, <1>4, <1>5 DEF Client

LEMMA DockerKeeps == ASSUME IInv, Docker PROVE IInv' /\ Step
<1>1. CASE FindContainer
  <2>1. /\ at["handler"] = "find" /\ UNCHANGED <<sent, lost, sock, shell, held, session>>
    BY <1>1 DEF FindContainer, At, handlerVars, sessionVars
  <2>2. CASE GoTo("handler", "create") /\ UNCHANGED frames
    <3>1. held = "none"
      BY <2>1 DEF IInv, State, Places
    <3>2. wireVars' = wireVars /\ at' = [at EXCEPT !["handler"] = "create"]
      BY <2>1, <2>2 DEF wireVars, GoTo
    <3> QED
      BY <2>1, <3>1, <3>2, Facts, QuietMove
  <2>3. CASE Say("error")
    <3>1. /\ at' = [at EXCEPT !["handler"] = "write"] /\ Call("handler", "error", 0)
          /\ "error" \in Kinds /\ 0 \in Nat
      BY <2>3 DEF Say, GoTo, Kinds
    <3> QED
      BY <2>1, <3>1, Facts, CallMove
  <2> QED
    BY <1>1, <2>2, <2>3 DEF FindContainer
<1>2. CASE CreateSession
  <2>1. /\ at["handler"] = "creating" /\ held' = "set"
        /\ session' = [session EXCEPT !.registered = TRUE, !.hijack = "open"]
        /\ shell' = [shell EXCEPT !.state = "running"]
        /\ at' = [at EXCEPT !["handler"] = "bindOutput", !["reader"] = "read",
                            !["warner"] = "wait"]
        /\ UNCHANGED <<sock, wireVars>>
    BY <1>2 DEF CreateSession, At
  <2>2. at["reader"] = "none" /\ at["warner"] = "none"
    BY <2>1 DEF IInv, State, Places
  <2>3. at \in [Actors -> Labels] /\ sock \in {"open", "closed"} /\ session \in Session /\ shell \in Shell
    BY DEF IInv, State, StateTypes
  <2>4. /\ at' \in [Actors -> Labels] /\ at'["handler"] = "bindOutput"
        /\ at'["closer"] = at["closer"]
        /\ \A b \in Actors : at[b] = "write" => at'[b] = "write"
    BY <2>1, <2>2, <2>3, Facts DEF Actors
  <2>5. shell' \in Shell
    BY <2>1, <2>3 DEF Shell
  <2>6. session' \in Session /\ session'.closed = session.closed
    BY <2>1, <2>3 DEF Session
  <2>7. StateTypes'
    BY <2>1, <2>3, <2>4, <2>5, <2>6 DEF StateTypes
  <2>8. Places'
    BY <2>1, <2>4, <2>6 DEF IInv, State, Places
  <2>9. Quiet
    BY <2>1, <2>4 DEF Quiet
  <2> QED
    BY <2>7, <2>8, <2>9, QuietKeepsWire DEF IInv, State
<1>3. CASE CreateFails
  <2>1. /\ at["handler"] = "creating" /\ at' = [at EXCEPT !["handler"] = "write"]
        /\ Call("handler", "error", 0)
        /\ UNCHANGED <<sent, lost, sock, shell, held, session>>
    BY <1>3 DEF CreateFails, At, Say, GoTo, handlerVars
  <2>2. "error" \in Kinds /\ 0 \in Nat
    BY DEF Kinds
  <2> QED
    BY <2>1, <2>2, Facts, CallMove
<1>4. CASE InputTaken
  <2>1. /\ at["handler"] = "input" /\ at' = [at EXCEPT !["handler"] = "read"]
        /\ UNCHANGED <<wireVars, sock, shell, held, session>>
    BY <1>4 DEF InputTaken, At, GoTo, handlerVars, sessionVars
  <2> QED
    BY <2>1, Facts, QuietMove
<1>5. CASE ShellWrites
  <2>1. /\ shell' = [shell EXCEPT !.out = @ + 1]
        /\ UNCHANGED <<at, held, session, wireVars, sock>>
    BY <1>5 DEF ShellWrites, handlerVars, sessionVars
  <2>2. shell' \in Shell
    BY <2>1, Facts DEF Shell
  <2> QED
    BY <2>1, <2>2, StillMove
<1>6. CASE ShellExits
  <2>1. /\ shell' = [shell EXCEPT !.state = "exited"]
        /\ UNCHANGED <<at, held, session, wireVars, sock>>
    BY <1>6 DEF ShellExits, handlerVars, sessionVars
  <2>2. shell' \in Shell
    BY <2>1, Facts DEF Shell
  <2> QED
    BY <2>1, <2>2, StillMove
<1> QED
  BY <1>1, <1>2, <1>3, <1>4, <1>5, <1>6 DEF Docker

LEMMA HandlerKeeps == ASSUME IInv, Handler \/ BeginCreate \/ BeginClose PROVE IInv' /\ Step
<1>1. CASE SetOutputCallback
  <2>1. /\ at["handler"] = "bindOutput" /\ at' = [at EXCEPT !["handler"] = "bindClose"]
        /\ session' = [session EXCEPT !.onOutput = TRUE]
        /\ UNCHANGED <<wireVars, sock, shell, held>>
    BY <1>1 DEF SetOutputCallback, At, GoTo, handlerVars
  <2>2. session' \in Session /\ session'.closed = session.closed
    BY <2>1, Facts DEF Session
  <2> QED
    BY <2>1, <2>2, Facts, QuietMove
<1>2. CASE SetCloseCallback
  <2>1. /\ at["handler"] = "bindClose" /\ at' = [at EXCEPT !["handler"] = "write"]
        /\ session' = [session EXCEPT !.onClose = TRUE]
        /\ Call("handler", "success", 0) /\ UNCHANGED <<sent, lost, sock, shell, held>>
    BY <1>2 DEF SetCloseCallback, At, Say, GoTo, handlerVars
  <2>2. session' \in Session /\ session'.closed = session.closed
    BY <2>1, Facts DEF Session
  <2>3. "success" \in Kinds /\ 0 \in Nat
    BY DEF Kinds
  <2> QED
    BY <2>1, <2>2, <2>3, Facts, CallMove
<1>3. CASE InputFails
  <2>1. /\ at["handler"] = "input" /\ at' = [at EXCEPT !["handler"] = "write"]
        /\ Call("handler", "error", 0)
        /\ UNCHANGED <<sent, lost, sock, shell, held, session>>
    BY <1>3 DEF InputFails, At, Say, GoTo, handlerVars, sessionVars
  <2>2. "error" \in Kinds /\ 0 \in Nat
    BY DEF Kinds
  <2> QED
    BY <2>1, <2>2, Facts, CallMove
<1>4. CASE ReadFails
  <2>1. /\ at["handler"] = "read" /\ UNCHANGED <<wireVars, sock, shell, held, session>>
    BY <1>4 DEF ReadFails, At, handlerVars, sessionVars
  <2>2. \E l \in {"enter", "sleep"} : at' = [at EXCEPT !["handler"] = l]
    BY <1>4 DEF ReadFails, GoTo
  <2> QED
    BY <2>1, <2>2, Facts, QuietMove
<1>5. CASE EndClose
  <2>1. /\ at["handler"] = "terminate" /\ at' = [at EXCEPT !["handler"] = "sleep"]
        /\ session' = [session EXCEPT !.registered = FALSE]
        /\ held' = (IF held = "closing" THEN "cleared" ELSE held)
        /\ UNCHANGED <<wireVars, sock, shell>>
    BY <1>5 DEF EndClose, At, GoTo
  <2>2. session' \in Session /\ session'.closed = session.closed
    BY <2>1, Facts DEF Session
  <2> QED
    BY <2>1, <2>2, Facts, QuietMove
<1>6. CASE Return
  <2>1. /\ at["handler"] = "sleep" /\ at' = [at EXCEPT !["handler"] = "gone"]
        /\ sock' = "closed" /\ UNCHANGED <<wireVars, shell, held, session>>
    BY <1>6 DEF Return, At, GoTo, handlerVars, sessionVars
  <2> QED
    BY <2>1, Facts, QuietMove
<1>7. CASE BeginCreate
  <2>1. /\ at["handler"] = "create" /\ at' = [at EXCEPT !["handler"] = "creating"]
        /\ UNCHANGED <<wireVars, sock, shell, held, session>>
    BY <1>7 DEF BeginCreate, At, GoTo, handlerVars
  <2>2. held' = "none"
    BY <2>1 DEF IInv, State, Places
  <2> QED
    BY <2>1, <2>2, Facts, QuietMove
<1>8. CASE BeginClose
  <2>1. /\ at["handler"] = "enter" /\ closeSession("handler")
        /\ UNCHANGED <<sock, held, shell, wireVars>>
    BY <1>8 DEF BeginClose, At, handlerVars
  <2> QED
    BY <2>1, CloseMove
<1> QED
  BY <1>1, <1>2, <1>3, <1>4, <1>5, <1>6, <1>7, <1>8 DEF Handler

LEMMA WriteKeeps == ASSUME IInv, NEW a \in Actors, Write(a) PROVE IInv' /\ Step
<1>1. PICK ok \in BOOLEAN : AtTurn(a) /\ EndTurn(a, ok) /\ sock' \in {sock, "closed"}
  BY DEF Write, Deliver, DeliverFails, DeliverLate
<1>2. at[a] = "write" /\ "none" # "write"
  BY <1>1, TurnEnds DEF IInv, State
<1>3. PICK l \in {"read", "shut", "log", "done"} : at' = [at EXCEPT ![a] = l]
  BY <1>1 DEF EndTurn, GoTo
<1>4. shell' = shell /\ session' = session /\ held' = held
  BY <1>1 DEF EndTurn, handlerVars, sessionVars
<1>5. State'
  BY <1>1, <1>2, <1>3, <1>4, Facts, MoveKeepsState DEF IInv
<1>6. Wire' /\ Step
  BY DeliverKeepsWire, DeliverFailsKeepsWire, DeliverLateKeepsWire DEF Write, IInv, State
<1> QED
  BY <1>5, <1>6 DEF IInv

LEMMA GoroutineKeeps == ASSUME IInv, NEW a \in Actors, Goroutine(a) PROVE IInv' /\ Step
<1>1. CASE CallOutput(a)
  <2>1. /\ at[a] = "call" /\ at' = [at EXCEPT ![a] = "write"]
        /\ UNCHANGED <<sent, lost, sock, shell, held, session>>
    BY <1>1 DEF CallOutput, At, GoTo, handlerVars, sessionVars
  <2>2. Call(a, "output", shell.taken) \/ Call(a, "warning", 0)
    BY <1>1 DEF CallOutput
  <2>3. "output" \in Kinds /\ "warning" \in Kinds /\ 0 \in Nat /\ shell.taken \in Nat
    BY Facts DEF Kinds, Shell
  <2> QED
    BY <2>1, <2>2, <2>3, Facts, CallMove
<1>2. CASE LogFailure(a)
  <2>1. /\ at[a] = "log" /\ a # "handler" /\ UNCHANGED <<wireVars, sock, shell, held, session>>
    BY <1>2 DEF LogFailure, At, handlerVars, sessionVars
  <2>2. \E l \in {"read", "done"} : at' = [at EXCEPT ![a] = l]
    BY <1>2 DEF LogFailure, GoTo
  <2> QED
    BY <2>1, <2>2, Facts, QuietMove
<1>3. CASE ReadOutput
  <2>1. /\ at["reader"] = "read" /\ at' = [at EXCEPT !["reader"] = "fetch"]
        /\ shell' = [shell EXCEPT !.taken = @ + 1]
        /\ UNCHANGED <<wireVars, sock, held, session>>
    BY <1>3 DEF ReadOutput, At, GoTo, handlerVars, sessionVars
  <2>2. shell' \in Shell
    BY <2>1, Facts DEF Shell
  <2> QED
    BY <2>1, <2>2, Facts, QuietMove
<1>4. CASE FetchCallback
  <2>1. /\ at["reader"] = "fetch" /\ UNCHANGED <<wireVars, sock, held, session>>
    BY <1>4 DEF FetchCallback, At, handlerVars, sessionVars
  <2>2. \E l \in {"call", "read"} : at' = [at EXCEPT !["reader"] = l]
    BY <1>4 DEF FetchCallback, GoTo
  <2>3. shell' = shell \/ shell' = [shell EXCEPT !.early = @ + 1]
    BY <1>4 DEF FetchCallback
  <2>4. shell' \in Shell
    BY <2>3, Facts DEF Shell
  <2> QED
    BY <2>1, <2>2, <2>4, Facts, QuietMove
<1>5. CASE ReadEnds
  <2>1. /\ at["reader"] = "read" /\ at' = [at EXCEPT !["reader"] = "close"]
        /\ session' = [session EXCEPT !.hijack = "closed"]
        /\ UNCHANGED <<wireVars, sock, shell, held>>
    BY <1>5 DEF ReadEnds, At, GoTo, handlerVars
  <2>2. session' \in Session /\ session'.closed = session.closed
    BY <2>1, Facts DEF Session
  <2> QED
    BY <2>1, <2>2, Facts, QuietMove
<1>6. CASE ReaderCloses
  <2>1. /\ at["reader"] = "close" /\ closeSession("reader")
        /\ UNCHANGED <<sock, held, shell, wireVars>>
    BY <1>6 DEF ReaderCloses, At, handlerVars
  <2> QED
    BY <2>1, CloseMove
<1>7. CASE ReaderReturns
  <2>1. /\ at["reader"] = "terminate" /\ at' = [at EXCEPT !["reader"] = "done"]
        /\ UNCHANGED <<wireVars, sock, shell, held, session>>
    BY <1>7 DEF ReaderReturns, At, GoTo, handlerVars
  <2> QED
    BY <2>1, Facts, QuietMove
<1>8. CASE Warn
  <2>1. at["warner"] = "wait" /\ UNCHANGED <<wireVars, sock, shell, held, session>>
    BY <1>8 DEF Warn, At, handlerVars, sessionVars
  <2>2. \E l \in {"call", "done"} : at' = [at EXCEPT !["warner"] = l]
    BY <1>8 DEF Warn, GoTo
  <2> QED
    BY <2>1, <2>2, Facts, QuietMove
<1>9. CASE CallClose
  <2>1. /\ at["closer"] = "call" /\ at' = [at EXCEPT !["closer"] = "write"]
        /\ Call("closer", "close", 0)
        /\ UNCHANGED <<sent, lost, sock, shell, held, session>>
    BY <1>9 DEF CallClose, At, GoTo, handlerVars, sessionVars
  <2>2. "close" \in Kinds /\ 0 \in Nat
    BY DEF Kinds
  <2> QED
    BY <2>1, <2>2, Facts, CallMove
<1>10. CASE ShutSocket
  <2>1. /\ at["closer"] = "shut" /\ at' = [at EXCEPT !["closer"] = "done"]
        /\ sock' = "closed" /\ UNCHANGED <<wireVars, shell, held, session>>
    BY <1>10 DEF ShutSocket, At, GoTo, handlerVars, sessionVars
  <2> QED
    BY <2>1, Facts, QuietMove
<1> QED
  BY <1>1, <1>2, <1>3, <1>4, <1>5, <1>6, <1>7, <1>8, <1>9, <1>10 DEF Goroutine

LEMMA NextKeepsIInv == IInv /\ [Next]_vars => IInv' /\ Step
<1> SUFFICES ASSUME IInv, [Next]_vars PROVE IInv' /\ Step
  OBVIOUS
<1>1. CASE Client
  BY <1>1, ClientKeeps
<1>2. CASE Docker
  BY <1>2, DockerKeeps
<1>3. CASE Handler \/ BeginCreate \/ BeginClose
  BY <1>3, HandlerKeeps
<1>4. ASSUME NEW a \in Actors, SendTyped(a) PROVE IInv' /\ Step
  <2>1. Wire' /\ Step
    BY <1>4, SendKeepsWire DEF IInv
  <2>2. UNCHANGED <<sock, at, held, session, shell>>
    BY <1>4 DEF SendTyped, Wrap, handlerVars, sessionVars
  <2>3. State'
    BY <2>2 DEF IInv, State, StateTypes, Places
  <2> QED
    BY <2>1, <2>3 DEF IInv
<1>5. ASSUME NEW a \in Actors, Write(a) PROVE IInv' /\ Step
  BY <1>5, WriteKeeps
<1>6. ASSUME NEW a \in Actors, Goroutine(a) PROVE IInv' /\ Step
  BY <1>6, GoroutineKeeps
<1>7. ASSUME NEW a \in Actors, Panic(a) PROVE IInv' /\ Step
  BY <1>7, EndMove DEF Panic
<1>8. CASE Shutdown
  BY <1>8, EndMove DEF Shutdown
<1>9. CASE UNCHANGED vars
  <2>1. UNCHANGED <<at, held, session, wireVars, shell, sock>>
    BY <1>9 DEF vars, handlerVars, sessionVars
  <2> QED
    BY <2>1, Facts, StillMove
<1> QED
  BY <1>1, <1>2, <1>3, <1>4, <1>5, <1>6, <1>7, <1>8, <1>9 DEF Next

\* The invariant, for any number of messages and of chunks of output.
THEOREM InvariantHolds == Spec => []IInv
<1>1. IInv /\ [Next]_vars => IInv'
  BY NextKeepsIInv
<1> QED
  BY InitIInv, <1>1, PTL DEF Spec

(***************************************************************************)
(* The frames of the four goroutines that share the writer of a terminal   *)
(* (FrameWriter.SendTyped) reach the client in the order of their numbers, *)
(* and none is missing but those whose time had run out before their turn. *)
(***************************************************************************)
THEOREM FramesStayInStep == Spec => FramesInStep
<1>1. IInv /\ [Next]_vars =>
          [sent'.next # sent.next /\ Up' =>
               /\ sent'.next > sent.next
               /\ sent.next..sent'.next - 2 \subseteq { f.seq : f \in lost }]_vars
  BY NextKeepsIInv DEF Step
<1> QED
  BY <1>1, InvariantHolds, PTL DEF Spec, FramesInStep

--------------------------------------------------------------------------------
(***************************************************************************)
(* The order of the output.  A chunk the reader has taken is in its hand   *)
(* until it is sent, lost, or dropped for want of a callback; as long as   *)
(* the websocket is open, no chunk before it is missing (Output).  The     *)
(* closer says that the shell has ended by itself only when the reader has *)
(* been through all of the output (Endings).                               *)
(***************************************************************************)

InHand == at["reader"] \in {"fetch", "call", "write"}
Done == IF InHand THEN shell.taken - 1 ELSE shell.taken

\* Chunk n was read before there was a callback, or its frame was lost.
Excused(n) == n <= shell.early \/ n \in { f.chunk : f \in lost }

Output ==
    /\ shell.taken <= shell.out
    /\ shell.early <= Done
    /\ sent.chunk <= Done
    /\ ~session.onOutput => shell.early = Done /\ at["reader"] \notin {"call", "write", "log"}
    /\ sock = "open" => \A n \in Nat : sent.chunk < n /\ n <= Done => Excused(n)

\* The reader alone sends output, and of that what it has in its hand.
Outgoing ==
    \A i \in DOMAIN frames.callers :
        LET f == frames.callers[i]
        IN  /\ f.by = "reader" => f.kind = "output" /\ f.chunk = shell.taken
            /\ f.by # "reader" => f.kind # "output"

ReadAll == shell.state = "exited" /\ shell.taken = shell.out

Endings ==
    /\ at["reader"] \in {"read", "fetch", "call", "write", "log"} /\ session.hijack = "closed"
           => session.closed
    /\ at["reader"] = "close" /\ ~session.closed => ReadAll
    /\ session.closedBy = "reader" => ReadAll /\ at["reader"] \in {"terminate", "done"}

Told == Output /\ Outgoing /\ Endings

OrderStep ==
    Up' => /\ sent'.chunk # sent.chunk =>
                 sent'.chunk > sent.chunk /\ Missing(sent.chunk + 1, sent'.chunk - 1) = {}
           /\ sent'.end /\ ~sent.end /\ session.closedBy = "reader" =>
                 Missing(sent.chunk + 1, shell.out) = {}

LEMMA InitTold == Init => Told
<1> SUFFICES ASSUME Init PROVE Told
  OBVIOUS
<1>1. /\ shell.taken = 0 /\ shell.out = 0 /\ shell.early = 0 /\ sent.chunk = 0
      /\ at["reader"] = "none" /\ ~session.onOutput /\ session.closedBy = "nobody"
      /\ frames.callers = << >>
  BY DEF Init, NoShell, NoSession, NoFrames, Actors
<1>2. Output
  BY <1>1 DEF Output, Done, InHand
<1>3. Outgoing /\ Endings
  BY <1>1 DEF Outgoing, Endings
<1> QED
  BY <1>2, <1>3 DEF Told

LEMMA OutputTypes ==
    ASSUME IInv
    PROVE  /\ shell.taken \in Nat /\ shell.out \in Nat /\ shell.early \in Nat /\ sent.chunk \in Nat
           /\ shell.state \in {"none", "running", "exited"}
           /\ session.onOutput \in BOOLEAN /\ session.closed \in BOOLEAN
           /\ at \in [Actors -> Labels] /\ sock \in {"open", "closed"}
           /\ \A i \in DOMAIN frames.callers :
                 frames.callers[i] \in Frame /\ at[frames.callers[i].by] = "write"
BY Callers DEF IInv, State, StateTypes, Wire, WireTypes, Queue, Shell, Session

--------------------------------------------------------------------------------
\* A step in which the reader takes no part, and no frame leaves the queue.

Waits ==
    \/ frames' = frames
    \/ \E a \in Actors \ {"reader"}, kind \in Kinds \ {"output"} : Call(a, kind, 0)

Aside ==
    /\ sent' = sent /\ lost' = lost /\ sock' \in {sock, "closed"}
    /\ at'["reader"] = at["reader"]
    /\ Waits

\* The shell writes or exits, or goes on.
ShellGoesOn ==
    /\ shell'.taken = shell.taken /\ shell'.early = shell.early
    /\ shell'.out \in {shell.out, shell.out + 1}
    /\ ReadAll => ReadAll'

\* The session goes on or is closed, but not by the reader.
SessionGoesOn ==
    /\ session'.onOutput \in {session.onOutput, TRUE}
    /\ \/ /\ session'.closed = session.closed /\ session'.hijack = session.hijack
          /\ session'.closedBy = session.closedBy
       \/ session'.closed /\ session'.closedBy = "handler"

LEMMA CallAddsFrame ==
    ASSUME IInv, NEW a, NEW kind, NEW chunk, Call(a, kind, chunk),
           a \in Actors, kind \in Kinds, chunk \in Nat
    PROVE  \A i \in DOMAIN frames'.callers :
              \/ i \in DOMAIN frames.callers /\ frames'.callers[i] = frames.callers[i]
              \/ /\ frames'.callers[i].by = a /\ frames'.callers[i].kind = kind
                 /\ frames'.callers[i].chunk = chunk
<1> DEFINE new == [by |-> a, kind |-> kind, chunk |-> chunk,
                   seq |-> 0, turn |-> FALSE, overtaken |-> FALSE]
           old == frames.callers
<1>1. new \in Frame /\ new.by = a /\ new.kind = kind /\ new.chunk = chunk
  BY DEF Frame
<1>2. old \in Seq(Frame)
  BY DEF IInv, Wire, WireTypes
<1>3. frames'.callers = Append(old, new)
  BY DEF Call, IInv, Wire, WireTypes
<1> HIDE DEF new, old
<1>4. /\ DOMAIN Append(old, new) = 1..Len(old) + 1 /\ DOMAIN old = 1..Len(old)
      /\ \A i \in 1..Len(old) : Append(old, new)[i] = old[i]
      /\ Append(old, new)[Len(old) + 1] = new /\ Len(old) \in Nat
  BY <1>1, <1>2
<1>5. \A i \in 1..Len(old) + 1 : i \in 1..Len(old) \/ i = Len(old) + 1
  BY <1>4
<1> QED
  BY <1>1, <1>3, <1>4, <1>5 DEF old

LEMMA WaitsKeepsOutgoing ==
    ASSUME IInv, Told, Waits, shell'.taken = shell.taken PROVE Outgoing'
<1>1. CASE frames' = frames
  BY <1>1 DEF Told, Outgoing
<1>2. ASSUME NEW a \in Actors \ {"reader"}, NEW kind \in Kinds \ {"output"}, Call(a, kind, 0)
      PROVE  Outgoing'
  <2>1. \A i \in DOMAIN frames'.callers :
            \/ i \in DOMAIN frames.callers /\ frames'.callers[i] = frames.callers[i]
            \/ frames'.callers[i].by = a /\ frames'.callers[i].kind = kind
    BY <1>2, CallAddsFrame
  <2> QED
    BY <2>1 DEF Told, Outgoing
<1> QED
  BY <1>1, <1>2 DEF Waits

LEMMA AsideKeepsTold ==
    ASSUME IInv, Told, Aside, ShellGoesOn, SessionGoesOn PROVE Told' /\ OrderStep
<1>1. InHand' = InHand /\ Done' = Done
  BY DEF Aside, ShellGoesOn, InHand, Done
<1>2. \A n \in Nat : Excused(n) => Excused(n)'
  BY DEF Aside, ShellGoesOn, Excused
<1>3. Output'
  <2>1. shell'.taken <= shell'.out
    BY OutputTypes DEF Told, Output, ShellGoesOn
  <2>2. shell'.early <= Done' /\ sent'.chunk <= Done'
    BY <1>1 DEF Told, Output, Aside, ShellGoesOn
  <2>3. ~session'.onOutput => shell'.early = Done' /\ at'["reader"] \notin {"call", "write", "log"}
    BY <1>1 DEF Told, Output, Aside, ShellGoesOn, SessionGoesOn
  <2>4. sock' = "open" => \A n \in Nat : sent'.chunk < n /\ n <= Done' => Excused(n)'
    BY <1>1, <1>2 DEF Told, Output, Aside
  <2> QED
    BY <2>1, <2>2, <2>3, <2>4 DEF Output
<1>4. Outgoing'
  BY WaitsKeepsOutgoing DEF Aside, ShellGoesOn
<1>5. Endings'
  BY DEF Told, Endings, Aside, ShellGoesOn, SessionGoesOn
<1>6. OrderStep
  BY DEF Aside, OrderStep
<1> QED
  BY <1>3, <1>4, <1>5, <1>6 DEF Told

LEMMA UnchangedGoesOn ==
    /\ shell' = shell => ShellGoesOn
    /\ session' = session => SessionGoesOn
BY DEF ShellGoesOn, SessionGoesOn, ReadAll

LEMMA SayWaits == ASSUME NEW kind \in Kinds \ {"output"}, Call("handler", kind, 0) PROVE Waits
BY Facts DEF Waits

\* The client, docker and the handler.
LEMMA ClientAside == ASSUME IInv, Told, Client PROVE Told' /\ OrderStep
<1>1. shell' = shell /\ session' = session /\ sent' = sent /\ lost' = lost
      /\ sock' \in {sock, "closed"}
  BY DEF Client, Refuse, Start, Input, CloseMessage, LoseConnection, Message, sessionVars, wireVars
<1>2. at'["reader"] = at["reader"]
  BY OutputTypes, Facts
     DEF Client, Refuse, Start, Input, CloseMessage, LoseConnection, Message, Say, GoTo
<1>3. Waits
  <2>1. Refuse => Waits
    BY SayWaits DEF Refuse, Say, Kinds
  <2> QED
    BY <2>1 DEF Client, Start, Input, CloseMessage, LoseConnection, wireVars, Waits
<1> QED
  BY <1>1, <1>2, <1>3, UnchangedGoesOn, AsideKeepsTold DEF Aside

LEMMA CreateSessionKeepsTold == ASSUME IInv, Told, CreateSession PROVE Told' /\ OrderStep
<1>1. /\ at["handler"] = "creating" /\ at["reader"] = "none"
      /\ session' = [session EXCEPT !.registered = TRUE, !.hijack = "open"]
      /\ shell' = [shell EXCEPT !.state = "running"]
      /\ at' = [at EXCEPT !["handler"] = "bindOutput", !["reader"] = "read", !["warner"] = "wait"]
      /\ UNCHANGED <<sock, frames, sent, lost>>
  BY DEF CreateSession, At, wireVars, IInv, State, Places
<1>2. at'["reader"] = "read"
  BY <1>1, OutputTypes, Facts
<1>3. /\ shell'.taken = shell.taken /\ shell'.out = shell.out /\ shell'.early = shell.early
      /\ session'.onOutput = session.onOutput /\ session'.hijack = "open"
      /\ session'.closedBy = session.closedBy
  BY <1>1, Facts DEF Shell, Session
<1>4. Done = shell.taken /\ Done' = shell.taken
  BY <1>1, <1>2, <1>3 DEF Done, InHand
<1>5. Output'
  BY <1>1, <1>2, <1>3, <1>4 DEF Told, Output, Excused
<1>6. Outgoing' /\ OrderStep
  BY <1>1, <1>3 DEF Told, Outgoing, OrderStep
<1>7. Endings'
  BY <1>1, <1>2, <1>3 DEF Told, Endings
<1> QED
  BY <1>5, <1>6, <1>7 DEF Told

LEMMA DockerAside == ASSUME IInv, Told, Docker PROVE Told' /\ OrderStep
<1>1. CASE FindContainer \/ CreateFails \/ InputTaken
  <2>1. shell' = shell /\ session' = session /\ sent' = sent /\ lost' = lost /\ sock' = sock
    BY <1>1 DEF FindContainer, CreateFails, InputTaken, sessionVars, wireVars
  <2>2. at'["reader"] = at["reader"]
    BY <1>1, OutputTypes, Facts DEF FindContainer, CreateFails, InputTaken, Say, GoTo
  <2>3. Waits
    <3>1. Say("error") => Waits
      BY SayWaits DEF Say, Kinds
    <3> QED
      BY <1>1, <3>1 DEF FindContainer, CreateFails, InputTaken, wireVars, Waits
  <2> QED
    BY <2>1, <2>2, <2>3, UnchangedGoesOn, AsideKeepsTold DEF Aside
<1>2. CASE ShellWrites \/ ShellExits
  <2>1. UNCHANGED <<at, session, sock, frames, sent, lost>>
    BY <1>2 DEF ShellWrites, ShellExits, sessionVars, wireVars
  <2>2. shell.state = "running" /\ (\/ shell' = [shell EXCEPT !.out = @ + 1]
                                    \/ shell' = [shell EXCEPT !.state = "exited"])
    BY <1>2 DEF ShellWrites, ShellExits
  <2>3. ShellGoesOn
    BY <2>2, Facts DEF ShellGoesOn, ReadAll, Shell
  <2> QED
    BY <2>1, <2>3, UnchangedGoesOn, AsideKeepsTold DEF Aside, Waits
<1> QED
  BY <1>1, <1>2, CreateSessionKeepsTold DEF Docker

LEMMA HandlerAside ==
    ASSUME IInv, Told, Handler \/ BeginCreate \/ BeginClose PROVE Told' /\ OrderStep
<1>1. shell' = shell /\ sent' = sent /\ lost' = lost /\ sock' \in {sock, "closed"}
  BY DEF Handler, SetOutputCallback, SetCloseCallback, InputFails, ReadFails, EndClose, Return,
         BeginCreate, BeginClose, wireVars
<1>2. at'["reader"] = at["reader"]
  BY OutputTypes, Facts
     DEF Handler, SetOutputCallback, SetCloseCallback, InputFails, ReadFails, EndClose, Return,
         BeginCreate, BeginClose, closeSession, Say, GoTo
<1>3. Waits
  <2>1. Say("error") \/ Say("success") => Waits
    BY SayWaits DEF Say, Kinds
  <2> QED
    BY <2>1 DEF Handler, SetOutputCallback, SetCloseCallback, InputFails, ReadFails, EndClose,
                Return, BeginCreate, BeginClose, wireVars, Waits
<1>4. SessionGoesOn
  BY Facts
     DEF Handler, SetOutputCallback, SetCloseCallback, InputFails, ReadFails, EndClose, Return,
         BeginCreate, BeginClose, closeSession, sessionVars, SessionGoesOn, Session
<1> QED
  BY <1>1, <1>2, <1>3, <1>4, UnchangedGoesOn, AsideKeepsTold DEF Aside

--------------------------------------------------------------------------------
\* The reader.

\* It goes from one place to another and the shell's output stays where it is.
LEMMA ReaderMoves ==
    ASSUME IInv, Told, NEW l \in Labels, at' = [at EXCEPT !["reader"] = l],
           shell' = shell, wireVars' = wireVars, sock' = sock, Done' = Done,
           session'.onOutput = session.onOutput,
           ~session.onOutput => l \notin {"call", "write", "log"},
           Endings'
    PROVE  Told' /\ OrderStep
<1>1. at'["reader"] = l /\ frames' = frames /\ sent' = sent /\ lost' = lost
  BY OutputTypes, Facts DEF wireVars
<1>2. Output'
  BY <1>1 DEF Told, Output, Excused
<1>3. Outgoing' /\ OrderStep
  BY <1>1 DEF Told, Outgoing, OrderStep
<1> QED
  BY <1>2, <1>3 DEF Told

LEMMA ReadOutputKeepsTold == ASSUME IInv, Told, ReadOutput PROVE Told' /\ OrderStep
<1>1. /\ at["reader"] = "read" /\ shell.taken < shell.out
      /\ shell' = [shell EXCEPT !.taken = @ + 1] /\ at' = [at EXCEPT !["reader"] = "fetch"]
      /\ UNCHANGED <<sock, session, frames, sent, lost>>
  BY DEF ReadOutput, At, GoTo, sessionVars, wireVars
<1>2. at'["reader"] = "fetch"
  BY <1>1, OutputTypes, Facts
<1>3. /\ shell'.taken = shell.taken + 1 /\ shell'.out = shell.out /\ shell'.early = shell.early
      /\ shell.taken \in Nat /\ shell.out \in Nat
  BY <1>1, Facts DEF Shell
<1>4. Done = shell.taken /\ Done' = shell.taken
  BY <1>1, <1>2, <1>3 DEF Done, InHand
<1>5. Output'
  BY <1>1, <1>2, <1>3, <1>4 DEF Told, Output, Excused
<1>6. \A i \in DOMAIN frames.callers : frames.callers[i].by # "reader"
  BY <1>1, OutputTypes
<1>7. Outgoing' /\ OrderStep
  BY <1>1, <1>6 DEF Told, Outgoing, OrderStep
<1>8. Endings'
  BY <1>1, <1>2 DEF Told, Endings
<1> QED
  BY <1>5, <1>7, <1>8 DEF Told

LEMMA FetchCallbackKeepsTold == ASSUME IInv, Told, FetchCallback PROVE Told' /\ OrderStep
<1>1. at["reader"] = "fetch" /\ UNCHANGED <<sock, session, frames, sent, lost>>
  BY DEF FetchCallback, At, sessionVars, wireVars
<1>2. CASE session.onOutput
  <2>1. at' = [at EXCEPT !["reader"] = "call"] /\ shell' = shell /\ at'["reader"] = "call"
    BY <1>2, OutputTypes, Facts DEF FetchCallback, GoTo
  <2>2. Done' = Done
    BY <1>1, <2>1 DEF Done, InHand
  <2>3. Endings'
    BY <1>1, <2>1 DEF Told, Endings, ReadAll
  <2> QED
    BY <1>1, <1>2, <2>1, <2>2, <2>3, Facts, ReaderMoves DEF wireVars
<1>3. CASE ~session.onOutput
  <2>1. at'["reader"] = "read" /\ shell' = [shell EXCEPT !.early = @ + 1]
    BY <1>3, OutputTypes, Facts DEF FetchCallback, GoTo
  <2>2. /\ shell'.taken = shell.taken /\ shell'.out = shell.out /\ shell'.early = shell.early + 1
        /\ shell.taken \in Nat /\ shell.early \in Nat /\ sent.chunk \in Nat
    BY <2>1, OutputTypes, Facts DEF Shell
  <2>3. Done = shell.taken - 1 /\ Done' = shell.taken /\ shell.early = Done
    BY <1>1, <1>3, <2>1, <2>2 DEF Done, InHand, Told, Output
  <2>4. Output'
    <3>1. \A n \in Nat : n <= Done' => Excused(n)'
      BY <2>2, <2>3 DEF Excused
    <3>2. shell'.early <= Done' /\ sent'.chunk <= Done' /\ shell'.taken <= shell'.out
      BY <1>1, <2>2, <2>3 DEF Told, Output
    <3> QED
      BY <1>1, <2>1, <2>2, <2>3, <3>1, <3>2 DEF Output
  <2>5. Outgoing' /\ OrderStep
    BY <1>1, <2>2 DEF Told, Outgoing, OrderStep
  <2>6. Endings'
    BY <1>1, <2>1 DEF Told, Endings
  <2> QED
    BY <2>4, <2>5, <2>6 DEF Told
<1> QED
  BY <1>2, <1>3

LEMMA CallOutputKeepsTold ==
    ASSUME IInv, Told, NEW a \in Actors, CallOutput(a) PROVE Told' /\ OrderStep
<1>1. /\ at[a] = "call" /\ at' = [at EXCEPT ![a] = "write"]
      /\ UNCHANGED <<sock, session, shell, sent, lost>>
  BY DEF CallOutput, At, GoTo, sessionVars
<1>2. CASE a = "warner"
  <2>1. Waits
    BY <1>2, Facts DEF CallOutput, Waits, Kinds
  <2>2. at'["reader"] = at["reader"]
    BY <1>1, <1>2, OutputTypes, Facts
  <2> QED
    BY <1>1, <2>1, <2>2, UnchangedGoesOn, AsideKeepsTold DEF Aside
<1>3. CASE a = "reader"
  <2>1. at'["reader"] = "write" /\ Call("reader", "output", shell.taken)
    BY <1>1, <1>3, OutputTypes, Facts DEF CallOutput
  <2>2. Done' = Done
    BY <1>1, <1>3, <2>1 DEF Done, InHand
  <2>3. Output'
    BY <1>1, <1>3, <2>1, <2>2 DEF Told, Output, Excused
  <2>4. \A i \in DOMAIN frames'.callers :
            \/ i \in DOMAIN frames.callers /\ frames'.callers[i] = frames.callers[i]
            \/ /\ frames'.callers[i].by = "reader" /\ frames'.callers[i].kind = "output"
               /\ frames'.callers[i].chunk = shell.taken
    BY <2>1, CallAddsFrame, OutputTypes, Facts DEF Kinds
  <2>5. Outgoing' /\ OrderStep
    BY <1>1, <2>4 DEF Told, Outgoing, OrderStep
  <2>6. Endings'
    BY <1>1, <1>3, <2>1 DEF Told, Endings, ReadAll
  <2> QED
    BY <2>3, <2>5, <2>6 DEF Told
<1> QED
  BY <1>2, <1>3 DEF CallOutput

LEMMA ReaderEndsKeepsTold ==
    ASSUME IInv, Told, ReadEnds \/ ReaderCloses \/ ReaderReturns PROVE Told' /\ OrderStep
<1>1. CASE ReadEnds
  <2>1. /\ at["reader"] = "read" /\ at' = [at EXCEPT !["reader"] = "close"]
        /\ session.hijack = "closed" \/ ReadAll
        /\ session' = [session EXCEPT !.hijack = "closed"]
        /\ shell' = shell /\ wireVars' = wireVars /\ sock' = sock
    BY <1>1 DEF ReadEnds, At, GoTo, ReadAll
  <2>2. at'["reader"] = "close"
    BY <2>1, OutputTypes, Facts
  <2>3. /\ session'.onOutput = session.onOutput /\ session'.closed = session.closed
        /\ session'.closedBy = session.closedBy
    BY <2>1, Facts DEF Session
  <2>4. Done' = Done
    BY <2>1, <2>2 DEF Done, InHand
  <2>5. Endings'
    BY <2>1, <2>2, <2>3 DEF Told, Endings, ReadAll
  <2> QED
    BY <2>1, <2>3, <2>4, <2>5, Facts, ReaderMoves
<1>2. CASE ReaderCloses
  <2>1. at["reader"] = "close" /\ closeSession("reader") /\ UNCHANGED <<sock, shell, frames, sent, lost>>
    BY <1>2 DEF ReaderCloses, At, wireVars
  <2>2. at'["reader"] = "terminate"
    BY <2>1, OutputTypes, Facts DEF closeSession, GoTo
  <2>3. session'.onOutput = session.onOutput
    BY <2>1, Facts DEF closeSession, Session
  <2>4. Done' = Done
    BY <2>1, <2>2 DEF Done, InHand
  <2>5. Output'
    BY <2>1, <2>2, <2>3, <2>4 DEF Told, Output, Excused
  <2>6. Outgoing' /\ OrderStep
    BY <2>1 DEF Told, Outgoing, OrderStep
  <2>7. session.closed \/ ReadAll
    BY <2>1 DEF Told, Endings
  <2>8. session.closed => session' = session
    BY <2>1 DEF closeSession
  <2>9. Endings'
    BY <2>1, <2>2, <2>7, <2>8 DEF Told, Endings, ReadAll
  <2> QED
    BY <2>5, <2>6, <2>9 DEF Told
<1>3. CASE ReaderReturns
  <2>1. /\ at["reader"] = "terminate" /\ at' = [at EXCEPT !["reader"] = "done"]
        /\ UNCHANGED <<session, shell, wireVars, sock>>
    BY <1>3 DEF ReaderReturns, At, GoTo
  <2>2. at'["reader"] = "done"
    BY <2>1, OutputTypes, Facts
  <2>3. Done' = Done /\ Endings'
    BY <2>1, <2>2 DEF Done, InHand, Told, Endings, ReadAll
  <2> QED
    BY <2>1, <2>3, Facts, ReaderMoves
<1> QED
  BY <1>1, <1>2, <1>3

LEMMA GoroutineKeepsTold ==
    ASSUME IInv, Told, NEW a \in Actors, Goroutine(a) PROVE Told' /\ OrderStep
<1>1. CASE LogFailure(a) /\ a = "reader"
  <2>1. /\ at["reader"] = "log" /\ at' = [at EXCEPT !["reader"] = "read"]
        /\ UNCHANGED <<session, shell, wireVars, sock>>
    BY <1>1 DEF LogFailure, At, GoTo, sessionVars
  <2>2. at'["reader"] = "read"
    BY <2>1, OutputTypes, Facts
  <2>3. Done' = Done /\ Endings'
    BY <2>1, <2>2 DEF Done, InHand, Told, Endings, ReadAll
  <2> QED
    BY <2>1, <2>3, Facts, ReaderMoves
<1>2. CASE \/ LogFailure(a) /\ a # "reader"
           \/ a = "warner" /\ Warn
           \/ a = "closer" /\ (CallClose \/ ShutSocket)
  <2>1. shell' = shell /\ session' = session /\ sent' = sent /\ lost' = lost
        /\ sock' \in {sock, "closed"}
    BY <1>2 DEF LogFailure, Warn, CallClose, ShutSocket, sessionVars, wireVars
  <2>2. at'["reader"] = at["reader"]
    BY <1>2, OutputTypes, Facts DEF LogFailure, Warn, CallClose, ShutSocket, GoTo
  <2>3. Waits
    BY <1>2, Facts DEF LogFailure, Warn, CallClose, ShutSocket, wireVars, Waits, Kinds
  <2> QED
    BY <2>1, <2>2, <2>3, UnchangedGoesOn, AsideKeepsTold DEF Aside
<1> QED
  BY <1>1, <1>2, CallOutputKeepsTold, ReadOutputKeepsTold, FetchCallbackKeepsTold,
     ReaderEndsKeepsTold DEF Goroutine

--------------------------------------------------------------------------------
\* The frames and their writes.

\* A turn only numbers the frames.
LEMMA SendKeepsTold == ASSUME IInv, Told, NEW a \in Actors, SendTyped(a) PROVE Told' /\ OrderStep
<1> DEFINE old == frames.callers
<1>1. UNCHANGED <<sock, at, session, shell, sent, lost>>
  BY DEF SendTyped, Wrap, sessionVars
<1>2. /\ DOMAIN frames'.callers = DOMAIN old
      /\ \A i \in DOMAIN old :
            frames'.callers[i] =
                IF i = CallOf(a)
                THEN [old[i] EXCEPT !.seq = frames.sequence, !.turn = TRUE]
                ELSE [old[i] EXCEPT !.overtaken = @ \/ i < CallOf(a)]
  BY DEF SendTyped, Wrap
<1>3. \A i \in DOMAIN old : old[i] \in Frame
  BY OutputTypes
<1> HIDE DEF old
<1>4. ASSUME NEW i \in DOMAIN old
      PROVE  /\ frames'.callers[i].by = old[i].by /\ frames'.callers[i].kind = old[i].kind
             /\ frames'.callers[i].chunk = old[i].chunk
  <2>1. CASE i = CallOf(a)
    BY <1>2, <1>3, <2>1 DEF Frame
  <2>2. CASE i # CallOf(a)
    BY <1>2, <1>3, <2>2 DEF Frame
  <2> QED
    BY <2>1, <2>2
<1>5. Outgoing'
  <2> SUFFICES ASSUME NEW i \in DOMAIN old
               PROVE  /\ frames'.callers[i].by = "reader" =>
                            frames'.callers[i].kind = "output" /\ frames'.callers[i].chunk = shell'.taken
                      /\ frames'.callers[i].by # "reader" => frames'.callers[i].kind # "output"
    BY <1>2 DEF Outgoing
  <2>1. /\ old[i].by = "reader" => old[i].kind = "output" /\ old[i].chunk = shell.taken
        /\ old[i].by # "reader" => old[i].kind # "output"
    BY DEF Told, Outgoing, old
  <2> QED
    BY <1>1, <1>4, <2>1
<1>6. Output' /\ Endings' /\ OrderStep
  BY <1>1 DEF Told, Output, Done, InHand, Excused, Endings, ReadAll, OrderStep
<1> QED
  BY <1>5, <1>6 DEF Told

\* Where the caller goes when its write has ended.
LEMMA TurnOver ==
    ASSUME IInv, Told, NEW a \in Actors, AtTurn(a), NEW ok \in BOOLEAN, EndTurn(a, ok)
    PROVE  LET frame == frames.callers[CallOf(a)]
           IN  /\ frame \in Frame /\ at[a] = "write"
               /\ a = "reader" => frame.kind = "output" /\ frame.chunk = shell.taken
               /\ a # "reader" => frame.kind # "output"
               /\ Outgoing' /\ Endings'
               /\ UNCHANGED <<session, shell>>
               /\ a = "reader" => /\ Done = shell.taken - 1 /\ Done' = shell.taken
                                  /\ at'["reader"] \in {"read", "log"}
               /\ a # "reader" => Done' = Done /\ at'["reader"] = at["reader"]
<1> DEFINE frame == frames.callers[CallOf(a)]
<1>1. /\ frame \in Frame /\ frame.by = a /\ at[a] = "write" /\ CallOf(a) \in DOMAIN frames.callers
      /\ \A i \in DOMAIN frames'.callers :
            \E j \in DOMAIN frames.callers : frames'.callers[i] = frames.callers[j]
  BY TurnEnds DEF IInv, State
<1>2. UNCHANGED <<session, shell>>
  BY DEF EndTurn, sessionVars
<1>3. Outgoing'
  BY <1>1, <1>2 DEF Told, Outgoing
<1>4. /\ a = "reader" => frame.kind = "output" /\ frame.chunk = shell.taken
      /\ a # "reader" => frame.kind # "output"
  BY <1>1 DEF Told, Outgoing
<1>5. CASE a = "reader"
  <2>1. at["reader"] = "write" /\ at'["reader"] \in {"read", "log"}
    BY <1>1, <1>5, OutputTypes, Facts DEF EndTurn, GoTo
  <2>2. Done = shell.taken - 1 /\ Done' = shell.taken
    BY <1>2, <2>1 DEF Done, InHand
  <2>3. Endings'
    BY <1>2, <2>1 DEF Told, Endings, ReadAll
  <2> QED
    BY <1>1, <1>2, <1>3, <1>4, <1>5, <2>1, <2>2, <2>3
<1>6. CASE a # "reader"
  <2>1. at'["reader"] = at["reader"]
    BY <1>6, OutputTypes, Facts DEF EndTurn, GoTo
  <2>2. Done' = Done /\ Endings'
    BY <1>2, <2>1 DEF Done, InHand, Told, Endings, ReadAll
  <2> QED
    BY <1>1, <1>2, <1>3, <1>4, <1>6, <2>1, <2>2
<1> QED
  BY <1>5, <1>6

LEMMA DeliverKeepsTold == ASSUME IInv, Told, NEW a \in Actors, Deliver(a) PROVE Told' /\ OrderStep
<1> DEFINE frame == frames.callers[CallOf(a)]
<1>1. /\ frame \in Frame
      /\ a = "reader" => frame.kind = "output" /\ frame.chunk = shell.taken
      /\ a # "reader" => frame.kind # "output"
      /\ Outgoing' /\ Endings' /\ UNCHANGED <<session, shell>>
      /\ a = "reader" => Done = shell.taken - 1 /\ Done' = shell.taken /\ at'["reader"] \in {"read", "log"}
      /\ a # "reader" => Done' = Done /\ at'["reader"] = at["reader"]
      /\ at[a] = "write"
  BY TurnOver DEF Deliver
<1>2. /\ sock = "open" /\ sock' = sock /\ lost' = lost
      /\ sent'.chunk = IF frame.kind = "output" THEN frame.chunk ELSE sent.chunk
  BY DEF Deliver
<1> HIDE DEF frame
<1>3. shell.taken \in Nat /\ shell.out \in Nat /\ shell.early \in Nat /\ sent.chunk \in Nat
  BY OutputTypes
<1>4. \A n \in Nat : sent.chunk < n /\ n <= Done => Excused(n)
  BY <1>2 DEF Told, Output
<1>5. \A n \in Nat : Excused(n)' <=> Excused(n)
  BY <1>1, <1>2 DEF Excused
<1>6. Output' /\ (sent'.chunk # sent.chunk =>
                     a = "reader" /\ sent'.chunk = shell.taken /\ sent.chunk < shell.taken)
  <2>1. CASE a = "reader"
    <3>1. sent'.chunk = shell.taken /\ Done' = shell.taken /\ sent.chunk <= shell.taken - 1
      BY <1>1, <1>2, <2>1 DEF Told, Output
    <3>2. session.onOutput
      BY <1>1, <2>1 DEF Told, Output
    <3>3. shell.early <= shell.taken
      BY <1>1, <1>3, <2>1 DEF Told, Output
    <3> QED
      BY <1>1, <1>3, <2>1, <3>1, <3>2, <3>3 DEF Told, Output
  <2>2. CASE a # "reader"
    BY <1>1, <1>2, <1>4, <1>5, <2>2 DEF Told, Output
  <2> QED
    BY <2>1, <2>2
<1>7. \A last \in Nat : last <= Done => Missing(sent.chunk + 1, last) = {}
  <2> SUFFICES ASSUME NEW last \in Nat, last <= Done, NEW n \in (sent.chunk + 1)..last
               PROVE  n \in 1..shell.early \cup { f.chunk : f \in lost }
    BY DEF Missing
  <2>1. n \in Nat /\ sent.chunk < n /\ n <= Done /\ 1 <= n
    BY <1>3 DEF Done
  <2>2. Excused(n)
    BY <1>4, <2>1
  <2> QED
    BY <1>3, <2>1, <2>2 DEF Excused
<1>8. ASSUME sent'.chunk # sent.chunk
      PROVE  sent'.chunk > sent.chunk /\ Missing(sent.chunk + 1, sent'.chunk - 1) = {}
  <2>1. /\ sent'.chunk = shell.taken /\ sent.chunk < shell.taken
        /\ shell.taken - 1 = Done /\ shell.taken - 1 \in Nat
    BY <1>1, <1>3, <1>6, <1>8
  <2> QED
    BY <1>3, <1>7, <2>1
<1>9. ASSUME session.closedBy = "reader" PROVE Missing(sent.chunk + 1, shell.out) = {}
  <2>1. shell.out = shell.taken /\ Done = shell.taken
    BY <1>9 DEF Told, Endings, ReadAll, Done, InHand
  <2> QED
    BY <1>3, <1>7, <2>1
<1> QED
  BY <1>1, <1>6, <1>8, <1>9 DEF Told, OrderStep

LEMMA DeliverFailsKeepsTold ==
    ASSUME IInv, Told, NEW a \in Actors, DeliverFails(a) PROVE Told' /\ OrderStep
<1>1. /\ Outgoing' /\ Endings' /\ UNCHANGED <<session, shell>> /\ at[a] = "write"
      /\ a = "reader" => Done = shell.taken - 1 /\ Done' = shell.taken /\ at'["reader"] \in {"read", "log"}
      /\ a # "reader" => Done' = Done /\ at'["reader"] = at["reader"]
  BY TurnOver DEF DeliverFails
<1>2. sock' = "closed" /\ sent' = sent /\ lost' = lost
  BY DEF DeliverFails
<1>3. a = "reader" => session.onOutput
  BY <1>1 DEF Told, Output
<1>4. shell.early <= Done' /\ sent.chunk <= Done'
  <2>1. shell.early <= Done /\ sent.chunk <= Done
    BY DEF Told, Output
  <2>2. CASE a = "reader"
    BY <1>1, <2>1, <2>2, OutputTypes
  <2>3. CASE a # "reader"
    BY <1>1, <2>1, <2>3
  <2> QED
    BY <2>2, <2>3
<1>5. Output'
  BY <1>1, <1>2, <1>3, <1>4 DEF Told, Output
<1> QED
  BY <1>1, <1>2, <1>5 DEF Told, OrderStep

LEMMA DeliverLateKeepsTold ==
    ASSUME IInv, Told, NEW a \in Actors, DeliverLate(a) PROVE Told' /\ OrderStep
<1> DEFINE frame == frames.callers[CallOf(a)]
<1> DEFINE late == [seq |-> frame.seq, kind |-> frame.kind, chunk |-> frame.chunk]
<1>1. /\ Outgoing' /\ Endings' /\ UNCHANGED <<session, shell>> /\ at[a] = "write"
      /\ a = "reader" => frame.chunk = shell.taken
      /\ a = "reader" => Done = shell.taken - 1 /\ Done' = shell.taken /\ at'["reader"] \in {"read", "log"}
      /\ a # "reader" => Done' = Done /\ at'["reader"] = at["reader"]
  BY TurnOver DEF DeliverLate
<1>2. sock' = sock /\ sent' = sent /\ lost' = lost \cup {late}
  BY DEF DeliverLate
<1>3. late.chunk = frame.chunk
  OBVIOUS
<1> HIDE DEF late, frame
<1>4. \A n \in Nat : Excused(n) => Excused(n)'
  BY <1>1, <1>2 DEF Excused
<1>5. a = "reader" => \A n \in Nat : n = shell.taken => Excused(n)'
  BY <1>1, <1>2, <1>3 DEF Excused
<1>6. shell.early <= Done' /\ sent.chunk <= Done'
  <2>1. shell.early <= Done /\ sent.chunk <= Done
    BY DEF Told, Output
  <2>2. CASE a = "reader"
    BY <1>1, <2>1, <2>2, OutputTypes
  <2>3. CASE a # "reader"
    BY <1>1, <2>1, <2>3
  <2> QED
    BY <2>2, <2>3
<1>7. a = "reader" => session.onOutput
  BY <1>1 DEF Told, Output
<1>8. sock' = "open" => \A n \in Nat : sent.chunk < n /\ n <= Done' => Excused(n)'
  <2> SUFFICES ASSUME sock = "open", NEW n \in Nat, sent.chunk < n, n <= Done' PROVE Excused(n)'
    BY <1>2
  <2>1. CASE n <= Done
    BY <1>4, <2>1 DEF Told, Output
  <2>2. CASE ~(n <= Done)
    <3>1. a = "reader" /\ n = shell.taken
      BY <1>1, <2>2, OutputTypes DEF Done
    <3> QED
      BY <1>5, <3>1
  <2> QED
    BY <2>1, <2>2
<1>9. Output'
  BY <1>1, <1>2, <1>6, <1>7, <1>8 DEF Told, Output
<1> QED
  BY <1>1, <1>2, <1>9 DEF Told, OrderStep

LEMMA EndKeepsTold == ASSUME NEW how, how # "up", EndProcess(how) PROVE Told' /\ OrderStep
<1>1. /\ shell'.taken = 0 /\ shell'.out = 0 /\ shell'.early = 0 /\ sent'.chunk = 0
      /\ at'["reader"] = "none" /\ ~session'.onOutput /\ session'.closedBy = "nobody"
      /\ frames'.callers = << >>
  BY DEF EndProcess, NoShell, NoSession, NoFrames, Actors
<1>2. Output'
  BY <1>1 DEF Output, Done, InHand
<1>3. Outgoing' /\ Endings'
  BY <1>1 DEF Outgoing, Endings
<1>4. OrderStep
  BY DEF EndProcess, Up, OrderStep
<1> QED
  BY <1>2, <1>3, <1>4 DEF Told

LEMMA NextKeepsTold == IInv /\ Told /\ [Next]_vars => Told' /\ OrderStep
<1> SUFFICES ASSUME IInv, Told, [Next]_vars PROVE Told' /\ OrderStep
  OBVIOUS
<1>1. CASE Client \/ Docker
  BY <1>1, ClientAside, DockerAside
<1>2. CASE Handler \/ BeginCreate \/ BeginClose
  BY <1>2, HandlerAside
<1>3. ASSUME NEW a \in Actors, SendTyped(a) \/ Goroutine(a) PROVE Told' /\ OrderStep
  BY <1>3, SendKeepsTold, GoroutineKeepsTold
<1>4. ASSUME NEW a \in Actors, Write(a) PROVE Told' /\ OrderStep
  BY <1>4, DeliverKeepsTold, DeliverFailsKeepsTold, DeliverLateKeepsTold DEF Write
<1>5. ASSUME NEW how, how # "up", EndProcess(how) PROVE Told' /\ OrderStep
  BY <1>5, EndKeepsTold
<1>6. CASE UNCHANGED vars
  <2>1. UNCHANGED <<shell, session, sent, lost, sock, at, frames>>
    BY <1>6 DEF vars, sessionVars, wireVars
  <2> QED
    BY <2>1, UnchangedGoesOn, AsideKeepsTold DEF Aside, Waits
<1> QED
  BY <1>1, <1>2, <1>3, <1>4, <1>5, <1>6 DEF Next, Panic, Shutdown

(***************************************************************************)
(* The output callback hands the client the shell's output in order and    *)
(* without a gap, but for what came before the callback and frames whose   *)
(* time had run out; terminal_close says that the shell ended by itself    *)
(* only after all of it.                                                   *)
(***************************************************************************)
THEOREM OutputStaysInOrder == Spec => OutputInOrder
<1>1. IInv /\ Told /\ [Next]_vars =>
          [Up' => /\ sent'.chunk # sent.chunk =>
                        sent'.chunk > sent.chunk /\ Missing(sent.chunk + 1, sent'.chunk - 1) = {}
                  /\ sent'.end /\ ~sent.end /\ session.closedBy = "reader" =>
                        Missing(sent.chunk + 1, shell.out) = {}]_vars
  BY NextKeepsTold DEF OrderStep
<1>2. IInv /\ Told /\ [Next]_vars => Told'
  BY NextKeepsTold
<1> QED
  BY InitTold, <1>1, <1>2, InvariantHolds, PTL DEF Spec, OutputInOrder
================================================================================
