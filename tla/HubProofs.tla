-------------------------------- MODULE HubProofs --------------------------------
(***************************************************************************)
(* Proofs about the hub, as StatusEvents uses it, for any number of        *)
(* clients, of places in a channel and of messages: no channel is closed   *)
(* twice, and a client gets what is broadcast without a gap.               *)
(***************************************************************************)
EXTENDS StatusEvents, SequenceTheorems, TLAPS

Readers == {"away", "joining", "reading", "leaving", "left"}
Writers == {"away", "idle", "writing", "closed"}

HubTypes ==
    /\ clients \subseteq Clients
    /\ closes \in [Clients -> Nat]
    /\ reader \in [Clients -> Readers]
    /\ writer \in [Clients -> Writers]
    /\ since \in [Clients -> Nat]

\* Whatever the messages are, the channels and the log are sequences of them.
SequencesOf(S) ==
    /\ log \in Seq(S)
    /\ send \in [Clients -> Seq(S)]
    /\ inHand \in [Clients -> Seq(S)]
    /\ received \in [Clients -> Seq(S)]
AreSequences == \E S : SequencesOf(S)

\* The pumps of a client start when it is registered, and it is registered
\* only while its read pump has not ended.
Started ==
    \A c \in Clients :
        /\ reader[c] \in {"away", "joining"} =>
              /\ c \notin clients /\ writer[c] = "away"
              /\ received[c] = << >> /\ send[c] = << >>
        /\ c \in clients => reader[c] \in {"reading", "leaving"}
        /\ writer[c] \in {"away", "idle"} => inHand[c] = << >>

\* What a client has got, and what is on its way to it.
Got(c) == received[c] \o inHand[c] \o send[c]
Follows(c) ==
    /\ since[c] + Len(Got(c)) <= Len(log)
    /\ \A i \in DOMAIN Got(c) : Got(c)[i] = log[since[c] + i]
    /\ c \in clients => since[c] + Len(Got(c)) = Len(log)
Complete == \A c \in Clients : Follows(c)

IInv == HubTypes /\ AreSequences /\ Started /\ ClosedOnce /\ Complete

--------------------------------------------------------------------------------
LEMMA InitIInv == Init => IInv
<1> SUFFICES ASSUME Init PROVE IInv
  OBVIOUS
<1> USE DEF Init, HubInit
<1>1. HubTypes /\ Started /\ ClosedOnce
  BY DEF HubTypes, Started, ClosedOnce, Readers, Writers
<1>2. SequencesOf({})
  BY EmptySeq DEF SequencesOf
<1>3. \A c \in Clients : Got(c) = << >>
  BY ConcatEmptySeq, EmptySeq DEF Got
<1>4. Complete
  <2>1. Len(<< >>) = 0 /\ DOMAIN << >> = {}
    OBVIOUS
  <2> HIDE DEF Got
  <2> SUFFICES ASSUME NEW c \in Clients PROVE Follows(c)
    BY DEF Complete
  <2>2. Got(c) = << >> /\ since[c] = 0 /\ Len(log) = 0 /\ c \notin clients
    BY <1>3, <2>1
  <2> QED
    BY <2>1, <2>2 DEF Follows
<1> QED
  BY <1>1, <1>2, <1>4 DEF IInv, AreSequences

\* What a client has got is a sequence.
LEMMA GotIsSequence ==
    ASSUME NEW S, SequencesOf(S), NEW c \in Clients
    PROVE  /\ Got(c) \in Seq(S) /\ Len(Got(c)) \in Nat /\ DOMAIN Got(c) = 1..Len(Got(c))
           /\ received[c] \in Seq(S) /\ inHand[c] \in Seq(S) /\ send[c] \in Seq(S)
<1>1. received[c] \in Seq(S) /\ inHand[c] \in Seq(S) /\ send[c] \in Seq(S)
  BY DEF SequencesOf
<1>2. received[c] \o inHand[c] \in Seq(S)
  BY <1>1, ConcatProperties
<1>3. Got(c) \in Seq(S)
  BY <1>1, <1>2, ConcatProperties DEF Got
<1> QED
  BY <1>1, <1>3, LenProperties

\* As long as nothing is broadcast, what has been got follows the log.
LEMMA SameGot ==
    ASSUME Complete, log' = log, since' = since, clients' \subseteq clients,
           \A c \in Clients : Got(c)' = Got(c)
    PROVE  Complete'
<1> SUFFICES ASSUME NEW c \in Clients PROVE Follows(c)'
  BY DEF Complete
<1>1. Follows(c) /\ Got(c)' = Got(c)
  BY DEF Complete
<1> HIDE DEF Got
<1> QED
  BY <1>1 DEF Follows

--------------------------------------------------------------------------------
\* The loop of Run.

LEMMA RegisterKeepsIInv == ASSUME IInv, NEW c \in Clients, Register(c) PROVE IInv'
<1> USE DEF IInv, Register
<1>1. PICK S : SequencesOf(S)
  BY DEF AreSequences
<1>2. HubTypes' /\ SequencesOf(S)'
  BY <1>1, LenProperties DEF HubTypes, SequencesOf, Readers, Writers
<1>3. Started' /\ ClosedOnce'
  BY DEF HubTypes, Started, ClosedOnce
<1>4. \A d \in Clients : Got(d)' = Got(d)
  BY DEF Got
<1>5. Got(c) = << >>
  BY ConcatEmptySeq, EmptySeq DEF Started, Got
<1>6. ASSUME NEW d \in Clients PROVE Follows(d)'
  <2>1. Got(d)' = Got(d) /\ Follows(d) /\ since \in [Clients -> Nat] /\ Len(log) \in Nat
    BY <1>1, <1>4, LenProperties DEF Complete, HubTypes, SequencesOf
  <2>2. CASE d = c
    BY <1>5, <2>1, <2>2 DEF Follows
  <2>3. CASE d # c
    BY <2>1, <2>3 DEF Follows
  <2> QED
    BY <2>2, <2>3
<1> QED
  BY <1>2, <1>3, <1>6 DEF AreSequences, Complete

LEMMA UnregisterKeepsIInv == ASSUME IInv, NEW c \in Clients, Unregister(c) PROVE IInv'
<1> USE DEF IInv, Unregister
<1>1. HubTypes' /\ AreSequences'
  <2>1. HubTypes'
    BY DEF HubTypes, Readers
  <2>2. AreSequences'
    BY DEF AreSequences, SequencesOf
  <2> QED
    BY <2>1, <2>2
<1>2. Started' /\ ClosedOnce'
  BY DEF HubTypes, Started, ClosedOnce
<1>3. Complete'
  BY SameGot DEF Got
<1> QED
  BY <1>1, <1>2, <1>3

LEMMA BroadcastKeepsIInv == ASSUME IInv, NEW m, Broadcast(m) PROVE IInv'
<1> DEFINE Full == { c \in clients : Len(send[c]) = Capacity }
<1>0. /\ log' = Append(log, m)
      /\ clients' = clients \ Full
      /\ closes' = [c \in Clients |-> IF c \in Full THEN closes[c] + 1 ELSE closes[c]]
      /\ send' = [c \in Clients |-> IF c \in clients \ Full
                                    THEN Append(send[c], m) ELSE send[c]]
      /\ UNCHANGED <<pumpVars, since>>
  BY DEF Broadcast
<1> HIDE DEF Full
<1>1. PICK S : SequencesOf(S)
  BY DEF IInv, AreSequences
<1> DEFINE T == S \cup {m}
<1>2. SequencesOf(T)
  BY <1>1, SeqMonotonic DEF SequencesOf
<1> HIDE DEF T
<1>3. m \in T
  BY DEF T
<1>4. SequencesOf(T)'
  BY <1>0, <1>2, <1>3, AppendProperties DEF SequencesOf, pumpVars
<1>5. HubTypes' /\ ClosedOnce'
  BY <1>0 DEF IInv, HubTypes, Started, ClosedOnce, pumpVars, Full
<1>6. Started'
  BY <1>0 DEF IInv, HubTypes, Started, pumpVars, Full
<1>7. ASSUME NEW c \in Clients PROVE Follows(c)'
  <2>1. /\ Got(c) \in Seq(T) /\ Len(Got(c)) \in Nat /\ DOMAIN Got(c) = 1..Len(Got(c))
        /\ received[c] \in Seq(T) /\ inHand[c] \in Seq(T) /\ send[c] \in Seq(T)
    BY <1>2, GotIsSequence
  <2>2. /\ Len(log) \in Nat /\ Len(log') = Len(log) + 1
        /\ \A i \in 1..Len(log) : log'[i] = log[i]
        /\ log'[Len(log) + 1] = m
    BY <1>0, <1>2, <1>3, AppendProperties, LenProperties DEF SequencesOf
  <2>3. Follows(c) /\ since[c] \in Nat /\ since' = since
    BY <1>0 DEF IInv, Complete, HubTypes
  <2>4. CASE c \in clients \ Full
    <3>1. Got(c)' = Append(Got(c), m)
      <4>1. send'[c] = Append(send[c], m) /\ Append(send[c], m) = send[c] \o <<m>>
        BY <1>0, <1>3, <2>1, <2>4, AppendIsConcat
      <4>2. received[c] \o inHand[c] \in Seq(T) /\ <<m>> \in Seq(T)
        BY <1>3, <2>1, ConcatProperties
      <4>3. Got(c)' = (received[c] \o inHand[c]) \o (send[c] \o <<m>>)
        BY <1>0, <4>1 DEF Got, pumpVars
      <4>4. (received[c] \o inHand[c]) \o (send[c] \o <<m>>)
               = ((received[c] \o inHand[c]) \o send[c]) \o <<m>>
        <5> DEFINE a == received[c] \o inHand[c]
                   b == send[c]
                   d == <<m>>
        <5>1. a \in Seq(T) /\ b \in Seq(T) /\ d \in Seq(T)
          BY <2>1, <4>2
        <5> HIDE DEF a, b, d
        <5>2. a \o (b \o d) = (a \o b) \o d
          BY <5>1, ConcatAssociative
        <5> QED
          BY <5>2 DEF a, b, d
      <4>5. Got(c)' = Got(c) \o <<m>>
        BY <4>3, <4>4 DEF Got
      <4> QED
        BY <1>3, <2>1, <4>5, AppendIsConcat
    <3>2. /\ Len(Got(c)') = Len(Got(c)) + 1 /\ DOMAIN (Got(c)') = 1..Len(Got(c)) + 1
          /\ \A i \in 1..Len(Got(c)) : Got(c)'[i] = Got(c)[i]
          /\ Got(c)'[Len(Got(c)) + 1] = m
      BY <1>3, <2>1, <3>1, AppendProperties, LenProperties
    <3> HIDE DEF Got
    <3>3. since[c] + Len(Got(c)) = Len(log)
      BY <2>3, <2>4 DEF Follows
    <3>4. ASSUME NEW i \in 1..Len(Got(c)) + 1 PROVE Got(c)'[i] = log'[since[c] + i]
      <4>1. CASE i = Len(Got(c)) + 1
        BY <2>1, <2>2, <2>3, <3>2, <3>3, <4>1
      <4>2. CASE i # Len(Got(c)) + 1
        <5>1. i \in 1..Len(Got(c)) /\ since[c] + i \in 1..Len(log)
          BY <2>1, <2>2, <2>3, <3>3, <4>2
        <5> QED
          BY <2>1, <2>2, <2>3, <3>2, <5>1 DEF Follows
      <4> QED
        BY <4>1, <4>2
    <3> QED
      BY <2>1, <2>2, <2>3, <3>2, <3>3, <3>4 DEF Follows
  <2>5. CASE c \notin clients \ Full
    <3>1. Got(c)' = Got(c) /\ c \notin clients'
      BY <1>0, <2>5 DEF Got, pumpVars
    <3> HIDE DEF Got
    <3>2. ASSUME NEW i \in 1..Len(Got(c)) PROVE Got(c)[i] = log'[since[c] + i]
      <4>1. since[c] + i \in 1..Len(log)
        BY <2>1, <2>2, <2>3 DEF Follows
      <4> QED
        BY <2>1, <2>2, <2>3, <4>1 DEF Follows
    <3> QED
      BY <2>1, <2>2, <2>3, <3>1, <3>2 DEF Follows
  <2> QED
    BY <2>4, <2>5
<1> QED
  BY <1>4, <1>5, <1>6, <1>7 DEF IInv, AreSequences, Complete

--------------------------------------------------------------------------------
\* The pumps.

LEMMA TakeKeepsIInv == ASSUME IInv, NEW c \in Clients, Take(c) PROVE IInv'
<1>1. PICK S : SequencesOf(S)
  BY DEF IInv, AreSequences
<1> DEFINE h == Head(send[c])
           t == Tail(send[c])
<1>2. /\ writer[c] = "idle" /\ writer' = [writer EXCEPT ![c] = "writing"]
      /\ inHand' = [inHand EXCEPT ![c] = <<h>>]
      /\ send' = [send EXCEPT ![c] = t]
      /\ UNCHANGED <<clients, closes, reader, received, log, since>>
  BY DEF Take
<1>3. /\ received[c] \in Seq(S) /\ inHand[c] \in Seq(S) /\ send[c] \in Seq(S)
      /\ send[c] # << >>
  BY <1>1 DEF Take, SequencesOf
<1>4. h \in S /\ t \in Seq(S) /\ <<h>> \in Seq(S)
  BY <1>3, HeadTailProperties
<1>5. <<h>> \o t = send[c]
  <2>1. /\ <<h>> \o t \in Seq(S) /\ Len(<<h>> \o t) = 1 + Len(t)
        /\ \A i \in 1..1 + Len(t) :
              (<<h>> \o t)[i] = IF i <= 1 THEN <<h>>[i] ELSE t[i - 1]
    BY <1>4, ConcatProperties
  <2>2. /\ Len(send[c]) \in Nat \ {0} /\ Len(t) = Len(send[c]) - 1 /\ h = send[c][1]
        /\ \A i \in 1..Len(t) : t[i] = send[c][i + 1]
    BY <1>3, HeadTailProperties, EmptySeq
  <2> HIDE DEF h, t
  <2>3. ASSUME NEW i \in 1..Len(send[c]) PROVE (<<h>> \o t)[i] = send[c][i]
    <3>1. CASE i = 1
      BY <2>1, <2>2, <3>1
    <3>2. CASE i # 1
      <4>1. i \in 1..1 + Len(t) /\ ~(i <= 1) /\ i - 1 \in 1..Len(t) /\ (i - 1) + 1 = i
        BY <2>2, <3>2
      <4> QED
        BY <2>1, <2>2, <4>1
    <3> QED
      BY <3>1, <3>2
  <2>4. Len(<<h>> \o t) = Len(send[c])
    BY <2>1, <2>2
  <2> QED
    BY <1>3, <2>1, <2>3, <2>4, SeqEqual
<1> HIDE DEF h, t
<1>6. SequencesOf(S)'
  BY <1>1, <1>2, <1>4 DEF SequencesOf
<1>7. HubTypes' /\ ClosedOnce'
  BY <1>2 DEF IInv, HubTypes, ClosedOnce, Writers
<1>8. Started'
  BY <1>1, <1>2 DEF IInv, HubTypes, Started, SequencesOf
<1>9. ASSUME NEW d \in Clients PROVE Got(d)' = Got(d)
  <2>1. CASE d = c
    <3>1. Got(c)' = (received[c] \o <<h>>) \o t
      BY <1>1, <1>2 DEF Got, SequencesOf
    <3>2. (received[c] \o <<h>>) \o t = received[c] \o (<<h>> \o t)
      <4> DEFINE a == received[c]
                 b == <<h>>
      <4>1. a \in Seq(S) /\ b \in Seq(S) /\ t \in Seq(S)
        BY <1>3, <1>4
      <4> HIDE DEF a, b
      <4>2. (a \o b) \o t = a \o (b \o t)
        BY <4>1, ConcatAssociative
      <4> QED
        BY <4>2 DEF a, b
    <3>3. inHand[c] = << >> /\ received[c] \o << >> = received[c]
      BY <1>2, <1>3, ConcatEmptySeq DEF IInv, Started
    <3> QED
      BY <1>5, <2>1, <3>1, <3>2, <3>3 DEF Got
  <2>2. CASE d # c
    BY <1>1, <1>2, <2>2 DEF Got, SequencesOf
  <2> QED
    BY <2>1, <2>2
<1>10. Complete'
  BY <1>2, <1>9, SameGot DEF IInv
<1> QED
  BY <1>6, <1>7, <1>8, <1>10 DEF IInv, AreSequences

LEMMA WrittenKeepsIInv == ASSUME IInv, NEW c \in Clients, Written(c) PROVE IInv'
<1>1. PICK S : SequencesOf(S)
  BY DEF IInv, AreSequences
<1>2. /\ received[c] \in Seq(S) /\ inHand[c] \in Seq(S) /\ << >> \in Seq(S)
      /\ received[c] \o inHand[c] \in Seq(S)
  BY <1>1, ConcatProperties, EmptySeq DEF SequencesOf
<1>3. SequencesOf(S)'
  BY <1>1, <1>2 DEF Written, SequencesOf
<1>4. HubTypes' /\ ClosedOnce' /\ Started'
  BY <1>1 DEF Written, IInv, HubTypes, ClosedOnce, Started, Readers, Writers, SequencesOf
<1>5. ASSUME NEW d \in Clients PROVE Got(d)' = Got(d)
  <2>1. CASE d = c
    <3>1. Got(c)' = ((received[c] \o inHand[c]) \o << >>) \o send[c]
      BY <1>1 DEF Written, Got, SequencesOf
    <3> QED
      BY <1>2, <2>1, <3>1, ConcatEmptySeq DEF Got
  <2>2. CASE d # c
    BY <1>1, <2>2 DEF Written, Got, SequencesOf
  <2> QED
    BY <2>1, <2>2
<1>6. Complete'
  BY <1>5, SameGot DEF IInv, Written
<1> QED
  BY <1>3, <1>4, <1>6 DEF IInv, AreSequences

LEMMA MoveKeepsIInv ==
    ASSUME IInv, NEW c \in Clients,
           Connect(c) \/ ReadFails(c) \/ WriteFails(c) \/ Drained(c)
    PROVE  IInv'
<1>1. /\ UNCHANGED <<clients, send, closes, inHand, received, log, since>>
      /\ \/ UNCHANGED writer
         \/ writer[c] \notin {"away"} /\ writer' = [writer EXCEPT ![c] = "closed"]
      /\ \/ UNCHANGED reader
         \/ reader[c] = "away" /\ reader' = [reader EXCEPT ![c] = "joining"]
         \/ reader[c] = "reading" /\ reader' = [reader EXCEPT ![c] = "leaving"]
  BY DEF Connect, ReadFails, WriteFails, Drained
<1>2. HubTypes' /\ AreSequences'
  BY <1>1 DEF IInv, HubTypes, AreSequences, SequencesOf, Readers, Writers
<1>3. ClosedOnce'
  BY <1>1 DEF IInv, HubTypes, Started, ClosedOnce
<1>4. Started'
  BY <1>1 DEF IInv, HubTypes, Started
<1>5. Complete'
  BY <1>1, SameGot DEF IInv, Got
<1> QED
  BY <1>2, <1>3, <1>4, <1>5 DEF IInv

--------------------------------------------------------------------------------
\* Whatever the monitor does, it does to the hub by Broadcast.
LEMMA NextKeepsIInv == ASSUME IInv, [Next]_vars PROVE IInv'
<1>1. CASE UNCHANGED hubVars
  BY <1>1 DEF hubVars, pumpVars, IInv, HubTypes, AreSequences, SequencesOf, Started,
              ClosedOnce, Complete, Follows, Got
<1>2. CASE \E m : Broadcast(m)
  BY <1>2, BroadcastKeepsIInv
<1>3. CASE \E c \in Clients : Run(c) \/ Pumps(c) \/ Wire(c)
  BY <1>3, RegisterKeepsIInv, UnregisterKeepsIInv, TakeKeepsIInv, WrittenKeepsIInv,
     MoveKeepsIInv DEF Run, Pumps, Wire
<1>4. \/ UNCHANGED hubVars
      \/ \E m : Broadcast(m)
      \/ \E c \in Clients : Run(c) \/ Pumps(c) \/ Wire(c)
  BY DEF Next, vars, Change, Cut, Monitor, StartStream, ReadEvent, EndOfStream,
         BroadcastContainerStatus, DecodeError, Task, AskCompose, AskFails,
         BroadcastStackStatus
<1> QED
  BY <1>1, <1>2, <1>3, <1>4

LEMMA InvariantHolds == Spec => []IInv
<1>1. IInv /\ [Next]_vars => IInv'
  BY NextKeepsIInv
<1> QED
  BY InitIInv, <1>1, PTL DEF Spec

(***************************************************************************)
(* No client's channel is closed twice or sent to after it was closed,     *)
(* whether it is dropped for being slow, leaves, or both (Run).            *)
(***************************************************************************)
THEOREM NeverClosedTwice == Spec => []ClosedOnce
<1>1. IInv => ClosedOnce
  BY DEF IInv
<1> QED
  BY <1>1, InvariantHolds, PTL

(***************************************************************************)
(* A client gets every message from its registration on, in order, up to   *)
(* where it is dropped, for any capacity of its channel (Run, writePump).  *)
(***************************************************************************)
THEOREM NoGap == Spec => []NothingSkipped
<1>1. IInv => NothingSkipped
  BY DEF IInv, Complete, Follows, Got, NothingSkipped
<1> QED
  BY <1>1, InvariantHolds, PTL
================================================================================
