---------------------------- MODULE OperationStream ----------------------------
(***************************************************************************)
(* The stream of one operation: the goroutines that broadcast to it and    *)
(* the HTTP handlers that run StreamTo (operations/broadcaster.go), with   *)
(* the mutex released between a handler's copy of the log, its writes to   *)
(* the client and its wait on the notify channel.                          *)
(***************************************************************************)
EXTENDS Broadcaster

CONSTANT Streams  \* the calls of StreamTo (one for each client request)

ASSUME StreamAssumption ==
    /\ Codes \subseteq Int
    /\ {0, 1} \subseteq Codes
    /\ MaxMessages \in Nat

VARIABLES b,       \* the broadcaster
          place,   \* where each StreamTo call is
          cursor,  \* its cursor into the log
          batch,   \* the copied messages it has still to write
          done,    \* completed, as it was when the batch was copied
          wait,    \* the notify channel it picked up with the batch
          sent     \* the frames its client has received

clientVars == <<place, cursor, batch, done, wait, sent>>
streamVars == <<b, clientVars>>

StreamPlaces == {"away", "copy", "write", "select", "told", "ended", "gone"}

StreamInit ==
    /\ b = NewBroadcaster
    /\ place = [s \in Streams |-> "away"]
    /\ cursor = [s \in Streams |-> 0]
    /\ batch = [s \in Streams |-> << >>]
    /\ done = [s \in Streams |-> FALSE]
    /\ wait = [s \in Streams |-> 0]
    /\ sent = [s \in Streams |-> << >>]

(***************************************************************************)
(* The writers: the two pipe readers of a compose command, a progress      *)
(* writer and the goroutine of the operation.  They keep calling whatever  *)
(* the state of the stream is.                                             *)
(***************************************************************************)
Emit(type) ==
    /\ Len(b.messageLog) < MaxMessages
    /\ b' = Broadcast(b, type)
    /\ UNCHANGED clientVars

Finish(code) ==
    /\ b' = BroadcastComplete(b, code)
    /\ UNCHANGED clientVars

Fail ==
    /\ b' = BroadcastError(b)
    /\ UNCHANGED clientVars

--------------------------------------------------------------------------------
Open(s) ==
    /\ place[s] = "away"
    /\ place' = [place EXCEPT ![s] = "copy"]
    /\ UNCHANGED <<b, cursor, batch, done, wait, sent>>

\* Mutant: the cursor is set to the last copied index instead of past it.
CopyOffByOne(s) ==
    /\ place[s] = "copy"
    /\ batch' = [batch EXCEPT ![s] = BatchFrom(b, cursor[s])]
    /\ cursor' = [cursor EXCEPT ![s] = Len(b.messageLog) - 1]
    /\ done' = [done EXCEPT ![s] = b.completed]
    /\ wait' = [wait EXCEPT ![s] = b.notify]
    /\ place' = [place EXCEPT ![s] = "write"]
    /\ UNCHANGED <<b, sent>>

(***************************************************************************)
(* The critical section of StreamTo: batch, cursor, done and wait are      *)
(* taken together, under the broadcaster's mutex.                          *)
(***************************************************************************)
Copy(s) ==
    /\ place[s] = "copy"
    /\ batch' = [batch EXCEPT ![s] = BatchFrom(b, cursor[s])]
    /\ cursor' = [cursor EXCEPT ![s] = Len(b.messageLog)]
    /\ done' = [done EXCEPT ![s] = b.completed]
    /\ wait' = [wait EXCEPT ![s] = b.notify]
    /\ place' = [place EXCEPT ![s] = "write"]
    /\ UNCHANGED <<b, sent>>

Write(s) ==
    /\ place[s] = "write"
    /\ batch[s] # << >>
    /\ sent' = [sent EXCEPT ![s] = Append(@, Head(batch[s]))]
    /\ batch' = [batch EXCEPT ![s] = Tail(@)]
    /\ place' = [place EXCEPT ![s] = IF IsComplete(Head(batch[s])) THEN "told" ELSE @]
    /\ UNCHANGED <<b, cursor, done, wait>>

\* writeFrame returns false: the client's connection is broken.
WriteFails(s) ==
    /\ place[s] = "write"
    /\ batch[s] # << >>
    /\ place' = [place EXCEPT ![s] = "gone"]
    /\ UNCHANGED <<b, cursor, batch, done, wait, sent>>

Written(s) ==
    /\ place[s] = "write"
    /\ batch[s] = << >>
    /\ place' = [place EXCEPT ![s] = IF done[s] THEN "ended" ELSE "select"]
    /\ UNCHANGED <<b, cursor, batch, done, wait, sent>>

Wake(s) ==
    /\ place[s] = "select"
    /\ wait[s] < b.notify
    /\ place' = [place EXCEPT ![s] = "copy"]
    /\ UNCHANGED <<b, cursor, batch, done, wait, sent>>

Cancel(s) ==
    /\ place[s] = "select"
    /\ place' = [place EXCEPT ![s] = "gone"]
    /\ UNCHANGED <<b, cursor, batch, done, wait, sent>>

StreamTo(s) == Copy(s) \/ Write(s) \/ Written(s) \/ Wake(s)

StreamNext ==
    \/ \E type \in OutputTypes \ {"error"} : Emit(type)
    \/ \E code \in Codes : Finish(code)
    \/ Fail
    \/ \E s \in Streams : Open(s) \/ StreamTo(s) \/ WriteFails(s) \/ Cancel(s)

(***************************************************************************)
(* A StreamTo call is a goroutine: the Go scheduler runs it while it can   *)
(* run.  Nothing obliges a client to connect or an operation to broadcast. *)
(***************************************************************************)
StreamFairness == \A s \in Streams : WF_streamVars(StreamTo(s))

StreamingSpec == StreamInit /\ [][StreamNext]_streamVars /\ StreamFairness
--------------------------------------------------------------------------------
StreamTypeOK ==
    /\ b \in BroadcasterType(Codes)
    /\ place \in [Streams -> StreamPlaces]
    /\ cursor \in [Streams -> Nat]
    /\ batch \in [Streams -> Seq(Messages(Codes))]
    /\ done \in [Streams -> BOOLEAN]
    /\ wait \in [Streams -> Nat]
    /\ sent \in [Streams -> Seq(Messages(Codes))]

(***************************************************************************)
(* Whatever order the pipe readers, the progress writer and the operation  *)
(* broadcast in, the log holds its completion exactly when it is marked    *)
(* completed, once, and as its last message.                               *)
(***************************************************************************)
CompletionIsLast ==
    \A i \in DOMAIN b.messageLog :
        IsComplete(b.messageLog[i]) <=> (b.completed /\ i = Len(b.messageLog))

(***************************************************************************)
(* A client's frames are the log's messages from the first on: none lost,  *)
(* repeated or swapped across the unlocked gaps of StreamTo, and none      *)
(* shown twice when the stream goes round its loop again.                  *)
(***************************************************************************)
SentIsPrefix ==
    \A s \in Streams :
        /\ Len(sent[s]) <= Len(b.messageLog)
        /\ \A i \in DOMAIN sent[s] : sent[s][i] = b.messageLog[i]

(***************************************************************************)
(* StreamTo never ends a healthy stream without having sent the            *)
(* completion: when it returns because it saw completed, the batch taken   *)
(* in the same critical section held the completion message, so the return *)
(* at "if done" is never the one taken.                                    *)
(***************************************************************************)
NeverEndsUntold == \A s \in Streams : place[s] # "ended"

(***************************************************************************)
(* No lost wake-up: a stream that sleeps while the log is ahead of its     *)
(* cursor holds a channel that is already closed.                          *)
(***************************************************************************)
NoLostWakeup ==
    \A s \in Streams :
        (place[s] = "select" /\ cursor[s] < Len(b.messageLog)) => wait[s] < b.notify

(***************************************************************************)
(* The stream implements StreamSpec: a client sees the log grow, one       *)
(* message at a time.                                                      *)
(***************************************************************************)
ClientState(s) ==
    CASE place[s] = "away" -> "away"
      [] place[s] \in {"copy", "write", "select"} -> "following"
      [] place[s] = "told" -> "told"
      [] place[s] \in {"gone", "ended"} -> "gone"

Abstract == INSTANCE StreamSpec
    WITH Clients <- Streams,
         Message <- Messages(Codes),
         Completion <- { Complete(c) : c \in Codes },
         log <- b.messageLog,
         shown <- [s \in Streams |-> Len(sent[s])],
         client <- [s \in Streams |-> ClientState(s)]

ImplementsStreamSpec == Abstract!SSpec

\* Once the operation has ended every client still connected is told so.
EveryClientTold == Abstract!ToldOfTheEnd
================================================================================
