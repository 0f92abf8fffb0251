------------------------------ MODULE Broadcaster ------------------------------
(***************************************************************************)
(* The broadcaster of one operation (internal/operations/broadcaster.go)   *)
(* as a value.  Every method of the Go type runs under one mutex, so each  *)
(* is an operator from the broadcaster before the call to the one after.   *)
(*                                                                         *)
(* Message texts and timestamps are left out.  A message is its type and,  *)
(* for the completion, the exit code: every caller passes success = TRUE   *)
(* exactly with exit code 0.  notify counts the channels closed so far:    *)
(* a goroutine that picked up channel number w is woken once w < notify.   *)
(***************************************************************************)
EXTENDS Integers, Sequences

CONSTANTS Codes,       \* exit codes a command can end with
          MaxMessages  \* bound on the output of one stream, for model checking

Output(type) == [type |-> type, exitCode |-> 0]
Complete(code) == [type |-> "complete", exitCode |-> code]

OutputTypes == {"stdout", "stderr", "progress", "error"}
IsComplete(m) == m.type = "complete"

Messages(codes) ==
    { Output(t) : t \in OutputTypes } \cup { Complete(c) : c \in codes }

BroadcasterType(codes) ==
    [messageLog : Seq(Messages(codes)), completed : BOOLEAN, notify : Nat]

NewBroadcaster == [messageLog |-> << >>, completed |-> FALSE, notify |-> 0]

\* Mutant: the message is logged but the waiting streams are not woken.
appendLockedSilently(b, m) ==
    [b EXCEPT !.messageLog = Append(@, m)]

appendLocked(b, m) ==
    [b EXCEPT !.messageLog = Append(@, m), !.notify = @ + 1]

\* Mutant: no check for an earlier completion.
completeAgain(b, code) ==
    appendLocked([b EXCEPT !.completed = TRUE], Complete(code))

completeLocked(b, code) ==
    IF b.completed
    THEN b
    ELSE appendLocked([b EXCEPT !.completed = TRUE], Complete(code))

Broadcast(b, type) ==
    IF b.completed THEN b ELSE appendLocked(b, Output(type))

BroadcastComplete(b, code) == completeLocked(b, code)

\* Mutant: an error does not complete the stream.
BroadcastErrorOnly(b) ==
    IF b.completed THEN b ELSE appendLocked(b, Output("error"))

BroadcastError(b) ==
    IF b.completed
    THEN b
    ELSE completeLocked(appendLocked(b, Output("error")), 1)

(***************************************************************************)
(* What StreamTo copies under the mutex: the messages from position cursor *)
(* on.                                                                     *)
(***************************************************************************)
BatchFrom(b, cursor) ==
    SubSeq(b.messageLog, cursor + 1, Len(b.messageLog))
================================================================================
