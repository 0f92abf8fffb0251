------------------------------- MODULE StreamSpec -------------------------------
(***************************************************************************)
(* What the stream of an operation promises its clients.  There is one     *)
(* log, which grows until its completion message and never afterwards.     *)
(* Each client is shown the messages of the log one at a time, in order,   *)
(* from the first; it is told when it has been shown the completion, and   *)
(* may give up (or be cut off) at any time before.                         *)
(***************************************************************************)
EXTENDS Naturals, Sequences

CONSTANTS Clients,        \* the clients that may ask for the stream
          Message,        \* the messages
          Completion      \* those of them that end the log

VARIABLES log,     \* the messages published so far
          shown,   \* how many of them each client was shown
          client   \* "away", "following", "told" or "gone"
svars == <<log, shown, client>>

Ended == log # << >> /\ log[Len(log)] \in Completion

SInit ==
    /\ log = << >>
    /\ shown = [c \in Clients |-> 0]
    /\ client = [c \in Clients |-> "away"]

(***************************************************************************)
(* One message, or an error together with the completion it causes.        *)
(***************************************************************************)
Publish ==
    /\ ~Ended
    /\ \/ \E m \in Message : log' = Append(log, m)
       \/ \E m \in Message \ Completion, c \in Completion : log' = log \o <<m, c>>
    /\ UNCHANGED <<shown, client>>

Join(c) ==
    /\ client[c] = "away"
    /\ client' = [client EXCEPT ![c] = "following"]
    /\ UNCHANGED <<log, shown>>

Show(c) ==
    /\ client[c] = "following"
    /\ shown[c] < Len(log)
    /\ shown' = [shown EXCEPT ![c] = @ + 1]
    /\ client' = [client EXCEPT
                    ![c] = IF log[shown[c] + 1] \in Completion THEN "told" ELSE @]
    /\ UNCHANGED log

Leave(c) ==
    /\ client[c] = "following"
    /\ client' = [client EXCEPT ![c] = "gone"]
    /\ UNCHANGED <<log, shown>>

SNext == Publish \/ \E c \in Clients : Join(c) \/ Show(c) \/ Leave(c)

SSpec == SInit /\ [][SNext]_svars

\* A client that follows an ended log is told of the end unless it leaves.
ToldOfTheEnd ==
    \A c \in Clients :
        (client[c] = "following" /\ Ended) ~> (client[c] \in {"told", "gone"})
================================================================================
