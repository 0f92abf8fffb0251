---------------------------------- MODULE Hub -----------------------------------
(***************************************************************************)
(* The websocket hub (internal/websocket/hub.go): the loop of Run, which   *)
(* takes registrations, departures and broadcasts one at a time over       *)
(* unbuffered channels, and the read and write pump of each client.  What  *)
(* is broadcast, and by whom, is up to the module that extends this one.   *)
(*                                                                         *)
(* Signing and sealing of the frames (agentsign) is left out.              *)
(***************************************************************************)
EXTENDS Naturals, Sequences

CONSTANTS Clients,   \* the connections that are made
          Capacity   \* of a client's send channel, 256 in the code

ASSUME HubAssumption == Capacity \in Nat \ {0}

VARIABLES clients,   \* the clients of the hub
          send,      \* what each send channel holds
          closes,    \* how often each send channel has been closed
          reader,    \* where ServeWebSocket and then readPump of each client is
          writer,    \* where its writePump is
          inHand,    \* the message writePump is writing
          received,  \* what the other end has received
          log,       \* history: what has been broadcast
          since      \* history: how much had been when a client registered

pumpVars == <<reader, writer, inHand, received>>
hubVars == <<clients, send, closes, pumpVars, log, since>>

HubInit ==
    /\ clients = {}
    /\ send = [c \in Clients |-> << >>]
    /\ closes = [c \in Clients |-> 0]
    /\ reader = [c \in Clients |-> "away"]
    /\ writer = [c \in Clients |-> "away"]
    /\ inHand = [c \in Clients |-> << >>]
    /\ received = [c \in Clients |-> << >>]
    /\ log = << >>
    /\ since = [c \in Clients |-> 0]

--------------------------------------------------------------------------------
\* Hub.Run.

Register(c) ==
    /\ reader[c] = "joining"
    /\ clients' = clients \cup {c}
    /\ since' = [since EXCEPT ![c] = Len(log)]
    /\ reader' = [reader EXCEPT ![c] = "reading"]
    /\ writer' = [writer EXCEPT ![c] = "idle"]
    /\ UNCHANGED <<send, closes, inHand, received, log>>

\* Mutant: the channel is closed whether or not the client is still known.
UnregisterUnchecked(c) ==
    /\ reader[c] = "leaving"
    /\ closes' = [closes EXCEPT ![c] = @ + 1]
    /\ clients' = clients \ {c}
    /\ reader' = [reader EXCEPT ![c] = "left"]
    /\ UNCHANGED <<send, writer, inHand, received, log, since>>

Unregister(c) ==
    /\ reader[c] = "leaving"
    /\ closes' = IF c \in clients THEN [closes EXCEPT ![c] = @ + 1] ELSE closes
    /\ clients' = clients \ {c}
    /\ reader' = [reader EXCEPT ![c] = "left"]
    /\ UNCHANGED <<send, writer, inHand, received, log, since>>

\* Mutant: a client that is dropped keeps its channel open.
BroadcastNotClosing(m) ==
    LET Full == { c \in clients : Len(send[c]) = Capacity }
    IN /\ log' = Append(log, m)
       /\ clients' = clients \ Full
       /\ send' = [c \in Clients |-> IF c \in clients \ Full
                                     THEN Append(send[c], m) ELSE send[c]]
       /\ UNCHANGED <<closes, pumpVars, since>>

\* Mutant: a client that is too slow misses the message and stays.
BroadcastSkipping(m) ==
    /\ log' = Append(log, m)
    /\ send' = [c \in Clients |-> IF c \in clients /\ Len(send[c]) < Capacity
                                  THEN Append(send[c], m) ELSE send[c]]
    /\ UNCHANGED <<clients, closes, pumpVars, since>>

\* A message from the broadcast channel: a client whose channel is full is
\* dropped, and its channel closed.
Broadcast(m) ==
    LET Full == { c \in clients : Len(send[c]) = Capacity }
    IN /\ log' = Append(log, m)
       /\ clients' = clients \ Full
       /\ closes' = [c \in Clients |-> IF c \in Full THEN closes[c] + 1 ELSE closes[c]]
       /\ send' = [c \in Clients |-> IF c \in clients \ Full
                                     THEN Append(send[c], m) ELSE send[c]]
       /\ UNCHANGED <<pumpVars, since>>
--------------------------------------------------------------------------------
\* The pumps.

\* ServeWebSocket, up to its send on the register channel.
Connect(c) ==
    /\ reader[c] = "away"
    /\ reader' = [reader EXCEPT ![c] = "joining"]
    /\ UNCHANGED <<clients, send, closes, writer, inHand, received, log, since>>

(***************************************************************************)
(* The read fails: the other end has closed, or writePump has.             *)
(***************************************************************************)
ReadFails(c) ==
    /\ reader[c] = "reading"
    /\ reader' = [reader EXCEPT ![c] = "leaving"]
    /\ UNCHANGED <<clients, send, closes, writer, inHand, received, log, since>>

Take(c) ==
    /\ writer[c] = "idle"
    /\ send[c] # << >>
    /\ inHand' = [inHand EXCEPT ![c] = <<Head(send[c])>>]
    /\ send' = [send EXCEPT ![c] = Tail(@)]
    /\ writer' = [writer EXCEPT ![c] = "writing"]
    /\ UNCHANGED <<clients, closes, reader, received, log, since>>

Written(c) ==
    /\ writer[c] = "writing"
    /\ received' = [received EXCEPT ![c] = @ \o inHand[c]]
    /\ inHand' = [inHand EXCEPT ![c] = << >>]
    /\ writer' = [writer EXCEPT ![c] = "idle"]
    /\ UNCHANGED <<clients, send, closes, reader, log, since>>

\* The write fails, by itself or because readPump has cancelled its context.
WriteFails(c) ==
    /\ writer[c] = "writing"
    /\ writer' = [writer EXCEPT ![c] = "closed"]
    /\ UNCHANGED <<clients, send, closes, reader, inHand, received, log, since>>

\* The range over a closed send channel ends once it is drained.
Drained(c) ==
    /\ writer[c] = "idle"
    /\ send[c] = << >> /\ closes[c] > 0
    /\ writer' = [writer EXCEPT ![c] = "closed"]
    /\ UNCHANGED <<clients, send, closes, reader, inHand, received, log, since>>

Run(c) == Register(c) \/ Unregister(c)
Pumps(c) == Take(c) \/ Drained(c)
Wire(c) == Connect(c) \/ ReadFails(c) \/ Written(c) \/ WriteFails(c)

(***************************************************************************)
(* Goroutines run, a select takes each of its ready cases in the end, a    *)
(* connection that writePump has closed or readPump cancelled fails.  A    *)
(* client that is slow to read may block its writePump for good: the write *)
(* has no deadline.                                                        *)
(***************************************************************************)
HubFairness ==
    \A c \in Clients :
        /\ WF_hubVars(Run(c))
        /\ WF_hubVars(Pumps(c))
        /\ WF_hubVars(writer[c] = "closed" /\ ReadFails(c))
        /\ WF_hubVars(reader[c] \in {"leaving", "left"} /\ WriteFails(c))
--------------------------------------------------------------------------------
(***************************************************************************)
(* No send channel is closed twice, and none that is closed is sent to,    *)
(* either of which would panic the hub: a client is dropped for being slow *)
(* and leaves by itself, in any order.                                     *)
(***************************************************************************)
ClosedOnce ==
    \A c \in Clients : closes[c] = IF c \in clients \/ reader[c] \in {"away", "joining"}
                                   THEN 0 ELSE 1

(***************************************************************************)
(* A client gets every message from its registration on, in order, up to   *)
(* where it is dropped: one that cannot keep up is cut off, it never       *)
(* misses a message in between.                                            *)
(***************************************************************************)
NothingSkipped ==
    \A c \in Clients :
        LET got == received[c] \o inHand[c] \o send[c]
        IN /\ since[c] + Len(got) <= Len(log)
           /\ \A i \in DOMAIN got : got[i] = log[since[c] + i]
           /\ c \in clients => since[c] + Len(got) = Len(log)

(***************************************************************************)
(* A client that the hub has dropped for being slow is disconnected, so    *)
(* that it knows it misses messages, unless it has stopped reading and     *)
(* blocks its writePump for good.                                          *)
(***************************************************************************)
DroppedIsDisconnected ==
    \A c \in Clients :
        (reader[c] = "reading" /\ c \notin clients)
            ~> (reader[c] = "left" \/ [](writer[c] = "writing"))
================================================================================
