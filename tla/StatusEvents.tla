------------------------------ MODULE StatusEvents ------------------------------
(***************************************************************************)
(* The status stream of one stack: docker's events, the event monitor that *)
(* turns them into messages (internal/docker/event_monitor.go), and the    *)
(* hub that passes these on.  For each container event the monitor         *)
(* broadcasts the container's status and starts a goroutine that, a second *)
(* later, asks compose for the state of the stack and broadcasts that.     *)
(*                                                                         *)
(* A container's state is reduced to what the events tell apart; changes   *)
(* are numbered, so that a status says as of which change it was taken.    *)
(***************************************************************************)
EXTENDS Hub, FiniteSets

CONSTANTS Containers,  \* the containers of the stack
          MaxChanges,  \* bound on the changes of their states
          MaxCuts      \* bound on the ends of docker's event stream

ASSUME StatusAssumption == MaxChanges \in Nat /\ MaxCuts \in Nat

VARIABLES state,    \* container -> its state
          changes,  \* how many changes there have been
          cuts,     \* how many times the event stream has ended
          events,   \* the events docker has written and the monitor not read
          stream,   \* the "docker events" process as the monitor sees it
          monitor,  \* whether the monitor reads the stream or handles an event
          tasks     \* the goroutines of checkAndBroadcastStackStatus; those that
                    \* have failed are kept

dockerVars == <<state, changes, cuts>>
monitorVars == <<events, stream, monitor, tasks>>
vars == <<hubVars, dockerVars, monitorVars>>

States == {"running", "unhealthy", "paused", "exited"}

\* mapDockerActionToStatus, for the action that leads to a state.
mapDockerActionToStatus(s) ==
    CASE s = "exited" -> "stopped"
      [] s = "paused" -> "paused"
      [] s \in {"running", "unhealthy"} -> "running"

ContainerStatus(e) == [type |-> "container_status", of |-> e.container,
                       status |-> mapDockerActionToStatus(e.state), asOf |-> e.asOf]

\* Each case rules out those before it in the code.
determineStackStatus(running, stopped, hasUnhealthy) ==
    CASE running + stopped = 0 -> "down"
      [] hasUnhealthy -> "unhealthy"
      [] running > 0 /\ stopped = 0 /\ ~hasUnhealthy -> "running"
      [] running = 0 /\ stopped > 0 -> "stopped"
      [] running > 0 /\ stopped > 0 /\ ~hasUnhealthy -> "partial"

In(states) == { k \in Containers : state[k] \in states }

\* What compose ps says now, which leaves out the containers that have exited.
StackStatus ==
    [type |-> "stack_status", of |-> "stack", asOf |-> changes,
     status |-> determineStackStatus(Cardinality(In({"running", "unhealthy"})),
                                     Cardinality(In({"paused"})),
                                     In({"unhealthy"}) # {})]

Status == {"running", "stopped", "paused", "down", "unhealthy", "partial"}
Message == [type : {"container_status", "stack_status"}, of : Containers \cup {"stack"},
            status : Status, asOf : 0..MaxChanges]

Here(at) == { t \in tasks : t.at = at }

Init ==
    /\ HubInit
    /\ state = [k \in Containers |-> "running"]
    /\ changes = 0
    /\ cuts = 0
    /\ events = << >>
    /\ stream = "off"
    /\ monitor = "reading"
    /\ tasks = {}
--------------------------------------------------------------------------------
\* Docker.

Change(k, s) ==
    /\ changes < MaxChanges
    /\ s # state[k] /\ (s = "paused" => state[k] # "exited")
    /\ state' = [state EXCEPT ![k] = s]
    /\ changes' = changes + 1
    /\ events' = IF stream = "on"
                 THEN Append(events, [container |-> k, state |-> s, asOf |-> changes + 1])
                 ELSE events
    /\ UNCHANGED <<hubVars, cuts, stream, monitor, tasks>>

\* The stream ends after a whole event, or in the middle of one.
Cut ==
    /\ stream = "on" /\ cuts < MaxCuts
    /\ cuts' = cuts + 1
    /\ stream' \in {"ended", "torn"}
    /\ UNCHANGED <<hubVars, state, changes, events, monitor, tasks>>
--------------------------------------------------------------------------------
\* monitorDockerEvents and streamDockerEvents.

StartStream ==
    /\ stream = "off"
    /\ stream' = "on"
    /\ UNCHANGED <<hubVars, dockerVars, events, monitor, tasks>>

ReadEvent ==
    /\ monitor = "reading" /\ events # << >>
    /\ monitor' = "broadcasting"
    /\ UNCHANGED <<hubVars, dockerVars, events, stream, tasks>>

\* Mutant: no goroutine is started for the stack while it has one.
BroadcastDebounced ==
    /\ monitor = "broadcasting"
    /\ Broadcast(ContainerStatus(Head(events)))
    /\ tasks' = IF Here("sleep") \cup Here("send") # {} THEN tasks
                ELSE tasks \cup {[event |-> Head(events).asOf, at |-> "sleep"]}
    /\ events' = Tail(events)
    /\ monitor' = "reading"
    /\ UNCHANGED <<dockerVars, stream>>

(***************************************************************************)
(* handleDockerEvent: the hub takes the container's status and a goroutine *)
(* is started for the stack.                                               *)
(***************************************************************************)
BroadcastContainerStatus ==
    /\ monitor = "broadcasting"
    /\ Broadcast(ContainerStatus(Head(events)))
    /\ tasks' = tasks \cup {[event |-> Head(events).asOf, at |-> "sleep"]}
    /\ events' = Tail(events)
    /\ monitor' = "reading"
    /\ UNCHANGED <<dockerVars, stream>>

\* At io.EOF the monitor waits for the process and starts over.
EndOfStream ==
    /\ monitor = "reading" /\ events = << >>
    /\ stream = "ended"
    /\ stream' = "off"
    /\ UNCHANGED <<hubVars, dockerVars, events, monitor, tasks>>

\* Any other error is logged and the next event decoded; a json.Decoder
\* that has failed returns the same error for ever.
DecodeError ==
    /\ monitor = "reading" /\ events = << >>
    /\ stream = "torn"
    /\ UNCHANGED vars

\* docker compose ps, whose failure ends the goroutine.
AskCompose(t) ==
    /\ t \in tasks /\ t.at = "sleep"
    /\ tasks' = (tasks \ {t}) \cup {[event |-> t.event, at |-> "send", message |-> StackStatus]}
    /\ UNCHANGED <<hubVars, dockerVars, events, stream, monitor>>

AskFails(t) ==
    /\ t \in tasks /\ t.at = "sleep"
    /\ tasks' = (tasks \ {t}) \cup {[event |-> t.event, at |-> "failed"]}
    /\ UNCHANGED <<hubVars, dockerVars, events, stream, monitor>>

BroadcastStackStatus(t) ==
    /\ t \in tasks /\ t.at = "send"
    /\ Broadcast(t.message)
    /\ tasks' = tasks \ {t}
    /\ UNCHANGED <<dockerVars, events, stream, monitor>>

Monitor == StartStream \/ ReadEvent \/ BroadcastContainerStatus \/ EndOfStream
Task(t) == AskCompose(t) \/ BroadcastStackStatus(t)

Next ==
    \/ \E k \in Containers, s \in States : Change(k, s)
    \/ Cut
    \/ Monitor \/ DecodeError
    \/ \E t \in tasks : Task(t) \/ AskFails(t)
    \/ \E c \in Clients : (Run(c) \/ Pumps(c) \/ Wire(c)) /\ UNCHANGED <<dockerVars, monitorVars>>

(***************************************************************************)
(* The monitor and its goroutines run, and the hub's loop serves whoever   *)
(* waits for it.  Docker never has to change anything, nor compose to      *)
(* fail.                                                                   *)
(***************************************************************************)
Fairness ==
    /\ WF_vars(Monitor)
    /\ \A n \in 1..MaxChanges : WF_vars(\E t \in tasks : t.event = n /\ (Task(t) \/ AskFails(t)))
    /\ HubFairness

Spec == Init /\ [][Next]_vars /\ Fairness
--------------------------------------------------------------------------------
(***************************************************************************)
(* No change is left unreported: once docker has told of it, a state of    *)
(* the stack taken after it is broadcast, unless compose fails when asked. *)
(* (The states may be broadcast in another order than they were taken in.) *)
(***************************************************************************)
StatusFollows ==
    \A n \in 1..MaxChanges :
        (\E i \in DOMAIN events : events[i].asOf = n)
            ~> (\/ \E i \in DOMAIN log : log[i].type = "stack_status" /\ log[i].asOf >= n
                \/ \E t \in Here("failed") : t.event = n)

(***************************************************************************)
(* What the log says of an end of the stream, "docker event stream error,  *)
(* retrying in 5s" (event_monitor.go): the monitor connects again.         *)
(***************************************************************************)
MonitorReconnects == (stream \in {"ended", "torn"}) ~> (stream = "on")
================================================================================
