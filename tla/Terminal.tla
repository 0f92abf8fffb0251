-------------------------------- MODULE Terminal --------------------------------
(***************************************************************************)
(* One terminal (internal/terminal): the websocket, the handler that reads *)
(* it, and the session with a shell in a container, whose goroutines write *)
(* to the same websocket through the FrameWriter of internal/agentsign.    *)
(* The handler, the goroutine that reads the shell's output, the one that  *)
(* warns of a silent shell and the one that reports the end are the        *)
(* actors; the agent's shutdown is another.  Other terminals are seen only *)
(* where they touch this one: they may hold the manager's mutex.           *)
(*                                                                         *)
(* A resize, which holds the session's mutex for the time of a docker call,*)
(* is one step; so is a message that is only answered.                     *)
(***************************************************************************)
EXTENDS Naturals, Sequences, SequencesExt

CONSTANTS MaxOutput,    \* bound on the chunks the shell writes
          MaxMessages   \* bound on the messages of the client

ASSUME TerminalAssumption == MaxOutput \in Nat /\ MaxMessages \in Nat

VARIABLES agent,     \* the process: up, down or panicked
          sock,      \* the websocket
          asked,     \* messages the client has sent
          at,        \* where each actor is
          held,      \* the handler's variable session: not set, set, cleared
          manager,   \* who holds the manager's mutex
          lock,      \* who holds the session's mutex over the call to docker
          session,   \* the Session object and its entry in the manager's map
          shell,     \* the shell's output: written, read, read before a callback
          frames,    \* the FrameWriter: its sequence and its callers
          sent,      \* what the client has been sent: up to which number, which
                     \* chunk of the output, and whether it was told of the end
          lost       \* frames whose time had run out before their turn

handlerVars == <<asked, held>>
sessionVars == <<manager, lock, session>>
wireVars == <<frames, sent, lost>>
vars == <<agent, sock, handlerVars, at, sessionVars, shell, wireVars>>

Actors == {"handler", "reader", "warner", "closer"}

NoSession == [registered |-> FALSE, closed |-> FALSE, hijack |-> "none",
              onOutput |-> FALSE, onClose |-> FALSE, closedBy |-> "nobody"]

NoShell == [state |-> "none", out |-> 0, taken |-> 0, early |-> 0]
NoFrames == [sequence |-> 0, callers |-> << >>]

Init ==
    /\ agent = "up"
    /\ sock = "open"
    /\ asked = 0
    /\ at = [a \in Actors |-> IF a = "handler" THEN "read" ELSE "none"]
    /\ held = "none"
    /\ manager = "free"
    /\ lock = "free"
    /\ session = NoSession
    /\ shell = NoShell
    /\ frames = NoFrames
    /\ sent = [next |-> 0, chunk |-> 0, end |-> FALSE]
    /\ lost = {}

\* The process ends, with all it held.
EndProcess(how) ==
    /\ agent' = how
    /\ sock' = "closed" /\ at' = [a \in Actors |-> "none"]
    /\ asked' = 0 /\ held' = "none"
    /\ manager' = "free" /\ lock' = "free"
    /\ session' = NoSession /\ shell' = NoShell
    /\ frames' = NoFrames
    /\ sent' = [next |-> 0, chunk |-> 0, end |-> FALSE] /\ lost' = {}

Up == agent = "up"
At(a, labels) == Up /\ at[a] \in labels
GoTo(a, label) == at' = [at EXCEPT ![a] = label]

\* Lock, and RLock: the handler's input holds the mutex with other readers.
MayLock == lock = "free" /\ at["handler"] # "input"
MayRLock == lock = "free"
--------------------------------------------------------------------------------
\* WriteJSON: the ten seconds begin before the turn does.

\* The caller a waits for its turn with a frame of this kind.
Call(a, kind, chunk) ==
    frames' = [frames EXCEPT !.callers =
                  Append(@, [by |-> a, kind |-> kind, chunk |-> chunk,
                             seq |-> 0, turn |-> FALSE, overtaken |-> FALSE])]

Say(kind) ==
    /\ Call("handler", kind, 0)
    /\ GoTo("handler", "write")

CallOf(a) == CHOOSE i \in DOMAIN frames.callers : frames.callers[i].by = a

\* Wrapped with the next sequence number, the frame is at its turn.
Wrap(a) ==
    /\ Up
    /\ \E i \in DOMAIN frames.callers : frames.callers[i].by = a /\ ~frames.callers[i].turn
    /\ frames' = [sequence |-> frames.sequence + 1,
                  callers |-> [i \in DOMAIN frames.callers |->
                      IF i = CallOf(a)
                      THEN [frames.callers[i] EXCEPT !.seq = frames.sequence, !.turn = TRUE]
                      ELSE [frames.callers[i] EXCEPT !.overtaken = @ \/ i < CallOf(a)]]]
    /\ UNCHANGED <<agent, sock, handlerVars, at, sessionVars, shell, sent, lost>>

\* Mutant: the mutex is not held over the delivery.
WrapOnly(a) == Wrap(a)

\* SendTyped holds the mutex over the delivery; it is not handed out in the order
\* of the calls, and one that is overtaken waits for one with a later deadline.
SendTyped(a) ==
    /\ \A i \in DOMAIN frames.callers : ~frames.callers[i].turn
    /\ Wrap(a)

\* The caller goes on after its write.
EndTurn(a, ok) ==
    /\ GoTo(a, CASE a = "handler" -> "read"
                 [] a = "closer" -> "shut"
                 [] OTHER -> IF ~ok THEN "log" ELSE IF a = "reader" THEN "read" ELSE "done")
    /\ frames' = [frames EXCEPT !.callers = RemoveAt(@, CallOf(a))]
    /\ UNCHANGED <<agent, handlerVars, sessionVars, shell>>

AtTurn(a) ==
    /\ Up
    /\ \E i \in DOMAIN frames.callers : frames.callers[i].by = a /\ frames.callers[i].turn

Deliver(a) ==
    /\ AtTurn(a) /\ sock = "open"
    /\ sent' = LET frame == frames.callers[CallOf(a)] IN
               [next |-> frame.seq + 1, end |-> frame.kind = "close",
                chunk |-> IF frame.kind = "output" THEN frame.chunk ELSE sent.chunk]
    /\ EndTurn(a, TRUE)
    /\ UNCHANGED <<sock, lost>>

\* A write that fails, or whose time runs out in it, closes the websocket.
DeliverFails(a) ==
    /\ AtTurn(a)
    /\ sock' = "closed"
    /\ EndTurn(a, FALSE)
    /\ UNCHANGED <<sent, lost>>

\* One that was overtaken may be out of time at its turn: the websocket stays as it is.
DeliverLate(a) ==
    /\ AtTurn(a) /\ sock = "open"
    /\ LET frame == frames.callers[CallOf(a)] IN
         /\ frame.overtaken
         /\ lost' = lost \cup {[seq |-> frame.seq, kind |-> frame.kind, chunk |-> frame.chunk]}
    /\ EndTurn(a, FALSE)
    /\ UNCHANGED <<sock, sent>>
--------------------------------------------------------------------------------
\* closeSession, and the two operations of the manager that call it.

(***************************************************************************)
(* The connection to the shell is closed, the close callback started if    *)
(* there is one, and docker called for at most ten seconds with the mutex  *)
(* held.  A second end finds the session closed.                           *)
(***************************************************************************)
closeSession(a) ==
    /\ MayLock
    /\ \/ /\ ~session.closed
          /\ session' = [session EXCEPT !.closed = TRUE, !.hijack = "closed", !.closedBy = a]
          /\ at' = [at EXCEPT ![a] = "terminate",
                              !["closer"] = IF session.onClose THEN "call" ELSE @]
          /\ lock' = a
       \/ /\ session.closed
          /\ GoTo(a, "terminate")
          /\ UNCHANGED <<session, lock>>

\* CloseSession holds the manager's mutex throughout.
BeginClose ==
    /\ At("handler", {"enter"})
    /\ manager = "free"
    /\ manager' = "handler"
    /\ closeSession("handler")
    /\ UNCHANGED <<agent, sock, handlerVars, shell, wireVars>>

\* After terminal_close the handler clears its variable.
EndClose ==
    /\ At("handler", {"terminate"})
    /\ manager' = "free"
    /\ lock' = IF lock = "handler" THEN "free" ELSE lock
    /\ session' = [session EXCEPT !.registered = FALSE]
    /\ held' = IF held = "closing" THEN "cleared" ELSE held
    /\ GoTo("handler", "sleep")
    /\ UNCHANGED <<agent, sock, asked, shell, wireVars>>
--------------------------------------------------------------------------------
\* HandleTerminalWebSocket.

Message ==
    /\ At("handler", {"read"})
    /\ sock = "open" /\ asked < MaxMessages
    /\ asked' = asked + 1
    /\ UNCHANGED <<agent, sock>>

(***************************************************************************)
(* A message that is only answered: one of an unknown type or without a    *)
(* session, a second start, an id that is not the session's, an input to a *)
(* closed session, and a resize that fails.                                *)
(***************************************************************************)
Refuse ==
    /\ Message
    /\ MayRLock
    /\ Say("error")
    /\ UNCHANGED <<held, sessionVars, shell, sent, lost>>

Start ==
    /\ Message
    /\ held = "none"
    /\ GoTo("handler", "find")
    /\ UNCHANGED <<held, sessionVars, shell, wireVars>>

\* findContainerID asks docker, with no limit of time.
FindContainer ==
    /\ At("handler", {"find"})
    /\ \/ GoTo("handler", "create") /\ UNCHANGED frames
       \/ Say("error")
    /\ UNCHANGED <<agent, sock, handlerVars, sessionVars, shell, sent, lost>>

BeginCreate ==
    /\ At("handler", {"create"})
    /\ manager = "free"
    /\ manager' = "handler"
    /\ GoTo("handler", "creating")
    /\ UNCHANGED <<agent, sock, handlerVars, lock, session, shell, wireVars>>

\* CreateSession finds a shell and attaches to it; its goroutines run at once.
CreateSession ==
    /\ At("handler", {"creating"})
    /\ session' = [session EXCEPT !.registered = TRUE, !.hijack = "open"]
    /\ shell' = [shell EXCEPT !.state = "running"]
    /\ held' = "set"
    /\ manager' = "free"
    /\ at' = [at EXCEPT !["handler"] = "bindOutput", !["reader"] = "read",
                        !["warner"] = "wait"]
    /\ UNCHANGED <<agent, sock, asked, lock, wireVars>>

CreateFails ==
    /\ At("handler", {"creating"})
    /\ manager' = "free"
    /\ Say("error")
    /\ UNCHANGED <<agent, sock, handlerVars, lock, session, shell, sent, lost>>

SetOutputCallback ==
    /\ At("handler", {"bindOutput"})
    /\ MayLock
    /\ session' = [session EXCEPT !.onOutput = TRUE]
    /\ GoTo("handler", "bindClose")
    /\ UNCHANGED <<agent, sock, handlerVars, manager, lock, shell, wireVars>>

SetCloseCallback ==
    /\ At("handler", {"bindClose"})
    /\ MayLock
    /\ session' = [session EXCEPT !.onClose = TRUE]
    /\ Say("success")
    /\ UNCHANGED <<agent, sock, handlerVars, manager, lock, shell, sent, lost>>

\* Write holds the session's mutex, with other readers, while the shell takes the input.
Input ==
    /\ Message
    /\ held = "set"
    /\ MayRLock /\ ~session.closed
    /\ GoTo("handler", "input")
    /\ UNCHANGED <<held, sessionVars, shell, wireVars>>

InputTaken ==
    /\ At("handler", {"input"})
    /\ session.hijack = "open" /\ shell.state = "running"
    /\ GoTo("handler", "read")
    /\ UNCHANGED <<agent, sock, handlerVars, sessionVars, shell, wireVars>>

InputFails ==
    /\ At("handler", {"input"})
    /\ session.hijack = "closed" \/ shell.state = "exited"
    /\ Say("error")
    /\ UNCHANGED <<agent, sock, handlerVars, sessionVars, shell, sent, lost>>

\* terminal_close.
CloseMessage ==
    /\ Message
    /\ held' = IF held = "set" THEN "closing" ELSE held
    /\ GoTo("handler", IF held = "set" THEN "enter" ELSE "sleep")
    /\ UNCHANGED <<sessionVars, shell, wireVars>>

\* Mutant: the loop ends without a look at the session.
ReadFailsAndReturns ==
    /\ At("handler", {"read"})
    /\ sock = "closed"
    /\ GoTo("handler", "sleep")
    /\ UNCHANGED <<agent, sock, handlerVars, sessionVars, shell, wireVars>>

\* The websocket can no longer be read: the loop ends.
ReadFails ==
    /\ At("handler", {"read"})
    /\ sock = "closed"
    /\ GoTo("handler", IF held = "set" THEN "enter" ELSE "sleep")
    /\ UNCHANGED <<agent, sock, handlerVars, sessionVars, shell, wireVars>>

Return ==
    /\ At("handler", {"sleep"})
    /\ sock' = "closed"
    /\ GoTo("handler", "gone")
    /\ UNCHANGED <<agent, handlerVars, sessionVars, shell, wireVars>>

\* The client goes away, or does not answer a ping.
LoseConnection ==
    /\ Up
    /\ sock = "open"
    /\ sock' = "closed"
    /\ UNCHANGED <<agent, handlerVars, at, sessionVars, shell, wireVars>>
--------------------------------------------------------------------------------
\* The shell, and the goroutine that reads its output.

ShellWrites ==
    /\ Up
    /\ shell.state = "running" /\ shell.out < MaxOutput
    /\ shell' = [shell EXCEPT !.out = @ + 1]
    /\ UNCHANGED <<agent, sock, handlerVars, at, sessionVars, wireVars>>

ShellExits ==
    /\ Up
    /\ shell.state = "running"
    /\ shell' = [shell EXCEPT !.state = "exited"]
    /\ UNCHANGED <<agent, sock, handlerVars, at, sessionVars, wireVars>>

\* What was buffered may still be read after the connection is closed.
ReadOutput ==
    /\ At("reader", {"read"})
    /\ shell.taken < shell.out
    /\ shell' = [shell EXCEPT !.taken = @ + 1]
    /\ GoTo("reader", "fetch")
    /\ UNCHANGED <<agent, sock, handlerVars, sessionVars, wireVars>>

\* Without a callback the output is dropped.
FetchCallback ==
    /\ At("reader", {"fetch"})
    /\ MayRLock
    /\ IF session.onOutput
       THEN GoTo("reader", "call") /\ UNCHANGED shell
       ELSE GoTo("reader", "read") /\ shell' = [shell EXCEPT !.early = @ + 1]
    /\ UNCHANGED <<agent, sock, handlerVars, sessionVars, wireVars>>

\* No recover in these goroutines: a nil session ends the process.
Panic(a) ==
    /\ a # "handler" /\ At(a, {"call", "log"})
    /\ held = "cleared"
    /\ EndProcess("panicked")

\* The callbacks name the session in the message, by the handler's variable.
CallOutput(a) ==
    /\ a \in {"reader", "warner"} /\ At(a, {"call"})
    /\ held # "cleared"
    /\ IF a = "reader" THEN Call(a, "output", shell.taken) ELSE Call(a, "warning", 0)
    /\ GoTo(a, "write")
    /\ UNCHANGED <<agent, sock, handlerVars, sessionVars, shell, sent, lost>>

\* A failed write is logged with the session's id.
LogFailure(a) ==
    /\ a \in {"reader", "warner"} /\ At(a, {"log"})
    /\ held # "cleared"
    /\ GoTo(a, IF a = "reader" THEN "read" ELSE "done")
    /\ UNCHANGED <<agent, sock, handlerVars, sessionVars, shell, wireVars>>

\* Mutant: the shell's exit ends the loop, read or not.
ReadEndsAtExit ==
    /\ At("reader", {"read"})
    /\ session.hijack = "closed" \/ shell.state = "exited"
    /\ session' = [session EXCEPT !.hijack = "closed"]
    /\ GoTo("reader", "close")
    /\ UNCHANGED <<agent, sock, handlerVars, manager, lock, shell, wireVars>>

ReadEnds ==
    /\ At("reader", {"read"})
    /\ session.hijack = "closed" \/ (shell.state = "exited" /\ shell.taken = shell.out)
    /\ session' = [session EXCEPT !.hijack = "closed"]
    /\ GoTo("reader", "close")
    /\ UNCHANGED <<agent, sock, handlerVars, manager, lock, shell, wireVars>>

ReaderCloses ==
    /\ At("reader", {"close"})
    /\ closeSession("reader")
    /\ UNCHANGED <<agent, sock, handlerVars, manager, shell, wireVars>>

ReaderReturns ==
    /\ At("reader", {"terminate"})
    /\ lock' = IF lock = "reader" THEN "free" ELSE lock
    /\ GoTo("reader", "done")
    /\ UNCHANGED <<agent, sock, handlerVars, manager, session, shell, wireVars>>

\* warnWhenSilent: five seconds without output.
Warn ==
    /\ At("warner", {"wait"})
    /\ \/ /\ shell.taken = 0 /\ session.onOutput /\ MayRLock
          /\ GoTo("warner", "call")
       \/ /\ shell.taken > 0 \/ session.closed \/ ~session.onOutput
          /\ GoTo("warner", "done")
    /\ UNCHANGED <<agent, sock, handlerVars, sessionVars, shell, wireVars>>

CallClose ==
    /\ At("closer", {"call"})
    /\ held # "cleared"
    /\ Call("closer", "close", 0)
    /\ GoTo("closer", "write")
    /\ UNCHANGED <<agent, sock, handlerVars, sessionVars, shell, sent, lost>>

\* Mutant: the callback leaves the websocket open.
TellOnly ==
    /\ At("closer", {"shut"})
    /\ GoTo("closer", "done")
    /\ UNCHANGED <<agent, sock, handlerVars, sessionVars, shell, wireVars>>

\* The close callback goes on to close the websocket.
ShutSocket ==
    /\ At("closer", {"shut"})
    /\ sock' = "closed"
    /\ GoTo("closer", "done")
    /\ UNCHANGED <<agent, handlerVars, sessionVars, shell, wireVars>>
--------------------------------------------------------------------------------
(***************************************************************************)
(* The agent's shutdown calls CloseAllSessions and the process ends, at    *)
(* the latest when the time for the shutdown has run out.                  *)
(***************************************************************************)
Shutdown == Up /\ EndProcess("down")

Client == Refuse \/ Start \/ Input \/ CloseMessage \/ LoseConnection
Docker ==
    \/ FindContainer \/ CreateSession \/ CreateFails
    \/ InputTaken \/ ShellWrites \/ ShellExits
Handler ==
    \/ SetOutputCallback \/ SetCloseCallback \/ InputFails
    \/ ReadFails \/ EndClose \/ Return
Goroutine(a) ==
    \/ CallOutput(a) \/ LogFailure(a)
    \/ a = "reader" /\ (\/ ReadOutput \/ FetchCallback
                        \/ ReadEnds \/ ReaderCloses \/ ReaderReturns)
    \/ a = "warner" /\ Warn
    \/ a = "closer" /\ (CallClose \/ ShutSocket)
Write(a) == Deliver(a) \/ DeliverFails(a) \/ DeliverLate(a)

Next ==
    \/ Client \/ Docker \/ Handler \/ BeginCreate
    \/ \E a \in Actors : SendTyped(a) \/ Write(a) \/ Goroutine(a) \/ Panic(a)
    \/ BeginClose
    \/ Shutdown

(***************************************************************************)
(* Goroutines run, a write and the end of a session are over in ten        *)
(* seconds, and the writers' mutex goes to one of those that wait for it:  *)
(* one of them goes on if it can, which is enough since all they do here   *)
(* comes to an end.  The client and docker owe nothing, and the manager's  *)
(* mutex may be in the hands of a creation, of another terminal too, that  *)
(* docker keeps waiting.                                                   *)
(***************************************************************************)
Fairness ==
    WF_vars(Handler \/ \E a \in Actors : SendTyped(a) \/ Write(a) \/ Goroutine(a) \/ Panic(a))

Spec == Init /\ [][Next]_vars /\ Fairness
--------------------------------------------------------------------------------
(***************************************************************************)
(* The client accepts a frame only at the next sequence number             *)
(* (FrameReader.Unwrap).  The frames of four goroutines reach it in the    *)
(* order of their numbers, and a number is missing only where a frame's    *)
(* time had run out before its turn came.                                  *)
(***************************************************************************)
FramesInStep ==
    [][sent'.next # sent.next /\ Up' =>
           /\ sent'.next > sent.next
           /\ sent.next..sent'.next - 2 \subseteq { f.seq : f \in lost }]_vars

(***************************************************************************)
(* The client sees the output as the shell wrote it: no chunk without      *)
(* those before it, but for what was read before the handler had set the   *)
(* callback and frames whose time had run out; and when it is told that    *)
(* the shell has ended by itself, all of it.                               *)
(***************************************************************************)
Missing(first, last) ==
    (first..last) \ (1..shell.early \cup { f.chunk : f \in lost })

OutputInOrder ==
    [][Up' => /\ sent'.chunk # sent.chunk =>
                    sent'.chunk > sent.chunk /\ Missing(sent.chunk + 1, sent'.chunk - 1) = {}
              /\ sent'.end /\ ~sent.end /\ session.closedBy = "reader" =>
                    Missing(sent.chunk + 1, shell.out) = {}]_vars

(***************************************************************************)
(* A client whose shell has ended is not left with a dead terminal: the    *)
(* websocket is closed.  Except when the session is closed before the      *)
(* handler has set the close callback: nobody calls it then, and the       *)
(* websocket stays open.                                                   *)
(***************************************************************************)
EndIsTold ==
    (shell.state = "exited")
        ~> (sock = "closed" \/ ~Up \/ (session.closed /\ at["closer"] = "none"))

(***************************************************************************)
(* When the websocket is gone, so is the session: its entry is removed and *)
(* its connection to the shell closed.  As long as no creation keeps the   *)
(* manager's mutex from the handler for ever and no shell keeps it waiting *)
(* with an input that is not read.                                         *)
(***************************************************************************)
SessionIsReleased ==
    []<>(at["handler"] \notin {"enter", "input"})
        => ((sock = "closed" /\ session.registered)
                ~> (~Up \/ (~session.registered /\ session.hijack = "closed")))

(***************************************************************************)
(* The output callback reports a failed write, "Failed to send terminal    *)
(* output to WebSocket" (handler.go:194), by the id of the session: the    *)
(* handler's variable is there to name it.  But terminal_close has cleared *)
(* it when the write that fails was waiting for a slow client, and the     *)
(* goroutine, and with it the agent, fails instead.                        *)
(***************************************************************************)
FailuresAreLogged == at["reader"] = "log" => held # "cleared"
================================================================================
