----------------------------- MODULE RtSession -----------------------------
(***************************************************************************)
(* Sessions of the daemon: the accept loop of main.cpp with its one place  *)
(* for a controller, the helper thread a session gets, and the controller  *)
(* processes that connect (the EtherCAT backend, which connects once).     *)
(*                                                                         *)
(* A client may be killed at any moment, which closes its socket; it may   *)
(* hang before it says HELLO.  A session's commands and setpoints are one  *)
(* here, sent or not, and carried out or not; RtCycle, SetpointSlot and    *)
(* ShmRing say what becomes of each.  The daemon is not started again.     *)
(***************************************************************************)
EXTENDS Naturals, Sequences

CONSTANT Client     (* controller processes, each with one connection *)

None == "none"
ASSUME Assumptions == None \notin Client

VARIABLES
  cState,     (* the clients: where they are in _connect_ipc,               *)
  hello,      (* their HELLOs that are unread, valid or not                 *)
  mail,       (* those whose commands and setpoint are not carried out       *)
  backlog,    (* connections that are not accepted                          *)
  socket,     (* the daemon's end of each connection                        *)
  dPc, ret,   (* the accept loop; where reset_connection returns to         *)
  client_fd, controlling_client_fd,
  helper_running, helper, hPc,    (* the helper thread: whose, and where    *)
  g_stop,
  overlooked  (* history: a controller that has gone since the last look    *)

clients  == <<cState, hello, mail>>
sockets  == <<backlog, socket>>
loop     == <<client_fd, controlling_client_fd>>
thread   == <<helper_running, helper, hPc>>
vars     == <<clients, sockets, dPc, ret, loop, thread, g_stop, overlooked>>

Init ==
  /\ cState = [c \in Client |-> "new"]
  /\ hello = [c \in Client |-> None]
  /\ mail = {}
  /\ backlog = <<>> /\ socket = [c \in Client |-> "none"]
  /\ dPc = "loop" /\ ret = "loop" /\ client_fd = None /\ controlling_client_fd = None
  /\ helper_running = FALSE /\ helper = None /\ hPc = "off"
  /\ g_stop = FALSE /\ overlooked = FALSE

-----------------------------------------------------------------------------
(* The clients.                                                            *)

ClientAt(c, from, to) == cState[c] = from /\ cState' = [cState EXCEPT ![c] = to]

Connect(c) ==
  /\ dPc # "ended"
  /\ ClientAt(c, "new", "greet")
  /\ backlog' = Append(backlog, c)
  /\ socket' = [socket EXCEPT ![c] = "open"]
  /\ UNCHANGED <<hello, mail, dPc, ret, loop, thread, g_stop, overlooked>>

\* A client of another version says a HELLO that is not valid.
SayHello(c, h) ==
  /\ ClientAt(c, "greet", IF socket[c] = "closed" THEN "gone" ELSE "wait")
  /\ hello' = IF socket[c] = "closed" THEN hello ELSE [hello EXCEPT ![c] = h]
  /\ UNCHANGED <<mail, sockets, dPc, ret, loop, thread, g_stop, overlooked>>

\* The WELCOME is there: the memory is mapped, or that fails, and the controller
\* goes on without a backend but with the socket.
Welcomed(c) ==
  /\ socket[c] \in {"welcomed", "over"}
  /\ ClientAt(c, "wait", "on") \/ ClientAt(c, "wait", "failed")
  /\ UNCHANGED <<hello, mail, sockets, dPc, ret, loop, thread, g_stop, overlooked>>

\* recvmsg returns nothing or fails: "WELCOME size mismatch".
Refused(c) ==
  /\ socket[c] = "closed"
  /\ ClientAt(c, "wait", "gone")
  /\ UNCHANGED <<hello, mail, sockets, dPc, ret, loop, thread, g_stop, overlooked>>

\* auto-arm and set_joint_positions: when the session is over they write into
\* memory that nobody reads, and are not told.
Send(c) ==
  /\ cState[c] = "on" /\ socket[c] = "welcomed"
  /\ mail' = mail \cup {c}
  /\ UNCHANGED <<cState, hello, sockets, dPc, ret, loop, thread, g_stop, overlooked>>

\* shutdown(), or the end of the process: neither disarms.
Leave(c) ==
  /\ cState[c] \in {"greet", "wait", "on", "failed"}
  /\ cState' = [cState EXCEPT ![c] = "gone"]
  /\ overlooked' = (overlooked \/ c = controlling_client_fd)
  /\ UNCHANGED <<hello, mail, sockets, dPc, ret, loop, thread, g_stop>>

-----------------------------------------------------------------------------
(* The accept loop.                                                        *)

DaemonAt(from, to) == dPc = from /\ dPc' = to

ResetConnection(then) == dPc' = "stop helper" /\ ret' = then
Goes(to) == dPc' = to /\ UNCHANGED ret

\* Mutant: the signal ends the threads, and not the loop.
CheckStopNever ==
  /\ dPc = "loop" /\ Goes("look")
  /\ UNCHANGED <<clients, sockets, loop, thread, g_stop, overlooked>>

CheckStop ==
  /\ dPc = "loop"
  /\ IF g_stop THEN ResetConnection("unlink") ELSE Goes("look")
  /\ UNCHANGED <<clients, sockets, loop, thread, g_stop, overlooked>>

\* Mutant: the loop does nothing about a hang-up.
LookInVain ==
  /\ dPc = "look" /\ Goes("poll")
  /\ overlooked' = FALSE
  /\ UNCHANGED <<clients, sockets, loop, thread, g_stop>>

LookForHangup ==
  /\ dPc = "look"
  /\ IF /\ controlling_client_fd # None
        /\ cState[controlling_client_fd] = "gone"
     THEN ResetConnection("poll") ELSE Goes("poll")
  /\ overlooked' = FALSE
  /\ UNCHANGED <<clients, sockets, loop, thread, g_stop>>

\* Nobody for a quarter of a second, or the signal interrupts poll().
PollTimeout ==
  /\ DaemonAt("poll", "loop")
  /\ backlog = <<>>
  /\ UNCHANGED <<clients, sockets, ret, loop, thread, g_stop, overlooked>>

\* "poll(server) failed": out of the loop, with no signal and whoever has the place.
PollFails ==
  /\ dPc = "poll" /\ ResetConnection("unlink")
  /\ UNCHANGED <<clients, sockets, loop, thread, g_stop, overlooked>>

\* "accept() failed": the connection stays where it is, and the loop goes on.
AcceptFails ==
  /\ DaemonAt("poll", "loop")
  /\ backlog # <<>>
  /\ UNCHANGED <<clients, sockets, ret, loop, thread, g_stop, overlooked>>

Accept ==
  /\ DaemonAt("poll", "count")
  /\ backlog # <<>>
  /\ client_fd' = Head(backlog)
  /\ backlog' = Tail(backlog)
  /\ UNCHANGED <<clients, socket, ret, controlling_client_fd, thread, g_stop, overlooked>>

\* A WELCOME that was sent before can still be read.
ClosedBy(c) == IF socket[c] = "welcomed" THEN "over" ELSE "closed"

\* close(client_fd), and back to the head of the loop.
Close ==
  /\ dPc' = "loop"
  /\ client_fd' = None
  /\ socket' = [socket EXCEPT ![client_fd] = ClosedBy(client_fd)]

\* Mutants: the client is let down, not closed; every client is asked for its HELLO.
RejectSilently ==
  /\ dPc = "count"
  /\ \/ controlling_client_fd # None /\ dPc' = "loop" /\ client_fd' = None
     \/ controlling_client_fd = None /\ dPc' = "hello" /\ UNCHANGED client_fd
  /\ UNCHANGED <<clients, sockets, ret, controlling_client_fd, thread, g_stop, overlooked>>

RejectNobody ==
  /\ DaemonAt("count", "hello")
  /\ UNCHANGED <<clients, sockets, ret, loop, thread, g_stop, overlooked>>

\* "Rejecting additional client (single-controller policy)."
Reject ==
  /\ dPc = "count"
  /\ \/ controlling_client_fd # None /\ Close
     \/ controlling_client_fd = None /\ dPc' = "hello" /\ UNCHANGED <<client_fd, socket>>
  /\ UNCHANGED <<clients, backlog, ret, controlling_client_fd, thread, g_stop, overlooked>>

\* recv blocks until there is a HELLO or nobody to say it.
ReadHello ==
  /\ dPc = "hello"
  /\ \/ /\ hello[client_fd] = "valid"
        /\ dPc' = "create"
        /\ controlling_client_fd' = client_fd
        /\ UNCHANGED <<client_fd, socket>>
     \/ /\ \/ hello[client_fd] = "invalid"
           \/ hello[client_fd] = None /\ cState[client_fd] = "gone"
        /\ Close
        /\ UNCHANGED controlling_client_fd
  /\ hello' = [hello EXCEPT ![client_fd] = None]
  /\ UNCHANGED <<cState, mail, backlog, ret, thread, g_stop, overlooked>>

\* Shared memory and eventfds, which may fail.
Create ==
  /\ dPc = "create"
  /\ Goes("welcome") \/ ResetConnection("loop")
  /\ UNCHANGED <<clients, sockets, loop, thread, g_stop, overlooked>>

\* sendmsg fails when the client has gone.
SendWelcome ==
  /\ dPc = "welcome"
  /\ \/ /\ cState[client_fd] # "gone"
        /\ Goes("start helper")
        /\ socket' = [socket EXCEPT ![client_fd] = "welcomed"]
     \/ /\ cState[client_fd] = "gone"
        /\ ResetConnection("loop")
        /\ UNCHANGED socket
  /\ UNCHANGED <<clients, backlog, loop, thread, g_stop, overlooked>>

StartHelper ==
  /\ DaemonAt("start helper", "loop")
  /\ helper_running' = TRUE
  /\ helper' = controlling_client_fd
  /\ hPc' = "check"
  /\ client_fd' = None
  /\ UNCHANGED <<clients, sockets, ret, controlling_client_fd, g_stop, overlooked>>

-----------------------------------------------------------------------------
(* reset_connection, and the end of main.                                  *)

StopHelper ==
  /\ DaemonAt("stop helper", "join helper")
  /\ helper_running' = FALSE
  /\ UNCHANGED <<clients, sockets, ret, loop, helper, hPc, g_stop, overlooked>>

\* Mutant: the helper is not awaited.
JoinNobody ==
  /\ DaemonAt("join helper", "close")
  /\ UNCHANGED <<clients, sockets, ret, loop, thread, g_stop, overlooked>>

JoinHelper ==
  /\ DaemonAt("join helper", "close")
  /\ hPc = "off"
  /\ UNCHANGED <<clients, sockets, ret, loop, thread, g_stop, overlooked>>

CloseSession ==
  /\ DaemonAt("close", ret)
  /\ socket' = [c \in Client |-> IF c = controlling_client_fd THEN ClosedBy(c) ELSE socket[c]]
  /\ controlling_client_fd' = None /\ client_fd' = None
  /\ UNCHANGED <<clients, backlog, ret, thread, g_stop, overlooked>>

\* The end of main stops the other threads, and closes the sockets nobody has accepted.
Unlink ==
  /\ DaemonAt("unlink", "ended")
  /\ g_stop' = TRUE
  /\ backlog' = <<>>
  /\ socket' = [c \in Client |-> IF socket[c] = "open" THEN "closed" ELSE socket[c]]
  /\ UNCHANGED <<clients, ret, loop, thread, overlooked>>

Daemon ==
  \/ CheckStop \/ LookForHangup \/ PollTimeout \/ PollFails \/ AcceptFails \/ Accept
  \/ Reject \/ ReadHello
  \/ Create \/ SendWelcome \/ StartHelper
  \/ StopHelper \/ JoinHelper \/ CloseSession \/ Unlink

-----------------------------------------------------------------------------
(* The helper thread: rounds of commands and setpoints.                    *)

\* Mutant: a helper that ends is not told apart from one that runs.
HelperCheckOnly ==
  /\ hPc = "check"
  /\ hPc' = IF helper_running /\ ~g_stop THEN "round" ELSE "off"
  /\ UNCHANGED <<clients, sockets, dPc, ret, loop, helper_running, helper, g_stop, overlooked>>

HelperCheck ==
  /\ hPc = "check"
  /\ IF helper_running /\ ~g_stop
       THEN hPc' = "round" /\ UNCHANGED helper
       ELSE hPc' = "off" /\ helper' = None
  /\ UNCHANGED <<clients, sockets, dPc, ret, loop, helper_running, g_stop, overlooked>>

HelperRound ==
  /\ hPc = "round"
  /\ hPc' = "check"
  /\ mail' = mail \ {helper}
  /\ UNCHANGED <<cState, hello, sockets, dPc, ret, loop, helper_running, helper, g_stop,
                 overlooked>>

Helper == HelperCheck \/ HelperRound

Signal ==
  /\ ~g_stop
  /\ g_stop' = TRUE
  /\ UNCHANGED <<clients, sockets, dPc, ret, loop, thread, overlooked>>

Answered(c) == Welcomed(c) \/ Refused(c)

Next ==
  \/ \E c \in Client :
       \/ Connect(c) \/ Answered(c) \/ Send(c) \/ Leave(c)
       \/ \E h \in {"valid", "invalid"} : SayHello(c, h)
  \/ Daemon \/ Helper \/ Signal

Spec == Init /\ [][Next]_vars

\* The threads of the daemon run, accept() does not fail forever, and a client that
\* is answered reads that.
FairSpec == /\ Spec
            /\ WF_vars(Daemon) /\ SF_vars(Accept) /\ WF_vars(Helper)
            /\ \A c \in Client : WF_vars(Answered(c))

-----------------------------------------------------------------------------
(* Properties.                                                             *)

ClientsOK ==
  /\ cState \in [Client -> {"new", "greet", "wait", "on", "failed", "gone"}]
  /\ hello \in [Client -> {None, "valid", "invalid"}]
  /\ mail \subseteq Client

LoopOK ==
  /\ backlog \in Seq(Client)
  /\ socket \in [Client -> {"none", "open", "closed", "welcomed", "over"}]
  /\ dPc \in {"loop", "look", "poll", "count", "hello", "create", "welcome", "start helper",
              "stop helper", "join helper", "close", "unlink", "ended"}
  /\ ret \in {"loop", "poll", "unlink"}
  /\ client_fd \in Client \cup {None} /\ controlling_client_fd \in Client \cup {None}

HelperOK ==
  /\ helper_running \in BOOLEAN /\ helper \in Client \cup {None}
  /\ hPc \in {"off", "check", "round"} /\ (hPc = "off" <=> helper = None)

\* The accept loop, the helper, the sockets and the clients have their type.
TypeOK == ClientsOK /\ LoopOK /\ HelperOK /\ g_stop \in BOOLEAN /\ overlooked \in BOOLEAN

\* A session begins when its WELCOME is sent and ends when its socket is closed.
InSession == IF controlling_client_fd # None /\ socket[controlling_client_fd] = "welcomed"
             THEN controlling_client_fd ELSE None

Present == {c \in Client : cState[c] \notin {"new", "gone"}}

\* The daemon ends: by a signal, or because it is out of the accept loop.
Stopping == g_stop \/ ret = "unlink"

Slot == INSTANCE ControllerSlot WITH owner <- InSession, present <- Present, stopping <- Stopping

\* "single-controller policy": the accept loop gives its place to one controller
\* at a time, and takes it from nobody who is still there.
ImplementsSlot == Slot!Spec

\* What a session has sent is carried out in that session or not at all: no
\* command and no setpoint of a controller that has been replaced.
OwnCommandsOnly ==
  [][\A c \in Client : c \in mail /\ c \notin mail' => c = InSession]_vars

\* A client is turned away only beside a controller that was still there at the
\* loop's last look; one that comes back at once may be.
RejectedBesideController ==
  [][dPc = "count" /\ dPc' = "loop"
       => \/ cState[controlling_client_fd] # "gone"
          \/ overlooked]_vars

\* recv has no timeout, and a signal does not end it: a client that neither
\* greets nor goes holds up everything.
HeldUp == <>[](dPc = "hello")

\* A controller that greets gets its WELCOME or is turned away.
ClientIsAnswered ==
  HeldUp \/ \A c \in Client : cState[c] = "wait" ~> cState[c] # "wait"

\* A signal ends the daemon.
StopEndsDaemon == HeldUp \/ (g_stop ~> dPc = "ended")
=============================================================================
