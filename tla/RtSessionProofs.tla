--------------------------- MODULE RtSessionProofs ---------------------------
(***************************************************************************)
(* Proofs about RtSession, for any number of controllers: types, that the  *)
(* accept loop implements ControllerSlot, that nothing of an old session   *)
(* is carried out, and who is turned away.                                 *)
(***************************************************************************)
EXTENDS RtSession, TLAPS

\* What the accept loop knows of the connection it has accepted, client_fd, and
\* of the controller, at each of its places.
LoopInv ==
  /\ client_fd # None => socket[client_fd] \in {"open", "welcomed"}
  /\ controlling_client_fd # None =>
       controlling_client_fd = client_fd \/ socket[controlling_client_fd] = "welcomed"
  /\ dPc \in {"loop", "look", "poll", "unlink", "ended"} => client_fd = None
  /\ dPc \in {"count", "hello", "create", "welcome"} =>
       client_fd # None /\ socket[client_fd] = "open"
  /\ dPc = "count" => controlling_client_fd # client_fd
  /\ dPc \in {"hello", "unlink", "ended"} => controlling_client_fd = None
  /\ dPc \in {"create", "welcome", "start helper"} =>
       controlling_client_fd = client_fd /\ client_fd # None
  /\ dPc = "start helper" => socket[controlling_client_fd] = "welcomed"

\* Why reset_connection was called.
ResetInv ==
  dPc \in {"stop helper", "join helper", "close"} =>
    /\ ret = "poll" => controlling_client_fd # None /\ cState[controlling_client_fd] = "gone"
    /\ ret = "loop" => InSession = None

\* The helper is that of the session, and has ended when the session is closed.
HelperInv ==
  /\ helper # None => helper = InSession
  /\ dPc = "close" => helper = None

\* A connection waits once, and not while it is being served.
QueueInv ==
  /\ \A i \in 1..Len(backlog) : socket[backlog[i]] = "open" /\ backlog[i] # client_fd
  /\ \A i, j \in 1..Len(backlog) : backlog[i] = backlog[j] => i = j

ClientInv == \A c \in Client : cState[c] = "new" => socket[c] = "none"

\* What the loop has looked at since the controller was last seen.
SeenInv ==
  /\ dPc \in {"poll", "count"}
  /\ controlling_client_fd # None
  /\ cState[controlling_client_fd] = "gone"
  => overlooked

\* Whether the loop is left for good.
EndInv ==
  /\ ret = "unlink" => dPc \in {"stop helper", "join helper", "close", "unlink", "ended"}
  /\ dPc \in {"unlink", "ended"} => ret = "unlink"

SessionInv ==
  TypeOK /\ LoopInv /\ ResetInv /\ HelperInv /\ QueueInv /\ ClientInv /\ SeenInv

LEMMA SessionInit == Init => SessionInv
<1> SUFFICES ASSUME Init PROVE SessionInv
  OBVIOUS
<1>1. ClientsOK
  BY DEF Init, ClientsOK
<1>2. LoopOK
  <2>1. backlog \in Seq(Client)
    BY DEF Init
  <2>. QED  BY <2>1 DEF Init, LoopOK
<1>3. HelperOK /\ g_stop \in BOOLEAN /\ overlooked \in BOOLEAN
  BY DEF Init, HelperOK
<1>4. LoopInv /\ ResetInv /\ HelperInv /\ ClientInv /\ SeenInv
  BY DEF Init, LoopInv, ResetInv, HelperInv, ClientInv, SeenInv
<1>5. QueueInv
  BY DEF Init, QueueInv
<1>. QED  BY <1>1, <1>2, <1>3, <1>4, <1>5 DEF SessionInv, TypeOK

\* What a client does leaves the loop and the helper where they are.
LEMMA ClientStep ==
  ASSUME SessionInv, NEW c \in Client,
         \/ Answered(c) \/ Leave(c) \/ \E h \in {"valid", "invalid"} : SayHello(c, h)
         \/ Send(c)
  PROVE  SessionInv'
<1> USE DEF Answered, Welcomed, Refused, Leave, SayHello, Send, ClientAt
<1>1. /\ UNCHANGED <<sockets, dPc, ret, loop, thread, g_stop>>
      /\ \A d \in Client : d # c => cState'[d] = cState[d]
  BY DEF SessionInv, TypeOK, ClientsOK
<1>2. ClientsOK'
  BY DEF SessionInv, TypeOK, ClientsOK
<1>3. LoopOK' /\ HelperOK' /\ g_stop' \in BOOLEAN
  BY <1>1, ZenonT(40) DEF SessionInv, TypeOK, LoopOK, HelperOK, sockets, loop, thread
<1>4. overlooked' \in BOOLEAN
  BY DEF SessionInv, TypeOK
<1>5. /\ cState[c] # "new" /\ cState'[c] # "new"
      /\ cState[c] = "gone" => cState'[c] = "gone"
  BY DEF SessionInv, TypeOK, ClientsOK
<1>6. overlooked => overlooked'
  BY DEF SessionInv, TypeOK
<1>7. c = controlling_client_fd /\ cState'[c] = "gone" /\ cState[c] # "gone"
        => overlooked' \/ socket[c] = "closed"
  BY DEF SessionInv, TypeOK, ClientsOK
<1> HIDE DEF Answered, Welcomed, Refused, Leave, SayHello, Send, ClientAt
<1>8. LoopInv' /\ HelperInv' /\ QueueInv'
  BY <1>1 DEF SessionInv, LoopInv, HelperInv, QueueInv, InSession, sockets, loop, thread
<1>9. ResetInv'
  <2>1. controlling_client_fd # None =>
          (cState[controlling_client_fd] = "gone" => cState'[controlling_client_fd] = "gone")
    BY <1>1, <1>5 DEF SessionInv, TypeOK, LoopOK
  <2>. QED  BY <1>1, <2>1 DEF SessionInv, ResetInv, InSession, sockets, loop
<1>10. ClientInv'
  BY <1>1, <1>5 DEF SessionInv, ClientInv, sockets
<1>11. SeenInv'
  <2>1. dPc \in {"poll", "count"} /\ c = controlling_client_fd => socket[c] # "closed"
    BY Assumptions DEF SessionInv, LoopInv
  <2>2. controlling_client_fd \in Client \cup {None}
    BY DEF SessionInv, TypeOK, LoopOK
  <2>. QED  BY <1>1, <1>6, <1>7, <2>1, <2>2 DEF SessionInv, SeenInv, loop
<1>. QED
  BY <1>2, <1>3, <1>4, <1>8, <1>9, <1>10, <1>11 DEF SessionInv, TypeOK

LEMMA ConnectStep ==
  ASSUME SessionInv, NEW c \in Client, Connect(c) PROVE SessionInv'
<1> USE DEF SessionInv, TypeOK
<1>1. /\ UNCHANGED <<hello, mail, dPc, ret, loop, thread, g_stop, overlooked>>
      /\ cState[c] = "new" /\ cState' = [cState EXCEPT ![c] = "greet"]
      /\ socket[c] = "none" /\ socket' = [socket EXCEPT ![c] = "open"]
      /\ backlog' = Append(backlog, c)
      /\ dPc # "ended"
  BY DEF Connect, ClientAt, ClientInv
<1>2. client_fd # c /\ controlling_client_fd # c
  BY <1>1, Assumptions DEF LoopInv
<1>3. \A d \in Client : d # c => socket'[d] = socket[d] /\ cState'[d] = cState[d]
  BY <1>1 DEF ClientsOK, LoopOK
<1>4. cState'[c] = "greet" /\ socket'[c] = "open"
  BY <1>1 DEF ClientsOK, LoopOK
<1>5. InSession' = InSession
  BY <1>1, <1>2, <1>3 DEF InSession, LoopOK, loop
<1>6. ClientsOK' /\ HelperOK' /\ UNCHANGED <<g_stop, overlooked>>
  BY <1>1 DEF ClientsOK, HelperOK, thread
<1>7. backlog \in Seq(Client) /\ backlog' \in Seq(Client)
  <2>1. backlog \in Seq(Client)
    BY DEF LoopOK
  <2>. QED  BY <1>1, <2>1
<1>8. LoopOK'
  BY <1>1, <1>7 DEF LoopOK, loop
<1>9. LoopInv'
  BY <1>1, <1>2, <1>3 DEF LoopOK, LoopInv, loop
<1>10. ResetInv' /\ SeenInv'
  BY <1>1, <1>2, <1>3, <1>5 DEF LoopOK, ResetInv, SeenInv, loop
<1>11. HelperInv'
  BY <1>1, <1>5 DEF HelperInv, thread
<1>12. QueueInv'
  <2>1. \A i \in 1..Len(backlog) : backlog[i] \in Client /\ backlog[i] # c
    <3>1. \A i \in 1..Len(backlog) : socket[backlog[i]] = "open"
      BY DEF QueueInv
    <3>. QED  BY <1>1, <1>7, <3>1
  <2>2. /\ Len(backlog') = Len(backlog) + 1 /\ Len(backlog) \in Nat
        /\ \A i \in 1..Len(backlog) : backlog'[i] = backlog[i]
        /\ backlog'[Len(backlog) + 1] = c
    BY <1>1, <1>7
  <2>. QED  BY <1>1, <1>2, <1>3, <1>4, <2>1, <2>2 DEF QueueInv, loop
<1>13. ClientInv'
  BY <1>3, <1>4 DEF ClientInv
<1>. QED  BY <1>6, <1>8, <1>9, <1>10, <1>11, <1>12, <1>13

\* Steps of the accept loop that leave the sockets alone.
LEMMA LoopStep ==
  ASSUME SessionInv,
         \/ CheckStop \/ LookForHangup \/ PollTimeout \/ PollFails
         \/ AcceptFails \/ Create \/ StartHelper
         \/ StopHelper \/ JoinHelper
  PROVE  SessionInv'
<1> USE DEF SessionInv, TypeOK, DaemonAt, Goes, ResetConnection
<1>0. UNCHANGED <<clients, sockets, controlling_client_fd, g_stop>>
  BY DEF CheckStop, LookForHangup, PollTimeout, PollFails, AcceptFails, Create, StartHelper,
     StopHelper, JoinHelper, loop
<1>1. ClientsOK' /\ ClientInv' /\ InSession' = InSession
  BY <1>0 DEF ClientsOK, ClientInv, InSession, clients, sockets
<1>2. client_fd' = client_fd \/ client_fd' = None
  BY DEF CheckStop, LookForHangup, PollTimeout, PollFails, AcceptFails, Create, StartHelper,
     StopHelper, JoinHelper, loop
<1>3. QueueInv'
  <2>1. \A i \in 1..Len(backlog) : backlog[i] # None
    <3>1. backlog \in Seq(Client)
      BY DEF LoopOK
    <3>2. \A i \in 1..Len(backlog) : backlog[i] \in Client
      BY <3>1
    <3>. QED  BY <3>2, Assumptions
  <2>. QED  BY <1>0, <1>2, <2>1 DEF QueueInv, sockets
<1>4. LoopOK'
  BY <1>0, <1>2 DEF LoopOK, sockets, CheckStop, LookForHangup, PollTimeout, PollFails,
     AcceptFails, Create, StartHelper, StopHelper, JoinHelper
<1>5. HelperOK'
  <2>1. \/ StartHelper \/ StopHelper \/ UNCHANGED thread
    BY DEF CheckStop, LookForHangup, PollTimeout, PollFails, AcceptFails, Create, JoinHelper
  <2>2. CASE StartHelper
    <3>1. controlling_client_fd \in Client
      BY <2>2 DEF StartHelper, LoopInv, LoopOK
    <3>. QED  BY <2>2, <3>1, Assumptions DEF StartHelper, HelperOK
  <2>3. CASE StopHelper
    BY <2>3 DEF StopHelper, HelperOK
  <2>4. CASE UNCHANGED thread
    BY <1>0, <2>4 DEF HelperOK, thread
  <2>. QED  BY <2>1, <2>2, <2>3, <2>4
<1>10. overlooked' \in BOOLEAN
  BY DEF CheckStop, LookForHangup, PollTimeout, PollFails, AcceptFails, Create, StartHelper,
     StopHelper, JoinHelper
<1>6. LoopInv'
  BY <1>0 DEF LoopInv, CheckStop, LookForHangup, PollTimeout, PollFails, AcceptFails, Create,
     StartHelper, StopHelper, JoinHelper, sockets, loop
<1>7. ResetInv'
  <2>1. CASE Create
    BY <1>0, <1>1, <2>1 DEF Create, ResetInv, LoopInv, InSession
  <2>2. CASE ~Create
    BY <1>0, <1>1, <2>2 DEF ResetInv, CheckStop, LookForHangup, PollTimeout, PollFails,
       AcceptFails, StartHelper, StopHelper, JoinHelper, clients, loop
  <2>. QED  BY <2>1, <2>2
<1>8. HelperInv'
  <2>1. CASE StartHelper
    BY <1>0, <1>1, <2>1 DEF StartHelper, HelperInv, LoopInv, InSession
  <2>2. CASE JoinHelper
    BY <1>0, <1>1, <2>2 DEF JoinHelper, HelperInv, HelperOK, thread
  <2>3. CASE ~StartHelper /\ ~JoinHelper
    BY <1>0, <1>1, <2>3 DEF HelperInv, CheckStop, LookForHangup, PollTimeout, PollFails,
       AcceptFails, Create, StopHelper, thread
  <2>. QED  BY <2>1, <2>2, <2>3
<1>9. SeenInv'
  BY <1>0 DEF SeenInv, CheckStop, LookForHangup, PollTimeout, PollFails, AcceptFails, Create,
     StartHelper, StopHelper, JoinHelper, clients, loop
<1>. QED  BY <1>0, <1>1, <1>3, <1>4, <1>5, <1>10, <1>6, <1>7, <1>8, <1>9

LEMMA AcceptStep ==
  ASSUME SessionInv, Accept PROVE SessionInv'
<1> USE DEF SessionInv, TypeOK
<1>1. backlog \in Seq(Client) /\ backlog # <<>>
  BY DEF Accept, LoopOK
<1>2. /\ client_fd' = backlog[1] /\ backlog' = Tail(backlog)
      /\ dPc = "poll" /\ dPc' = "count"
      /\ UNCHANGED <<clients, socket, ret, controlling_client_fd, thread, g_stop, overlooked>>
  BY <1>1 DEF Accept, DaemonAt
<1>3. /\ backlog[1] \in Client /\ Len(backlog) \in Nat /\ 1 \in 1..Len(backlog)
      /\ backlog' \in Seq(Client) /\ Len(backlog') = Len(backlog) - 1
      /\ \A i \in 1..Len(backlog') : i + 1 \in 1..Len(backlog) /\ backlog'[i] = backlog[i + 1]
  BY <1>1, <1>2
<1>4. socket[client_fd'] = "open" /\ client_fd' # None /\ client_fd' \in Client
  BY <1>2, <1>3, Assumptions DEF QueueInv
<1>5. ClientsOK' /\ HelperOK' /\ ClientInv' /\ InSession' = InSession /\ UNCHANGED <<g_stop, overlooked>>
  BY <1>2 DEF ClientsOK, HelperOK, ClientInv, InSession, clients, thread
<1>6. LoopOK'
  BY <1>2, <1>3, <1>4 DEF LoopOK
<1>7. LoopInv'
  <2>1. controlling_client_fd # None => socket[controlling_client_fd] = "welcomed"
    BY <1>2 DEF LoopInv
  <2>. QED  BY <1>2, <1>4, <2>1 DEF LoopInv
<1>8. ResetInv' /\ HelperInv' /\ SeenInv'
  BY <1>2, <1>5 DEF ResetInv, HelperInv, SeenInv, clients, thread
<1>9. QueueInv'
  <2>1. \A i \in 1..Len(backlog') : socket'[backlog'[i]] = "open"
    BY <1>2, <1>3 DEF QueueInv
  <2>2. \A i \in 1..Len(backlog') : i + 1 # 1 /\ backlog'[i] # client_fd'
    BY <1>2, <1>3 DEF QueueInv
  <2>3. \A i, j \in 1..Len(backlog') : backlog'[i] = backlog'[j] => i = j
    BY <1>2, <1>3 DEF QueueInv
  <2>. QED  BY <2>1, <2>2, <2>3 DEF QueueInv
<1>. QED  BY <1>5, <1>6, <1>7, <1>8, <1>9

\* The loop closes the connection it has accepted, or keeps it: what this means for
\* the connections that wait.
LEMMA QueueKeeps ==
  ASSUME SessionInv, client_fd \in Client, backlog' = backlog,
         NEW x, socket' = [socket EXCEPT ![client_fd] = x],
         client_fd' = client_fd \/ client_fd' = None
  PROVE  QueueInv'
<1>1. backlog \in Seq(Client)
  BY DEF SessionInv, TypeOK, LoopOK
<1>2. \A i \in 1..Len(backlog) : backlog[i] \in Client
  BY <1>1
<1>3. \A i \in 1..Len(backlog) : socket'[backlog[i]] = "open"
  BY <1>2 DEF SessionInv, TypeOK, LoopOK, QueueInv
<1>. QED  BY <1>2, <1>3, Assumptions DEF SessionInv, QueueInv

LEMMA CloseStep ==
  ASSUME SessionInv, dPc \in {"count", "hello"}, Close,
         UNCHANGED <<cState, mail, backlog, ret, controlling_client_fd, thread, g_stop, overlooked>>,
         hello' \in [Client -> {None, "valid", "invalid"}]
  PROVE  SessionInv' /\ InSession' = InSession
<1> USE DEF SessionInv, TypeOK
<1>1. client_fd \in Client /\ socket[client_fd] = "open"
  BY DEF LoopOK, LoopInv
<1>2. /\ dPc' = "loop" /\ client_fd' = None
      /\ socket' = [socket EXCEPT ![client_fd] = "closed"]
  BY <1>1 DEF Close, ClosedBy
<1>3. controlling_client_fd # None =>
        controlling_client_fd # client_fd /\ socket[controlling_client_fd] = "welcomed"
  BY DEF LoopInv
<1>4. InSession' = InSession
  BY <1>1, <1>2, <1>3 DEF LoopOK, InSession
<1>5. ClientsOK' /\ HelperOK' /\ UNCHANGED <<g_stop, overlooked>>
  BY DEF ClientsOK, HelperOK, thread
<1>6. LoopOK'
  BY <1>1, <1>2 DEF LoopOK
<1>7. LoopInv'
  BY <1>1, <1>2, <1>3 DEF LoopInv, LoopOK
<1>8. ResetInv' /\ SeenInv'
  BY <1>2 DEF ResetInv, SeenInv
<1>9. HelperInv'
  BY <1>2, <1>4 DEF HelperInv, thread
<1>10. QueueInv'
  BY <1>1, <1>2, QueueKeeps
<1>11. ClientInv'
  BY <1>1, <1>2 DEF ClientInv, LoopOK
<1>. QED  BY <1>4, <1>5, <1>6, <1>7, <1>8, <1>9, <1>10, <1>11

LEMMA RejectStep ==
  ASSUME SessionInv, Reject PROVE SessionInv' /\ InSession' = InSession
<1>1. CASE controlling_client_fd # None /\ Close
  BY <1>1, CloseStep DEF Reject, clients, SessionInv, TypeOK, ClientsOK
<1>2. CASE controlling_client_fd = None /\ dPc' = "hello" /\ UNCHANGED <<client_fd, socket>>
  <2> USE DEF SessionInv, TypeOK
  <2>1. /\ UNCHANGED <<clients, backlog, socket, ret, client_fd, controlling_client_fd, thread,
                       g_stop, overlooked>>
        /\ dPc = "count"
    BY <1>2 DEF Reject
  <2>2. ClientsOK' /\ HelperOK' /\ ClientInv' /\ QueueInv' /\ InSession' = InSession
    BY <2>1 DEF ClientsOK, HelperOK, ClientInv, QueueInv, InSession, clients, thread
  <2>3. LoopOK' /\ LoopInv'
    BY <1>2, <2>1 DEF LoopOK, LoopInv
  <2>4. ResetInv' /\ SeenInv' /\ HelperInv'
    BY <1>2, <2>1, <2>2 DEF ResetInv, SeenInv, HelperInv, thread
  <2>. QED  BY <2>1, <2>2, <2>3, <2>4
<1>. QED  BY <1>1, <1>2 DEF Reject

LEMMA ReadHelloStep ==
  ASSUME SessionInv, ReadHello PROVE SessionInv' /\ InSession' = InSession
<1>0. /\ hello' \in [Client -> {None, "valid", "invalid"}] /\ dPc = "hello"
      /\ client_fd \in Client /\ controlling_client_fd = None /\ socket[client_fd] = "open"
  BY DEF ReadHello, SessionInv, TypeOK, ClientsOK, LoopOK, LoopInv
<1>1. CASE Close /\ UNCHANGED controlling_client_fd
  BY <1>0, <1>1, CloseStep DEF ReadHello
<1>2. CASE /\ dPc' = "create" /\ controlling_client_fd' = client_fd
           /\ UNCHANGED <<client_fd, socket>>
  <2> USE DEF SessionInv, TypeOK
  <2>1. UNCHANGED <<cState, mail, backlog, socket, ret, client_fd, thread, g_stop, overlooked>>
    BY <1>2 DEF ReadHello
  <2>2. InSession = None /\ InSession' = None
    BY <1>0, <1>2, <2>1 DEF InSession
  <2>3. ClientsOK' /\ HelperOK' /\ ClientInv' /\ QueueInv'
    BY <1>0, <2>1 DEF ClientsOK, HelperOK, ClientInv, QueueInv, thread
  <2>4. LoopOK' /\ LoopInv'
    BY <1>0, <1>2, <2>1 DEF LoopOK, LoopInv
  <2>5. ResetInv' /\ SeenInv' /\ HelperInv'
    BY <1>2, <2>1, <2>2 DEF ResetInv, SeenInv, HelperInv, thread
  <2>. QED  BY <2>1, <2>2, <2>3, <2>4, <2>5
<1>. QED  BY <1>1, <1>2 DEF ReadHello

LEMMA SendWelcomeStep ==
  ASSUME SessionInv, SendWelcome
  PROVE  /\ SessionInv'
         /\ InSession' = InSession \/ (InSession = None /\ InSession' \in Client)
<1> USE DEF SessionInv, TypeOK
<1>0. /\ dPc = "welcome" /\ client_fd \in Client /\ controlling_client_fd = client_fd
      /\ socket[client_fd] = "open"
      /\ UNCHANGED <<clients, backlog, loop, thread, g_stop, overlooked>>
  BY DEF SendWelcome, LoopOK, LoopInv
<1>1. InSession = None /\ helper = None
  BY <1>0 DEF InSession, HelperInv
<1>2. ClientsOK' /\ HelperOK' /\ UNCHANGED <<g_stop, overlooked>>
  BY <1>0 DEF ClientsOK, HelperOK, clients, thread
<1>3. CASE Goes("start helper") /\ socket' = [socket EXCEPT ![client_fd] = "welcomed"]
  <2>1. dPc' = "start helper" /\ socket'[client_fd] = "welcomed" /\ UNCHANGED ret
    BY <1>0, <1>3 DEF Goes, LoopOK
  <2>2. LoopOK' /\ LoopInv'
    BY <1>0, <1>3, <2>1 DEF LoopOK, LoopInv, loop
  <2>3. ResetInv' /\ SeenInv' /\ HelperInv'
    BY <1>0, <1>1, <2>1 DEF ResetInv, SeenInv, HelperInv, thread
  <2>4. QueueInv'
    BY <1>0, <1>3, QueueKeeps DEF loop
  <2>5. ClientInv'
    BY <1>0, <1>3 DEF ClientInv, LoopOK, clients
  <2>6. InSession' = client_fd
    BY <1>0, <2>1, Assumptions DEF InSession, loop
  <2>. QED  BY <1>0, <1>1, <1>2, <2>2, <2>3, <2>4, <2>5, <2>6
<1>4. CASE ResetConnection("loop") /\ UNCHANGED socket
  <2>1. dPc' = "stop helper" /\ ret' = "loop" /\ UNCHANGED socket
    BY <1>4 DEF ResetConnection
  <2>2. LoopOK' /\ LoopInv' /\ InSession' = None
    BY <1>0, <1>1, <2>1 DEF LoopOK, LoopInv, InSession, loop
  <2>3. ResetInv' /\ SeenInv' /\ HelperInv'
    BY <1>0, <1>1, <2>1, <2>2 DEF ResetInv, SeenInv, HelperInv, thread
  <2>4. QueueInv' /\ ClientInv'
    BY <1>0, <2>1 DEF QueueInv, ClientInv, loop, clients
  <2>. QED  BY <1>1, <1>2, <2>2, <2>3, <2>4
<1>. QED  BY <1>3, <1>4 DEF SendWelcome

LEMMA CloseSessionStep ==
  ASSUME SessionInv, CloseSession
  PROVE  /\ SessionInv'
         /\ \/ InSession' = InSession
            \/ InSession' = None /\ (InSession \notin Present \/ Stopping)
<1> USE DEF SessionInv, TypeOK
<1>0. /\ dPc = "close" /\ dPc' = ret /\ helper = None
      /\ controlling_client_fd' = None /\ client_fd' = None
      /\ UNCHANGED <<clients, backlog, ret, thread, g_stop, overlooked>>
  BY DEF CloseSession, DaemonAt, HelperInv
<1>1. InSession' = None
  BY <1>0 DEF InSession
<1>2. /\ socket' \in [Client -> {"none", "open", "closed", "welcomed", "over"}]
      /\ \A c \in Client : c # controlling_client_fd => socket'[c] = socket[c]
  BY DEF CloseSession, ClosedBy, LoopOK
<1>3. ClientsOK' /\ HelperOK' /\ UNCHANGED <<g_stop, overlooked>>
  BY <1>0 DEF ClientsOK, HelperOK, clients, thread
<1>4. LoopOK' /\ LoopInv'
  BY <1>0, <1>2 DEF LoopOK, LoopInv
<1>5. ResetInv' /\ SeenInv' /\ HelperInv'
  BY <1>0, <1>1 DEF LoopOK, ResetInv, SeenInv, HelperInv, thread
<1>6. backlog \in Seq(Client)
  BY DEF LoopOK
<1>7. \A i \in 1..Len(backlog) : backlog[i] \in Client
  BY <1>6
<1>8. \A i \in 1..Len(backlog) : backlog[i] # controlling_client_fd
  BY <1>7, Assumptions DEF QueueInv, LoopInv
<1>9. QueueInv'
  BY <1>0, <1>2, <1>7, <1>8, Assumptions DEF QueueInv
<1>10. ClientInv'
  <2>1. controlling_client_fd # None => socket[controlling_client_fd] # "none"
    BY DEF LoopInv
  <2>. QED  BY <1>0, <1>2, <2>1, Assumptions DEF ClientInv, clients
<1>11. InSession # None => InSession \notin Present \/ Stopping
  BY <1>0 DEF ResetInv, LoopOK, InSession, Present, Stopping
<1>. QED  BY <1>1, <1>3, <1>4, <1>5, <1>9, <1>10, <1>11

LEMMA UnlinkStep ==
  ASSUME SessionInv, Unlink PROVE SessionInv' /\ InSession' = InSession
<1> USE DEF SessionInv, TypeOK
<1>0. /\ dPc = "unlink" /\ dPc' = "ended" /\ backlog' = <<>>
      /\ controlling_client_fd = None /\ client_fd = None
      /\ g_stop' = TRUE
      /\ UNCHANGED <<clients, ret, loop, thread, overlooked>>
  BY DEF Unlink, DaemonAt, LoopInv
<1>1. /\ socket' \in [Client -> {"none", "open", "closed", "welcomed", "over"}]
      /\ \A c \in Client : socket[c] = "none" => socket'[c] = "none"
  BY DEF Unlink, LoopOK
<1>2. ClientsOK' /\ HelperOK' /\ g_stop' \in BOOLEAN /\ UNCHANGED overlooked
  BY <1>0 DEF ClientsOK, HelperOK, clients, thread
<1>3. LoopOK'
  <2>1. backlog' \in Seq(Client)
    BY <1>0
  <2>. QED  BY <1>0, <1>1, <2>1 DEF LoopOK, loop
<1>4. LoopInv' /\ InSession' = None /\ InSession = None
  BY <1>0, <1>1 DEF LoopInv, InSession, loop
<1>5. ResetInv' /\ SeenInv' /\ HelperInv'
  BY <1>0, <1>4 DEF ResetInv, SeenInv, HelperInv, thread
<1>6. QueueInv'
  BY <1>0 DEF QueueInv
<1>7. ClientInv'
  BY <1>0, <1>1 DEF ClientInv, clients
<1>. QED  BY <1>2, <1>3, <1>4, <1>5, <1>6, <1>7

LEMMA HelperStep ==
  ASSUME SessionInv, Helper
  PROVE  /\ SessionInv' /\ InSession' = InSession
         /\ \A c \in Client : c \in mail /\ c \notin mail' => c = InSession
<1> USE DEF SessionInv, TypeOK
<1>0. /\ UNCHANGED <<cState, hello, sockets, dPc, ret, loop, helper_running, g_stop, overlooked>>
      /\ mail' \subseteq mail
      /\ helper' = helper \/ helper' = None
      /\ \A c \in Client : c \in mail /\ c \notin mail' => c = helper
  BY Assumptions DEF Helper, HelperCheck, HelperRound, clients, HelperOK, ClientsOK
<1>1. ClientsOK' /\ LoopOK' /\ UNCHANGED <<g_stop, overlooked>>
  BY <1>0 DEF ClientsOK, LoopOK, sockets, loop
<1>2. HelperOK'
  BY Assumptions DEF Helper, HelperCheck, HelperRound, HelperOK
<1>3. LoopInv' /\ QueueInv' /\ ClientInv' /\ InSession' = InSession
  BY <1>0 DEF LoopInv, QueueInv, ClientInv, InSession, sockets, loop
<1>4. ResetInv' /\ SeenInv' /\ HelperInv'
  BY <1>0, <1>3 DEF ResetInv, SeenInv, HelperInv, loop
<1>5. \A c \in Client : c \in mail /\ c \notin mail' => c = InSession
  BY <1>0, Assumptions DEF HelperInv
<1>. QED  BY <1>0, <1>1, <1>2, <1>3, <1>4, <1>5

LEMMA SignalStep ==
  ASSUME SessionInv, Signal PROVE SessionInv' /\ InSession' = InSession
<1> USE DEF SessionInv, TypeOK
<1>0. g_stop' = TRUE /\ UNCHANGED <<clients, sockets, dPc, ret, loop, thread, overlooked>>
  BY DEF Signal
<1>1. ClientsOK' /\ LoopOK' /\ HelperOK'
  BY <1>0, ZenonT(40) DEF ClientsOK, LoopOK, HelperOK, clients, sockets, loop, thread
<1>2. LoopInv' /\ QueueInv' /\ ClientInv' /\ InSession' = InSession
  BY <1>0 DEF LoopInv, QueueInv, ClientInv, InSession, sockets, loop, clients
<1>3. ResetInv' /\ SeenInv' /\ HelperInv'
  BY <1>0, <1>2 DEF ResetInv, SeenInv, HelperInv, loop, clients, thread
<1>. QED  BY <1>0, <1>1, <1>2, <1>3

LEMMA StutterStep ==
  ASSUME SessionInv, UNCHANGED vars PROVE SessionInv' /\ InSession' = InSession
<1> USE DEF SessionInv, TypeOK, vars, clients, sockets, loop, thread
<1>1. ClientsOK' /\ LoopOK' /\ HelperOK'
  BY ZenonT(40) DEF ClientsOK, LoopOK, HelperOK
<1>2. LoopInv' /\ QueueInv' /\ ClientInv' /\ InSession' = InSession
  BY DEF LoopInv, QueueInv, ClientInv, InSession
<1>3. ResetInv' /\ SeenInv' /\ HelperInv'
  BY <1>2 DEF ResetInv, SeenInv, HelperInv
<1>. QED  BY <1>1, <1>2, <1>3

-----------------------------------------------------------------------------
ClientMoves(c) == \/ Answered(c) \/ Leave(c) \/ Send(c)
                  \/ \E h \in {"valid", "invalid"} : SayHello(c, h)

LEMMA SessionStep == SessionInv /\ [Next]_vars => SessionInv'
<1> SUFFICES ASSUME SessionInv, [Next]_vars PROVE SessionInv'
  OBVIOUS
<1>1. ASSUME NEW c \in Client, Connect(c) PROVE SessionInv'
  BY <1>1, ConnectStep
<1>2. ASSUME NEW c \in Client, ClientMoves(c) PROVE SessionInv'
  BY <1>2, ClientStep DEF ClientMoves
<1>3. CASE Daemon
  BY <1>3, LoopStep, AcceptStep, RejectStep, ReadHelloStep, SendWelcomeStep, CloseSessionStep,
     UnlinkStep DEF Daemon
<1>4. CASE Helper \/ Signal \/ UNCHANGED vars
  BY <1>4, HelperStep, SignalStep, StutterStep
<1>. QED  BY <1>1, <1>2, <1>3, <1>4 DEF Next, ClientMoves

LEMMA SessionInvariant == Spec => []SessionInv
BY SessionInit, SessionStep, PTL DEF Spec

\* The accept loop, the helper, the sockets and the clients keep their types.
THEOREM TypeCorrect == Spec => []TypeOK
<1>1. SessionInv => TypeOK
  BY DEF SessionInv
<1>. QED  BY <1>1, SessionInvariant, PTL

\* What a step does to the end of the loop, and to the flag that stops the threads.
LEMMA EndStep ==
  ASSUME TypeOK, EndInv, [Next]_vars
  PROVE  /\ EndInv'
         /\ Stopping => Stopping'
         /\ Stopping' => Stopping \/ CheckStop \/ PollFails \/ Signal
<1>0. ret \in {"loop", "poll", "unlink"}
  BY DEF TypeOK, LoopOK
<1>1. CASE LookForHangup \/ PollTimeout \/ AcceptFails \/ Accept
  <2>1. dPc \in {"look", "poll"} /\ ret' \in {ret, "poll"} /\ dPc' \notin {"unlink", "ended"}
    BY <1>1 DEF LookForHangup, PollTimeout, AcceptFails, Accept, DaemonAt, Goes, ResetConnection
  <2>2. g_stop' = g_stop
    BY <1>1 DEF LookForHangup, PollTimeout, AcceptFails, Accept
  <2>. QED  BY <2>1, <2>2 DEF EndInv, Stopping
<1>2. CASE Reject \/ ReadHello \/ Create \/ SendWelcome \/ StartHelper
  <2>1. /\ dPc \in {"count", "hello", "create", "welcome", "start helper"}
        /\ ret' \in {ret, "loop"} /\ dPc' \notin {"unlink", "ended"}
    BY <1>2 DEF Reject, ReadHello, Create, SendWelcome, StartHelper, Close, DaemonAt, Goes,
       ResetConnection
  <2>2. g_stop' = g_stop
    BY <1>2 DEF Reject, ReadHello, Create, SendWelcome, StartHelper
  <2>. QED  BY <2>1, <2>2 DEF EndInv, Stopping
<1>3. CASE StopHelper \/ JoinHelper \/ CloseSession
  <2>1. /\ ret' = ret
        /\ dPc' \in {"join helper", "close"} \/ dPc' = ret
    BY <1>3 DEF StopHelper, JoinHelper, CloseSession, DaemonAt
  <2>2. g_stop' = g_stop
    BY <1>3 DEF StopHelper, JoinHelper, CloseSession
  <2>. QED  BY <1>0, <2>1, <2>2 DEF EndInv, Stopping
<1>4. CASE Unlink
  <2>1. dPc = "unlink" /\ dPc' = "ended" /\ ret' = ret /\ g_stop' = TRUE
    BY <1>4 DEF Unlink, DaemonAt
  <2>. QED  BY <2>1 DEF EndInv, Stopping
<1>5. CASE CheckStop
  <2>1. \/ ret' = ret /\ dPc = "loop" /\ dPc' = "look"
        \/ ret' = "unlink" /\ dPc' = "stop helper"
    BY <1>5 DEF CheckStop, Goes, ResetConnection
  <2>2. g_stop' = g_stop
    BY <1>5 DEF CheckStop
  <2>. QED  BY <1>5, <2>1, <2>2 DEF EndInv, Stopping
<1>6. CASE PollFails
  <2>1. ret' = "unlink" /\ dPc' = "stop helper"
    BY <1>6 DEF PollFails, ResetConnection
  <2>. QED  BY <1>6, <2>1 DEF EndInv, Stopping
<1>7. CASE Signal
  <2>1. UNCHANGED <<dPc, ret>> /\ g_stop' = TRUE
    BY <1>7 DEF Signal
  <2>. QED  BY <1>7, <2>1 DEF EndInv, Stopping
<1>8. CASE ~Daemon /\ ~Signal
  <2>1. UNCHANGED <<dPc, ret, g_stop>>
    BY <1>8 DEF Next, Connect, Answered, Welcomed, Refused, Leave, Send, SayHello, Helper,
       HelperCheck, HelperRound, vars
  <2>. QED  BY <2>1 DEF EndInv, Stopping
<1>. QED  BY <1>1, <1>2, <1>3, <1>4, <1>5, <1>6, <1>7, <1>8 DEF Daemon

LEMMA EndInvariant == Spec => []EndInv
<1>1. Init => EndInv
  BY DEF Init, EndInv
<1>2. SessionInv /\ EndInv /\ [Next]_vars => EndInv'
  BY EndStep DEF SessionInv
<1>. QED  BY <1>1, <1>2, SessionInvariant, PTL DEF Spec

\* However many controllers come, hang, are killed or fail, the accept loop is a
\* ControllerSlot: one session at a time, ended for its own reasons only.
THEOREM SlotImplemented == Spec => ImplementsSlot
<1> USE DEF Slot!Next, Slot!Come, Slot!Go, Slot!Grant, Slot!Free, Slot!Stop, Slot!vars
<1>1. Init => Slot!Init
  BY DEF Init, Slot!Init, InSession, Present, Stopping
<1>2. ASSUME SessionInv, EndInv, [Next]_vars PROVE [Slot!Next]_(Slot!vars)
  <2> USE <1>2
  <2>1. ASSUME NEW c \in Client, Connect(c) PROVE Slot!Come(c)
    <3>1. /\ cState[c] = "new" /\ socket[c] = "none" /\ cState' = [cState EXCEPT ![c] = "greet"]
          /\ socket' = [socket EXCEPT ![c] = "open"]
          /\ UNCHANGED <<controlling_client_fd, Stopping>>
      BY <2>1 DEF Connect, ClientAt, loop, SessionInv, ClientInv, Stopping
    <3>2. InSession' = InSession
      BY <3>1 DEF InSession, SessionInv, TypeOK, LoopOK
    <3>3. c \notin Present /\ Present' = Present \cup {c}
      BY <3>1 DEF Present, SessionInv, TypeOK, ClientsOK
    <3>. QED  BY <3>1, <3>2, <3>3
  <2>2. ASSUME NEW c \in Client, ClientMoves(c) PROVE Slot!Go(c) \/ UNCHANGED Slot!vars
    <3> USE DEF ClientMoves, Answered, Welcomed, Refused, Leave, SayHello, Send, ClientAt
    <3>1. UNCHANGED <<sockets, loop, Stopping>>
      BY <2>2 DEF Stopping
    <3>2. /\ cState[c] \notin {"new", "gone"}
          /\ cState'[c] # "new"
          /\ \A d \in Client : d # c => cState'[d] = cState[d]
      BY <2>2 DEF SessionInv, TypeOK, ClientsOK
    <3> HIDE DEF ClientMoves, Answered, Welcomed, Refused, Leave, SayHello, Send, ClientAt
    <3>3. InSession' = InSession
      BY <3>1 DEF InSession, sockets, loop
    <3>4. c \in Present /\ (Present' = Present \/ Present' = Present \ {c})
      BY <3>2 DEF Present
    <3>. QED  BY <3>1, <3>3, <3>4
  <2>3. ASSUME Daemon
        PROVE  \/ Slot!Free \/ Slot!Stop \/ (\E c \in Client : Slot!Grant(c))
               \/ UNCHANGED Slot!vars
    <3>1. UNCHANGED cState
      BY <2>3 DEF Daemon, CheckStop, LookForHangup, PollTimeout, PollFails, AcceptFails, Accept,
         Reject, ReadHello, Create, SendWelcome, StartHelper, StopHelper, JoinHelper,
         CloseSession, Unlink, clients
    <3>2. Present' = Present
      BY <3>1 DEF Present
    <3>3. CASE CheckStop \/ PollFails
      <4>1. InSession' = InSession
        BY <3>3 DEF CheckStop, PollFails, InSession, sockets, loop
      <4>. QED  BY <3>2, <4>1, EndStep DEF Stopping, SessionInv
    <3>4. CASE ~CheckStop /\ ~PollFails
      <4>1. Stopping' = Stopping
        <5>1. ~Signal \/ Stopping
          BY <2>3, <3>4 DEF Signal, Daemon, LookForHangup, PollTimeout, AcceptFails, Accept, Reject,
             ReadHello, Create, SendWelcome, StartHelper, StopHelper, JoinHelper, CloseSession,
             Unlink, DaemonAt, Goes, ResetConnection, Close, Stopping, EndInv
        <5>. QED  BY <3>4, <5>1, EndStep DEF Stopping, SessionInv
      <4>2. \/ InSession' = InSession
            \/ InSession = None /\ InSession' \in Client
            \/ InSession # None /\ InSession' = None /\ (InSession \notin Present \/ Stopping)
        <5>1. CASE \/ LookForHangup \/ PollTimeout \/ AcceptFails \/ Create \/ StartHelper
                   \/ StopHelper \/ JoinHelper \/ Accept
          BY <5>1 DEF LookForHangup, PollTimeout, AcceptFails, Create, StartHelper, StopHelper,
             JoinHelper, Accept, InSession, sockets, loop
        <5>. QED
          BY <2>3, <3>4, <5>1, RejectStep, ReadHelloStep, SendWelcomeStep, CloseSessionStep,
             UnlinkStep DEF Daemon
      <4>. QED  BY <3>2, <4>1, <4>2
    <3>. QED  BY <3>3, <3>4
  <2>4. ASSUME Helper \/ UNCHANGED vars PROVE UNCHANGED Slot!vars
    <3>1. UNCHANGED <<cState, Stopping>> /\ InSession' = InSession
      BY <2>4, HelperStep, StutterStep DEF Helper, HelperCheck, HelperRound, clients, vars, Stopping
    <3>. QED  BY <3>1 DEF Present
  <2>5. ASSUME Signal PROVE Slot!Stop \/ UNCHANGED Slot!vars
    <3>1. UNCHANGED <<cState, ret>> /\ g_stop' = TRUE
      BY <2>5 DEF Signal, clients
    <3>2. InSession' = InSession
      BY <2>5, SignalStep
    <3>3. Stopping' = TRUE /\ Stopping \in BOOLEAN
      BY <3>1 DEF Stopping
    <3>. QED  BY <3>1, <3>2, <3>3 DEF Present
  <2>. QED  BY <1>2, <2>1, <2>2, <2>3, <2>4, <2>5 DEF Next, ClientMoves
<1>. QED  BY <1>1, <1>2, SessionInvariant, EndInvariant, PTL DEF Spec, ImplementsSlot, Slot!Spec

\* Nothing that a session has sent is carried out when it is over.
THEOREM OwnCommands == Spec => OwnCommandsOnly
<1>1. ASSUME SessionInv, [Next]_vars PROVE \A c \in Client : c \in mail /\ c \notin mail' => c = InSession
  <2>1. CASE Helper
    BY <1>1, <2>1, HelperStep
  <2>2. ASSUME ~Helper PROVE mail \subseteq mail'
    BY <1>1, <2>2 DEF clients, Next, Connect, Answered, Welcomed, Refused, Leave, Send,
       SayHello, Daemon, CheckStop, LookForHangup, PollTimeout, PollFails, AcceptFails, Accept,
       Reject, ReadHello, Create, SendWelcome, StartHelper, StopHelper, JoinHelper,
       CloseSession, Unlink, Signal, vars
  <2>. QED  BY <2>1, <2>2
<1>2. SessionInv /\ [Next]_vars => [\A c \in Client : c \in mail /\ c \notin mail' => c = InSession]_vars
  BY <1>1
<1>. QED  BY <1>2, SessionInvariant, PTL DEF Spec, OwnCommandsOnly

\* A client is turned away only beside a controller that was there at the last look.
THEOREM OnlyBesides == Spec => RejectedBesideController
<1>1. ASSUME SessionInv, [Next]_vars, dPc = "count", dPc' = "loop"
      PROVE  cState[controlling_client_fd] # "gone" \/ overlooked
  <2>1. Reject
    BY <1>1 DEF Next, Connect, Answered, Welcomed, Refused, Leave, Send, SayHello, Daemon,
       CheckStop, LookForHangup, PollTimeout, PollFails, AcceptFails, Accept, ReadHello, Create,
       SendWelcome, DaemonAt, StartHelper, StopHelper, JoinHelper, CloseSession, Unlink, Helper,
       HelperCheck, HelperRound, Signal, vars
  <2>2. controlling_client_fd # None
    BY <1>1, <2>1 DEF Reject
  <2>. QED  BY <1>1, <2>2 DEF SessionInv, SeenInv
<1>2. SessionInv /\ [Next]_vars =>
        [dPc = "count" /\ dPc' = "loop"
           => cState[controlling_client_fd] # "gone" \/ overlooked]_vars
  BY <1>1
<1>. QED  BY <1>2, SessionInvariant, PTL DEF Spec, RejectedBesideController
=============================================================================
