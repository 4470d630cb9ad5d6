------------------------------ MODULE ServoBus ------------------------------
(***************************************************************************)
(* The serial bus of the Feetech backends, and what the controller takes   *)
(* the posture of the arm to be.  Telemetry publishers, the command        *)
(* thread, an executor and the pacing thread of its stream read positions  *)
(* through sync_read (protocol.py), which takes the serial lock once for   *)
(* the request and once more for the answers, and overrides the port's     *)
(* timeout outside it.  What they read, complete or not, becomes           *)
(* current_logical_joint_angles_rad, from which relative moves start, and  *)
(* STOP's brake sends it straight to the servos.                           *)
(*                                                                         *)
(* A request or a goal is one step under the lock, and so is the end of a  *)
(* read: a reader still blocked in it counts as not yet holding the lock.  *)
(* Frames are whole.  Of the blocks telemetry asks for only the one is     *)
(* modelled whose frames are as long as those of a position; the others    *)
(* never parse as one.  The default timeout is long enough for every frame *)
(* on the wire, the short one need not be.  One servo stands for a joint.  *)
(* Of the values read only their nature is kept.  A motion is a stream     *)
(* (module Streaming) with its open-loop executor, or a closed-loop        *)
(* executor of its own; a stream is opened only when the pacing thread of  *)
(* the last one has ended.                                                 *)
(***************************************************************************)
EXTENDS Naturals, Sequences, FiniteSets

CONSTANTS
  Servo,        (* identifiers: servos answer in their order               *)
  Publisher,    (* threads there are for _telemetry_loop                   *)
  MaxCommands,  (* bound: commands handled                                 *)
  Faulty        (* servos that may fail to answer                          *)

ASSUME Assumptions ==
  /\ Servo \subseteq Nat /\ IsFiniteSet(Servo) /\ Servo # {}
  /\ Publisher \cap {"command", "executor", "pacing", "none"} = {}
  /\ MaxCommands \in Nat /\ Faulty \subseteq Servo

VARIABLES
  frames,           (* asked for and not yet read: some arrived, some not   *)
  timeout,          (* ser.timeout                                          *)
  ref,              (* current_logical_joint_angles_rad                     *)
  streaming_handle, should_stop,           (* trajectory_state              *)
  telemetry_thread, telemetry_stop_event,  (* of run_controller.main        *)
  stream,           (* the state of the motion's handle                     *)
  cPc, ePc, pPc,    (* the command, executor and pacing threads             *)
  pub,              (* the publishers                                       *)
  at,               (* readers: where in sync_read,                         *)
  got,              (* what it gave or gives,                               *)
  saved,            (* original_timeout                                     *)
  n,                (* commands taken                                       *)
  disturbed,        (* history: readers whose read met another transaction, *)
                    (* a fault, a short timeout or a moving arm             *)
  missed,           (* history: publishers still at work when the event     *)
                    (* that stops them was cleared                          *)
  whyRef            (* history: what the last store of ref is worth         *)

port    == <<frames, timeout>>
shared  == <<streaming_handle, should_stop>>
service == <<telemetry_thread, telemetry_stop_event, pub, missed>>
motion  == <<stream, ePc, pPc>>
reading == <<at, got, saved, disturbed>>
posture == <<ref, whyRef>>
command == <<cPc, n>>
vars == <<port, shared, service, motion, reading, posture, command>>

\* The threads that move the arm.
Mover  == {"command", "executor", "pacing"}
Reader == Mover \cup Publisher
None   == "none"

\* A posture: every joint where it is; some joint elsewhere, that is the 0.0 that
\* stands for no answer, the content of another register or where it was; no
\* answer at all.
Posture == {"true", "wrong", "missing"}

\* A client may have started telemetry or a motion already.
Init ==
  /\ frames = <<>> /\ timeout = "default"
  /\ ref = "true" /\ whyRef = "ok"
  /\ streaming_handle = FALSE /\ should_stop = FALSE
  /\ telemetry_thread \in {None} \cup Publisher /\ telemetry_stop_event = FALSE
  /\ stream = None /\ cPc = "idle" /\ pPc = None
  /\ ePc \in IF telemetry_thread = None THEN {None, "open", "loop"} ELSE {None}
  /\ pub = [p \in Publisher |-> IF p = telemetry_thread THEN "look" ELSE None]
  /\ missed = {}
  /\ at = [r \in Reader |-> "out"] /\ got = [r \in Reader |-> "true"]
  /\ saved = [r \in Mover |-> "default"]
  /\ n = 0 /\ disturbed = {}

-----------------------------------------------------------------------------
(* The bus.                                                                *)

\* Mutant: the block starts at another register.
BlockMisplaced(r) == IF r \in Publisher /\ pub[r] = "block" THEN "goal" ELSE "position"

\* What a reader asks for.
Block(r) == IF r \in Publisher /\ pub[r] = "block" THEN "condition" ELSE "position"

\* The readers that wait for positions.
Waiting == {r \in Reader : at[r] = "read" /\ Block(r) = "position"}

\* A goal goes out, and may garble the frames still to come.
SyncWrite ==
  /\ frames' \in {frames, <<>>}
  /\ timeout' = timeout

\* The readers a goal disturbs: those whose answers it runs into and, if it
\* moves the arm, those that still hold what they read.
Hit(moves) ==
  {r \in Waiting : frames' # frames}
  \cup {r \in Reader : /\ moves /\ Block(r) = "position"
                       /\ at[r] \in {"read", "restore", "back"}}

\* What they hold is then where the arm was.
Outdated ==
  [r \in Reader |-> IF /\ at[r] \in {"restore", "back"} /\ Block(r) = "position"
                       /\ got[r] = "true"
                    THEN "wrong" ELSE got[r]]

-----------------------------------------------------------------------------
(* sync_read_positions and sync_read_block.                                *)

\* The reads with a timeout of their own: the brake of a stream, who goes on with
\* a stream, and the closed-loop executor.
Overrides(r) == r \in {"executor", "pacing"} \/ (r = "command" /\ cPc = "stream brake")

Begin(r, overriding) ==
  at' = [at EXCEPT ![r] = IF overriding THEN "override" ELSE "request"]

Override(r) ==
  /\ at[r] = "override"
  /\ saved' = [saved EXCEPT ![r] = timeout]
  /\ timeout' = "short"
  /\ at' = [at EXCEPT ![r] = "request"]
  /\ UNCHANGED <<frames, shared, service, motion, got, disturbed, posture, command>>

\* The servos that answer a request.
Answering == {Servo \ silent : silent \in SUBSET Faulty}

\* What they put on the bus, one after the other.
Answers(r, servos) ==
  {answers \in [1..Cardinality(servos) -> [servo : servos, block : {Block(r)}]] :
     \A i, j \in DOMAIN answers : i < j => answers[i].servo < answers[j].servo}

\* The readers a request disturbs: those that still wait, and its own when a
\* servo is late with an old answer or fails to answer.
Overlapped(r, late, servos) ==
  (disturbed \ {r}) \cup Waiting
  \cup {q \in {r} : (late # <<>> \/ servos # Servo) /\ Block(q) = "position"}

\* Mutant: the input buffer is not emptied.
RequestUnreset(r) ==
  /\ at[r] = "request"
  /\ \E servos \in Answering :
       /\ \E answers \in Answers(r, servos) : frames' = frames \o answers
       /\ disturbed' = Overlapped(r, <<>>, servos)
  /\ at' = [at EXCEPT ![r] = "read"]
  /\ UNCHANGED <<timeout, shared, service, motion, got, saved, posture, command>>

\* The input buffer is emptied.  The servos turn to the new request, but for
\* one that is already answering the old one.
Request(r) ==
  /\ at[r] = "request"
  /\ \E servos \in Answering, late \in {<<>>} \cup {<<frames[i]>> : i \in DOMAIN frames} :
       /\ \E answers \in Answers(r, servos) : frames' = late \o answers
       /\ disturbed' = Overlapped(r, late, servos)
  /\ at' = [at EXCEPT ![r] = "read"]
  /\ UNCHANGED <<timeout, shared, service, motion, got, saved, posture, command>>

\* The first frame of a servo counts, whatever it was asked for.
Counts(taken, i) == \A j \in 1..(i - 1) : taken[j].servo # taken[i].servo

Placed(taken) ==
  \A s \in Servo : \E i \in DOMAIN taken :
    taken[i].servo = s /\ taken[i].block = "position" /\ Counts(taken, i)

Parse(taken) == IF taken = <<>> THEN "missing" ELSE IF Placed(taken) THEN "true" ELSE "wrong"

\* Enough bytes, or too long without them.
Receive(r) ==
  /\ at[r] = "read"
  /\ \E k \in 0..Cardinality(Servo) :
       LET taken == SubSeq(frames, 1, k) IN
       /\ k <= Len(frames)
       /\ k = Cardinality(Servo) \/ k = Len(frames) \/ timeout = "short"
       /\ frames' = SubSeq(frames, k + 1, Len(frames))
       /\ got' = [got EXCEPT ![r] = IF Block(r) = "condition" THEN "true" ELSE Parse(taken)]
       /\ disturbed' = disturbed
                       \cup {q \in {r} \cap Waiting : k < Cardinality(Servo) /\ k < Len(frames)}
                       \cup {q \in Waiting \ {r} : taken # <<>>}
  /\ at' = [at EXCEPT ![r] = IF Overrides(r) THEN "restore" ELSE "back"]
  /\ UNCHANGED <<timeout, shared, service, motion, saved, posture, command>>

Restore(r) ==
  /\ at[r] = "restore"
  /\ timeout' = saved[r]
  /\ at' = [at EXCEPT ![r] = "back"]
  /\ UNCHANGED <<frames, shared, service, motion, got, saved, disturbed, posture, command>>

SyncRead(r) == Override(r) \/ Request(r) \/ Receive(r) \/ Restore(r)

\* The caller goes on with what it got.
Return(r) ==
  /\ at[r] = "back"
  /\ at' = [at EXCEPT ![r] = "out"]

\* get_current_arm_state_rad stores what it got, complete or not.
StoreRead(r) ==
  /\ ref' = IF got[r] = "true" THEN "true" ELSE "wrong"
  /\ whyRef' = IF r \in disturbed THEN "disturbed" ELSE "ok"

\* A thread is done with what it got and leaves the arm alone, or sends it on.
Hold(r) ==
  /\ Return(r) /\ UNCHANGED port
  /\ got' = [got EXCEPT ![r] = "true"] /\ disturbed' = disturbed \ {r}
  /\ saved' = [saved EXCEPT ![r] = "default"]

Lead(r) ==
  /\ Return(r) /\ SyncWrite
  /\ got' = [Outdated EXCEPT ![r] = "true"] /\ disturbed' = (disturbed \cup Hit(TRUE)) \ {r}
  /\ saved' = [saved EXCEPT ![r] = "default"]

-----------------------------------------------------------------------------
(* Telemetry publishers.                                                   *)

Publishing(p) == pub[p] # None

AtPub(p, from, to) == pub[p] = from /\ pub' = [pub EXCEPT ![p] = to]

\* "Skip servo reads while a streaming move is active": what is left of the round
\* changes nothing.
Look(p) ==
  /\ pub[p] = "look"
  /\ telemetry_stop_event \/ ~streaming_handle \/ should_stop
  /\ pub' = [pub EXCEPT ![p] = IF telemetry_stop_event THEN None ELSE "positions"]
  /\ IF pub'[p] = "positions" THEN Begin(p, FALSE) ELSE at' = at
  /\ missed' = missed \ {q \in {p} : telemetry_stop_event}
  /\ UNCHANGED <<port, shared, telemetry_thread, telemetry_stop_event, motion,
                 got, saved, disturbed, posture, command>>

\* A block is due twice a second.
Publish(p) ==
  /\ pub[p] = "positions" /\ at[p] = "back"
  /\ StoreRead(p)
  /\ \/ AtPub(p, "positions", "block") /\ Begin(p, FALSE)
     \/ AtPub(p, "positions", "look") /\ Return(p)
  /\ got' = [got EXCEPT ![p] = "true"] /\ disturbed' = disturbed \ {p}
  /\ UNCHANGED <<port, shared, telemetry_thread, telemetry_stop_event, missed, motion,
                 saved, command>>

PublishBlock(p) ==
  /\ AtPub(p, "block", "look") /\ Return(p)
  /\ UNCHANGED <<port, shared, telemetry_thread, telemetry_stop_event, missed, motion,
                 got, saved, disturbed, posture, command>>

Publishes(p) == Look(p) \/ Publish(p) \/ PublishBlock(p)

-----------------------------------------------------------------------------
(* A motion: its executor and the pacing thread of its stream.             *)

AtExec(from, to) == ePc = from /\ ePc' = to

Open ==
  /\ AtExec("open", "register") /\ pPc = None
  /\ stream' = "running" /\ pPc' = "look"
  /\ UNCHANGED <<port, shared, service, reading, posture, command>>

Register ==
  /\ AtExec("register", "watch")
  /\ streaming_handle' = TRUE
  /\ UNCHANGED <<port, should_stop, service, stream, pPc, reading, posture, command>>

\* STOP's flag is up while the stream goes on.
Watch ==
  /\ AtExec("watch", "cancel")
  /\ stream = "running" /\ should_stop
  /\ UNCHANGED <<port, shared, service, stream, pPc, reading, posture, command>>

\* handle.cancel: a stream that is over is left alone.
Cancel(r) ==
  IF stream = "running"
  THEN stream' = "cancelled" /\ Begin(r, TRUE)
  ELSE stream' = stream /\ at' = at

WatchCancel ==
  /\ Cancel("executor")
  /\ AtExec("cancel", IF at' = at THEN "store" ELSE "brake")
  /\ UNCHANGED <<port, shared, service, pPc, got, saved, disturbed, posture, command>>

\* The brake of the stream, if any servo answered.
StreamBrake(r) ==
  /\ Return(r)
  /\ IF got[r] = "missing" THEN UNCHANGED port ELSE SyncWrite
  /\ got' = [got EXCEPT ![r] = "true"]
  /\ disturbed' = (disturbed \ {r}) \cup Hit(FALSE)
  /\ saved' = [saved EXCEPT ![r] = "default"]

WatchBrake ==
  /\ AtExec("brake", "store")
  /\ StreamBrake("executor")
  /\ UNCHANGED <<shared, service, stream, pPc, posture, command>>

\* The stream is over.
Over == ePc = "store" \/ (ePc = "watch" /\ stream # "running")

\* Mutant: only a STOP has the executor store where the path ends.
StoreEndIfStopped ==
  /\ Over /\ ePc' = "unregister"
  /\ ref' = IF stream = "done" THEN ref ELSE "wrong"
  /\ whyRef' = IF stream = "done" THEN "ok" ELSE "stopped"
  /\ UNCHANGED <<port, shared, service, stream, pPc, reading, command>>

\* The end of the path, whether or not the arm has got there.
StoreEnd ==
  /\ Over /\ ePc' = "unregister"
  /\ ref' = IF stream = "done" THEN "true" ELSE "wrong"
  /\ whyRef' = IF stream = "done" THEN "ok" ELSE "stopped"
  /\ UNCHANGED <<port, shared, service, stream, pPc, reading, command>>

Unregister ==
  /\ AtExec("unregister", "end")
  /\ streaming_handle' = FALSE
  /\ UNCHANGED <<port, should_stop, service, stream, pPc, reading, posture, command>>

EndMotion ==
  /\ AtExec("end", None)
  /\ should_stop' = FALSE
  /\ UNCHANGED <<port, streaming_handle, service, stream, pPc, reading, posture, command>>

\* The pacing thread looks and writes, until it has written its last goal
\* (module Streaming).
PaceLook ==
  /\ pPc = "look"
  /\ pPc' = IF stream = "running" THEN "write" ELSE None
  /\ UNCHANGED <<port, shared, service, stream, ePc, reading, posture, command>>

\* After a pause it has read where the arm is, leads it back to the path where it
\* has drifted, and writes without another look.
Resume ==
  /\ pPc = "resume" /\ pPc' = "write"
  /\ \/ Hold("pacing") /\ UNCHANGED posture
     \/ /\ got["pacing"] # "missing" /\ Lead("pacing")
        /\ ref' = "wrong"
        /\ whyRef' = IF stream = "running" THEN whyRef ELSE "stopped"
  /\ UNCHANGED <<shared, service, stream, ePc, command>>

Pace ==
  /\ pPc = "write"
  /\ SyncWrite
  /\ disturbed' = disturbed \cup Hit(TRUE) /\ got' = Outdated
  /\ ref' = "wrong"
  /\ whyRef' = IF stream = "running" THEN whyRef ELSE "stopped"
  /\ \/ pPc' = "look" /\ stream' = stream
     \/ pPc' = None /\ stream' = IF stream = "running" THEN "done" ELSE stream
  /\ UNCHANGED <<shared, service, ePc, at, saved, command>>

\* The closed-loop executor looks at STOP's flag and reads, ...
LoopLook ==
  /\ AtExec("loop", "loop read") /\ ~should_stop
  /\ Begin("executor", TRUE)
  /\ UNCHANGED <<port, shared, service, stream, pPc, got, saved, disturbed, posture, command>>

\* ... sends the next point of the path to the servos that have answered, ...
LoopWrite ==
  /\ ePc = "loop read"
  /\ \/ ePc' = "loop"
     \/ ePc' = "reached" /\ got["executor"] # "missing"
     \/ ePc' = "short" /\ got["executor"] # "true"
  /\ IF got["executor"] = "missing"
     THEN Hold("executor") /\ UNCHANGED posture
     ELSE Lead("executor") /\ ref' = "wrong" /\ whyRef' = whyRef
  /\ UNCHANGED <<shared, service, stream, pPc, command>>

\* ... and stores the end of the path, whether all servos have been sent there
\* or not.
LoopEnd ==
  /\ \/ AtExec("loop", "end") /\ should_stop /\ ref' = "wrong" /\ whyRef' = "stopped"
     \/ AtExec("reached", "end") /\ ref' = "true" /\ whyRef' = "ok"
     \/ AtExec("short", "end") /\ ref' = "wrong" /\ whyRef' = "disturbed"
  /\ UNCHANGED <<port, shared, service, stream, pPc, reading, command>>

Moves == \/ Open \/ Register \/ Watch \/ WatchCancel \/ WatchBrake \/ StoreEnd
         \/ Unregister \/ EndMotion \/ PaceLook \/ Resume \/ Pace
         \/ LoopLook \/ LoopWrite \/ LoopEnd

-----------------------------------------------------------------------------
(* The command thread.                                                     *)

AtCommand(from, to) == cPc = from /\ cPc' = to /\ n' = n

Take == cPc = "idle" /\ n < MaxCommands /\ n' = n + 1

\* STOP takes the handle out of trajectory_state, ...
TakeStop ==
  /\ Take
  /\ streaming_handle' = FALSE
  /\ cPc' = IF streaming_handle THEN "cancel" ELSE "flag"
  /\ UNCHANGED <<port, should_stop, service, motion, reading, posture>>

\* ... cancels it, ...
StopCancel ==
  /\ Cancel("command")
  /\ AtCommand("cancel", IF at' = at THEN "flag" ELSE "stream brake")
  /\ UNCHANGED <<port, shared, service, ePc, pPc, got, saved, disturbed, posture>>

StopStreamBrake ==
  /\ AtCommand("stream brake", "flag")
  /\ StreamBrake("command")
  /\ UNCHANGED <<shared, service, motion, posture>>

\* ... ends what goes on without it, ...
StopFlag ==
  /\ AtCommand("flag", "stop read")
  /\ should_stop' = TRUE
  /\ Begin("command", FALSE)
  /\ UNCHANGED <<port, streaming_handle, service, motion, got, saved, disturbed, posture>>

StopStore ==
  /\ AtCommand("stop read", "hold") /\ at["command"] = "back"
  /\ StoreRead("command")
  /\ UNCHANGED <<port, shared, service, motion, reading>>

\* ... and holds the arm where it read it to be.  From then on it is commanded
\* to be there.
StopHold ==
  /\ AtCommand("hold", "idle") /\ Return("command")
  /\ SyncWrite
  /\ ref' = "true" /\ whyRef' = "ok"
  /\ disturbed' = (disturbed \ {"command"}) \cup (Hit(TRUE) \ {"command"})
  /\ got' = [Outdated EXCEPT !["command"] = "true"]
  /\ UNCHANGED <<shared, service, motion, saved>>

\* TRANSLATE and ROTATE start from ref, and command the arm to where they lead.
TakeDirect ==
  /\ Take
  /\ should_stop' = FALSE
  /\ cPc' = "direct"
  /\ UNCHANGED <<port, streaming_handle, service, motion, reading, posture>>

MoveDirectly ==
  /\ AtCommand("direct", "idle")
  /\ SyncWrite
  /\ ref' = "true" /\ whyRef' = "ok"
  /\ disturbed' = disturbed \cup Hit(TRUE) /\ got' = Outdated
  /\ UNCHANGED <<shared, service, motion, at, saved>>

\* A profiled move, rejected while another one is running.
TakeMove ==
  /\ Take
  /\ should_stop' = FALSE
  /\ IF ePc = None THEN cPc' = "move read" /\ Begin("command", FALSE)
                   ELSE cPc' = "idle" /\ at' = at
  /\ UNCHANGED <<port, streaming_handle, service, motion, got, saved, disturbed, posture>>

StartMove ==
  /\ AtCommand("move read", "idle") /\ Return("command")
  /\ StoreRead("command")
  /\ got' = [got EXCEPT !["command"] = "true"] /\ disturbed' = disturbed \ {"command"}
  /\ should_stop' = FALSE /\ ePc' \in {"open", "loop"}
  /\ UNCHANGED <<port, streaming_handle, service, stream, pPc, saved>>

\* A client of the handle pauses and resumes the stream, which no command does;
\* it counts as one.
PauseAndResume ==
  /\ Take /\ cPc' = "idle"
  /\ stream = "running" /\ pPc = "look" /\ pPc' = "resume"
  /\ Begin("pacing", TRUE)
  /\ UNCHANGED <<port, shared, service, stream, ePc, got, saved, disturbed, posture>>

\* Mutant: the publisher there is is not told.
TakeTelemetryBeside(then) ==
  /\ Take
  /\ cPc' = then
  /\ UNCHANGED <<port, shared, service, motion, reading, posture>>

\* START_TELEMETRY and STOP_TELEMETRY tell the publisher there is to end, ...
TakeTelemetry(then) ==
  /\ Take
  /\ cPc' = then
  /\ telemetry_stop_event' = (telemetry_thread # None /\ Publishing(telemetry_thread))
  /\ UNCHANGED <<port, shared, telemetry_thread, pub, missed, motion, reading, posture>>

\* ... wait for it, half a second at most, and take the word back.
Joined == /\ telemetry_stop_event' = FALSE
          /\ missed' = missed \cup {p \in Publisher : telemetry_stop_event /\ Publishing(p)}

StartPublisher ==
  /\ AtCommand("start", "idle")
  /\ Joined
  /\ \E p \in Publisher : /\ ~Publishing(p)
                          /\ telemetry_thread' = p
                          /\ pub' = [pub EXCEPT ![p] = "look"]
  /\ UNCHANGED <<port, shared, motion, reading, posture>>

ForgetPublisher ==
  /\ AtCommand("stop", "idle")
  /\ Joined
  /\ telemetry_thread' = None
  /\ UNCHANGED <<port, shared, pub, motion, reading, posture>>

Handles == \/ TakeStop \/ StopCancel \/ StopStreamBrake \/ StopFlag \/ StopStore \/ StopHold
           \/ TakeDirect \/ MoveDirectly \/ TakeMove \/ StartMove \/ PauseAndResume
           \/ TakeTelemetry("start") \/ StartPublisher
           \/ TakeTelemetry("stop") \/ ForgetPublisher

-----------------------------------------------------------------------------
Next == \/ \E r \in Reader : SyncRead(r)
        \/ \E p \in Publisher : Publishes(p)
        \/ Moves \/ Handles

Spec == Init /\ [][Next]_vars

-----------------------------------------------------------------------------
(* Properties.                                                             *)

Frame == [servo : Servo, block : {"position", "condition"}]

\* The port, the shared state and the threads have their type; what is on the
\* bus was asked for.
TypeOK ==
  /\ frames \in Seq(Frame) /\ timeout \in {"default", "short"}
  /\ ref \in {"true", "wrong"}
  /\ streaming_handle \in BOOLEAN /\ should_stop \in BOOLEAN
  /\ telemetry_thread \in {None} \cup Publisher /\ telemetry_stop_event \in BOOLEAN
  /\ stream \in {None, "running", "cancelled", "done"}
  /\ cPc \in {"idle", "cancel", "stream brake", "flag", "stop read", "hold", "direct",
              "move read", "start", "stop"}
  /\ ePc \in {None, "open", "register", "watch", "cancel", "brake", "store",
              "unregister", "loop", "loop read", "reached", "short", "end"}
  /\ pPc \in {None, "look", "resume", "write"}
  /\ pub \in [Publisher -> {None, "look", "positions", "block"}]
  /\ at \in [Reader -> {"out", "override", "request", "read", "restore", "back"}]
  /\ got \in [Reader -> Posture]
  /\ saved \in [Mover -> {"default", "short"}]
  /\ n \in 0..MaxCommands /\ disturbed \subseteq Reader /\ missed \subseteq Publisher
  /\ whyRef \in {"ok", "disturbed", "stopped"}

\* A read gives every joint its position, unless another transaction, a fault
\* or a short timeout got into it, or the arm has been moved since: nothing of
\* an earlier transaction is mistaken for an answer.
WholeUnlessDisturbed ==
  \A r \in Reader : at[r] \in {"restore", "back"} /\ r \notin disturbed => got[r] = "true"

\* Without a motion under way the posture relative moves start from is where
\* the arm is or has been sent, but for what a disturbed read has stored, and
\* the end of the path an executor stores that was stopped before it.
ReferenceIsTrue ==
  ePc \in {None, "open", "unregister", "end"} /\ whyRef = "ok" => ref = "true"

\* Telemetry is published by one thread, unless another was busy or asleep for
\* the whole half second it was given to end.
LonePublisher ==
  \A p \in Publisher : Publishing(p) => p = telemetry_thread \/ p \in missed

\* "Send an immediate brake command to the physical servos by commanding them
\* to their current position": what STOP is about to send is where they are.
StopHoldsPosition == cPc = "hold" => got["command"] = "true"
=============================================================================
