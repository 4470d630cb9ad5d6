------------------------- MODULE TrajectoryControl -------------------------
(***************************************************************************)
(* trajectory_state, the dictionary through which the threads of the       *)
(* controller process agree on who moves the arm:                          *)
(*                                                                         *)
(*   - the command thread (the UDP loop of run_controller.py) runs the     *)
(*     handlers of command_api.py one after the other;                     *)
(*   - each motion is played by a thread of its own, an executor of        *)
(*     trajectory_execution.py, which may hand a step to the pacing thread *)
(*     of a backend and then watch its MotionHandle (module Streaming).    *)
(*                                                                         *)
(* Each access to the dictionary another thread can get between is a step; *)
(* a load that the same thread follows with nothing but local work is one  *)
(* with that work.  Executor n belongs to command n.  What a path is, how  *)
(* it is planned and the goals written are left out; planning may fail.    *)
(* handle_jog_stop, which RUN_TRAJECTORY calls first, is left out too.     *)
(***************************************************************************)
EXTENDS Naturals

CONSTANTS
  MaxCommands, (* bound: commands other than STOP                          *)
  MaxStops,    (* bound: STOP commands                                     *)
  NumSteps     (* steps of a planned trajectory                            *)

ASSUME Assumptions ==
  MaxCommands \in Nat /\ MaxStops \in Nat /\ NumSteps \in Nat \ {0}

VARIABLES
  is_running, should_stop, thread, streaming_handle, weld_active,
                            (* trajectory_state; 0 is None                 *)
  cPc, n, joinee, handle,   (* the command thread: its command's number,   *)
                            (* the thread it joins, the handle it popped   *)
  stopsSent, stopWaiting,   (* STOPs sent; one waits in the socket         *)
  ex,                       (* the executors                               *)
  stream,                   (* the MotionHandle each of them watches       *)
  stopped, begun, clobbered (* history: a STOP stands; steps begun since   *)
                            (* (counted up to 2); an executor has          *)
                            (* unregistered another one                    *)

state   == <<is_running, should_stop, thread, streaming_handle, weld_active>>
command == <<cPc, n, joinee, handle, stopsSent, stopWaiting>>
history == <<stopped, begun, clobbered>>
vars    == <<state, command, ex, stream, history>>

Executor == 1..MaxCommands
Thread   == {0} \cup Executor
Kinds    == {"trajectory", "move", "initial", "orientation"}
Idle     == [pc |-> "none", kind |-> "move", loop |-> FALSE, step |-> 1]

Init ==
  /\ is_running = FALSE /\ should_stop = FALSE /\ thread = 0
  /\ streaming_handle = 0 /\ weld_active = FALSE
  /\ cPc = "idle" /\ n = 0 /\ joinee = 0 /\ handle = 0
  /\ stopsSent = 0 /\ stopWaiting = FALSE
  /\ ex = [e \in Executor |-> Idle]
  /\ stream = [e \in Executor |-> "none"]
  /\ stopped = FALSE /\ begun = 0 /\ clobbered = FALSE

-----------------------------------------------------------------------------
(* The executors.                                                          *)

At(e, pc) == ex[e].pc = pc
Goto(e, pc) == ex' = [ex EXCEPT ![e].pc = pc]

\* Nothing of an executor is left but that it has run.
Exit(e) ==
  /\ ex' = [ex EXCEPT ![e] = [Idle EXCEPT !.pc = "exited"]]
  /\ stream' = [stream EXCEPT ![e] = "none"]

\* Mutant: the steps are counted from zero.
StepDonePastEnd(e) ==
  LET x == ex[e] IN
  ex' = [ex EXCEPT ![e] =
    IF x.kind # "trajectory" THEN [x EXCEPT !.pc = "registered?"]
    ELSE IF x.step <= NumSteps THEN [x EXCEPT !.pc = "step?", !.step = @ + 1]
    ELSE [x EXCEPT !.pc = "clear weld"]]

\* What comes after a step: the next one, the next round, or the clean-up.
StepDone(e) ==
  LET x == ex[e] IN
  ex' = [ex EXCEPT ![e] =
    IF x.kind # "trajectory" THEN [x EXCEPT !.pc = "registered?"]
    ELSE IF x.step < NumSteps THEN [x EXCEPT !.pc = "step?", !.step = @ + 1]
    ELSE IF x.loop THEN [x EXCEPT !.pc = "round?", !.step = 1]
    ELSE [x EXCEPT !.pc = "clear weld"]]

BeginTrajectory(e) ==
  /\ At(e, "begin")
  /\ weld_active' = FALSE
  /\ Goto(e, "round?")
  /\ UNCHANGED <<is_running, should_stop, thread, streaming_handle, command, stream, history>>

CheckRound(e) ==
  /\ At(e, "round?")
  /\ Goto(e, IF should_stop THEN "clear weld" ELSE "step?")
  /\ UNCHANGED <<state, command, stream, history>>

\* Mutant: the stop flag is looked at once per round.
CheckStepNever(e) ==
  /\ At(e, "step?")
  /\ Goto(e, "start")
  /\ UNCHANGED <<state, command, stream, history>>

\* A stop ends the loop over the steps and the rounds.
CheckStep(e) ==
  /\ At(e, "step?")
  /\ Goto(e, IF should_stop THEN "clear weld" ELSE "start")
  /\ UNCHANGED <<state, command, stream, history>>

\* The step is published as a weld or not, and then dispatched: to a backend
\* that streams, or to a loop of this thread that paces goals or waits.
StartStep(e) ==
  /\ At(e, "start")
  /\ IF ex[e].kind = "trajectory" THEN weld_active' \in BOOLEAN ELSE UNCHANGED weld_active
  /\ \E pc \in {"open stream", "pace"} : Goto(e, pc)
  /\ begun' = IF stopped /\ begun < 2 THEN begun + 1 ELSE begun
  /\ UNCHANGED <<is_running, should_stop, thread, streaming_handle, command, stream,
                 stopped, clobbered>>

\* execute_timed_path: the pacing thread is running before the handle is known
\* to anybody.  It rejects the path of another robot, which only a cached
\* trajectory can contain.  A popped handle of an earlier step is finished.
OpenStream(e) ==
  /\ At(e, "open stream")
  /\ \/ /\ stream' = [stream EXCEPT ![e] = "running"]
        /\ handle' = IF handle = e THEN 0 ELSE handle
        /\ Goto(e, "register")
     \/ /\ ex[e].kind = "trajectory"
        /\ Goto(e, "clear weld")
        /\ UNCHANGED <<stream, handle>>
  /\ UNCHANGED <<state, cPc, n, joinee, stopsSent, stopWaiting, history>>

Register(e) ==
  /\ At(e, "register")
  /\ streaming_handle' = e
  /\ Goto(e, "watch")
  /\ UNCHANGED <<is_running, should_stop, thread, weld_active, command, stream, history>>

\* The watching loop finds the handle done or cancelled, ...
SeeFinished(e) ==
  /\ At(e, "watch") /\ stream[e] # "running"
  /\ Goto(e, "unregister")
  /\ UNCHANGED <<state, command, stream, history>>

\* ... or the stop flag set, and cancels.
SeeStop(e) ==
  /\ At(e, "watch") /\ should_stop
  /\ stream' = [stream EXCEPT ![e] = IF @ = "running" THEN "cancelled" ELSE @]
  /\ Goto(e, "unregister")
  /\ UNCHANGED <<state, command, history>>

Unregister(e) ==
  /\ At(e, "unregister")
  /\ streaming_handle' = 0
  /\ StepDone(e)
  /\ UNCHANGED <<is_running, should_stop, thread, weld_active, command, stream, history>>

\* Mutant: a nested executor cleans up as if it were the registered one.
EndPacingAsOwner(e) ==
  /\ At(e, "pace")
  /\ StepDone(e)
  /\ is_running' = FALSE /\ should_stop' = FALSE /\ thread' = 0
  /\ UNCHANGED <<streaming_handle, weld_active, command, stream, history>>

\* Out of goals, out of time, or stopped: every such loop looks at the flag
\* each time round.  The executor of one step does not own the state.
EndPacing(e) ==
  /\ At(e, "pace")
  /\ StepDone(e)
  /\ UNCHANGED <<state, command, stream, history>>

\* The clean-up of a trajectory, in its order.
ClearWeld(e) ==
  /\ At(e, "clear weld")
  /\ weld_active' = FALSE
  /\ Goto(e, "clear running")
  /\ UNCHANGED <<is_running, should_stop, thread, streaming_handle, command, stream, history>>

ClearRunning(e) ==
  /\ At(e, "clear running")
  /\ is_running' = FALSE
  /\ Goto(e, "clear thread")
  /\ UNCHANGED <<should_stop, thread, streaming_handle, weld_active, command, stream, history>>

ClearThread(e) ==
  /\ At(e, "clear thread")
  /\ thread' = 0
  /\ clobbered' = (clobbered \/ thread \notin {0, e})
  /\ Exit(e)
  /\ UNCHANGED <<is_running, should_stop, streaming_handle, weld_active, command,
                 stopped, begun>>

\* The other executors clean up only when they are the registered thread.
CheckRegistered(e) ==
  /\ At(e, "registered?")
  /\ IF thread = e THEN Goto(e, "release") /\ UNCHANGED stream ELSE Exit(e)
  /\ UNCHANGED <<state, command, history>>

Release(e) ==
  /\ At(e, "release")
  /\ is_running' = FALSE /\ should_stop' = FALSE /\ thread' = 0
  /\ Exit(e)
  /\ UNCHANGED <<streaming_handle, weld_active, command, history>>

Execute(e) ==
  \/ BeginTrajectory(e) \/ CheckRound(e) \/ CheckStep(e) \/ StartStep(e)
  \/ OpenStream(e) \/ Register(e) \/ SeeFinished(e) \/ SeeStop(e) \/ Unregister(e)
  \/ EndPacing(e) \/ ClearWeld(e) \/ ClearRunning(e) \/ ClearThread(e)
  \/ CheckRegistered(e) \/ Release(e)

\* The pacing thread reaches the end of its path.
StreamEnds(e) ==
  /\ stream[e] = "running"
  /\ stream' = [stream EXCEPT ![e] = "done"]
  /\ UNCHANGED <<state, command, ex, history>>

-----------------------------------------------------------------------------
(* The command thread.                                                     *)

CommandAt(from, to) ==
  /\ cPc = from
  /\ cPc' = to
  /\ UNCHANGED <<n, joinee, handle, stopsSent, stopWaiting>>

Start(e, kind, loop) ==
  ex' = [ex EXCEPT ![e] = [pc   |-> IF kind = "trajectory" THEN "begin" ELSE "start",
                           kind |-> kind, loop |-> loop, step |-> 1]]

Take(pc) ==
  /\ cPc = "idle" /\ n < MaxCommands
  /\ n' = n + 1
  /\ cPc' = pc
  /\ UNCHANGED <<joinee, handle, stopsSent, stopWaiting>>

\* Every motion handler resets the stop flag before it looks at anything else.
TakeMotion ==
  /\ \E pc \in {"run check", "move check", "orient check"} : Take(pc)
  /\ should_stop' = FALSE
  /\ stopped' = FALSE /\ begun' = 0
  /\ UNCHANGED <<is_running, thread, streaming_handle, weld_active, ex, stream, clobbered>>

\* TRANSLATE, ROTATE and MOVE write one goal, whatever is running.
TakeDirect ==
  /\ Take("idle")
  /\ should_stop' = FALSE
  /\ stopped' = FALSE /\ begun' = 0
  /\ UNCHANGED <<is_running, thread, streaming_handle, weld_active, ex, stream, clobbered>>

\* The command is rejected, or its planning fails, or it goes on.
CheckRunning ==
  /\ \/ CommandAt("run check", "run plan")
     \/ CommandAt("move check", "move register")
     \/ CommandAt("orient check", "orient start")
  /\ ~is_running
  /\ UNCHANGED <<state, ex, stream, history>>

Reject ==
  /\ \E pc \in {"run check", "move check", "orient check"} : CommandAt(pc, "idle")
  /\ UNCHANGED <<state, ex, stream, history>>

\* The plan succeeds or fails.  The weld has been put down before it is made
\* (line 452), and is again when it fails.
RunPlan ==
  /\ CommandAt("run plan", "run mark") \/ CommandAt("run plan", "idle")
  /\ weld_active' = FALSE
  /\ UNCHANGED <<is_running, should_stop, thread, streaming_handle, ex, stream, history>>

\* A looping trajectory is preceded by a move to its first point, which the
\* handler waits for.  It may have no plan.
RunMark ==
  /\ \/ CommandAt("run mark", "run register") /\ is_running' = TRUE
        /\ UNCHANGED <<weld_active, ex>>
     \/ CommandAt("run mark", "run join") /\ is_running' = TRUE
        /\ Start(n, "initial", FALSE)
        /\ UNCHANGED weld_active
     \/ CommandAt("run mark", "idle") /\ is_running' = FALSE /\ weld_active' = FALSE
        /\ UNCHANGED ex
  /\ should_stop' = FALSE
  /\ UNCHANGED <<thread, streaming_handle, stream, history>>

RunJoin ==
  /\ CommandAt("run join", "run register")
  /\ At(n, "exited")
  /\ UNCHANGED <<state, ex, stream, history>>

RunRegister ==
  /\ CommandAt("run register", "run start")
  /\ thread' = n
  /\ UNCHANGED <<is_running, should_stop, streaming_handle, weld_active, ex, stream, history>>

\* It loops when there has been a first move.
RunStart ==
  /\ CommandAt("run start", "idle")
  /\ Start(n, "trajectory", At(n, "exited"))
  /\ UNCHANGED <<state, stream, history>>

\* Mutant: the executor of a move is not registered.
MoveRegisterNone ==
  /\ CommandAt("move register", "move start")
  /\ UNCHANGED <<state, ex, stream, history>>

MoveRegister ==
  /\ CommandAt("move register", "move start")
  /\ thread' = n
  /\ UNCHANGED <<is_running, should_stop, streaming_handle, weld_active, ex, stream, history>>

MoveStart ==
  /\ CommandAt("move start", "idle")
  /\ is_running' = TRUE /\ should_stop' = FALSE
  /\ Start(n, "move", FALSE)
  /\ UNCHANGED <<thread, streaming_handle, weld_active, stream, history>>

\* SET_ORIENTATION waits for its executor, which it does not register.
OrientStart ==
  /\ CommandAt("orient start", "orient join")
  /\ is_running' = TRUE
  /\ Start(n, "orientation", FALSE)
  /\ UNCHANGED <<should_stop, thread, streaming_handle, weld_active, stream, history>>

OrientJoin ==
  /\ CommandAt("orient join", "idle")
  /\ At(n, "exited")
  /\ is_running' = FALSE
  /\ UNCHANGED <<should_stop, thread, streaming_handle, weld_active, ex, stream, history>>

TakeWait ==
  /\ Take("wait running?")
  /\ UNCHANGED <<state, ex, stream, history>>

WaitCheckRunning ==
  /\ CommandAt("wait running?", IF is_running THEN "wait thread?" ELSE "ack")
  /\ UNCHANGED <<state, ex, stream, history>>

WaitCheckThread ==
  /\ cPc = "wait thread?"
  /\ cPc' = IF thread # 0 THEN "wait join" ELSE "ack"
  /\ joinee' = thread
  /\ UNCHANGED <<state, n, handle, stopsSent, stopWaiting, ex, stream, history>>

WaitJoin ==
  /\ cPc = "wait join" /\ At(joinee, "exited")
  /\ cPc' = "ack" /\ joinee' = 0
  /\ UNCHANGED <<state, n, handle, stopsSent, stopWaiting, ex, stream, history>>

WaitAck ==
  /\ CommandAt("ack", "idle")
  /\ UNCHANGED <<state, ex, stream, history>>

\* STOP: the handle is taken and cancelled, and only then is the flag set.
StopPop ==
  /\ cPc = "idle" /\ stopWaiting
  /\ stopWaiting' = FALSE
  /\ handle' = streaming_handle
  /\ streaming_handle' = 0
  /\ cPc' = IF streaming_handle = 0 THEN "stop flag" ELSE "stop cancel"
  /\ UNCHANGED <<is_running, should_stop, thread, weld_active, n, joinee, stopsSent,
                 ex, stream, history>>

StopCancel ==
  /\ cPc = "stop cancel"
  /\ stream' = [e \in Executor |->
                  IF e = handle /\ stream[e] = "running" THEN "cancelled" ELSE stream[e]]
  /\ cPc' = "stop flag" /\ handle' = 0
  /\ UNCHANGED <<state, n, joinee, stopsSent, stopWaiting, ex, history>>

\* Mutant: without a registered thread there is nothing to stop.
StopFlagIfRegistered ==
  /\ CommandAt("stop flag", "stop weld")
  /\ should_stop' = (thread # 0)
  /\ stopped' = TRUE /\ begun' = 0
  /\ UNCHANGED <<is_running, thread, streaming_handle, weld_active, ex, stream, clobbered>>

StopFlag ==
  /\ CommandAt("stop flag", "stop weld")
  /\ should_stop' = TRUE
  /\ stopped' = TRUE /\ begun' = 0
  /\ UNCHANGED <<is_running, thread, streaming_handle, weld_active, ex, stream, clobbered>>

StopWeld ==
  /\ CommandAt("stop weld", "idle")
  /\ weld_active' = FALSE
  /\ UNCHANGED <<is_running, should_stop, thread, streaming_handle, ex, stream, history>>

TakeCommand == TakeMotion \/ TakeDirect \/ TakeWait

Handle == \/ CheckRunning \/ Reject \/ RunPlan \/ RunMark \/ RunJoin \/ RunRegister
          \/ RunStart \/ MoveRegister \/ MoveStart \/ OrientStart \/ OrientJoin
          \/ WaitCheckRunning \/ WaitCheckThread \/ WaitJoin \/ WaitAck
          \/ StopPop \/ StopCancel \/ StopFlag \/ StopWeld

\* Somebody presses the button.
SendStop ==
  /\ ~stopWaiting /\ stopsSent < MaxStops
  /\ stopWaiting' = TRUE /\ stopsSent' = stopsSent + 1
  /\ UNCHANGED <<state, cPc, n, joinee, handle, ex, stream, history>>

-----------------------------------------------------------------------------
Next == \/ TakeCommand \/ Handle \/ SendStop
        \/ \E e \in Executor : Execute(e) \/ StreamEnds(e)

Spec == Init /\ [][Next]_vars

\* No thread is held up for ever between two accesses.  A stream ends by
\* itself (module Streaming).
FairSpec == /\ Spec
            /\ WF_vars(Handle)
            /\ \A e \in Executor : WF_vars(Execute(e)) /\ WF_vars(StreamEnds(e))

-----------------------------------------------------------------------------
(* Properties.                                                             *)

\* Every entry of trajectory_state, the command thread and the executors has
\* its type.
TypeOK ==
  /\ is_running \in BOOLEAN /\ should_stop \in BOOLEAN /\ weld_active \in BOOLEAN
  /\ thread \in Thread /\ streaming_handle \in Thread
  /\ cPc \in {"idle", "run check", "run plan", "run mark", "run join", "run register",
              "run start", "move check", "move register", "move start",
              "orient check", "orient start", "orient join",
              "wait running?", "wait thread?", "wait join", "ack",
              "stop cancel", "stop flag", "stop weld"}
  /\ n \in 0..MaxCommands /\ joinee \in Thread /\ handle \in Thread
  /\ stopsSent \in 0..MaxStops /\ stopWaiting \in BOOLEAN
  /\ ex \in [Executor -> [pc   : {"none", "begin", "round?", "step?", "start",
                                  "open stream", "register", "watch", "unregister",
                                  "pace", "clear weld", "clear running",
                                  "clear thread", "registered?", "release", "exited"},
                          kind : Kinds, loop : BOOLEAN, step : 1..NumSteps]]
  /\ stream \in [Executor -> {"none", "running", "cancelled", "done"}]
  /\ stopped \in BOOLEAN /\ begun \in 0..2 /\ clobbered \in BOOLEAN

InMotion(e) == ex[e].pc \in {"begin", "round?", "step?", "start", "open stream",
                             "register", "watch", "unregister", "pace"}

\* is_running keeps two motions from being played at once, although it is
\* written by the handlers and by three kinds of executor.
OneMotion == \A e, f \in Executor : InMotion(e) /\ InMotion(f) => e = f

\* Once the stop flag is up, the executor begins at most the one step for which
\* it had already looked at the flag (the check "Before each step").
OneStepAfterStop == begun <= 1

\* A STOP that no later motion command has taken back ends the motion, the
\* stream and the weld.
StopTakesEffect ==
  stopped ~> \/ ~stopped
             \/ /\ \A e \in Executor : ~InMotion(e) /\ stream[e] # "running"
                /\ ~weld_active

\* "The main command loop must never be blocked by a long-running move, as this would
\* prevent it from processing urgent commands, such as an emergency stop"
\* (docs/README.md:374): no STOP waits while the handler of a move waits for it.
\* WAIT_FOR_IDLE is left out, which is documented to join the motion.
StopNeverWaits == stopWaiting => ~(cPc \in {"run join", "orient join"} /\ InMotion(n))

\* The controller does not get stuck with is_running set and nothing running,
\* rejecting every motion, except after the clean-up of one trajectory has
\* wiped out the registration of the next motion.
IdleAgain ==
  is_running ~> \/ ~is_running \/ clobbered
                \/ \E e \in Executor : InMotion(e) /\ ex[e].loop

\* A STOP stands until a later command takes it back: no executor's clean-up puts
\* the flag down under a motion that has not seen it.
StopStands == stopped => \A e \in Executor : InMotion(e) => should_stop

\* Executor e has yet to give the controller back, and will: a trajectory does so
\* always, a move if it is still the registered thread.
Owes(e) ==
  /\ ex[e].pc \notin {"none", "clear thread", "exited"}
  /\ ex[e].kind = "trajectory" \/ (ex[e].kind = "move" /\ thread = e)

\* Whoever marks the controller as running has handed the mark to somebody who
\* clears it, or is a handler on the way there, except after the clean-up of one
\* trajectory has wiped out the registration of the next motion.
MarkIsOwned ==
  is_running => \/ \E e \in Executor : Owes(e)
                \/ cPc \in {"run join", "run register", "run start", "orient join"}
                \/ clobbered
=============================================================================
