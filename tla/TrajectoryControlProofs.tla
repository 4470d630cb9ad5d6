---------------------- MODULE TrajectoryControlProofs ----------------------
(***************************************************************************)
(* What module TrajectoryControl shows of three commands and trajectories  *)
(* of two steps, for any number of commands, STOPs and steps: types, that  *)
(* one motion is played at a time, and how soon a STOP takes effect.       *)
(***************************************************************************)
EXTENDS TrajectoryControl, TLAPS

(***************************************************************************)
(* Type correctness, part by part.                                         *)
(***************************************************************************)
FlagsOK ==
  /\ is_running \in BOOLEAN /\ should_stop \in BOOLEAN /\ weld_active \in BOOLEAN
  /\ stopWaiting \in BOOLEAN /\ stopped \in BOOLEAN /\ clobbered \in BOOLEAN

CountsOK == stopsSent \in 0..MaxStops /\ begun \in 0..2

CommandOK ==
  cPc \in {"idle", "run check", "run plan", "run mark", "run join", "run register",
           "run start", "move check", "move register", "move start",
           "orient check", "orient start", "orient join",
           "wait running?", "wait thread?", "wait join", "ack",
           "stop cancel", "stop flag", "stop weld"}

\* A motion command being handled has a number.
Numbered == {"run check", "run plan", "run mark", "run join", "run register", "run start",
             "move check", "move register", "move start",
             "orient check", "orient start", "orient join"}

ThreadsOK ==
  /\ n \in 0..MaxCommands
  /\ cPc \in Numbered => n \in Executor
  /\ thread \in Thread /\ streaming_handle \in Thread
  /\ joinee \in Thread /\ handle \in Thread

Pcs == {"none", "begin", "round?", "step?", "start", "open stream", "register", "watch",
        "unregister", "pace", "clear weld", "clear running", "clear thread",
        "registered?", "release", "exited"}

Record == [pc : Pcs, kind : Kinds, loop : BOOLEAN, step : 1..NumSteps]

ExecutorsOK == ex \in [Executor -> Record]

StreamsOK == stream \in [Executor -> {"none", "running", "cancelled", "done"}]

Typed == FlagsOK /\ CountsOK /\ CommandOK /\ ThreadsOK /\ ExecutorsOK /\ StreamsOK

LEMMA Bounds == MaxCommands \in Nat /\ MaxStops \in Nat /\ NumSteps \in Nat \ {0}
  BY Assumptions, Zenon DEF Assumptions

LEMMA TypeImplied == Typed => TypeOK
  BY Zenon DEF Typed, TypeOK, FlagsOK, CountsOK, CommandOK, ThreadsOK, ExecutorsOK, StreamsOK,
     Record, Pcs

LEMMA IdleTyped == Idle \in Record
<1>1. 1 \in 1..NumSteps
  BY Bounds
<1>. QED  BY <1>1, Zenon DEF Idle, Record, Pcs, Kinds

LEMMA TypeInit == Init => Typed
<1> SUFFICES ASSUME Init PROVE Typed
  OBVIOUS
<1>1. CountsOK
  BY Bounds DEF Init, CountsOK
<1>2. FlagsOK /\ CommandOK
  BY DEF Init, FlagsOK, CommandOK
<1>3. ThreadsOK
  <2>1. n \in 0..MaxCommands
    BY Bounds DEF Init
  <2>2. cPc \notin Numbered /\ thread = 0 /\ streaming_handle = 0 /\ joinee = 0 /\ handle = 0
    BY DEF Init, Numbered
  <2>. QED  BY <2>1, <2>2 DEF ThreadsOK, Thread
<1>4. ExecutorsOK
  BY IdleTyped DEF Init, ExecutorsOK
<1>5. StreamsOK
  BY DEF Init, StreamsOK
<1>. QED  BY <1>1, <1>2, <1>3, <1>4, <1>5 DEF Typed

\* The steps of the command thread, and those of an executor.
LEMMA NextCases ==
  ASSUME [Next]_vars
  PROVE  \/ TakeCommand \/ Handle \/ SendStop \/ UNCHANGED vars
         \/ \E e \in Executor : Execute(e) \/ StreamEnds(e)
  BY DEF Next

LEMMA TypeFlags == ASSUME FlagsOK, [Next]_vars PROVE FlagsOK'
<1> USE DEF FlagsOK
<1>1. CASE TakeCommand \/ SendStop \/ UNCHANGED vars
  BY <1>1 DEF TakeCommand, TakeMotion, TakeDirect, TakeWait, Take, SendStop, vars, state,
     command, history
<1>2. CASE Handle
  BY <1>2 DEF Handle, CommandAt, CheckRunning, Reject, RunPlan, RunMark, RunJoin,
     RunRegister, RunStart, MoveRegister, MoveStart, OrientStart, OrientJoin,
     WaitCheckRunning, WaitCheckThread, WaitJoin, WaitAck, StopPop, StopCancel, StopFlag,
     StopWeld, state, history
<1>3. ASSUME NEW e \in Executor, Execute(e) \/ StreamEnds(e)
      PROVE  FlagsOK'
  BY <1>3 DEF Execute, BeginTrajectory, CheckRound, CheckStep, StartStep, OpenStream,
     Register, SeeFinished, SeeStop, Unregister, EndPacing, ClearWeld, ClearRunning,
     ClearThread, CheckRegistered, Release, StreamEnds, state, command, history
<1>. QED  BY <1>1, <1>2, <1>3, NextCases

LEMMA TypeCounts == ASSUME CountsOK, [Next]_vars PROVE CountsOK'
<1>1. /\ stopsSent' = stopsSent \/ (stopsSent < MaxStops /\ stopsSent' = stopsSent + 1)
      /\ begun' \in {0, begun} \/ (begun < 2 /\ begun' = begun + 1)
  <2>1. CASE TakeCommand \/ SendStop \/ UNCHANGED vars
    BY <2>1 DEF TakeCommand, TakeMotion, TakeDirect, TakeWait, Take, SendStop, vars,
       command, history
  <2>2. CASE Handle
    BY <2>2 DEF Handle, CommandAt, CheckRunning, Reject, RunPlan, RunMark, RunJoin,
       RunRegister, RunStart, MoveRegister, MoveStart, OrientStart, OrientJoin,
       WaitCheckRunning, WaitCheckThread, WaitJoin, WaitAck, StopPop, StopCancel, StopFlag,
       StopWeld, history
  <2>3. ASSUME NEW e \in Executor, Execute(e) \/ StreamEnds(e)
        PROVE  /\ stopsSent' = stopsSent
               /\ begun' = begun \/ (begun < 2 /\ begun' = begun + 1)
    BY <2>3 DEF Execute, BeginTrajectory, CheckRound, CheckStep, StartStep, OpenStream,
       Register, SeeFinished, SeeStop, Unregister, EndPacing, ClearWeld, ClearRunning,
       ClearThread, CheckRegistered, Release, StreamEnds, command, history
  <2>. QED  BY <2>1, <2>2, <2>3, NextCases
<1>. QED  BY <1>1, Bounds DEF CountsOK

LEMMA TypeCommand == ASSUME CommandOK, [Next]_vars PROVE CommandOK'
<1> USE DEF CommandOK
<1>1. CASE TakeCommand \/ SendStop \/ UNCHANGED vars
  BY <1>1 DEF TakeCommand, TakeMotion, TakeDirect, TakeWait, Take, SendStop, vars, command
<1>2. CASE Handle
  BY <1>2 DEF Handle, CommandAt, CheckRunning, Reject, RunPlan, RunMark, RunJoin,
     RunRegister, RunStart, MoveRegister, MoveStart, OrientStart, OrientJoin,
     WaitCheckRunning, WaitCheckThread, WaitJoin, WaitAck, StopPop, StopCancel, StopFlag,
     StopWeld
<1>3. ASSUME NEW e \in Executor, Execute(e) \/ StreamEnds(e)
      PROVE  CommandOK'
  BY <1>3 DEF Execute, BeginTrajectory, CheckRound, CheckStep, StartStep, OpenStream,
     Register, SeeFinished, SeeStop, Unregister, EndPacing, ClearWeld, ClearRunning,
     ClearThread, CheckRegistered, Release, StreamEnds, command
<1>. QED  BY <1>1, <1>2, <1>3, NextCases

LEMMA TypeThreads == ASSUME ThreadsOK, [Next]_vars PROVE ThreadsOK'
<1>1. CASE Handle
  <2>1. /\ n' = n /\ (cPc' \in Numbered => cPc \in Numbered)
        /\ thread' = thread \/ (thread' = n /\ cPc \in Numbered)
        /\ streaming_handle' \in {0, streaming_handle}
        /\ joinee' \in {0, joinee, thread} /\ handle' \in {0, handle, streaming_handle}
    BY <1>1 DEF Handle, CommandAt, CheckRunning, Reject, RunPlan, RunMark, RunJoin,
       RunRegister, RunStart, MoveRegister, MoveStart, OrientStart, OrientJoin,
       WaitCheckRunning, WaitCheckThread, WaitJoin, WaitAck, StopPop, StopCancel, StopFlag,
       StopWeld, state, Numbered
  <2>. QED  BY <2>1, Zenon DEF ThreadsOK, Thread
<1>2. CASE TakeCommand
  <2>1. /\ n < MaxCommands /\ n' = n + 1
        /\ thread' = thread /\ streaming_handle' = streaming_handle
        /\ joinee' = joinee /\ handle' = handle
    BY <1>2 DEF TakeCommand, TakeMotion, TakeDirect, TakeWait, Take, state
  <2>2. n' \in 0..MaxCommands /\ n' \in Executor
    BY <2>1, Bounds DEF ThreadsOK, Executor
  <2>. QED  BY <2>1, <2>2, Zenon DEF ThreadsOK
<1>3. CASE SendStop \/ UNCHANGED vars
  BY <1>3 DEF SendStop, vars, state, command, ThreadsOK
<1>4. ASSUME NEW e \in Executor, Execute(e) \/ StreamEnds(e)
      PROVE  ThreadsOK'
  <2>1. /\ n' = n /\ cPc' = cPc /\ thread' \in {0, thread}
        /\ streaming_handle' \in {0, e, streaming_handle}
        /\ joinee' = joinee /\ handle' \in {0, handle}
    BY <1>4 DEF Execute, BeginTrajectory, CheckRound, CheckStep, StartStep, OpenStream,
       Register, SeeFinished, SeeStop, Unregister, EndPacing, ClearWeld, ClearRunning,
       ClearThread, CheckRegistered, Release, StreamEnds, state, command
  <2>. QED  BY <2>1, Zenon DEF ThreadsOK, Thread
<1>. QED  BY <1>1, <1>2, <1>3, <1>4, NextCases

LEMMA GotoTyped ==
  ASSUME ExecutorsOK, NEW e \in Executor, NEW pc \in Pcs, Goto(e, pc)
  PROVE  ExecutorsOK'
  BY DEF ExecutorsOK, Record, Goto

LEMMA ExitTyped ==
  ASSUME ExecutorsOK, NEW e \in Executor, Exit(e)
  PROVE  ExecutorsOK'
<1>1. [Idle EXCEPT !.pc = "exited"] \in Record
  BY IdleTyped DEF Record, Pcs
<1>. QED  BY <1>1, Zenon DEF ExecutorsOK, Exit

LEMMA StepDoneTyped ==
  ASSUME ExecutorsOK, NEW e \in Executor, StepDone(e)
  PROVE  ExecutorsOK'
<1>1. ex[e] \in Record
  BY DEF ExecutorsOK
<1>2. 1 \in 1..NumSteps /\ (ex[e].step < NumSteps => ex[e].step + 1 \in 1..NumSteps)
  <2>1. ex[e].step \in 1..NumSteps
    BY <1>1, Zenon DEF Record
  <2>. QED  BY <2>1, Bounds
<1>3. \A pc \in Pcs, step \in 1..NumSteps :
        [ex[e] EXCEPT !.pc = pc] \in Record /\ [ex[e] EXCEPT !.pc = pc, !.step = step] \in Record
  BY <1>1 DEF Record
<1>4. PICK x \in Record : ex' = [ex EXCEPT ![e] = x]
  <2>1. {"registered?", "step?", "round?", "clear weld"} \subseteq Pcs
    BY DEF Pcs
  <2>2. CASE ex[e].kind # "trajectory"
    <3>1. ex' = [ex EXCEPT ![e] = [ex[e] EXCEPT !.pc = "registered?"]]
      BY <2>2 DEF StepDone
    <3>2. [ex[e] EXCEPT !.pc = "registered?"] \in Record
      BY <1>1 DEF Record, Pcs
    <3>. QED  BY <3>1, <3>2, Zenon
  <2>3. CASE ex[e].kind = "trajectory" /\ ex[e].step < NumSteps
    <3>1. ex' = [ex EXCEPT ![e] = [ex[e] EXCEPT !.pc = "step?", !.step = ex[e].step + 1]]
      BY <2>3 DEF StepDone
    <3>. QED  BY <1>2, <1>3, <2>1, <2>3, <3>1, Zenon
  <2>4. CASE ex[e].kind = "trajectory" /\ ~(ex[e].step < NumSteps)
    BY <1>2, <1>3, <2>1, <2>4, Zenon DEF StepDone
  <2>. QED  BY <2>2, <2>3, <2>4
<1>. QED  BY <1>4, Zenon DEF ExecutorsOK

LEMMA StartTyped ==
  ASSUME ExecutorsOK, NEW e \in Executor, NEW kind \in Kinds, NEW loop \in BOOLEAN,
         Start(e, kind, loop)
  PROVE  ExecutorsOK'
<1>1. 1 \in 1..NumSteps
  BY Bounds
<1>2. {"begin", "start"} \subseteq Pcs
  BY DEF Pcs
<1>. QED  BY <1>1, <1>2, Zenon DEF ExecutorsOK, Start, Record

LEMMA TypeExecutors ==
  ASSUME ThreadsOK, ExecutorsOK, [Next]_vars
  PROVE  ExecutorsOK'
<1>1. CASE TakeCommand \/ SendStop \/ UNCHANGED vars
  BY <1>1 DEF TakeCommand, TakeMotion, TakeDirect, TakeWait, SendStop, vars, ExecutorsOK
<1>2. CASE RunMark \/ RunStart \/ MoveStart \/ OrientStart
  <2>1. n \in Executor
    BY <1>2 DEF RunMark, RunStart, MoveStart, OrientStart, CommandAt, ThreadsOK, Numbered
  <2>2. At(n, "exited") \in BOOLEAN /\ FALSE \in BOOLEAN
        /\ {"initial", "trajectory", "move", "orientation"} \subseteq Kinds
    BY DEF At, Kinds
  <2>3. \/ ex' = ex \/ Start(n, "initial", FALSE) \/ Start(n, "move", FALSE)
        \/ Start(n, "orientation", FALSE) \/ Start(n, "trajectory", At(n, "exited"))
    BY <1>2 DEF RunMark, RunStart, MoveStart, OrientStart
  <2>. QED  BY <2>1, <2>2, <2>3, StartTyped DEF ExecutorsOK
<1>3. CASE Handle /\ ~(RunMark \/ RunStart \/ MoveStart \/ OrientStart)
  BY <1>3 DEF Handle, CheckRunning, Reject, RunPlan, RunJoin, RunRegister, MoveRegister,
     OrientJoin, WaitCheckRunning, WaitCheckThread, WaitJoin, WaitAck, StopPop, StopCancel,
     StopFlag, StopWeld, ExecutorsOK
<1>4. ASSUME NEW e \in Executor, Execute(e) \/ StreamEnds(e)
      PROVE  ExecutorsOK'
  <2>1. \/ ex' = ex \/ Exit(e) \/ StepDone(e) \/ \E pc \in Pcs : Goto(e, pc)
    BY <1>4 DEF Execute, BeginTrajectory, CheckRound, CheckStep, StartStep, OpenStream,
       Register, SeeFinished, SeeStop, Unregister, EndPacing, ClearWeld, ClearRunning,
       ClearThread, CheckRegistered, Release, StreamEnds, Pcs
  <2>. QED  BY <2>1, GotoTyped, ExitTyped, StepDoneTyped DEF ExecutorsOK
<1>. QED  BY <1>1, <1>2, <1>3, <1>4, NextCases

LEMMA TypeStreams == ASSUME StreamsOK, [Next]_vars PROVE StreamsOK'
<1> USE DEF StreamsOK
<1>1. CASE TakeCommand \/ SendStop \/ UNCHANGED vars
  BY <1>1 DEF TakeCommand, TakeMotion, TakeDirect, TakeWait, SendStop, vars
<1>2. CASE Handle /\ ~StopCancel
  BY <1>2 DEF Handle, CheckRunning, Reject, RunPlan, RunMark, RunJoin, RunRegister, RunStart,
     MoveRegister, MoveStart, OrientStart, OrientJoin, WaitCheckRunning, WaitCheckThread,
     WaitJoin, WaitAck, StopPop, StopFlag, StopWeld
<1>3. CASE StopCancel
  BY <1>3 DEF StopCancel
<1>4. ASSUME NEW e \in Executor, Execute(e) \/ StreamEnds(e)
      PROVE  StreamsOK'
  BY <1>4 DEF Execute, BeginTrajectory, CheckRound, CheckStep, StartStep, OpenStream,
     Register, SeeFinished, SeeStop, Unregister, EndPacing, ClearWeld, ClearRunning,
     ClearThread, CheckRegistered, Release, StreamEnds, Exit
<1>. QED  BY <1>1, <1>2, <1>3, <1>4, NextCases

LEMMA TypeStep == Typed /\ [Next]_vars => Typed'
  BY TypeFlags, TypeCounts, TypeCommand, TypeThreads, TypeExecutors, TypeStreams DEF Typed

\* Every entry of trajectory_state, the command thread and the executors keeps its
\* type (command_api.py, trajectory_execution.py).
THEOREM TypeCorrect == Spec => []TypeOK
  BY TypeInit, TypeStep, TypeImplied, PTL DEF Spec

(***************************************************************************)
(* One motion at a time.  An executor that has not given the arm back      *)
(* plays; one plays at a time, and is_running is set while it does.  A     *)
(* handler that has found is_running clear can rely on it until it has     *)
(* started its executor, because nobody else starts one; the first move of *)
(* a looping trajectory is not registered, so it gives nothing back.       *)
(***************************************************************************)
Playing(e) == ex[e].pc \notin {"none", "clear thread", "exited"}

\* Where an executor may give the arm back, or is on the way there.
Owning == {"begin", "round?", "step?", "clear weld", "clear running", "release"}

Preparing == {"run plan", "run mark", "run register", "run start",
              "move register", "move start", "orient start"}

MotionInv ==
  /\ \A e, f \in Executor : Playing(e) /\ Playing(f) => e = f
  /\ \A e \in Executor : Playing(e) => is_running
  /\ cPc \in Preparing => \A e \in Executor : ~Playing(e)
  /\ cPc \in {"run join", "run register", "run start"} => is_running
  /\ cPc \in {"run join", "orient join"} => \A e \in Executor : Playing(e) => e = n
  /\ cPc = "run join" =>
       \A e \in Executor : Playing(e) => ex[e].pc \notin Owning /\ ex[e].kind # "trajectory"
  /\ cPc \in {"run check", "run plan", "run mark", "run join"} => thread # n

\* Threads that are registered belong to commands up to the present one.
NumberInv == thread <= n

LEMMA NumberStep == ASSUME ThreadsOK, NumberInv, [Next]_vars PROVE NumberInv'
<1>1. \/ thread' \in {0, thread, n} /\ n' = n
      \/ thread' = thread /\ n' = n + 1
  <2>1. CASE TakeCommand \/ SendStop \/ UNCHANGED vars
    BY <2>1 DEF TakeCommand, TakeMotion, TakeDirect, TakeWait, Take, SendStop, vars, state,
       command
  <2>2. CASE Handle
    BY <2>2 DEF Handle, CommandAt, CheckRunning, Reject, RunPlan, RunMark, RunJoin,
       RunRegister, RunStart, MoveRegister, MoveStart, OrientStart, OrientJoin,
       WaitCheckRunning, WaitCheckThread, WaitJoin, WaitAck, StopPop, StopCancel, StopFlag,
       StopWeld, state
  <2>3. ASSUME NEW e \in Executor, Execute(e) \/ StreamEnds(e)
        PROVE  thread' \in {0, thread} /\ n' = n
    BY <2>3 DEF Execute, BeginTrajectory, CheckRound, CheckStep, StartStep, OpenStream,
       Register, SeeFinished, SeeStop, Unregister, EndPacing, ClearWeld, ClearRunning,
       ClearThread, CheckRegistered, Release, StreamEnds, state, command
  <2>. QED  BY <2>1, <2>2, <2>3, NextCases
<1>2. n \in Nat /\ thread \in Nat
  BY Bounds DEF ThreadsOK, Thread, Executor
<1>. QED  BY <1>1, <1>2 DEF NumberInv

LEMMA NewCommand ==
  ASSUME ThreadsOK, NumberInv, n' = n + 1
  PROVE  thread # n'
<1>2. n \in Nat /\ thread \in Nat
  BY Bounds DEF ThreadsOK, Thread, Executor
<1>. QED  BY <1>2 DEF NumberInv

LEMMA Moves ==
  ASSUME ExecutorsOK, NEW e \in Executor, NEW pc, Goto(e, pc)
  PROVE  /\ \A f \in Executor : f # e => ex'[f] = ex[f]
         /\ ex'[e].pc = pc /\ ex'[e].kind = ex[e].kind
  BY DEF ExecutorsOK, Record, Goto

LEMMA StepDoneMoves ==
  ASSUME ExecutorsOK, NEW e \in Executor, StepDone(e)
  PROVE  /\ \A f \in Executor : f # e => ex'[f] = ex[f]
         /\ ex'[e].pc \in {"registered?", "step?", "round?", "clear weld"}
         /\ ex[e].kind # "trajectory" => ex'[e].pc = "registered?"
         /\ ex'[e].kind = ex[e].kind
<1>1. PICK x : /\ ex' = [ex EXCEPT ![e] = x] /\ x.kind = ex[e].kind
               /\ x.pc \in {"registered?", "step?", "round?", "clear weld"}
               /\ ex[e].kind # "trajectory" => x.pc = "registered?"
  <2>1. ex[e] \in Record
    BY DEF ExecutorsOK
  <2>2. CASE ex[e].kind # "trajectory"
    <3>1. ex' = [ex EXCEPT ![e] = [ex[e] EXCEPT !.pc = "registered?"]]
      BY <2>2 DEF StepDone
    <3> DEFINE x == [ex[e] EXCEPT !.pc = "registered?"]
    <3>2. x.kind = ex[e].kind /\ x.pc = "registered?"
      BY <2>1 DEF Record
    <3>. QED  BY <3>1, <3>2, Zenon
  <2>3. CASE ex[e].kind = "trajectory" /\ ex[e].step < NumSteps
    <3> DEFINE k == ex[e].step + 1
    <3>1. ex' = [ex EXCEPT ![e] = [ex[e] EXCEPT !.pc = "step?", !.step = k]]
      BY <2>3 DEF StepDone
    <3> HIDE DEF k
    <3>. QED  BY <2>1, <2>3, <3>1 DEF Record
  <2>4. CASE ex[e].kind = "trajectory" /\ ~(ex[e].step < NumSteps)
    BY <2>1, <2>4 DEF StepDone, Record
  <2>. QED  BY <2>2, <2>3, <2>4
<1>. QED  BY <1>1 DEF ExecutorsOK

\* A step of an executor changes its own record only, and gives the arm back
\* only where it stops playing.
LEMMA ExecutorStep ==
  ASSUME ExecutorsOK, NEW e \in Executor, Execute(e) \/ StreamEnds(e)
  PROVE  /\ \A f \in Executor : f # e => ex'[f] = ex[f]
         /\ cPc' = cPc /\ n' = n /\ thread' \in {0, thread} /\ stopped' = stopped
         /\ Playing(e)' => Playing(e)
         /\ \/ is_running' = is_running
            \/ Playing(e) /\ ~Playing(e)' /\ ex[e].pc \in Owning
         /\ \/ should_stop' = should_stop
            \/ Playing(e) /\ ~Playing(e)' /\ ex[e].pc \in Owning
         /\ ex[e].kind # "trajectory" /\ ex[e].pc \notin Owning /\ Playing(e)' =>
              ex'[e].kind # "trajectory" /\ (ex'[e].pc \notin Owning \/ thread = e)
         /\ ex'[e].pc = "start" => ex[e].pc = "start" \/ (Playing(e) /\ ~should_stop)
         /\ begun' = begun \/ (stopped /\ ex[e].pc = "start" /\ ex'[e].pc # "start")
<1> USE DEF ExecutorsOK, Record, Playing, Owning
<1>1. CASE StreamEnds(e)
  BY <1>1 DEF StreamEnds, state, command, history
<1>2. CASE \/ BeginTrajectory(e) \/ CheckRound(e) \/ CheckStep(e) \/ Register(e)
           \/ SeeFinished(e) \/ SeeStop(e)
  <2>1. \/ ex[e].pc = "begin" /\ Goto(e, "round?")
        \/ ex[e].pc = "round?" /\ (Goto(e, "clear weld") \/ Goto(e, "step?"))
        \/ ex[e].pc = "step?" /\ (Goto(e, "clear weld") \/ (Goto(e, "start") /\ ~should_stop))
        \/ ex[e].pc = "register" /\ Goto(e, "watch")
        \/ ex[e].pc = "watch" /\ Goto(e, "unregister")
    BY <1>2 DEF BeginTrajectory, CheckRound, CheckStep, Register, SeeFinished, SeeStop, At
  <2>2. /\ cPc' = cPc /\ n' = n /\ thread' = thread /\ should_stop' = should_stop
        /\ is_running' = is_running /\ stopped' = stopped /\ begun' = begun
    BY <1>2 DEF BeginTrajectory, CheckRound, CheckStep, Register, SeeFinished, SeeStop,
       state, command, history
  <2>3. /\ \A f \in Executor : f # e => ex'[f] = ex[f]
        /\ ex'[e].kind = ex[e].kind
        /\ \/ ex[e].pc = "begin" /\ ex'[e].pc = "round?"
           \/ ex[e].pc = "round?" /\ ex'[e].pc \in {"clear weld", "step?"}
           \/ ex[e].pc = "step?" /\ (ex'[e].pc = "clear weld" \/ (ex'[e].pc = "start" /\ ~should_stop))
           \/ ex[e].pc = "register" /\ ex'[e].pc = "watch"
           \/ ex[e].pc = "watch" /\ ex'[e].pc = "unregister"
    BY <2>1, Moves
  <2>. QED  BY <2>2, <2>3
<1>6. CASE OpenStream(e)
  <2>1. /\ ex[e].pc = "open stream"
        /\ Goto(e, "register") \/ (ex[e].kind = "trajectory" /\ Goto(e, "clear weld"))
    BY <1>6 DEF OpenStream, At
  <2>2. cPc' = cPc /\ n' = n /\ state' = state /\ history' = history
    BY <1>6 DEF OpenStream
  <2>3. /\ \A f \in Executor : f # e => ex'[f] = ex[f]
        /\ ex'[e].kind = ex[e].kind
        /\ ex'[e].pc = "register" \/ (ex[e].kind = "trajectory" /\ ex'[e].pc = "clear weld")
    BY <2>1, Moves
  <2>. QED  BY <2>1, <2>2, <2>3 DEF state, history
<1>7. CASE ClearWeld(e) \/ ClearRunning(e)
  <2>1. \/ ex[e].pc = "clear weld" /\ Goto(e, "clear running") /\ is_running' = is_running
        \/ ex[e].pc = "clear running" /\ Goto(e, "clear thread")
    BY <1>7 DEF ClearWeld, ClearRunning, At
  <2>2. /\ cPc' = cPc /\ n' = n /\ thread' = thread /\ should_stop' = should_stop
        /\ stopped' = stopped /\ begun' = begun
    BY <1>7 DEF ClearWeld, ClearRunning, command, history
  <2>3. /\ \A f \in Executor : f # e => ex'[f] = ex[f]
        /\ \/ ex[e].pc = "clear weld" /\ ex'[e].pc = "clear running" /\ is_running' = is_running
           \/ ex[e].pc = "clear running" /\ ex'[e].pc = "clear thread"
    BY <2>1, Moves
  <2>. QED  BY <2>2, <2>3
<1>3. CASE StartStep(e)
  <2>1. PICK pc \in {"open stream", "pace"} : Goto(e, pc)
    BY <1>3 DEF StartStep
  <2>2. /\ \A f \in Executor : f # e => ex'[f] = ex[f]
        /\ ex'[e].kind = ex[e].kind /\ ex'[e].pc \in {"open stream", "pace"}
    BY <2>1, Moves
  <2>3. /\ ex[e].pc = "start" /\ cPc' = cPc /\ n' = n /\ thread' = thread
        /\ should_stop' = should_stop /\ is_running' = is_running /\ stopped' = stopped
    BY <1>3 DEF StartStep, At, command
  <2>4. begun' = begun \/ stopped
    BY <1>3 DEF StartStep
  <2>. QED  BY <2>2, <2>3, <2>4
<1>4. CASE Unregister(e) \/ EndPacing(e)
  <2>1. /\ ex'[e].pc \in {"registered?", "step?", "round?", "clear weld"}
        /\ ex[e].kind # "trajectory" => ex'[e].pc = "registered?"
        /\ ex'[e].kind = ex[e].kind
        /\ \A f \in Executor : f # e => ex'[f] = ex[f]
    BY <1>4, StepDoneMoves DEF Unregister, EndPacing
  <2>2. /\ ex[e].pc \in {"unregister", "pace"}
        /\ cPc' = cPc /\ n' = n /\ thread' = thread /\ should_stop' = should_stop
        /\ is_running' = is_running /\ stopped' = stopped /\ begun' = begun
    BY <1>4 DEF Unregister, EndPacing, At, state, command, history
  <2>. QED  BY <2>1, <2>2
<1>5. CASE ClearThread(e) \/ CheckRegistered(e) \/ Release(e)
  <2>1. \A f \in Executor : f # e => ex'[f] = ex[f]
    BY <1>5 DEF ClearThread, CheckRegistered, Release, Goto, Exit
  <2>2. \/ ex[e].pc = "clear thread" /\ ex'[e].pc = "exited" /\ is_running' = is_running
           /\ should_stop' = should_stop /\ thread' = 0
        \/ ex[e].pc = "registered?" /\ is_running' = is_running /\ should_stop' = should_stop
           /\ thread' = thread /\ ex'[e].kind = ex[e].kind /\ thread = e /\ ex'[e].pc = "release"
        \/ ex[e].pc = "registered?" /\ is_running' = is_running /\ should_stop' = should_stop
           /\ thread' = thread /\ ex'[e].pc = "exited"
        \/ ex[e].pc = "release" /\ ex'[e].pc = "exited" /\ thread' = 0
    <3>1. Exit(e) => ex'[e].pc = "exited"
      BY DEF Exit, Idle
    <3>2. Goto(e, "release") => ex'[e].pc = "release" /\ ex'[e].kind = ex[e].kind
      BY DEF Goto
    <3>. QED  BY <1>5, <3>1, <3>2 DEF ClearThread, CheckRegistered, Release, At, state
  <2>3. cPc' = cPc /\ n' = n /\ stopped' = stopped /\ begun' = begun
    BY <1>5 DEF ClearThread, CheckRegistered, Release, command, history
  <2>. QED  BY <2>1, <2>2, <2>3
<1>. QED  BY <1>1, <1>2, <1>3, <1>4, <1>5, <1>6, <1>7 DEF Execute

LEMMA MotionByExecutor ==
  ASSUME ExecutorsOK, ThreadsOK, MotionInv, NEW e \in Executor, Execute(e) \/ StreamEnds(e)
  PROVE  MotionInv'
<1>1. /\ \A f \in Executor : f # e => ex'[f] = ex[f]
      /\ cPc' = cPc /\ n' = n /\ thread' \in {0, thread}
      /\ Playing(e)' => Playing(e)
      /\ \/ is_running' = is_running
         \/ Playing(e) /\ ~Playing(e)' /\ ex[e].pc \in Owning
      /\ ex[e].kind # "trajectory" /\ ex[e].pc \notin Owning /\ Playing(e)' =>
           ex'[e].kind # "trajectory" /\ (ex'[e].pc \notin Owning \/ thread = e)
  BY ExecutorStep
<1>2. \A f \in Executor : Playing(f)' => Playing(f)
  BY <1>1 DEF Playing
<1>3. \A f, g \in Executor : Playing(f)' /\ Playing(g)' => f = g
  BY <1>2 DEF MotionInv
<1>4. \A f \in Executor : Playing(f)' => is_running'
  <2>1. \A f \in Executor : Playing(f)' => is_running
    BY <1>2 DEF MotionInv
  <2>2. ASSUME Playing(e), ~Playing(e)', NEW f \in Executor, Playing(f)' PROVE FALSE
    BY <1>2, <2>2 DEF MotionInv
  <2>. QED  BY <1>1, <2>1, <2>2
<1>5. cPc' \in Preparing => \A f \in Executor : ~Playing(f)'
  BY <1>1, <1>2, Zenon DEF MotionInv
<1>6. cPc' \in {"run join", "orient join"} => \A f \in Executor : Playing(f)' => f = n'
  BY <1>1, <1>2 DEF MotionInv
<1>7. cPc' \in {"run join", "run register", "run start"} => is_running'
  <2>1. cPc \in {"run register", "run start"} => ~Playing(e)
    BY DEF MotionInv, Preparing
  <2>2. cPc = "run join" /\ Playing(e) => ex[e].pc \notin Owning
    BY DEF MotionInv
  <2>3. cPc \in {"run join", "run register", "run start"} => is_running
    BY DEF MotionInv
  <2>4. /\ cPc' = cPc
        /\ is_running' = is_running \/ (Playing(e) /\ ex[e].pc \in Owning)
    BY <1>1
  <2> HIDE DEF Owning
  <2>5. ASSUME cPc' \in {"run join", "run register", "run start"}, ~is_running' PROVE FALSE
    BY <2>1, <2>2, <2>3, <2>4, <2>5
  <2>. QED  BY <2>5, Zenon DEF MotionInv
<1>8. cPc' \in {"run check", "run plan", "run mark", "run join"} => thread' # n'
  <2>1. cPc \in Numbered => n # 0
    BY Bounds DEF ThreadsOK, Executor
  <2>. QED  BY <1>1, <2>1 DEF MotionInv, Numbered
<1>9. ASSUME cPc' = "run join", NEW f \in Executor, Playing(f)'
      PROVE  ex'[f].pc \notin Owning /\ ex'[f].kind # "trajectory"
  <2>1. cPc = "run join" /\ Playing(f)
    BY <1>1, <1>2, <1>9
  <2>2. f = n /\ ex[f].pc \notin Owning /\ ex[f].kind # "trajectory" /\ thread # n
    BY <2>1 DEF MotionInv
  <2>3. CASE f # e
    BY <1>1, <2>2, <2>3
  <2>4. CASE f = e
    BY <1>1, <1>9, <2>2, <2>4
  <2>. QED  BY <2>3, <2>4
<1>. QED  BY <1>3, <1>4, <1>5, <1>6, <1>7, <1>8, <1>9 DEF MotionInv, Playing

LEMMA Starts ==
  ASSUME ExecutorsOK, NEW k \in Executor, NEW kind, NEW loop, Start(k, kind, loop)
  PROVE  \A f \in Executor : f # k => ex'[f] = ex[f]
  BY DEF ExecutorsOK, Start

LEMMA StartsInitial ==
  ASSUME ExecutorsOK, NEW k \in Executor, Start(k, "initial", FALSE)
  PROVE  ex'[k].kind = "initial" /\ ex'[k].pc = "start"
  BY DEF ExecutorsOK, Start

LEMMA MotionByCommand ==
  ASSUME ExecutorsOK, ThreadsOK, NumberInv, MotionInv,
         TakeCommand \/ Handle \/ SendStop \/ UNCHANGED vars
  PROVE  MotionInv'
<1>1. CASE \/ RunPlan \/ RunRegister \/ MoveRegister \/ WaitCheckRunning
           \/ WaitCheckThread \/ WaitJoin \/ WaitAck \/ StopPop \/ StopCancel \/ StopFlag
           \/ StopWeld \/ Reject \/ SendStop \/ UNCHANGED vars
  BY <1>1 DEF RunPlan, RunRegister, MoveRegister, WaitCheckRunning, WaitCheckThread,
     WaitJoin, WaitAck, StopPop, StopCancel, StopFlag, StopWeld, Reject, SendStop, CommandAt,
     vars, state, command, MotionInv, Playing, Preparing
<1>2. CASE TakeCommand
  <2>1. /\ n' = n + 1 /\ ex' = ex /\ thread' = thread /\ is_running' = is_running
        /\ cPc' \in {"run check", "move check", "orient check", "idle", "wait running?"}
    BY <1>2 DEF TakeCommand, TakeMotion, TakeDirect, TakeWait, Take, state
  <2>2. thread' # n'
    BY <2>1, NewCommand
  <2>. QED  BY <2>1, <2>2 DEF MotionInv, Playing, Preparing
<1>3. CASE CheckRunning
  <2>1. \A e \in Executor : ~Playing(e)
    BY <1>3 DEF CheckRunning, MotionInv
  <2>. QED  BY <1>3, <2>1 DEF CheckRunning, CommandAt, state, MotionInv, Playing, Preparing
<1>4. CASE RunJoin \/ OrientJoin
  <2>1. \A e \in Executor : ~Playing(e)
    <3>1. ~Playing(n) /\ cPc \in {"run join", "orient join"}
      BY <1>4 DEF RunJoin, OrientJoin, CommandAt, At, Playing
    <3>. QED  BY <3>1, Zenon DEF MotionInv
  <2>2. /\ ex' = ex /\ thread' = thread /\ n' = n
        /\ \/ cPc = "run join" /\ cPc' = "run register" /\ is_running' = is_running
           \/ cPc' = "idle"
    BY <1>4 DEF RunJoin, OrientJoin, CommandAt, state
  <2>. QED  BY <2>1, <2>2 DEF MotionInv, Playing
<1>5. CASE RunMark \/ RunStart \/ MoveStart \/ OrientStart
  <2>1. n \in Executor /\ n' = n /\ thread' = thread
    BY <1>5 DEF RunMark, RunStart, MoveStart, OrientStart, CommandAt, ThreadsOK, Numbered,
       state
  <2>2. \A e \in Executor : ~Playing(e)
    BY <1>5 DEF RunMark, RunStart, MoveStart, OrientStart, CommandAt, MotionInv, Preparing
  <2>3. CASE ex' = ex
    <3>1. RunMark \/ ~RunMark
      OBVIOUS
    <3>2. \A e \in Executor : ~Playing(e)'
      BY <2>2, <2>3 DEF Playing
    <3>3. cPc = "run mark" => thread # n
      BY DEF MotionInv
    <3>4. /\ cPc' \in {"run register", "run join"} => is_running'
          /\ cPc' # "run start"
          /\ cPc' \notin {"run check", "run plan", "run mark"}
          /\ cPc' = "run join" => cPc = "run mark"
      BY <1>5 DEF RunMark, RunStart, MoveStart, OrientStart, CommandAt
    <3>. QED  BY <2>1, <3>2, <3>3, <3>4 DEF MotionInv
  <2>4. CASE ~(ex' = ex)
    <3>1. \/ /\ Start(n, "initial", FALSE) /\ cPc = "run mark" /\ cPc' = "run join" /\ is_running'
          \/ /\ Start(n, "trajectory", At(n, "exited")) /\ cPc = "run start" /\ cPc' = "idle"
             /\ is_running' = is_running
          \/ /\ Start(n, "move", FALSE) /\ cPc' = "idle" /\ is_running'
          \/ /\ Start(n, "orientation", FALSE) /\ cPc' = "orient join" /\ is_running'
      BY <1>5, <2>4 DEF RunMark, RunStart, MoveStart, OrientStart, CommandAt, state
    <3>2. is_running'
      BY <3>1 DEF MotionInv
    <3>3. \A f \in Executor : f # n => ex'[f] = ex[f]
      BY <2>1, <3>1, Starts
    <3>4. \A f \in Executor : Playing(f)' => f = n'
      BY <2>1, <2>2, <3>3 DEF Playing
    <3>5. cPc' = "run join" =>
            /\ thread' # n' /\ ex'[n].pc \notin Owning /\ ex'[n].kind # "trajectory"
      <4> SUFFICES ASSUME cPc' = "run join"
                   PROVE  /\ thread' # n' /\ ex'[n].pc \notin Owning
                          /\ ex'[n].kind # "trajectory"
        OBVIOUS
      <4>1. Start(n, "initial", FALSE) /\ cPc = "run mark"
        BY <3>1
      <4>2. thread # n
        BY <4>1 DEF MotionInv
      <4>3. ex'[n].kind = "initial" /\ ex'[n].pc = "start"
        BY <2>1, <4>1, StartsInitial
      <4>. QED  BY <2>1, <4>2, <4>3 DEF Owning
    <3>6. cPc' \in {"run join", "idle", "orient join"}
      BY <3>1
    <3>. QED  BY <2>1, <3>2, <3>4, <3>5, <3>6 DEF MotionInv, Preparing, Playing
  <2>. QED  BY <2>3, <2>4
<1>. QED  BY <1>1, <1>2, <1>3, <1>4, <1>5 DEF Handle

LEMMA MotionStep == Typed /\ NumberInv /\ MotionInv /\ [Next]_vars => MotionInv'
  BY NextCases, MotionByExecutor, MotionByCommand DEF Typed

LEMMA MotionInit == Init => NumberInv /\ MotionInv
<1> SUFFICES ASSUME Init PROVE NumberInv /\ MotionInv
  OBVIOUS
<1>1. NumberInv
  BY DEF Init, NumberInv
<1>2. cPc = "idle" /\ \A e \in Executor : ~Playing(e)
  BY DEF Init, Playing, Idle
<1>. QED  BY <1>1, <1>2 DEF MotionInv, Preparing

LEMMA MotionGivesOne == MotionInv => OneMotion
<1>1. ASSUME NEW e \in Executor, InMotion(e) PROVE Playing(e)
  BY <1>1 DEF InMotion, Playing
<1>. QED  BY <1>1 DEF MotionInv, OneMotion

\* is_running keeps two motions from being played at once, however many commands
\* and STOPs arrive and whatever they are (command_api.py,
\* trajectory_execution.py).
THEOREM MotionsExclude == Spec => []OneMotion
<1>1. Typed /\ NumberInv /\ [Next]_vars => NumberInv'
  BY NumberStep DEF Typed
<1>. QED  BY <1>1, TypeInit, TypeStep, MotionInit, MotionStep, MotionGivesOne, PTL DEF Spec

(***************************************************************************)
(* STOP.  While one stands no handler is past its reset of the flag, the   *)
(* motion being played has the flag up, and an executor about to begin a   *)
(* step has begun none since.                                              *)
(***************************************************************************)
Quiet == {"idle", "wait running?", "wait thread?", "wait join", "ack", "stop cancel",
          "stop flag", "stop weld"}

StopInv ==
  /\ stopped => cPc \in Quiet
  /\ stopped => \A e \in Executor : Playing(e) => should_stop
  /\ stopped => \A e \in Executor : ex[e].pc = "start" => begun = 0
  /\ ~stopped => begun = 0
  /\ begun \in {0, 1}

LEMMA BegunMore ==
  ASSUME NEW e \in Executor, Execute(e) \/ StreamEnds(e), begun = 0
  PROVE  begun' \in {0, 1}
<1>1. begun' = begun \/ StartStep(e)
  BY DEF Execute, BeginTrajectory, CheckRound, CheckStep, OpenStream, Register,
     SeeFinished, SeeStop, Unregister, EndPacing, ClearWeld, ClearRunning, ClearThread,
     CheckRegistered, Release, StreamEnds, history
<1>2. StartStep(e) => begun' = IF stopped /\ begun < 2 THEN begun + 1 ELSE begun
  BY DEF StartStep
<1>. QED  BY <1>1, <1>2

LEMMA StopByExecutor ==
  ASSUME ExecutorsOK, MotionInv, StopInv, NEW e \in Executor, Execute(e) \/ StreamEnds(e)
  PROVE  StopInv'
<1>1. /\ \A f \in Executor : f # e => ex'[f] = ex[f]
      /\ cPc' = cPc /\ stopped' = stopped
      /\ Playing(e)' => Playing(e)
      /\ \/ should_stop' = should_stop
         \/ Playing(e) /\ ~Playing(e)' /\ ex[e].pc \in Owning
      /\ ex'[e].pc = "start" => ex[e].pc = "start" \/ (Playing(e) /\ ~should_stop)
      /\ begun' = begun \/ (stopped /\ ex[e].pc = "start" /\ ex'[e].pc # "start")
  BY ExecutorStep
<1>2. \A f \in Executor : Playing(f)' => Playing(f)
  BY <1>1 DEF Playing
<1>3. ASSUME stopped', NEW f \in Executor, Playing(f)'
      PROVE  should_stop'
  <2>1. CASE should_stop' = should_stop
    BY <1>1, <1>2, <1>3, <2>1 DEF StopInv
  <2>2. CASE Playing(e) /\ ~Playing(e)'
    BY <1>2, <1>3, <2>2, Zenon DEF MotionInv
  <2>. QED  BY <1>1, <2>1, <2>2
<1>4. ASSUME stopped', NEW f \in Executor, ex'[f].pc = "start"
      PROVE  begun' = 0
  <2>1. Playing(f)' /\ Playing(f)
    BY <1>2, <1>4 DEF Playing
  <2>2. ex[f].pc = "start"
    BY <1>1, <1>4, <2>1 DEF StopInv
  <2>3. begun = 0
    BY <1>1, <1>4, <2>2 DEF StopInv
  <2>4. CASE begun' = begun
    BY <2>3, <2>4
  <2>5. CASE ex[e].pc = "start" /\ ex'[e].pc # "start"
    <3>1. Playing(e)
      BY <2>5 DEF Playing
    <3>2. e = f
      BY <2>1, <3>1 DEF MotionInv
    <3>. QED  BY <1>4, <2>5, <3>2
  <2>. QED  BY <1>1, <2>4, <2>5
<1>5. begun' \in {0, 1} /\ (~stopped' => begun' = 0)
  <2>1. CASE begun' = begun
    BY <1>1, <2>1 DEF StopInv
  <2>2. CASE stopped /\ ex[e].pc = "start"
    <3>1. begun = 0
      BY <2>2 DEF StopInv
    <3>. QED  BY <1>1, <2>2, <3>1, BegunMore
  <2>. QED  BY <1>1, <2>1, <2>2
<1>. QED  BY <1>1, <1>3, <1>4, <1>5 DEF StopInv, Playing

LEMMA StopByCommand ==
  ASSUME ExecutorsOK, ThreadsOK, StopInv, TakeCommand \/ Handle \/ SendStop \/ UNCHANGED vars
  PROVE  StopInv'
<1>1. CASE TakeMotion \/ TakeDirect
  BY <1>1 DEF TakeMotion, TakeDirect, Take, StopInv
<1>2. CASE StopFlag
  BY <1>2 DEF StopFlag, CommandAt, StopInv, Playing, Quiet
<1>3. CASE \/ TakeWait \/ SendStop \/ UNCHANGED vars
           \/ WaitCheckRunning \/ WaitCheckThread \/ WaitJoin \/ WaitAck \/ StopPop
           \/ StopCancel \/ StopWeld
  <2>1. stopped' = stopped /\ begun' = begun /\ ex' = ex /\ should_stop' = should_stop
    BY <1>3 DEF TakeWait, SendStop, vars, WaitCheckRunning, WaitCheckThread, WaitJoin,
       WaitAck, StopPop, StopCancel, StopWeld, state, history
  <2>2. cPc' \in Quiet \/ cPc' = cPc
    BY <1>3 DEF TakeWait, Take, SendStop, vars, WaitCheckRunning, WaitCheckThread, WaitJoin,
       WaitAck, StopPop, StopCancel, StopWeld, CommandAt, command, Quiet
  <2>. QED  BY <2>1, <2>2 DEF StopInv, Playing
<1>4. CASE \/ CheckRunning \/ Reject \/ RunPlan \/ RunMark \/ RunJoin \/ RunRegister
           \/ RunStart \/ MoveRegister \/ MoveStart \/ OrientStart \/ OrientJoin
  <2>1. cPc \notin Quiet /\ stopped' = stopped /\ begun' = begun
    BY <1>4 DEF CheckRunning, Reject, RunPlan, RunMark, RunJoin, RunRegister, RunStart,
       MoveRegister, MoveStart, OrientStart, OrientJoin, CommandAt, history, Quiet
  <2>. QED  BY <2>1 DEF StopInv
<1>. QED  BY <1>1, <1>2, <1>3, <1>4 DEF TakeCommand, Handle

LEMMA StopStep == Typed /\ MotionInv /\ StopInv /\ [Next]_vars => StopInv'
  BY NextCases, StopByExecutor, StopByCommand DEF Typed

LEMMA StopInit == Init => StopInv
  BY DEF Init, StopInv

LEMMA StopGivesOne == StopInv => OneStepAfterStop
  BY DEF StopInv, OneStepAfterStop

\* Once the stop flag is up the executor begins at most the one step for which it
\* had already looked at the flag (handle_stop of command_api.py, the check
\* "Before each step" of trajectory_execution.py).
THEOREM StopHolds == Spec => []OneStepAfterStop
<1>1. Typed /\ NumberInv /\ [Next]_vars => NumberInv'
  BY NumberStep DEF Typed
<1>. QED  BY <1>1, TypeInit, TypeStep, MotionInit, MotionStep, StopInit, StopStep,
          StopGivesOne, PTL DEF Spec

\* A STOP that no later command has taken back stays up under the motion it finds,
\* whatever is cleaned up meanwhile (the finally branches of
\* trajectory_execution.py): the part of StopTakesEffect that needs no fairness.
THEOREM StopIsKept == Spec => []StopStands
<1>1. Typed /\ NumberInv /\ [Next]_vars => NumberInv'
  BY NumberStep DEF Typed
<1>2. StopInv => StopStands
  BY DEF StopInv, StopStands, InMotion, Playing
<1>. QED  BY <1>1, <1>2, TypeInit, TypeStep, MotionInit, MotionStep, StopInit, StopStep,
          PTL DEF Spec

(***************************************************************************)
(* Who clears is_running.  An executor that plays goes on owing its        *)
(* clean-up until it has done it; a move owes it as long as it is          *)
(* registered, and only the late clean-up of a trajectory, which counts as *)
(* clobbered, can take that away.  The executor of the command being       *)
(* handled has not run before the handler starts it.                       *)
(***************************************************************************)
Unstarted == {"run check", "run plan", "run mark", "move check", "move register",
              "move start", "orient check", "orient start"}

FreshInv ==
  /\ \A e \in Executor : e > n => ex[e].pc = "none"
  /\ cPc \in Unstarted => ex[n].pc = "none"

OwnerInv ==
  /\ cPc = "move start" => thread = n \/ clobbered
  /\ \A e \in Executor : ex[e].pc = "registered?" => ex[e].kind # "trajectory"
  /\ MarkIsOwned

\* What an executor does about the mark and the registration.
LEMMA OwnerMoves ==
  ASSUME ExecutorsOK, NEW e \in Executor, Execute(e) \/ StreamEnds(e)
  PROVE  /\ \A f \in Executor : f # e => ex'[f] = ex[f]
         /\ ex[e].pc = "none" => ex'[e] = ex[e]
         /\ \/ /\ UNCHANGED <<is_running, thread, clobbered>>
               /\ ex'[e].kind = ex[e].kind /\ (Playing(e) => Playing(e)')
               /\ ex'[e].pc = "registered?" =>
                    ex[e].pc = "registered?" \/ ex[e].kind # "trajectory"
            \/ /\ Playing(e) /\ ~is_running' /\ clobbered' = clobbered
               /\ ex'[e].pc \in {"clear thread", "exited"}
            \/ /\ ex[e].pc = "clear thread" /\ ex'[e].pc = "exited" /\ is_running' = is_running
               /\ thread' = 0 /\ clobbered' = (clobbered \/ thread \notin {0, e})
            \/ /\ ex[e].pc = "registered?" /\ ex'[e].pc = "exited" /\ thread # e
               /\ UNCHANGED <<is_running, thread, clobbered>>
<1>1. CASE \/ BeginTrajectory(e) \/ CheckRound(e) \/ CheckStep(e) \/ Register(e)
           \/ SeeFinished(e) \/ SeeStop(e) \/ StartStep(e) \/ OpenStream(e) \/ ClearWeld(e)
  <2>1. PICK pc \in {"round?", "clear weld", "step?", "start", "watch", "unregister",
                    "open stream", "pace", "register", "clear running"} : Goto(e, pc)
    BY <1>1 DEF BeginTrajectory, CheckRound, CheckStep, Register, SeeFinished, SeeStop,
       StartStep, OpenStream, ClearWeld
  <2>2. /\ UNCHANGED <<is_running, thread, clobbered>>
        /\ ex[e].pc # "none"
    BY <1>1 DEF BeginTrajectory, CheckRound, CheckStep, Register, SeeFinished, SeeStop,
       StartStep, OpenStream, ClearWeld, At, state, history
  <2>3. /\ \A f \in Executor : f # e => ex'[f] = ex[f]
        /\ ex'[e].pc = pc /\ ex'[e].kind = ex[e].kind
    BY <2>1, Moves
  <2>. QED  BY <2>2, <2>3 DEF Playing
<1>2. CASE Unregister(e) \/ EndPacing(e)
  <2>1. /\ StepDone(e) /\ ex[e].pc # "none"
        /\ UNCHANGED <<is_running, thread, clobbered>>
    BY <1>2 DEF Unregister, EndPacing, At, state, history
  <2>2. /\ \A f \in Executor : f # e => ex'[f] = ex[f]
        /\ ex'[e].pc \in {"registered?", "step?", "round?", "clear weld"}
        /\ ex[e].pc # "none"
        /\ ex'[e].kind = ex[e].kind
    BY <2>1, StepDoneMoves
  <2>3. ex'[e].pc = "registered?" => ex[e].kind # "trajectory"
    <3>1. ex[e] \in Record
      BY DEF ExecutorsOK
    <3>2. CASE ex[e].kind = "trajectory" /\ ex[e].step < NumSteps
      <4> DEFINE k == ex[e].step + 1
      <4>1. ex' = [ex EXCEPT ![e] = [ex[e] EXCEPT !.pc = "step?", !.step = k]]
        BY <2>1, <3>2 DEF StepDone
      <4> HIDE DEF k
      <4>. QED  BY <3>1, <4>1 DEF ExecutorsOK, Record
    <3>3. CASE ex[e].kind = "trajectory" /\ ~(ex[e].step < NumSteps)
      BY <2>1, <3>1, <3>3 DEF StepDone, ExecutorsOK, Record
    <3>. QED  BY <3>2, <3>3
  <2>. QED  BY <2>1, <2>2, <2>3 DEF Playing
<1>3. CASE ClearRunning(e)
  <2>1. Goto(e, "clear thread") /\ ~is_running' /\ clobbered' = clobbered
        /\ ex[e].pc = "clear running"
    BY <1>3 DEF ClearRunning, At, history
  <2>2. (\A f \in Executor : f # e => ex'[f] = ex[f]) /\ ex'[e].pc = "clear thread"
    BY <2>1, Moves
  <2>. QED  BY <2>1, <2>2 DEF Playing
<1>4. CASE ClearThread(e) \/ Release(e) \/ (CheckRegistered(e) /\ thread # e)
  <2>1. Exit(e)
    BY <1>4 DEF ClearThread, Release, CheckRegistered
  <2>2. (\A f \in Executor : f # e => ex'[f] = ex[f]) /\ ex'[e].pc = "exited"
    BY <2>1 DEF Exit, Idle, ExecutorsOK
  <2>3. CASE ClearThread(e)
    BY <2>2, <2>3 DEF ClearThread, At
  <2>4. CASE Release(e)
    BY <2>2, <2>4 DEF Release, At, Playing, history
  <2>5. CASE CheckRegistered(e) /\ thread # e
    BY <2>2, <2>5 DEF CheckRegistered, At, state, history
  <2>. QED  BY <1>4, <2>3, <2>4, <2>5
<1>5. CASE CheckRegistered(e) /\ thread = e
  <2>1. /\ Goto(e, "release") /\ ex[e].pc # "none"
        /\ UNCHANGED <<is_running, thread, clobbered>>
    BY <1>5 DEF CheckRegistered, At, state, history
  <2>2. /\ \A f \in Executor : f # e => ex'[f] = ex[f]
        /\ ex'[e].pc = "release" /\ ex'[e].kind = ex[e].kind
    BY <2>1, Moves
  <2>. QED  BY <2>1, <2>2 DEF Playing
<1>6. CASE StreamEnds(e)
  BY <1>6 DEF StreamEnds, state, history, Playing
<1>. QED  BY <1>1, <1>2, <1>3, <1>4, <1>5, <1>6 DEF Execute

LEMMA FreshByExecutor ==
  ASSUME ExecutorsOK, ThreadsOK, FreshInv, NEW e \in Executor, Execute(e) \/ StreamEnds(e)
  PROVE  FreshInv'
<1>1. n' = n /\ cPc' = cPc
  BY ExecutorStep
<1>2. \A f \in Executor : ex[f].pc = "none" => ex'[f] = ex[f]
  BY OwnerMoves
<1>3. cPc \in Unstarted => n \in Executor
  BY DEF ThreadsOK, Unstarted, Numbered
<1>. QED  BY <1>1, <1>2, <1>3, Zenon DEF FreshInv

LEMMA FreshByCommand ==
  ASSUME ExecutorsOK, ThreadsOK, FreshInv, TakeCommand \/ Handle \/ SendStop \/ UNCHANGED vars
  PROVE  FreshInv'
<1>1. CASE TakeCommand
  <2>1. n' = n + 1 /\ n < MaxCommands /\ ex' = ex
    BY <1>1 DEF TakeCommand, TakeMotion, TakeDirect, TakeWait, Take
  <2>2. n' \in Executor /\ n' > n /\ (\A f \in Executor : f > n' => f > n)
    BY <2>1, Bounds DEF ThreadsOK, Executor
  <2>. QED  BY <2>1, <2>2, Zenon DEF FreshInv
<1>2. CASE RunMark \/ RunStart \/ MoveStart \/ OrientStart
  <2>1. n \in Executor /\ n' = n /\ cPc' \notin Unstarted
    BY <1>2 DEF RunMark, RunStart, MoveStart, OrientStart, CommandAt, ThreadsOK, Numbered,
       Unstarted
  <2>2. \A f \in Executor : f # n => ex'[f] = ex[f]
    BY <1>2, <2>1, Starts DEF RunMark, RunStart, MoveStart, OrientStart
  <2>3. \A f \in Executor : f > n => f # n
    BY <2>1 DEF Executor
  <2>. QED  BY <2>1, <2>2, <2>3, Zenon DEF FreshInv
<1>3. CASE \/ CheckRunning \/ Reject \/ RunPlan \/ RunJoin \/ RunRegister \/ MoveRegister
           \/ OrientJoin \/ WaitCheckRunning \/ WaitCheckThread \/ WaitJoin \/ WaitAck
           \/ StopPop \/ StopCancel \/ StopFlag \/ StopWeld \/ SendStop \/ UNCHANGED vars
  <2>1. ex' = ex /\ n' = n /\ (cPc' \in Unstarted => cPc \in Unstarted)
    BY <1>3 DEF CheckRunning, Reject, RunPlan, RunJoin, RunRegister, MoveRegister,
       OrientJoin, WaitCheckRunning, WaitCheckThread, WaitJoin, WaitAck, StopPop, StopCancel,
       StopFlag, StopWeld, SendStop, CommandAt, vars, command, Unstarted
  <2>. QED  BY <2>1 DEF FreshInv
<1>. QED  BY <1>1, <1>2, <1>3 DEF Handle

LEMMA OwnerByExecutor ==
  ASSUME ExecutorsOK, ThreadsOK, MotionInv, FreshInv, OwnerInv,
         NEW e \in Executor, Execute(e) \/ StreamEnds(e)
  PROVE  OwnerInv'
<1>0. cPc' = cPc /\ n' = n /\ thread' \in {0, thread}
  BY ExecutorStep
<1>1. \A f \in Executor : f # e => ex'[f] = ex[f]
  BY OwnerMoves
<1>2. \A f \in Executor : Owes(f) => Playing(f)
  BY DEF Owes, Playing
<1>3. CASE /\ UNCHANGED <<is_running, thread, clobbered>>
           /\ ex'[e].kind = ex[e].kind /\ (Playing(e) => Playing(e)')
           /\ ex'[e].pc = "registered?" =>
                ex[e].pc = "registered?" \/ ex[e].kind # "trajectory"
  <2>1. \A f \in Executor : Owes(f) => Owes(f)'
    BY <1>1, <1>3 DEF Owes, Playing
  <2>2. \A f \in Executor : ex'[f].pc = "registered?" => ex'[f].kind # "trajectory"
    BY <1>1, <1>3 DEF OwnerInv
  <2>3. MarkIsOwned'
    BY <1>0, <1>3, <2>1, Zenon DEF OwnerInv, MarkIsOwned
  <2>. QED  BY <1>0, <1>3, <2>2, <2>3 DEF OwnerInv
<1>4. CASE /\ Playing(e) /\ ~is_running' /\ clobbered' = clobbered
           /\ ex'[e].pc \in {"clear thread", "exited"}
  <2>1. cPc # "move start"
    BY <1>4 DEF MotionInv, Preparing
  <2>2. \A f \in Executor : ex'[f].pc = "registered?" => ex'[f].kind # "trajectory"
    BY <1>1, <1>4 DEF OwnerInv
  <2>. QED  BY <1>0, <1>4, <2>1, <2>2 DEF OwnerInv, MarkIsOwned
<1>5. CASE /\ ex[e].pc = "clear thread" /\ ex'[e].pc = "exited" /\ is_running' = is_running
           /\ thread' = 0 /\ clobbered' = (clobbered \/ thread \notin {0, e})
  <2>1. \A f \in Executor : ex'[f].pc = "registered?" => ex'[f].kind # "trajectory"
    BY <1>1, <1>5 DEF OwnerInv
  <2>2. cPc = "move start" => n # e /\ n \in Executor
    BY <1>5 DEF FreshInv, Unstarted, ThreadsOK, Numbered
  <2>3. 0 \notin Executor
    BY Bounds DEF Executor
  <2>4. cPc' = "move start" => clobbered'
    BY <1>0, <1>5, <2>2, <2>3 DEF OwnerInv
  <2>5. \A f \in Executor : Owes(f) => Owes(f)' \/ clobbered'
    <3>1. \A f \in Executor : Owes(f) => f # e
      BY <1>5 DEF Owes
    <3>. QED  BY <1>1, <1>5, <2>3, <3>1 DEF Owes
  <2>6. MarkIsOwned'
    BY <1>0, <1>5, <2>5, Zenon DEF OwnerInv, MarkIsOwned
  <2>. QED  BY <2>1, <2>4, <2>6 DEF OwnerInv
<1>6. CASE /\ ex[e].pc = "registered?" /\ ex'[e].pc = "exited" /\ thread # e
           /\ UNCHANGED <<is_running, thread, clobbered>>
  <2>1. \A f \in Executor : ex'[f].pc = "registered?" => ex'[f].kind # "trajectory"
    BY <1>1, <1>6 DEF OwnerInv
  <2>2. ~Owes(e)
    BY <1>6 DEF OwnerInv, Owes
  <2>3. \A f \in Executor : Owes(f) => Owes(f)'
    BY <1>1, <1>6, <2>2 DEF Owes
  <2>4. MarkIsOwned'
    BY <1>0, <1>6, <2>3, Zenon DEF OwnerInv, MarkIsOwned
  <2>. QED  BY <1>0, <1>6, <2>1, <2>4 DEF OwnerInv
<1>. QED  BY <1>3, <1>4, <1>5, <1>6, OwnerMoves

LEMMA StartsKind ==
  ASSUME ExecutorsOK, NEW k \in Executor, NEW kind \in Kinds, NEW loop, Start(k, kind, loop)
  PROVE  ex'[k].kind = kind /\ ex'[k].pc \in {"begin", "start"}
  BY DEF ExecutorsOK, Start

LEMMA OwnerByCommand ==
  ASSUME ExecutorsOK, ThreadsOK, MotionInv, OwnerInv,
         TakeCommand \/ Handle \/ SendStop \/ UNCHANGED vars
  PROVE  OwnerInv'
<1>1. CASE \/ TakeCommand \/ Reject \/ RunPlan \/ WaitCheckRunning \/ CheckRunning
           \/ WaitCheckThread \/ WaitJoin \/ WaitAck \/ StopPop \/ StopCancel \/ StopFlag
           \/ StopWeld \/ SendStop \/ UNCHANGED vars
  <2>1. /\ UNCHANGED <<is_running, thread, clobbered, ex>>
        /\ \/ cPc' = cPc /\ n' = n
           \/ /\ cPc' \notin {"move start"}
              /\ cPc \notin {"run join", "run register", "run start", "orient join"}
    BY <1>1 DEF TakeCommand, TakeMotion, TakeDirect, TakeWait, Take, Reject, RunPlan,
       WaitCheckRunning, CheckRunning, WaitCheckThread, WaitJoin, WaitAck, StopPop,
       StopCancel, StopFlag, StopWeld, SendStop, CommandAt, vars, state, command, history
  <2>2. \A f \in Executor : Owes(f)' <=> Owes(f)
    BY <2>1 DEF Owes
  <2>3. MarkIsOwned'
    BY <2>1, <2>2 DEF OwnerInv, MarkIsOwned
  <2>. QED  BY <2>1, <2>3 DEF OwnerInv
<1>2. CASE RunJoin \/ RunRegister \/ MoveRegister \/ OrientJoin
  <2>1. /\ ex' = ex /\ clobbered' = clobbered /\ n' = n
        /\ \/ cPc' \in {"run register", "run start"}
           \/ cPc = "move register" /\ cPc' = "move start" /\ thread' = n
              /\ is_running' = is_running
           \/ cPc' = "idle" /\ ~is_running'
    BY <1>2 DEF RunJoin, RunRegister, MoveRegister, OrientJoin, CommandAt, history
  <2>2. cPc = "move register" => ~is_running \/ clobbered
    <3>1. cPc = "move register" => \A f \in Executor : ~Owes(f)
      BY DEF MotionInv, Preparing, Owes, Playing
    <3>. QED  BY <3>1 DEF OwnerInv, MarkIsOwned
  <2>3. MarkIsOwned'
    BY <2>1, <2>2 DEF MarkIsOwned
  <2>. QED  BY <2>1, <2>3 DEF OwnerInv
<1>3. CASE RunMark \/ RunStart \/ MoveStart \/ OrientStart
  <2>1. n \in Executor /\ n' = n /\ thread' = thread /\ clobbered' = clobbered
        /\ cPc' # "move start"
    BY <1>3 DEF RunMark, RunStart, MoveStart, OrientStart, CommandAt, ThreadsOK, Numbered,
       state, history
  <2>2. \A f \in Executor : ex'[f].pc = "registered?" => ex'[f].kind # "trajectory"
    <3>1. ex' = ex \/ \E kind \in Kinds, loop \in BOOLEAN : Start(n, kind, loop)
      BY <1>3 DEF RunMark, RunStart, MoveStart, OrientStart, Kinds, At
    <3>. QED  BY <2>1, <3>1, Starts, StartsKind DEF OwnerInv
  <2>3. \/ cPc' \in {"run register", "run join", "orient join"}
        \/ ~is_running'
        \/ Owes(n)'
        \/ clobbered
    <3>1. CASE RunMark \/ OrientStart
      BY <3>1 DEF RunMark, OrientStart, CommandAt
    <3>2. CASE RunStart
      <4>1. Start(n, "trajectory", At(n, "exited"))
        BY <3>2 DEF RunStart
      <4>2. "trajectory" \in Kinds
        BY DEF Kinds
      <4>3. ex'[n].kind = "trajectory" /\ ex'[n].pc \in {"begin", "start"}
        BY <2>1, <4>1, <4>2, StartsKind
      <4>. QED  BY <2>1, <4>3 DEF Owes
    <3>3. CASE MoveStart
      <4>1. Start(n, "move", FALSE) /\ cPc = "move start"
        BY <3>3 DEF MoveStart, CommandAt
      <4>2. "move" \in Kinds
        BY DEF Kinds
      <4>3. ex'[n].kind = "move" /\ ex'[n].pc \in {"begin", "start"}
        BY <2>1, <4>1, <4>2, StartsKind
      <4>4. thread = n \/ clobbered
        BY <4>1 DEF OwnerInv
      <4>. QED  BY <2>1, <4>3, <4>4 DEF Owes
    <3>. QED  BY <1>3, <3>1, <3>2, <3>3
  <2>4. MarkIsOwned'
    BY <2>1, <2>3 DEF MarkIsOwned
  <2>. QED  BY <2>1, <2>2, <2>4 DEF OwnerInv
<1>. QED  BY <1>1, <1>2, <1>3 DEF Handle

LEMMA OwnerInit == Init => FreshInv /\ OwnerInv
  BY DEF Init, FreshInv, OwnerInv, MarkIsOwned, Idle, Unstarted

\* Whoever marks the controller as running has handed the mark to somebody who
\* clears it (command_api.py, the finally branches of trajectory_execution.py), but
\* for the registration that a late clean-up wipes out: the part of IdleAgain that
\* needs no fairness.
THEOREM MarksAreOwned == Spec => []MarkIsOwned
<1>1. Typed /\ NumberInv /\ [Next]_vars => NumberInv'
  BY NumberStep DEF Typed
<1>2. Typed /\ FreshInv /\ [Next]_vars => FreshInv'
  BY NextCases, FreshByExecutor, FreshByCommand DEF Typed
<1>3. Typed /\ MotionInv /\ FreshInv /\ OwnerInv /\ [Next]_vars => OwnerInv'
  BY NextCases, OwnerByExecutor, OwnerByCommand DEF Typed
<1>4. OwnerInv => MarkIsOwned
  BY DEF OwnerInv
<1>. QED  BY <1>1, <1>2, <1>3, <1>4, TypeInit, TypeStep, MotionInit, MotionStep, OwnerInit,
          PTL DEF Spec
=============================================================================
