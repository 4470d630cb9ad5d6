# A verification of GradientOS

GradientOS drives a six-axis robot arm. This directory holds TLA+ models of its
control core, the TLC configurations that check them and TLAPS proofs of what
matters most about each. Paths are relative to the root of the repository;
`main.cpp` is `src/gradient_rt_motion/main.cpp`, and Python files are in
`src/gradient_os/arm_controller/` unless a path says otherwise.

## 1. The system

```
 UI, API, CLI --UDP--> run_controller.py --calls--> command_api.py
                             |                          | trajectory_state
                             v telemetry publisher      v
                             |            executor threads, jog thread
                             |            (trajectory_execution.py, command_api.py)
                             |                          | execute_timed_path, MotionHandle
                             v                          v
                   pacing thread (_streaming_mixin.py)  |  EtherCAT backend (backend.py)
                             | serial bus, protocol.py  |  shared memory, two eventfds
                             v                          v
                       Feetech servos          RTCore daemon (main.cpp): helper thread,
                                               cyclic thread, accept loop
                                                        | EtherCAT
                                                        v
                                                  A6-EC servo drives
```

### Inventory

| Component | State it keeps | Operations | Talks to | Status |
|---|---|---|---|---|
| Cyclic thread and DS402 sequencer (`main.cpp`, `ds402.hpp`) | hold latches, reset pulses, shutdown window | one cycle | atomics, drives | modelled |
| IPC helper thread (`main.cpp`) | last setpoint seen, ring positions | drain commands, publish a setpoint, send a snapshot | shared memory, atomics | partly: not what a snapshot says |
| Accept loop and session (`main.cpp`) | the one controller, its descriptors | poll, handshake, reject, reset_connection, end | helper, sockets | modelled |
| Start-up, PDO mapping, metrics (`main.cpp`, `a6ec_pdo.hpp`) | options | parse, configure, print | libecrt | not modelled |
| EtherCAT backend (`backends/ethercat_rtcore/`) | last setpoint, axis counts, mappings | connect, arm, write a setpoint, read snapshots | shared memory, socket | partly: not homing, not units |
| MotionHandle (`motion_handle.py`) | state, two events | cancel, pause, resume, wait | pacing thread and any client | modelled |
| Streaming mixin (`backends/_streaming_mixin.py`) | clock, cycle | pace, resume, brake | handle, servos | modelled |
| Simulation backend (`backends/simulation/`) | positions | the same, virtual clock | handle | partly |
| Motion commands (`command_api.py`) | `trajectory_state` | STOP, RUN_TRAJECTORY, moves, direct moves, WAIT_FOR_IDLE | executors, servo driver | partly: not geometry |
| Executors (`trajectory_execution.py`) | step, loop flag | play, stop, clean up, leave a posture behind | `trajectory_state`, backends | partly: not feedback control |
| UDP loop (`run_controller.py`) | mode, publisher thread, recorder processes | receive, dispatch, reply | command handlers | partly: not calibration, not the recorders |
| Jogging (`command_api.py`) | velocities, deadman, jog thread | start, stop, deadman, velocities, gripper | `trajectory_state`, servo driver | modelled |
| Recording, preview planning (`command_api.py`) | list of waypoints | start, record, end | files | not modelled |
| Gripper, PID tuning | none | one bus access, a sweep | servo driver | not modelled, but for jogging the gripper |
| Servo driver and protocol (`servo_driver.py`, `servo_protocol.py`) | the posture of the arm | read, store and command a posture | backend | partly: not framing, not units |
| Feetech backends (`backends/sts3215`, `hls3950`) | serial port, its timeout, one lock | batch reads and writes | bus | partly: not commissioning |
| Registry, actuator interface, robot configuration | chosen once at start | look up | all | not modelled |
| Kinematics (`ik_solver.py`, `trajectory_planner.py`, solvers) | none | compute | none | not modelled: real arithmetic |
| REST API (`api/main.py`) | sockets, recorder process | translate, relay | UDP loop | not modelled |
| Telemetry and dataset recording (`telemetry/`) | open files, alert timers | publish, record | sockets, files | not modelled; the thread that reads the servos is |
| Vision, CAD service | none | compute | files, camera | not modelled |
| Desktop UI, web UI, CLI | widgets | send commands, show | UDP, HTTP | not modelled: clients |
| Service units, scripts, tests, unfinished solvers, data | none | none | none | not modelled |

`PROJECT.json` lists the same components with their sources and, under
`hazards`, what is hard to test in each, by line, with the properties that
would notice.

### What is hard about it

* Three processes and some ten threads share atomics, memory without locks, a
  Python dictionary without a lock and a handle with one. In the daemon every
  atomic access is relaxed or acquire/release on one word; nothing makes two of
  them a unit (`RtCycle`, `SetpointSlot`, `ShmRing`).
* A stop has several forms that have to agree: the handle's cancel, the flag
  `should_stop`, the brake that is written to the servos, the deadman switch, a
  disarm, SIGTERM (`Streaming`, `TrajectoryControl`, `Jog`, `RtCycle`).
* State outlives what it was about: hold latches across faults, requests across
  motions, permissions across sessions, a jog thread across the half second it
  is awaited, a publisher across its stop event.
* The serial lock is released between a request and its answers, so that what
  one thread asked for another can read, drop or overlap (`ServoBus`).
* The bus loses frames, drives trip or refuse a reset, servos do not answer,
  planning and servo accesses fail, controllers are killed or hang.
* Progress depends on flags and events being set in the right order: a paused
  stream, a joined executor, a helper waiting for its eventfd, an accept loop
  blocked in a greeting.

What makes each modelled component correct:

* cyclic thread: a drive never jumps; a permission withdrawn is obeyed; a request
  for a fault reset is sent; after a signal the threads end;
* rings: an ordered channel that neither loses nor tears an accepted message;
* setpoint slot: an axis is only sent where a setpoint commanded it, but for
  stated cases, and ends at the last one;
* accept loop: one controller at a time, none displaced, each answered; nothing
  of a session is carried out after it;
* stream: its verdict, its events and the last goal on the bus agree; a cancel is
  prompt; it ends;
* commands: one motion at a time; STOP wins; the controller gets back to idle;
* jogging: at rest with the switch let go or the client silent; no goal into a
  motion but one, none from a posture that is out of date;
* serial bus: an undisturbed read is whole; relative moves start from where the
  arm is; the publisher that is told to end is the last one.

## 2. The modules

| Module | Models | State and actions in the code |
|---|---|---|
| `Ds402` | `ds402.hpp` and, external, the CiA 402 machine of a drive | statuswords by class, `decode_statusword`, `controlword_for_enable` |
| `RtCycle` | the daemon: cyclic thread, helper, connection, signal, with bus and drives | one action per atomic access that another thread can get between; `RtAxes` is the loop over the axes and the frame; one helper action per command type |
| `MCRtCycle`, `MCServoBus` | encoder ranges and a symmetry for TLC | none |
| `SetpointSlot` | `_write_setpoint`, the helper's copy, `latest_targets`, the cyclic thread's copy | one action per field or axis copied |
| `Channel` | the abstract specification of a ring | a bounded first-in first-out channel |
| `ShmRing` | `_cmd_ring_write`, `ring_write`, both consumers, the eventfds | one action per header access; a slot is written in two steps |
| `ControllerSlot` | the abstract specification of the accept loop | one place, given when free, taken back only from one that has gone, or at the end |
| `RtSession` | accept loop, handshake and `reset_connection` of `main.cpp`; `_connect_ipc` and shutdown of `backend.py` | one action per system call another process can get between; each may fail where the code looks at it |
| `Streaming` | `motion_handle.py`, the pacing threads of `_streaming_mixin.py` and the simulation | one action per lock section, event and bus access; clients pause, resume, cancel |
| `TrajectoryControl` | `trajectory_state`, the handlers, the executors | one action per access to the dictionary that another thread can get between |
| `Jog` | the jog thread and the JOG handlers, beside motions that come and go | the same: each store of a handler is a step |
| `ServoBus` | `sync_read_positions`, `sync_read_block` and `sync_write` of the Feetech protocols, their readers (telemetry, STOP, moves, the brake of a stream, a stream that is resumed, the closed-loop executor) and the posture they leave | one action per lock section and per access to the port's timeout or a shared variable |
| `*Proofs` | theorems about the module of the same name | none |

`RtCycle` extends `Ds402`. `ShmRing` is shown to implement `Channel`, with the
unread slots as the waiting messages, and `RtSession` to implement
`ControllerSlot`, with the client that has been sent its WELCOME as the owner.
`ServoBus` composes command thread, executor, pacing thread and publishers over
one port. Elsewhere the modules meet at their edges: `RtCycle` takes any batch
of commands and any mixture of setpoints, which `ShmRing` and `SetpointSlot`
narrow down; `TrajectoryControl` takes a stream that ends or is cancelled,
which is what `Streaming` shows of one; `Jog` takes motions that start and end,
which is what `TrajectoryControl` shows of them; `RtSession` has commands of a
session that are carried out or not, which is what the three modules below it
are about.

Abstractions worth knowing:

* Memory is sequentially consistent. On ARM the plain stores into shared memory
  may be reordered, which can only add behaviours; what is found wrong here is
  wrong there too, what holds here holds on the x86 host or with barriers.
* Statuswords and controlwords are named after their class; positions are small
  integers; a setpoint's positions are named after the setpoint.
* Goals of a stream are named after why they are written. Time is counted in
  pacing periods.
* Jog velocities are zero or not, and the posture of the arm is counted in
  motions: what jogging adds the jog thread knows, what a motion adds it has to
  look up. A thread that has ended its session writes no more goals, and what it
  knew is forgotten; the properties are about threads that may still write one.
* A posture read from the bus is true, wrong for some joint, or missing. Frames
  are whole; one servo stands for a joint; of telemetry's other blocks only
  the one is modelled whose frames are as long as those of a position.
* In `SetpointSlot` the mask of a setpoint and the axes it has a position for are
  two things: a setpoint for all joints is masked for every axis of the daemon and
  leaves 0.0, the filler, for an axis without a joint (`Mapped`).
* An executor's path and its planning are left out; planning may fail at will. Of
  the closed-loop executor `ServoBus` has what it reads and sends: a point of the
  path, to the servos that have answered.
* No command pauses a stream; the handle can, and its tests do. `Streaming` has
  clients that do so at any moment, `ServoBus` counts a pause and its resume as one
  of its commands.
* In `ShmRing` nobody closes the ring: what becomes of the messages of a session
  that ends is in `RtSession`.

Variables called history in a module are read by no action that models code.

## 3. The runs

| Run | Question | Bounds |
|---|---|---|
| `RtCycle_stop` | Does a signal end both threads at any moment; is a latch ever stale when a drive is enabled; does a disarm end operation? | 1 axis, 1 position, grace window of 1 cycle, frame loss, trips, signal |
| `RtCycle_clamp` | Can a target jump on a bus that loses no frame? | 1 axis, 3 positions, clamp 1, trips, resets |
| `RtCycle_reset` | Is a requested fault reset sent? | 2 axes, pulse of 2 cycles, drives that refuse |
| `SetpointSlot` | What can torn copies do at both hand-overs, and does the last setpoint arrive? | 2 axes, one without a joint, 3 setpoints, for all joints or one axis |
| `ShmRing` | Does either ring implement a channel and deliver everything? | 3 slots, 8 sends |
| `RtSession` | One controller at a time, an answer for each, nothing of an old session, an end? | 3 clients, each with one connection, any failure, hang or kill; `poll` and `accept` may fail |
| `Streaming` | Do verdict, events and last goal agree, under any pauses, resumes, cancels and bus failures? | 2 clients with 2 calls, path of 2 samples, 3 backends |
| `TrajectoryControl` | One motion, an effective STOP, back to idle? | 3 commands, 1 STOP, trajectories of 2 steps |
| `TrajectoryControl_stop` (violated) | Is the command loop free to read a STOP? | 1 command, 1 STOP, trajectories of 1 step |
| `Jog` | Deadman of arm and gripper, pauses for motions, resynchronisation, the brake of JOG_STOP, the timeout? | 2 sessions, 1 motion |
| `ServoBus` | Is what is read whole, what relative moves start from true, and one publisher left? | 2 servos that may fail, 2 publishers up to symmetry, 2 commands, 1 motion, streamed or closed-loop |
| `ServoBus_stop` (violated) | Does STOP hold the arm where it is? | the same with servos that always answer |

Why these bounds are enough to be interesting:

* Axes are independent but for the shared atomics. Two are needed where one
  request could swallow another (`RtCycle_reset`) or a copy could mix
  (`SetpointSlot`); one is enough for a latch, a clamp or the sequencer. Three
  positions and a clamp of one are the least with which a jump is possible.
* Three setpoints let a slow reader straddle two writes. Eight sends go round
  three slots more than twice and overflow them.
* Three clients are a controller, one that is turned away beside it, and one
  that takes the place afterwards.
* A path of two samples has a middle, an end and a time past the end. Two calls
  of two clients include pause against cancel, resume against pause and a double
  cancel.
* Three commands allow a motion, the one that is registered while the first
  cleans up, and a wait; two steps are the least with a step to go on to. `begun`
  is counted up to 2, where its property is already violated.
* Two sessions allow a thread that outlives its half second beside its
  successor; one motion can start, change the posture and end under either.
* Two servos are the least with which an answer can be partial; two publishers
  are the registered one and one that was missed, interchangeable, so that the run
  counts states up to their permutation; a motion may be under way at the start, and
  two commands are a motion and its STOP, the resume of a stream and a STOP, or the
  restart of telemetry and a STOP. Publishers and the closed-loop executor read any
  number of times.

`CHECK_DEADLOCK FALSE` is set where the system really stops: after SIGTERM
(`RtCycle_stop`, `RtSession`, where also nobody may be left to connect), when a
stream is over (`Streaming`), and when the bounded commands or messages are used
up and nothing is running (`TrajectoryControl`, `ShmRing`, `ServoBus` and the
violated runs of the first and the last).

### Fairness

* The cyclic thread runs on a timer: weak fairness (`CycleRuns`).
* The helper polls with a timeout and the ring is finite: weak fairness of its
  steps and strong fairness of getting to the end of a batch (`HelperRuns`).
* A drive that is again and again told and able to do something does it, where
  the property is about drives (`DrivesAnswer`, strong fairness of the frame in
  which it does, because frames get lost and a drive trips in between); it need not
  accept a fault reset. Nobody has to connect, send or signal.
* A write, send or call that has begun is finished; pacing thread, jog thread
  and executors go on. No client has to call anything and no STOP has to be sent.
* In `Jog` the jog threads go on, and nothing else has to: no handler has to end,
  nobody has to send JOG_STOP or let the switch go, and no motion has to end.
* In `RtSession` the accept loop and the helper go on where their system calls
  return, `accept` does not fail for ever while somebody is waiting (strong
  fairness), and a client that is answered reads its answer. `recv` on a client
  that does not greet need not return.

Each property of `RtCycle` is checked under the weakest of `Spec`, `CycleSpec`,
`ThreadsSpec` and `FairSpec` that its run needs.

### Exceptions named in properties

They are part of what was learnt, not conveniences:

* `PhantomSources`: an axis can be sent to the filler 0.0 before the first
  publication is complete, when it has no joint (nothing need be torn: the mask of
  `set_joint_positions` covers it all the same), or once a setpoint for a single
  axis has been sent. The RTCore plan (15.11) has the last leave the other axes
  where they were.
* `CancelIsPrompt`: a stream that is being resumed may get a segment and one goal
  out after a cancel, 0.2 s apart, where the docstring of `motion_handle.py` speaks
  of 50 ms.
* `DoneAtPathEnd`: a stream whose first or last write has failed ends as DONE,
  although the end of its path has not been sent (`failed`). A failed read on
  resuming is no such case: the stream goes on from the start of its path.
* `EndsUnlessOvertaken`: `pause()` clears its event after it has left the lock;
  if a cancel or resume gets in between, the pacing thread can wait for ever.
* `IdleAgain`: not after the clean-up of one trajectory has wiped out the
  registration of the next motion (`clobbered`).
* `SpeedCap` in `RtCycle_clamp`: on a bus that loses no frame. The clamp is
  applied to the last target held, whether or not its frame has arrived.
* `NoSnapBack`: but for a thread that never looked while the motion was running
  (`unnoticed`): a motion that begins and ends within one round, or while the
  thread is busy.
* `BrakeIsLast`: but for a thread that was not awaited to its end (`outlived`),
  or that was no longer registered when it was to be awaited (`disowned`): a
  predecessor, ending late, has removed it, or has cleared `is_jogging` under it,
  so that a new session was started beside it and registered in its place. The
  run's two sessions cannot show the latter; the theorem holds for any number.
* `GripperGated`: but for a rate that came in after the thread's look at the
  switch (`rushed`), or while the handler that lets it go is between its stores
  (`Releasing`).
* `ClientIsAnswered`, `StopEndsDaemon`: not while the loop is in `recv` for a
  client that neither greets nor goes (`HeldUp`); no signal ends that call.
* `RejectedBesideController`: a controller that reconnects at once may be turned
  away, because hang-ups are looked at before `poll` only (`overlooked`).
* `WholeUnlessDisturbed`: another transaction, a fault, a short timeout or a
  moving arm got into the read (`disturbed`).
* `ReferenceIsTrue`: what a disturbed read has stored, and the end of the path
  that the open-loop executor stores although its stream was stopped
  ("stopped").
* `LonePublisher`: a publisher that was busy or asleep for the whole half second
  it was given (`missed`).

### Violations and observations

`ServoBus_stop` states what a comment of `command_api.py` says of STOP, "send an
immediate brake command to the physical servos by commanding them to their
current position", and finds it violated without any fault of a servo: the
serial lock is released between a request and its answers, a telemetry request
in between empties the input buffer, the joint without an answer counts as 0.0,
and STOP sends it there.

`TrajectoryControl_stop` states what `docs/README.md` says of the command loop,
that it must never be blocked by a long-running move, lest a STOP is not read
(`StopNeverWaits`). The handler of SET_ORIENTATION joins the thread it has
started, and that of RUN_TRAJECTORY waits for the first move of a looping
trajectory; both run in the command loop. The wait of WAIT_FOR_IDLE, documented
as such, is left out of the property.

Both are findings in `PROJECT.json` with the lines involved.

Seen while modelling, without a run of their own (they are the exceptions
above, or hazards with a note):

* a signal between the two looks at `g_stop` in one cycle (`main.cpp:1306`)
  ends the loop without a grace window; an ARM that is handled inside the
  window arms again;
* Python stores the fields of a setpoint before its number, so both looks of
  the helper (`main.cpp:1850`) can find the old number around half-new fields;
* after a cancel the goal the pacing thread was on may follow the brake;
* STOP cancels the stream before it raises the flag, so the executor may begin
  the next step, which the flag then ends (`OneStepAfterStop`,
  `StopTakesEffect`);
* armed, mask and targets outlive the session that set them, and nothing
  watches for a controller that has gone, or for the age of a setpoint, although
  the RTCore plan (4.6, 15.4.6, 15.4.7) has both end in a disarm;
* a rejected motion command takes back a STOP that has not had its effect
  (`TakeMotion`), which `StopTakesEffect` counts as taken back;
* the timeout of the port is saved, overridden and restored outside the lock. The
  read of a stream that is being resumed and the brake of a STOP can overlap, and
  the short timeout then stays for good: `ServoBus` has that behaviour, and no
  property says that the timeout comes back;
* a STOP that waits behind WAIT_FOR_IDLE on a looping trajectory is never read.

## 4. The proofs

Every theorem is about all values of the constants that meet the module's
`Assumptions` (natural numbers, non-empty finite sets of servos, names that differ, an
encoder range without gaps that contains 0). The prover checks each to the last
leaf. Each module proves an inductive invariant stronger than the property;
what it adds, and why it is needed, is said above its definition.

* `RtCycleProofs`: `TypeCorrect`, `LatchIsClear`, `ClampHolds`, `NoStepBack`.
  `TypeOK` needs that an open grace window implies a signal, which is never taken
  back. `LatchInv` relates drive, last image, last controlword and latch of each
  axis, lost frames and trips included: a drive is enabled one or more frames
  after the image that led to the order, and the latch was computed from an
  older image still. `ClampInv` says that, without frame loss, the bus carries
  what the thread holds; `ClampHolds` therefore assumes that no frame is lost, the
  others assume nothing about the bus. `NoStepBack` is about the same lag seen from
  the sequencer: a controlword chosen from an old statusword never takes a drive a
  step down. `ClimbInv` adds that while the image still shows a drive below
  ReadyToSwitchOn, the drive has not got past it and is told no more than to go
  there. `DecodeRoundTrip` and `StepBound` are facts about the code's pure
  functions.
* `SetpointSlotProofs`: `TypeCorrect`, `PhantomsExplained`, `NewestWhole`,
  `NewestKept`. `SourceInv`: while Python has sent setpoints for all joints only,
  every copy a sequence number other than 0 vouches for has, for each axis with a joint, the
  position of some setpoint; a copy being made has them for the axes below the
  one it is at. The copies may be torn all the same. `NewestInv` says which copies
  cannot be: the fields of a setpoint are stored before its number and the number
  is read first, so what is copied under the newest number is the newest setpoint,
  at each of the three places it is copied to. `AxesInv` follows one
  axis along slot, helper's copy, `latest_targets`, cyclic thread's copy and
  tracked target: torn or not, none of them has the newest position, if there is one for the axis, before its
  source does, or loses it before the next setpoint has begun.
* `ShmRingProofs`: `TypeCorrect`, `RingIsChannel`, `WakeupsKept`. `IndexInv`: the
  room found at the look at the header can only grow, so that the slot being
  written is the producer's own; `SlotsInv`: the slots between the indices are
  whole. `OwnSlot` is the modular arithmetic (indices closer than the capacity
  share no slot); the refinement then maps the window between the indices to the
  channel, a publication appending to it and the next read taking its head.
  `WakeInv`: what a batch leaves behind, because it came after the look at the
  indices, has been signalled after the eventfd was emptied.
* `RtSessionProofs`: `TypeCorrect`, `SlotImplemented` (the refinement of
  `ControllerSlot`), `OwnCommands`, `OnlyBesides`. `SessionInv` says what the
  loop knows of its two descriptors at each of its places, why
  `reset_connection` was called, and that the helper is that of the session and
  has ended when the session is closed. `EndInv`: once the loop has been left, by
  a signal or a failed `poll`, it is not entered again, so that a controller that is
  let go then is let go at the end.
* `StreamingProofs`: `TypeCorrect`, `CancelHolds`, `DoneHolds`, `ResumesKept`.
  `PromptInv` tells apart what has been written after a cancel by how far the
  pacing thread had got since it last looked at the state; `DoneInv` says with
  what each thread gets to `_mark_done`; `EventInv`: as long as no pause is overtaken,
  a cleared event means that the stream is paused, that a client is about to set
  the event, or that the pacing thread is past its last wait.
* `TrajectoryControlProofs`: `TypeCorrect`, `MotionsExclude`, `StopHolds`,
  `StopIsKept`, `MarksAreOwned`. `MotionInv` says who owns `is_running` at each
  place of an executor and of a handler, with the first move of a looping
  trajectory, which is not registered, as the special case; `StopInv` adds that
  while a STOP stands the motion played has the flag up and an executor about to
  begin a step has begun none since. `OwnerInv`, over `FreshInv` (an executor
  that has not been started has not run), says that a trajectory always clears
  `is_running`, and a move as long as it is the registered thread, which only the
  late clean-up of a trajectory can end.
* `JogProofs`: `TypeCorrect`, `DeadmanHolds`, `MotionPauses`, `GripperIsGated`,
  `BrakeHolds`, `PostureIsFollowed`. `RoundInv` ties the count of late goals to
  the place of a thread in its round. `Registered`: a thread
  that jogs and is not the registered one has outlived a wait or been disowned,
  whatever sessions overlap. `SnapInv`: a thread that has looked at the motion
  under way waits for its end, and outside a motion starts from the posture of
  the arm or looks it up before it writes.
* `ServoBusProofs`: `TypeCorrect`, `PublishersKnown`, `ReadsAreWhole`,
  `ReferenceFollows`. `PublisherInv` counts every publisher but
  the registered one as missed, or about to be counted. `OverrideInv`: publishers leave the
  timeout alone, so that whoever restores one has saved it, on which type
  correctness rests. `WholeInv`: while a reader waits that nothing has got into, the bus holds
  the answers of all servos to its own request and nothing else, and what it holds
  afterwards is where the arm is. `RefInv`: the posture relative moves start from is
  wrong without a stated reason only while a stream or the closed loop moves the arm
  and until the executor has stored where that ended.

Six of these theorems are about liveness properties of the runs, as far as a
proof reaches: a liveness property usually holds because nothing can be lost for
good, which is safety, and because everybody goes on, which is fairness. The first
half is proved for every value of the constants, the whole stays with TLC:

| Theorem | States | What it is to the liveness property |
|---|---|---|
| `WakeupsKept` | `NoLostWakeup` | `DeliversAll`: no consumer sleeps on a message |
| `NewestWhole`, `NewestKept` | `NewestIsWhole`, `NewestIsKept` | `SettlesOnLast`: what carries the last number is the last setpoint, and an axis that has got it keeps it |
| `StopIsKept` | `StopStands` | `StopTakesEffect`: nobody puts the flag down before the motion has seen it |
| `MarksAreOwned` | `MarkIsOwned` | `IdleAgain`: somebody will clear the mark |
| `ResumesKept` | `NoLostResume` | `EndsUnlessOvertaken`: no `set` is lost on a sleeping thread |

These formulas and `NeverSteppedBack` are in no configuration:
they can be given to TLC as further INVARIANTs or PROPERTYs of the run of their
module (`RtCycle_stop` for `NeverSteppedBack`) and hold there.

Only model-checked: the liveness properties themselves (fairness and ENABLED are
beyond the prover). Every safety property that a passing run checks is also
stated by a theorem; `StopHoldsPosition` and `StopNeverWaits`, which do not hold,
are left.

## 5. What could come next

* Alert debouncing of `telemetry/alerts.py`, and the recorder processes of
  `run_controller.py`, with the calibration mode that bypasses the handlers.
* Conversions between radians, counts and registers with their saturation,
  checksums and sign bits, as pure operators against a reference.
* `TrajectoryControl` over the full handle of `Streaming` in place of its
  abstract stream; `RtSession` over `ShmRing` and `RtCycle`.

## 6. Not modelled, and why

Kinematics, planning and vision compute over reals, and so do the closed-loop
executor's feedback, interpolation and the jog integration; the stop checks and
clean-up around them are modelled. User interfaces and the API are clients: what
they send is any sequence of commands, which is what the models take. Start-up,
registry and robot tables are set once. Waypoint recording runs in the command
thread alone. Logging, metrics, diagnostics and charts have no effect on the
rest. Commissioning, gains and PID tuning are register accesses one at a time.

The map therefore covers a small share of all the lines of the repository. Most
lines are in the parts named above, in scripts that nothing uses any more
(`archive [unused scripts]`), and in one backend that repeats another
(`hls3950` beside `sts3215`, the same protocol but for names): the definitions
of `ServoBus` name the lines of one of them and stand for both.
