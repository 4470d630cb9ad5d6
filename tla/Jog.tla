-------------------------------- MODULE Jog --------------------------------
(***************************************************************************)
(* Jogging: a thread that turns velocities into goals 25 times a second,   *)
(* until the session ends, and the handlers of command_api.py that start   *)
(* and end a session, hold or let go of the deadman switch and set the     *)
(* velocities.  All of them share trajectory_state, without a lock.        *)
(*                                                                         *)
(* Each access to the dictionary another thread can get between is a step, *)
(* each store of a handler one too; what a handler looks at before its     *)
(* first store belongs to that.  Velocities are zero or not.  The posture  *)
(* of the arm is counted in motions: what jogging adds to it the jog       *)
(* thread knows, what a motion adds it has to look up.  Session n is that  *)
(* of thread n.  Motions are those of module TrajectoryControl: they start *)
(* and they end.  STOP does not concern jogging, and has no action here.   *)
(***************************************************************************)
EXTENDS Naturals

CONSTANTS
  MaxSessions, (* bound: JOG_START commands that are accepted              *)
  MaxMotions   (* bound: motions beside or between the sessions            *)

ASSUME Assumptions == MaxSessions \in Nat \ {0} /\ MaxMotions \in Nat

VARIABLES
  is_jogging, is_running, jog_thread,      (* trajectory_state; 0 is None  *)
  jog_velocities, jog_gripper_velocity_deg_s, jog_deadman,
  fresh,      (* last_jog_command_time is less than the timeout ago        *)
  pc,         (* the jog threads: where they are,                          *)
  q_current,  (* the posture the next goal starts from,                    *)
  paused,     (* was_paused_for_motion,                                    *)
  moving,     (* the velocities read are not zero                          *)
  session,    (* the last one that was started                             *)
  cPc,        (* the command thread                                        *)
  posture,    (* motions that have changed the arm's posture               *)
  late,       (* history: goals that move the arm, written by each thread  *)
              (* since the deadman was let go (up to 2)                    *)
  into,       (* history: goals written by each thread since the motion    *)
              (* under way began (up to 2)                                 *)
  rushed,     (* history: threads past their look at the deadman, and      *)
              (* before the gripper's turn, when a rate for it came in     *)
              (* with the switch let go                                    *)
  unnoticed,  (* history: threads that never looked while the last motion  *)
              (* that changed the posture was running                      *)
  outlived,   (* history: threads that were not awaited to their end       *)
  disowned    (* history: threads whose registration another one removed,  *)
              (* or a new session replaced                                 *)

rates   == <<jog_velocities, jog_gripper_velocity_deg_s>>
shared  == <<is_jogging, is_running, jog_thread, rates, jog_deadman, fresh>>
jog     == <<pc, q_current, paused, moving>>
arm     == <<posture, unnoticed>>
goals   == <<late, into, rushed>>
losses  == <<outlived, disowned>>
vars    == <<shared, jog, session, cPc, arm, goals, losses>>

Thread == 1..MaxSessions

Init ==
  /\ is_jogging = FALSE /\ is_running = FALSE /\ jog_thread = 0
  /\ jog_velocities = FALSE /\ jog_gripper_velocity_deg_s = FALSE
  /\ jog_deadman = FALSE /\ fresh = FALSE
  /\ pc = [t \in Thread |-> "unborn"] /\ q_current = [t \in Thread |-> 0]
  /\ paused = [t \in Thread |-> FALSE] /\ moving = [t \in Thread |-> FALSE]
  /\ session = 0 /\ cPc = "idle" /\ posture = 0
  /\ late = [t \in Thread |-> 0] /\ into = [t \in Thread |-> 0]
  /\ rushed = {} /\ unnoticed = {} /\ outlived = {} /\ disowned = {}

-----------------------------------------------------------------------------
(* The jog thread.                                                         *)

At(t, label) == pc[t] = label
Jump(t, label) == pc' = [pc EXCEPT ![t] = label]
Goto(t, label) == Jump(t, label) /\ UNCHANGED <<q_current, paused, moving>>

\* The thread may write another goal.
Jogs(t) == pc[t] \notin {"unborn", "end", "owner?", "disown", "ended"}

\* A step that changes nothing but the thread itself.
Looks == UNCHANGED <<shared, session, cPc, arm, goals, losses>>

Begin(t) ==
  /\ At(t, "begin")
  /\ q_current' = [q_current EXCEPT ![t] = posture]
  /\ Jump(t, "loop") /\ UNCHANGED <<paused, moving>>
  /\ Looks

\* Mutant: the flag of a motion is not looked at.
CheckFlagsOfJog(t) ==
  /\ At(t, "loop")
  /\ Goto(t, IF is_jogging THEN "timeout?" ELSE "end")
  /\ Looks

\* The two flags at the head of the loop.  A motion pauses the session; after
\* it, the posture is read again.
CheckFlags(t) ==
  /\ At(t, "loop")
  /\ \/ /\ ~is_jogging
        /\ Goto(t, "end")
        /\ UNCHANGED unnoticed
     \/ /\ is_jogging /\ is_running
        /\ paused' = [paused EXCEPT ![t] = TRUE]
        /\ UNCHANGED <<pc, q_current, moving>>
        /\ unnoticed' = unnoticed \ {t}
     \/ /\ is_jogging /\ ~is_running
        /\ Goto(t, IF paused[t] THEN "resync" ELSE "timeout?")
        /\ UNCHANGED unnoticed
  /\ UNCHANGED <<shared, session, cPc, posture, goals, losses>>

\* Mutant: the session goes on from where it was paused.
ResyncNothing(t) ==
  /\ At(t, "resync")
  /\ paused' = [paused EXCEPT ![t] = FALSE]
  /\ Jump(t, "loop") /\ UNCHANGED <<q_current, moving>>
  /\ Looks

Resync(t) ==
  /\ At(t, "resync")
  /\ q_current' = [q_current EXCEPT ![t] = posture]
  /\ paused' = [paused EXCEPT ![t] = FALSE]
  /\ Jump(t, "loop") /\ UNCHANGED moving
  /\ Looks

CheckTimeout(t) ==
  /\ At(t, "timeout?")
  /\ Goto(t, IF fresh THEN "fk" ELSE "zero")
  /\ Looks

\* Mutant: the timeout is only noted.
ZeroNothing(t) ==
  /\ At(t, "zero")
  /\ Goto(t, "fk")
  /\ Looks

\* The timeout zeroes the velocities of the arm, not that of the gripper.
ZeroVelocities(t) ==
  /\ At(t, "zero")
  /\ jog_velocities' = FALSE
  /\ Goto(t, "fk")
  /\ UNCHANGED <<is_jogging, is_running, jog_thread, jog_gripper_velocity_deg_s, jog_deadman,
                 fresh, session, cPc, arm, goals, losses>>

\* Forward kinematics may fail, which ends the loop.
ReadVelocities(t) ==
  /\ At(t, "fk")
  /\ \/ /\ moving' = [moving EXCEPT ![t] = jog_velocities]
        /\ Jump(t, "deadman?") /\ UNCHANGED <<q_current, paused>>
     \/ Goto(t, "end")
  /\ Looks

\* Mutant: the deadman switch gates the gripper only.
CheckDeadmanOfGripper(t) ==
  /\ At(t, "deadman?")
  /\ Goto(t, IF jog_deadman THEN "write" ELSE "zero gripper")
  /\ Looks

CheckDeadman(t) ==
  /\ At(t, "deadman?")
  /\ moving' = [moving EXCEPT ![t] = @ /\ jog_deadman]
  /\ Jump(t, IF jog_deadman THEN "write" ELSE "zero gripper")
  /\ UNCHANGED <<q_current, paused>>
  /\ Looks

\* Mutant: the rate of the gripper is not touched.
ZeroGripperNot(t) ==
  /\ At(t, "zero gripper")
  /\ Goto(t, "write")
  /\ Looks

ZeroGripper(t) ==
  /\ At(t, "zero gripper")
  /\ jog_gripper_velocity_deg_s' = FALSE
  /\ Goto(t, "write")
  /\ UNCHANGED <<is_jogging, is_running, jog_thread, jog_velocities, jog_deadman, fresh,
                 session, cPc, arm, goals, losses>>

UpToTwo(k) == IF k < 2 THEN k + 1 ELSE k

\* A goal is written at rest, too; not when inverse kinematics fails.
Write(t) ==
  /\ At(t, "write")
  /\ moving' = [moving EXCEPT ![t] = FALSE]
  /\ Jump(t, "gripper?") /\ UNCHANGED <<q_current, paused>>
  /\ \/ /\ late' = IF moving[t] /\ ~jog_deadman
                     THEN [late EXCEPT ![t] = UpToTwo(@)] ELSE late
        /\ into' = IF is_running THEN [into EXCEPT ![t] = UpToTwo(@)] ELSE into
     \/ UNCHANGED <<late, into>>
  /\ UNCHANGED <<shared, session, cPc, arm, rushed, losses>>

\* After its sleep the thread reads the velocity of the gripper and writes a
\* goal for it, unless it is zero; a failure is caught.
MoveGripper(t) ==
  /\ At(t, "gripper?")
  /\ Goto(t, "loop")
  /\ rushed' = rushed \ {t}
  /\ UNCHANGED <<shared, session, cPc, arm, late, into, losses>>

\* Whoever leaves the loop ends the session, whosesoever it is.  The thread writes
\* no more goals: what it knew, and what was noted of it, is forgotten.
EndSession(t) ==
  /\ At(t, "end")
  /\ is_jogging' = FALSE
  /\ Jump(t, "owner?")
  /\ q_current' = [q_current EXCEPT ![t] = 0]
  /\ paused' = [paused EXCEPT ![t] = FALSE] /\ moving' = [moving EXCEPT ![t] = FALSE]
  /\ late' = [late EXCEPT ![t] = 0] /\ into' = [into EXCEPT ![t] = 0]
  /\ rushed' = rushed \ {t} /\ unnoticed' = unnoticed \ {t}
  /\ outlived' = outlived \ {t} /\ disowned' = disowned \ {t}
  /\ UNCHANGED <<is_running, jog_thread, rates, jog_deadman, fresh, session, cPc, posture>>

CheckOwner(t) ==
  /\ At(t, "owner?")
  /\ Goto(t, IF jog_thread = t THEN "disown" ELSE "ended")
  /\ Looks

\* Threads whose registration is lost, when they may still write a goal.
Disowned(u) == disowned \cup {t \in Thread : t = u /\ Jogs(t)}

Disown(t) ==
  /\ At(t, "disown")
  /\ jog_thread' = 0
  /\ disowned' = Disowned(jog_thread)
  /\ Goto(t, "ended")
  /\ UNCHANGED <<is_jogging, is_running, rates, jog_deadman, fresh,
                 session, cPc, arm, goals, outlived>>

JogLoop(t) ==
  \/ Begin(t) \/ CheckFlags(t) \/ Resync(t)
  \/ CheckTimeout(t) \/ ZeroVelocities(t) \/ ReadVelocities(t)
  \/ CheckDeadman(t) \/ ZeroGripper(t) \/ Write(t)
  \/ MoveGripper(t)
  \/ EndSession(t) \/ CheckOwner(t) \/ Disown(t)

-----------------------------------------------------------------------------
(* The command thread.                                                     *)

CommandAt(from, to) == cPc = from /\ cPc' = to

\* The bound: there is room for one more motion.
MayMove == posture + (IF is_running THEN 1 ELSE 0) < MaxMotions

\* JOG_START is refused while something moves or a session is on.  It does not
\* touch the deadman switch.
JogStart ==
  /\ CommandAt("idle", "start")
  /\ ~is_running /\ ~is_jogging /\ session < MaxSessions
  /\ is_jogging' = TRUE
  /\ UNCHANGED <<is_running, jog_thread, rates, jog_deadman, fresh,
                 jog, session, arm, goals, losses>>

JogStartThread ==
  /\ CommandAt("start thread", "idle")
  /\ session' = session + 1
  /\ jog_thread' = session'
  /\ disowned' = Disowned(jog_thread)
  /\ Goto(session', "begin")
  /\ UNCHANGED <<is_jogging, is_running, rates, jog_deadman, fresh, arm, goals, outlived>>

\* JOG_STOP.  A RUN_TRAJECTORY that finds a session on calls the same handler,
\* and goes on as a motion when that has ended the session.
JogStop ==
  /\ CommandAt("idle", "stop")
  /\ is_jogging' = FALSE
  /\ UNCHANGED <<is_running, jog_thread, rates, jog_deadman, fresh,
                 jog, session, arm, goals, losses>>

\* Mutant: the thread is not awaited.
JogStopJoinNobody ==
  /\ CommandAt("join", "braked")
  /\ jog_thread' = 0
  /\ UNCHANGED <<is_jogging, is_running, rates, jog_deadman, fresh,
                 jog, session, arm, goals, losses>>

\* The registered thread is awaited for half a second: one that hangs on the
\* bus or in inverse kinematics for longer outlives that.  The brake follows.
JogStopJoin ==
  /\ CommandAt("join", "braked")
  /\ outlived' = outlived \cup {t \in Thread : t = jog_thread /\ Jogs(t)}
  /\ jog_thread' = 0
  /\ UNCHANGED <<is_jogging, is_running, rates, jog_deadman, fresh,
                 jog, session, arm, goals, disowned>>

\* The next command is read.
NextCommand ==
  /\ CommandAt("braked", "idle")
  /\ UNCHANGED <<shared, jog, session, arm, goals, losses>>

\* Velocities are taken in a session only; the time is noted after they are stored.
SetJogVelocity(v) ==
  /\ CommandAt("idle", "stamp")
  /\ is_jogging
  /\ jog_velocities' = v
  /\ UNCHANGED <<is_jogging, is_running, jog_thread, jog_gripper_velocity_deg_s, jog_deadman,
                 fresh, jog, session, arm, goals, losses>>

SetGripperJogVelocity(v) ==
  /\ CommandAt("idle", "stamp")
  /\ is_jogging
  /\ jog_gripper_velocity_deg_s' = v
  /\ rushed' = IF jog_deadman THEN rushed
               ELSE rushed \cup {t \in Thread : pc[t] \in {"write", "gripper?"}}
  /\ UNCHANGED <<is_jogging, is_running, jog_thread, jog_velocities, jog_deadman, fresh,
                 jog, session, arm, late, into, losses>>

\* Letting go zeroes every velocity, in a session or not.
SetJogDeadman(held) ==
  /\ CommandAt("idle", "deadman")
  /\ jog_deadman' = held
  /\ late' = IF held = jog_deadman THEN late ELSE [t \in Thread |-> 0]
  /\ UNCHANGED <<is_jogging, is_running, jog_thread, rates, fresh,
                 jog, session, arm, into, rushed, losses>>

\* last_jog_command_time, by the three handlers that set it.
StampTime ==
  /\ \/ CommandAt("start", "start zero")
     \/ CommandAt("stamp", "idle")
     \/ CommandAt("deadman", IF jog_deadman THEN "idle" ELSE "release zero")
  /\ fresh' = TRUE
  /\ UNCHANGED <<is_jogging, is_running, jog_thread, rates, jog_deadman,
                 jog, session, arm, goals, losses>>

\* A session begins, and the switch is let go, with every velocity zero.
ClearVelocities ==
  /\ CommandAt("start zero", "start gripper") \/ CommandAt("release zero", "release gripper")
  /\ jog_velocities' = FALSE
  /\ UNCHANGED <<is_jogging, is_running, jog_thread, jog_gripper_velocity_deg_s, jog_deadman,
                 fresh, jog, session, arm, goals, losses>>

ClearGripperVelocity ==
  /\ \/ CommandAt("start gripper", "start thread")
     \/ CommandAt("release gripper", "idle")
     \/ CommandAt("stop", "join")
  /\ jog_gripper_velocity_deg_s' = FALSE
  /\ UNCHANGED <<is_jogging, is_running, jog_thread, jog_velocities, jog_deadman, fresh,
                 jog, session, arm, goals, losses>>

\* MOVE_LINE does not ask about jogging.
StartMotion ==
  /\ CommandAt("idle", "idle")
  /\ ~is_running /\ MayMove
  /\ is_running' = TRUE
  /\ into' = [t \in Thread |-> 0]
  /\ unnoticed' = {t \in Thread : Jogs(t)}
  /\ UNCHANGED <<is_jogging, jog_thread, rates, jog_deadman, fresh,
                 jog, session, posture, late, rushed, losses>>

\* TRANSLATE, ROTATE, MOVE and raw joint angles move the arm with no flag set.
MoveDirectly ==
  /\ CommandAt("idle", "idle")
  /\ MayMove
  /\ posture' = posture + 1
  /\ unnoticed' = {t \in Thread : Jogs(t)}
  /\ UNCHANGED <<shared, jog, session, goals, losses>>

Handle == \/ StampTime \/ ClearVelocities \/ ClearGripperVelocity
          \/ JogStartThread \/ JogStopJoin \/ NextCommand

TakeCommand == \/ JogStart \/ JogStop \/ StartMotion \/ MoveDirectly
               \/ \E v \in BOOLEAN : \/ SetJogVelocity(v) \/ SetGripperJogVelocity(v)
                                     \/ SetJogDeadman(v)

-----------------------------------------------------------------------------
\* Mutant: an executor cleans up again after its end.
EndMotionAgain ==
  /\ is_running' = FALSE
  /\ posture' = posture + 1
  /\ UNCHANGED <<is_jogging, jog_thread, rates, jog_deadman, fresh,
                 jog, session, cPc, unnoticed, goals, losses>>

\* The executor's last store, with the arm elsewhere than it was.
EndMotion ==
  /\ is_running
  /\ is_running' = FALSE
  /\ posture' = posture + 1
  /\ into' = [t \in Thread |-> 0]
  /\ UNCHANGED <<is_jogging, jog_thread, rates, jog_deadman, fresh,
                 jog, session, cPc, unnoticed, late, rushed, losses>>

\* Half a second without a jog command.
Lapse ==
  /\ fresh
  /\ fresh' = FALSE
  /\ UNCHANGED <<is_jogging, is_running, jog_thread, rates, jog_deadman,
                 jog, session, cPc, arm, goals, losses>>

Next == \/ \E t \in Thread : JogLoop(t)
        \/ TakeCommand \/ Handle \/ EndMotion \/ Lapse

Spec == Init /\ [][Next]_vars

\* The jog threads run.  Nobody has to send a command, no handler has to end and
\* no motion either.
FairSpec == Spec /\ \A t \in Thread : WF_vars(JogLoop(t))

-----------------------------------------------------------------------------
(* Properties.                                                             *)

\* Every entry of trajectory_state that jogging uses, the threads and the
\* histories have their type.
TypeOK ==
  /\ is_jogging \in BOOLEAN /\ is_running \in BOOLEAN
  /\ jog_thread \in {0} \cup Thread
  /\ jog_velocities \in BOOLEAN /\ jog_gripper_velocity_deg_s \in BOOLEAN
  /\ jog_deadman \in BOOLEAN /\ fresh \in BOOLEAN
  /\ pc \in [Thread -> {"unborn", "begin", "loop", "resync", "timeout?", "zero", "fk",
                         "deadman?", "zero gripper", "write", "gripper?", "end", "owner?",
                         "disown", "ended"}]
  /\ q_current \in [Thread -> 0..MaxMotions]
  /\ paused \in [Thread -> BOOLEAN] /\ moving \in [Thread -> BOOLEAN]
  /\ session \in 0..MaxSessions
  /\ cPc \in {"idle", "start", "start zero", "start gripper", "start thread",
             "stop", "join", "braked", "stamp",
             "deadman", "release zero", "release gripper"}
  /\ posture \in 0..MaxMotions
  /\ late \in [Thread -> 0..2] /\ into \in [Thread -> 0..2]
  /\ rushed \in SUBSET Thread /\ unnoticed \in SUBSET Thread
  /\ outlived \in SUBSET Thread /\ disowned \in SUBSET Thread

\* The handler has let go of the switch, and not yet of the velocities.
Releasing == cPc \in {"deadman", "release zero", "release gripper"}

\* "Enables or disables the jog deadman gate": a thread writes at most the one
\* goal that moves the arm for which it had looked at the switch before it was
\* let go, although velocities keep arriving.
OneGoalAfterRelease == \A t \in Thread : late[t] <= 1

\* "If a non-jog motion starts, pause jogging to avoid fighting other
\* controllers": at most one goal gets into a motion.
OneGoalIntoMotion == \A t \in Thread : into[t] <= 1

\* "Resync q_current from the physical robot so we do not snap back to stale
\* internal state": a goal that starts from an old posture is written only by a
\* thread that has not looked once while the last motion was running.
NoSnapBack ==
  [][\A t \in Thread :
       pc[t] = "write" /\ pc'[t] # "write" /\ ~is_running
         => q_current[t] = posture \/ t \in unnoticed]_vars

\* "Sends a brake command to safely stop motion": after JOG_STOP no thread
\* writes another goal, but for one that outlived its half second, or was no longer
\* registered: a predecessor, ending late, had removed it, or ended its session and
\* let a third one start beside it.
BrakeIsLast ==
  cPc = "braked" /\ ~is_jogging => \A t \in Thread : Jogs(t) => t \in outlived \cup disowned

\* A client that has fallen silent with the switch held lets the arm rest.
SilenceStops ==
  <>[]~fresh => \/ <>[](\A t \in Thread : ~moving[t])
                \/ []<>is_running

\* "When disabled, all jog velocities (including gripper) are forced to zero":
\* the gripper is not moved with the switch let go, unless the rate came in
\* after that and since the thread last looked, or the handler that lets go has
\* not got to the gripper's rate yet.
GripperGated ==
  \A t \in Thread :
    At(t, "gripper?") /\ jog_gripper_velocity_deg_s /\ ~jog_deadman
      => t \in rushed \/ Releasing
=============================================================================
