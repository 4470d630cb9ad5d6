------------------------------ MODULE RtCycle ------------------------------
(***************************************************************************)
(* The cyclic thread of the RTCore daemon (gradient_rt_motion/main.cpp),   *)
(* the IPC helper thread that feeds it, the connection that starts and     *)
(* stops the helper, and the drives at the other end of the bus.           *)
(*                                                                         *)
(* The threads share atomics only: armed, axis_enable_mask,                *)
(* fault_reset_request, latest_targets and g_stop.  Every load and store   *)
(* of one of them that another thread can get between is a step of its     *)
(* own.  Abstractions, each an over-approximation:                         *)
(*                                                                         *)
(*   - the command ring is a batch of arbitrary commands (ShmRing models   *)
(*     the ring);                                                          *)
(*   - a setpoint is published axis by axis, in any order, with any value, *)
(*     so the cyclic thread can see every mixture of two setpoints         *)
(*     (SetpointSlot models which mixtures can really be seen);            *)
(*   - a bit of the setpoint's axis mask that is 0 is the target NoTarget; *)
(*   - mode_of_operation, which is written and never read, is left out:    *)
(*     the mode a drive is sent depends on want_enable alone.              *)
(***************************************************************************)
EXTENDS Ds402, Integers

CONSTANTS
  Axis,         (* the axes of the bus, num_axes of them                   *)
  Counts,       (* encoder positions                                       *)
  NoTarget,     (* no setpoint for an axis                                 *)
  MaxStep,      (* max_step_counts_per_cycle; 0 disables the clamp         *)
  PulseCycles,  (* kFaultResetPulseCycles                                  *)
  GraceCycles,  (* kShutdownGraceNs in cycles                              *)
  Commands,     (* bound: the kinds of command and setpoint the controller *)
                (* sends                                                   *)
  Events        (* bound: the mishaps the environment has in store         *)

ASSUME Assumptions ==
  /\ Counts \subseteq Int /\ 0 \in Counts
  /\ \A a, b \in Counts : a..b \subseteq Counts
  /\ NoTarget \notin Counts
  /\ MaxStep \in Nat
  /\ PulseCycles \in Nat \ {0}
  /\ GraceCycles \in Nat
  /\ Commands \subseteq {"ARM", "AXIS_ENABLE", "AXIS_DISABLE", "FAULT_RESET", "OTHER",
                         "SETPOINT"}
  /\ Events \subseteq {"signal", "frame loss", "trip"}

VARIABLES
  (* shared by the threads *)
  armed, axis_enable_mask, fault_reset_request, latest_targets, g_stop,
  (* the cyclic thread *)
  rtPc, shutdown_active, graceLeft, sp_targets, is_armed, en_mask,
  hold_target, have_hold, fault_reset_left,
  (* the helper thread and the connection it serves *)
  hPc, hLocal, helper_running,
  (* the bus: what each drive last received, the input image of the master *)
  drive, bus, image

shared  == <<armed, axis_enable_mask, fault_reset_request, latest_targets, g_stop>>
rtVars  == <<rtPc, shutdown_active, graceLeft, sp_targets, is_armed, en_mask,
             hold_target, have_hold, fault_reset_left>>
hVars   == <<hPc, hLocal, helper_running>>
busVars == <<drive, bus, image>>
vars    == <<shared, rtVars, hVars, busVars>>

Target    == Counts \cup {NoTarget}
NoTargets == [i \in Axis |-> NoTarget]

Init ==
  /\ armed = FALSE
  /\ axis_enable_mask = {}
  /\ fault_reset_request = {}
  /\ latest_targets = NoTargets
  /\ g_stop = FALSE
  /\ rtPc = "wake"
  /\ shutdown_active = FALSE
  /\ graceLeft = 0
  /\ sp_targets = NoTargets
  /\ is_armed = FALSE
  /\ en_mask = {}
  /\ hold_target = [i \in Axis |-> 0]
  /\ have_hold = [i \in Axis |-> FALSE]
  /\ fault_reset_left = [i \in Axis |-> 0]
  /\ hPc = "exited"
  /\ hLocal = {}
  /\ helper_running = FALSE
  /\ drive \in [Axis -> [st : {"NotReady"}, pos : Counts]]
  /\ bus = [i \in Axis |-> [cw |-> "CW_DISABLE_VOLTAGE", target |-> 0]]
  \* the process image is zero until the first frame has come back
  /\ image = [i \in Axis |-> [st |-> "NotReady", pos |-> 0]]

-----------------------------------------------------------------------------
(* The cyclic thread: one pass of its loop is the steps from "wake" to     *)
(* "check".                                                                *)

\* The first cycle that sees g_stop revokes every permission, in two stores.
RtBeginShutdown ==
  /\ rtPc = "wake"
  /\ g_stop /\ ~shutdown_active
  /\ rtPc' = "clear"
  /\ shutdown_active' = TRUE
  /\ graceLeft' = GraceCycles
  /\ armed' = FALSE
  /\ UNCHANGED <<axis_enable_mask, fault_reset_request, latest_targets, g_stop,
                 sp_targets, is_armed, en_mask, hold_target, have_hold,
                 fault_reset_left, hVars, busVars>>

RtClearMask ==
  /\ rtPc = "clear"
  /\ rtPc' = "targets"
  /\ axis_enable_mask' = {}
  /\ UNCHANGED <<armed, fault_reset_request, latest_targets, g_stop,
                 shutdown_active, graceLeft, sp_targets, is_armed, en_mask,
                 hold_target, have_hold, fault_reset_left, hVars, busVars>>

\* The double read of latest_targets: a sequence number that moved while the
\* fields were copied means "hold", which needs a publication under way.
RtReadTargets ==
  /\ \/ rtPc = "wake" /\ (~g_stop \/ shutdown_active)
     \/ rtPc = "targets"
  /\ rtPc' = "armed"
  /\ \/ sp_targets' = latest_targets
     \/ hPc = "publish" /\ sp_targets' = NoTargets
  /\ UNCHANGED <<shared, shutdown_active, graceLeft, is_armed, en_mask,
                 hold_target, have_hold, fault_reset_left, hVars, busVars>>

RtLoadArmed ==
  /\ rtPc = "armed"
  /\ rtPc' = "mask"
  /\ is_armed' = armed
  /\ UNCHANGED <<shared, shutdown_active, graceLeft, sp_targets, en_mask,
                 hold_target, have_hold, fault_reset_left, hVars, busVars>>

RtLoadMask ==
  /\ rtPc = "mask"
  /\ rtPc' = "axes"
  /\ en_mask' = axis_enable_mask
  /\ UNCHANGED <<shared, shutdown_active, graceLeft, sp_targets, is_armed,
                 hold_target, have_hold, fault_reset_left, hVars, busVars>>

\* Mutant: the clamp forgets the negative direction.
StepUpOnly(cur, desired) ==
  IF MaxStep > 0 /\ desired - cur > MaxStep THEN cur + MaxStep ELSE desired

\* One cycle's step of a held target towards the desired one.
StepTowards(cur, desired) ==
  IF MaxStep > 0 /\ desired - cur > MaxStep THEN cur + MaxStep
  ELSE IF MaxStep > 0 /\ desired - cur < -MaxStep THEN cur - MaxStep
  ELSE desired

\* The state of axis i as the statusword of the input image gives it.
Decoded(i) == decode_statusword(StatuswordOf(image[i].st))

\* Mutant: the enable mask alone decides.
WantedUnarmed(i) == i \in en_mask

WantEnable(i) == is_armed /\ i \in en_mask

\* Mutant: the latch is set as soon as the axis is wanted.
FollowingWhenWanted(i) == WantEnable(i)

\* An axis follows setpoints only while it is wanted and operation-enabled.
Following(i) == WantEnable(i) /\ Decoded(i) = "OperationEnabled"

NextHold(i) ==
  LET cur == IF have_hold[i] THEN hold_target[i] ELSE image[i].pos
  IN  IF ~Following(i) THEN image[i].pos
      ELSE IF sp_targets[i] = NoTarget THEN cur
      ELSE StepTowards(cur, sp_targets[i])

\* The pulse counter once this cycle's requests are latched, zero out of Fault.
PulseLeft(i) ==
  IF Decoded(i) # "Fault" THEN 0
  ELSE IF i \in fault_reset_request THEN PulseCycles
  ELSE fault_reset_left[i]

Output(i) ==
  [cw     |-> controlword_for_enable(Decoded(i), WantEnable(i), PulseLeft(i) > 0),
   target |-> NextHold(i)]

\* The bus and the drives (external).  The frame of a cycle meets a drive once:
\* the drive gets the outputs, the master the drive's state after the cycle
\* that went by under the previous ones.
DriveTrips(d) ==
  IF "trip" \notin Events THEN {}
  ELSE {"FaultReactionActive", "Fault"} \cup
       (IF d.st = "OperationEnabled" THEN {"QuickStopActive"} ELSE {})

\* A drive may refuse a fault reset for as long as the cause of the fault lasts.
DriveResets(d, out) ==
  IF d.st = "Fault" /\ out.cw = "CW_FAULT_RESET" THEN {"SwitchOnDisabled"} ELSE {}

\* An enabled drive moves to its target; any other axis may be moved by hand.
DriveAfterCycle(d, out) ==
  [st  : {d.st, DriveAnswer(d.st, out.cw)} \cup DriveResets(d, out) \cup DriveTrips(d),
   pos : IF d.st = "OperationEnabled" THEN {d.pos, out.target} ELSE Counts]

\* What a drive that neither trips nor dawdles is after the cycle.
DriveObeys(d, out) ==
  [st  |-> DriveAnswer(d.st, out.cw),
   pos |-> IF d.st = "OperationEnabled" THEN out.target ELSE d.pos]

Exchange ==
  /\ bus' = [i \in Axis |-> Output(i)]
  /\ image' = drive'

\* Latch the reset requests, sequence every axis and exchange the frame, which
\* the bus may lose: nothing in the loop looks at the working counter.
RtAxes ==
  /\ rtPc = "axes"
  /\ rtPc' = "check"
  /\ fault_reset_request' = {}
  /\ hold_target' = [i \in Axis |-> NextHold(i)]
  /\ have_hold' = [i \in Axis |-> Following(i)]
  /\ fault_reset_left' = [i \in Axis |-> IF PulseLeft(i) > 0 THEN PulseLeft(i) - 1
                                                             ELSE 0]
  /\ sp_targets' = NoTargets /\ is_armed' = FALSE /\ en_mask' = {}
  /\ \E d \in [Axis -> UNION {DriveAfterCycle(drive[i], bus[i]) : i \in Axis}] :
       /\ \A i \in Axis : d[i] \in DriveAfterCycle(drive[i], bus[i])
       /\ drive' = d
  /\ Exchange \/ ("frame loss" \in Events /\ UNCHANGED <<bus, image>>)
  /\ UNCHANGED <<armed, axis_enable_mask, latest_targets, g_stop,
                 shutdown_active, graceLeft, hVars>>

\* The bottom of the loop: leave once the grace window has elapsed, or at once
\* when no grace window was opened.
RtExit ==
  /\ rtPc = "check"
  /\ g_stop /\ (~shutdown_active \/ graceLeft = 0)
  /\ rtPc' = "done"
  /\ UNCHANGED <<shared, shutdown_active, graceLeft, sp_targets, is_armed,
                 en_mask, hold_target, have_hold, fault_reset_left, hVars, busVars>>

\* Mutant: the end of the grace window is not looked at.
RtSleepPastGrace ==
  /\ rtPc = "check"
  /\ rtPc' = "wake"
  /\ graceLeft' = IF shutdown_active THEN graceLeft - 1 ELSE graceLeft
  /\ UNCHANGED <<shared, shutdown_active, sp_targets, is_armed, en_mask,
                 hold_target, have_hold, fault_reset_left, hVars, busVars>>

RtSleep ==
  /\ rtPc = "check"
  /\ ~g_stop \/ (shutdown_active /\ graceLeft > 0)
  /\ rtPc' = "wake"
  /\ graceLeft' = IF shutdown_active THEN graceLeft - 1 ELSE graceLeft
  /\ UNCHANGED <<shared, shutdown_active, sp_targets, is_armed, en_mask,
                 hold_target, have_hold, fault_reset_left, hVars, busVars>>

RtNext == \/ RtBeginShutdown \/ RtClearMask \/ RtReadTargets
          \/ RtLoadArmed \/ RtLoadMask \/ RtAxes \/ RtExit \/ RtSleep

-----------------------------------------------------------------------------
(* The helper thread.  It looks at its two stop flags only at the top of   *)
(* its loop: a batch it has found in the ring is always processed whole.   *)

\* Mutant: the loop condition leaves out g_stop.
HelperExitUnsignalled ==
  /\ hPc = "poll"
  /\ ~helper_running
  /\ hPc' = "exited"
  /\ UNCHANGED <<shared, rtVars, hLocal, helper_running, busVars>>

HelperExit ==
  /\ hPc = "poll"
  /\ ~helper_running \/ g_stop
  /\ hPc' = "exited"
  /\ UNCHANGED <<shared, rtVars, hLocal, helper_running, busVars>>

\* poll() returned: with commands to drain, or on its timeout with none.
HelperWake ==
  /\ hPc = "poll"
  /\ helper_running /\ ~g_stop
  /\ hPc' = "drain"
  /\ UNCHANGED <<shared, rtVars, hLocal, helper_running, busVars>>

HelperArm(arm) ==
  /\ hPc = "drain" /\ "ARM" \in Commands
  /\ armed' = arm
  /\ UNCHANGED <<axis_enable_mask, fault_reset_request, latest_targets, g_stop,
                 rtVars, hPc, hLocal, helper_running, busVars>>

HelperAxisEnable(mask) ==
  /\ hPc = "drain" /\ "AXIS_ENABLE" \in Commands
  /\ axis_enable_mask' = mask
  /\ UNCHANGED <<armed, fault_reset_request, latest_targets, g_stop,
                 rtVars, hPc, hLocal, helper_running, busVars>>

\* AXIS_DISABLE loads the mask and stores the difference: two steps.
HelperAxisDisableLoad(mask) ==
  /\ hPc = "drain" /\ "AXIS_DISABLE" \in Commands
  /\ hPc' = "disable"
  /\ hLocal' = axis_enable_mask \ mask
  /\ UNCHANGED <<shared, rtVars, helper_running, busVars>>

HelperAxisDisableStore ==
  /\ hPc = "disable"
  /\ hPc' = "drain"
  /\ axis_enable_mask' = hLocal
  /\ hLocal' = {}
  /\ UNCHANGED <<armed, fault_reset_request, latest_targets, g_stop, rtVars,
                 helper_running, busVars>>

\* Mutant: a request replaces the one that is pending.
FaultResetStored(mask) ==
  /\ hPc = "drain" /\ "FAULT_RESET" \in Commands
  /\ fault_reset_request' = IF mask = {} THEN Axis ELSE mask
  /\ UNCHANGED <<armed, axis_enable_mask, latest_targets, g_stop, rtVars, hPc,
                 hLocal, helper_running, busVars>>

\* An empty mask asks for every axis.
HelperFaultReset(mask) ==
  /\ hPc = "drain" /\ "FAULT_RESET" \in Commands
  /\ fault_reset_request' = fault_reset_request \cup (IF mask = {} THEN Axis ELSE mask)
  /\ UNCHANGED <<armed, axis_enable_mask, latest_targets, g_stop, rtVars, hPc,
                 hLocal, helper_running, busVars>>

\* SET_MODE, and every type the switch has no case for.
HelperOtherCommand ==
  /\ hPc = "drain" /\ "OTHER" \in Commands
  /\ UNCHANGED <<shared, rtVars, hPc, hLocal, helper_running, busVars>>

\* The ring is drained; the setpoint slot holds nothing new.
HelperNoSetpoint ==
  /\ hPc = "drain"
  /\ hPc' = "poll"
  /\ UNCHANGED <<shared, rtVars, hLocal, helper_running, busVars>>

\* The ring is drained; a new setpoint is converted and published.
HelperBeginPublish ==
  /\ hPc = "drain" /\ "SETPOINT" \in Commands
  /\ hPc' = "publish"
  /\ hLocal' = Axis
  /\ UNCHANGED <<shared, rtVars, helper_running, busVars>>

HelperPublishAxis(i, t) ==
  /\ hPc = "publish" /\ i \in hLocal
  /\ latest_targets' = [latest_targets EXCEPT ![i] = t]
  /\ hLocal' = hLocal \ {i}
  /\ hPc' = IF hLocal = {i} THEN "poll" ELSE "publish"
  /\ UNCHANGED <<armed, axis_enable_mask, fault_reset_request, g_stop, rtVars,
                 helper_running, busVars>>

HelperNext ==
  \/ HelperExit \/ HelperWake
  \/ \E arm \in BOOLEAN : HelperArm(arm)
  \/ \E mask \in SUBSET Axis : \/ HelperAxisEnable(mask)
                              \/ HelperAxisDisableLoad(mask)
                              \/ HelperFaultReset(mask)
  \/ HelperAxisDisableStore \/ HelperOtherCommand
  \/ HelperNoSetpoint \/ HelperBeginPublish
  \/ \E i \in Axis, t \in Target : HelperPublishAxis(i, t)

-----------------------------------------------------------------------------
(* The main thread and the signal handler.                                 *)

\* A controller's handshake ends in a running helper, even after a signal: main looks
\* at g_stop before the handshake only (RtSession models the way there).
Connect ==
  /\ hPc = "exited" /\ ~helper_running
  /\ helper_running' = TRUE
  /\ hPc' = "poll"
  /\ UNCHANGED <<shared, rtVars, hLocal, busVars>>

\* reset_connection, on a hang-up of the controller or at the end of main.
\* It stops the helper and leaves every permission as it was.
Disconnect ==
  /\ helper_running
  /\ helper_running' = FALSE
  /\ UNCHANGED <<shared, rtVars, hPc, hLocal, busVars>>

\* SIGINT or SIGTERM, at any moment.
Signal ==
  /\ "signal" \in Events /\ ~g_stop
  /\ g_stop' = TRUE
  /\ UNCHANGED <<armed, axis_enable_mask, fault_reset_request, latest_targets,
                 rtVars, hVars, busVars>>

-----------------------------------------------------------------------------
Next == \/ RtNext \/ HelperNext
        \/ Connect \/ Disconnect \/ Signal

Spec == Init /\ [][Next]_vars

(***************************************************************************)
(* The cyclic thread wakes on a timer, the helper on a poll with a         *)
(* timeout, and neither blocks on anything else; the ring is finite, so    *)
(* the helper gets to the end of it.  Frames may be lost and a drive may   *)
(* trip or dawdle, but again and again a frame arrives and the drive does  *)
(* what the last one told it.  Nobody has to connect, send a command, or   *)
(* send a signal, and a drive need not accept a fault reset.               *)
(***************************************************************************)
CycleRuns    == WF_vars(RtNext)
HelperRuns   == WF_vars(HelperNext) /\ SF_vars(HelperNoSetpoint \/ HelperBeginPublish)
DrivesAnswer ==
  \A i \in Axis : SF_vars(RtAxes /\ Exchange /\ drive'[i] = DriveObeys(drive[i], bus[i]))

\* Each property relies on no more than it needs.
CycleSpec   == Spec /\ CycleRuns
ThreadsSpec == CycleSpec /\ HelperRuns
FairSpec    == ThreadsSpec /\ DrivesAnswer

-----------------------------------------------------------------------------
(* Properties.                                                             *)

\* Every variable of the daemon, the bus and the drives has its type.
TypeOK ==
  /\ armed \in BOOLEAN
  /\ axis_enable_mask \in SUBSET Axis
  /\ fault_reset_request \in SUBSET Axis
  /\ latest_targets \in [Axis -> Target]
  /\ g_stop \in BOOLEAN
  /\ rtPc \in {"wake", "clear", "targets", "armed", "mask", "axes", "check", "done"}
  /\ shutdown_active \in BOOLEAN
  /\ graceLeft \in 0..GraceCycles
  /\ sp_targets \in [Axis -> Target]
  /\ is_armed \in BOOLEAN
  /\ en_mask \in SUBSET Axis
  /\ hold_target \in [Axis -> Counts]
  /\ have_hold \in [Axis -> BOOLEAN]
  /\ fault_reset_left \in [Axis -> 0..PulseCycles]
  /\ hPc \in {"poll", "drain", "disable", "publish", "exited"}
  /\ hLocal \in SUBSET Axis
  /\ helper_running \in BOOLEAN
  /\ drive \in [Axis -> [st : DriveStates, pos : Counts]]
  /\ bus \in [Axis -> [cw : Controlwords, target : Counts]]
  /\ image \in [Axis -> [st : DriveStates, pos : Counts]]

\* A drive that becomes operational finds the hold latch of its axis clear, so
\* the cyclic thread starts from the position the drive reports and not from a
\* target held from before a fault, a disarm or a lost frame
\* (main.cpp "keep the target aligned to feedback").
LatchClearAtEnable ==
  [][\A i \in Axis :
       drive[i].st # "OperationEnabled" /\ drive'[i].st = "OperationEnabled"
         => ~have_hold[i]]_vars

\* How many steps a drive is above SwitchOnDisabled.
Height(st) ==
  CASE st = "OperationEnabled" -> 3
    [] st = "SwitchedOn"       -> 2
    [] st = "ReadyToSwitchOn"  -> 1
    [] OTHER                   -> 0

\* The controlword a drive is given was chosen from the state it reported a frame
\* ago, or longer where frames are lost.  However far the drive has gone since,
\* a controlword that climbs towards operation never takes it a step down: the
\* sequencer does not oscillate (ds402.hpp, controlword_for_enable on decoded states).
NeverSteppedBack ==
  \A i \in Axis :
    bus[i].cw \in {"CW_SHUTDOWN", "CW_SWITCH_ON", "CW_ENABLE_OP"} =>
      Height(DriveAnswer(drive[i].st, bus[i].cw)) >= Height(drive[i].st)

Distance(a, b) == IF a < b THEN b - a ELSE a - b

\* With the clamp on, the target a drive is sent along with the order to stay
\* operational is within MaxStep of the one it was sent before, or of the
\* position it last reported when the axis is being latched anew: no fault,
\* disarm or setpoint makes a drive jump (main.cpp "cap commanded motor speed").
SpeedCap ==
  [][\A i \in Axis :
       MaxStep > 0 /\ drive[i].st = "OperationEnabled" /\ bus'[i].cw = "CW_ENABLE_OP" =>
         \/ Distance(bus'[i].target, bus[i].target) <= MaxStep
         \/ ~have_hold[i] /\ Distance(bus'[i].target, image[i].pos) <= MaxStep]_vars

\* A disarm that is not taken back ends with every drive out of operation, and
\* an AXIS_DISABLE with that axis out of it, whatever the helper is doing and
\* whatever frames are lost and drives trip on the way (main.cpp, the handling of
\* MSG_CMD_ARM and MSG_CMD_AXIS_DISABLE and the sequencing of every axis).
DisarmStopsDrives ==
  \A i \in Axis :
    /\ <>[](~armed /\ ~g_stop) => <>[](drive[i].st # "OperationEnabled")
    /\ <>[](i \notin axis_enable_mask /\ ~g_stop) => <>[](drive[i].st # "OperationEnabled")

\* A reset request for a drive that reports a fault is put on the bus.
ResetIsSent ==
  \A i \in Axis :
    i \in fault_reset_request /\ image[i].st = "Fault"
      ~> bus[i].cw = "CW_FAULT_RESET" \/ g_stop

\* After a signal both threads come to an end.
StopTerminates == g_stop ~> rtPc = "done" /\ hPc = "exited"
=============================================================================
