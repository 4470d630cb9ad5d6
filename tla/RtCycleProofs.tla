--------------------------- MODULE RtCycleProofs ---------------------------
(***************************************************************************)
(* Theorems about the cyclic thread, for every number of axes, encoder     *)
(* range, clamp, pulse length, command and mishap.                         *)
(***************************************************************************)
EXTENDS RtCycle, TLAPS

-----------------------------------------------------------------------------
(* Operators of the model.                                                 *)

\* The decoder gives back the state a drive reports (ds402.hpp).
LEMMA DecodeRoundTrip ==
  ASSUME NEW s \in DriveStates
  PROVE  decode_statusword(StatuswordOf(s)) = s
<1>1. s \in {"NotReady", "SwitchOnDisabled", "ReadyToSwitchOn", "SwitchedOn",
             "OperationEnabled", "QuickStopActive", "FaultReactionActive", "Fault"}
  BY DEF DriveStates, States
<1>2. CASE s = "NotReady"
  BY <1>2 DEF decode_statusword, StatuswordOf, Masked4F, Masked6F
<1>3. CASE s = "SwitchOnDisabled"
  BY <1>3 DEF decode_statusword, StatuswordOf, Masked4F, Masked6F
<1>4. CASE s = "ReadyToSwitchOn"
  BY <1>4 DEF decode_statusword, StatuswordOf, Masked4F, Masked6F
<1>5. CASE s = "SwitchedOn"
  BY <1>5 DEF decode_statusword, StatuswordOf, Masked4F, Masked6F
<1>6. CASE s = "OperationEnabled"
  BY <1>6 DEF decode_statusword, StatuswordOf, Masked4F, Masked6F
<1>7. CASE s = "QuickStopActive"
  BY <1>7 DEF decode_statusword, StatuswordOf, Masked4F, Masked6F
<1>8. CASE s = "FaultReactionActive"
  BY <1>8 DEF decode_statusword, StatuswordOf, Masked4F, Masked6F
<1>9. CASE s = "Fault"
  BY <1>9 DEF decode_statusword, StatuswordOf, Masked4F, Masked6F
<1>. QED  BY <1>1, <1>2, <1>3, <1>4, <1>5, <1>6, <1>7, <1>8, <1>9

\* One cycle moves a held target to a position of the encoder, and by no more
\* than the clamp (main.cpp, the cap on delta).
LEMMA StepBound ==
  ASSUME NEW cur \in Counts, NEW desired \in Counts
  PROVE  /\ StepTowards(cur, desired) \in Counts
         /\ MaxStep > 0 => Distance(StepTowards(cur, desired), cur) <= MaxStep
<1>1. cur \in Int /\ desired \in Int /\ MaxStep \in Nat
  BY Assumptions
<1>2. cur..desired \subseteq Counts /\ desired..cur \subseteq Counts
  BY Assumptions
<1>3. CASE MaxStep > 0 /\ desired - cur > MaxStep
  <2>1. StepTowards(cur, desired) = cur + MaxStep
    BY <1>3 DEF StepTowards
  <2>2. cur + MaxStep \in cur..desired
    BY <1>1, <1>3
  <2>. QED  BY <1>1, <1>2, <2>1, <2>2 DEF Distance
<1>4. CASE MaxStep > 0 /\ desired - cur < -MaxStep
  <2>1. StepTowards(cur, desired) = cur - MaxStep
    BY <1>1, <1>4 DEF StepTowards
  <2>2. cur - MaxStep \in desired..cur
    BY <1>1, <1>4
  <2>. QED  BY <1>1, <1>2, <2>1, <2>2 DEF Distance
<1>5. CASE /\ ~(MaxStep > 0 /\ desired - cur > MaxStep)
           /\ ~(MaxStep > 0 /\ desired - cur < -MaxStep)
  <2>1. StepTowards(cur, desired) = desired
    BY <1>5 DEF StepTowards
  <2>. QED  BY <1>1, <1>5, <2>1 DEF Distance
<1>. QED  BY <1>3, <1>4, <1>5

\* What a drive becomes in a cycle is again a state and a position of a drive.
LEMMA DriveAfterCycleType ==
  ASSUME NEW d \in [st : DriveStates, pos : Counts],
         NEW out \in [cw : Controlwords, target : Counts]
  PROVE  DriveAfterCycle(d, out) \subseteq [st : DriveStates, pos : Counts]
<1>1. DriveAnswer(d.st, out.cw) \in DriveStates
  BY DEF DriveAnswer, DriveStates, States
<1>2. DriveResets(d, out) \subseteq DriveStates /\ DriveTrips(d) \subseteq DriveStates
  BY DEF DriveResets, DriveTrips, DriveStates, States
<1>3. (IF d.st = "OperationEnabled" THEN {d.pos, out.target} ELSE Counts) \subseteq Counts
  OBVIOUS
<1>4. {d.st, DriveAnswer(d.st, out.cw)} \cup DriveResets(d, out) \cup DriveTrips(d)
        \subseteq DriveStates
  BY <1>1, <1>2
<1>. QED  BY <1>3, <1>4 DEF DriveAfterCycle

\* Under a well-typed state the outputs of a cycle are well typed.
LEMMA OutputType ==
  ASSUME TypeOK, NEW i \in Axis
  PROVE  /\ Decoded(i) = image[i].st
         /\ NextHold(i) \in Counts
         /\ PulseLeft(i) \in 0..PulseCycles
         /\ Following(i) \in BOOLEAN
         /\ Output(i) \in [cw : Controlwords, target : Counts]
<1>1. image[i] \in [st : DriveStates, pos : Counts]
  BY DEF TypeOK
<1>2. Decoded(i) = image[i].st
  BY <1>1, DecodeRoundTrip DEF Decoded
<1>3. NextHold(i) \in Counts
  <2>1. hold_target[i] \in Counts /\ image[i].pos \in Counts /\ sp_targets[i] \in Target
    BY <1>1 DEF TypeOK
  <2>. DEFINE cur == IF have_hold[i] THEN hold_target[i] ELSE image[i].pos
  <2>2. cur \in Counts
    BY <2>1
  <2>3. sp_targets[i] # NoTarget => StepTowards(cur, sp_targets[i]) \in Counts
    BY <2>1, <2>2, StepBound DEF Target
  <2>. QED  BY <2>1, <2>2, <2>3 DEF NextHold
<1>4. PulseLeft(i) \in 0..PulseCycles
  <2>1. fault_reset_left[i] \in 0..PulseCycles
    BY DEF TypeOK
  <2>2. PulseCycles \in Nat
    BY Assumptions
  <2>. QED  BY <2>1, <2>2 DEF PulseLeft
<1>5. Following(i) \in BOOLEAN
  BY DEF Following, WantEnable, TypeOK
<1>6. controlword_for_enable(Decoded(i), WantEnable(i), PulseLeft(i) > 0) \in Controlwords
  BY DEF controlword_for_enable, Controlwords
<1>. QED  BY <1>2, <1>3, <1>4, <1>5, <1>6 DEF Output

-----------------------------------------------------------------------------
(* Type correctness.                                                       *)

\* The count-down of the grace window stays in its range because the window is
\* only ever opened by a signal, and a signal is never taken back.
TypeInv == TypeOK /\ (shutdown_active => g_stop)

\* The daemon starts with every variable in its type (main).
LEMMA InitType == Init => TypeInv
<1>. SUFFICES ASSUME Init PROVE TypeInv
  OBVIOUS
<1>. USE DEF Init
<1>1. 0 \in Counts /\ GraceCycles \in Nat /\ PulseCycles \in Nat
  BY Assumptions
<1>2. NoTargets \in [Axis -> Target]
  BY DEF NoTargets, Target
<1>3. /\ armed \in BOOLEAN
      /\ axis_enable_mask \in SUBSET Axis
      /\ fault_reset_request \in SUBSET Axis
      /\ latest_targets \in [Axis -> Target]
      /\ g_stop \in BOOLEAN
      /\ sp_targets \in [Axis -> Target]
      /\ is_armed \in BOOLEAN
      /\ en_mask \in SUBSET Axis
  BY <1>2
<1>4. /\ rtPc = "wake"
      /\ shutdown_active = FALSE
      /\ graceLeft \in 0..GraceCycles
      /\ hold_target \in [Axis -> Counts]
      /\ have_hold \in [Axis -> BOOLEAN]
      /\ fault_reset_left \in [Axis -> 0..PulseCycles]
  BY <1>1
<1>5. hPc = "exited" /\ hLocal \in SUBSET Axis /\ helper_running \in BOOLEAN
  OBVIOUS
<1>6. drive \in [Axis -> [st : DriveStates, pos : Counts]]
  BY DEF DriveStates, States
<1>7. bus \in [Axis -> [cw : Controlwords, target : Counts]]
  BY <1>1 DEF Controlwords
<1>8. image \in [Axis -> [st : DriveStates, pos : Counts]]
  BY <1>1 DEF DriveStates, States
<1>. QED  BY <1>3, <1>4, <1>5, <1>6, <1>7, <1>8 DEF TypeOK, TypeInv

\* The cyclic thread's big step.
LEMMA RtAxesType == TypeOK /\ RtAxes => TypeOK'
<1>. SUFFICES ASSUME TypeOK, RtAxes PROVE TypeOK'
  OBVIOUS
<1>1. hold_target' \in [Axis -> Counts] /\ have_hold' \in [Axis -> BOOLEAN]
  BY OutputType DEF RtAxes
<1>2. fault_reset_left' \in [Axis -> 0..PulseCycles]
  <2>1. ASSUME NEW i \in Axis
        PROVE  (IF PulseLeft(i) > 0 THEN PulseLeft(i) - 1 ELSE 0) \in 0..PulseCycles
    <3>1. PulseLeft(i) \in 0..PulseCycles /\ PulseCycles \in Nat
      BY OutputType, Assumptions
    <3>. QED  BY <3>1
  <2>. QED  BY <2>1 DEF RtAxes
<1>3. drive' \in [Axis -> [st : DriveStates, pos : Counts]]
  <2>1. PICK d \in [Axis -> UNION {DriveAfterCycle(drive[i], bus[i]) : i \in Axis}] :
          /\ \A i \in Axis : d[i] \in DriveAfterCycle(drive[i], bus[i])
          /\ drive' = d
    BY DEF RtAxes
  <2>2. ASSUME NEW i \in Axis
        PROVE  DriveAfterCycle(drive[i], bus[i]) \subseteq [st : DriveStates, pos : Counts]
    BY DriveAfterCycleType DEF TypeOK
  <2>. QED  BY <2>1, <2>2
<1>4. /\ bus' \in [Axis -> [cw : Controlwords, target : Counts]]
      /\ image' \in [Axis -> [st : DriveStates, pos : Counts]]
  <2>1. CASE Exchange
    <3>1. \A i \in Axis : Output(i) \in [cw : Controlwords, target : Counts]
      BY OutputType
    <3>. QED  BY <1>3, <2>1, <3>1 DEF Exchange
  <2>2. CASE UNCHANGED <<bus, image>>
    BY <2>2 DEF TypeOK
  <2>. QED  BY <2>1, <2>2 DEF RtAxes
<1>5. sp_targets' \in [Axis -> Target]
  BY DEF RtAxes, NoTargets, Target
<1>. QED  BY <1>1, <1>2, <1>3, <1>4, <1>5 DEF RtAxes, TypeOK, hVars

\* Every step of the cyclic thread keeps the types; only RtSleep counts down the
\* grace window, and only while it is open.
LEMMA RtNextType == TypeInv /\ RtNext => TypeInv'
<1>. SUFFICES ASSUME TypeInv, RtNext PROVE TypeInv'
  OBVIOUS
<1>. USE DEF TypeInv, TypeOK, shared, hVars, busVars
<1>1. CASE RtBeginShutdown
  <2>. GraceCycles \in Nat
    BY Assumptions
  <2>1. GraceCycles \in 0..GraceCycles
    OBVIOUS
  <2>. QED  BY <1>1, <2>1 DEF RtBeginShutdown
<1>2. CASE RtClearMask
  BY <1>2 DEF RtClearMask
<1>3. CASE RtReadTargets
  BY <1>3 DEF RtReadTargets, NoTargets, Target
<1>4. CASE RtLoadArmed
  BY <1>4 DEF RtLoadArmed
<1>5. CASE RtLoadMask
  BY <1>5 DEF RtLoadMask
<1>6. CASE RtAxes
  BY <1>6, RtAxesType DEF RtAxes
<1>7. CASE RtExit
  BY <1>7 DEF RtExit
<1>8. CASE RtSleep
  <2>1. graceLeft' \in 0..GraceCycles
    <3>1. GraceCycles \in Nat /\ graceLeft \in 0..GraceCycles
      BY Assumptions
    <3>2. ~shutdown_active \/ graceLeft > 0
      BY <1>8 DEF RtSleep
    <3>3. graceLeft' = IF shutdown_active THEN graceLeft - 1 ELSE graceLeft
      BY <1>8 DEF RtSleep
    <3>. QED  BY <3>1, <3>2, <3>3
  <2>. QED  BY <1>8, <2>1 DEF RtSleep
<1>. QED  BY <1>1, <1>2, <1>3, <1>4, <1>5, <1>6, <1>7, <1>8 DEF RtNext

\* Every command the helper carries out, and every publication, keeps the types.
LEMMA HelperNextType == TypeInv /\ HelperNext => TypeInv'
<1>. SUFFICES ASSUME TypeInv, HelperNext PROVE TypeInv'
  OBVIOUS
<1>. USE DEF TypeInv, TypeOK, shared, rtVars, busVars
<1>1. CASE HelperExit \/ HelperWake \/ HelperOtherCommand \/ HelperNoSetpoint
  BY <1>1 DEF HelperExit, HelperWake, HelperOtherCommand, HelperNoSetpoint
<1>2. ASSUME NEW arm \in BOOLEAN, HelperArm(arm) PROVE TypeInv'
  BY <1>2 DEF HelperArm
<1>3. ASSUME NEW mask \in SUBSET Axis, HelperAxisEnable(mask) PROVE TypeInv'
  BY <1>3 DEF HelperAxisEnable
<1>4. ASSUME NEW mask \in SUBSET Axis, HelperAxisDisableLoad(mask) PROVE TypeInv'
  BY <1>4 DEF HelperAxisDisableLoad
<1>5. ASSUME NEW mask \in SUBSET Axis, HelperFaultReset(mask) PROVE TypeInv'
  BY <1>5 DEF HelperFaultReset
<1>6. CASE HelperAxisDisableStore
  BY <1>6 DEF HelperAxisDisableStore
<1>7. CASE HelperBeginPublish
  BY <1>7 DEF HelperBeginPublish
<1>8. ASSUME NEW i \in Axis, NEW t \in Target, HelperPublishAxis(i, t) PROVE TypeInv'
  BY <1>8 DEF HelperPublishAxis
<1>. QED  BY <1>1, <1>2, <1>3, <1>4, <1>5, <1>6, <1>7, <1>8 DEF HelperNext

\* So does every step of anybody.
LEMMA NextType == TypeInv /\ [Next]_vars => TypeInv'
<1>. SUFFICES ASSUME TypeInv, [Next]_vars PROVE TypeInv'
  OBVIOUS
<1>. USE DEF TypeInv, TypeOK, shared, rtVars, hVars, busVars
<1>1. CASE RtNext
  BY <1>1, RtNextType
<1>2. CASE HelperNext
  BY <1>2, HelperNextType
<1>3. CASE Connect
  BY <1>3 DEF Connect
<1>4. CASE Disconnect
  BY <1>4 DEF Disconnect
<1>5. CASE Signal
  BY <1>5 DEF Signal
<1>6. CASE UNCHANGED vars
  BY <1>6 DEF vars
<1>. QED  BY <1>1, <1>2, <1>3, <1>4, <1>5, <1>6 DEF Next

\* Every step of the daemon, the bus and the drives keeps every variable in its type.
THEOREM TypeCorrect == Spec => []TypeOK
<1>1. TypeInv => TypeOK
  BY DEF TypeInv
<1>. QED  BY <1>1, InitType, NextType, PTL DEF Spec

-----------------------------------------------------------------------------
(* The hold latch is clear when a drive is enabled, lost frames or not.    *)

\* Nothing but the cyclic thread's exchange touches the bus and the latch.
LEMMA OnlyRtAxes ==
  ASSUME [Next]_vars, ~RtAxes
  PROVE  UNCHANGED <<hold_target, have_hold, drive, bus, image>>
<1>. USE DEF shared, rtVars, hVars, busVars
<1>1. CASE RtNext
  BY <1>1 DEF RtNext, RtBeginShutdown, RtClearMask, RtReadTargets, RtLoadArmed,
              RtLoadMask, RtExit, RtSleep
<1>2. CASE HelperNext
  BY <1>2 DEF HelperNext, HelperExit, HelperWake, HelperArm, HelperAxisEnable,
              HelperAxisDisableLoad, HelperFaultReset, HelperAxisDisableStore,
              HelperOtherCommand, HelperNoSetpoint, HelperBeginPublish, HelperPublishAxis
<1>3. CASE Connect \/ Disconnect \/ Signal
  BY <1>3 DEF Connect, Disconnect, Signal
<1>4. CASE UNCHANGED vars
  BY <1>4 DEF vars
<1>. QED  BY <1>1, <1>2, <1>3, <1>4 DEF Next

\* The ways into the three powered states of a drive.
LEMMA WaysUp ==
  ASSUME NEW d, NEW out, NEW e \in DriveAfterCycle(d, out)
  PROVE  /\ e.st = "OperationEnabled" =>
              d.st = "OperationEnabled" \/ (d.st = "SwitchedOn" /\ out.cw = "CW_ENABLE_OP")
         /\ e.st = "SwitchedOn" =>
              \/ d.st = "SwitchedOn"
              \/ out.cw = "CW_SWITCH_ON" /\ d.st \in {"ReadyToSwitchOn", "OperationEnabled"}
         /\ e.st = "ReadyToSwitchOn" =>
              d.st = "ReadyToSwitchOn" \/ out.cw = "CW_SHUTDOWN"
<1>1. e.st \in {d.st, DriveAnswer(d.st, out.cw)} \cup DriveResets(d, out) \cup DriveTrips(d)
  BY DEF DriveAfterCycle
<1>2. DriveResets(d, out) \subseteq {"SwitchOnDisabled"}
  BY DEF DriveResets
<1>3. DriveTrips(d) \subseteq {"FaultReactionActive", "Fault", "QuickStopActive"}
  BY DEF DriveTrips
<1>4. /\ DriveAnswer(d.st, out.cw) = "OperationEnabled" =>
           d.st = "OperationEnabled" \/ (d.st = "SwitchedOn" /\ out.cw = "CW_ENABLE_OP")
      /\ DriveAnswer(d.st, out.cw) = "SwitchedOn" =>
           \/ d.st = "SwitchedOn"
           \/ out.cw = "CW_SWITCH_ON" /\ d.st \in {"ReadyToSwitchOn", "OperationEnabled"}
      /\ DriveAnswer(d.st, out.cw) = "ReadyToSwitchOn" =>
           d.st = "ReadyToSwitchOn" \/ out.cw = "CW_SHUTDOWN"
  BY DEF DriveAnswer, Powered
<1>. QED  BY <1>1, <1>2, <1>3, <1>4

\* What the sequencer sends a drive by the state its image shows.
LEMMA SequencerSends ==
  ASSUME TypeOK, NEW i \in Axis
  PROVE  /\ Output(i).cw = "CW_ENABLE_OP" =>
              image[i].st \in {"SwitchedOn", "OperationEnabled"} /\ WantEnable(i)
         /\ image[i].st \in {"SwitchedOn", "OperationEnabled"} =>
              Output(i).cw \in {"CW_DISABLE_VOLTAGE", "CW_ENABLE_OP"}
         /\ Following(i) => image[i].st = "OperationEnabled"
<1>1. Decoded(i) = image[i].st
  BY OutputType
<1>. QED  BY <1>1 DEF Output, controlword_for_enable, Following

\* Along which ways the latch, the image and the last controlword can lag behind
\* a drive.  The last two conjuncts are what makes the first inductive: a drive
\* is only operational after an image that showed it switched on.
LatchInv ==
  \A i \in Axis :
    /\ have_hold[i] => drive[i].st \notin {"ReadyToSwitchOn", "SwitchedOn"}
    /\ image[i].st = "OperationEnabled" =>
         /\ drive[i].st \notin {"ReadyToSwitchOn", "SwitchedOn"}
         /\ bus[i].cw \in {"CW_DISABLE_VOLTAGE", "CW_ENABLE_OP"}
    /\ drive[i].st = "OperationEnabled" => image[i].st \in {"SwitchedOn", "OperationEnabled"}
    /\ drive[i].st = "SwitchedOn" /\ bus[i].cw = "CW_ENABLE_OP" => image[i].st = "SwitchedOn"

\* No latch is set when the daemon starts, and no drive is past NotReady.
LEMMA InitLatch == Init => LatchInv
BY DEF Init, LatchInv

\* A drive's own step, in the cycle.
LEMMA DriveStep ==
  ASSUME RtAxes, NEW i \in Axis
  PROVE  drive'[i] \in DriveAfterCycle(drive[i], bus[i])
BY DEF RtAxes

\* One cycle keeps each part of LatchInv for each axis, whatever its drive does
\* and whether or not the frame arrives.
LEMMA RtAxesLatch == TypeOK /\ LatchInv /\ RtAxes => LatchInv'
<1>. SUFFICES ASSUME TypeOK, LatchInv, RtAxes, NEW i \in Axis
              PROVE  LatchInv!(i)'
  BY DEF LatchInv
<1>. DEFINE d == drive[i].st
            cw == bus[i].cw
            e == drive'[i].st
<1>1. /\ e = "OperationEnabled" => d = "OperationEnabled" \/ (d = "SwitchedOn" /\ cw = "CW_ENABLE_OP")
      /\ e = "SwitchedOn" => d = "SwitchedOn" \/ cw = "CW_SWITCH_ON"
      /\ e = "ReadyToSwitchOn" => d = "ReadyToSwitchOn" \/ cw = "CW_SHUTDOWN"
  BY DriveStep, WaysUp
<1>2. image[i].st = "OperationEnabled" => e \notin {"ReadyToSwitchOn", "SwitchedOn"}
  BY <1>1 DEF LatchInv
<1>3. have_hold'[i] = Following(i)
  BY DEF RtAxes
<1>4. have_hold'[i] => e \notin {"ReadyToSwitchOn", "SwitchedOn"}
  BY <1>2, <1>3, SequencerSends
<1>5. e = "OperationEnabled" => image[i].st \in {"SwitchedOn", "OperationEnabled"}
  BY <1>1 DEF LatchInv
<1>6. CASE Exchange
  <2>1. image'[i].st = e /\ bus'[i] = Output(i)
    BY <1>6 DEF Exchange
  <2>2. e = "OperationEnabled" => bus'[i].cw \in {"CW_DISABLE_VOLTAGE", "CW_ENABLE_OP"}
    BY <1>5, <2>1, SequencerSends
  <2>. QED  BY <1>4, <2>1, <2>2
<1>7. CASE UNCHANGED <<bus, image>>
  <2>1. e = "SwitchedOn" /\ cw = "CW_ENABLE_OP" => image[i].st = "SwitchedOn"
    BY <1>1 DEF LatchInv
  <2>2. image[i].st = "OperationEnabled" => cw \in {"CW_DISABLE_VOLTAGE", "CW_ENABLE_OP"}
    BY DEF LatchInv
  <2>. QED  BY <1>2, <1>4, <1>5, <1>7, <2>1, <2>2
<1>. QED  BY <1>6, <1>7 DEF RtAxes

\* No other step touches what LatchInv is about.
LEMMA NextLatch == TypeOK /\ LatchInv /\ [Next]_vars => LatchInv'
<1>1. ASSUME LatchInv, [Next]_vars, ~RtAxes PROVE LatchInv'
  BY <1>1, OnlyRtAxes DEF LatchInv
<1>. QED  BY <1>1, RtAxesLatch

\* In every step, lost frames and tripping drives included, a drive that becomes
\* operational finds its latch clear (main.cpp 1215-1245).
THEOREM LatchIsClear == Spec => LatchClearAtEnable
<1>1. ASSUME LatchInv, [Next]_vars
      PROVE  [\A i \in Axis :
                drive[i].st # "OperationEnabled" /\ drive'[i].st = "OperationEnabled"
                  => ~have_hold[i]]_vars
  <2>1. ASSUME RtAxes, NEW i \in Axis, drive[i].st # "OperationEnabled",
               drive'[i].st = "OperationEnabled"
        PROVE  ~have_hold[i]
    <3>1. drive[i].st = "SwitchedOn"
      BY <2>1, DriveStep, WaysUp
    <3>. QED  BY <1>1, <3>1 DEF LatchInv
  <2>2. CASE ~RtAxes
    BY <1>1, <2>2, OnlyRtAxes
  <2>. QED  BY <2>1, <2>2
<1>. QED  BY <1>1, InitLatch, NextLatch, TypeCorrect, PTL DEF Spec, LatchClearAtEnable

-----------------------------------------------------------------------------
(* A controlword chosen from an old statusword never takes a drive down.   *)

\* What the climbing controlwords are chosen from.
LEMMA ClimbsFrom ==
  ASSUME TypeOK, NEW i \in Axis
  PROVE  /\ Output(i).cw = "CW_SHUTDOWN" =>
              image[i].st \in {"SwitchOnDisabled", "QuickStopActive"}
         /\ Output(i).cw = "CW_SWITCH_ON" => image[i].st = "ReadyToSwitchOn"
<1>1. Decoded(i) = image[i].st
  BY OutputType
<1>. QED  BY <1>1 DEF Output, controlword_for_enable

\* While the image still shows a drive below ReadyToSwitchOn, the drive has not
\* got past it, and is still told to go there and no further.  This is what keeps
\* the two controlwords that could take an enabled drive down away from one.
ClimbInv ==
  \A i \in Axis :
    /\ image[i].st \in {"SwitchOnDisabled", "QuickStopActive"} =>
         /\ drive[i].st # "SwitchedOn"
         /\ drive[i].st = "ReadyToSwitchOn" => bus[i].cw = "CW_SHUTDOWN"
    /\ bus[i].cw = "CW_SHUTDOWN" => drive[i].st \notin {"SwitchedOn", "OperationEnabled"}
    /\ bus[i].cw = "CW_SWITCH_ON" => drive[i].st # "OperationEnabled"

\* The daemon starts with drives that are not ready and a disabling controlword.
LEMMA InitClimb == Init => ClimbInv
BY DEF Init, ClimbInv

\* One cycle keeps each part of ClimbInv for each axis.
LEMMA RtAxesClimb == TypeOK /\ LatchInv /\ ClimbInv /\ RtAxes => ClimbInv'
<1>. SUFFICES ASSUME TypeOK, LatchInv, ClimbInv, RtAxes, NEW i \in Axis
              PROVE  ClimbInv!(i)'
  BY DEF ClimbInv
<1>. DEFINE d == drive[i].st
            m == image[i].st
            cw == bus[i].cw
            e == drive'[i].st
<1>1. /\ e = "OperationEnabled" => d = "OperationEnabled" \/ (d = "SwitchedOn" /\ cw = "CW_ENABLE_OP")
      /\ e = "SwitchedOn" =>
           \/ d = "SwitchedOn"
           \/ cw = "CW_SWITCH_ON" /\ d \in {"ReadyToSwitchOn", "OperationEnabled"}
      /\ e = "ReadyToSwitchOn" => d = "ReadyToSwitchOn" \/ cw = "CW_SHUTDOWN"
  BY DriveStep, WaysUp
<1>2. /\ d = "OperationEnabled" => m \in {"SwitchedOn", "OperationEnabled"}
      /\ d = "SwitchedOn" /\ cw = "CW_ENABLE_OP" => m = "SwitchedOn"
  BY DEF LatchInv
<1>3. m \in {"SwitchOnDisabled", "QuickStopActive"} =>
        d # "SwitchedOn" /\ (d = "ReadyToSwitchOn" => cw = "CW_SHUTDOWN")
  BY DEF ClimbInv
<1>4. /\ cw = "CW_SHUTDOWN" => d \notin {"SwitchedOn", "OperationEnabled"}
      /\ cw = "CW_SWITCH_ON" => d # "OperationEnabled"
  BY DEF ClimbInv
<1>. HIDE DEF d, m, cw, e
<1>5. e = "OperationEnabled" => m \in {"SwitchedOn", "OperationEnabled"}
  BY <1>1, <1>2
<1>6. m \in {"SwitchOnDisabled", "QuickStopActive"} =>
        /\ e \notin {"SwitchedOn", "OperationEnabled"}
        /\ e = "ReadyToSwitchOn" => cw = "CW_SHUTDOWN"
  BY <1>1, <1>2, <1>3, <1>4
<1>7. CASE Exchange
  <2>1. image'[i].st = e /\ bus'[i] = Output(i) /\ drive'[i].st = e
    BY <1>7 DEF Exchange, e
  <2>2. /\ Output(i).cw = "CW_SHUTDOWN" => m \in {"SwitchOnDisabled", "QuickStopActive"}
        /\ Output(i).cw = "CW_SWITCH_ON" => m = "ReadyToSwitchOn"
    BY ClimbsFrom DEF m
  <2>. QED  BY <1>5, <1>6, <2>1, <2>2
<1>8. CASE UNCHANGED <<bus, image>>
  <2>1. image'[i].st = m /\ bus'[i].cw = cw /\ drive'[i].st = e
    BY <1>8 DEF m, cw, e
  <2>2. /\ cw = "CW_SHUTDOWN" => e \notin {"SwitchedOn", "OperationEnabled"}
        /\ cw = "CW_SWITCH_ON" => e # "OperationEnabled"
    BY <1>1, <1>4
  <2>. QED  BY <1>6, <2>1, <2>2
<1>. QED  BY <1>7, <1>8 DEF RtAxes

\* No other step touches what ClimbInv is about.
LEMMA NextClimb == TypeOK /\ LatchInv /\ ClimbInv /\ [Next]_vars => ClimbInv'
<1>1. ASSUME ClimbInv, [Next]_vars, ~RtAxes PROVE ClimbInv'
  BY <1>1, OnlyRtAxes DEF ClimbInv
<1>. QED  BY <1>1, RtAxesClimb

\* A climbing controlword takes down only a drive that is past what it asks for.
LEMMA AnswerClimbs ==
  ASSUME NEW d, NEW cw \in {"CW_SHUTDOWN", "CW_SWITCH_ON", "CW_ENABLE_OP"},
         cw = "CW_SHUTDOWN" => d \notin {"SwitchedOn", "OperationEnabled"},
         cw = "CW_SWITCH_ON" => d # "OperationEnabled"
  PROVE  Height(DriveAnswer(d, cw)) >= Height(d)
<1>1. CASE d = "OperationEnabled"
  BY <1>1 DEF DriveAnswer, Height, Powered
<1>2. CASE d = "SwitchedOn"
  BY <1>2 DEF DriveAnswer, Height, Powered
<1>3. CASE d = "ReadyToSwitchOn"
  BY <1>3 DEF DriveAnswer, Height, Powered
<1>4. CASE d \notin Powered
  <2>1. Height(d) = 0
    BY <1>4 DEF Height, Powered
  <2>2. Height(DriveAnswer(d, cw)) \in {0, 1, 2, 3}
    BY DEF Height
  <2>. QED  BY <2>1, <2>2
<1>. QED  BY <1>1, <1>2, <1>3, <1>4 DEF Powered

\* However old the statusword a controlword was chosen from, lost frames, tripping
\* drives and commands at any moment included, it never takes a drive down a step
\* of the way it is to climb (ds402.hpp 59-90, main.cpp 1186-1245).
THEOREM NoStepBack == Spec => []NeverSteppedBack
<1>1. TypeOK /\ ClimbInv => NeverSteppedBack
  BY AnswerClimbs DEF ClimbInv, NeverSteppedBack
<1>. QED  BY <1>1, InitLatch, InitClimb, NextLatch, NextClimb, TypeCorrect, PTL DEF Spec

-----------------------------------------------------------------------------
(* The clamp, while no frame is lost.                                      *)

\* The bus carries what the cyclic thread holds, and its image is the drives.
ClampInv == \A i \in Axis : bus[i].target = hold_target[i] /\ image[i].st = drive[i].st

\* Before the first cycle the bus carries the target 0 and so does the latch.
LEMMA InitClamp == Init => ClampInv
BY DEF Init, ClampInv

\* Where every frame arrives, bus and latch change together in RtAxes only.
LEMMA NextClamp ==
  ASSUME "frame loss" \notin Events, ClampInv, [Next]_vars
  PROVE  ClampInv'
<1>1. CASE RtAxes
  <2>1. Exchange
    BY <1>1 DEF RtAxes
  <2>. QED  BY <1>1, <2>1 DEF RtAxes, Exchange, Output, ClampInv
<1>2. CASE ~RtAxes
  BY <1>2, OnlyRtAxes DEF ClampInv
<1>. QED  BY <1>1, <1>2

\* A target that is not moved is within every clamp.
LEMMA DistanceSelf ==
  ASSUME NEW a \in Int, NEW n \in Nat
  PROVE  Distance(a, a) <= n
BY DEF Distance

\* On a bus that loses no frame, no operational drive is sent a target further from
\* the last one (or from its feedback, when the latch is set anew) than the clamp.
THEOREM ClampHolds ==
  ASSUME "frame loss" \notin Events
  PROVE  Spec => SpeedCap
<1>. DEFINE Capped(i) ==
       MaxStep > 0 /\ drive[i].st = "OperationEnabled" /\ bus'[i].cw = "CW_ENABLE_OP" =>
         \/ Distance(bus'[i].target, bus[i].target) <= MaxStep
         \/ ~have_hold[i] /\ Distance(bus'[i].target, image[i].pos) <= MaxStep
<1>1. ASSUME TypeOK, ClampInv, [Next]_vars PROVE [\A i \in Axis : Capped(i)]_vars
  <2>1. ASSUME RtAxes, NEW i \in Axis, MaxStep > 0, drive[i].st = "OperationEnabled",
               bus'[i].cw = "CW_ENABLE_OP"
        PROVE  Capped(i)
    <3>. DEFINE cur == IF have_hold[i] THEN hold_target[i] ELSE image[i].pos
    <3>1. /\ hold_target[i] \in Counts /\ image[i].pos \in Counts
          /\ sp_targets[i] \in Target
      BY <1>1 DEF TypeOK
    <3>2. cur \in Counts /\ cur \in Int /\ MaxStep \in Nat
      BY <3>1, Assumptions
    <3>3. bus'[i] = Output(i)
      BY <2>1 DEF RtAxes, Exchange
    <3>4. Following(i)
      <4>1. Decoded(i) = "OperationEnabled"
        BY <1>1, <2>1, OutputType DEF ClampInv
      <4>2. WantEnable(i)
        BY <1>1, <2>1, <3>3, SequencerSends
      <4>. QED  BY <4>1, <4>2 DEF Following
    <3>5. bus'[i].target = IF sp_targets[i] = NoTarget THEN cur
                           ELSE StepTowards(cur, sp_targets[i])
      <4>1. Output(i).target = NextHold(i)
        BY DEF Output
      <4>. QED  BY <3>3, <3>4, <4>1 DEF NextHold
    <3>6. Distance(bus'[i].target, cur) <= MaxStep
      <4>1. CASE sp_targets[i] = NoTarget
        <5>1. bus'[i].target = cur
          BY <3>5, <4>1
        <5>. HIDE DEF cur
        <5>2. Distance(cur, cur) <= MaxStep
          BY <3>2, DistanceSelf
        <5>. QED  BY <5>1, <5>2
      <4>2. CASE sp_targets[i] # NoTarget
        <5>1. sp_targets[i] \in Counts
          BY <3>1, <4>2 DEF Target
        <5>. QED  BY <2>1, <3>2, <3>5, <4>2, <5>1, StepBound
      <4>. QED  BY <4>1, <4>2
    <3>. QED  BY <1>1, <3>6 DEF ClampInv
  <2>2. ASSUME ~RtAxes, NEW i \in Axis, MaxStep > 0
        PROVE  Capped(i)
    <3>1. bus' = bus
      BY <1>1, <2>2, OnlyRtAxes
    <3>2. bus[i].target \in Int /\ MaxStep \in Nat
      <4>1. bus[i].target \in Counts
        BY <1>1 DEF TypeOK
      <4>. QED  BY <4>1, Assumptions
    <3>3. Distance(bus[i].target, bus[i].target) <= MaxStep
      BY <3>2, DistanceSelf
    <3>. QED  BY <3>1, <3>3
  <2>. QED  BY <2>1, <2>2
<1>. QED  BY <1>1, InitClamp, NextClamp, TypeCorrect, PTL DEF Spec, SpeedCap
=============================================================================
