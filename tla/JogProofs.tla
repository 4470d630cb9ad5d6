----------------------------- MODULE JogProofs -----------------------------
(***************************************************************************)
(* What module Jog shows on two sessions and a motion, for any number of   *)
(* either: types, the deadman switch, the pause for a motion, the gripper. *)
(***************************************************************************)
EXTENDS Jog, TLAPS

(***************************************************************************)
(* Type correctness.  The posture stays in its bound because a motion that *)
(* is under way has been counted when it began, a session likewise.        *)
(***************************************************************************)
Starting == cPc \in {"start", "start zero", "start gripper", "start thread"}

Counted ==
  /\ is_running => posture < MaxMotions
  /\ Starting => session < MaxSessions

TypeInv == TypeOK /\ Counted

LEMMA Bounds ==
  ASSUME TypeInv
  PROVE  /\ posture \in 0..MaxMotions /\ (is_running => posture < MaxMotions)
         /\ session \in 0..MaxSessions /\ (Starting => session < MaxSessions)
  BY DEF TypeInv, TypeOK, Counted

LEMMA Numbers == /\ 0 \in 0..MaxMotions /\ 0 \in 0..MaxSessions /\ 0 \in 0..2
                 /\ \A k \in 0..2 : UpToTwo(k) \in 0..2
  BY Assumptions DEF UpToTwo

LEMMA OneCountUp ==
  ASSUME NEW f \in [Thread -> 0..2], NEW t \in Thread
  PROVE  [f EXCEPT ![t] = UpToTwo(@)] \in [Thread -> 0..2]
  BY Numbers

LEMMA GoalsCounted ==
  ASSUME NEW t \in Thread, Write(t),
         late \in [Thread -> 0..2], into \in [Thread -> 0..2]
  PROVE  late' \in [Thread -> 0..2] /\ into' \in [Thread -> 0..2]
<1>1. late' = late \/ late' = [late EXCEPT ![t] = UpToTwo(@)]
  BY DEF Write
<1>2. into' = into \/ into' = [into EXCEPT ![t] = UpToTwo(@)]
  BY DEF Write
<1>3. [late EXCEPT ![t] = UpToTwo(@)] \in [Thread -> 0..2]
  BY OneCountUp
<1>4. [into EXCEPT ![t] = UpToTwo(@)] \in [Thread -> 0..2]
  BY OneCountUp
<1>. QED  BY <1>1, <1>2, <1>3, <1>4, Zenon

LEMMA NextSession ==
  ASSUME TypeInv, JogStartThread
  PROVE  session + 1 \in 0..MaxSessions /\ session + 1 \in Thread
<1>1. Starting
  BY DEF JogStartThread, CommandAt, Starting
<1>. QED  BY <1>1, Bounds, Assumptions DEF Thread

LEMMA TypeInit == ASSUME Init PROVE TypeInv
<1>1. TypeOK
  BY Numbers DEF Init, TypeOK
<1>2. Counted
  BY DEF Init, Counted, Starting
<1>. QED  BY <1>1, <1>2 DEF TypeInv

LEMMA TypeJogLoop ==
  ASSUME TypeInv, NEW t \in Thread, JogLoop(t)
  PROVE  TypeInv'
<1>1. TypeOK'
  <2> USE DEF TypeInv, TypeOK, At, Jump, Goto, Looks, jog, shared, rates, arm, goals, losses
  <2>1. CASE Begin(t)           BY <2>1, Bounds, ZenonT(40) DEF Begin
  <2>2. CASE CheckFlags(t)      BY <2>2, ZenonT(40) DEF CheckFlags
  <2>3. CASE Resync(t)          BY <2>3, Bounds, ZenonT(40) DEF Resync
  <2>4. CASE CheckTimeout(t)    BY <2>4, ZenonT(40) DEF CheckTimeout
  <2>5. CASE ZeroVelocities(t)  BY <2>5 DEF ZeroVelocities
  <2>6. CASE ReadVelocities(t)  BY <2>6, ZenonT(40) DEF ReadVelocities
  <2>7. CASE CheckDeadman(t)    BY <2>7, ZenonT(40) DEF CheckDeadman
  <2>8. CASE ZeroGripper(t)     BY <2>8 DEF ZeroGripper
  <2>9. CASE Write(t)
    <3>1. late' \in [Thread -> 0..2] /\ into' \in [Thread -> 0..2]
      BY <2>9, GoalsCounted
    <3>. QED  BY <2>9, <3>1 DEF Write
  <2>10. CASE MoveGripper(t)    BY <2>10 DEF MoveGripper
  <2>11. CASE EndSession(t)     BY <2>11, Numbers DEF EndSession
  <2>12. CASE CheckOwner(t)     BY <2>12 DEF CheckOwner
  <2>13. CASE Disown(t)         BY <2>13 DEF Disown, Disowned
  <2>. QED
    BY <2>1, <2>2, <2>3, <2>4, <2>5, <2>6, <2>7, <2>8, <2>9, <2>10, <2>11, <2>12, <2>13
    DEF JogLoop
<1>2. UNCHANGED <<is_running, posture, cPc, session>>
  BY DEF JogLoop, Begin, CheckFlags, Resync, CheckTimeout, ZeroVelocities, ReadVelocities,
         CheckDeadman, ZeroGripper, Write, MoveGripper, EndSession, CheckOwner, Disown,
         Looks, shared, arm
<1>. QED  BY <1>1, <1>2 DEF TypeInv, Counted, Starting

LEMMA TypeStep ==
  ASSUME TypeInv, [Next]_vars
  PROVE  TypeInv'
<1> USE DEF CommandAt, rates, shared, arm, goals, losses, jog
<1>1. CASE \E t \in Thread : JogLoop(t)
  BY <1>1, TypeJogLoop
<1>2. CASE JogStart
  <2>1. TypeOK'
    BY <1>2 DEF TypeInv, TypeOK, JogStart
  <2>2. Counted'
    BY <1>2, Bounds DEF JogStart, Counted, Starting
  <2>. QED  BY <2>1, <2>2 DEF TypeInv
<1>3. CASE JogStartThread
  <2>1. session + 1 \in 0..MaxSessions /\ session + 1 \in Thread
    BY <1>3, NextSession
  <2>2. TypeOK'
    BY <1>3, <2>1 DEF TypeInv, TypeOK, JogStartThread, Disowned, Jump, Goto
  <2>3. Counted'
    BY <1>3, Bounds DEF JogStartThread, Counted, Starting
  <2>. QED  BY <2>2, <2>3 DEF TypeInv
<1>4. CASE JogStop
  BY <1>4 DEF TypeInv, TypeOK, Counted, Starting, JogStop
<1>5. CASE JogStopJoin
  BY <1>5 DEF TypeInv, TypeOK, Counted, Starting, JogStopJoin
<1>6. CASE NextCommand
  BY <1>6 DEF TypeInv, TypeOK, Counted, Starting, NextCommand
<1>7. ASSUME NEW v \in BOOLEAN, SetJogVelocity(v) PROVE TypeInv'
  BY <1>7 DEF TypeInv, TypeOK, Counted, Starting, SetJogVelocity
<1>8. ASSUME NEW v \in BOOLEAN, SetGripperJogVelocity(v) PROVE TypeInv'
  BY <1>8 DEF TypeInv, TypeOK, Counted, Starting, SetGripperJogVelocity
<1>9. ASSUME NEW v \in BOOLEAN, SetJogDeadman(v) PROVE TypeInv'
  BY <1>9, Numbers DEF TypeInv, TypeOK, Counted, Starting, SetJogDeadman
<1>10. CASE StartMotion
  <2>1. TypeOK'
    BY <1>10, Numbers DEF TypeInv, TypeOK, StartMotion
  <2>2. Counted'
    BY <1>10, Bounds DEF StartMotion, Counted, Starting, MayMove
  <2>. QED  BY <2>1, <2>2 DEF TypeInv
<1>11. CASE MoveDirectly
  <2>1. posture + 1 \in 0..MaxMotions /\ (is_running => posture + 1 < MaxMotions)
    BY <1>11, Bounds, Assumptions DEF MoveDirectly, MayMove
  <2>2. TypeOK'
    BY <1>11, <2>1 DEF TypeInv, TypeOK, MoveDirectly
  <2>3. Counted'
    BY <1>11, <2>1, Bounds DEF MoveDirectly, Counted, Starting
  <2>. QED  BY <2>2, <2>3 DEF TypeInv
<1>12. CASE EndMotion
  <2>1. posture + 1 \in 0..MaxMotions
    BY <1>12, Bounds, Assumptions DEF EndMotion
  <2>2. TypeOK'
    BY <1>12, <2>1, Numbers DEF TypeInv, TypeOK, EndMotion
  <2>3. Counted'
    BY <1>12, Bounds DEF EndMotion, Counted, Starting
  <2>. QED  BY <2>2, <2>3 DEF TypeInv
<1>13. CASE Lapse
  BY <1>13 DEF TypeInv, TypeOK, Counted, Starting, Lapse
<1>15. CASE StampTime \/ ClearVelocities \/ ClearGripperVelocity
  <2>1. TypeOK'
    BY <1>15 DEF TypeInv, TypeOK, StampTime, ClearVelocities, ClearGripperVelocity
  <2>2. /\ UNCHANGED <<is_running, posture, session>>
        /\ Starting' => Starting
    BY <1>15 DEF StampTime, ClearVelocities, ClearGripperVelocity, Starting
  <2>. QED  BY <2>1, <2>2 DEF TypeInv, Counted
<1>14. CASE UNCHANGED vars
  BY <1>14, ZenonT(40) DEF vars, TypeInv, TypeOK, Counted, Starting
<1>. QED
  BY <1>1, <1>2, <1>3, <1>4, <1>5, <1>6, <1>7, <1>8, <1>9, <1>10, <1>11, <1>12,
     <1>13, <1>14, <1>15 DEF Next, Handle, TakeCommand

\* Every entry of the dictionary, every thread and history keeps its type.
THEOREM TypeCorrect == Spec => []TypeOK
<1>1. Init => TypeInv
  BY TypeInit
<1>2. TypeInv /\ [Next]_vars => TypeInv'
  BY TypeStep
<1>3. TypeInv => TypeOK
  BY DEF TypeInv
<1>4. QED
  BY <1>1, <1>2, <1>3, PTL DEF Spec

-----------------------------------------------------------------------------
(***************************************************************************)
(* What a thread still writes after something has changed.  It looks at    *)
(* the deadman switch, at the flag of a motion and at the gripper's rate   *)
(* once per round, so the count of its late goals is safe only together    *)
(* with where it is in its round.                                          *)
(***************************************************************************)

\* Released and one late goal written: what the thread holds now is at rest.
AfterRelease(u) ==
  /\ jog_deadman => late[u] = 0
  /\ late[u] \in {0, 1}
  /\ late[u] = 1 => ~(pc[u] = "write" /\ moving[u])
  /\ pc[u] = "zero gripper" => ~moving[u]

\* A motion begun and one goal written into it: the thread is not yet past its
\* next look at the flag.
IntoMotion(u) ==
  /\ into[u] \in {0, 1}
  /\ is_running /\ into[u] = 1 =>
       pc[u] \notin {"timeout?", "zero", "fk", "deadman?", "zero gripper", "write"}

\* A rate for the gripper that is left over after the look at the switch.
Gripper(u) ==
  pc[u] \in {"write", "gripper?"} /\ jog_gripper_velocity_deg_s /\ ~jog_deadman
    => u \in rushed \/ Releasing

RoundInv(u) == AfterRelease(u) /\ IntoMotion(u) /\ Gripper(u)

LEMMA RoundInit == ASSUME Init, NEW u \in Thread PROVE RoundInv(u)
  BY DEF Init, RoundInv, AfterRelease, IntoMotion, Gripper, Releasing

\* A step of another thread.
LEMMA RoundOfOthers ==
  ASSUME TypeInv, NEW t \in Thread, JogLoop(t), NEW u \in Thread, u # t, RoundInv(u)
  PROVE  RoundInv(u)'
<1>1. pc'[u] = pc[u] /\ moving'[u] = moving[u]
  BY DEF TypeInv, TypeOK, JogLoop, Begin, CheckFlags, Resync, CheckTimeout, ZeroVelocities,
         ReadVelocities, CheckDeadman, ZeroGripper, Write, MoveGripper, EndSession,
         CheckOwner, Disown, Goto, Jump
<1>2. late'[u] = late[u] /\ into'[u] = into[u] /\ (u \in rushed => u \in rushed')
  BY DEF TypeInv, TypeOK, JogLoop, Begin, CheckFlags, Resync, CheckTimeout, ZeroVelocities,
         ReadVelocities, CheckDeadman, ZeroGripper, Write, MoveGripper, EndSession,
         CheckOwner, Disown, Looks, goals
<1>3. /\ UNCHANGED <<is_running, jog_deadman, cPc>>
      /\ \/ jog_gripper_velocity_deg_s' = jog_gripper_velocity_deg_s
         \/ jog_gripper_velocity_deg_s' = FALSE
  BY DEF JogLoop, Begin, CheckFlags, Resync, CheckTimeout, ZeroVelocities,
         ReadVelocities, CheckDeadman, ZeroGripper, Write, MoveGripper, EndSession,
         CheckOwner, Disown, Looks, shared, rates
<1>4. AfterRelease(u)'
  BY <1>1, <1>2, <1>3 DEF RoundInv, AfterRelease
<1>5. IntoMotion(u)'
  BY <1>1, <1>2, <1>3 DEF RoundInv, IntoMotion
<1>6. Gripper(u)'
  BY <1>1, <1>2, <1>3 DEF RoundInv, Gripper, Releasing
<1>. QED  BY <1>4, <1>5, <1>6 DEF RoundInv

\* A count that has just been reset.
LEMMA ZeroIsSmall == ASSUME NEW n, n = 0 PROVE n \in {0, 1} /\ n # 1
  BY SMT

\* A step of the thread itself.
LEMMA RoundOfOwn ==
  ASSUME TypeInv, NEW u \in Thread, JogLoop(u), RoundInv(u)
  PROVE  RoundInv(u)'
<1> USE DEF TypeInv, TypeOK, RoundInv, AfterRelease, IntoMotion, Gripper,
            Releasing, At, Goto, Jump, Looks, shared, rates, goals
<1>1. CASE Begin(u)           BY <1>1 DEF Begin
<1>2. CASE CheckFlags(u)      BY <1>2 DEF CheckFlags
<1>3. CASE Resync(u)          BY <1>3 DEF Resync
<1>4. CASE CheckTimeout(u)    BY <1>4 DEF CheckTimeout
<1>5. CASE ZeroVelocities(u)  BY <1>5 DEF ZeroVelocities
<1>6. CASE ReadVelocities(u)  BY <1>6 DEF ReadVelocities
<1>7. CASE CheckDeadman(u)
  <2>1. UNCHANGED <<late, into, rushed, is_running, jog_deadman, jog_gripper_velocity_deg_s,
                    cPc>>
    BY <1>7 DEF CheckDeadman
  <2>2. pc[u] = "deadman?"
    BY <1>7 DEF CheckDeadman
  <2>3. \/ jog_deadman /\ pc'[u] = "write"
        \/ ~jog_deadman /\ pc'[u] = "zero gripper" /\ ~moving'[u]
    BY <1>7 DEF CheckDeadman
  <2> HIDE DEF TypeInv, TypeOK
  <2>4. AfterRelease(u)'
    <3>1. CASE jog_deadman /\ pc'[u] = "write"
      <4>1. late'[u] = 0
        BY <2>1, <3>1
      <4>2. late'[u] \in {0, 1} /\ late'[u] # 1
        BY <4>1, ZeroIsSmall, Zenon
      <4>3. pc'[u] # "zero gripper"
        BY <3>1
      <4>. QED  BY ONLY <4>1, <4>2, <4>3 DEF AfterRelease
    <3>2. CASE ~jog_deadman /\ pc'[u] = "zero gripper" /\ ~moving'[u]
      BY <2>1, <3>2
    <3>. QED  BY <2>3, <3>1, <3>2
  <2>5. IntoMotion(u)'
    BY <2>1, <2>2
  <2>6. Gripper(u)'
    BY <2>1, <2>3
  <2>. QED  BY <2>4, <2>5, <2>6
<1>8. CASE ZeroGripper(u)     BY <1>8 DEF ZeroGripper
<1>9. CASE Write(u)
  <2>1. pc[u] = "write" /\ pc'[u] = "gripper?" /\ ~moving'[u]
    BY <1>9 DEF Write
  <2>2. UNCHANGED <<rushed, is_running, jog_deadman, jog_gripper_velocity_deg_s, cPc>>
    BY <1>9 DEF Write
  <2>3. late'[u] = late[u] \/ (moving[u] /\ ~jog_deadman /\ late'[u] = UpToTwo(late[u]))
    BY <1>9 DEF Write
  <2>4. into'[u] = into[u] \/ (is_running /\ into'[u] = UpToTwo(into[u]))
    BY <1>9 DEF Write
  <2>8. Gripper(u)'
    BY <2>1, <2>2
  <2> HIDE DEF TypeInv, TypeOK, Releasing, Gripper
  <2>5. AfterRelease(u)'
    <3>1. late[u] = 0 \/ late'[u] = late[u]
      BY <2>1, <2>3
    <3>. QED  BY <2>1, <2>2, <2>3, <3>1 DEF UpToTwo
  <2>6. IntoMotion(u)'
    <3>1. is_running => into[u] = 0
      BY <2>1
    <3>. QED  BY <2>1, <2>2, <2>4, <3>1 DEF UpToTwo
  <2>. QED  BY <2>5, <2>6, <2>8
<1>10. CASE MoveGripper(u)    BY <1>10 DEF MoveGripper
<1>11. CASE EndSession(u)
  <2>1. late'[u] = 0 /\ into'[u] = 0 /\ pc'[u] = "owner?"
    BY <1>11 DEF EndSession
  <2> HIDE DEF TypeInv, TypeOK
  <2>2. late'[u] \in {0, 1} /\ late'[u] # 1 /\ into'[u] \in {0, 1} /\ into'[u] # 1
    BY <2>1, ZeroIsSmall, Zenon
  <2>3. AfterRelease(u)'
    BY ONLY <2>1, <2>2 DEF AfterRelease
  <2>4. IntoMotion(u)' /\ Gripper(u)'
    BY <2>1, <2>2
  <2>. QED  BY <2>3, <2>4
<1>12. CASE CheckOwner(u)     BY <1>12 DEF CheckOwner
<1>13. CASE Disown(u)         BY <1>13 DEF Disown
<1>. QED
  BY <1>1, <1>2, <1>3, <1>4, <1>5, <1>6, <1>7, <1>8, <1>9, <1>10, <1>11, <1>12, <1>13
  DEF JogLoop

LEMMA RoundStep ==
  ASSUME TypeInv, [Next]_vars, NEW u \in Thread, RoundInv(u)
  PROVE  RoundInv(u)'
<1> USE DEF TypeInv, TypeOK, RoundInv, AfterRelease, IntoMotion, Gripper,
            Releasing, shared, rates, goals, jog, CommandAt
<1>1. ASSUME NEW t \in Thread, JogLoop(t) PROVE RoundInv(u)'
  BY <1>1, RoundOfOwn, RoundOfOthers DEF RoundInv
<1>2. CASE JogStart         BY <1>2 DEF JogStart
<1>3. CASE JogStartThread
  <2>1. session + 1 \in Thread
    BY <1>3, NextSession
  <2>2. pc'[u] = pc[u] \/ pc'[u] = "begin"
    BY <1>3, <2>1 DEF JogStartThread, Goto, Jump
  <2>3. UNCHANGED <<moving, late, into, rushed, is_running, jog_deadman,
                    jog_gripper_velocity_deg_s>>
    BY <1>3 DEF JogStartThread, Goto
  <2>4. ~Releasing
    BY <1>3 DEF JogStartThread
  <2>. QED  BY <2>2, <2>3, <2>4
<1>4. CASE JogStop          BY <1>4 DEF JogStop
<1>5. CASE JogStopJoin      BY <1>5 DEF JogStopJoin
<1>6. CASE NextCommand      BY <1>6 DEF NextCommand
<1>7. ASSUME NEW v \in BOOLEAN, SetJogVelocity(v) PROVE RoundInv(u)'
  BY <1>7 DEF SetJogVelocity
<1>8. ASSUME NEW v \in BOOLEAN, SetGripperJogVelocity(v) PROVE RoundInv(u)'
  BY <1>8 DEF SetGripperJogVelocity
<1>9. ASSUME NEW v \in BOOLEAN, SetJogDeadman(v) PROVE RoundInv(u)'
  <2>1. UNCHANGED <<pc, moving, into, rushed, is_running>>
    BY <1>9 DEF SetJogDeadman
  <2>2. jog_deadman' = v /\ Releasing'
    BY <1>9 DEF SetJogDeadman
  <2>4. late'[u] = 0 \/ (late'[u] = late[u] /\ v = jog_deadman)
    BY <1>9 DEF SetJogDeadman
  <2> HIDE DEF TypeInv, TypeOK
  <2>5. AfterRelease(u)'
    BY <2>1, <2>2, <2>4
  <2>6. IntoMotion(u)'
    BY <2>1
  <2>7. Gripper(u)'
    BY <2>2 DEF Gripper
  <2>. QED  BY <2>5, <2>6, <2>7
<1>15. CASE StampTime \/ ClearVelocities \/ ClearGripperVelocity
  <2>1. UNCHANGED <<pc, moving, late, into, rushed, is_running, jog_deadman>>
    BY <1>15 DEF StampTime, ClearVelocities, ClearGripperVelocity
  <2>2. \/ jog_deadman
        \/ ~jog_gripper_velocity_deg_s'
        \/ UNCHANGED jog_gripper_velocity_deg_s /\ (Releasing => Releasing')
    BY <1>15 DEF StampTime, ClearVelocities, ClearGripperVelocity
  <2> HIDE DEF TypeInv, TypeOK, Releasing
  <2>3. AfterRelease(u)' /\ IntoMotion(u)'
    BY <2>1
  <2>4. Gripper(u)'
    BY <2>1, <2>2
  <2>. QED  BY <2>3, <2>4
<1>10. CASE StartMotion
  <2>1. /\ into'[u] = 0
        /\ UNCHANGED <<pc, moving, late, rushed, jog_deadman, jog_gripper_velocity_deg_s, cPc>>
    BY <1>10 DEF StartMotion
  <2> HIDE DEF TypeInv, TypeOK
  <2>2. IntoMotion(u)'
    <3>1. into'[u] \in {0, 1} /\ into'[u] # 1
      BY <2>1, ZeroIsSmall, Zenon
    <3>. QED  BY ONLY <3>1 DEF IntoMotion
  <2>3. AfterRelease(u)' /\ Gripper(u)'
    BY <2>1
  <2>. QED  BY <2>2, <2>3
<1>11. CASE MoveDirectly    BY <1>11 DEF MoveDirectly
<1>12. CASE EndMotion
  <2>1. /\ into'[u] = 0
        /\ UNCHANGED <<pc, moving, late, rushed, jog_deadman, jog_gripper_velocity_deg_s, cPc>>
    BY <1>12 DEF EndMotion
  <2> HIDE DEF TypeInv, TypeOK
  <2>2. IntoMotion(u)'
    <3>1. into'[u] \in {0, 1} /\ into'[u] # 1
      BY <2>1, ZeroIsSmall, Zenon
    <3>. QED  BY ONLY <3>1 DEF IntoMotion
  <2>3. AfterRelease(u)' /\ Gripper(u)'
    BY <2>1
  <2>. QED  BY <2>2, <2>3
<1>13. CASE Lapse           BY <1>13 DEF Lapse
<1>14. CASE UNCHANGED vars  BY <1>14 DEF vars
<1>. QED
  BY <1>1, <1>2, <1>3, <1>4, <1>5, <1>6, <1>7, <1>8, <1>9, <1>10, <1>11, <1>12,
     <1>13, <1>14, <1>15 DEF Next, Handle, TakeCommand

JogInv == TypeInv /\ \A u \in Thread : RoundInv(u)

LEMMA JogInvariant == Spec => []JogInv
<1>1. Init => JogInv
  BY TypeInit, RoundInit DEF JogInv
<1>2. JogInv /\ [Next]_vars => JogInv'
  <2>1. Thread' = Thread
    BY DEF Thread
  <2>. QED  BY <2>1, TypeStep, RoundStep DEF JogInv
<1>. QED  BY <1>1, <1>2, PTL DEF Spec

\* However many sessions overlap, a jog thread writes at most one goal that
\* moves the arm after the deadman switch has been let go.
THEOREM DeadmanHolds == Spec => []OneGoalAfterRelease
<1>1. JogInv => OneGoalAfterRelease
  <2> SUFFICES ASSUME JogInv, NEW t \in Thread PROVE late[t] <= 1
    BY DEF OneGoalAfterRelease
  <2>1. late[t] \in {0, 1}
    BY DEF JogInv, RoundInv, AfterRelease
  <2>. QED  BY <2>1
<1>. QED  BY <1>1, JogInvariant, PTL

\* A jog thread writes at most one goal into a motion.
THEOREM MotionPauses == Spec => []OneGoalIntoMotion
<1>1. JogInv => OneGoalIntoMotion
  <2> SUFFICES ASSUME JogInv, NEW t \in Thread PROVE into[t] <= 1
    BY DEF OneGoalIntoMotion
  <2>1. into[t] \in {0, 1}
    BY DEF JogInv, RoundInv, IntoMotion
  <2>. QED  BY <2>1
<1>. QED  BY <1>1, JogInvariant, PTL

\* The gripper moves with the switch let go only on a rate that came in after
\* that and after the thread's last look at it, or while the switch is being let go.
THEOREM GripperIsGated == Spec => []GripperGated
<1>1. JogInv => GripperGated
  BY DEF JogInv, RoundInv, Gripper, GripperGated, At
<1>. QED  BY <1>1, JogInvariant, PTL

-----------------------------------------------------------------------------
(***************************************************************************)
(* Who is registered.  JOG_STOP awaits the thread that trajectory_state    *)
(* names; another one that still jogs has outlived its half second, or has *)
(* lost its registration to a predecessor or to a new session.             *)
(***************************************************************************)
Registered ==
  /\ \A t \in Thread : Jogs(t) => jog_thread = t \/ t \in outlived \cup disowned
  /\ cPc = "braked" => jog_thread = 0

LEMMA NobodyIsZero == 0 \notin Thread
  BY DEF Thread

\* A thread that has left its loop does not come back.
LEMMA NoReturn ==
  ASSUME TypeInv, NEW t \in Thread, JogLoop(t), NEW u \in Thread, Jogs(u)'
  PROVE  Jogs(u)
<1>1. CASE u # t
  <2>1. pc'[u] = pc[u]
    BY <1>1 DEF TypeInv, TypeOK, JogLoop, Begin, CheckFlags, Resync, CheckTimeout,
           ZeroVelocities, ReadVelocities, CheckDeadman, ZeroGripper, Write, MoveGripper,
           EndSession, CheckOwner, Disown, Goto, Jump
  <2>. QED  BY <2>1 DEF Jogs
<1>2. CASE u = t
  <2>1. CASE EndSession(t) \/ CheckOwner(t) \/ Disown(t)
    <3>1. pc'[t] \in {"owner?", "disown", "ended"}
      BY <2>1 DEF TypeInv, TypeOK, EndSession, CheckOwner, Disown, Goto, Jump
    <3>. QED  BY <1>2, <3>1 DEF Jogs
  <2>2. CASE ~(EndSession(t) \/ CheckOwner(t) \/ Disown(t))
    <3>1. pc[t] \in {"begin", "loop", "resync", "timeout?", "zero", "fk", "deadman?",
                     "zero gripper", "write", "gripper?"}
      BY <2>2 DEF JogLoop, Begin, CheckFlags, Resync, CheckTimeout, ZeroVelocities,
             ReadVelocities, CheckDeadman, ZeroGripper, Write, MoveGripper, At
    <3>. QED  BY <1>2, <3>1 DEF Jogs
  <2>. QED  BY <2>1, <2>2
<1>. QED  BY <1>1, <1>2

LEMMA RegisteredInit == ASSUME Init PROVE Registered
  BY DEF Init, Registered, Jogs

LEMMA RegisteredStep ==
  ASSUME TypeInv, Registered, [Next]_vars
  PROVE  Registered'
<1>1. CASE \E t \in Thread : JogLoop(t)
  <2>1. PICK t \in Thread : JogLoop(t)
    BY <1>1
  <2>2. UNCHANGED cPc /\ \A u \in Thread : u # t /\ u \in outlived => u \in outlived'
    BY <2>1 DEF JogLoop, Begin, CheckFlags, Resync, CheckTimeout, ZeroVelocities,
           ReadVelocities, CheckDeadman, ZeroGripper, Write, MoveGripper, EndSession,
           CheckOwner, Disown, Looks, losses
  <2>3. CASE Disown(t)
    <3>1. /\ pc[t] = "disown" /\ jog_thread' = 0
          /\ disowned' = Disowned(jog_thread)
      BY <2>3 DEF Disown, At
    <3>2. ~Jogs(t)
      BY <3>1 DEF Jogs
    <3>3. ASSUME NEW u \in Thread, Jogs(u)' PROVE u \in outlived' \cup disowned'
      <4>1. Jogs(u) /\ u # t /\ u # 0
        BY <2>1, <3>2, <3>3, NoReturn, NobodyIsZero
      <4>2. jog_thread = u \/ u \in outlived \cup disowned
        BY <4>1 DEF Registered
      <4>. QED  BY <2>2, <3>1, <4>1, <4>2 DEF Disowned
    <3>. QED  BY <2>2, <3>1, <3>3 DEF Registered
  <2>4. CASE ~Disown(t)
    <3>1. /\ UNCHANGED jog_thread
          /\ \A u \in Thread : u # t /\ u \in disowned => u \in disowned'
          /\ EndSession(t) \/ UNCHANGED <<outlived, disowned>>
      BY <2>1, <2>4 DEF JogLoop, Begin, CheckFlags, Resync, CheckTimeout, ZeroVelocities,
             ReadVelocities, CheckDeadman, ZeroGripper, Write, MoveGripper, EndSession,
             CheckOwner, Looks, losses, shared
    <3>2. ASSUME NEW u \in Thread, Jogs(u)'
          PROVE  jog_thread' = u \/ u \in outlived' \cup disowned'
      <4>1. Jogs(u)
        BY <2>1, <3>2, NoReturn
      <4>2. EndSession(t) => u # t
        BY <4>1 DEF EndSession, At, Jogs
      <4>. QED  BY <2>2, <3>1, <4>1, <4>2 DEF Registered
    <3>. QED  BY <2>2, <3>1, <3>2 DEF Registered
  <2>. QED  BY <2>3, <2>4
<1>2. CASE JogStartThread
  <2>1. /\ session + 1 \in Thread
        /\ jog_thread' = session + 1 /\ cPc' = "idle" /\ outlived' = outlived
        /\ disowned' = Disowned(jog_thread)
    BY <1>2, NextSession DEF JogStartThread, CommandAt
  <2>2. ASSUME NEW u \in Thread, Jogs(u)'
        PROVE  jog_thread' = u \/ u \in outlived' \cup disowned'
    <3>1. CASE u = session + 1
      BY <2>1, <3>1
    <3>2. CASE u # session + 1
      <4>1. pc'[u] = pc[u]
        BY <1>2, <3>2 DEF JogStartThread, Goto, Jump, TypeInv, TypeOK
      <4>2. Jogs(u) /\ (jog_thread = u \/ u \in outlived \cup disowned)
        BY <2>2, <4>1 DEF Jogs, Registered
      <4>. QED  BY <2>1, <4>2 DEF Disowned
    <3>. QED  BY <3>1, <3>2
  <2>3. cPc' # "braked"
    BY <2>1
  <2>. QED  BY <2>2, <2>3 DEF Registered
<1>3. CASE JogStopJoin
  <2>1. /\ jog_thread' = 0 /\ UNCHANGED <<pc, disowned>>
        /\ outlived' = outlived \cup {t \in Thread : t = jog_thread /\ Jogs(t)}
    BY <1>3 DEF JogStopJoin, jog
  <2>2. ASSUME NEW u \in Thread, Jogs(u)' PROVE u \in outlived' \cup disowned'
    <3>1. Jogs(u)
      BY <2>1, <2>2 DEF Jogs
    <3>2. jog_thread = u \/ u \in outlived \cup disowned
      BY <3>1 DEF Registered
    <3>. QED  BY <2>1, <3>1, <3>2
  <2>. QED  BY <2>1, <2>2 DEF Registered
<1>4. CASE \/ JogStart \/ JogStop \/ NextCommand \/ StartMotion \/ MoveDirectly
           \/ StampTime \/ ClearVelocities \/ ClearGripperVelocity \/ EndMotion \/ Lapse \/ UNCHANGED vars
           \/ \E v \in BOOLEAN : \/ SetJogVelocity(v) \/ SetGripperJogVelocity(v)
                                 \/ SetJogDeadman(v)
  <2>1. UNCHANGED <<pc, jog_thread, outlived, disowned>>
    BY <1>4 DEF JogStart, JogStop, NextCommand, StartMotion, MoveDirectly, EndMotion, Lapse,
           StampTime, ClearVelocities, ClearGripperVelocity, vars, SetJogVelocity, SetGripperJogVelocity, SetJogDeadman, shared, jog, losses
  <2>2. cPc' = "braked" => cPc = "braked"
    BY <1>4 DEF JogStart, JogStop, NextCommand, StartMotion, MoveDirectly, EndMotion, Lapse,
           StampTime, ClearVelocities, ClearGripperVelocity, vars, SetJogVelocity, SetGripperJogVelocity, SetJogDeadman, CommandAt
  <2>. QED  BY <2>1, <2>2 DEF Registered, Jogs
<1>. QED  BY <1>1, <1>2, <1>3, <1>4 DEF Next, Handle, TakeCommand

\* After the brake of a JOG_STOP only a thread that outlived the wait for it, or
\* that was not registered any more, writes another goal.
THEOREM BrakeHolds == Spec => []BrakeIsLast
<1>1. Init => TypeInv /\ Registered
  BY TypeInit, RegisteredInit
<1>2. TypeInv /\ Registered /\ [Next]_vars => (TypeInv /\ Registered)'
  BY TypeStep, RegisteredStep
<1>3. Registered => BrakeIsLast
  BY NobodyIsZero DEF Registered, BrakeIsLast
<1>. QED  BY <1>1, <1>2, <1>3, PTL DEF Spec

-----------------------------------------------------------------------------
(***************************************************************************)
(* Where the next goal starts from.  A thread that has looked while the    *)
(* motion was running waits for its end, and then reads the posture.       *)
(***************************************************************************)
Left(t) == pc[t] \in {"end", "owner?", "disown", "ended"}

Waits(t) ==
  t \notin unnoticed /\ is_running =>
    Left(t) \/ pc[t] = "unborn" \/ (pc[t] = "loop" /\ paused[t])

Follows(t) ==
  t \notin unnoticed /\ ~is_running =>
    \/ Left(t) \/ pc[t] \in {"unborn", "begin"}
    \/ q_current[t] = posture
    \/ pc[t] \in {"loop", "resync"} /\ paused[t]

Starts == Starting => ~is_running

SnapInv == Starts /\ \A t \in Thread : Waits(t) /\ Follows(t)

LEMMA SnapInit == ASSUME Init PROVE SnapInv
  BY DEF Init, SnapInv, Starts, Starting, Waits, Follows

LEMMA SnapOfOthers ==
  ASSUME TypeInv, NEW t \in Thread, JogLoop(t), NEW u \in Thread, u # t,
         Waits(u), Follows(u)
  PROVE  (Waits(u) /\ Follows(u))'
<1>1. pc'[u] = pc[u] /\ paused'[u] = paused[u] /\ q_current'[u] = q_current[u]
  BY DEF TypeInv, TypeOK, JogLoop, Begin, CheckFlags, Resync, CheckTimeout, ZeroVelocities,
         ReadVelocities, CheckDeadman, ZeroGripper, Write, MoveGripper, EndSession,
         CheckOwner, Disown, Goto, Jump
<1>2. /\ UNCHANGED <<is_running, posture>>
      /\ u \in unnoticed => u \in unnoticed'
  BY DEF JogLoop, Begin, CheckFlags, Resync, CheckTimeout, ZeroVelocities,
         ReadVelocities, CheckDeadman, ZeroGripper, Write, MoveGripper, EndSession,
         CheckOwner, Disown, Looks, shared, arm
<1>. QED  BY <1>1, <1>2 DEF Waits, Follows, Left

\* The round between two looks: nothing of what a goal starts from changes.
LEMMA SnapInRound ==
  ASSUME TypeInv, NEW u \in Thread, Waits(u), Follows(u),
         UNCHANGED <<is_running, posture, unnoticed, q_current>>,
         pc[u] \notin {"unborn", "begin", "loop", "resync"}, ~Left(u)
  PROVE  (Waits(u) /\ Follows(u))'
  BY DEF Waits, Follows, Left

LEMMA SnapOfOwn ==
  ASSUME TypeInv, NEW u \in Thread, JogLoop(u), Waits(u), Follows(u)
  PROVE  (Waits(u) /\ Follows(u))'
<1>0. UNCHANGED <<is_running, posture>>
  BY DEF JogLoop, Begin, CheckFlags, Resync, CheckTimeout, ZeroVelocities,
         ReadVelocities, CheckDeadman, ZeroGripper, Write, MoveGripper, EndSession,
         CheckOwner, Disown, Looks, shared, arm
<1>1. CASE Begin(u)
  <2>1. /\ pc[u] = "begin" /\ q_current'[u] = posture /\ unnoticed' = unnoticed
    BY <1>1 DEF Begin, At, Looks, arm, TypeInv, TypeOK
  <2>. QED  BY <1>0, <2>1 DEF Waits, Follows, Left
<1>2. CASE CheckFlags(u)
  <2>1. pc[u] = "loop" /\ q_current' = q_current
    BY <1>2 DEF CheckFlags, At, Goto
  <2>2. \/ pc'[u] = "end"
        \/ is_running /\ pc'[u] = "loop" /\ paused'[u]
        \/ ~is_running /\ unnoticed' = unnoticed /\ paused[u] /\ paused'[u] /\ pc'[u] = "resync"
        \/ ~is_running /\ unnoticed' = unnoticed /\ ~paused[u]
    BY <1>2, <2>1 DEF CheckFlags, Goto, Jump, TypeInv, TypeOK
  <2>. QED  BY <1>0, <2>1, <2>2 DEF Waits, Follows, Left
<1>3. CASE Resync(u)
  <2>1. /\ pc[u] = "resync" /\ q_current'[u] = posture /\ unnoticed' = unnoticed
    BY <1>3 DEF Resync, At, Looks, arm, TypeInv, TypeOK
  <2>. QED  BY <1>0, <2>1 DEF Waits, Follows, Left
<1>4. CASE \/ CheckTimeout(u) \/ ZeroVelocities(u) \/ ReadVelocities(u) \/ CheckDeadman(u)
           \/ ZeroGripper(u) \/ Write(u) \/ MoveGripper(u)
  <2>1. UNCHANGED <<q_current, unnoticed>>
    BY <1>4 DEF CheckTimeout, ZeroVelocities, ReadVelocities, CheckDeadman, ZeroGripper,
           Write, MoveGripper, Goto, Looks, arm
  <2>2. pc[u] \in {"timeout?", "zero", "fk", "deadman?", "zero gripper", "write", "gripper?"}
    BY <1>4 DEF CheckTimeout, ZeroVelocities, ReadVelocities, CheckDeadman, ZeroGripper,
           Write, MoveGripper, At
  <2>. QED  BY <1>0, <2>1, <2>2, SnapInRound DEF Left
<1>5. CASE EndSession(u) \/ CheckOwner(u) \/ Disown(u)
  <2>1. pc'[u] \in {"owner?", "disown", "ended"}
    BY <1>5 DEF EndSession, CheckOwner, Disown, Goto, Jump, TypeInv, TypeOK
  <2>. QED  BY <2>1 DEF Waits, Follows, Left
<1>. QED  BY <1>1, <1>2, <1>3, <1>4, <1>5 DEF JogLoop

LEMMA SnapStep ==
  ASSUME TypeInv, SnapInv, [Next]_vars
  PROVE  SnapInv'
<1>1. CASE \E t \in Thread : JogLoop(t)
  <2>1. PICK t \in Thread : JogLoop(t)
    BY <1>1
  <2>2. ASSUME NEW u \in Thread PROVE (Waits(u) /\ Follows(u))'
    BY <2>1, SnapOfOthers, SnapOfOwn DEF SnapInv
  <2>3. UNCHANGED <<cPc, is_running>>
    BY <2>1 DEF JogLoop, Begin, CheckFlags, Resync, CheckTimeout, ZeroVelocities,
           ReadVelocities, CheckDeadman, ZeroGripper, Write, MoveGripper, EndSession,
           CheckOwner, Disown, Looks, shared
  <2>. QED  BY <2>2, <2>3 DEF SnapInv, Starts, Starting, Thread
<1>2. CASE JogStart
  BY <1>2 DEF JogStart, CommandAt, SnapInv, Starts, Starting, Waits, Follows, Left, Thread, jog, arm
<1>3. CASE JogStartThread
  <2>1. /\ ~is_running /\ session + 1 \in Thread /\ cPc' = "idle"
        /\ UNCHANGED <<is_running, posture, unnoticed, q_current, paused>>
    BY <1>3, NextSession DEF JogStartThread, CommandAt, Goto, arm, SnapInv, Starts, Starting
  <2>2. ASSUME NEW u \in Thread PROVE (Waits(u) /\ Follows(u))'
    <3>1. pc'[u] = "begin" \/ pc'[u] = pc[u]
      BY <1>3, <2>1 DEF JogStartThread, Goto, Jump, TypeInv, TypeOK
    <3>2. Waits(u) /\ Follows(u)
      BY DEF SnapInv
    <3>. QED  BY <2>1, <3>1, <3>2 DEF Waits, Follows, Left
  <2>. QED  BY <2>1, <2>2 DEF SnapInv, Starts, Starting, Thread
<1>4. CASE StartMotion \/ MoveDirectly
  <2>1. /\ unnoticed' = {t \in Thread : Jogs(t)} /\ cPc' = "idle"
        /\ UNCHANGED pc
    BY <1>4 DEF StartMotion, MoveDirectly, CommandAt, jog
  <2>2. ASSUME NEW u \in Thread PROVE (Waits(u) /\ Follows(u))'
    <3>1. u \in unnoticed' \/ Left(u)' \/ pc'[u] = "unborn"
      BY <2>1 DEF Jogs, Left
    <3>. QED  BY <3>1 DEF Waits, Follows
  <2>. QED  BY <2>1, <2>2 DEF SnapInv, Starts, Starting, Thread
<1>5. CASE EndMotion
  <2>1. is_running /\ ~is_running' /\ UNCHANGED <<pc, paused, unnoticed>>
    BY <1>5 DEF EndMotion, jog
  <2>. QED  BY <2>1 DEF SnapInv, Starts, Starting, Waits, Follows, Left, Thread
<1>6. CASE \/ JogStop \/ JogStopJoin \/ NextCommand \/ Lapse \/ UNCHANGED vars
           \/ StampTime \/ ClearVelocities \/ ClearGripperVelocity
           \/ \E v \in BOOLEAN : \/ SetJogVelocity(v) \/ SetGripperJogVelocity(v)
                                 \/ SetJogDeadman(v)
  <2>1. UNCHANGED <<pc, q_current, paused, is_running, posture, unnoticed>>
    BY <1>6 DEF JogStop, JogStopJoin, NextCommand, Lapse, StampTime, ClearVelocities,
           ClearGripperVelocity, vars, SetJogVelocity, SetGripperJogVelocity, SetJogDeadman, shared, jog, arm
  <2>2. Starting' => Starting
    BY <1>6 DEF JogStop, JogStopJoin, NextCommand, Lapse, StampTime, ClearVelocities,
           ClearGripperVelocity, vars, SetJogVelocity, SetGripperJogVelocity, SetJogDeadman, CommandAt,
           Starting
  <2>. QED  BY <2>1, <2>2 DEF SnapInv, Starts, Starting, Waits, Follows, Left, Thread
<1>. QED  BY <1>1, <1>2, <1>3, <1>4, <1>5, <1>6 DEF Next, Handle, TakeCommand

WritesFromPosture ==
  \A t \in Thread :
    pc[t] = "write" /\ pc'[t] # "write" /\ ~is_running
      => q_current[t] = posture \/ t \in unnoticed

\* A goal written outside a motion starts from the posture the arm has, unless
\* the thread has slept through the last motion.
THEOREM PostureIsFollowed == Spec => NoSnapBack
<1>1. Init => TypeInv /\ SnapInv
  BY TypeInit, SnapInit
<1>2. TypeInv /\ SnapInv /\ [Next]_vars => (TypeInv /\ SnapInv)'
  BY TypeStep, SnapStep
<1>3. SnapInv => WritesFromPosture
  BY DEF SnapInv, Follows, Left, WritesFromPosture
<1>4. SnapInv => [WritesFromPosture]_vars
  BY <1>3
<1>5. NoSnapBack <=> [][WritesFromPosture]_vars
  BY DEF NoSnapBack, WritesFromPosture
<1>. QED  BY <1>1, <1>2, <1>4, <1>5, PTL DEF Spec
=============================================================================
