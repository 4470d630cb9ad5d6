----------------------------- MODULE Streaming -----------------------------
(***************************************************************************)
(* One setpoint stream: the MotionHandle (motion_handle.py), the pacing    *)
(* thread behind it (_streaming_mixin.py for the Feetech servos, its copy  *)
(* in the simulation backend) and any number of threads that pause, resume *)
(* and cancel it.                                                          *)
(*                                                                         *)
(* A method's lock-protected part is one step; what it does before or      *)
(* after the lock (an event set or cleared, a bus access) is a step of its *)
(* own.  A call that returns early has changed nothing and is no step.     *)
(*                                                                         *)
(* Time is counted in pacing periods since start_time: t is what           *)
(* time.monotonic() - start_time would give now, and the path ends at      *)
(* PathEnd.  Over stands for every time from PathEnd + 2 on.  A goal is    *)
(* named after why it is written; caps, interpolation and the clamp to the *)
(* path's bounds are left out.                                             *)
(***************************************************************************)
EXTENDS Naturals, Sequences

CONSTANTS
  Client,    (* the threads that hold the handle                           *)
  PathEnd,   (* path[-1][0] in pacing periods                              *)
  Backends,  (* bound: the backends considered                             *)
  MaxCalls   (* bound: calls of each client that have an effect            *)

ASSUME Assumptions ==
  /\ PathEnd \in Nat /\ MaxCalls \in Nat
  /\ Backends \subseteq {"feetech", "simulation", "fast forward"}

VARIABLES
  backend,                        (* whose stream this is                  *)
  state, resume_event, done_event,(* the handle                            *)
  pPc, t, cycle,                  (* the pacing thread and its clock       *)
  cPc, calls,                     (* the clients                           *)
  goal,                           (* the last goal written to the servos   *)
  lateGoals, failed               (* history: what the pacing thread wrote *)
                                  (* after a cancel; its first or its last *)
                                  (* write has failed                      *)

handle     == <<state, resume_event, done_event>>
pVars      == <<pPc, t, cycle>>
clientVars == <<cPc, calls>>
history    == <<lateGoals, failed>>
vars       == <<backend, handle, pVars, clientVars, goal, history>>

MotionState == {"RUNNING", "PAUSED", "CANCELLED", "DONE"}
Final       == {"CANCELLED", "DONE"}
Over        == PathEnd + 2
StreamGoal  == {"initial", "path", "segment", "final"}

Init ==
  /\ backend \in Backends
  /\ state = "RUNNING" /\ resume_event = TRUE /\ done_event = FALSE
  /\ pPc = "initial" /\ t = 0 /\ cycle = 0
  /\ cPc = [c \in Client |-> "idle"] /\ calls = [c \in Client |-> 0]
  /\ goal = "none" /\ lateGoals = <<>> /\ failed = FALSE

-----------------------------------------------------------------------------
(* The pacing thread.                                                      *)

Write(g) ==
  /\ goal' = g
  /\ lateGoals' = IF state = "CANCELLED" THEN Append(lateGoals, g) ELSE lateGoals
  /\ UNCHANGED failed

\* Only a real bus can fail; the simulation keeps its positions in memory.
WriteFails == backend = "feetech" /\ UNCHANGED <<goal, lateGoals>>

\* A failed first write ends the stream.
InitialWrite ==
  /\ pPc = "initial"
  /\ \/ Write("initial") /\ pPc' = "loop"
     \/ WriteFails /\ failed' = TRUE /\ pPc' = "mark"
  /\ UNCHANGED <<backend, handle, t, cycle, clientVars>>

\* Mutant: the loop goes on after a cancel.
CheckStopOnlyDone ==
  /\ pPc = "loop"
  /\ pPc' = IF state = "DONE" THEN "mark" ELSE "pause?"
  /\ UNCHANGED <<backend, handle, t, cycle, clientVars, goal, history>>

CheckStop ==
  /\ pPc = "loop"
  /\ pPc' = IF state \in Final THEN "mark" ELSE "pause?"
  /\ UNCHANGED <<backend, handle, t, cycle, clientVars, goal, history>>

CheckPause ==
  /\ pPc = "pause?"
  /\ pPc' = IF state = "PAUSED" THEN "blocked" ELSE "clock"
  /\ UNCHANGED <<backend, handle, t, cycle, clientVars, goal, history>>

\* _wait_for_resume without a timeout.
Unblock ==
  /\ pPc = "blocked" /\ resume_event
  /\ pPc' = "stop?"
  /\ UNCHANGED <<backend, handle, t, cycle, clientVars, goal, history>>

CheckStopAfterPause ==
  /\ pPc = "stop?"
  /\ pPc' = IF state \in Final THEN "mark" ELSE "locate"
  /\ UNCHANGED <<backend, handle, t, cycle, clientVars, goal, history>>

\* Mutant: the nearest sample is looked for past the end of the path.
LocatePastEnd ==
  /\ pPc = "locate"
  /\ \E best \in 0..(Over + 1) : t' = best
  /\ pPc' = "clock"
  /\ UNCHANGED <<backend, handle, cycle, clientVars, goal, history>>

\* _resume_from_current: the path time nearest to where the arm is, or the start of
\* the path when the read fails.  The simulation starts counting cycles afresh.
Locate ==
  /\ pPc = "locate"
  /\ \E best \in 0..PathEnd : t' = best
  /\ \/ pPc' = "clock"
     \/ backend = "feetech" /\ pPc' = "segment"
  /\ cycle' = IF backend = "feetech" THEN cycle ELSE 0
  /\ UNCHANGED <<backend, handle, clientVars, goal, history>>

\* The arm has drifted off the path: a profiled segment takes it back first.
WriteSegment ==
  /\ pPc = "segment"
  /\ \/ Write("segment")
     \/ WriteFails /\ UNCHANGED failed
  /\ pPc' = "clock"
  /\ UNCHANGED <<backend, handle, t, cycle, clientVars>>

\* t_now, from the wall clock or from the cycle count.
ReadClock ==
  /\ pPc = "clock"
  /\ LET now == IF backend = "fast forward" THEN cycle ELSE t
     IN  pPc' = IF now > PathEnd THEN "final" ELSE "write"
  /\ UNCHANGED <<backend, handle, t, cycle, clientVars, goal, history>>

\* The horizon rule: past the end of the path its last sample is written once.
WriteFinal ==
  /\ pPc = "final"
  /\ \/ Write("final")
     \/ WriteFails /\ failed' = TRUE
  /\ pPc' = "mark"
  /\ UNCHANGED <<backend, handle, t, cycle, clientVars>>

\* A failed write of a goal is skipped.
WriteGoal ==
  /\ pPc = "write"
  /\ \/ Write("path")
     \/ WriteFails /\ UNCHANGED failed
  /\ cycle' = IF cycle > Over THEN cycle ELSE cycle + 1
  /\ pPc' = "sleep"
  /\ UNCHANGED <<backend, handle, t, clientVars>>

\* Sleep until start_time + cycle * period, if that is still to come.
Sleep ==
  /\ pPc = "sleep"
  /\ backend = "fast forward" \/ t >= cycle \/ t = Over
  /\ pPc' = "loop"
  /\ UNCHANGED <<backend, handle, t, cycle, clientVars, goal, history>>

\* Mutant: a cancelled stream is reported as done.
MarkDoneAlways ==
  /\ pPc = "mark"
  /\ state' = "DONE"
  /\ pPc' = "set done"
  /\ UNCHANGED <<backend, resume_event, done_event, t, cycle, clientVars, goal, history>>

\* _mark_done, which the failing paths reach twice to the same effect.
MarkDone ==
  /\ pPc = "mark"
  /\ state' = IF state = "CANCELLED" THEN state ELSE "DONE"
  /\ pPc' = "set done"
  /\ UNCHANGED <<backend, resume_event, done_event, t, cycle, clientVars, goal, history>>

SetDone ==
  /\ pPc = "set done"
  /\ done_event' = TRUE
  /\ pPc' = "set resume"
  /\ UNCHANGED <<backend, state, resume_event, t, cycle, clientVars, goal, history>>

SetResume ==
  /\ pPc = "set resume"
  /\ resume_event' = TRUE
  /\ pPc' = "exited"
  /\ UNCHANGED <<backend, state, done_event, t, cycle, clientVars, goal, history>>

Pace == \/ InitialWrite \/ CheckStop \/ CheckPause \/ Unblock \/ CheckStopAfterPause
        \/ Locate \/ WriteSegment \/ ReadClock \/ WriteFinal \/ WriteGoal \/ Sleep
        \/ MarkDone \/ SetDone \/ SetResume

\* Time goes on, whatever the pacing thread is doing.
Tick ==
  /\ pPc # "exited" /\ t < Over
  /\ t' = t + 1
  /\ UNCHANGED <<backend, handle, pPc, cycle, clientVars, goal, history>>

-----------------------------------------------------------------------------
(* The clients.                                                            *)

Call(c, from, new, pc) ==
  /\ cPc[c] = "idle" /\ calls[c] < MaxCalls
  /\ state \in from
  /\ state' = new
  /\ cPc' = [cPc EXCEPT ![c] = pc]
  /\ calls' = [calls EXCEPT ![c] = @ + 1]
  /\ UNCHANGED <<backend, resume_event, done_event, pVars, goal, history>>

Pause(c)  == Call(c, {"RUNNING"}, "PAUSED", "pause clear")
Resume(c) == Call(c, {"PAUSED"}, "RUNNING", "resume set")

Cancel(c) == Call(c, MotionState \ Final, "CANCELLED", "cancel set")

Continue(c, from, to) ==
  /\ cPc[c] = from
  /\ cPc' = [cPc EXCEPT ![c] = to]
  /\ UNCHANGED <<backend, state, done_event, pVars, calls, history>>

PauseClear(c) ==
  /\ Continue(c, "pause clear", "idle")
  /\ resume_event' = FALSE
  /\ UNCHANGED goal

ResumeSet(c) ==
  /\ Continue(c, "resume set", "idle")
  /\ resume_event' = TRUE
  /\ UNCHANGED goal

\* Mutant: cancel leaves a paused stream blocked.
CancelSilently(c) ==
  /\ Continue(c, "cancel set", "brake read")
  /\ UNCHANGED <<resume_event, goal>>

CancelSet(c) ==
  /\ Continue(c, "cancel set", "brake read")
  /\ resume_event' = TRUE
  /\ UNCHANGED goal

\* The cancel callback reads the position and writes it as the goal.  It does
\* without when the read or the write fails.
BrakeRead(c) ==
  /\ \/ Continue(c, "brake read", "brake write")
     \/ backend = "feetech" /\ Continue(c, "brake read", "idle")
  /\ UNCHANGED <<resume_event, goal>>

BrakeWrite(c) ==
  /\ Continue(c, "brake write", "idle")
  /\ goal' = "brake" \/ (backend = "feetech" /\ UNCHANGED goal)
  /\ UNCHANGED resume_event

Finish(c) == \/ PauseClear(c) \/ ResumeSet(c) \/ CancelSet(c)
             \/ BrakeRead(c) \/ BrakeWrite(c)

-----------------------------------------------------------------------------
Next == \/ Pace \/ Tick
        \/ \E c \in Client : Pause(c) \/ Resume(c) \/ Cancel(c) \/ Finish(c)

Spec == Init /\ [][Next]_vars

\* The pacing thread and time go on; a call that has begun is finished.
FairSpec == /\ Spec
            /\ WF_vars(Pace) /\ WF_vars(Tick)
            /\ \A c \in Client : WF_vars(Finish(c))

-----------------------------------------------------------------------------
(* Properties.                                                             *)

\* Every variable of the handle, the two kinds of thread and the bus has its
\* type.
TypeOK ==
  /\ backend \in Backends
  /\ state \in MotionState /\ resume_event \in BOOLEAN /\ done_event \in BOOLEAN
  /\ pPc \in {"initial", "loop", "pause?", "blocked", "stop?", "locate", "segment",
              "clock", "final", "write", "sleep", "mark", "set done", "set resume",
              "exited"}
  /\ t \in 0..Over /\ cycle \in 0..(Over + 1)
  /\ cPc \in [Client -> {"idle", "pause clear", "resume set", "cancel set",
                         "brake read", "brake write"}]
  /\ calls \in [Client -> 0..MaxCalls]
  /\ goal \in StreamGoal \cup {"none", "brake"}
  /\ lateGoals \in Seq(StreamGoal) /\ failed \in BOOLEAN

\* "Path is dead": after a cancel the pacing thread gets out at most the one
\* goal it was about to write or, when it was resuming, the segment and one goal,
\* whatever else pauses, resumes or cancels meanwhile (motion_handle.py cancel).
\* Those two are 0.2 s apart, more than the 50 ms its docstring allows.
CancelIsPrompt ==
  Len(lateGoals) <= 1 \/ (Len(lateGoals) = 2 /\ lateGoals[1] = "segment")

\* A stream that ends as DONE has put the end of the path on the bus last, or its
\* first or last write has failed and no brake has followed: no cancel, no pause,
\* no resume and no other failed access is mistaken for the end
\* (motion_handle.py "path completed normally", which the two failures are not).
DoneAtPathEnd == state = "DONE" => goal = "final" \/ (failed /\ goal # "brake")

\* pause() sets the state inside the lock and clears the event outside it:
\* another call has got in between.
PauseOvertaken == \E c \in Client : cPc[c] = "pause clear" /\ state # "PAUSED"

\* Unless that happens, a stream that is not left paused ends, cancelled or
\* not, and whoever waits for it is woken.
EndsUnlessOvertaken ==
  []~PauseOvertaken => (<>[](state # "PAUSED") => <>done_event)

\* Unless that happens, the pacing thread sleeps in a pause only while the stream
\* is paused, or a client has yet to set the event after its resume or cancel.
NoLostResume ==
  []~PauseOvertaken =>
    [](pPc = "blocked" /\ ~resume_event =>
         state = "PAUSED" \/ \E c \in Client : cPc[c] \in {"resume set", "cancel set"})
=============================================================================
