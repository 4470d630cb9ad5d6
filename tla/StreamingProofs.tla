-------------------------- MODULE StreamingProofs --------------------------
(***************************************************************************)
(* What module Streaming shows of two clients and a path of two samples,   *)
(* for any clients, calls and length of the path: types, how soon a cancel *)
(* takes effect, and that a stream reported as done is.                    *)
(***************************************************************************)
EXTENDS Streaming, TLAPS

(***************************************************************************)
(* Type correctness, part by part.                                         *)
(***************************************************************************)
HandleOK ==
  state \in MotionState /\ resume_event \in BOOLEAN /\ done_event \in BOOLEAN

PacingOK ==
  /\ backend \in Backends
  /\ pPc \in {"initial", "loop", "pause?", "blocked", "stop?", "locate", "segment",
              "clock", "final", "write", "sleep", "mark", "set done", "set resume",
              "exited"}

ClockOK == t \in 0..Over /\ cycle \in 0..(Over + 1)

ClientsOK ==
  /\ cPc \in [Client -> {"idle", "pause clear", "resume set", "cancel set",
                         "brake read", "brake write"}]
  /\ calls \in [Client -> 0..MaxCalls]

GoalsOK ==
  /\ goal \in StreamGoal \cup {"none", "brake"}
  /\ lateGoals \in Seq(StreamGoal) /\ failed \in BOOLEAN

LEMMA Bounds == PathEnd \in Nat /\ MaxCalls \in Nat
  BY Assumptions, Zenon DEF Assumptions

LEMMA TypeParts == TypeOK <=> HandleOK /\ PacingOK /\ ClockOK /\ ClientsOK /\ GoalsOK
  BY DEF TypeOK, HandleOK, PacingOK, ClockOK, ClientsOK, GoalsOK

LEMMA WritesGoal ==
  ASSUME GoalsOK, NEW g \in StreamGoal, Write(g)
  PROVE  GoalsOK'
  BY DEF GoalsOK, Write

LEMMA FailsToWrite ==
  ASSUME GoalsOK, WriteFails, failed' = TRUE \/ UNCHANGED failed
  PROVE  GoalsOK'
  BY DEF GoalsOK, WriteFails

LEMMA TypeHandle ==
  ASSUME HandleOK, [Next]_vars
  PROVE  HandleOK'
<1> USE DEF HandleOK, MotionState
<1>1. CASE Pace
  BY <1>1 DEF Pace, InitialWrite, CheckStop, CheckPause, Unblock, CheckStopAfterPause,
     Locate, WriteSegment, ReadClock, WriteFinal, WriteGoal, Sleep, MarkDone, SetDone,
     SetResume, handle
<1>2. CASE Tick \/ UNCHANGED vars
  BY <1>2 DEF Tick, vars, handle
<1>3. ASSUME NEW c \in Client, Pause(c) \/ Resume(c) \/ Cancel(c)
      PROVE  HandleOK'
  BY <1>3 DEF Pause, Resume, Cancel, Call
<1>4. ASSUME NEW c \in Client, Finish(c)
      PROVE  HandleOK'
  BY <1>4 DEF Finish, PauseClear, ResumeSet, CancelSet, BrakeRead, BrakeWrite, Continue
<1>. QED  BY <1>1, <1>2, <1>3, <1>4 DEF Next

LEMMA TypePacing ==
  ASSUME PacingOK, [Next]_vars
  PROVE  PacingOK'
<1> USE DEF PacingOK
<1>1. CASE Pace
  BY <1>1 DEF Pace, InitialWrite, CheckStop, CheckPause, Unblock, CheckStopAfterPause,
     Locate, WriteSegment, ReadClock, WriteFinal, WriteGoal, Sleep, MarkDone, SetDone,
     SetResume
<1>2. CASE Tick \/ UNCHANGED vars
  BY <1>2 DEF Tick, vars, pVars
<1>3. ASSUME NEW c \in Client, Pause(c) \/ Resume(c) \/ Cancel(c)
      PROVE  PacingOK'
  BY <1>3 DEF Pause, Resume, Cancel, Call, pVars
<1>4. ASSUME NEW c \in Client, Finish(c)
      PROVE  PacingOK'
  BY <1>4 DEF Finish, PauseClear, ResumeSet, CancelSet, BrakeRead, BrakeWrite, Continue,
     pVars
<1>. QED  BY <1>1, <1>2, <1>3, <1>4 DEF Next

LEMMA TypeClock ==
  ASSUME ClockOK, [Next]_vars
  PROVE  ClockOK'
<1> USE Bounds DEF ClockOK, Over
<1>1. CASE Locate
  <2>1. t' = t \/ t' \in 0..PathEnd
    BY <1>1 DEF Locate
  <2>2. cycle' \in {0, cycle}
    BY <1>1 DEF Locate
  <2>. QED  BY <2>1, <2>2
<1>2. CASE WriteGoal
  <2>1. t' = t /\ cycle' = IF cycle > Over THEN cycle ELSE cycle + 1
    BY <1>2 DEF WriteGoal
  <2>. QED  BY <2>1
<1>3. CASE Tick
  BY <1>3 DEF Tick
<1>4. ASSUME NEW c \in Client, Pause(c) \/ Resume(c) \/ Cancel(c) \/ Finish(c)
      PROVE  t' = t /\ cycle' = cycle
  BY <1>4 DEF Pause, Resume, Cancel, Call, Finish, PauseClear, ResumeSet, CancelSet,
     BrakeRead, BrakeWrite, Continue, pVars
<1>5. CASE Pace /\ ~Locate /\ ~WriteGoal
  <2>1. t' = t /\ cycle' = cycle
    BY <1>5 DEF Pace, InitialWrite, CheckStop, CheckPause, Unblock, CheckStopAfterPause,
       WriteSegment, ReadClock, WriteFinal, Sleep, MarkDone, SetDone, SetResume
  <2>. QED  BY <2>1
<1>6. CASE UNCHANGED vars
  BY <1>6 DEF vars, pVars
<1>. QED  BY <1>1, <1>2, <1>3, <1>4, <1>5, <1>6 DEF Next

LEMMA OneCallMore ==
  ASSUME NEW f \in [Client -> 0..MaxCalls], NEW c \in Client, f[c] < MaxCalls
  PROVE  [f EXCEPT ![c] = @ + 1] \in [Client -> 0..MaxCalls]
  BY Bounds

LEMMA TypeClients ==
  ASSUME ClientsOK, [Next]_vars
  PROVE  ClientsOK'
<1> USE Bounds DEF ClientsOK
<1>1. CASE Pace \/ Tick \/ UNCHANGED vars
  BY <1>1 DEF Pace, InitialWrite, CheckStop, CheckPause, Unblock, CheckStopAfterPause,
     Locate, WriteSegment, ReadClock, WriteFinal, WriteGoal, Sleep, MarkDone, SetDone,
     SetResume, Tick, vars, clientVars
<1>3. ASSUME NEW c \in Client, Pause(c) \/ Resume(c) \/ Cancel(c)
      PROVE  ClientsOK'
  <2>1. PICK pc \in {"pause clear", "resume set", "cancel set"} :
          cPc' = [cPc EXCEPT ![c] = pc]
    BY <1>3 DEF Pause, Resume, Cancel, Call
  <2>2. calls[c] < MaxCalls /\ calls' = [calls EXCEPT ![c] = @ + 1]
    BY <1>3 DEF Pause, Resume, Cancel, Call
  <2>3. cPc' \in [Client -> {"idle", "pause clear", "resume set", "cancel set",
                            "brake read", "brake write"}]
    BY <2>1
  <2>4. calls' \in [Client -> 0..MaxCalls]
    <3>1. calls \in [Client -> 0..MaxCalls]
      OBVIOUS
    <3>. QED  BY <2>2, <3>1, OneCallMore, Zenon
  <2>. QED  BY <2>3, <2>4
<1>4. ASSUME NEW c \in Client, Finish(c)
      PROVE  ClientsOK'
  BY <1>4 DEF Finish, PauseClear, ResumeSet, CancelSet, BrakeRead, BrakeWrite, Continue
<1>. QED  BY <1>1, <1>3, <1>4 DEF Next

LEMMA TypeGoals ==
  ASSUME GoalsOK, [Next]_vars
  PROVE  GoalsOK'
<1>1. CASE InitialWrite \/ WriteSegment \/ WriteFinal \/ WriteGoal
  BY <1>1, WritesGoal, FailsToWrite
     DEF InitialWrite, WriteSegment, WriteFinal, WriteGoal, StreamGoal
<1>2. CASE Locate
  BY <1>2, FailsToWrite DEF Locate, GoalsOK, history
<1>3. CASE \/ CheckStop \/ CheckPause \/ Unblock \/ CheckStopAfterPause \/ ReadClock
           \/ Sleep \/ MarkDone \/ SetDone \/ SetResume \/ Tick \/ UNCHANGED vars
  BY <1>3 DEF CheckStop, CheckPause, Unblock, CheckStopAfterPause, ReadClock, Sleep,
     MarkDone, SetDone, SetResume, Tick, vars, history, GoalsOK
<1>4. ASSUME NEW c \in Client, Pause(c) \/ Resume(c) \/ Cancel(c)
      PROVE  GoalsOK'
  BY <1>4 DEF Pause, Resume, Cancel, Call, history, GoalsOK
<1>5. ASSUME NEW c \in Client, Finish(c)
      PROVE  GoalsOK'
  BY <1>5 DEF Finish, PauseClear, ResumeSet, CancelSet, BrakeRead, BrakeWrite, Continue,
     history, GoalsOK
<1>. QED  BY <1>1, <1>2, <1>3, <1>4, <1>5 DEF Next, Pace

\* Every variable of the handle, the pacing thread, the clients and the bus
\* keeps its type (motion_handle.py, _streaming_mixin.py).
THEOREM TypeCorrect == Spec => []TypeOK
<1>1. Init => TypeOK
  <2> SUFFICES ASSUME Init PROVE TypeOK  OBVIOUS
  <2>1. HandleOK /\ PacingOK  BY DEF Init, HandleOK, PacingOK, MotionState
  <2>2. ClockOK
    <3>1. t = 0 /\ cycle = 0  BY DEF Init
    <3>. QED  BY <3>1, Bounds DEF ClockOK, Over
  <2>3. ClientsOK            BY Bounds DEF Init, ClientsOK
  <2>4. GoalsOK              
    <3>1. goal = "none" /\ lateGoals = <<>> /\ failed = FALSE
      BY DEF Init
    <3>2. <<>> \in Seq(StreamGoal)
      OBVIOUS
    <3>. QED  BY <3>1, <3>2, Zenon DEF GoalsOK
  <2>. QED  BY <2>1, <2>2, <2>3, <2>4, TypeParts
<1>2. TypeOK /\ [Next]_vars => TypeOK'
  <2>1. TypeOK' <=> HandleOK' /\ PacingOK' /\ ClockOK' /\ ClientsOK' /\ GoalsOK'
    BY DEF TypeOK, HandleOK, PacingOK, ClockOK, ClientsOK, GoalsOK
  <2>. QED
    BY <2>1, TypeParts, TypeHandle, TypePacing, TypeClock, TypeClients, TypeGoals
<1>. QED  BY <1>1, <1>2, PTL DEF Spec

(***************************************************************************)
(* A cancel is prompt.  What the pacing thread has written after one is    *)
(* told apart by how far it had got since it last looked at the state:     *)
(* nothing before a path time is known, at most the segment of a resume    *)
(* until the goal of that time is out.                                     *)
(***************************************************************************)
Unaware == {"initial", "pause?", "blocked", "stop?", "locate", "segment"}

PromptInv ==
  /\ state # "CANCELLED" => lateGoals = <<>>
  /\ pPc \in Unaware => lateGoals = <<>>
  /\ pPc \in {"clock", "write", "final"} => lateGoals \in {<<>>, <<"segment">>}
  /\ CancelIsPrompt

AtMostOne(s) == Len(s) <= 1 \/ (Len(s) = 2 /\ s[1] = "segment")

LEMMA OneMore ==
  /\ Append(<<>>, "segment") = <<"segment">>
  /\ AtMostOne(<<>>) /\ AtMostOne(<<"segment">>)
  /\ \A g : AtMostOne(Append(<<>>, g))
  /\ \A g : AtMostOne(Append(<<"segment">>, g))
  BY DEF AtMostOne

LEMMA FirstPrompt ==
  ASSUME lateGoals = <<>> \/ lateGoals = <<"segment">>, NEW g \in StreamGoal, Write(g)
  PROVE  CancelIsPrompt'
<1>1. lateGoals' = lateGoals \/ lateGoals' = Append(lateGoals, g)
  BY Zenon DEF Write
<1>2. AtMostOne(lateGoals')
  BY <1>1, OneMore, Zenon
<1>. QED  BY <1>2 DEF CancelIsPrompt, AtMostOne

LEMMA PromptPace ==
  ASSUME PromptInv, Pace
  PROVE  PromptInv'
<1> USE DEF PromptInv, Unaware
<1>1. CASE InitialWrite
  <2>1. Write("initial") \/ WriteFails
    BY <1>1 DEF InitialWrite
  <2>2. CancelIsPrompt'
    BY <1>1, <2>1, FirstPrompt DEF InitialWrite, WriteFails, StreamGoal, CancelIsPrompt
  <2>3. state' # "CANCELLED" => lateGoals' = <<>>
    BY <1>1, <2>1 DEF InitialWrite, Write, WriteFails, handle
  <2>4. pPc' = "loop" \/ pPc' = "mark"
    BY <1>1 DEF InitialWrite
  <2>5. /\ pPc' \notin {"initial", "pause?", "blocked", "stop?", "locate", "segment"}
        /\ pPc' \notin {"clock", "write", "final"}
    BY <2>4
  <2>. QED  BY <2>2, <2>3, <2>5, Zenon
<1>2. CASE CheckStop
  BY <1>2 DEF CheckStop, Final, handle, history, CancelIsPrompt
<1>3. CASE CheckPause \/ Unblock \/ CheckStopAfterPause \/ ReadClock
  BY <1>3 DEF CheckPause, Unblock, CheckStopAfterPause, ReadClock, handle, history,
     CancelIsPrompt
<1>4. CASE Locate
  BY <1>4 DEF Locate, handle, history, CancelIsPrompt
<1>5. CASE WriteSegment
  <2>1. Write("segment") \/ WriteFails
    BY <1>5 DEF WriteSegment
  <2>2. CancelIsPrompt'
    BY <1>5, <2>1, FirstPrompt DEF WriteSegment, WriteFails, StreamGoal, CancelIsPrompt
  <2>. QED  BY <1>5, <2>1, <2>2, OneMore DEF WriteSegment, Write, WriteFails, handle
<1>6. CASE WriteFinal \/ WriteGoal
  <2>1. Write("final") \/ Write("path") \/ WriteFails
    BY <1>6 DEF WriteFinal, WriteGoal
  <2>2. CancelIsPrompt'
    BY <1>6, <2>1, FirstPrompt
       DEF WriteFinal, WriteGoal, WriteFails, StreamGoal, CancelIsPrompt
  <2>. QED  BY <1>6, <2>1, <2>2 DEF WriteFinal, WriteGoal, Write, WriteFails, handle
<1>7. CASE Sleep \/ MarkDone \/ SetDone \/ SetResume
  BY <1>7 DEF Sleep, MarkDone, SetDone, SetResume, handle, history, CancelIsPrompt
<1>. QED  BY <1>1, <1>2, <1>3, <1>4, <1>5, <1>6, <1>7 DEF Pace

LEMMA PromptStep ==
  ASSUME PromptInv, [Next]_vars
  PROVE  PromptInv'
<1> USE DEF PromptInv, Unaware, CancelIsPrompt
<1>1. CASE Pace
  BY <1>1, PromptPace
<1>2. CASE Tick \/ UNCHANGED vars
  BY <1>2 DEF Tick, vars, handle, pVars, history
<1>3. ASSUME NEW c \in Client, Pause(c) \/ Resume(c) \/ Cancel(c)
      PROVE  PromptInv'
  BY <1>3 DEF Pause, Resume, Cancel, Call, MotionState, Final, pVars, history
<1>4. ASSUME NEW c \in Client, Finish(c)
      PROVE  PromptInv'
  BY <1>4 DEF Finish, PauseClear, ResumeSet, CancelSet, BrakeRead, BrakeWrite, Continue,
     pVars, history
<1>. QED  BY <1>1, <1>2, <1>3, <1>4 DEF Next

\* "Path is dead": whatever the clients do, the pacing thread gets out at most the
\* goal it was about to write or, when it was resuming, the segment and one goal
\* (cancel of motion_handle.py, _pacing_loop and _resume_from_current of
\* _streaming_mixin.py).
THEOREM CancelHolds == Spec => []CancelIsPrompt
<1>1. Init => PromptInv
  BY DEF Init, PromptInv, Unaware, CancelIsPrompt
<1>2. PromptInv /\ [Next]_vars => PromptInv'
  BY PromptStep
<1>3. PromptInv => CancelIsPrompt
  BY DEF PromptInv
<1>. QED  BY <1>1, <1>2, <1>3, PTL DEF Spec

(***************************************************************************)
(* Done means done.  The pacing thread gets to _mark_done with the end of  *)
(* the path written, a failure or a cancel; a brake is written only by a   *)
(* client that has cancelled, and a cancel is for good.                    *)
(***************************************************************************)
Cancelling == {"cancel set", "brake read", "brake write"}
Ended      == {"set done", "set resume", "exited"}

DoneInv ==
  /\ \A c \in Client : cPc[c] \in Cancelling => state = "CANCELLED"
  /\ state = "DONE" => pPc \in Ended
  /\ goal = "brake" => state = "CANCELLED"
  /\ pPc = "mark" => state = "CANCELLED" \/ failed \/ goal = "final"
  /\ DoneAtPathEnd

LEMMA DonePace ==
  ASSUME DoneInv, Pace
  PROVE  DoneInv'
<1> USE DEF DoneInv, Cancelling, Ended, DoneAtPathEnd
<1>1. \A c \in Client : cPc'[c] \in Cancelling => state' = "CANCELLED"
  BY DEF Pace, InitialWrite, CheckStop, CheckPause, Unblock, CheckStopAfterPause, Locate,
     WriteSegment, ReadClock, WriteFinal, WriteGoal, Sleep, MarkDone, SetDone, SetResume,
     handle, clientVars
<1>2. state' = "DONE" => pPc' \in Ended
  BY DEF Pace, InitialWrite, CheckStop, CheckPause, Unblock, CheckStopAfterPause, Locate,
     WriteSegment, ReadClock, WriteFinal, WriteGoal, Sleep, MarkDone, SetDone, SetResume,
     handle
<1>3. pPc' = "mark" => state' = "CANCELLED" \/ failed' \/ goal' = "final"
  BY DEF Pace, InitialWrite, CheckStop, CheckPause, Unblock, CheckStopAfterPause, Locate,
     WriteSegment, ReadClock, WriteFinal, WriteGoal, Sleep, MarkDone, SetDone, SetResume,
     handle, Write, WriteFails, Final
<1>4. goal' = "brake" => state' = "CANCELLED"
  BY DEF Pace, InitialWrite, CheckStop, CheckPause, Unblock, CheckStopAfterPause, Locate,
     WriteSegment, ReadClock, WriteFinal, WriteGoal, Sleep, MarkDone, SetDone, SetResume,
     handle, Write, WriteFails
<1>5. DoneAtPathEnd'
  BY DEF Pace, InitialWrite, CheckStop, CheckPause, Unblock, CheckStopAfterPause, Locate,
     WriteSegment, ReadClock, WriteFinal, WriteGoal, Sleep, MarkDone, SetDone, SetResume,
     handle, history
<1>. QED  BY <1>1, <1>2, <1>3, <1>4, <1>5

LEMMA DoneStep ==
  ASSUME DoneInv, ClientsOK, [Next]_vars
  PROVE  DoneInv'
<1> USE DEF DoneInv, Cancelling, Ended, DoneAtPathEnd
<1>1. CASE Pace
  BY <1>1, DonePace
<1>2. CASE Tick \/ UNCHANGED vars
  BY <1>2 DEF Tick, vars, handle, pVars, clientVars, history
<1>3. ASSUME NEW c \in Client, Pause(c) \/ Resume(c) \/ Cancel(c)
      PROVE  DoneInv'
  BY <1>3 DEF Pause, Resume, Cancel, Call, MotionState, Final, pVars, history, ClientsOK
<1>4. ASSUME NEW c \in Client, Finish(c)
      PROVE  DoneInv'
  BY <1>4 DEF Finish, PauseClear, ResumeSet, CancelSet, BrakeRead, BrakeWrite, Continue,
     pVars, history, ClientsOK
<1>. QED  BY <1>1, <1>2, <1>3, <1>4 DEF Next

\* A stream reported as done has put the end of its path on the bus last, unless its
\* first or its last write failed; failed reads, failed writes in between, pauses,
\* resumes and cancels are no excuse (_mark_done of motion_handle.py, the horizon
\* rule of _pacing_loop).
THEOREM DoneHolds == Spec => []DoneAtPathEnd
<1>1. Init => DoneInv
  BY DEF Init, DoneInv, Cancelling, Ended, DoneAtPathEnd
<1>2. DoneInv /\ TypeOK /\ [Next]_vars => DoneInv'
  BY DoneStep, TypeParts
<1>3. DoneInv => DoneAtPathEnd
  BY DEF DoneInv
<1>. QED  BY <1>1, <1>2, <1>3, TypeCorrect, PTL DEF Spec

(***************************************************************************)
(* No resume is lost.  While no pause is overtaken, a cleared event means  *)
(* that the stream is paused, that a client is about to set it, or that    *)
(* the pacing thread is past its last wait.                                *)
(***************************************************************************)
Waking == \E c \in Client : cPc[c] \in {"resume set", "cancel set"}

EventInv == ~resume_event => state = "PAUSED" \/ Waking \/ pPc \in Ended

LEMMA EventStep ==
  ASSUME EventInv, ClientsOK, ~PauseOvertaken, [Next]_vars
  PROVE  EventInv'
<1>1. CASE Pace
  <2>1. cPc' = cPc
    BY <1>1 DEF Pace, InitialWrite, CheckStop, CheckPause, Unblock, CheckStopAfterPause,
       Locate, WriteSegment, ReadClock, WriteFinal, WriteGoal, Sleep, MarkDone, SetDone,
       SetResume, clientVars
  <2>2. /\ resume_event' = resume_event \/ resume_event'
        /\ pPc \in Ended => pPc' \in Ended
        /\ state' = state \/ pPc' \in Ended
    BY <1>1 DEF Pace, InitialWrite, CheckStop, CheckPause, Unblock, CheckStopAfterPause,
       Locate, WriteSegment, ReadClock, WriteFinal, WriteGoal, Sleep, MarkDone, SetDone,
       SetResume, handle, Ended
  <2>3. Waking => Waking'
    BY <2>1, Zenon DEF Waking
  <2>4. CASE resume_event'
    BY <2>4 DEF EventInv
  <2>5. CASE resume_event' = resume_event
    BY <2>2, <2>3, <2>5, Zenon DEF EventInv
  <2>. QED  BY <2>2, <2>4, <2>5
<1>2. CASE Tick \/ UNCHANGED vars
  BY <1>2 DEF Tick, vars, handle, pVars, clientVars, EventInv, Waking, Ended
<1>3. ASSUME NEW c \in Client, Pause(c) \/ Resume(c) \/ Cancel(c)
      PROVE  EventInv'
  <2>1. /\ resume_event' = resume_event /\ pPc' = pPc
        /\ \A d \in Client : d # c => cPc'[d] = cPc[d]
        /\ cPc[c] = "idle"
        /\ \/ state' = "PAUSED"
           \/ cPc'[c] \in {"resume set", "cancel set"}
    BY <1>3 DEF Pause, Resume, Cancel, Call, pVars, ClientsOK
  <2>. QED  BY <2>1 DEF EventInv, Waking
<1>4. ASSUME NEW c \in Client, ResumeSet(c) \/ CancelSet(c)
      PROVE  EventInv'
  BY <1>4 DEF ResumeSet, CancelSet, EventInv
<1>5. ASSUME NEW c \in Client, PauseClear(c)
      PROVE  EventInv'
  <2>1. cPc[c] = "pause clear" /\ state' = state
    BY <1>5 DEF PauseClear, Continue
  <2>2. state = "PAUSED"
    BY <2>1 DEF PauseOvertaken
  <2>. QED  BY <2>1, <2>2 DEF EventInv
<1>6. ASSUME NEW c \in Client, BrakeRead(c) \/ BrakeWrite(c)
      PROVE  EventInv'
  <2>1. /\ UNCHANGED <<resume_event, state, pPc>>
        /\ \A d \in Client : d # c => cPc'[d] = cPc[d]
        /\ cPc[c] \in {"brake read", "brake write"}
    BY <1>6 DEF BrakeRead, BrakeWrite, Continue, pVars, ClientsOK
  <2>. QED  BY <2>1 DEF EventInv, Waking
<1>. QED  BY <1>1, <1>2, <1>3, <1>4, <1>5, <1>6 DEF Next, Finish

\* No resume and no cancel is lost on a pacing thread that sleeps (pause, resume
\* and cancel of motion_handle.py set the event outside the lock), unless a pause
\* is overtaken: the part of EndsUnlessOvertaken that needs no fairness.
THEOREM ResumesKept == Spec => NoLostResume
<1> DEFINE Awake == pPc = "blocked" /\ ~resume_event => state = "PAUSED" \/ Waking
<1>1. Init => EventInv
  BY DEF Init, EventInv
<1>2. EventInv /\ TypeOK /\ ~PauseOvertaken /\ [Next]_vars => EventInv'
  BY EventStep, TypeParts
<1>3. EventInv => Awake
  BY DEF EventInv, Ended
<1> HIDE DEF Awake
<1>4. Spec => ([]~PauseOvertaken => []Awake)
  BY <1>1, <1>2, <1>3, TypeCorrect, PTL DEF Spec
<1>. QED  BY <1>4 DEF NoLostResume, Awake, Waking
=============================================================================
