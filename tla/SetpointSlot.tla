---------------------------- MODULE SetpointSlot ----------------------------
(***************************************************************************)
(* The path of a setpoint: Python writes it into the latest-wins slot of   *)
(* the shared memory (backend.py _write_setpoint), the IPC helper thread   *)
(* copies it out and publishes it as latest_targets, and the cyclic thread *)
(* copies that (main.cpp).  There is no lock on the way: at both hand-overs*)
(* the writer stores the fields and then a new sequence number, and the    *)
(* reader loads the sequence number before and after it copies the fields. *)
(*                                                                         *)
(* The fields are copied one axis at a time.  A position is named after    *)
(* the setpoint that commands it: setpoint n has q[i] = n for the axes it  *)
(* has a position for and the filler 0.0, named Filler, for the others.    *)
(* The mask does not always tell them apart: a setpoint for all joints is  *)
(* masked for every axis, and an axis without a joint gets the filler.     *)
(* The conversion to counts (scale, round, saturate) keeps those names.    *)
(* Memory is sequentially consistent, which favours the code.  Locals are  *)
(* cleared at the end of a pass, after their last use, to keep the states  *)
(* few.                                                                    *)
(***************************************************************************)
EXTENDS Integers, Sequences

CONSTANTS
  NumAxes,      (* axes 1..NumAxes                                         *)
  Mapped,       (* the axes _axis_to_joint gives a joint                   *)
  MaxSetpoints, (* bound: setpoints Python writes                          *)
  Kinds         (* bound: "all" (set_joint_positions) and "single"         *)
                (* (set_single_actuator_position), those Python uses       *)

ASSUME Assumptions ==
  /\ NumAxes \in Nat \ {0}
  /\ Mapped \subseteq 1..NumAxes
  /\ MaxSetpoints \in Nat \ {0}
  /\ Kinds \subseteq {"all", "single"}

VARIABLES
  (* Python *)
  wPc, wIdx, sent,
  (* the slot in shared memory *)
  slot,
  (* the helper thread *)
  hPc, hIdx, s1, copy, last_setpoint_seen,
  (* what the helper hands to the cyclic thread *)
  latest_targets,
  (* the cyclic thread; tracked is the target each axis is stepping towards *)
  rtPc, rtIdx, rtS1, rtCopy, tracked

pyVars == <<wPc, wIdx, sent>>
hVars  == <<hPc, hIdx, s1, copy, last_setpoint_seen>>
rtVars == <<rtPc, rtIdx, rtS1, rtCopy, tracked>>
vars   == <<pyVars, slot, hVars, latest_targets, rtVars>>

Axis     == 1..NumAxes
Filler   == 0
None     == -1
Value    == 0..MaxSetpoints
Fields   == [mask : SUBSET Axis, q : [Axis -> Value]]
Blank    == [mask |-> {}, q |-> [i \in Axis |-> Filler]]

\* The setpoint numbered n that is masked for the axes of mask and has a position
\* for those of given.
Setpoint(n, mask, given) ==
  [mask |-> mask, q |-> [i \in Axis |-> IF i \in given THEN n ELSE Filler]]

\* What a setpoint is masked for and has positions for: every axis and the mapped
\* ones, or one axis.
Requests == (IF "all" \in Kinds THEN {<<Axis, Mapped>>} ELSE {}) \cup
            (IF "single" \in Kinds THEN {<<{i}, {i}>> : i \in Axis} ELSE {})

Init ==
  /\ wPc = "idle" /\ wIdx = 1 /\ sent = <<>>
  /\ slot = [seq |-> 0, fields |-> Blank]
  /\ hPc = "s1" /\ hIdx = 1 /\ s1 = 0 /\ copy = Blank /\ last_setpoint_seen = 0
  /\ latest_targets = [seq |-> 0, fields |-> Blank]
  /\ rtPc = "s1" /\ rtIdx = 1 /\ rtS1 = 0 /\ rtCopy = Blank
  /\ tracked = [i \in Axis |-> None]

-----------------------------------------------------------------------------
(* Python, one writer.                                                     *)

BeginSetpoint(mask, given) ==
  /\ wPc = "idle" /\ Len(sent) < MaxSetpoints
  /\ sent' = Append(sent, Setpoint(Len(sent) + 1, mask, given))
  /\ wPc' = "q" /\ wIdx' = 1
  /\ UNCHANGED <<slot, hVars, latest_targets, rtVars>>

\* Mutant: the loop over the axes runs once too often.
WriteQOneMore ==
  /\ wPc = "q"
  /\ slot' = [slot EXCEPT !.fields.q[wIdx] = sent[Len(sent)].q[wIdx]]
  /\ IF wIdx <= NumAxes THEN wIdx' = wIdx + 1 /\ wPc' = "q"
                        ELSE wIdx' = 1 /\ wPc' = "mask"
  /\ UNCHANGED <<sent, hVars, latest_targets, rtVars>>

WriteQ ==
  /\ wPc = "q"
  /\ slot' = [slot EXCEPT !.fields.q[wIdx] = sent[Len(sent)].q[wIdx]]
  /\ IF wIdx < NumAxes THEN wIdx' = wIdx + 1 /\ wPc' = "q"
                       ELSE wIdx' = 1 /\ wPc' = "mask"
  /\ UNCHANGED <<sent, hVars, latest_targets, rtVars>>

WriteMask ==
  /\ wPc = "mask"
  /\ slot' = [slot EXCEPT !.fields.mask = sent[Len(sent)].mask]
  /\ wPc' = "seq"
  /\ UNCHANGED <<wIdx, sent, hVars, latest_targets, rtVars>>

WriteSeq ==
  /\ wPc = "seq"
  /\ slot' = [slot EXCEPT !.seq = Len(sent)]
  /\ wPc' = "idle"
  /\ UNCHANGED <<wIdx, sent, hVars, latest_targets, rtVars>>

WriteStep == WriteQ \/ WriteMask \/ WriteSeq

-----------------------------------------------------------------------------
(* The helper: copy the slot, and if the copy is accepted and new, convert *)
(* and publish it.                                                         *)

HelperReadSeq ==
  /\ hPc = "s1"
  /\ s1' = slot.seq
  /\ hPc' = "mask"
  /\ UNCHANGED <<pyVars, slot, hIdx, copy, last_setpoint_seen, latest_targets,
                 rtVars>>

HelperCopyMask ==
  /\ hPc = "mask"
  /\ copy' = [copy EXCEPT !.mask = slot.fields.mask]
  /\ hPc' = "q"
  /\ UNCHANGED <<pyVars, slot, hIdx, s1, last_setpoint_seen, latest_targets,
                 rtVars>>

HelperCopyQ ==
  /\ hPc = "q"
  /\ copy' = [copy EXCEPT !.q[hIdx] = slot.fields.q[hIdx]]
  /\ IF hIdx < NumAxes THEN hIdx' = hIdx + 1 /\ hPc' = "q"
                       ELSE hIdx' = 1 /\ hPc' = "s2"
  /\ UNCHANGED <<pyVars, slot, s1, last_setpoint_seen, latest_targets, rtVars>>

\* The copy counts when the sequence number has not moved and is not 0.
AcceptsCopy == slot.seq = s1 /\ s1 # 0

HelperCheck ==
  /\ hPc = "s2"
  /\ IF AcceptsCopy /\ s1 # last_setpoint_seen
       THEN hPc' = "publish mask" /\ UNCHANGED <<s1, copy>>
       ELSE hPc' = "s1" /\ s1' = 0 /\ copy' = Blank
  /\ UNCHANGED <<pyVars, slot, hIdx, last_setpoint_seen, latest_targets, rtVars>>

PublishMask ==
  /\ hPc = "publish mask"
  /\ latest_targets' = [latest_targets EXCEPT !.fields.mask = copy.mask]
  /\ hPc' = "publish q"
  /\ UNCHANGED <<pyVars, slot, hIdx, s1, copy, last_setpoint_seen, rtVars>>

PublishCounts ==
  /\ hPc = "publish q"
  /\ latest_targets' = [latest_targets EXCEPT !.fields.q[hIdx] = copy.q[hIdx]]
  /\ IF hIdx < NumAxes THEN hIdx' = hIdx + 1 /\ hPc' = "publish q"
                       ELSE hIdx' = 1 /\ hPc' = "publish seq"
  /\ UNCHANGED <<pyVars, slot, s1, copy, last_setpoint_seen, rtVars>>

\* Mutant: the slot's sequence number is read again to remember what was seen.
PublishSeqReread ==
  /\ hPc = "publish seq"
  /\ latest_targets' = [latest_targets EXCEPT !.seq = s1]
  /\ last_setpoint_seen' = slot.seq
  /\ hPc' = "s1" /\ s1' = 0 /\ copy' = Blank
  /\ UNCHANGED <<pyVars, slot, hIdx, rtVars>>

PublishSeq ==
  /\ hPc = "publish seq"
  /\ latest_targets' = [latest_targets EXCEPT !.seq = s1]
  /\ last_setpoint_seen' = s1
  /\ hPc' = "s1" /\ s1' = 0 /\ copy' = Blank
  /\ UNCHANGED <<pyVars, slot, hIdx, rtVars>>

HelperStep == \/ HelperReadSeq \/ HelperCopyMask \/ HelperCopyQ \/ HelperCheck
              \/ PublishMask \/ PublishCounts \/ PublishSeq

-----------------------------------------------------------------------------
(* The cyclic thread: copy latest_targets once a cycle.                    *)

RtReadSeq ==
  /\ rtPc = "s1"
  /\ rtS1' = latest_targets.seq
  /\ rtPc' = "counts"
  /\ UNCHANGED <<pyVars, slot, hVars, latest_targets, rtIdx, rtCopy, tracked>>

RtCopyCounts ==
  /\ rtPc = "counts"
  /\ rtCopy' = [rtCopy EXCEPT !.q[rtIdx] = latest_targets.fields.q[rtIdx]]
  /\ IF rtIdx < NumAxes THEN rtIdx' = rtIdx + 1 /\ rtPc' = "counts"
                        ELSE rtIdx' = 1 /\ rtPc' = "mask"
  /\ UNCHANGED <<pyVars, slot, hVars, latest_targets, rtS1, tracked>>

RtCopyMask ==
  /\ rtPc = "mask"
  /\ rtCopy' = [rtCopy EXCEPT !.mask = latest_targets.fields.mask]
  /\ rtPc' = "s2"
  /\ UNCHANGED <<pyVars, slot, hVars, latest_targets, rtIdx, rtS1, tracked>>

\* "If torn, just hold": the axes of an accepted copy's mask get its targets.
RtAcceptsCopy == latest_targets.seq = rtS1

\* Mutant: a torn copy leaves zeroed targets behind instead of holding.
RtApplyZeroed ==
  /\ rtPc = "s2"
  /\ tracked' = [i \in Axis |-> IF RtAcceptsCopy /\ i \in rtCopy.mask
                                THEN rtCopy.q[i] ELSE Filler]
  /\ rtPc' = "s1" /\ rtS1' = 0 /\ rtCopy' = Blank
  /\ UNCHANGED <<pyVars, slot, hVars, latest_targets, rtIdx>>

RtApply ==
  /\ rtPc = "s2"
  /\ tracked' = [i \in Axis |-> IF RtAcceptsCopy /\ i \in rtCopy.mask
                                THEN rtCopy.q[i] ELSE tracked[i]]
  /\ rtPc' = "s1" /\ rtS1' = 0 /\ rtCopy' = Blank
  /\ UNCHANGED <<pyVars, slot, hVars, latest_targets, rtIdx>>

RtStep == RtReadSeq \/ RtCopyCounts \/ RtCopyMask \/ RtApply

-----------------------------------------------------------------------------
Next == \/ \E r \in Requests : BeginSetpoint(r[1], r[2])
        \/ WriteStep \/ HelperStep \/ RtStep

Spec == Init /\ [][Next]_vars

\* A write that has begun is finished; the helper polls with a timeout and the
\* cyclic thread runs on a timer.  Python need not send anything.
Fairness == WF_vars(WriteStep) /\ WF_vars(HelperStep) /\ WF_vars(RtStep)

FairSpec == Spec /\ Fairness

-----------------------------------------------------------------------------
(* Properties.                                                             *)

\* Every field of the three copies of a setpoint has its type.
TypeOK ==
  /\ wPc \in {"idle", "q", "mask", "seq"} /\ wIdx \in Axis
  /\ sent \in Seq(Fields) /\ Len(sent) <= MaxSetpoints
  /\ slot \in [seq : 0..MaxSetpoints, fields : Fields]
  /\ hPc \in {"s1", "mask", "q", "s2", "publish mask", "publish q", "publish seq"}
  /\ hIdx \in Axis /\ s1 \in 0..MaxSetpoints /\ copy \in Fields
  /\ last_setpoint_seen \in 0..MaxSetpoints
  /\ latest_targets \in [seq : 0..MaxSetpoints, fields : Fields]
  /\ rtPc \in {"s1", "counts", "mask", "s2"}
  /\ rtIdx \in Axis /\ rtS1 \in 0..MaxSetpoints /\ rtCopy \in Fields
  /\ tracked \in [Axis -> Value \cup {None}]

\* Torn copies included, an axis is sent to the filler, a position nobody asked it
\* to go to, in three ways only: by a copy taken before the first publication,
\* because the cyclic thread accepts sequence number 0; when it has no joint, by
\* any setpoint for all joints; and once Python has sent a setpoint for a single
\* axis, whose mask may be taken with the positions of another setpoint.  (The
\* RTCore plan, 15.11, has such a setpoint leave the other axes where they were.)
PhantomSources ==
  [][\A i \in Axis : tracked'[i] = Filler /\ tracked[i] # Filler =>
       \/ rtS1 = 0
       \/ i \notin Mapped
       \/ \E n \in DOMAIN sent : sent[n].mask # Axis]_vars

\* When Python sends no more (MaxSetpoints sees to it), every axis of the last
\* setpoint's mask ends up tracking the position in it, the filler for an axis
\* without a joint: a skipped or torn copy is made good and the last setpoint is
\* never lost.
SettlesOnLast ==
  <>[](\A i \in Axis :
         sent # <<>> /\ i \in sent[Len(sent)].mask => tracked[i] = sent[Len(sent)].q[i])

\* A torn copy is always of an older setpoint: what a thread has copied under the
\* number of the newest setpoint is that setpoint, whole.
NewestIsWhole ==
  sent # <<>> =>
    /\ latest_targets.seq = Len(sent) => latest_targets.fields = sent[Len(sent)]
    /\ rtPc = "s2" /\ rtS1 = Len(sent) => rtCopy = sent[Len(sent)]

\* An axis that has reached a position of the newest setpoint stays there until
\* Python sends another: no late copy of an older one takes it back.
NewestIsKept ==
  [][\A i \in Axis : sent # <<>> /\ sent' = sent /\ sent[Len(sent)].q[i] = Len(sent) /\
       tracked[i] = Len(sent) => tracked'[i] = Len(sent)]_vars
=============================================================================
