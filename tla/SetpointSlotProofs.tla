------------------------- MODULE SetpointSlotProofs -------------------------
(***************************************************************************)
(* What module SetpointSlot shows of two axes and three setpoints, for any *)
(* number of axes and setpoints: types, where a position that no setpoint  *)
(* commanded can come from, that the newest setpoint is never torn, and    *)
(* that an axis that has reached it stays there.                           *)
(***************************************************************************)
EXTENDS SetpointSlot, SequenceTheorems, TLAPS

(***************************************************************************)
(* Type correctness, part by part.                                         *)
(***************************************************************************)
PlacesOK ==
  /\ wPc \in {"idle", "q", "mask", "seq"}
  /\ hPc \in {"s1", "mask", "q", "s2", "publish mask", "publish q", "publish seq"}
  /\ rtPc \in {"s1", "counts", "mask", "s2"}

AxesOK == wIdx \in Axis /\ hIdx \in Axis /\ rtIdx \in Axis

SentOK ==
  /\ sent \in Seq(Fields) /\ Len(sent) \in 0..MaxSetpoints
  /\ wPc # "idle" => Len(sent) # 0

SeqsOK ==
  /\ slot.seq \in 0..MaxSetpoints /\ latest_targets.seq \in 0..MaxSetpoints
  /\ s1 \in 0..MaxSetpoints /\ last_setpoint_seen \in 0..MaxSetpoints
  /\ rtS1 \in 0..MaxSetpoints

FieldsOK ==
  /\ slot = [seq |-> slot.seq, fields |-> slot.fields] /\ slot.fields \in Fields
  /\ latest_targets = [seq |-> latest_targets.seq, fields |-> latest_targets.fields]
  /\ latest_targets.fields \in Fields
  /\ copy \in Fields /\ rtCopy \in Fields

TrackedOK == tracked \in [Axis -> Value \cup {None}]

Typed == PlacesOK /\ AxesOK /\ SentOK /\ SeqsOK /\ FieldsOK /\ TrackedOK

LEMMA Bounds ==
  NumAxes \in Nat \ {0} /\ MaxSetpoints \in Nat \ {0} /\ Mapped \subseteq Axis
  BY Assumptions, Zenon DEF Assumptions, Axis

LEMMA NextAxis ==
  ASSUME NEW i \in Axis, i < NumAxes
  PROVE  i + 1 \in Axis
  BY Bounds DEF Axis

LEMMA BlankTyped == Blank \in Fields
<1>1. 0 \in Value
  BY Bounds DEF Value
<1>. QED  BY <1>1, Zenon DEF Blank, Fields, Filler

LEMMA FirstAxis == 1 \in Axis
  BY Bounds DEF Axis

LEMMA TypeImplied == Typed => TypeOK
<1> SUFFICES ASSUME Typed PROVE TypeOK
  OBVIOUS
<1>1. Len(sent) <= MaxSetpoints
  BY Bounds DEF Typed, SentOK
<1>2. slot \in [seq : 0..MaxSetpoints, fields : Fields]
  BY Zenon DEF Typed, SeqsOK, FieldsOK
<1>3. latest_targets \in [seq : 0..MaxSetpoints, fields : Fields]
  BY Zenon DEF Typed, SeqsOK, FieldsOK
<1>. QED  BY <1>1, <1>2, <1>3, Zenon
          DEF TypeOK, Typed, PlacesOK, AxesOK, SentOK, SeqsOK, FieldsOK, TrackedOK

LEMMA TypeInit == Init => Typed
<1> SUFFICES ASSUME Init PROVE Typed
  OBVIOUS
<1>1. PlacesOK /\ AxesOK
  BY FirstAxis DEF Init, PlacesOK, AxesOK
<1>2. 0 \in 0..MaxSetpoints
  BY Bounds
<1>3. SentOK
  BY <1>2 DEF Init, SentOK
<1>4. SeqsOK
  BY <1>2 DEF Init, SeqsOK
<1>5. FieldsOK
  BY BlankTyped DEF Init, FieldsOK
<1>6. TrackedOK
  BY Zenon DEF Init, TrackedOK
<1>. QED  BY <1>1, <1>3, <1>4, <1>5, <1>6 DEF Typed

LEMMA TypePlaces == ASSUME PlacesOK, [Next]_vars PROVE PlacesOK'
  BY DEF PlacesOK, Next, BeginSetpoint, WriteStep, WriteQ, WriteMask, WriteSeq, HelperStep,
     HelperReadSeq, HelperCopyMask, HelperCopyQ, HelperCheck, PublishMask, PublishCounts,
     PublishSeq, RtStep, RtReadSeq, RtCopyCounts, RtCopyMask, RtApply, vars, pyVars, hVars,
     rtVars

LEMMA TypeAxes == ASSUME AxesOK, [Next]_vars PROVE AxesOK'
<1>1. /\ wIdx' \in {1, wIdx} \/ (wIdx < NumAxes /\ wIdx' = wIdx + 1)
      /\ hIdx' \in {1, hIdx} \/ (hIdx < NumAxes /\ hIdx' = hIdx + 1)
      /\ rtIdx' \in {1, rtIdx} \/ (rtIdx < NumAxes /\ rtIdx' = rtIdx + 1)
  BY DEF Next, BeginSetpoint, WriteStep, WriteQ, WriteMask, WriteSeq, HelperStep,
     HelperReadSeq, HelperCopyMask, HelperCopyQ, HelperCheck, PublishMask, PublishCounts,
     PublishSeq, RtStep, RtReadSeq, RtCopyCounts, RtCopyMask, RtApply, vars, pyVars, hVars,
     rtVars
<1>. QED  BY <1>1, FirstAxis, NextAxis DEF AxesOK

\* A request is about axes; it has positions for the mapped axes of its mask.
LEMMA RequestTyped ==
  ASSUME NEW r \in Requests
  PROVE  r[1] \in SUBSET Axis /\ r[2] \in SUBSET Axis /\ r[1] \cap Mapped \subseteq r[2]
<1>1. CASE r = <<Axis, Mapped>>
  BY <1>1, Bounds
<1>2. ASSUME NEW i \in Axis, r = <<{i}, {i}>>
      PROVE  r[1] \in SUBSET Axis /\ r[2] \in SUBSET Axis /\ r[1] \cap Mapped \subseteq r[2]
  BY <1>2
<1>. QED  BY <1>1, <1>2 DEF Requests

LEMMA SetpointTyped ==
  ASSUME NEW k \in Value, NEW mask \in SUBSET Axis, NEW given
  PROVE  Setpoint(k, mask, given) \in Fields
<1>1. 0 \in Value
  BY Bounds DEF Value
<1>2. [i \in Axis |-> IF i \in given THEN k ELSE 0] \in [Axis -> Value]
  BY <1>1, Zenon
<1>. QED  BY <1>2, Zenon DEF Setpoint, Fields, Filler

LEMMA TypeSent == ASSUME SentOK, [Next]_vars PROVE SentOK'
<1>1. ASSUME NEW r \in Requests, BeginSetpoint(r[1], r[2])
      PROVE  SentOK'
  <2> DEFINE new == Setpoint(Len(sent) + 1, r[1], r[2])
  <2>1. Len(sent) + 1 \in 1..MaxSetpoints /\ sent' = Append(sent, new)
    BY <1>1, Bounds DEF BeginSetpoint, SentOK
  <2>2. new \in Fields
    <3>1. Len(sent) + 1 \in Value
      BY <2>1, Bounds DEF Value
    <3>. QED  BY <3>1, RequestTyped, SetpointTyped
  <2> HIDE DEF new
  <2>3. sent' \in Seq(Fields) /\ Len(sent') = Len(sent) + 1
    BY <2>1, <2>2, AppendProperties DEF SentOK
  <2>. QED  BY <2>1, <2>3, Bounds DEF SentOK
<1>2. CASE ~\E r \in Requests : BeginSetpoint(r[1], r[2])
  <2>1. sent' = sent /\ (wPc' # "idle" => wPc # "idle")
    BY <1>2 DEF Next, WriteStep, WriteQ, WriteMask, WriteSeq, HelperStep, HelperReadSeq,
       HelperCopyMask, HelperCopyQ, HelperCheck, PublishMask, PublishCounts, PublishSeq,
       RtStep, RtReadSeq, RtCopyCounts, RtCopyMask, RtApply, vars, pyVars
  <2>. QED  BY <2>1 DEF SentOK
<1>. QED  BY <1>1, <1>2

LEMMA LastSent ==
  ASSUME SentOK, wPc # "idle"
  PROVE  sent[Len(sent)] \in Fields /\ Len(sent) \in 1..MaxSetpoints
<1>1. Len(sent) \in 1..Len(sent) /\ Len(sent) \in 1..MaxSetpoints
  BY Bounds DEF SentOK
<1>. QED  BY <1>1, ElementOfSeq DEF SentOK

LEMMA SlotSeq ==
  ASSUME FieldsOK, [Next]_vars, ~WriteSeq
  PROVE  slot'.seq = slot.seq
<1>1. CASE WriteQ \/ WriteMask
  BY <1>1 DEF FieldsOK, WriteQ, WriteMask
<1>2. CASE ~(WriteQ \/ WriteMask)
  BY <1>2 DEF Next, BeginSetpoint, WriteStep, HelperStep,
     HelperReadSeq, HelperCopyMask, HelperCopyQ, HelperCheck, PublishMask, PublishCounts,
     PublishSeq, RtStep, RtReadSeq, RtCopyCounts, RtCopyMask, RtApply, vars
<1>. QED  BY <1>1, <1>2

LEMMA TargetsSeq ==
  ASSUME FieldsOK, [Next]_vars, ~PublishSeq
  PROVE  latest_targets'.seq = latest_targets.seq
<1>1. CASE PublishMask \/ PublishCounts
  BY <1>1 DEF FieldsOK, PublishMask, PublishCounts
<1>2. CASE ~(PublishMask \/ PublishCounts)
  BY <1>2 DEF Next, BeginSetpoint, WriteStep, WriteQ, WriteMask, WriteSeq, HelperStep,
     HelperReadSeq, HelperCopyMask, HelperCopyQ, HelperCheck, RtStep, RtReadSeq,
     RtCopyCounts, RtCopyMask, RtApply, vars
<1>. QED  BY <1>1, <1>2

LEMMA TypeSeqs == ASSUME SentOK, FieldsOK, SeqsOK, [Next]_vars PROVE SeqsOK'
<1>1. 0 \in 0..MaxSetpoints
  BY Bounds
<1>2. slot'.seq \in {slot.seq, Len(sent)}
  BY SlotSeq DEF FieldsOK, WriteSeq
<1>3. latest_targets'.seq \in {latest_targets.seq, s1}
  BY TargetsSeq DEF FieldsOK, PublishSeq
<1>4. /\ s1' \in {0, s1, slot.seq} /\ last_setpoint_seen' \in {last_setpoint_seen, s1}
      /\ rtS1' \in {0, rtS1, latest_targets.seq}
  BY DEF Next, BeginSetpoint, WriteStep, WriteQ, WriteMask, WriteSeq, HelperStep,
     HelperReadSeq, HelperCopyMask, HelperCopyQ, HelperCheck, PublishMask, PublishCounts,
     PublishSeq, RtStep, RtReadSeq, RtCopyCounts, RtCopyMask, RtApply, vars, hVars, rtVars
<1>. QED  BY <1>1, <1>2, <1>3, <1>4, Zenon DEF SeqsOK, SentOK

\* One field of a setpoint is stored, and the rest of it kept.
LEMMA StoreQ ==
  ASSUME NEW f \in Fields, NEW i \in Axis, NEW v \in Value
  PROVE  [f EXCEPT !.q[i] = v] \in Fields
  BY DEF Fields

LEMMA StoreMask ==
  ASSUME NEW f \in Fields, NEW mask \in SUBSET Axis
  PROVE  [f EXCEPT !.mask = mask] \in Fields
  BY DEF Fields

LEMMA FieldTypes ==
  ASSUME NEW f \in Fields, NEW i \in Axis
  PROVE  f.mask \in SUBSET Axis /\ f.q[i] \in Value
  BY DEF Fields

LEMMA TypeFields ==
  ASSUME AxesOK, SentOK, FieldsOK, [Next]_vars
  PROVE  FieldsOK'
<1> USE DEF FieldsOK, AxesOK
<1>1. CASE WriteQ
  <2> DEFINE f == [slot.fields EXCEPT !.q[wIdx] = sent[Len(sent)].q[wIdx]]
  <2>1. f \in Fields
    BY <1>1, LastSent, FieldTypes, StoreQ DEF WriteQ
  <2>2. slot' = [slot EXCEPT !.fields = f]
    BY <1>1 DEF WriteQ
  <2> HIDE DEF f
  <2>. QED  BY <1>1, <2>1, <2>2 DEF WriteQ, hVars, rtVars
<1>2. CASE WriteMask
  <2> DEFINE f == [slot.fields EXCEPT !.mask = sent[Len(sent)].mask]
  <2>1. f \in Fields
    BY <1>2, LastSent, FieldTypes, StoreMask DEF WriteMask
  <2>2. slot' = [slot EXCEPT !.fields = f]
    BY <1>2 DEF WriteMask
  <2> HIDE DEF f
  <2>. QED  BY <1>2, <2>1, <2>2 DEF WriteMask, hVars, rtVars
<1>3. CASE HelperCopyMask \/ HelperCopyQ
  <2>1. copy' \in Fields
    BY <1>3, FieldTypes, StoreMask, StoreQ DEF HelperCopyMask, HelperCopyQ
  <2>. QED  BY <1>3, <2>1 DEF HelperCopyMask, HelperCopyQ, rtVars
<1>4. CASE PublishMask
  <2> DEFINE f == [latest_targets.fields EXCEPT !.mask = copy.mask]
  <2>1. f \in Fields
    BY FieldTypes, StoreMask
  <2>2. latest_targets' = [latest_targets EXCEPT !.fields = f]
    BY <1>4 DEF PublishMask
  <2> HIDE DEF f
  <2>. QED  BY <1>4, <2>1, <2>2 DEF PublishMask, rtVars
<1>5. CASE PublishCounts
  <2> DEFINE f == [latest_targets.fields EXCEPT !.q[hIdx] = copy.q[hIdx]]
  <2>1. f \in Fields
    BY FieldTypes, StoreQ
  <2>2. latest_targets' = [latest_targets EXCEPT !.fields = f]
    BY <1>5 DEF PublishCounts
  <2> HIDE DEF f
  <2>. QED  BY <1>5, <2>1, <2>2 DEF PublishCounts, rtVars
<1>6. CASE RtCopyCounts \/ RtCopyMask
  <2>1. rtCopy' \in Fields
    BY <1>6, FieldTypes, StoreMask, StoreQ DEF RtCopyCounts, RtCopyMask
  <2>. QED  BY <1>6, <2>1 DEF RtCopyCounts, RtCopyMask, hVars
<1>7. CASE WriteSeq \/ HelperCheck \/ PublishSeq \/ RtApply
  BY <1>7, BlankTyped DEF WriteSeq, HelperCheck, PublishSeq, RtApply, hVars, rtVars
<1>8. CASE HelperReadSeq \/ RtReadSeq \/ UNCHANGED vars \/ \E r \in Requests : BeginSetpoint(r[1], r[2])
  BY <1>8 DEF HelperReadSeq, RtReadSeq, BeginSetpoint, vars, hVars, rtVars
<1>. QED  BY <1>1, <1>2, <1>3, <1>4, <1>5, <1>6, <1>7, <1>8
          DEF Next, WriteStep, HelperStep, RtStep

LEMMA TypeTracked ==
  ASSUME FieldsOK, TrackedOK, [Next]_vars
  PROVE  TrackedOK'
<1>1. CASE RtApply
  <2>1. \A i \in Axis : rtCopy.q[i] \in Value
    BY FieldTypes DEF FieldsOK
  <2>. QED  BY <1>1, <2>1, Zenon DEF RtApply, TrackedOK
<1>2. CASE ~RtApply
  BY <1>2 DEF TrackedOK, Next, BeginSetpoint, WriteStep, WriteQ, WriteMask, WriteSeq,
     HelperStep, HelperReadSeq, HelperCopyMask, HelperCopyQ, HelperCheck, PublishMask,
     PublishCounts, PublishSeq, RtStep, RtReadSeq, RtCopyCounts, RtCopyMask, vars, rtVars
<1>. QED  BY <1>1, <1>2

LEMMA TypeStep == Typed /\ [Next]_vars => Typed'
  BY TypePlaces, TypeAxes, TypeSent, TypeSeqs, TypeFields, TypeTracked DEF Typed

\* Every field of the three copies of a setpoint keeps its type (backend.py
\* _write_setpoint, main.cpp).
THEOREM TypeCorrect == Spec => []TypeOK
  BY TypeInit, TypeStep, TypeImplied, PTL DEF Spec

(***************************************************************************)
(* Where a filler can come from.  While Python has sent setpoints for all  *)
(* axes only, every copy that a sequence number other than 0 vouches for   *)
(* has the position of some setpoint for each axis that has a joint: it may *)
(* be torn, but it is made of positions Python commanded.  A copy being made has them for  *)
(* the axes below the one it is at.                                        *)
(***************************************************************************)
AllAxes == \A k \in DOMAIN sent : sent[k].mask = Axis

Upto(q, j) == \A i \in Mapped : i < j => q[i] # Filler
Full(q)    == \A i \in Mapped : q[i] # Filler

\* What a setpoint holds for the axes of its mask that have a joint.
SentFull ==
  \A k \in DOMAIN sent : \A i \in sent[k].mask \cap Mapped : sent[k].q[i] # Filler

\* Every copy starts at the first axis.
FirstInv ==
  /\ hPc \notin {"q", "publish q"} => hIdx = 1
  /\ rtPc # "counts" => rtIdx = 1

SlotInv ==
  /\ wPc = "q" => Upto(slot.fields.q, wIdx)
  /\ wPc \in {"mask", "seq"} => Full(slot.fields.q)
  /\ slot.seq # 0 => Full(slot.fields.q)

CopyInv ==
  /\ s1 # 0 => slot.seq # 0
  /\ hPc \in {"publish mask", "publish q", "publish seq"} => s1 # 0
  /\ s1 # 0 /\ hPc = "q" => Upto(copy.q, hIdx)
  /\ s1 # 0 /\ hPc \in {"s2", "publish mask", "publish q", "publish seq"} => Full(copy.q)

TargetsInv ==
  /\ hPc = "publish q" => Upto(latest_targets.fields.q, hIdx)
  /\ hPc = "publish seq" => Full(latest_targets.fields.q)
  /\ latest_targets.seq # 0 => Full(latest_targets.fields.q)

RtInv ==
  /\ rtS1 # 0 => latest_targets.seq # 0
  /\ rtS1 # 0 /\ rtPc = "counts" => Upto(rtCopy.q, rtIdx)
  /\ rtS1 # 0 /\ rtPc \in {"mask", "s2"} => Full(rtCopy.q)

SourceInv ==
  /\ Typed /\ SentFull /\ FirstInv
  /\ AllAxes => SlotInv /\ CopyInv /\ TargetsInv /\ RtInv

LEMMA UptoFirst == \A q : Upto(q, 1)
  BY Bounds DEF Upto, Axis

LEMMA StoreNext ==
  ASSUME NEW q \in [Axis -> Value], NEW i \in Axis, NEW v \in Value,
         i \in Mapped => v # Filler, Upto(q, i)
  PROVE  /\ Upto([q EXCEPT ![i] = v], i + 1)
         /\ ~(i < NumAxes) => Full([q EXCEPT ![i] = v])
<1>1. \A j \in Axis : j < i + 1 => j < i \/ j = i
  BY Bounds DEF Axis
<1>2. ~(i < NumAxes) => \A j \in Axis : j < i + 1
  BY Bounds DEF Axis
<1>3. \A j \in Mapped : j \in Axis
  BY Bounds
<1>. QED  BY <1>1, <1>2, <1>3, Zenon DEF Upto, Full

LEMMA StoreKeeps ==
  ASSUME NEW q \in [Axis -> Value], NEW i \in Axis, NEW v \in Value,
         i \in Mapped => v # Filler, Full(q)
  PROVE  Full([q EXCEPT ![i] = v])
<1>1. \A j \in Mapped : j \in Axis
  BY Bounds
<1>. QED  BY <1>1, Zenon DEF Full

LEMMA AllAxesKept ==
  ASSUME SentOK, [Next]_vars, AllAxes'
  PROVE  AllAxes
<1>1. ASSUME NEW r \in Requests, BeginSetpoint(r[1], r[2])
      PROVE  AllAxes
  <2> DEFINE new == Setpoint(Len(sent) + 1, r[1], r[2])
  <2>1. Len(sent) + 1 \in Value /\ sent' = Append(sent, new)
    BY <1>1, Bounds DEF BeginSetpoint, SentOK, Value
  <2>2. new \in Fields
    BY <2>1, RequestTyped, SetpointTyped
  <2> HIDE DEF new
  <2>3. Len(sent') = Len(sent) + 1 /\ (\A i \in 1..Len(sent) : sent'[i] = sent[i])
        /\ sent' \in Seq(Fields)
    BY <2>1, <2>2, AppendProperties DEF SentOK
  <2>4. DOMAIN sent = 1..Len(sent) /\ DOMAIN sent' = 1..(Len(sent) + 1)
    BY <2>3, LenProperties DEF SentOK
  <2>5. 1..Len(sent) \subseteq 1..(Len(sent) + 1)
    BY DEF SentOK
  <2>. QED  BY <2>3, <2>4, <2>5, Zenon DEF AllAxes
<1>2. CASE ~\E r \in Requests : BeginSetpoint(r[1], r[2])
  <2>1. sent' = sent
    BY <1>2 DEF Next, WriteStep, WriteQ, WriteMask, WriteSeq, HelperStep, HelperReadSeq,
       HelperCopyMask, HelperCopyQ, HelperCheck, PublishMask, PublishCounts, PublishSeq,
       RtStep, RtReadSeq, RtCopyCounts, RtCopyMask, RtApply, vars, pyVars
  <2>. QED  BY <2>1 DEF AllAxes
<1>. QED  BY <1>1, <1>2

LEMMA SentFullStep ==
  ASSUME SentOK, SentFull, [Next]_vars
  PROVE  SentFull'
<1>1. ASSUME NEW r \in Requests, BeginSetpoint(r[1], r[2])
      PROVE  SentFull'
  <2> DEFINE new == Setpoint(Len(sent) + 1, r[1], r[2])
  <2>1. /\ Len(sent) + 1 \in Value /\ Len(sent) + 1 # Filler
        /\ sent' = Append(sent, new)
    BY <1>1, Bounds DEF BeginSetpoint, SentOK, Value, Filler
  <2>2. new \in Fields
    BY <2>1, RequestTyped, SetpointTyped
  <2>3. \A i \in new.mask \cap Mapped : new.q[i] # Filler
    BY <2>1, RequestTyped, Zenon DEF Setpoint
  <2> HIDE DEF new
  <2>4. Len(sent') = Len(sent) + 1 /\ (\A i \in 1..Len(sent) : sent'[i] = sent[i])
        /\ sent'[Len(sent) + 1] = new /\ sent' \in Seq(Fields)
    BY <2>1, <2>2, AppendProperties DEF SentOK
  <2>5. DOMAIN sent = 1..Len(sent) /\ DOMAIN sent' = 1..(Len(sent) + 1)
    BY <2>4, LenProperties DEF SentOK
  <2>6. \A i \in 1..(Len(sent) + 1) : i \in 1..Len(sent) \/ i = Len(sent) + 1
    BY DEF SentOK
  <2>. QED  BY <2>3, <2>4, <2>5, <2>6, Zenon DEF SentFull
<1>2. CASE ~\E r \in Requests : BeginSetpoint(r[1], r[2])
  <2>1. sent' = sent
    BY <1>2 DEF Next, WriteStep, WriteQ, WriteMask, WriteSeq, HelperStep, HelperReadSeq,
       HelperCopyMask, HelperCopyQ, HelperCheck, PublishMask, PublishCounts, PublishSeq,
       RtStep, RtReadSeq, RtCopyCounts, RtCopyMask, RtApply, vars, pyVars
  <2>. QED  BY <2>1 DEF SentFull
<1>. QED  BY <1>1, <1>2

LEMMA FirstStep == ASSUME FirstInv, [Next]_vars PROVE FirstInv'
  BY DEF FirstInv, Next, BeginSetpoint, WriteStep, WriteQ, WriteMask, WriteSeq, HelperStep,
     HelperReadSeq, HelperCopyMask, HelperCopyQ, HelperCheck, PublishMask, PublishCounts,
     PublishSeq, RtStep, RtReadSeq, RtCopyCounts, RtCopyMask, RtApply, vars, hVars, rtVars

\* A setpoint for all axes has a position for each that has a joint.
LEMMA LastFull ==
  ASSUME SentOK, SentFull, AllAxes, wPc # "idle", NEW i \in Mapped
  PROVE  sent[Len(sent)].q[i] # Filler
<1>1. Len(sent) \in DOMAIN sent
  BY LenProperties DEF SentOK
<1>2. i \in sent[Len(sent)].mask \cap Mapped
  BY <1>1, Bounds DEF AllAxes
<1>. QED  BY <1>1, <1>2, Zenon DEF SentFull

LEMMA SlotStep ==
  ASSUME Typed, SentFull, AllAxes, SlotInv, [Next]_vars
  PROVE  SlotInv'
<1>0. slot.fields \in Fields /\ slot.fields.q \in [Axis -> Value] /\ wIdx \in Axis
  BY DEF Typed, FieldsOK, Fields, AxesOK
<1>1. CASE WriteQ
  <2> DEFINE v == sent[Len(sent)].q[wIdx]
  <2>1. v \in Value /\ (wIdx \in Mapped => v # Filler)
    BY <1>0, <1>1, LastSent, LastFull, FieldTypes DEF WriteQ, Typed
  <2>2. slot'.seq = slot.seq /\ slot'.fields.q = [slot.fields.q EXCEPT ![wIdx] = v]
    BY <1>0, <1>1 DEF WriteQ, Typed, FieldsOK, Fields
  <2> HIDE DEF v
  <2>3. Upto(slot'.fields.q, wIdx + 1) /\ (~(wIdx < NumAxes) => Full(slot'.fields.q))
    BY <1>0, <1>1, <2>1, <2>2, StoreNext DEF WriteQ, SlotInv
  <2>4. slot.seq # 0 => Full(slot'.fields.q)
    BY <1>0, <2>1, <2>2, StoreKeeps DEF SlotInv
  <2>. QED  BY <1>1, <2>2, <2>3, <2>4, Zenon DEF WriteQ, SlotInv
<1>2. CASE WriteMask
  <2>1. slot'.seq = slot.seq /\ slot'.fields.q = slot.fields.q
    BY <1>0, <1>2 DEF WriteMask, Typed, FieldsOK, Fields
  <2>. QED  BY <1>2, <2>1 DEF WriteMask, SlotInv
<1>3. CASE WriteSeq
  <2>1. slot'.fields.q = slot.fields.q
    BY <1>0, <1>3 DEF WriteSeq, Typed, FieldsOK, Fields
  <2>. QED  BY <1>3, <2>1 DEF WriteSeq, SlotInv
<1>4. ASSUME NEW r \in Requests, BeginSetpoint(r[1], r[2])
      PROVE  SlotInv'
  BY <1>4, UptoFirst DEF BeginSetpoint, SlotInv
<1>5. CASE HelperStep \/ RtStep \/ UNCHANGED vars
  BY <1>5 DEF HelperStep, HelperReadSeq, HelperCopyMask, HelperCopyQ, HelperCheck,
     PublishMask, PublishCounts, PublishSeq, RtStep, RtReadSeq, RtCopyCounts, RtCopyMask,
     RtApply, vars, pyVars, SlotInv
<1>. QED  BY <1>1, <1>2, <1>3, <1>4, <1>5 DEF Next, WriteStep

LEMMA CopyStep ==
  ASSUME Typed, FirstInv, SlotInv, CopyInv, [Next]_vars
  PROVE  CopyInv'
<1>0. copy \in Fields /\ copy.q \in [Axis -> Value] /\ hIdx \in Axis
      /\ slot.fields \in Fields /\ PlacesOK
  BY DEF Typed, FieldsOK, Fields, AxesOK
<1>1. s1 # 0 /\ s1' = s1 => slot'.seq # 0
  <2>1. CASE WriteSeq
    <3>1. slot'.seq = Len(sent) /\ Len(sent) # 0
      BY <2>1 DEF WriteSeq, Typed, SentOK, FieldsOK
    <3>. QED  BY <3>1
  <2>2. CASE ~WriteSeq
    BY <2>2, SlotSeq DEF CopyInv, Typed
  <2>. QED  BY <2>1, <2>2
<1>2. CASE HelperReadSeq
  <2>1. s1' = slot.seq /\ hPc' = "mask" /\ slot' = slot
    BY <1>2 DEF HelperReadSeq
  <2>. QED  BY <2>1 DEF CopyInv
<1>3. CASE HelperCopyMask
  <2>1. s1' = s1 /\ hPc' = "q" /\ hPc = "mask" /\ hIdx' = hIdx /\ slot' = slot
    BY <1>3 DEF HelperCopyMask
  <2>2. hIdx = 1
    BY <2>1 DEF FirstInv
  <2>. QED  BY <1>1, <2>1, <2>2, UptoFirst DEF CopyInv
<1>4. CASE HelperCopyQ
  <2> DEFINE v == slot.fields.q[hIdx]
  <2>1. v \in Value /\ (s1 # 0 /\ hIdx \in Mapped => v # Filler)
    BY <1>0, FieldTypes DEF SlotInv, CopyInv, Full
  <2>2. /\ s1' = s1 /\ hPc = "q" /\ copy'.q = [copy.q EXCEPT ![hIdx] = v]
        /\ IF hIdx < NumAxes THEN hIdx' = hIdx + 1 /\ hPc' = "q"
                             ELSE hIdx' = 1 /\ hPc' = "s2"
    BY <1>0, <1>4 DEF HelperCopyQ, Fields
  <2> HIDE DEF v
  <2>3. s1 # 0 => Upto(copy'.q, hIdx + 1) /\ (~(hIdx < NumAxes) => Full(copy'.q))
    <3>1. s1 # 0 => Upto(copy.q, hIdx)
      BY <2>2 DEF CopyInv
    <3>. QED  BY <1>0, <2>1, <2>2, <3>1, StoreNext
  <2>. QED  BY <1>1, <2>2, <2>3, Zenon DEF CopyInv
<1>5. CASE HelperCheck
  BY <1>1, <1>5 DEF HelperCheck, AcceptsCopy, CopyInv
<1>6. CASE PublishMask \/ PublishCounts
  <2>1. /\ s1' = s1 /\ copy' = copy /\ hPc \in {"publish mask", "publish q"}
        /\ hPc' \in {"publish q", "publish seq"}
    BY <1>6 DEF PublishMask, PublishCounts
  <2>. QED  BY <1>1, <2>1 DEF CopyInv
<1>7. CASE PublishSeq
  BY <1>7 DEF PublishSeq, CopyInv
<1>8. CASE ~HelperStep
  <2>1. s1' = s1 /\ hPc' = hPc /\ hIdx' = hIdx /\ copy' = copy
    BY <1>8 DEF Next, BeginSetpoint, WriteStep, WriteQ, WriteMask, WriteSeq, RtStep,
       RtReadSeq, RtCopyCounts, RtCopyMask, RtApply, vars, hVars
  <2>. QED  BY <1>1, <2>1 DEF CopyInv
<1>. QED  BY <1>2, <1>3, <1>4, <1>5, <1>6, <1>7, <1>8 DEF HelperStep

LEMMA TargetsStep ==
  ASSUME Typed, FirstInv, CopyInv, TargetsInv, [Next]_vars
  PROVE  TargetsInv'
<1>0. /\ copy \in Fields /\ hIdx \in Axis /\ latest_targets.fields \in Fields
      /\ latest_targets.fields.q \in [Axis -> Value]
  BY DEF Typed, FieldsOK, Fields, AxesOK
<1>1. CASE PublishMask
  <2>1. /\ latest_targets'.seq = latest_targets.seq
        /\ latest_targets'.fields.q = latest_targets.fields.q
        /\ hPc = "publish mask" /\ hPc' = "publish q" /\ hIdx' = hIdx
    BY <1>0, <1>1 DEF PublishMask, Typed, FieldsOK, Fields
  <2>2. hIdx = 1
    BY <2>1 DEF FirstInv
  <2>. QED  BY <2>1, <2>2, UptoFirst DEF TargetsInv
<1>2. CASE PublishCounts
  <2> DEFINE v == copy.q[hIdx]
  <2>1. v \in Value /\ (hIdx \in Mapped => v # Filler)
    BY <1>0, <1>2, FieldTypes DEF PublishCounts, CopyInv, Full
  <2>2. /\ latest_targets'.seq = latest_targets.seq
        /\ latest_targets'.fields.q = [latest_targets.fields.q EXCEPT ![hIdx] = v]
        /\ hPc = "publish q"
        /\ IF hIdx < NumAxes THEN hIdx' = hIdx + 1 /\ hPc' = "publish q"
                             ELSE hIdx' = 1 /\ hPc' = "publish seq"
    BY <1>0, <1>2 DEF PublishCounts, Typed, FieldsOK, Fields
  <2> HIDE DEF v
  <2>3. /\ Upto(latest_targets'.fields.q, hIdx + 1)
        /\ ~(hIdx < NumAxes) => Full(latest_targets'.fields.q)
    <3>1. Upto(latest_targets.fields.q, hIdx)
      BY <2>2 DEF TargetsInv
    <3>2. /\ Upto([latest_targets.fields.q EXCEPT ![hIdx] = v], hIdx + 1)
          /\ ~(hIdx < NumAxes) => Full([latest_targets.fields.q EXCEPT ![hIdx] = v])
      BY <1>0, <2>1, <3>1, StoreNext
    <3>. QED  BY <2>2, <3>2
  <2>4. latest_targets.seq # 0 => Full(latest_targets'.fields.q)
    <3>1. Full(latest_targets.fields.q) => Full([latest_targets.fields.q EXCEPT ![hIdx] = v])
      BY <1>0, <2>1, StoreKeeps
    <3>. QED  BY <2>2, <3>1 DEF TargetsInv
  <2>. QED  BY <2>2, <2>3, <2>4, Zenon DEF TargetsInv
<1>3. CASE PublishSeq
  <2>1. latest_targets'.fields = latest_targets.fields /\ hPc = "publish seq" /\ hPc' = "s1"
    BY <1>3 DEF PublishSeq, Typed, FieldsOK
  <2>. QED  BY <2>1 DEF TargetsInv
<1>4. CASE ~PublishMask /\ ~PublishCounts /\ ~PublishSeq
  <2>1. /\ latest_targets' = latest_targets
        /\ \/ hPc' = hPc /\ hIdx' = hIdx
           \/ hPc' \notin {"publish q", "publish seq"}
    BY <1>4 DEF Next, BeginSetpoint, WriteStep, WriteQ, WriteMask, WriteSeq, HelperStep,
       HelperReadSeq, HelperCopyMask, HelperCopyQ, HelperCheck, RtStep, RtReadSeq,
       RtCopyCounts, RtCopyMask, RtApply, vars, hVars
  <2>. QED  BY <2>1 DEF TargetsInv
<1>. QED  BY <1>1, <1>2, <1>3, <1>4

LEMMA RtStepKeeps ==
  ASSUME Typed, FirstInv, CopyInv, TargetsInv, RtInv, [Next]_vars
  PROVE  RtInv'
<1>0. /\ rtCopy \in Fields /\ rtCopy.q \in [Axis -> Value] /\ rtIdx \in Axis
      /\ latest_targets.fields \in Fields
  BY DEF Typed, FieldsOK, Fields, AxesOK
<1>1. latest_targets.seq # 0 => latest_targets'.seq # 0
  <2>1. CASE PublishSeq
    <3>1. latest_targets'.seq = s1 /\ s1 # 0
      BY <2>1 DEF PublishSeq, Typed, FieldsOK, CopyInv
    <3>. QED  BY <3>1
  <2>2. CASE ~PublishSeq
    BY <2>2, TargetsSeq DEF Typed
  <2>. QED  BY <2>1, <2>2
<1>2. CASE RtReadSeq
  <2>1. /\ rtS1' = latest_targets.seq /\ rtPc = "s1" /\ rtPc' = "counts" /\ rtIdx' = rtIdx
        /\ latest_targets' = latest_targets
    BY <1>2 DEF RtReadSeq
  <2>2. rtIdx = 1
    BY <2>1 DEF FirstInv
  <2>. QED  BY <2>1, <2>2, UptoFirst DEF RtInv
<1>3. CASE RtCopyCounts
  <2> DEFINE v == latest_targets.fields.q[rtIdx]
  <2>1. v \in Value /\ (rtS1 # 0 /\ rtIdx \in Mapped => v # Filler)
    BY <1>0, FieldTypes DEF TargetsInv, RtInv, Full
  <2>2. /\ rtS1' = rtS1 /\ rtPc = "counts" /\ rtCopy'.q = [rtCopy.q EXCEPT ![rtIdx] = v]
        /\ IF rtIdx < NumAxes THEN rtIdx' = rtIdx + 1 /\ rtPc' = "counts"
                              ELSE rtIdx' = 1 /\ rtPc' = "mask"
    BY <1>0, <1>3 DEF RtCopyCounts, Fields
  <2> HIDE DEF v
  <2>3. rtS1 # 0 => Upto(rtCopy'.q, rtIdx + 1) /\ (~(rtIdx < NumAxes) => Full(rtCopy'.q))
    BY <1>0, <2>1, <2>2, StoreNext DEF RtInv
  <2>. QED  BY <1>1, <2>2, <2>3, Zenon DEF RtInv
<1>4. CASE RtCopyMask
  <2>1. rtS1' = rtS1 /\ rtPc = "mask" /\ rtPc' = "s2" /\ rtCopy'.q = rtCopy.q
    BY <1>0, <1>4 DEF RtCopyMask, Fields
  <2>. QED  BY <1>1, <2>1 DEF RtInv
<1>5. CASE RtApply
  BY <1>5 DEF RtApply, RtInv
<1>6. CASE ~RtStep
  <2>1. rtS1' = rtS1 /\ rtPc' = rtPc /\ rtIdx' = rtIdx /\ rtCopy' = rtCopy
    BY <1>6 DEF Next, BeginSetpoint, WriteStep, WriteQ, WriteMask, WriteSeq, HelperStep,
       HelperReadSeq, HelperCopyMask, HelperCopyQ, HelperCheck, PublishMask, PublishCounts,
       PublishSeq, vars, rtVars
  <2>. QED  BY <1>1, <2>1 DEF RtInv
<1>. QED  BY <1>2, <1>3, <1>4, <1>5, <1>6 DEF RtStep

LEMMA SourceInit == Init => SourceInv
<1> SUFFICES ASSUME Init PROVE SourceInv
  OBVIOUS
<1>1. SentFull
  <2>1. sent = <<>>
    BY DEF Init
  <2>. QED  BY <2>1 DEF SentFull
<1>2. FirstInv
  BY DEF Init, FirstInv
<1>3. SlotInv /\ CopyInv /\ TargetsInv /\ RtInv
  BY DEF Init, SlotInv, CopyInv, TargetsInv, RtInv
<1>. QED  BY <1>1, <1>2, <1>3, TypeInit DEF SourceInv

LEMMA SourceStep == SourceInv /\ [Next]_vars => SourceInv'
<1> SUFFICES ASSUME SourceInv, [Next]_vars PROVE SourceInv'
  OBVIOUS
<1>1. Typed' /\ SentFull' /\ FirstInv'
  BY TypeStep, SentFullStep, FirstStep DEF SourceInv, Typed
<1>2. ASSUME AllAxes'
      PROVE  SlotInv' /\ CopyInv' /\ TargetsInv' /\ RtInv'
  <2>1. AllAxes
    BY <1>2, AllAxesKept DEF SourceInv, Typed
  <2>. QED  BY <2>1, SlotStep, CopyStep, TargetsStep, RtStepKeeps DEF SourceInv
<1>. QED  BY <1>1, <1>2 DEF SourceInv

\* The step property itself.
ExplainedStep ==
  \A i \in Axis : tracked'[i] = Filler /\ tracked[i] # Filler =>
    \/ rtS1 = 0
    \/ i \notin Mapped
    \/ \E n \in DOMAIN sent : sent[n].mask # Axis

LEMMA SourceGivesPhantoms == SourceInv /\ [Next]_vars => [ExplainedStep]_vars
<1> SUFFICES ASSUME SourceInv, [Next]_vars,
                    NEW i \in Mapped, i \in Axis, tracked'[i] = Filler, tracked[i] # Filler,
                    rtS1 # 0, AllAxes
             PROVE  FALSE
  BY DEF AllAxes, ExplainedStep
<1>1. RtApply
  BY DEF Next, BeginSetpoint, WriteStep, WriteQ, WriteMask, WriteSeq, HelperStep,
     HelperReadSeq, HelperCopyMask, HelperCopyQ, HelperCheck, PublishMask, PublishCounts,
     PublishSeq, RtStep, RtReadSeq, RtCopyCounts, RtCopyMask, vars, rtVars
<1>2. tracked'[i] \in {rtCopy.q[i], tracked[i]} /\ rtPc = "s2"
  BY <1>1 DEF RtApply
<1>3. rtCopy.q[i] # Filler
  BY <1>2 DEF SourceInv, RtInv, Full
<1>. QED  BY <1>2, <1>3

\* While Python has sent setpoints for all joints only, and once a setpoint has been
\* published, no axis that has a joint is sent to a position no setpoint commanded,
\* torn copies included; an axis without a joint is, by any setpoint for all joints
\* (backend.py set_joint_positions and _write_setpoint, the two seq checks of
\* main.cpp).
THEOREM PhantomsExplained == Spec => PhantomSources
<1>1. Spec => [][ExplainedStep]_vars
  BY SourceInit, SourceStep, SourceGivesPhantoms, PTL DEF Spec
<1>. QED  BY <1>1 DEF PhantomSources, ExplainedStep

(***************************************************************************)
(* Why a torn copy is always of an older setpoint.  The sequence numbers   *)
(* only grow and each hand-over lags behind the one before it; so while a  *)
(* thread copies under the number of the newest setpoint, the writer is    *)
(* idle (and, behind latest_targets, the helper publishes nothing), and    *)
(* what has been copied so far is that setpoint's.                         *)
(***************************************************************************)
Last       == sent[Len(sent)]
Current(k) == k = Len(sent) /\ k # 0
Publishing == {"publish mask", "publish q", "publish seq"}

\* The axes of f below j are those of the newest setpoint.
LastUpto(f, j) == \A i \in Axis : i < j => f.q[i] = Last.q[i]

OrderInv ==
  /\ wPc = "idle" => slot.seq = Len(sent)
  /\ wPc # "idle" => slot.seq + 1 = Len(sent)
  /\ last_setpoint_seen = latest_targets.seq
  /\ latest_targets.seq <= slot.seq
  /\ s1 <= slot.seq
  /\ hPc # "s1" => latest_targets.seq <= s1
  /\ hPc \in Publishing => latest_targets.seq < s1
  /\ rtS1 <= latest_targets.seq

SlotNew ==
  /\ wPc = "q" => LastUpto(slot.fields, wIdx)
  /\ wPc = "mask" => slot.fields.q = Last.q
  /\ wPc = "seq" \/ Current(slot.seq) => slot.fields = Last

CopyNew ==
  Current(s1) =>
    /\ hPc = "q" => copy.mask = Last.mask /\ LastUpto(copy, hIdx)
    /\ hPc \in {"s2"} \cup Publishing => copy = Last

TargetsNew ==
  /\ Current(s1) /\ hPc = "publish q" =>
       latest_targets.fields.mask = Last.mask /\ LastUpto(latest_targets.fields, hIdx)
  /\ Current(s1) /\ hPc = "publish seq" => latest_targets.fields = Last
  /\ Current(latest_targets.seq) => latest_targets.fields = Last

RtNew ==
  Current(rtS1) =>
    /\ rtPc = "counts" => LastUpto(rtCopy, rtIdx)
    /\ rtPc = "mask" => rtCopy.q = Last.q
    /\ rtPc = "s2" => rtCopy = Last

NewestInv == OrderInv /\ SlotNew /\ CopyNew /\ TargetsNew /\ RtNew

\* A step either begins a setpoint or leaves those sent alone.
LEMMA SentSteps ==
  ASSUME [Next]_vars
  PROVE  sent' = sent \/ \E r \in Requests : BeginSetpoint(r[1], r[2])
  BY DEF Next, WriteStep, WriteQ, WriteMask, WriteSeq, HelperStep, HelperReadSeq,
     HelperCopyMask, HelperCopyQ, HelperCheck, PublishMask, PublishCounts, PublishSeq,
     RtStep, RtReadSeq, RtCopyCounts, RtCopyMask, RtApply, vars, pyVars

LEMMA BeginEffect ==
  ASSUME SentOK, NEW r \in Requests, BeginSetpoint(r[1], r[2])
  PROVE  /\ Len(sent') = Len(sent) + 1
         /\ wPc = "idle" /\ wPc' = "q" /\ wIdx' = 1
         /\ UNCHANGED <<slot, hVars, latest_targets, rtVars>>
<1>1. Len(sent) + 1 \in Value
  BY Bounds DEF BeginSetpoint, SentOK, Value
<1>2. Setpoint(Len(sent) + 1, r[1], r[2]) \in Fields
  BY <1>1, RequestTyped, SetpointTyped
<1>. QED  BY <1>2, AppendProperties DEF BeginSetpoint, SentOK

\* One more axis of the newest setpoint is copied; the last one completes it.
LEMMA CopyNext ==
  ASSUME NEW f \in Fields, NEW i \in Axis, Last \in Fields, LastUpto(f, i)
  PROVE  LET g == [f EXCEPT !.q[i] = Last.q[i]]
         IN  /\ g.mask = f.mask
             /\ LastUpto(g, i + 1)
             /\ ~(i < NumAxes) => g.q = Last.q
<1> DEFINE g == [f EXCEPT !.q[i] = Last.q[i]]
<1>1. g.mask = f.mask /\ g.q = [f.q EXCEPT ![i] = Last.q[i]]
      /\ f.q \in [Axis -> Value] /\ Last.q \in [Axis -> Value]
  BY DEF Fields
<1> HIDE DEF g
<1>2. \A j \in Axis : j < i + 1 => j < i \/ j = i
  BY Bounds DEF Axis
<1>3. ~(i < NumAxes) => \A j \in Axis : j < i + 1
  BY Bounds DEF Axis
<1>4. \A j \in Axis : j < i + 1 => g.q[j] = Last.q[j]
  BY <1>1, <1>2, Zenon DEF LastUpto
<1>5. ~(i < NumAxes) => g.q = Last.q
  <2>1. g.q \in [Axis -> Value]
    BY <1>1
  <2>. QED  BY <1>1, <1>3, <1>4, <2>1, Zenon
<1>. QED  BY <1>1, <1>4, <1>5 DEF LastUpto, g

LEMMA WholeFields ==
  ASSUME NEW f \in Fields, NEW g \in Fields, f.mask = g.mask, f.q = g.q
  PROVE  f = g
  BY DEF Fields

LEMMA LastTyped == ASSUME SentOK, Len(sent) # 0 PROVE Last \in Fields
<1>1. Len(sent) \in 1..Len(sent)
  BY Bounds DEF SentOK
<1>. QED  BY <1>1, ElementOfSeq DEF SentOK, Last

LEMMA LastUptoFirst == \A f : LastUpto(f, 1)
  BY Bounds DEF LastUpto, Axis

LEMMA OrderStep ==
  ASSUME Typed, OrderInv, [Next]_vars
  PROVE  OrderInv'
<1>0. /\ Len(sent) \in Nat /\ slot.seq \in Nat /\ latest_targets.seq \in Nat
      /\ s1 \in Nat /\ last_setpoint_seen \in Nat /\ rtS1 \in Nat
  BY Bounds DEF Typed, SentOK, SeqsOK
<1>1. ASSUME NEW r \in Requests, BeginSetpoint(r[1], r[2])
      PROVE  OrderInv'
  <2>1. /\ Len(sent') = Len(sent) + 1 /\ wPc = "idle" /\ wPc' = "q"
        /\ UNCHANGED <<slot, hPc, s1, last_setpoint_seen, latest_targets, rtS1>>
    BY <1>1, BeginEffect DEF Typed, hVars, rtVars
  <2>. QED  BY <1>0, <2>1 DEF OrderInv
<1>2. CASE WriteQ \/ WriteMask
  <2>1. /\ slot'.seq = slot.seq /\ wPc # "idle" /\ wPc' # "idle"
        /\ UNCHANGED <<sent, hPc, s1, last_setpoint_seen, latest_targets, rtS1>>
    BY <1>2 DEF WriteQ, WriteMask, Typed, FieldsOK, hVars, rtVars
  <2>. QED  BY <2>1 DEF OrderInv
<1>3. CASE WriteSeq
  <2>1. /\ slot'.seq = Len(sent) /\ wPc # "idle" /\ wPc' = "idle"
        /\ UNCHANGED <<sent, hPc, s1, last_setpoint_seen, latest_targets, rtS1>>
    BY <1>3 DEF WriteSeq, Typed, FieldsOK, hVars, rtVars
  <2>. QED  BY <1>0, <2>1 DEF OrderInv
<1>4. CASE HelperReadSeq
  <2>1. /\ s1' = slot.seq /\ hPc' = "mask"
        /\ UNCHANGED <<sent, wPc, slot, last_setpoint_seen, latest_targets, rtS1>>
    BY <1>4 DEF HelperReadSeq, pyVars, rtVars
  <2>2. slot.seq <= slot.seq /\ hPc' \notin Publishing
    BY <1>0, <2>1 DEF Publishing
  <2>. QED  BY <2>1, <2>2, Zenon DEF OrderInv
<1>5. CASE HelperCopyMask \/ HelperCopyQ
  <2>1. /\ hPc \in {"mask", "q"} /\ hPc' \in {"q", "s2"}
        /\ UNCHANGED <<sent, wPc, slot, s1, last_setpoint_seen, latest_targets, rtS1>>
    BY <1>5 DEF HelperCopyMask, HelperCopyQ, pyVars, rtVars
  <2>. QED  BY <2>1 DEF OrderInv, Publishing
<1>6. CASE HelperCheck
  <2>1. /\ hPc = "s2"
        /\ UNCHANGED <<sent, wPc, slot, last_setpoint_seen, latest_targets, rtS1>>
        /\ \/ hPc' = "publish mask" /\ s1 # last_setpoint_seen /\ s1' = s1
           \/ hPc' = "s1" /\ s1' = 0
    BY <1>6 DEF HelperCheck, pyVars, rtVars
  <2>2. CASE hPc' = "s1" /\ s1' = 0
    BY <1>0, <2>1, <2>2 DEF OrderInv, Publishing
  <2>3. CASE hPc' = "publish mask" /\ s1 # last_setpoint_seen /\ s1' = s1
    <3>1. s1 # latest_targets.seq /\ latest_targets.seq <= s1
      BY <2>1, <2>3 DEF OrderInv
    <3>2. latest_targets.seq < s1
      BY ONLY <1>0, <3>1
    <3>. QED  BY <2>1, <2>3, <3>1, <3>2 DEF OrderInv
  <2>. QED  BY <2>1, <2>2, <2>3
<1>7. CASE PublishMask \/ PublishCounts
  <2>1. /\ latest_targets'.seq = latest_targets.seq /\ hPc \in Publishing /\ hPc' # "s1"
        /\ UNCHANGED <<sent, wPc, slot, s1, last_setpoint_seen, rtS1>>
    BY <1>7 DEF PublishMask, PublishCounts, Typed, FieldsOK, Publishing, pyVars, rtVars
  <2>. QED  BY <2>1 DEF OrderInv, Publishing
<1>8. CASE PublishSeq
  <2>1. /\ latest_targets'.seq = s1 /\ last_setpoint_seen' = s1 /\ s1' = 0
        /\ hPc = "publish seq" /\ hPc' = "s1"
        /\ UNCHANGED <<sent, wPc, slot, rtS1>>
    BY <1>8 DEF PublishSeq, Typed, FieldsOK, pyVars, rtVars
  <2>2. /\ latest_targets.seq < s1 /\ s1 <= slot.seq /\ rtS1 <= latest_targets.seq
        /\ hPc' \notin Publishing
    BY <2>1 DEF OrderInv, Publishing
  <2>3. rtS1 <= s1 /\ 0 <= slot.seq
    BY ONLY <1>0, <2>2
  <2>. QED  BY <2>1, <2>2, <2>3, Zenon DEF OrderInv
<1>9. CASE RtStep \/ UNCHANGED vars
  <2>1. /\ UNCHANGED <<sent, wPc, slot, hPc, s1, last_setpoint_seen, latest_targets>>
        /\ rtS1' \in {0, rtS1, latest_targets.seq}
    BY <1>9 DEF RtStep, RtReadSeq, RtCopyCounts, RtCopyMask, RtApply, vars, pyVars, hVars, rtVars
  <2>. QED  BY <1>0, <2>1 DEF OrderInv
<1>. QED  BY <1>1, <1>2, <1>3, <1>4, <1>5, <1>6, <1>7, <1>8, <1>9 DEF Next, WriteStep, HelperStep

\* Who may still be copying under the newest number, or change what is copied.
LEMMA NewestIsQuiet ==
  ASSUME Typed, OrderInv
  PROVE  /\ Current(s1) => Current(slot.seq)
         /\ Current(slot.seq) => wPc = "idle"
         /\ Current(latest_targets.seq) => hPc \notin Publishing
         /\ Current(rtS1) => Current(latest_targets.seq)
<1>0. /\ Len(sent) \in Nat /\ slot.seq \in Nat /\ latest_targets.seq \in Nat
      /\ s1 \in Nat /\ rtS1 \in Nat
  BY Bounds DEF Typed, SentOK, SeqsOK
<1>1. slot.seq <= Len(sent) /\ (wPc # "idle" => slot.seq # Len(sent))
  <2>1. CASE wPc = "idle"
    BY <1>0, <2>1 DEF OrderInv
  <2>2. CASE wPc # "idle"
    <3>1. slot.seq + 1 = Len(sent)
      BY <2>2 DEF OrderInv
    <3>. QED  BY <1>0, <3>1
  <2>. QED  BY <2>1, <2>2
<1>2. hPc \in Publishing => latest_targets.seq < Len(sent)
  <2>1. hPc \in Publishing => latest_targets.seq < s1
    BY DEF OrderInv
  <2>2. s1 <= slot.seq
    BY DEF OrderInv
  <2>. QED  BY <1>0, <1>1, <2>1, <2>2
<1>3. s1 = Len(sent) => slot.seq = Len(sent)
  BY <1>0, <1>1 DEF OrderInv
<1>4. rtS1 = Len(sent) => latest_targets.seq = Len(sent)
  BY <1>0, <1>1 DEF OrderInv
<1>5. hPc \in Publishing => latest_targets.seq # Len(sent)
  BY <1>0, <1>2
<1>. QED  BY <1>1, <1>3, <1>4, <1>5 DEF Current

\* A setpoint that has begun is under no number yet.
LEMMA BeginNotCurrent ==
  ASSUME Typed, OrderInv, NEW r \in Requests, BeginSetpoint(r[1], r[2])
  PROVE  ~Current(slot.seq)' /\ ~Current(s1)' /\ ~Current(latest_targets.seq)' /\ ~Current(rtS1)'
<1>0. /\ Len(sent) \in Nat /\ slot.seq \in Nat /\ latest_targets.seq \in Nat
      /\ s1 \in Nat /\ rtS1 \in Nat
  BY Bounds DEF Typed, SentOK, SeqsOK
<1>1. /\ Len(sent') = Len(sent) + 1 /\ wPc = "idle"
      /\ slot' = slot /\ s1' = s1 /\ latest_targets' = latest_targets /\ rtS1' = rtS1
  BY BeginEffect DEF Typed, hVars, rtVars
<1>2. /\ slot.seq = Len(sent) /\ latest_targets.seq <= slot.seq /\ s1 <= slot.seq
      /\ rtS1 <= latest_targets.seq
  BY <1>1 DEF OrderInv
<1>. QED  BY <1>0, <1>1, <1>2 DEF Current

LEMMA SlotNewStep ==
  ASSUME Typed, OrderInv, SlotNew, [Next]_vars
  PROVE  SlotNew'
<1>0. slot.fields \in Fields /\ wIdx \in Axis /\ slot.seq \in Nat
  BY Bounds DEF Typed, FieldsOK, AxesOK, SeqsOK
<1>1. wPc # "idle" => Last \in Fields /\ Len(sent) # 0
  BY LastSent, LastTyped DEF Typed, SentOK
<1>2. CASE WriteQ
  <2>1. /\ wPc = "q" /\ sent' = sent /\ slot'.seq = slot.seq
        /\ slot'.fields = [slot.fields EXCEPT !.q[wIdx] = Last.q[wIdx]]
        /\ \/ wPc' = "q" /\ wIdx' = wIdx + 1
           \/ wPc' = "mask" /\ ~(wIdx < NumAxes)
    BY <1>2 DEF WriteQ, Typed, FieldsOK, Last
  <2>2. LastUpto(slot.fields, wIdx) /\ ~Current(slot.seq)
    BY <2>1, NewestIsQuiet DEF SlotNew
  <2>3. Last' = Last /\ ~Current(slot.seq)'
    BY <2>1, <2>2 DEF Last, Current
  <2>4. /\ LastUpto(slot'.fields, wIdx + 1)
        /\ ~(wIdx < NumAxes) => slot'.fields.q = Last.q
    BY <1>0, <1>1, <2>1, <2>2, CopyNext
  <2>5. \A f, j : LastUpto(f, j) => \A i \in Axis : i < j => f.q[i] = Last'.q[i]
    BY <2>3 DEF LastUpto
  <2>. QED  BY <2>1, <2>3, <2>4, <2>5, Zenon DEF SlotNew, LastUpto
<1>3. CASE WriteMask
  <2>1. /\ wPc = "mask" /\ wPc' = "seq" /\ sent' = sent /\ slot'.seq = slot.seq
        /\ slot'.fields = [slot.fields EXCEPT !.mask = Last.mask]
    BY <1>3 DEF WriteMask, Typed, FieldsOK, Last
  <2>2. slot.fields.q = Last.q /\ Last' = Last
    BY <2>1 DEF SlotNew, Last
  <2>3. slot'.fields = Last
    BY <1>0, <1>1, <2>1, <2>2 DEF Fields
  <2>. QED  BY <2>1, <2>2, <2>3 DEF SlotNew
<1>4. CASE WriteSeq
  <2>1. wPc = "seq" /\ wPc' = "idle" /\ sent' = sent /\ slot'.fields = slot.fields
    BY <1>4 DEF WriteSeq, Typed, FieldsOK
  <2>2. slot.fields = Last /\ Last' = Last
    BY <2>1 DEF SlotNew, Last
  <2>. QED  BY <2>1, <2>2 DEF SlotNew
<1>5. ASSUME NEW r \in Requests, BeginSetpoint(r[1], r[2])
      PROVE  SlotNew'
  <2>1. wPc' = "q" /\ wIdx' = 1 /\ ~Current(slot.seq)'
    BY <1>5, BeginEffect, BeginNotCurrent DEF Typed
  <2>2. \A i \in Axis : ~(i < 1)
    BY Bounds DEF Axis
  <2>. QED  BY <2>1, <2>2, Zenon DEF SlotNew, LastUpto
<1>6. CASE HelperStep \/ RtStep \/ UNCHANGED vars
  <2>1. UNCHANGED <<sent, wPc, wIdx, slot>>
    BY <1>6 DEF HelperStep, HelperReadSeq, HelperCopyMask, HelperCopyQ, HelperCheck,
       PublishMask, PublishCounts, PublishSeq, RtStep, RtReadSeq, RtCopyCounts, RtCopyMask,
       RtApply, vars, pyVars
  <2>. QED  BY <2>1 DEF SlotNew, Current, Last, LastUpto
<1>. QED  BY <1>2, <1>3, <1>4, <1>5, <1>6 DEF Next, WriteStep

LEMMA CopyNewStep ==
  ASSUME Typed, FirstInv, OrderInv, SlotNew, CopyNew, [Next]_vars
  PROVE  CopyNew'
<1>0. copy \in Fields /\ hIdx \in Axis /\ s1 \in Nat /\ PlacesOK
  BY Bounds DEF Typed, FieldsOK, AxesOK, SeqsOK
<1>1. Current(s1) => slot.fields = Last /\ Last \in Fields
  <2>1. Current(s1) => Current(slot.seq) /\ Len(sent) # 0
    BY NewestIsQuiet DEF Current
  <2>. QED  BY <2>1, LastTyped DEF SlotNew, Typed
<1>2. ASSUME NEW r \in Requests, BeginSetpoint(r[1], r[2])
      PROVE  CopyNew'
  BY <1>2, BeginNotCurrent DEF CopyNew
<1>3. CASE sent' = sent
  <2>0. Last' = Last /\ \A k : Current(k)' <=> Current(k)
    BY <1>3 DEF Last, Current
  <2>1. CASE HelperCopyMask
    <3>1. /\ s1' = s1 /\ hPc' = "q" /\ hIdx' = 1
          /\ copy' = [copy EXCEPT !.mask = slot.fields.mask]
      BY <2>1 DEF HelperCopyMask, FirstInv
    <3>2. Current(s1) => copy'.mask = Last.mask
      BY <1>0, <1>1, <3>1 DEF Fields
    <3>3. \A i \in Axis : ~(i < 1)
      BY Bounds DEF Axis
    <3>4. Current(s1)' => Current(s1)
      BY <1>3, <3>1 DEF Current
    <3>. QED  BY <2>0, <3>1, <3>2, <3>3, <3>4, Zenon DEF CopyNew, LastUpto, Publishing
  <2>2. CASE HelperCopyQ
    <3>1. /\ s1' = s1 /\ hPc = "q"
          /\ copy' = [copy EXCEPT !.q[hIdx] = slot.fields.q[hIdx]]
          /\ \/ hPc' = "q" /\ hIdx' = hIdx + 1
             \/ hPc' = "s2" /\ ~(hIdx < NumAxes)
      BY <2>2 DEF HelperCopyQ
    <3>2. Current(s1)' => Current(s1)
      BY <1>3, <3>1 DEF Current
    <3>3. ASSUME Current(s1)
          PROVE  /\ copy'.mask = Last.mask /\ LastUpto(copy', hIdx + 1)
                 /\ ~(hIdx < NumAxes) => copy' = Last
      <4>1. copy.mask = Last.mask /\ LastUpto(copy, hIdx)
        BY <3>1, <3>3 DEF CopyNew
      <4>2. copy' = [copy EXCEPT !.q[hIdx] = Last.q[hIdx]] /\ Last \in Fields
        BY <1>1, <3>1, <3>3
      <4>3. /\ copy'.mask = copy.mask /\ LastUpto(copy', hIdx + 1)
            /\ ~(hIdx < NumAxes) => copy'.q = Last.q
        BY <1>0, <4>1, <4>2, CopyNext
      <4>4. copy' \in Fields
        BY TypeStep DEF Typed, FieldsOK
      <4>. QED  BY <4>1, <4>2, <4>3, <4>4, WholeFields
    <3>. QED  BY <2>0, <3>1, <3>2, <3>3, Zenon DEF CopyNew, LastUpto, Publishing
  <2>3. CASE HelperReadSeq \/ HelperCheck \/ PublishSeq
    <3>1. \/ hPc' \notin {"q", "s2"} \cup Publishing
          \/ hPc = "s2" /\ s1' = s1 /\ copy' = copy /\ hPc' = "publish mask"
      BY <2>3 DEF HelperReadSeq, HelperCheck, PublishSeq, Publishing
    <3>2. s1' = s1 => (Current(s1)' <=> Current(s1))
      BY <1>3 DEF Current
    <3>. QED  BY <2>0, <3>1, <3>2 DEF CopyNew
  <2>4. CASE PublishMask \/ PublishCounts
    <3>1. s1' = s1 /\ copy' = copy /\ hPc \in Publishing /\ hPc' \in Publishing
      BY <2>4 DEF PublishMask, PublishCounts, Publishing
    <3>2. hPc' # "q"
      BY <3>1 DEF Publishing
    <3>3. Current(s1)' <=> Current(s1)
      BY <1>3, <3>1 DEF Current
    <3>. QED  BY <2>0, <3>1, <3>2, <3>3 DEF CopyNew
  <2>5. CASE ~HelperStep
    <3>1. UNCHANGED <<s1, hPc, hIdx, copy>>
      BY <2>5 DEF Next, BeginSetpoint, WriteStep, WriteQ, WriteMask, WriteSeq, RtStep,
         RtReadSeq, RtCopyCounts, RtCopyMask, RtApply, vars, hVars
    <3>2. Current(s1)' <=> Current(s1)
      BY <1>3, <3>1 DEF Current
    <3>. QED  BY <2>0, <3>1, <3>2 DEF CopyNew, LastUpto
  <2>. QED  BY <2>1, <2>2, <2>3, <2>4, <2>5 DEF HelperStep
<1>. QED  BY <1>2, <1>3, SentSteps

LEMMA TargetsNewStep ==
  ASSUME Typed, FirstInv, OrderInv, SlotNew, CopyNew, TargetsNew, [Next]_vars
  PROVE  TargetsNew'
<1>0. /\ latest_targets.fields \in Fields /\ hIdx \in Axis /\ PlacesOK
      /\ copy \in Fields
  BY DEF Typed, FieldsOK, AxesOK
<1>1. Current(s1) => Last \in Fields
  BY LastTyped DEF Current, Typed
<1>2. ASSUME NEW r \in Requests, BeginSetpoint(r[1], r[2])
      PROVE  TargetsNew'
  BY <1>2, BeginNotCurrent DEF TargetsNew
<1>3. CASE sent' = sent
  <2>0. Last' = Last /\ \A k : Current(k)' <=> Current(k)
    BY <1>3 DEF Last, Current
  <2>1. CASE PublishMask
    <3>1. /\ hPc = "publish mask" /\ s1' = s1 /\ hPc' = "publish q" /\ hIdx' = 1
          /\ latest_targets'.seq = latest_targets.seq
          /\ latest_targets'.fields = [latest_targets.fields EXCEPT !.mask = copy.mask]
      BY <2>1 DEF PublishMask, FirstInv, Typed, FieldsOK
    <3>2. hPc \in Publishing
      BY <3>1 DEF Publishing
    <3>3. Current(s1) => latest_targets'.fields.mask = Last.mask
      BY <1>0, <3>1, <3>2 DEF CopyNew, Fields
    <3>4. ~Current(latest_targets.seq)' /\ (Current(s1)' => Current(s1))
      BY <1>3, <3>1, <3>2, NewestIsQuiet DEF Current
    <3>5. \A i \in Axis : ~(i < 1)
      BY Bounds DEF Axis
    <3>. QED  BY <2>0, <3>1, <3>3, <3>4, <3>5, Zenon DEF TargetsNew, LastUpto
  <2>2. CASE PublishCounts
    <3>1. /\ hPc = "publish q" /\ s1' = s1
          /\ latest_targets'.seq = latest_targets.seq
          /\ latest_targets'.fields =
               [latest_targets.fields EXCEPT !.q[hIdx] = copy.q[hIdx]]
          /\ \/ hPc' = "publish q" /\ hIdx' = hIdx + 1
             \/ hPc' = "publish seq" /\ ~(hIdx < NumAxes)
      BY <2>2 DEF PublishCounts, Typed, FieldsOK
    <3>2. hPc \in Publishing
      BY <3>1 DEF Publishing
    <3>3. ASSUME Current(s1)
          PROVE  /\ latest_targets'.fields.mask = Last.mask
                 /\ LastUpto(latest_targets'.fields, hIdx + 1)
                 /\ ~(hIdx < NumAxes) => latest_targets'.fields = Last
      <4> DEFINE f == latest_targets.fields
      <4>1. f.mask = Last.mask /\ LastUpto(f, hIdx)
        BY <3>1, <3>3 DEF TargetsNew
      <4>2. copy = Last
        BY <3>2, <3>3 DEF CopyNew
      <4>3. latest_targets'.fields = [f EXCEPT !.q[hIdx] = Last.q[hIdx]]
        BY <3>1, <4>2
      <4>4. f \in Fields /\ Last \in Fields
        BY <1>0, <1>1, <3>3
      <4> HIDE DEF f
      <4>5. /\ latest_targets'.fields.mask = f.mask /\ LastUpto(latest_targets'.fields, hIdx + 1)
            /\ ~(hIdx < NumAxes) => latest_targets'.fields.q = Last.q
        BY <1>0, <4>1, <4>3, <4>4, CopyNext
      <4>6. latest_targets'.fields \in Fields
        BY TypeStep DEF Typed, FieldsOK
      <4>. QED  BY <4>1, <4>4, <4>5, <4>6, WholeFields
    <3>4. ~Current(latest_targets.seq)' /\ (Current(s1)' => Current(s1))
      BY <1>3, <3>1, <3>2, NewestIsQuiet DEF Current
    <3>. QED  BY <2>0, <3>1, <3>3, <3>4, Zenon DEF TargetsNew, LastUpto
  <2>3. CASE PublishSeq
    <3>1. /\ hPc = "publish seq" /\ hPc' = "s1" /\ latest_targets'.seq = s1
          /\ latest_targets'.fields = latest_targets.fields
      BY <2>3 DEF PublishSeq, Typed, FieldsOK
    <3>2. Current(latest_targets.seq)' => Current(s1)
      BY <1>3, <3>1 DEF Current
    <3>. QED  BY <2>0, <3>1, <3>2 DEF TargetsNew
  <2>4. CASE ~PublishMask /\ ~PublishCounts /\ ~PublishSeq
    <3>1. /\ latest_targets' = latest_targets
          /\ \/ hPc' = hPc /\ hIdx' = hIdx /\ s1' = s1
             \/ hPc' \notin {"publish q", "publish seq"}
      BY <2>4 DEF Next, BeginSetpoint, WriteStep, WriteQ, WriteMask, WriteSeq, HelperStep,
         HelperReadSeq, HelperCopyMask, HelperCopyQ, HelperCheck, RtStep, RtReadSeq,
         RtCopyCounts, RtCopyMask, RtApply, vars, hVars
    <3>2. /\ Current(latest_targets.seq)' <=> Current(latest_targets.seq)
          /\ s1' = s1 => (Current(s1)' <=> Current(s1))
      BY <1>3, <3>1 DEF Current
    <3>. QED  BY <2>0, <3>1, <3>2 DEF TargetsNew, LastUpto
  <2>. QED  BY <2>1, <2>2, <2>3, <2>4
<1>. QED  BY <1>2, <1>3, SentSteps

LEMMA RtNewStep ==
  ASSUME Typed, FirstInv, OrderInv, TargetsNew, RtNew, [Next]_vars
  PROVE  RtNew'
<1>0. rtCopy \in Fields /\ rtIdx \in Axis /\ PlacesOK /\ latest_targets.fields \in Fields
  BY DEF Typed, FieldsOK, AxesOK
<1>1. Current(rtS1) => latest_targets.fields = Last /\ Last \in Fields
  <2>1. Current(rtS1) => Current(latest_targets.seq) /\ Len(sent) # 0
    BY NewestIsQuiet DEF Current
  <2>. QED  BY <2>1, LastTyped DEF TargetsNew, Typed
<1>2. ASSUME NEW r \in Requests, BeginSetpoint(r[1], r[2])
      PROVE  RtNew'
  BY <1>2, BeginNotCurrent DEF RtNew
<1>3. CASE sent' = sent
  <2>0. Last' = Last
    BY <1>3 DEF Last
  <2>1. CASE RtReadSeq
    <3>1. rtPc' = "counts" /\ rtIdx' = 1
      BY <2>1 DEF RtReadSeq, FirstInv
    <3>2. \A i \in Axis : ~(i < 1)
      BY Bounds DEF Axis
    <3>. QED  BY <3>1, <3>2, Zenon DEF RtNew, LastUpto
  <2>2. CASE RtCopyCounts
    <3>1. /\ rtPc = "counts" /\ rtS1' = rtS1
          /\ rtCopy' = [rtCopy EXCEPT !.q[rtIdx] = latest_targets.fields.q[rtIdx]]
          /\ \/ rtPc' = "counts" /\ rtIdx' = rtIdx + 1
             \/ rtPc' = "mask" /\ ~(rtIdx < NumAxes)
      BY <2>2 DEF RtCopyCounts
    <3>2. Current(rtS1)' => Current(rtS1)
      BY <1>3, <3>1 DEF Current
    <3>3. ASSUME Current(rtS1)
          PROVE  /\ LastUpto(rtCopy', rtIdx + 1)
                 /\ ~(rtIdx < NumAxes) => rtCopy'.q = Last.q
      <4>1. LastUpto(rtCopy, rtIdx)
        BY <3>1, <3>3 DEF RtNew
      <4>2. rtCopy' = [rtCopy EXCEPT !.q[rtIdx] = Last.q[rtIdx]] /\ Last \in Fields
        BY <1>1, <3>1, <3>3
      <4>. QED  BY <1>0, <4>1, <4>2, CopyNext
    <3>. QED  BY <2>0, <3>1, <3>2, <3>3, Zenon DEF RtNew, LastUpto
  <2>3. CASE RtCopyMask
    <3>1. /\ rtPc = "mask" /\ rtPc' = "s2" /\ rtS1' = rtS1
          /\ rtCopy' = [rtCopy EXCEPT !.mask = latest_targets.fields.mask]
      BY <2>3 DEF RtCopyMask
    <3>2. Current(rtS1)' => Current(rtS1)
      BY <1>3, <3>1 DEF Current
    <3>3. ASSUME Current(rtS1) PROVE rtCopy' = Last
      <4>1. rtCopy.q = Last.q
        BY <3>1, <3>3 DEF RtNew
      <4>2. rtCopy'.mask = Last.mask /\ rtCopy'.q = rtCopy.q
        BY <1>0, <1>1, <3>1, <3>3 DEF Fields
      <4>3. rtCopy' \in Fields
        BY TypeStep DEF Typed, FieldsOK
      <4>. QED  BY <1>1, <3>3, <4>1, <4>2, <4>3, WholeFields
    <3>. QED  BY <2>0, <3>1, <3>2, <3>3 DEF RtNew
  <2>4. CASE RtApply
    BY <2>4 DEF RtApply, RtNew
  <2>5. CASE ~RtStep
    <3>1. UNCHANGED <<rtS1, rtPc, rtIdx, rtCopy>>
      BY <2>5 DEF Next, BeginSetpoint, WriteStep, WriteQ, WriteMask, WriteSeq, HelperStep,
         HelperReadSeq, HelperCopyMask, HelperCopyQ, HelperCheck, PublishMask, PublishCounts,
         PublishSeq, vars, rtVars
    <3>2. Current(rtS1)' <=> Current(rtS1)
      BY <1>3, <3>1 DEF Current
    <3>. QED  BY <2>0, <3>1, <3>2 DEF RtNew, LastUpto
  <2>. QED  BY <2>1, <2>2, <2>3, <2>4, <2>5 DEF RtStep
<1>. QED  BY <1>2, <1>3, SentSteps

LEMMA NewestInit == Init => Typed /\ FirstInv /\ NewestInv
<1> SUFFICES ASSUME Init PROVE Typed /\ FirstInv /\ NewestInv
  OBVIOUS
<1>1. /\ Len(sent) = 0 /\ s1 = 0 /\ rtS1 = 0 /\ last_setpoint_seen = 0
      /\ slot.seq = 0 /\ latest_targets.seq = 0
  BY DEF Init
<1>2. wPc = "idle" /\ hPc = "s1" /\ hPc \notin Publishing
  BY DEF Init, Publishing
<1>3. OrderInv
  BY <1>1, <1>2 DEF OrderInv
<1>4. SlotNew /\ CopyNew /\ TargetsNew /\ RtNew
  BY <1>1, <1>2 DEF SlotNew, CopyNew, TargetsNew, RtNew, Current
<1>. QED  BY <1>3, <1>4, TypeInit DEF NewestInv, FirstInv, Init

LEMMA NewestStep ==
  Typed /\ FirstInv /\ NewestInv /\ [Next]_vars => (Typed /\ FirstInv /\ NewestInv)'
<1> SUFFICES ASSUME Typed, FirstInv, NewestInv, [Next]_vars
             PROVE  (Typed /\ FirstInv /\ NewestInv)'
  OBVIOUS
<1>1. Typed' /\ FirstInv'
  BY TypeStep, FirstStep
<1>2. OrderInv' /\ SlotNew' /\ CopyNew' /\ TargetsNew' /\ RtNew'
  BY OrderStep, SlotNewStep, CopyNewStep, TargetsNewStep, RtNewStep DEF NewestInv
<1>. QED  BY <1>1, <1>2 DEF NewestInv

LEMMA NotEmpty == ASSUME SentOK, sent # <<>> PROVE Len(sent) # 0
  BY EmptySeq DEF SentOK

\* What has been copied under the number of the newest setpoint is that setpoint,
\* whole: a torn copy is always of an older one (the fields are stored before the
\* number in backend.py _write_setpoint and in the helper's publication, and the
\* reader loads the number first).
THEOREM NewestWhole == Spec => []NewestIsWhole
<1>1. Typed /\ FirstInv /\ NewestInv => NewestIsWhole
  <2> SUFFICES ASSUME Typed, NewestInv, sent # <<>>
               PROVE  /\ latest_targets.seq = Len(sent) => latest_targets.fields = Last
                      /\ rtPc = "s2" /\ rtS1 = Len(sent) => rtCopy = Last
    BY DEF NewestIsWhole, Last
  <2>1. Len(sent) # 0
    BY NotEmpty DEF Typed
  <2>2. latest_targets.seq = Len(sent) => latest_targets.fields = Last
    BY <2>1 DEF NewestInv, TargetsNew, Current
  <2>3. rtPc = "s2" /\ rtS1 = Len(sent) => rtCopy = Last
    BY <2>1 DEF NewestInv, RtNew, Current
  <2>. QED  BY <2>2, <2>3
<1>. QED  BY <1>1, NewestInit, NewestStep, PTL DEF Spec

(***************************************************************************)
(* Why no axis goes back.  An axis's position passes from the slot to the  *)
(* helper's copy, to latest_targets, to the cyclic thread's copy and to    *)
(* the tracked target.  Torn or not, none of these holds the newest        *)
(* position before its source does, or loses it while the next setpoint    *)
(* has not begun.                                                          *)
(***************************************************************************)
LastIs ==
  Len(sent) # 0 => \A i \in Axis : Last.q[i] \in {Filler, Len(sent)}

NoneAhead(i) ==
  /\ slot.fields.q[i] <= Len(sent) /\ copy.q[i] <= Len(sent)
  /\ latest_targets.fields.q[i] <= Len(sent) /\ rtCopy.q[i] <= Len(sent)
  /\ tracked[i] <= Len(sent)

\* The pass a thread is in has copied axis i already.
Copied(i)   == (hPc = "q" /\ i < hIdx) \/ hPc \in {"s2"} \cup Publishing
RtCopied(i) == (rtPc = "counts" /\ i < rtIdx) \/ rtPc \in {"mask", "s2"}

NoneBack(i) ==
  /\ copy.q[i] = Len(sent) => slot.fields.q[i] = Len(sent)
  /\ latest_targets.fields.q[i] = Len(sent) =>
       slot.fields.q[i] = Len(sent) /\ (Copied(i) => copy.q[i] = Len(sent))
  /\ rtCopy.q[i] = Len(sent) => latest_targets.fields.q[i] = Len(sent)
  /\ tracked[i] = Len(sent) =>
       latest_targets.fields.q[i] = Len(sent) /\ (RtCopied(i) => rtCopy.q[i] = Len(sent))

InNewest(i) == Len(sent) # 0 /\ Last.q[i] = Len(sent)

AxesInv ==
  /\ LastIs
  /\ \A i \in Axis : NoneAhead(i) /\ (InNewest(i) => NoneBack(i))

LEMMA AxisOrder ==
  ASSUME NEW i \in Axis, NEW j \in Axis
  PROVE  /\ i < j + 1 => i < j \/ i = j
         /\ ~(j < NumAxes) => i < j \/ i = j
         /\ ~(i < 1)
  BY Bounds DEF Axis

LEMMA AxisValues ==
  ASSUME Typed, NEW i \in Axis
  PROVE  /\ slot.fields.q[i] \in Int /\ copy.q[i] \in Int /\ rtCopy.q[i] \in Int
         /\ latest_targets.fields.q[i] \in Int /\ tracked[i] \in Int /\ Len(sent) \in Nat
<1>1. Value \subseteq Int /\ None \in Int
  BY Bounds DEF Value, None
<1>2. /\ slot.fields.q[i] \in Value /\ copy.q[i] \in Value /\ rtCopy.q[i] \in Value
      /\ latest_targets.fields.q[i] \in Value
  BY FieldTypes DEF Typed, FieldsOK
<1>3. tracked[i] \in Value \cup {None}
  BY DEF Typed, TrackedOK
<1>4. Len(sent) \in Nat
  BY Bounds DEF Typed, SentOK
<1>. QED  BY <1>1, <1>2, <1>3, <1>4, Zenon

LEMMA LastIsStep == ASSUME Typed, LastIs, [Next]_vars PROVE LastIs'
<1>1. ASSUME NEW r \in Requests, BeginSetpoint(r[1], r[2])
      PROVE  LastIs'
  <2> DEFINE new == Setpoint(Len(sent) + 1, r[1], r[2])
  <2>1. Len(sent) + 1 \in Value /\ sent' = Append(sent, new)
    BY <1>1, Bounds DEF BeginSetpoint, Typed, SentOK, Value
  <2>2. new \in Fields
    BY <2>1, RequestTyped, SetpointTyped
  <2>3. \A i \in Axis : new.q[i] \in {Filler, Len(sent) + 1}
    BY Zenon DEF Setpoint
  <2> HIDE DEF new
  <2>4. Len(sent') = Len(sent) + 1 /\ sent'[Len(sent) + 1] = new
    BY <2>1, <2>2, AppendProperties DEF Typed, SentOK
  <2>. QED  BY <2>3, <2>4 DEF LastIs, Last
<1>2. CASE sent' = sent
  BY <1>2 DEF LastIs, Last
<1>. QED  BY <1>1, <1>2, SentSteps

\* What a step does to the copies of one axis: nothing, or one of them is stored.
LEMMA AxisStep ==
  ASSUME Typed, FirstInv, LastIs, NEW i \in Axis, NoneAhead(i), InNewest(i) => NoneBack(i),
         [Next]_vars
  PROVE  NoneAhead(i)' /\ (InNewest(i)' => NoneBack(i)')
<1>0. /\ slot.fields \in Fields /\ latest_targets.fields \in Fields
      /\ copy \in Fields /\ rtCopy \in Fields /\ hIdx \in Axis /\ rtIdx \in Axis
      /\ wIdx \in Axis /\ PlacesOK /\ Len(sent) \in Nat
  BY AxisValues DEF Typed, FieldsOK, AxesOK
<1>1. ASSUME NEW r \in Requests, BeginSetpoint(r[1], r[2])
      PROVE  NoneAhead(i)' /\ (InNewest(i)' => NoneBack(i)')
  <2>1. /\ Len(sent') = Len(sent) + 1
        /\ UNCHANGED <<slot, copy, latest_targets, rtCopy, tracked>>
    BY <1>1, BeginEffect DEF Typed, hVars, rtVars
  <2>2. /\ slot.fields.q[i] < Len(sent) + 1 /\ copy.q[i] < Len(sent) + 1
        /\ latest_targets.fields.q[i] < Len(sent) + 1 /\ rtCopy.q[i] < Len(sent) + 1
        /\ tracked[i] < Len(sent) + 1
    BY AxisValues DEF NoneAhead
  <2>3. \A n \in Int : n < Len(sent) + 1 => n <= Len(sent) + 1 /\ n # Len(sent) + 1
    BY ONLY <1>0
  <2>. QED  BY <2>1, <2>2, <2>3, AxisValues DEF NoneAhead, NoneBack
<1>2. CASE sent' = sent
  <2>0. Last' = Last /\ (InNewest(i)' <=> InNewest(i)) /\ Len(sent') = Len(sent)
    BY <1>2 DEF Last, InNewest
  <2>1. CASE WriteQ
    <3>1. /\ Len(sent) # 0
          /\ slot'.fields = [slot.fields EXCEPT !.q[wIdx] = Last.q[wIdx]]
          /\ UNCHANGED <<hPc, hIdx, copy, latest_targets, rtPc, rtIdx, rtCopy, tracked>>
      BY <2>1 DEF WriteQ, Typed, SentOK, FieldsOK, Last, hVars, rtVars
    <3>2. slot'.fields.q[i] \in {slot.fields.q[i], Last.q[i]}
      BY <1>0, <3>1 DEF Fields
    <3>3. Last.q[i] <= Len(sent)
      BY <1>0, <3>1 DEF LastIs, Filler
    <3>. QED  BY <2>0, <3>1, <3>2, <3>3, Zenon
              DEF NoneAhead, NoneBack, InNewest, Copied, RtCopied
  <2>2. CASE WriteMask \/ WriteSeq
    <3>1. /\ slot'.fields.q[i] = slot.fields.q[i]
          /\ UNCHANGED <<hPc, hIdx, copy, latest_targets, rtPc, rtIdx, rtCopy, tracked>>
      <4>1. /\ \/ slot'.fields = [slot.fields EXCEPT !.mask = sent[Len(sent)].mask]
               \/ slot'.fields = slot.fields
            /\ UNCHANGED <<hVars, latest_targets, rtVars>>
        BY <2>2 DEF WriteMask, WriteSeq, Typed, FieldsOK
      <4>2. slot'.fields.q[i] = slot.fields.q[i]
        BY <1>0, <4>1 DEF Fields
      <4>. QED  BY <4>1, <4>2 DEF hVars, rtVars
    <3>. QED  BY <2>0, <3>1, Zenon DEF NoneAhead, NoneBack, Copied, RtCopied
  <2>3. CASE HelperReadSeq \/ HelperCopyMask
    <3>1. /\ copy'.q[i] = copy.q[i]
          /\ hPc' = "mask" \/ (hPc' = "q" /\ hIdx' = 1)
          /\ UNCHANGED <<slot, latest_targets, rtPc, rtIdx, rtCopy, tracked>>
      <4>1. /\ copy' = copy \/ copy' = [copy EXCEPT !.mask = slot.fields.mask]
            /\ hPc' = "mask" \/ (hPc' = "q" /\ hIdx' = 1)
            /\ UNCHANGED <<slot, latest_targets, rtVars>>
        BY <2>3 DEF HelperReadSeq, HelperCopyMask, FirstInv
      <4>2. copy'.q[i] = copy.q[i]
        BY <1>0, <4>1 DEF Fields
      <4>. QED  BY <4>1, <4>2 DEF rtVars
    <3>2. ~Copied(i)'
      BY <3>1, AxisOrder DEF Copied, Publishing
    <3>. QED  BY <2>0, <3>1, <3>2, Zenon DEF NoneAhead, NoneBack, RtCopied
  <2>4. CASE HelperCopyQ
    <3>1. /\ copy' = [copy EXCEPT !.q[hIdx] = slot.fields.q[hIdx]] /\ hPc = "q"
          /\ \/ hPc' = "q" /\ hIdx' = hIdx + 1
             \/ hPc' = "s2" /\ ~(hIdx < NumAxes)
          /\ UNCHANGED <<slot, latest_targets, rtPc, rtIdx, rtCopy, tracked>>
      BY <2>4 DEF HelperCopyQ, rtVars
    <3>2. copy'.q[i] = IF i = hIdx THEN slot.fields.q[i] ELSE copy.q[i]
      BY <1>0, <3>1 DEF Fields
    <3>3. Copied(i)' => Copied(i) \/ i = hIdx
      BY <1>0, <3>1, AxisOrder, Zenon DEF Copied
    <3>. QED  BY <2>0, <3>1, <3>2, <3>3, Zenon DEF NoneAhead, NoneBack, RtCopied
  <2>5. CASE HelperCheck \/ PublishSeq
    <3>1. /\ latest_targets'.fields = latest_targets.fields
          /\ UNCHANGED <<slot, rtPc, rtIdx, rtCopy, tracked>>
          /\ \/ hPc = "s2" /\ copy' = copy
             \/ hPc' = "s1" /\ copy' = Blank
      BY <2>5 DEF HelperCheck, PublishSeq, Typed, FieldsOK, rtVars
    <3>2. Blank.q[i] = 0 /\ 0 <= Len(sent) /\ (InNewest(i) => Len(sent) # 0)
      BY <1>0 DEF Blank, Filler, InNewest
    <3>3. hPc = "s2" => Copied(i)
      BY DEF Copied
    <3>4. hPc' = "s1" => ~Copied(i)'
      BY DEF Copied, Publishing
    <3>. QED  BY <2>0, <3>1, <3>2, <3>3, <3>4, Zenon DEF NoneAhead, NoneBack, RtCopied
  <2>6. CASE PublishMask \/ PublishCounts
    <3>1. /\ \/ latest_targets'.fields = [latest_targets.fields EXCEPT !.mask = copy.mask]
             \/ latest_targets'.fields =
                  [latest_targets.fields EXCEPT !.q[hIdx] = copy.q[hIdx]]
          /\ hPc \in Publishing
          /\ UNCHANGED <<slot, copy, rtPc, rtIdx, rtCopy, tracked>>
      BY <2>6 DEF PublishMask, PublishCounts, Typed, FieldsOK, Publishing, rtVars
    <3>2. latest_targets'.fields.q[i] \in {latest_targets.fields.q[i], copy.q[i]}
      BY <1>0, <3>1 DEF Fields
    <3>3. Copied(i)
      BY <3>1 DEF Copied
    <3>. QED  BY <2>0, <3>1, <3>2, <3>3, Zenon DEF NoneAhead, NoneBack, RtCopied
  <2>7. CASE RtReadSeq
    <3>1. /\ rtPc' = "counts" /\ rtIdx' = 1
          /\ UNCHANGED <<slot, hPc, hIdx, copy, latest_targets, rtCopy, tracked>>
      BY <2>7 DEF RtReadSeq, FirstInv, hVars
    <3>2. ~RtCopied(i)'
      BY <3>1, AxisOrder DEF RtCopied
    <3>. QED  BY <2>0, <3>1, <3>2, Zenon DEF NoneAhead, NoneBack, Copied
  <2>8. CASE RtCopyCounts
    <3>1. /\ rtCopy' = [rtCopy EXCEPT !.q[rtIdx] = latest_targets.fields.q[rtIdx]]
          /\ rtPc = "counts"
          /\ \/ rtPc' = "counts" /\ rtIdx' = rtIdx + 1
             \/ rtPc' = "mask" /\ ~(rtIdx < NumAxes)
          /\ UNCHANGED <<slot, hPc, hIdx, copy, latest_targets, tracked>>
      BY <2>8 DEF RtCopyCounts, hVars
    <3>2. rtCopy'.q[i] = IF i = rtIdx THEN latest_targets.fields.q[i] ELSE rtCopy.q[i]
      BY <1>0, <3>1 DEF Fields
    <3>3. RtCopied(i)' => RtCopied(i) \/ i = rtIdx
      BY <1>0, <3>1, AxisOrder, Zenon DEF RtCopied
    <3>. QED  BY <2>0, <3>1, <3>2, <3>3, Zenon DEF NoneAhead, NoneBack, Copied
  <2>9. CASE RtCopyMask
    <3>1. /\ rtCopy'.q[i] = rtCopy.q[i] /\ rtPc = "mask" /\ rtPc' = "s2"
          /\ UNCHANGED <<slot, hPc, hIdx, copy, latest_targets, tracked>>
      BY <1>0, <2>9 DEF RtCopyMask, hVars, Fields
    <3>2. RtCopied(i)
      BY <3>1 DEF RtCopied
    <3>. QED  BY <2>0, <3>1, <3>2, Zenon DEF NoneAhead, NoneBack, Copied
  <2>10. CASE RtApply
    <3>1. /\ tracked'[i] \in {rtCopy.q[i], tracked[i]} /\ rtPc' = "s1" /\ rtCopy' = Blank
          /\ UNCHANGED <<slot, hPc, hIdx, copy, latest_targets>>
      BY <2>10 DEF RtApply, hVars
    <3>2. Blank.q[i] = 0 /\ 0 <= Len(sent) /\ (InNewest(i) => Len(sent) # 0)
      BY <1>0 DEF Blank, Filler, InNewest
    <3>3. ~RtCopied(i)'
      BY <3>1 DEF RtCopied
    <3>. QED  BY <2>0, <3>1, <3>2, <3>3, Zenon DEF NoneAhead, NoneBack, Copied
  <2>11. CASE UNCHANGED vars
    BY <2>0, <2>11, Zenon DEF vars, hVars, rtVars, NoneAhead, NoneBack, Copied, RtCopied
  <2>12. CASE \E r \in Requests : BeginSetpoint(r[1], r[2])
    BY <1>1, <2>12
  <2>. QED  BY <2>1, <2>2, <2>3, <2>4, <2>5, <2>6, <2>7, <2>8, <2>9, <2>10, <2>11, <2>12
            DEF Next, WriteStep, HelperStep, RtStep
<1>. QED  BY <1>1, <1>2, SentSteps

LEMMA AxesInit == Init => AxesInv
<1> SUFFICES ASSUME Init PROVE AxesInv
  OBVIOUS
<1>1. Len(sent) = 0
  BY DEF Init
<1>2. ASSUME NEW i \in Axis
      PROVE  NoneAhead(i)
  BY <1>1 DEF Init, Blank, Filler, None, NoneAhead
<1>. QED  BY <1>1, <1>2 DEF AxesInv, LastIs, InNewest

\* The step property itself.
KeptStep ==
  \A i \in Axis : sent # <<>> /\ sent' = sent /\ sent[Len(sent)].q[i] = Len(sent) /\
    tracked[i] = Len(sent) => tracked'[i] = Len(sent)

\* An axis that has reached the newest setpoint stays there until Python sends
\* another, torn copies included (the hand-overs of backend.py _write_setpoint and
\* of the helper in main.cpp): the part of SettlesOnLast that needs no fairness.
THEOREM NewestKept == Spec => NewestIsKept
<1>1. Init => Typed /\ FirstInv /\ AxesInv
  BY TypeInit, AxesInit DEF Init, FirstInv
<1>2. Typed /\ FirstInv /\ AxesInv /\ [Next]_vars => (Typed /\ FirstInv /\ AxesInv)'
  <2> SUFFICES ASSUME Typed, FirstInv, AxesInv, [Next]_vars
               PROVE  (Typed /\ FirstInv /\ AxesInv)'
    OBVIOUS
  <2>1. LastIs'
    BY LastIsStep DEF AxesInv
  <2>2. ASSUME NEW i \in Axis
        PROVE  NoneAhead(i)' /\ (InNewest(i)' => NoneBack(i)')
    BY AxisStep DEF AxesInv
  <2>. QED  BY <2>1, <2>2, TypeStep, FirstStep DEF AxesInv, Axis
<1>3. Typed /\ AxesInv /\ [Next]_vars => [KeptStep]_vars
  <2> SUFFICES ASSUME Typed, AxesInv, [Next]_vars, NEW i \in Axis, sent # <<>>,
                      Last.q[i] = Len(sent), tracked[i] = Len(sent)
               PROVE  tracked'[i] = Len(sent)
    BY DEF KeptStep, Last
  <2>1. InNewest(i) /\ NoneBack(i)
    BY NotEmpty DEF Typed, AxesInv, InNewest
  <2>2. CASE RtApply
    <3>1. rtPc = "s2" /\ tracked'[i] \in {rtCopy.q[i], tracked[i]}
      BY <2>2 DEF RtApply
    <3>2. rtCopy.q[i] = Len(sent)
      BY <2>1, <3>1 DEF NoneBack, RtCopied
    <3>. QED  BY <3>1, <3>2
  <2>3. CASE ~RtApply
    <3>1. tracked' = tracked
      BY <2>3 DEF Next, BeginSetpoint, WriteStep, WriteQ, WriteMask, WriteSeq, HelperStep,
         HelperReadSeq, HelperCopyMask, HelperCopyQ, HelperCheck, PublishMask,
         PublishCounts, PublishSeq, RtStep, RtReadSeq, RtCopyCounts, RtCopyMask, vars, rtVars
    <3>. QED  BY <3>1
  <2>. QED  BY <2>2, <2>3
<1>4. Spec => [][KeptStep]_vars
  BY <1>1, <1>2, <1>3, PTL DEF Spec
<1>. QED  BY <1>4 DEF NewestIsKept, KeptStep

=============================================================================
