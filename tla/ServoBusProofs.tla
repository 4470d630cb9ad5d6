--------------------------- MODULE ServoBusProofs ---------------------------
(***************************************************************************)
(* What module ServoBus shows of two servos, two publishers and two        *)
(* commands, for any servos, publishers and commands: who publishes        *)
(* telemetry, what a read gives, and what the posture is taken to be.      *)
(***************************************************************************)
EXTENDS ServoBus, FiniteSetTheorems, SequenceTheorems, TLAPS

(***************************************************************************)
(* Telemetry.  Every publisher but the registered one has been missed; and *)
(* between the two halves of a handler either the event is set, and then   *)
(* the registered one is counted when it is missed, or the registered one  *)
(* has ended.                                                              *)
(***************************************************************************)
PublisherInv ==
  /\ pub \in [Publisher -> {None, "look", "positions", "block"}]
  /\ \A p \in Publisher : Publishing(p) => p = telemetry_thread \/ p \in missed
  /\ cPc \in {"start", "stop"} =>
       telemetry_stop_event \/ \A p \in Publisher : Publishing(p) => p \in missed

LEMMA NamesDiffer ==
  /\ "command" \notin Publisher /\ "executor" \notin Publisher /\ "pacing" \notin Publisher
  /\ None \notin Publisher
  BY Assumptions DEF Assumptions, None

LEMMA PublisherInit == Init => PublisherInv
  BY DEF Init, PublisherInv, Publishing, None

\* Steps that leave telemetry alone, and do not begin one of its handlers.
Elsewhere ==
  /\ UNCHANGED service
  /\ cPc' \in {"start", "stop"} => cPc' = cPc

LEMMA PublisherElsewhere == ASSUME PublisherInv, Elsewhere PROVE PublisherInv'
  BY DEF PublisherInv, Elsewhere, service, Publishing

LEMMA ReadsElsewhere == ASSUME NEW r \in Reader, SyncRead(r) PROVE Elsewhere
  BY DEF SyncRead, Override, Request, Receive, Restore, Elsewhere, service, command

LEMMA MovesElsewhere == ASSUME Moves PROVE Elsewhere
  BY DEF Moves, Open, Register, Watch, WatchCancel, WatchBrake, StoreEnd, Unregister,
     EndMotion, PaceLook, Resume, Pace, LoopLook, LoopWrite, LoopEnd, Elsewhere, command

LEMMA HandlersElsewhere ==
  ASSUME \/ TakeStop \/ StopCancel \/ StopStreamBrake \/ StopFlag \/ StopStore \/ StopHold
         \/ TakeDirect \/ MoveDirectly \/ TakeMove \/ StartMove \/ PauseAndResume
  PROVE  Elsewhere
  BY DEF TakeStop, StopCancel, StopStreamBrake, StopFlag, StopStore, StopHold, TakeDirect,
     MoveDirectly, TakeMove, StartMove, PauseAndResume, AtCommand, Elsewhere

LEMMA PublisherByPublisher ==
  ASSUME PublisherInv, NEW p \in Publisher, Publishes(p)
  PROVE  PublisherInv'
<1>1. /\ telemetry_thread' = telemetry_thread /\ cPc' = cPc
      /\ telemetry_stop_event' = telemetry_stop_event
  BY DEF Publishes, Look, Publish, PublishBlock, command
<1>2. PICK to \in {None, "look", "positions", "block"} :
        /\ pub' = [pub EXCEPT ![p] = to] /\ Publishing(p)
        /\ \/ missed' = missed
           \/ missed' = missed \ {p} /\ to = None
  <2>1. CASE Look(p)
    BY <2>1 DEF Look, Publishing, None
  <2>2. CASE Publish(p) \/ PublishBlock(p)
    BY <2>2 DEF Publish, PublishBlock, AtPub, Publishing, None
  <2>. QED  BY <2>1, <2>2 DEF Publishes
<1>3. \A q \in Publisher : Publishing(q)' => Publishing(q) /\ (q \in missed => q \in missed')
  BY <1>2 DEF Publishing, PublisherInv
<1>4. pub' \in [Publisher -> {None, "look", "positions", "block"}]
  BY <1>2 DEF PublisherInv
<1>. QED  BY <1>1, <1>3, <1>4 DEF PublisherInv

LEMMA PublisherByHandler ==
  ASSUME PublisherInv,
         \/ TakeTelemetry("start") \/ StartPublisher
         \/ TakeTelemetry("stop") \/ ForgetPublisher
  PROVE  PublisherInv'
<1>1. CASE TakeTelemetry("start") \/ TakeTelemetry("stop")
  <2>1. /\ pub' = pub /\ missed' = missed /\ telemetry_thread' = telemetry_thread
        /\ telemetry_stop_event' = (telemetry_thread # None /\ Publishing(telemetry_thread))
    BY <1>1 DEF TakeTelemetry
  <2>2. ASSUME ~telemetry_stop_event', NEW p \in Publisher, Publishing(p), telemetry_thread # None
        PROVE  p \in missed
    BY <2>1, <2>2 DEF PublisherInv
  <2>3. ASSUME NEW p \in Publisher, Publishing(p), telemetry_thread = None
        PROVE  p \in missed
    BY <2>3, NamesDiffer DEF PublisherInv
  <2>. QED  BY <2>1, <2>2, <2>3 DEF PublisherInv, Publishing
<1>2. CASE StartPublisher \/ ForgetPublisher
  <2>1. /\ cPc \in {"start", "stop"} /\ cPc' = "idle"
        /\ missed' = missed \cup {p \in Publisher : telemetry_stop_event /\ Publishing(p)}
    BY <1>2 DEF StartPublisher, ForgetPublisher, AtCommand, Joined
  <2>2. \A p \in Publisher : Publishing(p) => p \in missed'
    BY <2>1 DEF PublisherInv
  <2>3. CASE ForgetPublisher
    BY <2>1, <2>2, <2>3 DEF ForgetPublisher, PublisherInv, Publishing
  <2>4. CASE StartPublisher
    <3>1. PICK p \in Publisher : telemetry_thread' = p /\ pub' = [pub EXCEPT ![p] = "look"]
      BY <2>4 DEF StartPublisher
    <3>. QED  BY <2>1, <2>2, <3>1 DEF PublisherInv, Publishing
  <2>. QED  BY <1>2, <2>3, <2>4
<1>. QED  BY <1>1, <1>2

LEMMA PublisherStep == PublisherInv /\ [Next]_vars => PublisherInv'
<1> SUFFICES ASSUME PublisherInv, [Next]_vars PROVE PublisherInv'
  OBVIOUS
<1>1. CASE UNCHANGED vars
  BY <1>1, PublisherElsewhere DEF Elsewhere, vars, command
<1>2. CASE Next
  BY <1>2, PublisherElsewhere, ReadsElsewhere, MovesElsewhere, HandlersElsewhere,
     PublisherByPublisher, PublisherByHandler DEF Next, Handles
<1>. QED  BY <1>1, <1>2

LEMMA PublisherGivesLone == PublisherInv => LonePublisher
  BY DEF PublisherInv, LonePublisher

\* Whatever is started and stopped, a publisher that is not the registered one
\* was busy or asleep for the whole time it was given to end (run_controller.py,
\* START_TELEMETRY and STOP_TELEMETRY).
THEOREM PublishersKnown == Spec => []LonePublisher
  BY PublisherInit, PublisherStep, PublisherGivesLone, PTL DEF Spec

-----------------------------------------------------------------------------
(***************************************************************************)
(* Who overrides the port's timeout: not the publishers.                   *)
(***************************************************************************)
OverrideInv == \A p \in Publisher : at[p] \notin {"override", "restore"}

LEMMA OverrideInit == Init => OverrideInv
  BY DEF Init, OverrideInv, Reader

LEMMA PublishersDoNotOverride == ASSUME NEW p \in Publisher PROVE ~Overrides(p)
  BY NamesDiffer DEF Overrides

LEMMA OverrideStep ==
  ASSUME OverrideInv, at \in [Reader -> {"out", "override", "request", "read", "restore", "back"}],
         [Next]_vars
  PROVE  OverrideInv'
<1> SUFFICES ASSUME NEW p \in Publisher PROVE at'[p] \notin {"override", "restore"}
  BY DEF OverrideInv
<1>1. p \in Reader /\ p \notin Mover /\ ~Overrides(p)
  BY NamesDiffer, PublishersDoNotOverride DEF Reader, Mover
<1>2. at[p] \notin {"override", "restore"}
  BY DEF OverrideInv
<1>3. CASE UNCHANGED vars
  BY <1>2, <1>3 DEF vars, reading
<1>4. ASSUME NEW r \in Reader, SyncRead(r) PROVE at'[p] \notin {"override", "restore"}
  <2>1. CASE Receive(r)
    <3>1. at' = [at EXCEPT ![r] = IF Overrides(r) THEN "restore" ELSE "back"]
      BY <2>1 DEF Receive
    <3>. QED  BY <1>1, <1>2, <3>1
  <2>2. CASE Override(r) \/ Request(r) \/ Restore(r)
    <3>1. \E to \in {"request", "read", "back"} : at' = [at EXCEPT ![r] = to]
      BY <2>2 DEF Override, Request, Restore
    <3>. QED  BY <1>2, <3>1
  <2>. QED  BY <1>4, <2>1, <2>2 DEF SyncRead
<1>5. ASSUME NEW q \in Publisher, Publishes(q) PROVE at'[p] \notin {"override", "restore"}
  <2>1. at' = at \/ Begin(q, FALSE) \/ Return(q)
    BY <1>5 DEF Publishes, Look, Publish, PublishBlock
  <2>. QED  BY <1>1, <1>2, <2>1 DEF Begin, Return
<1>6. CASE Moves \/ Handles
  <2>1. at' = at \/ \E r \in Mover : \E to : at' = [at EXCEPT ![r] = to]
    <3>1. CASE Moves
      BY <3>1 DEF Moves, Open, Register, Watch, WatchCancel, WatchBrake, StoreEnd, Unregister,
         EndMotion, PaceLook, Resume, Pace, LoopLook, LoopWrite, LoopEnd, Cancel, StreamBrake,
         Hold, Lead, Begin, Return, Mover, reading
    <3>2. CASE Handles
      BY <3>2 DEF Handles, TakeStop, StopCancel, StopStreamBrake, StopFlag, StopStore, StopHold,
         TakeDirect, MoveDirectly, TakeMove, StartMove, PauseAndResume, TakeTelemetry,
         StartPublisher, ForgetPublisher, Cancel, StreamBrake, Begin, Return, Mover, reading
    <3>. QED  BY <1>6, <3>1, <3>2
  <2>. QED  BY <1>1, <1>2, <2>1
<1>. QED  BY <1>3, <1>4, <1>5, <1>6 DEF Next

-----------------------------------------------------------------------------
(***************************************************************************)
(* What is on the bus.                                                     *)
(***************************************************************************)
LEMMA ServoCount == Cardinality(Servo) \in Nat \ {0}
<1>1. IsFiniteSet(Servo) /\ Servo # {}
  BY Assumptions DEF Assumptions
<1>. QED  BY <1>1, FS_CardinalityType, FS_EmptySet

\* Any servos answer with one frame each, of the block they were asked for.
LEMMA AnswersAreFrames ==
  ASSUME NEW r, NEW servos \in SUBSET Servo, NEW answers \in Answers(r, servos)
  PROVE  /\ answers \in Seq(Frame) /\ Len(answers) = Cardinality(servos)
         /\ DOMAIN answers = 1..Cardinality(servos)
<1>1. Cardinality(servos) \in Nat
  <2>1. IsFiniteSet(servos)
    BY Assumptions, FS_Subset DEF Assumptions
  <2>. QED  BY <2>1, FS_CardinalityType
<1>2. answers \in [1..Cardinality(servos) -> [servo : servos, block : {Block(r)}]]
  BY DEF Answers
<1>3. [servo : servos, block : {Block(r)}] \subseteq Frame
  <2>1. Block(r) \in {"position", "condition"}
    BY DEF Block
  <2>. QED  BY <2>1 DEF Frame
<1>4. answers \in [1..Cardinality(servos) -> Frame]
  BY <1>2, <1>3
<1>. QED  BY <1>1, <1>4

\* When all servos answer, in their order, none of them is left out.
LEMMA EachAnswersOnce ==
  ASSUME NEW r, NEW answers \in Answers(r, Servo)
  PROVE  /\ \A i, j \in 1..Cardinality(Servo) : i # j => answers[i].servo # answers[j].servo
         /\ \A s \in Servo : \E i \in 1..Cardinality(Servo) : answers[i].servo = s
<1> DEFINE N == Cardinality(Servo)
           f == [i \in 1..N |-> answers[i].servo]
<1>1. N \in Nat /\ IsFiniteSet(Servo) /\ Servo \subseteq Nat
  BY ServoCount, Assumptions DEF Assumptions
<1>2. /\ answers \in [1..N -> [servo : Servo, block : {Block(r)}]]
      /\ \A i, j \in 1..N : i < j => answers[i].servo < answers[j].servo
  BY DEF Answers
<1>3. \A i, j \in 1..N : i # j => answers[i].servo # answers[j].servo
  <2> SUFFICES ASSUME NEW i \in 1..N, NEW j \in 1..N, i # j
               PROVE  answers[i].servo # answers[j].servo
    OBVIOUS
  <2>1. answers[i].servo \in Nat /\ answers[j].servo \in Nat
    BY <1>1, <1>2
  <2>2. i < j \/ j < i
    BY <1>1
  <2>3. answers[i].servo < answers[j].servo \/ answers[j].servo < answers[i].servo
    BY <1>2, <2>2
  <2>. QED  BY <2>1, <2>3
<1>4. f \in Injection(1..N, Servo)
  <2>1. f \in [1..N -> Servo]
    BY <1>2
  <2>2. \A i, j \in 1..N : f[i] = f[j] => i = j
    BY <1>3
  <2>. QED  BY <2>1, <2>2 DEF Injection, IsInjective
<1>5. Cardinality(1..N) = N
  BY <1>1, FS_Interval
<1>6. f \in Surjection(1..N, Servo)
  BY <1>1, <1>4, <1>5, FS_Injection
<1>7. \A s \in Servo : \E i \in 1..N : f[i] = s
  BY <1>6 DEF Surjection
<1>. QED  BY <1>3, <1>7

\* A read that gets all the answers to its own request gives every joint its
\* position.
LEMMA AnswersAreTrue ==
  ASSUME NEW r, Block(r) = "position", NEW answers \in Answers(r, Servo)
  PROVE  Parse(answers) = "true"
<1>1. /\ DOMAIN answers = 1..Cardinality(Servo) /\ Len(answers) = Cardinality(Servo)
      /\ answers \in Seq(Frame)
  BY AnswersAreFrames
<1>2. answers # <<>>
  BY <1>1, ServoCount
<1>3. \A i \in 1..Cardinality(Servo) : answers[i].block = "position"
  BY DEF Answers
<1>4. Placed(answers)
  <2> SUFFICES ASSUME NEW s \in Servo
               PROVE  \E i \in DOMAIN answers :
                        /\ answers[i].servo = s /\ answers[i].block = "position"
                        /\ Counts(answers, i)
    BY DEF Placed
  <2>1. PICK i \in 1..Cardinality(Servo) : answers[i].servo = s
    BY EachAnswersOnce
  <2>2. ASSUME NEW j \in 1..(i - 1) PROVE answers[j].servo # answers[i].servo
    <3>1. j \in 1..Cardinality(Servo) /\ j # i
      BY ServoCount
    <3>. QED  BY <3>1, EachAnswersOnce
  <2>3. Counts(answers, i)
    BY <2>2 DEF Counts
  <2>. QED  BY <1>1, <1>3, <2>1, <2>3
<1>. QED  BY <1>2, <1>4 DEF Parse

\* One old answer at most precedes those to a request.
LEMMA LateAreFrames ==
  ASSUME frames \in Seq(Frame),
         NEW late \in {<<>>} \cup {<<frames[i]>> : i \in DOMAIN frames}
  PROVE  late \in Seq(Frame)
<1>1. ASSUME NEW i \in DOMAIN frames PROVE <<frames[i]>> \in Seq(Frame)
  <2>1. frames[i] \in Frame
    BY <1>1, LenProperties, ElementOfSeq
  <2>. QED  BY <2>1
<1>2. <<>> \in Seq(Frame)
  BY EmptySeq
<1>. QED  BY <1>1, <1>2

LEMMA TakenAreFrames ==
  ASSUME frames \in Seq(Frame), NEW k \in Nat, k <= Len(frames)
  PROVE  SubSeq(frames, k + 1, Len(frames)) \in Seq(Frame)
<1>1. Len(frames) \in Nat
  BY LenProperties
<1>2. \A i \in (k + 1)..Len(frames) : frames[i] \in Frame
  BY <1>1, ElementOfSeq
<1>. QED  BY <1>1, <1>2, SubSeqProperties

-----------------------------------------------------------------------------
(***************************************************************************)
(* Type correctness, part by part.                                         *)
(***************************************************************************)
PortTyped == frames \in Seq(Frame) /\ timeout \in {"default", "short"}

SharedTyped == streaming_handle \in BOOLEAN /\ should_stop \in BOOLEAN

ServiceTyped ==
  /\ telemetry_thread \in {None} \cup Publisher /\ telemetry_stop_event \in BOOLEAN
  /\ pub \in [Publisher -> {None, "look", "positions", "block"}]
  /\ missed \subseteq Publisher

MotionTyped ==
  /\ stream \in {None, "running", "cancelled", "done"}
  /\ ePc \in {None, "open", "register", "watch", "cancel", "brake", "store",
              "unregister", "loop", "loop read", "reached", "short", "end"}
  /\ pPc \in {None, "look", "resume", "write"}

AtTyped == at \in [Reader -> {"out", "override", "request", "read", "restore", "back"}]

GotTyped == got \in [Reader -> Posture]

SavedTyped == saved \in [Mover -> {"default", "short"}]

ReadingTyped == AtTyped /\ GotTyped /\ SavedTyped /\ disturbed \subseteq Reader

PostureTyped == ref \in {"true", "wrong"} /\ whyRef \in {"ok", "disturbed", "stopped"}

CommandTyped ==
  /\ cPc \in {"idle", "cancel", "stream brake", "flag", "stop read", "hold", "direct",
              "move read", "start", "stop"}
  /\ n \in 0..MaxCommands

Typed == /\ PortTyped /\ SharedTyped /\ ServiceTyped /\ MotionTyped
         /\ ReadingTyped /\ PostureTyped /\ CommandTyped

LEMMA TypedIsTypeOK == Typed => TypeOK
  BY Zenon DEF Typed, TypeOK, PortTyped, SharedTyped, ServiceTyped, MotionTyped, ReadingTyped,
     AtTyped, GotTyped, SavedTyped, PostureTyped, CommandTyped

LEMMA SameTyped ==
  /\ PortTyped /\ UNCHANGED port => PortTyped'
  /\ SharedTyped /\ UNCHANGED shared => SharedTyped'
  /\ ServiceTyped /\ UNCHANGED service => ServiceTyped'
  /\ MotionTyped /\ UNCHANGED motion => MotionTyped'
  /\ ReadingTyped /\ UNCHANGED reading => ReadingTyped'
  /\ PostureTyped /\ UNCHANGED posture => PostureTyped'
  /\ CommandTyped /\ UNCHANGED command => CommandTyped'
  BY Zenon DEF PortTyped, SharedTyped, ServiceTyped, MotionTyped, ReadingTyped, AtTyped,
     GotTyped, SavedTyped, PostureTyped, CommandTyped, port, shared, service, motion, reading,
     posture, command

LEMMA TypeInit == ASSUME Init PROVE Typed
<1>1. PortTyped /\ SharedTyped /\ ServiceTyped /\ MotionTyped /\ PostureTyped
  BY EmptySeq DEF Init, PortTyped, SharedTyped, ServiceTyped, MotionTyped, PostureTyped
<1>2. ReadingTyped
  BY DEF Init, ReadingTyped, AtTyped, GotTyped, SavedTyped, Posture
<1>3. CommandTyped
  BY Assumptions DEF Init, CommandTyped, Assumptions
<1>. QED  BY <1>1, <1>2, <1>3 DEF Typed

LEMMA WriteTyped == ASSUME PortTyped, SyncWrite PROVE PortTyped'
  BY EmptySeq DEF PortTyped, SyncWrite

LEMMA OutdatedTyped == ASSUME GotTyped PROVE Outdated \in [Reader -> Posture]
  BY DEF GotTyped, Outdated, Posture

LEMMA HitTyped == ASSUME NEW moves PROVE Hit(moves) \subseteq Reader
  BY DEF Hit, Waiting

LEMMA BegunTyped ==
  ASSUME AtTyped, NEW r \in Reader, NEW overriding, Begin(r, overriding) PROVE AtTyped'
  BY DEF AtTyped, Begin

LEMMA ReturnedTyped == ASSUME AtTyped, NEW r \in Reader, Return(r) PROVE AtTyped'
  BY DEF AtTyped, Return

LEMMA StoredTyped == ASSUME NEW r, StoreRead(r) PROVE PostureTyped'
  BY DEF StoreRead, PostureTyped

LEMMA FramesByRead ==
  ASSUME PortTyped, NEW r \in Reader, SyncRead(r)
  PROVE  frames' \in Seq(Frame)
<1>1. CASE Override(r) \/ Restore(r)
  BY <1>1 DEF Override, Restore, PortTyped
<1>2. CASE Request(r)
  <2>1. PICK servos \in Answering, late \in {<<>>} \cup {<<frames[i]>> : i \in DOMAIN frames} :
          \E answers \in Answers(r, servos) : frames' = late \o answers
    BY <1>2 DEF Request
  <2>2. PICK answers \in Answers(r, servos) : frames' = late \o answers
    BY <2>1
  <2>3. answers \in Seq(Frame) /\ late \in Seq(Frame)
    BY <2>1, AnswersAreFrames, LateAreFrames DEF Answering, PortTyped
  <2>. QED  BY <2>2, <2>3, ConcatProperties
<1>3. CASE Receive(r)
  <2>1. PICK k \in 0..Cardinality(Servo) :
          k <= Len(frames) /\ frames' = SubSeq(frames, k + 1, Len(frames))
    BY <1>3 DEF Receive
  <2>2. k \in Nat
    BY ServoCount
  <2>. QED  BY <2>1, <2>2, TakenAreFrames DEF PortTyped
<1>. QED  BY <1>1, <1>2, <1>3 DEF SyncRead

\* Only who has overridden the timeout, and has saved one, restores it.
LEMMA TypeByRead ==
  ASSUME Typed, OverrideInv, NEW r \in Reader, SyncRead(r)
  PROVE  Typed'
<1>1. UNCHANGED <<shared, service, motion, posture, command>>
  BY DEF SyncRead, Override, Request, Receive, Restore
<1>2. PortTyped'
  <2>1. frames' \in Seq(Frame)
    BY FramesByRead DEF Typed
  <2>2. timeout' \in {"default", "short"}
    <3>1. CASE Restore(r)
      <4>1. r \in Mover /\ timeout' = saved[r]
        BY <3>1 DEF Restore, OverrideInv, Reader
      <4>. QED  BY <4>1 DEF Typed, ReadingTyped, SavedTyped
    <3>2. CASE ~Restore(r)
      BY <3>2 DEF SyncRead, Override, Request, Receive, Typed, PortTyped
    <3>. QED  BY <3>1, <3>2
  <2>. QED  BY <2>1, <2>2 DEF PortTyped
<1>3. SavedTyped'
  BY DEF SyncRead, Override, Request, Receive, Restore, Typed, ReadingTyped, SavedTyped, PortTyped
<1>4. AtTyped'
  <2>1. \E to \in {"request", "read", "restore", "back"} : at' = [at EXCEPT ![r] = to]
    <3>1. CASE Receive(r)
      BY <3>1, Zenon DEF Receive
    <3>2. CASE Override(r) \/ Request(r) \/ Restore(r)
      BY <3>2 DEF Override, Request, Restore
    <3>. QED  BY <3>1, <3>2 DEF SyncRead
  <2>. QED  BY <2>1 DEF Typed, ReadingTyped, AtTyped
<1>5. GotTyped' /\ disturbed' \subseteq Reader
  <2>1. CASE ~Receive(r) /\ ~Request(r)
    BY <2>1 DEF SyncRead, Override, Restore, Typed, ReadingTyped, GotTyped
  <2>2. CASE Request(r)
    <3>1. got' = got /\ \E late, servos : disturbed' = Overlapped(r, late, servos)
      BY <2>2 DEF Request
    <3>. QED  BY <3>1 DEF Overlapped, Waiting, Typed, ReadingTyped, GotTyped
  <2>3. CASE Receive(r)
    <3>1. PICK k \in 0..Cardinality(Servo) :
            /\ got' = [got EXCEPT ![r] = IF Block(r) = "condition" THEN "true"
                                         ELSE Parse(SubSeq(frames, 1, k))]
            /\ disturbed' \subseteq disturbed \cup Waiting
      BY <2>3 DEF Receive
    <3>2. \A taken : Parse(taken) \in Posture
      BY DEF Parse, Posture
    <3>3. GotTyped'
      BY <3>1, <3>2 DEF Typed, ReadingTyped, GotTyped, Posture
    <3>4. disturbed' \subseteq Reader
      BY <3>1 DEF Typed, ReadingTyped, Waiting
    <3>. QED  BY <3>3, <3>4
  <2>. QED  BY <2>1, <2>2, <2>3
<1>. QED
  BY <1>1, <1>2, <1>3, <1>4, <1>5, SameTyped DEF Typed, ReadingTyped

LEMMA TypeByPublisher ==
  ASSUME Typed, NEW p \in Publisher, Publishes(p)
  PROVE  Typed'
<1>1. UNCHANGED <<port, shared, telemetry_thread, telemetry_stop_event, motion, saved, command>>
  BY DEF Publishes, Look, Publish, PublishBlock, reading
<1>2. p \in Reader
  BY DEF Reader
<1>3. ServiceTyped'
  <2>1. \E to \in {None, "look", "positions", "block"} : pub' = [pub EXCEPT ![p] = to]
    <3>1. CASE Look(p)
      BY <3>1, Zenon DEF Look
    <3>2. CASE ~Look(p)
      BY <3>2 DEF Publishes, Publish, PublishBlock, AtPub
    <3>. QED  BY <3>1, <3>2
  <2>2. missed' \subseteq missed
    BY DEF Publishes, Look, Publish, PublishBlock
  <2>. QED  BY <1>1, <2>1, <2>2 DEF Typed, ServiceTyped
<1>4. AtTyped'
  <2>1. at' = at \/ Begin(p, FALSE) \/ Return(p)
    BY DEF Publishes, Look, Publish, PublishBlock, reading
  <2>. QED  BY <1>2, <2>1, BegunTyped, ReturnedTyped DEF Typed, ReadingTyped, AtTyped
<1>5. GotTyped' /\ SavedTyped' /\ disturbed' \subseteq Reader
  <2>1. got' = got \/ got' = [got EXCEPT ![p] = "true"]
    BY DEF Publishes, Look, Publish, PublishBlock, reading
  <2>2. disturbed' \subseteq disturbed
    BY DEF Publishes, Look, Publish, PublishBlock, reading
  <2>. QED  BY <1>1, <2>1, <2>2 DEF Typed, ReadingTyped, GotTyped, SavedTyped, Posture
<1>6. PostureTyped'
  <2>1. StoreRead(p) \/ UNCHANGED posture
    BY DEF Publishes, Look, Publish, PublishBlock
  <2>. QED  BY <2>1, StoredTyped, SameTyped DEF Typed
<1>. QED  BY <1>1, <1>3, <1>4, <1>5, <1>6, SameTyped DEF Typed, ReadingTyped

LEMMA BrakeTyped ==
  ASSUME Typed, NEW r \in Mover, StreamBrake(r)
  PROVE  PortTyped' /\ ReadingTyped'
<1>0. r \in Reader
  BY DEF Reader
<1>1. PortTyped'
  <2>1. UNCHANGED port \/ SyncWrite
    BY DEF StreamBrake
  <2>. QED  BY <2>1, WriteTyped, SameTyped DEF Typed
<1>2. AtTyped'
  BY <1>0, ReturnedTyped DEF StreamBrake, Typed, ReadingTyped
<1>3. GotTyped'
  BY <1>0 DEF StreamBrake, Typed, ReadingTyped, GotTyped, Posture
<1>4. SavedTyped'
  BY DEF StreamBrake, Typed, ReadingTyped, SavedTyped
<1>5. disturbed' \subseteq Reader
  BY HitTyped DEF StreamBrake, Typed, ReadingTyped
<1>. QED  BY <1>1, <1>2, <1>3, <1>4, <1>5 DEF ReadingTyped

LEMMA GoneOnTyped ==
  ASSUME Typed, NEW r \in Mover, Hold(r) \/ Lead(r)
  PROVE  PortTyped' /\ ReadingTyped'
<1>0. r \in Reader
  BY DEF Reader
<1>1. PortTyped'
  <2>1. UNCHANGED port \/ SyncWrite
    BY DEF Hold, Lead
  <2>. QED  BY <2>1, WriteTyped, SameTyped DEF Typed
<1>2. AtTyped'
  BY <1>0, ReturnedTyped DEF Hold, Lead, Typed, ReadingTyped
<1>3. GotTyped'
  <2>1. got' = [got EXCEPT ![r] = "true"] \/ got' = [Outdated EXCEPT ![r] = "true"]
    BY DEF Hold, Lead
  <2>. QED  BY <1>0, <2>1, OutdatedTyped DEF Typed, ReadingTyped, GotTyped, Posture
<1>4. SavedTyped'
  BY DEF Hold, Lead, Typed, ReadingTyped, SavedTyped
<1>5. disturbed' \subseteq Reader
  BY HitTyped DEF Hold, Lead, Typed, ReadingTyped
<1>. QED  BY <1>1, <1>2, <1>3, <1>4, <1>5 DEF ReadingTyped

LEMMA CancelTyped ==
  ASSUME Typed, NEW r \in Mover, Cancel(r)
  PROVE  AtTyped' /\ stream' \in {None, "running", "cancelled", "done"}
<1>1. r \in Reader
  BY DEF Reader
<1>2. at' = at \/ Begin(r, TRUE)
  BY DEF Cancel
<1>3. AtTyped'
  BY <1>1, <1>2, BegunTyped DEF Typed, ReadingTyped, AtTyped
<1>4. stream' = stream \/ stream' = "cancelled"
  BY DEF Cancel
<1>. QED  BY <1>3, <1>4 DEF Typed, MotionTyped

LEMMA TypeByMotion ==
  ASSUME Typed, Moves
  PROVE  Typed'
<1>1. UNCHANGED <<service, command>>
  BY DEF Moves, Open, Register, Watch, WatchCancel, WatchBrake, StoreEnd, Unregister,
     EndMotion, PaceLook, Resume, Pace, LoopLook, LoopWrite, LoopEnd
<1>2. SharedTyped'
  BY DEF Moves, Open, Register, Watch, WatchCancel, WatchBrake, StoreEnd, Unregister,
     EndMotion, PaceLook, Resume, Pace, LoopLook, LoopWrite, LoopEnd, shared, Typed,
     SharedTyped
<1>3. CASE WatchCancel
  <2>1. UNCHANGED <<port, pPc, got, saved, disturbed, posture>> /\ ePc' \in {"store", "brake"}
    BY <1>3 DEF WatchCancel, AtExec
  <2>2. AtTyped' /\ stream' \in {None, "running", "cancelled", "done"}
    BY <1>3, CancelTyped DEF WatchCancel, Mover
  <2>3. ReadingTyped'
    BY <2>1, <2>2 DEF Typed, ReadingTyped, GotTyped, SavedTyped
  <2>4. MotionTyped'
    BY <2>1, <2>2 DEF Typed, MotionTyped
  <2>. QED  BY <1>1, <1>2, <2>1, <2>3, <2>4, SameTyped DEF Typed
<1>4. CASE WatchBrake
  <2>1. StreamBrake("executor") /\ UNCHANGED <<stream, pPc, posture>> /\ ePc' = "store"
    BY <1>4 DEF WatchBrake, AtExec
  <2>2. MotionTyped'
    BY <2>1 DEF Typed, MotionTyped
  <2>. QED  BY <1>1, <1>2, <2>1, <2>2, BrakeTyped, SameTyped DEF Typed, Mover
<1>5. CASE Pace
  <2>1. /\ SyncWrite /\ UNCHANGED <<ePc, at, saved>>
        /\ disturbed' = disturbed \cup Hit(TRUE) /\ got' = Outdated
        /\ ref' = "wrong" /\ (whyRef' = whyRef \/ whyRef' = "stopped")
        /\ pPc' \in {"look", None} /\ (stream' = stream \/ stream' = "done")
    BY <1>5 DEF Pace
  <2>2. PortTyped'
    BY <2>1, WriteTyped DEF Typed
  <2>3. MotionTyped'
    BY <2>1 DEF Typed, MotionTyped
  <2>4. GotTyped'
    BY <2>1, OutdatedTyped DEF Typed, ReadingTyped, GotTyped
  <2>5. ReadingTyped'
    BY <2>1, <2>4, HitTyped DEF Typed, ReadingTyped, AtTyped, SavedTyped
  <2>6. PostureTyped'
    BY <2>1 DEF Typed, PostureTyped
  <2>. QED  BY <1>1, <1>2, <2>2, <2>3, <2>5, <2>6, SameTyped DEF Typed
<1>7. CASE Resume
  <2>1. /\ Hold("pacing") \/ Lead("pacing")
        /\ stream' = stream /\ ePc' = ePc /\ pPc' = "write"
        /\ UNCHANGED posture \/ (ref' = "wrong" /\ (whyRef' = whyRef \/ whyRef' = "stopped"))
    BY <1>7 DEF Resume
  <2>2. PortTyped' /\ ReadingTyped'
    BY <2>1, GoneOnTyped DEF Mover
  <2>3. MotionTyped'
    BY <2>1 DEF Typed, MotionTyped
  <2>4. PostureTyped'
    BY <2>1 DEF Typed, PostureTyped, posture
  <2>. QED  BY <1>1, <1>2, <2>2, <2>3, <2>4, SameTyped DEF Typed
<1>8. CASE LoopWrite
  <2>1. /\ Hold("executor") \/ Lead("executor")
        /\ stream' = stream /\ pPc' = pPc /\ ePc' \in {"loop", "reached", "short"}
        /\ UNCHANGED posture \/ (ref' = "wrong" /\ whyRef' = whyRef)
    BY <1>8 DEF LoopWrite
  <2>2. PortTyped' /\ ReadingTyped'
    BY <2>1, GoneOnTyped DEF Mover
  <2>3. MotionTyped'
    BY <2>1 DEF Typed, MotionTyped
  <2>4. PostureTyped'
    BY <2>1 DEF Typed, PostureTyped, posture
  <2>. QED  BY <1>1, <1>2, <2>2, <2>3, <2>4, SameTyped DEF Typed
<1>9. CASE LoopLook
  <2>1. /\ Begin("executor", TRUE) /\ ePc' = "loop read"
        /\ UNCHANGED <<port, stream, pPc, got, saved, disturbed, posture>>
    BY <1>9 DEF LoopLook, AtExec
  <2>2. AtTyped'
    BY <2>1, BegunTyped DEF Reader, Mover, Typed, ReadingTyped
  <2>3. ReadingTyped'
    BY <2>1, <2>2 DEF Typed, ReadingTyped, GotTyped, SavedTyped
  <2>4. MotionTyped'
    BY <2>1 DEF Typed, MotionTyped
  <2>. QED  BY <1>1, <1>2, <2>1, <2>3, <2>4, SameTyped DEF Typed
<1>6. CASE \/ Open \/ Register \/ Watch \/ StoreEnd \/ Unregister \/ EndMotion \/ PaceLook
           \/ LoopEnd
  <2>1. UNCHANGED <<port, reading>>
    BY <1>6 DEF Open, Register, Watch, StoreEnd, Unregister, EndMotion, PaceLook, LoopEnd
  <2>2. PostureTyped'
    BY <1>6 DEF Open, Register, Watch, StoreEnd, Unregister, EndMotion, PaceLook, LoopEnd, posture,
       Typed, PostureTyped
  <2>3. /\ stream' = stream \/ stream' = "running"
        /\ pPc' \in {pPc, "look", "write", None}
        /\ ePc' \in {ePc, "register", "watch", "cancel", "unregister", "end", None}
    BY <1>6 DEF Open, Register, Watch, StoreEnd, Unregister, EndMotion, PaceLook, LoopEnd, AtExec
  <2>4. MotionTyped'
    BY <2>3 DEF Typed, MotionTyped
  <2>. QED  BY <1>1, <1>2, <2>1, <2>2, <2>4, SameTyped DEF Typed
<1>. QED  BY <1>3, <1>4, <1>5, <1>6, <1>7, <1>8, <1>9 DEF Moves

LEMMA TypeByCommand ==
  ASSUME Typed, Handles
  PROVE  Typed'
<1>1. CommandTyped'
  <2>1. cPc' \in {"idle", "cancel", "stream brake", "flag", "stop read", "hold", "direct",
                  "move read", "start", "stop"}
    BY DEF Handles, TakeStop, StopCancel, StopStreamBrake, StopFlag, StopStore, StopHold,
       TakeDirect, MoveDirectly, TakeMove, StartMove, PauseAndResume, TakeTelemetry,
       StartPublisher, ForgetPublisher, AtCommand
  <2>2. n' = n \/ (n < MaxCommands /\ n' = n + 1)
    BY DEF Handles, TakeStop, StopCancel, StopStreamBrake, StopFlag, StopStore, StopHold,
       TakeDirect, MoveDirectly, TakeMove, StartMove, PauseAndResume, TakeTelemetry,
       StartPublisher, ForgetPublisher, AtCommand, Take
  <2>3. n' \in 0..MaxCommands
    <3>1. n \in 0..MaxCommands
      BY DEF Typed, CommandTyped
    <3>. QED  BY <2>2, <3>1, Assumptions DEF Assumptions
  <2>. QED  BY <2>1, <2>3 DEF CommandTyped
<1>2. SharedTyped'
  BY DEF Handles, TakeStop, StopCancel, StopStreamBrake, StopFlag, StopStore, StopHold,
     TakeDirect, MoveDirectly, TakeMove, StartMove, PauseAndResume, TakeTelemetry, StartPublisher,
     ForgetPublisher, shared, Typed, SharedTyped
<1>3. "command" \in Reader
  BY DEF Reader, Mover
<1>4. CASE StopCancel
  <2>1. UNCHANGED <<port, service, ePc, pPc, got, saved, disturbed, posture>>
    BY <1>4 DEF StopCancel
  <2>2. AtTyped' /\ stream' \in {None, "running", "cancelled", "done"}
    BY <1>4, CancelTyped DEF StopCancel, Mover
  <2>3. ReadingTyped'
    BY <2>1, <2>2 DEF Typed, ReadingTyped, GotTyped, SavedTyped
  <2>4. MotionTyped'
    BY <2>1, <2>2 DEF Typed, MotionTyped
  <2>. QED  BY <1>1, <1>2, <2>1, <2>3, <2>4, SameTyped DEF Typed
<1>5. CASE StopStreamBrake
  <2>1. StreamBrake("command") /\ UNCHANGED <<service, motion, posture>>
    BY <1>5 DEF StopStreamBrake
  <2>. QED  BY <1>1, <1>2, <2>1, BrakeTyped, SameTyped DEF Typed, Mover
<1>6. CASE StopHold \/ MoveDirectly
  <2>1. /\ SyncWrite /\ UNCHANGED <<service, motion, saved>>
        /\ ref' = "true" /\ whyRef' = "ok"
        /\ disturbed' \subseteq disturbed \cup Hit(TRUE)
        /\ got' = Outdated \/ got' = [Outdated EXCEPT !["command"] = "true"]
        /\ at' = at \/ Return("command")
    BY <1>6 DEF StopHold, MoveDirectly
  <2>2. PortTyped'
    BY <2>1, WriteTyped DEF Typed
  <2>3. GotTyped'
    BY <1>3, <2>1, OutdatedTyped DEF Typed, ReadingTyped, GotTyped, Posture
  <2>4. AtTyped'
    BY <1>3, <2>1, ReturnedTyped DEF Typed, ReadingTyped, AtTyped
  <2>5. ReadingTyped'
    BY <2>1, <2>3, <2>4, HitTyped DEF Typed, ReadingTyped, SavedTyped
  <2>6. PostureTyped'
    BY <2>1 DEF PostureTyped
  <2>. QED  BY <1>1, <1>2, <2>1, <2>2, <2>5, <2>6, SameTyped DEF Typed
<1>7. CASE TakeTelemetry("start") \/ TakeTelemetry("stop") \/ StartPublisher \/ ForgetPublisher
  <2>1. UNCHANGED <<port, motion, reading, posture>>
    BY <1>7 DEF TakeTelemetry, StartPublisher, ForgetPublisher
  <2>2. ServiceTyped'
    BY <1>7 DEF TakeTelemetry, StartPublisher, ForgetPublisher, Joined, Typed, ServiceTyped
  <2>. QED  BY <1>1, <1>2, <2>1, <2>2, SameTyped DEF Typed
<1>8. CASE TakeStop \/ StopFlag \/ StopStore \/ TakeDirect \/ TakeMove \/ StartMove
  <2>1. /\ UNCHANGED <<port, service, stream, pPc, saved>>
        /\ ePc' = ePc \/ ePc' \in {"open", "loop"}
    BY <1>8 DEF TakeStop, StopFlag, StopStore, TakeDirect, TakeMove, StartMove, motion, reading
  <2>2. /\ at' = at \/ Begin("command", FALSE) \/ Return("command")
        /\ got' = got \/ got' = [got EXCEPT !["command"] = "true"]
        /\ disturbed' \subseteq disturbed
    BY <1>8 DEF TakeStop, StopFlag, StopStore, TakeDirect, TakeMove, StartMove, reading
  <2>3. UNCHANGED posture \/ StoreRead("command")
    BY <1>8 DEF TakeStop, StopFlag, StopStore, TakeDirect, TakeMove, StartMove
  <2>4. AtTyped'
    BY <1>3, <2>2, BegunTyped, ReturnedTyped DEF Typed, ReadingTyped, AtTyped
  <2>5. GotTyped'
    BY <1>3, <2>2 DEF Typed, ReadingTyped, GotTyped, Posture
  <2>6. ReadingTyped'
    BY <2>1, <2>2, <2>4, <2>5 DEF Typed, ReadingTyped, SavedTyped
  <2>7. MotionTyped'
    BY <2>1 DEF Typed, MotionTyped
  <2>. QED  BY <1>1, <1>2, <2>1, <2>3, <2>6, <2>7, StoredTyped, SameTyped DEF Typed
<1>9. CASE PauseAndResume
  <2>1. /\ UNCHANGED <<port, service, stream, ePc, got, saved, disturbed, posture>>
        /\ pPc' = "resume" /\ Begin("pacing", TRUE)
    BY <1>9 DEF PauseAndResume
  <2>2. AtTyped'
    BY <2>1, BegunTyped DEF Reader, Mover, Typed, ReadingTyped
  <2>3. ReadingTyped'
    BY <2>1, <2>2 DEF Typed, ReadingTyped, GotTyped, SavedTyped
  <2>4. MotionTyped'
    BY <2>1 DEF Typed, MotionTyped
  <2>. QED  BY <1>1, <1>2, <2>1, <2>3, <2>4, SameTyped DEF Typed
<1>. QED  BY <1>4, <1>5, <1>6, <1>7, <1>8, <1>9 DEF Handles

TypeInv == Typed /\ OverrideInv

LEMMA TypeStep == ASSUME TypeInv, [Next]_vars PROVE TypeInv'
<1>1. OverrideInv'
  BY OverrideStep DEF TypeInv, Typed, ReadingTyped, AtTyped
<1>2. CASE UNCHANGED vars
  BY <1>1, <1>2, SameTyped DEF vars, TypeInv, Typed
<1>3. CASE Next
  <2>1. Typed'
    BY <1>3, TypeByRead, TypeByPublisher, TypeByMotion, TypeByCommand DEF Next, TypeInv
  <2>. QED  BY <1>1, <2>1 DEF TypeInv
<1>. QED  BY <1>2, <1>3

\* What is on the bus was asked for, and the port, the threads and the shared
\* state keep their types: nobody restores a timeout he has not overridden.
THEOREM TypeCorrect == Spec => []TypeOK
<1>1. Init => TypeInv
  BY TypeInit, OverrideInit DEF TypeInv
<1>2. TypeInv /\ [Next]_vars => TypeInv'
  BY TypeStep
<1>3. TypeInv => TypeOK
  BY TypedIsTypeOK DEF TypeInv
<1>. QED  BY <1>1, <1>2, <1>3, PTL DEF Spec

-----------------------------------------------------------------------------
(***************************************************************************)
(* Reads that nothing has got into.  While such a reader waits, the bus    *)
(* holds the answers of all servos to its own request and nothing else;    *)
(* what it holds afterwards is where the arm is.  Whatever would break     *)
(* either enters the reader into the history.                              *)
(***************************************************************************)
Fresh(r) == r \in Waiting /\ r \notin disturbed => frames \in Answers(r, Servo)

Held(r) == at[r] \in {"restore", "back"} /\ r \notin disturbed => got[r] = "true"

Whole(r) == Fresh(r) /\ Held(r)

LEMMA WholeInit == ASSUME Init, NEW q \in Reader PROVE Whole(q)
  BY DEF Init, Whole, Fresh, Held, Waiting

\* A reader that does not move is as it was, or is in the history.
LEMMA WholeKept ==
  ASSUME NEW q \in Reader, Whole(q), at'[q] = at[q], Block(q)' = Block(q),
         q \in disturbed => q \in disturbed',
         got'[q] = got[q] \/ q \in disturbed',
         frames' = frames \/ q \notin Waiting \/ q \in disturbed'
  PROVE  Whole(q)'
<1>1. Answers(q, Servo)' = Answers(q, Servo)
  BY DEF Answers
<1>2. (q \in Waiting)' <=> q \in Waiting
  BY DEF Waiting
<1>3. Fresh(q)'
  BY <1>1, <1>2 DEF Whole, Fresh
<1>4. Held(q)'
  BY DEF Whole, Held
<1>. QED  BY <1>3, <1>4 DEF Whole

\* A reader that has not asked yet, or has gone.
LEMMA WholeOutside ==
  ASSUME NEW q \in Reader, at'[q] \in {"out", "override", "request"}
  PROVE  Whole(q)'
  BY DEF Whole, Fresh, Held, Waiting

LEMMA WholeByOwnRead ==
  ASSUME Typed, NEW r \in Reader, SyncRead(r), Whole(r)
  PROVE  Whole(r)'
<1>1. AtTyped /\ GotTyped /\ frames \in Seq(Frame) /\ Block(r)' = Block(r)
  BY DEF SyncRead, Override, Request, Receive, Restore, Block, service, Typed, ReadingTyped,
     PortTyped
<1>2. CASE Override(r)
  <2>1. at'[r] = "request"
    BY <1>1, <1>2 DEF Override, AtTyped
  <2>. QED  BY <2>1, WholeOutside
<1>3. CASE Restore(r)
  <2>1. at[r] = "restore" /\ at'[r] = "back" /\ got' = got /\ disturbed' = disturbed
    BY <1>1, <1>3 DEF Restore, AtTyped
  <2>. QED  BY <2>1 DEF Whole, Fresh, Held, Waiting
<1>4. CASE Request(r)
  <2>1. PICK servos \in Answering, late \in {<<>>} \cup {<<frames[i]>> : i \in DOMAIN frames} :
          /\ \E answers \in Answers(r, servos) : frames' = late \o answers
          /\ disturbed' = Overlapped(r, late, servos)
    BY <1>4 DEF Request
  <2>2. at'[r] = "read"
    BY <1>1, <1>4 DEF Request, AtTyped
  <2>3. ASSUME r \notin disturbed', Block(r) = "position"
        PROVE  frames' \in Answers(r, Servo)
    <3>1. late = <<>> /\ servos = Servo
      BY <2>1, <2>3 DEF Overlapped
    <3>2. PICK answers \in Answers(r, Servo) : frames' = <<>> \o answers
      BY <2>1, <3>1
    <3>3. answers \in Seq(Frame)
      BY AnswersAreFrames
    <3>4. frames' = answers
      BY <3>2, <3>3, ConcatEmptySeq
    <3>. QED  BY <3>4
  <2>4. Answers(r, Servo)' = Answers(r, Servo)
    BY <1>1 DEF Answers
  <2>. QED  BY <1>1, <2>2, <2>3, <2>4 DEF Whole, Fresh, Held, Waiting
<1>5. CASE Receive(r)
  <2>1. PICK k \in 0..Cardinality(Servo) :
          /\ k <= Len(frames)
          /\ got' = [got EXCEPT ![r] = IF Block(r) = "condition" THEN "true"
                                       ELSE Parse(SubSeq(frames, 1, k))]
          /\ disturbed' = disturbed
                \cup {q \in {r} \cap Waiting : k < Cardinality(Servo) /\ k < Len(frames)}
                \cup {q \in Waiting \ {r} : SubSeq(frames, 1, k) # <<>>}
    BY <1>5 DEF Receive
  <2>2. at[r] = "read" /\ at'[r] \in {"restore", "back"}
    BY <1>1, <1>5 DEF Receive, AtTyped
  <2>3. ASSUME r \notin disturbed' PROVE got'[r] = "true"
    <3>1. CASE Block(r) = "condition"
      BY <1>1, <2>1, <3>1 DEF GotTyped
    <3>2. CASE Block(r) = "position"
      <4>1. r \in Waiting /\ r \notin disturbed
        BY <2>1, <2>2, <2>3, <3>2 DEF Waiting
      <4>2. frames \in Answers(r, Servo)
        BY <4>1 DEF Whole, Fresh
      <4>3. Len(frames) = Cardinality(Servo) /\ Cardinality(Servo) \in Nat
        BY <4>2, AnswersAreFrames, ServoCount
      <4>4. ~(k < Cardinality(Servo) /\ k < Len(frames))
        BY <2>1, <2>3, <4>1
      <4>5. k = Len(frames)
        BY <4>3, <4>4
      <4>6. SubSeq(frames, 1, k) = frames
        BY <1>1, <4>5, SubSeqFull
      <4>7. Parse(SubSeq(frames, 1, k)) = "true"
        BY <3>2, <4>2, <4>6, AnswersAreTrue
      <4>. QED  BY <1>1, <2>1, <3>2, <4>7 DEF GotTyped
    <3>. QED  BY <3>1, <3>2 DEF Block
  <2>. QED  BY <2>2, <2>3 DEF Whole, Fresh, Held, Waiting
<1>. QED  BY <1>2, <1>3, <1>4, <1>5 DEF SyncRead

\* Two requests, or a read of another's answers: the reader is in the history.
LEMMA WholeByOtherRead ==
  ASSUME Typed, NEW r \in Reader, SyncRead(r), NEW q \in Reader, q # r, Whole(q)
  PROVE  Whole(q)'
<1>1. frames \in Seq(Frame) /\ Block(q)' = Block(q)
  BY DEF SyncRead, Override, Request, Receive, Restore, Block, service, Typed, PortTyped
<1>2. at'[q] = at[q]
  <2>1. \E to \in {"request", "read", "restore", "back"} : at' = [at EXCEPT ![r] = to]
    <3>1. CASE Receive(r)
      BY <3>1, Zenon DEF Receive
    <3>2. CASE Override(r) \/ Request(r) \/ Restore(r)
      BY <3>2 DEF Override, Request, Restore
    <3>. QED  BY <3>1, <3>2 DEF SyncRead
  <2>. QED  BY <2>1 DEF Typed, ReadingTyped, AtTyped
<1>3. CASE Override(r) \/ Restore(r)
  BY <1>1, <1>2, <1>3, WholeKept DEF Override, Restore
<1>4. CASE Request(r)
  <2>1. /\ got' = got
        /\ q \in disturbed => q \in disturbed'
        /\ q \in Waiting => q \in disturbed'
    BY <1>4 DEF Request, Overlapped
  <2>. QED  BY <1>1, <1>2, <2>1, WholeKept
<1>5. CASE Receive(r)
  <2>1. PICK k \in 0..Cardinality(Servo) :
          /\ k <= Len(frames)
          /\ frames' = SubSeq(frames, k + 1, Len(frames))
          /\ \E value : got' = [got EXCEPT ![r] = value]
          /\ q \in disturbed => q \in disturbed'
          /\ q \in Waiting /\ SubSeq(frames, 1, k) # <<>> => q \in disturbed'
    BY <1>5, Zenon DEF Receive
  <2>2. got'[q] = got[q]
    BY <2>1 DEF Typed, ReadingTyped, GotTyped
  <2>3. ASSUME SubSeq(frames, 1, k) = <<>> PROVE frames' = frames
    <3>1. k \in Nat /\ Len(frames) \in Nat
      BY <1>1, ServoCount, LenProperties
    <3>2. \A i \in 1..k : frames[i] \in Frame
      BY <1>1, <2>1, <3>1, ElementOfSeq
    <3>3. Len(SubSeq(frames, 1, k)) = IF 1 <= k THEN k - 1 + 1 ELSE 0
      BY <3>1, <3>2, SubSeqProperties
    <3>4. k = 0
      <4>1. Len(SubSeq(frames, 1, k)) = 0
        BY <2>3, EmptySeq, Zenon
      <4>. QED  BY ONLY <3>1, <3>3, <4>1
    <3>5. k + 1 = 1
      BY <3>4
    <3>6. frames' = SubSeq(frames, 1, Len(frames))
      BY <2>1, <3>5, Zenon
    <3>. QED  BY <1>1, <3>6, SubSeqFull
  <2>. QED  BY <1>1, <1>2, <2>1, <2>2, <2>3, WholeKept
<1>. QED  BY <1>3, <1>4, <1>5 DEF SyncRead

\* A goal on the bus, after which the arm may be elsewhere.
LEMMA WholeByGoal ==
  ASSUME NEW q \in Reader, Whole(q), NEW moves \in BOOLEAN,
         at'[q] = at[q], Block(q)' = Block(q),
         got'[q] = got[q] \/ (moves /\ got'[q] = Outdated[q]),
         q \in disturbed => q \in disturbed', q \in Hit(moves) => q \in disturbed'
  PROVE  Whole(q)'
<1>1. frames' = frames \/ q \notin Waiting \/ q \in disturbed'
  BY DEF Hit
<1>2. got'[q] = got[q] \/ q \in disturbed'
  <2>1. Outdated[q] = got[q] \/ (at[q] \in {"restore", "back"} /\ Block(q) = "position")
    BY DEF Outdated
  <2>2. ASSUME moves, at[q] \in {"restore", "back"} /\ Block(q) = "position" PROVE q \in Hit(moves)
    BY <2>2 DEF Hit
  <2>. QED  BY <2>1, <2>2
<1>. QED  BY <1>1, <1>2, WholeKept

LEMMA WholeByPublisher ==
  ASSUME Typed, NEW p \in Publisher, Publishes(p), NEW q \in Reader, Whole(q)
  PROVE  Whole(q)'
<1>1. p \in Reader /\ frames' = frames
  BY DEF Reader, Publishes, Look, Publish, PublishBlock, port
<1>2. CASE q # p
  <2>1. \E to : pub' = [pub EXCEPT ![p] = to]
    BY DEF Publishes, Look, Publish, PublishBlock, AtPub
  <2>2. Block(q)' = Block(q)
    BY <1>2, <2>1 DEF Block, Typed, ServiceTyped
  <2>3. at' = at \/ \E to : at' = [at EXCEPT ![p] = to]
    BY DEF Publishes, Look, Publish, PublishBlock, Begin, Return, reading
  <2>4. at'[q] = at[q]
    BY <1>2, <2>3 DEF Typed, ReadingTyped, AtTyped
  <2>5. got' = got \/ got' = [got EXCEPT ![p] = "true"]
    BY DEF Publishes, Look, Publish, PublishBlock, reading
  <2>6. got'[q] = got[q]
    BY <1>2, <2>5 DEF Typed, ReadingTyped, GotTyped
  <2>7. q \in disturbed => q \in disturbed'
    BY <1>2 DEF Publishes, Look, Publish, PublishBlock, reading
  <2>. QED  BY <1>1, <2>2, <2>4, <2>6, <2>7, WholeKept
<1>3. CASE q = p /\ Look(p)
  <2>1. /\ at' = at \/ Begin(p, FALSE)
        /\ UNCHANGED <<got, disturbed>>
    BY <1>3 DEF Look, reading
  <2>2. Block(p) = "position" /\ Block(p)' = "position"
    <3>1. pub[p] # "block" /\ pub'[p] # "block"
      BY <1>3 DEF Look, Typed, ServiceTyped, None
    <3>. QED  BY <3>1 DEF Block
  <2>3. CASE at' = at
    BY <1>1, <1>3, <2>1, <2>2, <2>3, WholeKept
  <2>4. CASE Begin(p, FALSE)
    <3>1. at'[p] = "request"
      BY <1>1, <2>4 DEF Begin, Typed, ReadingTyped, AtTyped
    <3>. QED  BY <1>3, <3>1, WholeOutside
  <2>. QED  BY <2>1, <2>3, <2>4
<1>4. CASE q = p /\ (Publish(p) \/ PublishBlock(p))
  <2>1. Begin(p, FALSE) \/ Return(p)
    BY <1>4 DEF Publish, PublishBlock
  <2>2. at'[p] \in {"request", "out"}
    BY <1>1, <2>1 DEF Begin, Return, Typed, ReadingTyped, AtTyped
  <2>. QED  BY <1>4, <2>2, WholeOutside
<1>. QED  BY <1>2, <1>3, <1>4 DEF Publishes

\* The brake of a stream: who has read where the arm is, is done with reading.
LEMMA WholeByBrake ==
  ASSUME Typed, NEW r \in Mover, StreamBrake(r), pub' = pub,
         NEW q \in Reader, Whole(q)
  PROVE  Whole(q)'
<1>1. r \in Reader
  BY DEF Reader
<1>2. CASE q = r
  <2>1. at'[q] = "out"
    BY <1>2 DEF StreamBrake, Return, Typed, ReadingTyped, AtTyped
  <2>. QED  BY <2>1, WholeOutside
<1>3. CASE q # r
  <2>1. at'[q] = at[q] /\ got'[q] = got[q]
    BY <1>1, <1>3 DEF StreamBrake, Return, Typed, ReadingTyped, AtTyped, GotTyped
  <2>2. Block(q)' = Block(q)
    BY DEF Block
  <2>3. (q \in disturbed => q \in disturbed') /\ (q \in Hit(FALSE) => q \in disturbed')
    BY <1>3 DEF StreamBrake
  <2>. QED  BY <2>1, <2>2, <2>3, WholeByGoal
<1>. QED  BY <1>2, <1>3

\* Who goes on with what he has read.
LEMMA WholeByGoneOn ==
  ASSUME Typed, NEW r \in Mover, Hold(r) \/ Lead(r), pub' = pub, NEW q \in Reader, Whole(q)
  PROVE  Whole(q)'
<1>1. r \in Reader /\ Block(q)' = Block(q)
  BY DEF Reader, Block
<1>2. Return(r)
  BY DEF Hold, Lead
<1>3. CASE q = r
  <2>1. at'[q] = "out"
    BY <1>1, <1>2, <1>3 DEF Return, Typed, ReadingTyped, AtTyped
  <2>. QED  BY <2>1, WholeOutside
<1>4. CASE q # r
  <2>1. at'[q] = at[q]
    BY <1>1, <1>2, <1>4 DEF Return, Typed, ReadingTyped, AtTyped
  <2>2. CASE Hold(r)
    <3>1. got'[q] = got[q] /\ frames' = frames /\ (q \in disturbed => q \in disturbed')
      BY <1>4, <2>2 DEF Hold, port, Typed, ReadingTyped, GotTyped
    <3>. QED  BY <1>1, <2>1, <3>1, WholeKept
  <2>3. CASE Lead(r)
    <3>1. got'[q] = Outdated[q]
      BY <1>4, <2>3 DEF Lead, Outdated
    <3>2. (q \in disturbed => q \in disturbed') /\ (q \in Hit(TRUE) => q \in disturbed')
      BY <1>4, <2>3 DEF Lead
    <3>. QED  BY <1>1, <2>1, <3>1, <3>2, WholeByGoal
  <2>. QED  BY <2>2, <2>3
<1>. QED  BY <1>3, <1>4

\* A read begins.
LEMMA WholeByBegin ==
  ASSUME Typed, NEW r \in Mover, NEW overriding, Begin(r, overriding),
         UNCHANGED <<frames, pub, got, disturbed>>, NEW q \in Reader, Whole(q)
  PROVE  Whole(q)'
<1>1. r \in Reader /\ Block(q)' = Block(q)
  BY DEF Reader, Block
<1>2. at'[q] = at[q] \/ at'[q] \in {"override", "request"}
  BY <1>1 DEF Begin, Typed, ReadingTyped, AtTyped
<1>. QED  BY <1>1, <1>2, WholeKept, WholeOutside

\* A brake begins.
LEMMA WholeByCancel ==
  ASSUME Typed, NEW r \in Mover, Cancel(r),
         UNCHANGED <<frames, pub, got, disturbed>>, NEW q \in Reader, Whole(q)
  PROVE  Whole(q)'
<1>1. r \in Reader /\ Block(q)' = Block(q)
  BY DEF Reader, Block
<1>2. at'[q] = at[q] \/ at'[q] = "override"
  BY <1>1 DEF Cancel, Begin, Typed, ReadingTyped, AtTyped
<1>. QED  BY <1>1, <1>2, WholeKept, WholeOutside

LEMMA WholeByMotion ==
  ASSUME Typed, Moves, NEW q \in Reader, Whole(q)
  PROVE  Whole(q)'
<1>1. pub' = pub
  BY DEF Moves, Open, Register, Watch, WatchCancel, WatchBrake, StoreEnd, Unregister,
     EndMotion, PaceLook, Resume, Pace, LoopLook, LoopWrite, LoopEnd, service
<1>2. Block(q)' = Block(q)
  BY <1>1 DEF Block
<1>3. CASE WatchCancel
  <2>1. Cancel("executor") /\ UNCHANGED <<frames, got, disturbed>>
    BY <1>3 DEF WatchCancel, port
  <2>. QED  BY <1>1, <2>1, WholeByCancel DEF Mover
<1>4. CASE WatchBrake
  BY <1>1, <1>4, WholeByBrake DEF WatchBrake, Mover
<1>5. CASE Pace
  <2>1. at' = at /\ got' = Outdated /\ disturbed' = disturbed \cup Hit(TRUE)
    BY <1>5 DEF Pace
  <2>. QED  BY <1>2, <2>1, WholeByGoal
<1>7. CASE Resume \/ LoopWrite
  BY <1>1, <1>7, WholeByGoneOn DEF Resume, LoopWrite, Mover
<1>8. CASE LoopLook
  <2>1. Begin("executor", TRUE) /\ UNCHANGED <<frames, got, disturbed>>
    BY <1>8 DEF LoopLook, port
  <2>. QED  BY <1>1, <2>1, WholeByBegin DEF Mover
<1>6. CASE \/ Open \/ Register \/ Watch \/ StoreEnd \/ Unregister \/ EndMotion \/ PaceLook
           \/ LoopEnd
  <2>1. UNCHANGED <<frames, at, got, disturbed>>
    BY <1>6 DEF Open, Register, Watch, StoreEnd, Unregister, EndMotion, PaceLook, LoopEnd, port,
       reading
  <2>. QED  BY <1>2, <2>1, WholeKept
<1>. QED  BY <1>3, <1>4, <1>5, <1>6, <1>7, <1>8 DEF Moves

LEMMA WholeByCommand ==
  ASSUME Typed, Handles, NEW q \in Reader, Whole(q)
  PROVE  Whole(q)'
<1>0. "command" \in Reader /\ AtTyped /\ GotTyped
  BY DEF Reader, Mover, Typed, ReadingTyped
<1>1. Block(q)' = Block(q)
  <2>1. CASE StartPublisher
    <3>1. PICK p \in Publisher : ~Publishing(p) /\ pub' = [pub EXCEPT ![p] = "look"]
      BY <2>1 DEF StartPublisher
    <3>. QED  BY <3>1 DEF Block, Publishing, None, Typed, ServiceTyped
  <2>2. CASE ~StartPublisher
    <3>1. pub' = pub
      BY <2>2 DEF Handles, TakeStop, StopCancel, StopStreamBrake, StopFlag, StopStore, StopHold,
         TakeDirect, MoveDirectly, TakeMove, StartMove, PauseAndResume, TakeTelemetry,
         ForgetPublisher, service
    <3>. QED  BY <3>1 DEF Block
  <2>. QED  BY <2>1, <2>2
<1>2. CASE StopCancel
  <2>1. Cancel("command") /\ UNCHANGED <<frames, pub, got, disturbed>>
    BY <1>2 DEF StopCancel, port, service
  <2>. QED  BY <2>1, WholeByCancel DEF Mover
<1>3. CASE StopStreamBrake
  <2>1. StreamBrake("command") /\ pub' = pub
    BY <1>3 DEF StopStreamBrake, service
  <2>. QED  BY <2>1, WholeByBrake DEF Mover
<1>4. CASE MoveDirectly
  <2>1. at' = at /\ got' = Outdated /\ disturbed' = disturbed \cup Hit(TRUE)
    BY <1>4 DEF MoveDirectly
  <2>. QED  BY <1>1, <2>1, WholeByGoal
<1>5. CASE StopHold \/ StartMove \/ StopFlag \/ TakeMove
  <2>1. CASE q = "command"
    <3>1. at' = at \/ Begin("command", FALSE) \/ Return("command")
      BY <1>5 DEF StopHold, StartMove, StopFlag, TakeMove
    <3>2. CASE at' = at
      <4>1. TakeMove \/ StopFlag
        BY <1>0, <1>5, <3>2 DEF StopHold, StartMove, Return, AtTyped
      <4>2. UNCHANGED <<frames, got, disturbed>>
        BY <4>1 DEF TakeMove, StopFlag, port
      <4>. QED  BY <1>1, <3>2, <4>2, WholeKept
    <3>3. CASE Begin("command", FALSE) \/ Return("command")
      <4>1. at'[q] \in {"request", "out"}
        BY <1>0, <2>1, <3>3 DEF Begin, Return, AtTyped
      <4>. QED  BY <4>1, WholeOutside
    <3>. QED  BY <3>1, <3>2, <3>3
  <2>2. CASE q # "command"
    <3>1. at'[q] = at[q]
      BY <1>0, <1>5, <2>2 DEF StopHold, StartMove, StopFlag, TakeMove, Begin, Return, AtTyped
    <3>2. CASE StopHold
      <4>1. got'[q] = Outdated[q]
        BY <1>0, <2>2, <3>2 DEF StopHold, Outdated
      <4>2. (q \in disturbed => q \in disturbed') /\ (q \in Hit(TRUE) => q \in disturbed')
        BY <2>2, <3>2 DEF StopHold
      <4>. QED  BY <1>1, <3>1, <4>1, <4>2, WholeByGoal
    <3>3. CASE StartMove \/ StopFlag \/ TakeMove
      <4>1. frames' = frames /\ got'[q] = got[q] /\ (q \in disturbed => q \in disturbed')
        BY <1>0, <2>2, <3>3 DEF StartMove, StopFlag, TakeMove, port, GotTyped
      <4>. QED  BY <1>1, <3>1, <4>1, WholeKept
    <3>. QED  BY <1>5, <3>2, <3>3
  <2>. QED  BY <2>1, <2>2
<1>6. CASE \/ TakeStop \/ StopStore \/ TakeDirect \/ TakeTelemetry("start") \/ StartPublisher
           \/ TakeTelemetry("stop") \/ ForgetPublisher
  <2>1. UNCHANGED <<frames, at, got, disturbed>>
    BY <1>6 DEF TakeStop, StopStore, TakeDirect, TakeTelemetry, StartPublisher, ForgetPublisher,
       port, reading
  <2>. QED  BY <1>1, <2>1, WholeKept
<1>7. CASE PauseAndResume
  <2>1. Begin("pacing", TRUE) /\ UNCHANGED <<frames, pub, got, disturbed>>
    BY <1>7 DEF PauseAndResume, port, service
  <2>. QED  BY <2>1, WholeByBegin DEF Mover
<1>. QED  BY <1>2, <1>3, <1>4, <1>5, <1>6, <1>7 DEF Handles

WholeInv == TypeInv /\ \A q \in Reader : Whole(q)

LEMMA WholeStep == ASSUME WholeInv, [Next]_vars PROVE WholeInv'
<1>1. TypeInv'
  BY TypeStep DEF WholeInv
<1>2. ASSUME NEW q \in Reader PROVE Whole(q)'
  <2>1. Typed /\ Whole(q)
    BY DEF WholeInv, TypeInv
  <2>2. CASE UNCHANGED vars
    <3>1. UNCHANGED <<frames, at, got, disturbed, pub>>
      BY <2>2 DEF vars, port, reading, service
    <3>2. Block(q)' = Block(q)
      BY <3>1 DEF Block
    <3>. QED  BY <2>1, <3>1, <3>2, WholeKept
  <2>3. CASE Next
    BY <2>1, <2>3, WholeByOwnRead, WholeByOtherRead, WholeByPublisher, WholeByMotion,
       WholeByCommand DEF Next
  <2>. QED  BY <2>2, <2>3
<1>. QED  BY <1>1, <1>2 DEF WholeInv, Reader

\* A read that no other transaction, fault, short timeout or move got into gives
\* every joint where it is, however many readers there are (protocol.py, the
\* lock taken twice by sync_read_positions).
THEOREM ReadsAreWhole == Spec => []WholeUnlessDisturbed
<1>1. Init => WholeInv
  BY TypeInit, OverrideInit, WholeInit DEF WholeInv, TypeInv
<1>2. WholeInv /\ [Next]_vars => WholeInv'
  BY WholeStep
<1>3. WholeInv => WholeUnlessDisturbed
  BY DEF WholeInv, Whole, Held, WholeUnlessDisturbed
<1>. QED  BY <1>1, <1>2, <1>3, PTL DEF Spec

-----------------------------------------------------------------------------
(***************************************************************************)
(* The posture relative moves start from.  It is wrong without a reason    *)
(* only while a motion moves the arm, and until its executor has stored    *)
(* where that ended; no stream runs but between the steps of an executor   *)
(* that wait for it.  A profiled move is started when there is none.       *)
(***************************************************************************)
StreamWatched == stream = "running" => ePc \in {"register", "watch", "cancel"}

RefFollows ==
  whyRef = "ok" => \/ ref = "true"
                   \/ ePc \in {"register", "watch", "cancel", "brake", "store"}
                   \/ ePc \in {"loop", "loop read", "reached", "short"}

RefInv == StreamWatched /\ RefFollows

MoveAlone == cPc = "move read" => ePc = None

LEMMA RefInit == ASSUME Init PROVE RefInv
  BY DEF Init, RefInv, StreamWatched, RefFollows, None

LEMMA MoveAloneStep == ASSUME MoveAlone, [Next]_vars PROVE MoveAlone'
<1>1. CASE \/ UNCHANGED vars \/ (\E r \in Reader : SyncRead(r))
           \/ \E p \in Publisher : Publishes(p)
  <2>1. cPc' = cPc /\ ePc' = ePc
    BY <1>1 DEF vars, SyncRead, Override, Request, Receive, Restore, Publishes, Look, Publish,
       PublishBlock, command, motion
  <2>. QED  BY <2>1 DEF MoveAlone
<1>2. CASE Moves
  <2>1. cPc' = cPc /\ (ePc' = ePc \/ ePc # None)
    BY <1>2 DEF Moves, Open, Register, Watch, WatchCancel, WatchBrake, StoreEnd, Over, Unregister,
       EndMotion, PaceLook, Resume, Pace, LoopLook, LoopWrite, LoopEnd, AtExec, command, None
  <2>. QED  BY <2>1 DEF MoveAlone
<1>3. CASE Handles
  <2>1. CASE TakeMove
    BY <2>1 DEF TakeMove, MoveAlone, motion
  <2>2. CASE ~TakeMove
    <3>1. cPc' # "move read"
      BY <1>3, <2>2 DEF Handles, TakeStop, StopCancel, StopStreamBrake, StopFlag, StopStore,
         StopHold, TakeDirect, MoveDirectly, StartMove, PauseAndResume, TakeTelemetry,
         StartPublisher, ForgetPublisher, AtCommand
    <3>. QED  BY <3>1 DEF MoveAlone
  <2>. QED  BY <2>1, <2>2
<1>. QED  BY <1>1, <1>2, <1>3 DEF Next

LEMMA RefKept == ASSUME RefInv, UNCHANGED <<stream, ePc, posture>> PROVE RefInv'
  BY DEF RefInv, StreamWatched, RefFollows, posture

\* What a read stores is where the arm is, or the read was disturbed.
LEMMA StoresTrue ==
  ASSUME WholeInv, NEW r \in Reader, at[r] = "back", StoreRead(r)
  PROVE  whyRef' = "ok" => ref' = "true"
<1>1. r \notin disturbed => got[r] = "true"
  BY DEF WholeInv, Whole, Held
<1>. QED  BY <1>1 DEF StoreRead

LEMMA RefByPublisher ==
  ASSUME WholeInv, RefInv, NEW p \in Publisher, Publishes(p)
  PROVE  RefInv'
<1>1. UNCHANGED <<stream, ePc>>
  BY DEF Publishes, Look, Publish, PublishBlock, motion
<1>2. CASE Publish(p)
  <2>1. at[p] = "back" /\ StoreRead(p) /\ p \in Reader
    BY <1>2 DEF Publish, Reader
  <2>2. whyRef' = "ok" => ref' = "true"
    BY <2>1, StoresTrue
  <2>. QED  BY <1>1, <2>2 DEF RefInv, StreamWatched, RefFollows
<1>3. CASE ~Publish(p)
  <2>1. UNCHANGED posture
    BY <1>3 DEF Publishes, Look, PublishBlock
  <2>. QED  BY <1>1, <2>1, RefKept
<1>. QED  BY <1>2, <1>3

LEMMA RefByMotion ==
  ASSUME RefInv, Moves
  PROVE  RefInv'
<1>1. CASE Open \/ Register
  <2>1. ePc' \in {"register", "watch"}
    BY <1>1 DEF Open, Register, AtExec
  <2>. QED  BY <2>1 DEF RefInv, StreamWatched, RefFollows
<1>2. CASE Watch
  <2>1. stream' = stream /\ UNCHANGED posture /\ ePc' = "cancel"
    BY <1>2 DEF Watch, AtExec
  <2>. QED  BY <2>1 DEF RefInv, StreamWatched, RefFollows
<1>3. CASE WatchCancel
  <2>1. stream' # "running" /\ ePc' \in {"store", "brake"}
    BY <1>3 DEF WatchCancel, Cancel, AtExec
  <2>. QED  BY <2>1 DEF RefInv, StreamWatched, RefFollows
<1>4. CASE WatchBrake
  <2>1. ePc = "brake" /\ ePc' = "store" /\ stream' = stream
    BY <1>4 DEF WatchBrake, AtExec
  <2>. QED  BY <2>1 DEF RefInv, StreamWatched, RefFollows
<1>5. CASE StoreEnd
  <2>1. /\ ePc = "store" \/ stream # "running"
        /\ stream' = stream
        /\ ref' = IF stream = "done" THEN "true" ELSE "wrong"
        /\ whyRef' = IF stream = "done" THEN "ok" ELSE "stopped"
    BY <1>5 DEF StoreEnd, Over
  <2>2. whyRef' = "ok" => ref' = "true"
    BY <2>1
  <2>. QED  BY <2>1, <2>2 DEF RefInv, StreamWatched, RefFollows
<1>6. CASE Unregister \/ EndMotion
  <2>1. ePc \in {"unregister", "end"} /\ stream' = stream /\ UNCHANGED posture
    BY <1>6 DEF Unregister, EndMotion, AtExec
  <2>. QED  BY <2>1 DEF RefInv, StreamWatched, RefFollows, posture
<1>7. CASE PaceLook
  <2>1. UNCHANGED <<stream, ePc, posture>>
    BY <1>7 DEF PaceLook
  <2>. QED  BY <2>1, RefKept
<1>9. CASE Resume
  <2>1. /\ stream' = stream /\ ePc' = ePc
        /\ UNCHANGED posture \/ (whyRef' = "ok" => stream = "running")
    BY <1>9 DEF Resume
  <2>. QED  BY <2>1 DEF RefInv, StreamWatched, RefFollows, posture
<1>10. CASE LoopLook \/ LoopWrite
  <2>1. /\ stream' = stream /\ ePc \in {"loop", "loop read"}
        /\ ePc' \in {"loop", "loop read", "reached", "short"}
    BY <1>10 DEF LoopLook, LoopWrite, AtExec
  <2>. QED  BY <2>1 DEF RefInv, StreamWatched, RefFollows
<1>11. CASE LoopEnd
  <2>1. /\ stream' = stream /\ ePc \in {"loop", "reached", "short"}
        /\ whyRef' = "ok" => ref' = "true"
    BY <1>11 DEF LoopEnd, AtExec
  <2>. QED  BY <2>1 DEF RefInv, StreamWatched, RefFollows
<1>8. CASE Pace
  <2>1. /\ ePc' = ePc /\ (stream' = "running" => stream = "running")
        /\ whyRef' = "ok" => stream = "running"
    BY <1>8 DEF Pace
  <2>. QED  BY <2>1 DEF RefInv, StreamWatched, RefFollows
<1>. QED  BY <1>1, <1>2, <1>3, <1>4, <1>5, <1>6, <1>7, <1>8, <1>9, <1>10,
               <1>11 DEF Moves

LEMMA RefByCommand ==
  ASSUME WholeInv, RefInv, MoveAlone, Handles
  PROVE  RefInv'
<1>1. "command" \in Reader
  BY DEF Reader, Mover
<1>2. CASE StopStore
  <2>1. at["command"] = "back" /\ StoreRead("command") /\ UNCHANGED <<stream, ePc>>
    BY <1>2 DEF StopStore, motion
  <2>2. whyRef' = "ok" => ref' = "true"
    BY <1>1, <2>1, StoresTrue
  <2>. QED  BY <2>1, <2>2 DEF RefInv, StreamWatched, RefFollows
<1>3. CASE StartMove
  <2>1. /\ at["command"] = "back" /\ StoreRead("command")
        /\ cPc = "move read" /\ stream' = stream
    BY <1>3 DEF StartMove, AtCommand, Return
  <2>2. whyRef' = "ok" => ref' = "true"
    BY <1>1, <2>1, StoresTrue
  <2>3. ePc = None
    BY <2>1 DEF MoveAlone
  <2>4. stream' # "running"
    BY <2>1, <2>3 DEF RefInv, StreamWatched, None
  <2>. QED  BY <2>2, <2>4 DEF RefInv, StreamWatched, RefFollows
<1>4. CASE StopHold \/ MoveDirectly
  <2>1. ref' = "true" /\ UNCHANGED <<stream, ePc>>
    BY <1>4 DEF StopHold, MoveDirectly, motion
  <2>. QED  BY <2>1 DEF RefInv, StreamWatched, RefFollows
<1>5. CASE StopCancel
  <2>1. ePc' = ePc /\ stream' # "running" /\ UNCHANGED posture
    BY <1>5 DEF StopCancel, Cancel
  <2>. QED  BY <2>1 DEF RefInv, StreamWatched, RefFollows, posture
<1>6. CASE \/ TakeStop \/ StopStreamBrake \/ StopFlag \/ TakeDirect \/ TakeMove \/ PauseAndResume
           \/ TakeTelemetry("start") \/ StartPublisher
           \/ TakeTelemetry("stop") \/ ForgetPublisher
  <2>1. UNCHANGED <<stream, ePc, posture>>
    BY <1>6 DEF TakeStop, StopStreamBrake, StopFlag, TakeDirect, TakeMove, PauseAndResume,
       TakeTelemetry, StartPublisher, ForgetPublisher, motion
  <2>. QED  BY <2>1, RefKept
<1>. QED  BY <1>2, <1>3, <1>4, <1>5, <1>6 DEF Handles

LEMMA RefStep == ASSUME WholeInv, RefInv, MoveAlone, [Next]_vars PROVE RefInv'
<1>1. CASE UNCHANGED vars
  BY <1>1, RefKept DEF vars, motion
<1>2. ASSUME NEW r \in Reader, SyncRead(r) PROVE RefInv'
  <2>1. UNCHANGED <<stream, ePc, posture>>
    BY <1>2 DEF SyncRead, Override, Request, Receive, Restore, motion
  <2>. QED  BY <2>1, RefKept
<1>. QED  BY <1>1, <1>2, RefByPublisher, RefByMotion, RefByCommand DEF Next

\* However reads, streams and commands interleave, the posture relative moves
\* start from is where the arm is or has been sent, unless a disturbed read or
\* the executor of a stopped stream has stored it last.
THEOREM ReferenceFollows == Spec => []ReferenceIsTrue
<1>1. Init => WholeInv /\ RefInv /\ MoveAlone
  <2>1. Init => MoveAlone
    BY DEF Init, MoveAlone
  <2>. QED  BY <2>1, TypeInit, OverrideInit, WholeInit, RefInit DEF WholeInv, TypeInv
<1>2. WholeInv /\ RefInv /\ MoveAlone /\ [Next]_vars => (WholeInv /\ RefInv /\ MoveAlone)'
  BY WholeStep, RefStep, MoveAloneStep
<1>3. RefInv => ReferenceIsTrue
  BY DEF RefInv, RefFollows, ReferenceIsTrue, None
<1>. QED  BY <1>1, <1>2, <1>3, PTL DEF Spec
=============================================================================
