--------------------------- MODULE ShmRingProofs ---------------------------
(***************************************************************************)
(* What module ShmRing shows of three slots and eight sends, for rings of  *)
(* any length and any number of messages: types, and that a ring in shared *)
(* memory implements a channel.                                            *)
(***************************************************************************)
EXTENDS ShmRing, SequenceTheorems, TLAPS

(***************************************************************************)
(* Slots.  Indices closer than the length of the ring share none.          *)
(***************************************************************************)
LEMMA SlotInRange == ASSUME NEW i \in Nat PROVE Slot(i) \in 0..(Capacity - 1)
  BY Assumptions DEF Slot

LEMMA Monotonic ==
  ASSUME NEW c \in Nat, NEW a \in Nat, NEW b \in Nat, a <= b
  PROVE  c * a <= c * b
  OBVIOUS

LEMMA OneMoreRound ==
  ASSUME NEW c \in Nat, NEW a \in Nat
  PROVE  c * (a + 1) = c * a + c
  OBVIOUS

LEMMA OwnSlot ==
  ASSUME NEW i \in Nat, NEW j \in Nat, i < j, j < i + Capacity
  PROVE  Slot(i) # Slot(j)
<1> DEFINE a == i \div Capacity
           b == j \div Capacity
<1>. SUFFICES ASSUME Slot(i) = Slot(j) PROVE FALSE
  OBVIOUS
<1>1. i = Capacity * a + Slot(i) /\ a \in Nat
  BY Assumptions DEF Slot
<1>2. j = Capacity * b + Slot(j) /\ b \in Nat
  BY Assumptions DEF Slot
<1>3. Slot(i) \in Nat /\ Capacity * a \in Nat /\ Capacity * b \in Nat /\ Capacity \in Nat
  BY <1>1, <1>2, Assumptions, SlotInRange
<1> HIDE DEF a, b
<1>4. CASE b <= a
  <2>1. Capacity * b <= Capacity * a
    BY <1>1, <1>2, <1>3, <1>4, Monotonic
  <2>. QED  BY <1>1, <1>2, <1>3, <2>1
<1>5. CASE a + 1 <= b
  <2>1. Capacity * (a + 1) <= Capacity * b
    BY <1>1, <1>2, <1>3, <1>5, Monotonic
  <2>2. Capacity * (a + 1) = Capacity * a + Capacity
    BY <1>1, <1>3, OneMoreRound
  <2>. QED  BY <1>1, <1>2, <1>3, <2>1, <2>2
<1>. QED  BY <1>1, <1>2, <1>4, <1>5

(***************************************************************************)
(* Where the two ends are in their rounds.                                 *)
(***************************************************************************)
Sending  == pPc \in {"clear", "fill", "publish"}
Owing    == pPc \in {"clear", "fill", "publish", "signal"}  \* a wake-up
Handling == cPc = "handle"

PlacesOK ==
  /\ ring \in Rings
  /\ pPc \in {"idle", "clear", "fill", "publish", "signal"}
  /\ cPc \in {"wait", "read", "handle"}

LEMMA PlacesStep == ASSUME PlacesOK, [Next]_vars PROVE PlacesOK'
  BY DEF PlacesOK, Next, BeginSend, Overflow, Finish, ClearSlot, FillSlot, Publish,
     SignalConsumer, Consume, Wake, WakeOnTimeout, ReadIndices, HandleNext, EndBatch, vars,
     pVars, cVars

(***************************************************************************)
(* The indices.  A message that is being sent has its slot to itself: the  *)
(* room found at the look at the header can only grow.                     *)
(***************************************************************************)
IndexInv ==
  /\ write_idx \in Nat /\ read_idx \in Nat /\ dropped \in Nat /\ eventfd \in Nat
  /\ w \in Nat /\ attempts \in Nat /\ r \in Nat /\ end \in Nat
  /\ read_idx <= write_idx /\ write_idx <= read_idx + Capacity
  /\ attempts <= MaxMessages /\ dropped <= attempts /\ write_idx <= attempts
  /\ w <= attempts /\ eventfd <= attempts
  /\ Sending => /\ w = write_idx /\ write_idx < read_idx + Capacity
                /\ write_idx < attempts
  /\ Owing => eventfd < attempts
  /\ Handling => read_idx <= r /\ r <= end /\ end <= write_idx
  /\ ~Handling => r = 0 /\ end = 0

LEMMA Bounds == Capacity \in Nat /\ Capacity > 0 /\ MaxMessages \in Nat
  BY Assumptions

LEMMA IndexStep == ASSUME IndexInv, [Next]_vars PROVE IndexInv'
<1> USE Bounds DEF IndexInv
<1>1. CASE BeginSend
  <2>1. ~Sending /\ Sending' /\ Owing' /\ Handling' = Handling
    BY <1>1 DEF BeginSend, Sending, Owing, Handling, cVars
  <2>. QED  BY <1>1, <2>1 DEF BeginSend, HasRoom, header, cVars
<1>2. CASE Overflow
  <2>1. ~Sending' /\ Handling' = Handling
    BY <1>2 DEF Overflow, Sending, Handling, cVars
  <2>. QED  BY <1>2, <2>1 DEF Overflow, HasRoom, header, cVars
<1>3. CASE ClearSlot \/ FillSlot
  <2>1. Sending /\ Owing /\ Handling' = Handling
    BY <1>3 DEF ClearSlot, FillSlot, Sending, Owing, Handling, cVars
  <2>. QED  BY <1>3, <2>1 DEF ClearSlot, FillSlot, header, cVars
<1>4. CASE Publish
  <2>1. Sending /\ ~Sending' /\ Owing /\ Handling' = Handling
    BY <1>4 DEF Publish, Sending, Owing, Handling, cVars
  <2>. QED  BY <1>4, <2>1 DEF Publish, cVars
<1>5. CASE SignalConsumer
  <2>1. Owing /\ ~Owing' /\ ~Sending' /\ Handling' = Handling
    BY <1>5 DEF SignalConsumer, Sending, Owing, Handling, cVars
  <2>. QED  BY <1>5, <2>1 DEF SignalConsumer, header, cVars
<1>6. CASE Wake \/ WakeOnTimeout
  <2>1. /\ ~Handling /\ ~Handling' /\ Sending' = Sending /\ Owing' = Owing
    BY <1>6 DEF Wake, WakeOnTimeout, Sending, Owing, Handling, pVars
  <2>. QED  BY <1>6, <2>1 DEF Wake, WakeOnTimeout, header, pVars
<1>7. CASE ReadIndices
  <2>1. Handling' /\ Sending' = Sending /\ Owing' = Owing
    BY <1>7 DEF ReadIndices, Sending, Owing, Handling, pVars
  <2>. QED  BY <1>7, <2>1 DEF ReadIndices, header, pVars
<1>8. CASE HandleNext
  <2>1. Handling /\ Handling' /\ Sending' = Sending /\ Owing' = Owing
    BY <1>8 DEF HandleNext, Sending, Owing, Handling, pVars
  <2>. QED  BY <1>8, <2>1 DEF HandleNext, header, pVars
<1>9. CASE EndBatch
  <2>1. Handling /\ ~Handling' /\ Sending' = Sending /\ Owing' = Owing
    BY <1>9 DEF EndBatch, Sending, Owing, Handling, pVars
  <2>. QED  BY <1>9, <2>1 DEF EndBatch, pVars
<1>10. CASE UNCHANGED vars
  <2>1. Handling' = Handling /\ Sending' = Sending /\ Owing' = Owing
    BY <1>10 DEF vars, Sending, Owing, Handling, pVars, cVars
  <2>. QED  BY <1>10, <2>1 DEF vars, header, pVars, cVars
<1>. QED
  BY <1>1, <1>2, <1>3, <1>4, <1>5, <1>6, <1>7, <1>8, <1>9, <1>10
     DEF Next, Finish, Consume

(***************************************************************************)
(* The slots between the indices hold messages, and no half-written one.   *)
(***************************************************************************)
SlotsInv ==
  /\ slots \in [0..(Capacity - 1) -> Message \cup {Torn}]
  /\ \A i \in Nat : read_idx <= i /\ i < write_idx => slots[Slot(i)] \in Message
  /\ pPc = "publish" => slots[Slot(w)] \in Message

LEMMA OthersKeepTheirSlots ==
  ASSUME IndexInv, Sending, NEW v,
         slots \in [0..(Capacity - 1) -> Message \cup {Torn}],
         slots' = [slots EXCEPT ![Slot(w)] = v]
  PROVE  \A i \in Nat : read_idx <= i /\ i < write_idx => slots'[Slot(i)] = slots[Slot(i)]
<1> SUFFICES ASSUME NEW i \in Nat, read_idx <= i, i < write_idx
             PROVE  slots'[Slot(i)] = slots[Slot(i)]
  OBVIOUS
<1>1. w \in Nat /\ i < w /\ w < i + Capacity
  BY Bounds DEF IndexInv
<1>2. Slot(i) # Slot(w)
  BY <1>1, OwnSlot
<1>3. Slot(i) \in 0..(Capacity - 1)
  BY SlotInRange
<1>. QED  BY <1>2, <1>3

LEMMA SlotsStep == ASSUME IndexInv, SlotsInv, [Next]_vars PROVE SlotsInv'
<1> USE DEF SlotsInv
<1>1. CASE ClearSlot \/ FillSlot
  <2>1. Sending /\ w \in Nat /\ attempts \in Message
    BY <1>1, Bounds DEF ClearSlot, FillSlot, Sending, IndexInv, Message
  <2>2. PICK v \in Message \cup {Torn} :
          /\ slots' = [slots EXCEPT ![Slot(w)] = v]
          /\ pPc' = "publish" => v = attempts
    BY <1>1, <2>1 DEF ClearSlot, FillSlot
  <2>3. slots' \in [0..(Capacity - 1) -> Message \cup {Torn}]
    BY <2>1, <2>2, SlotInRange
  <2>4. \A i \in Nat : read_idx <= i /\ i < write_idx => slots'[Slot(i)] \in Message
    BY <2>1, <2>2, OthersKeepTheirSlots
  <2>5. read_idx' = read_idx /\ write_idx' = write_idx /\ w' = w
    BY <1>1 DEF ClearSlot, FillSlot, header
  <2>6. pPc' = "publish" => slots'[Slot(w)] \in Message
    BY <2>1, <2>2, SlotInRange
  <2>. QED  BY <2>3, <2>4, <2>5, <2>6
<1>2. CASE Publish
  <2>1. pPc = "publish" /\ pPc' # "publish" /\ slots' = slots /\ read_idx' = read_idx
    BY <1>2 DEF Publish
  <2>2. w = write_idx /\ write_idx' = write_idx + 1
    BY <1>2 DEF Publish, IndexInv, Sending
  <2>3. \A i \in Nat : i < write_idx' => i < write_idx \/ i = w
    BY <2>2 DEF IndexInv
  <2>. QED  BY <2>1, <2>3
<1>3. CASE EndBatch
  <2>1. slots' = slots /\ write_idx' = write_idx /\ pPc' = pPc /\ w' = w
    BY <1>3 DEF EndBatch, pVars
  <2>2. \A i \in Nat : read_idx' <= i => read_idx <= i
    BY <1>3 DEF EndBatch, IndexInv, Handling
  <2>. QED  BY <2>1, <2>2
<1>4. CASE \/ BeginSend \/ Overflow \/ SignalConsumer \/ Wake \/ WakeOnTimeout
           \/ ReadIndices \/ HandleNext \/ UNCHANGED vars
  <2>1. slots' = slots /\ read_idx' = read_idx /\ write_idx' = write_idx
    BY <1>4 DEF BeginSend, Overflow, SignalConsumer, Wake, WakeOnTimeout, ReadIndices,
       HandleNext, vars, header
  <2>2. pPc' = "publish" => pPc = "publish" /\ w' = w
    BY <1>4 DEF BeginSend, Overflow, SignalConsumer, Wake, WakeOnTimeout, ReadIndices,
       HandleNext, vars, pVars
  <2>. QED  BY <2>1, <2>2
<1>. QED  BY <1>1, <1>2, <1>3, <1>4 DEF Next, Finish, Consume

(***************************************************************************)
(* What is handled are messages.                                           *)
(***************************************************************************)
HandledOK == handled \in Seq(Message)

LEMMA NextIsMessage ==
  ASSUME IndexInv, SlotsInv, HandleNext
  PROVE  slots[Slot(r)] \in Message
  BY DEF HandleNext, IndexInv, SlotsInv, Handling

LEMMA HandledStep == ASSUME IndexInv, SlotsInv, HandledOK, [Next]_vars PROVE HandledOK'
<1>1. CASE HandleNext
  BY <1>1, NextIsMessage DEF HandleNext, HandledOK
<1>2. CASE ~HandleNext
  <2>1. handled' = handled
    BY <1>2 DEF Next, BeginSend, Overflow, Finish, ClearSlot, FillSlot, Publish,
       SignalConsumer, Consume, Wake, WakeOnTimeout, ReadIndices, EndBatch, vars, cVars
  <2>. QED  BY <2>1 DEF HandledOK
<1>. QED  BY <1>1, <1>2

RingInv == PlacesOK /\ IndexInv /\ SlotsInv /\ HandledOK

LEMMA RingInit == ASSUME Init PROVE RingInv
<1>1. PlacesOK
  BY DEF Init, PlacesOK
<1>2. IndexInv
  <2>1. ~Sending /\ ~Owing /\ ~Handling
    BY DEF Init, Sending, Owing, Handling
  <2>. QED  BY <2>1, Bounds DEF Init, IndexInv
<1>3. SlotsInv
  <2>1. slots = [i \in 0..(Capacity - 1) |-> Torn] /\ pPc # "publish"
        /\ read_idx = 0 /\ write_idx = 0
    BY DEF Init
  <2>. QED  BY <2>1 DEF SlotsInv
<1>4. HandledOK
  <2>1. handled = <<>>
    BY DEF Init
  <2>. QED  BY <2>1 DEF HandledOK
<1>. QED  BY <1>1, <1>2, <1>3, <1>4 DEF RingInv

LEMMA RingStep == RingInv /\ [Next]_vars => RingInv'
  BY PlacesStep, IndexStep, SlotsStep, HandledStep DEF RingInv

LEMMA RingTyped == RingInv => TypeOK
<1> SUFFICES ASSUME RingInv PROVE TypeOK
  OBVIOUS
<1> USE DEF RingInv
<1>1. /\ write_idx \in 0..MaxMessages /\ read_idx \in 0..write_idx
      /\ write_idx - read_idx <= Capacity
      /\ dropped \in 0..MaxMessages /\ eventfd \in 0..MaxMessages
      /\ w \in 0..MaxMessages /\ attempts \in 0..MaxMessages
      /\ r \in 0..write_idx /\ end \in r..write_idx
  BY Bounds DEF IndexInv
<1>. QED  BY <1>1, Zenon DEF TypeOK, PlacesOK, SlotsInv, HandledOK

\* Every variable of a ring keeps its type and the indices never get further
\* apart than the ring is long (ring_write of main.cpp, _cmd_ring_write of
\* backend.py).
THEOREM TypeCorrect == Spec => []TypeOK
  BY RingInit, RingStep, RingTyped, PTL DEF Spec

(***************************************************************************)
(* The ring is a channel.  What waits in it is a window of the slots that  *)
(* grows at one end when the producer publishes and shrinks at the other   *)
(* when the consumer goes on to the next message.                          *)
(***************************************************************************)
LEMMA SeqOfLength ==
  ASSUME NEW S, NEW n \in Nat, NEW s \in [1..n -> S]
  PROVE  s \in Seq(S) /\ Len(s) = n
  OBVIOUS

LEMMA Appended ==
  ASSUME NEW S, NEW n \in Nat, NEW s \in [1..n -> S], NEW u \in [1..(n + 1) -> S],
         \A k \in 1..n : u[k] = s[k]
  PROVE  u = Append(s, u[n + 1])
<1>1. s \in Seq(S) /\ Len(s) = n
  BY SeqOfLength
<1>2. u \in Seq(S) /\ Len(u) = n + 1
  BY SeqOfLength
<1>3. u[n + 1] \in S
  OBVIOUS
<1> DEFINE a == Append(s, u[n + 1])
<1>4. a \in Seq(S) /\ Len(a) = n + 1 /\ (\A i \in 1..n : a[i] = s[i]) /\ a[n + 1] = u[n + 1]
  BY <1>1, <1>3, AppendProperties
<1>5. \A i \in 1..(n + 1) : u[i] = a[i]
  <2> HIDE DEF a
  <2>1. \A i \in 1..(n + 1) : i \in 1..n \/ i = n + 1
    OBVIOUS
  <2>. QED  BY <1>4, <2>1, Zenon
<1> HIDE DEF a
<1>6. u = a
  BY <1>2, <1>4, <1>5, SeqEqual
<1>. QED  BY <1>6 DEF a

LEMMA Shortened ==
  ASSUME NEW S, NEW n \in Nat, NEW s \in [1..(n + 1) -> S], NEW u \in [1..n -> S],
         \A k \in 1..n : u[k] = s[k + 1]
  PROVE  s # <<>> /\ u = Tail(s) /\ Head(s) = s[1]
<1>1. s \in Seq(S) /\ Len(s) = n + 1
  BY SeqOfLength
<1>2. u \in Seq(S) /\ Len(u) = n
  BY SeqOfLength
<1>3. s # <<>> /\ Head(s) = s[1]
  BY <1>1
<1> DEFINE t == Tail(s)
<1>4. t \in Seq(S) /\ Len(t) = Len(s) - 1 /\ \A i \in 1..Len(t) : t[i] = s[i + 1]
  BY <1>1, <1>3, HeadTailProperties
<1> HIDE DEF t
<1>5. Len(t) = n
  BY <1>1, <1>4
<1>6. \A i \in 1..n : u[i] = t[i]
  BY <1>4, <1>5, Zenon
<1>7. u = t
  BY <1>2, <1>4, <1>5, <1>6, SeqEqual
<1>. QED  BY <1>3, <1>7 DEF t

LEMMA CursorInRange ==
  ASSUME IndexInv
  PROVE  Cursor \in Nat /\ read_idx <= Cursor /\ Cursor <= write_idx
  BY DEF IndexInv, Cursor, Handling

LEMMA WindowTyped ==
  ASSUME NEW c \in Nat, NEW e \in Nat, NEW content,
         \A i \in Nat : c <= i /\ i < e => content[Slot(i)] \in Message
  PROVE  [k \in 1..(e - c) |-> content[Slot(c + k - 1)]] \in [1..(e - c) -> Message]
<1>1. \A k \in 1..(e - c) : c + k - 1 \in Nat /\ c <= c + k - 1 /\ c + k - 1 < e
  OBVIOUS
<1>2. \A k \in 1..(e - c) : content[Slot(c + k - 1)] \in Message
  BY <1>1, Zenon
<1>. QED  BY <1>2, Zenon

LEMMA PublishedFromCursor ==
  ASSUME IndexInv, SlotsInv
  PROVE  \A i \in Nat : Cursor <= i /\ i < write_idx => slots[Slot(i)] \in Message
<1>1. \A i \in Nat : Cursor <= i => read_idx <= i
  BY CursorInRange DEF IndexInv
<1>. QED  BY <1>1, Zenon DEF SlotsInv

LEMMA WaitingTyped ==
  ASSUME IndexInv, SlotsInv
  PROVE  Waiting \in [1..(write_idx - Cursor) -> Message]
<1>1. Cursor \in Nat /\ write_idx \in Nat
  BY CursorInRange DEF IndexInv
<1>2. \A i \in Nat : Cursor <= i /\ i < write_idx => slots[Slot(i)] \in Message
  BY PublishedFromCursor
<1>. QED  BY <1>1, <1>2, WindowTyped DEF Waiting

LEMMA SameWindow ==
  ASSUME IndexInv, write_idx' = write_idx, Cursor' = Cursor,
         \A i \in Nat : read_idx <= i /\ i < write_idx => slots'[Slot(i)] = slots[Slot(i)]
  PROVE  Waiting' = Waiting
<1>1. \A k \in 1..(write_idx - Cursor) :
        /\ Cursor + k - 1 \in Nat
        /\ read_idx <= Cursor + k - 1 /\ Cursor + k - 1 < write_idx
  BY CursorInRange DEF IndexInv
<1>2. Waiting' = [k \in 1..(write_idx - Cursor) |-> slots'[Slot(Cursor + k - 1)]]
  BY DEF Waiting
<1>3. \A k \in 1..(write_idx - Cursor) :
        slots'[Slot(Cursor + k - 1)] = slots[Slot(Cursor + k - 1)]
  BY <1>1, Zenon
<1>. QED  BY <1>2, <1>3, Zenon DEF Waiting

LEMMA PublishAccepts ==
  ASSUME RingInv, RingInv', Publish
  PROVE  \E m \in Message : Chan!Accept(m)
<1> USE DEF RingInv
<1>1. /\ slots' = slots /\ read_idx' = read_idx /\ write_idx' = write_idx + 1
      /\ cPc' = cPc /\ r' = r /\ handled' = handled
      /\ write_idx < read_idx + Capacity
  BY DEF Publish, IndexInv, Sending, cVars
<1>2. Cursor' = Cursor
  BY <1>1 DEF Cursor
<1>3. PICK n \in Nat : n = write_idx - Cursor /\ n < Capacity
  BY <1>1, CursorInRange, Bounds DEF IndexInv
<1>4. Waiting \in [1..n -> Message] /\ Len(Waiting) = n
  BY <1>3, WaitingTyped, SeqOfLength
<1>5. Waiting' = [k \in 1..(n + 1) |-> slots[Slot(Cursor + k - 1)]]
  <2>1. Waiting' = [k \in 1..(write_idx' - Cursor') |-> slots'[Slot(Cursor' + k - 1)]]
    BY DEF Waiting
  <2>2. write_idx' - Cursor' = n + 1
    BY <1>1, <1>2, <1>3, CursorInRange DEF IndexInv
  <2>. QED  BY <1>1, <1>2, <2>1, <2>2, Zenon
<1>6. Waiting' \in [1..(n + 1) -> Message] /\ \A k \in 1..n : Waiting'[k] = Waiting[k]
  <2>1. \A i \in Nat : Cursor <= i /\ i < write_idx + 1 => slots[Slot(i)] \in Message
    <3>1. \A i \in Nat : i < write_idx + 1 => i < write_idx \/ i = write_idx
      BY DEF IndexInv
    <3>2. slots[Slot(write_idx)] \in Message
      BY DEF Publish, IndexInv, SlotsInv, Sending
    <3>. QED  BY <3>1, <3>2, PublishedFromCursor, Zenon
  <2>2. Cursor \in Nat /\ write_idx + 1 \in Nat /\ (write_idx + 1) - Cursor = n + 1
    BY <1>3, CursorInRange DEF IndexInv
  <2>3. [k \in 1..(n + 1) |-> slots[Slot(Cursor + k - 1)]] \in [1..(n + 1) -> Message]
    <3> DEFINE e == write_idx + 1
    <3>1. e \in Nat /\ e - Cursor = n + 1
      BY <2>2
    <3>2. \A i \in Nat : Cursor <= i /\ i < e => slots[Slot(i)] \in Message
      BY <2>1
    <3> HIDE DEF e
    <3>3. [k \in 1..(e - Cursor) |-> slots[Slot(Cursor + k - 1)]] \in [1..(e - Cursor) -> Message]
      BY <2>2, <3>1, <3>2, WindowTyped, Zenon
    <3>. QED  BY <3>1, <3>3, Zenon
  <2>4. \A k \in 1..n : k \in 1..(n + 1)
    OBVIOUS
  <2>5. Waiting = [k \in 1..n |-> slots[Slot(Cursor + k - 1)]]
    BY <1>3, Zenon DEF Waiting
  <2>. QED  BY <1>5, <2>3, <2>4, <2>5, Zenon
<1>7. Waiting' = Append(Waiting, Waiting'[n + 1])
  BY <1>4, <1>6, Appended
<1>8. Waiting'[n + 1] \in Message
  BY <1>6
<1>. QED  BY <1>1, <1>3, <1>4, <1>7, <1>8 DEF Chan!Accept

LEMMA HandleNextDelivers ==
  ASSUME RingInv, RingInv', HandleNext
  PROVE  Chan!Deliver
<1> USE DEF RingInv
<1>1. /\ slots' = slots /\ write_idx' = write_idx /\ r' = r + 1 /\ Handling /\ Handling'
      /\ handled' = Append(handled, slots[Slot(r)]) /\ r < write_idx
  BY DEF HandleNext, IndexInv, Handling, header
<1>2. Cursor = r /\ Cursor' = r + 1
  BY <1>1 DEF Cursor, Handling
<1>3. PICK n \in Nat : n + 1 = write_idx - Cursor /\ n = write_idx' - Cursor'
  <2>1. write_idx - r - 1 \in Nat
    BY <1>1 DEF IndexInv
  <2>. QED  BY <1>1, <1>2, <2>1 DEF IndexInv
<1>4. Waiting \in [1..(n + 1) -> Message]
  BY <1>3, WaitingTyped
<1>5. Waiting' = [k \in 1..n |-> slots[Slot((r + 1) + k - 1)]]
  <2>1. Waiting' = [k \in 1..(write_idx' - Cursor') |-> slots'[Slot(Cursor' + k - 1)]]
    BY DEF Waiting
  <2>. QED  BY <1>1, <1>2, <1>3, <2>1, Zenon
<1>6. Waiting' \in [1..n -> Message] /\ \A k \in 1..n : Waiting'[k] = Waiting[k + 1]
  <2>1. Waiting = [k \in 1..(n + 1) |-> slots[Slot(r + k - 1)]]
    BY <1>2, <1>3, Zenon DEF Waiting
  <2>2. \A k \in 1..n : k + 1 \in 1..(n + 1) /\ (r + 1) + k - 1 = r + (k + 1) - 1
    BY DEF IndexInv
  <2>3. \A k \in 1..n : Waiting'[k] = Waiting[k + 1]
    BY <1>5, <2>1, <2>2, Zenon
  <2>4. \A k \in 1..n : Waiting[k + 1] \in Message
    BY <1>4, <2>2, Zenon
  <2>. QED  BY <1>5, <2>3, <2>4, Zenon
<1>7. Waiting # <<>> /\ Waiting' = Tail(Waiting) /\ Head(Waiting) = Waiting[1]
  BY <1>4, <1>6, Shortened
<1>8. Waiting[1] = slots[Slot(r)]
  <2>1. 1 \in 1..(write_idx - Cursor) /\ Cursor + 1 - 1 = r
    BY <1>1, <1>2 DEF IndexInv
  <2>. QED  BY <2>1 DEF Waiting
<1>. QED  BY <1>1, <1>7, <1>8 DEF Chan!Deliver

\* Whatever slot is being cleared, filled or reused, a ring in shared memory
\* implements a bounded first-in first-out channel: no accepted message is lost,
\* repeated, reordered or seen half written (main.cpp, backend.py).
THEOREM RingIsChannel == Spec => ImplementsChannel
<1>1. Init => Chan!Init
  <2> SUFFICES ASSUME Init PROVE Chan!Init
    OBVIOUS
  <2>1. write_idx - Cursor = 0 /\ handled = <<>>
    BY DEF Init, Cursor
  <2>2. Waiting = <<>>
    BY <2>1 DEF Waiting
  <2>. QED  BY <2>1, <2>2 DEF Chan!Init
<1>2. ASSUME RingInv, RingInv', [Next]_vars PROVE [Chan!Next]_(Chan!vars)
  <2> USE <1>2
  <2>1. CASE Publish
    BY <2>1, PublishAccepts DEF Chan!Next
  <2>2. CASE HandleNext
    BY <2>2, HandleNextDelivers DEF Chan!Next
  <2>3. CASE ClearSlot \/ FillSlot
    <3>1. /\ write_idx' = write_idx /\ handled' = handled /\ cPc' = cPc /\ r' = r
          /\ read_idx' = read_idx
      BY <2>3 DEF ClearSlot, FillSlot, header, cVars
    <3>2. \A i \in Nat : read_idx <= i /\ i < write_idx => slots'[Slot(i)] = slots[Slot(i)]
      BY <2>3, OthersKeepTheirSlots
         DEF ClearSlot, FillSlot, Sending, RingInv, SlotsInv
    <3>3. Waiting' = Waiting
      BY <3>1, <3>2, SameWindow DEF RingInv, Cursor
    <3>. QED  BY <3>1, <3>3 DEF Chan!vars
  <2>4. CASE ReadIndices \/ EndBatch
    <3>1. slots' = slots /\ write_idx' = write_idx /\ handled' = handled
      BY <2>4 DEF ReadIndices, EndBatch, header
    <3>2. Cursor' = Cursor
      BY <2>4 DEF ReadIndices, EndBatch, header, Cursor
    <3>3. Waiting' = Waiting
      BY <3>1, <3>2, SameWindow DEF RingInv
    <3>. QED  BY <3>1, <3>3 DEF Chan!vars
  <2>5. CASE \/ BeginSend \/ Overflow \/ SignalConsumer \/ Wake \/ WakeOnTimeout
             \/ UNCHANGED vars
    <3>1. slots' = slots /\ write_idx' = write_idx /\ handled' = handled
      BY <2>5 DEF BeginSend, Overflow, SignalConsumer, Wake, WakeOnTimeout, vars, header, cVars
    <3>2. Cursor' = Cursor
      BY <2>5 DEF BeginSend, Overflow, SignalConsumer, Wake, WakeOnTimeout, vars, header,
         cVars, Cursor
    <3>3. Waiting' = Waiting
      BY <3>1, <3>2, SameWindow DEF RingInv
    <3>. QED  BY <3>1, <3>3 DEF Chan!vars
  <2>. QED  BY <2>1, <2>2, <2>3, <2>4, <2>5 DEF Next, Finish, Consume
<1>. QED
  BY <1>1, <1>2, RingInit, RingStep, PTL DEF Spec, ImplementsChannel, Chan!Spec

-----------------------------------------------------------------------------
(***************************************************************************)
(* Wake-ups.  What a batch leaves behind, because it came after the look   *)
(* at the indices, has been signalled after the eventfd was emptied: that  *)
(* is why it is emptied before the indices are read.                       *)
(***************************************************************************)
Signalled == eventfd > 0 \/ pPc = "signal"

WakeInv ==
  /\ cPc = "wait" /\ read_idx # write_idx => Signalled
  /\ cPc = "handle" /\ end # write_idx => Signalled

LEMMA WakeInit == ASSUME Init PROVE WakeInv
  BY DEF Init, WakeInv

LEMMA WakeStep == ASSUME RingInv, WakeInv, [Next]_vars PROVE WakeInv'
<1>1. CASE BeginSend \/ Overflow
  <2>1. /\ UNCHANGED <<write_idx, read_idx, eventfd, cPc, end>> /\ pPc = "idle"
    BY <1>1 DEF BeginSend, Overflow, header, cVars
  <2>. QED  BY <2>1 DEF WakeInv, Signalled
<1>2. CASE ClearSlot \/ FillSlot
  <2>1. /\ UNCHANGED <<write_idx, read_idx, eventfd, cPc, end>> /\ pPc \in {"clear", "fill"}
    BY <1>2 DEF ClearSlot, FillSlot, header, cVars
  <2>. QED  BY <2>1 DEF WakeInv, Signalled
<1>3. CASE Publish
  <2>1. pPc' = "signal"
    BY <1>3 DEF Publish
  <2>. QED  BY <2>1 DEF WakeInv, Signalled
<1>4. CASE SignalConsumer
  <2>1. eventfd' > 0
    BY <1>4 DEF SignalConsumer, RingInv, IndexInv
  <2>. QED  BY <2>1 DEF WakeInv, Signalled
<1>5. CASE Wake \/ WakeOnTimeout
  <2>1. cPc' = "read"
    BY <1>5 DEF Wake, WakeOnTimeout
  <2>. QED  BY <2>1 DEF WakeInv
<1>6. CASE ReadIndices
  <2>1. cPc' = "handle" /\ end' = write_idx /\ write_idx' = write_idx
    BY <1>6 DEF ReadIndices, header
  <2>. QED  BY <2>1 DEF WakeInv
<1>7. CASE HandleNext
  <2>1. UNCHANGED <<write_idx, read_idx, eventfd, pPc, cPc, end>>
    BY <1>7 DEF HandleNext, header, pVars
  <2>. QED  BY <2>1 DEF WakeInv, Signalled
<1>8. CASE EndBatch
  <2>1. /\ cPc = "handle" /\ cPc' = "wait" /\ read_idx' = end
        /\ UNCHANGED <<write_idx, eventfd, pPc>>
    BY <1>8 DEF EndBatch, pVars
  <2>. QED  BY <2>1 DEF WakeInv, Signalled
<1>9. CASE UNCHANGED vars
  <2>1. UNCHANGED <<write_idx, read_idx, eventfd, pPc, cPc, end>>
    BY <1>9 DEF vars, header, pVars, cVars
  <2>. QED  BY <2>1 DEF WakeInv, Signalled
<1>. QED
  BY <1>1, <1>2, <1>3, <1>4, <1>5, <1>6, <1>7, <1>8, <1>9 DEF Next, Finish, Consume

\* No wake-up is lost between emptying the eventfd and reading the indices,
\* however sends and batches interleave (ring_write and process_command_ring of
\* main.cpp, the status thread of backend.py): the part of DeliversAll that
\* needs no fairness.
THEOREM WakeupsKept == Spec => []NoLostWakeup
<1>1. Init => RingInv /\ WakeInv
  BY RingInit, WakeInit
<1>2. RingInv /\ WakeInv /\ [Next]_vars => (RingInv /\ WakeInv)'
  BY RingStep, WakeStep
<1>3. RingInv /\ WakeInv => NoLostWakeup
  <2> SUFFICES ASSUME RingInv, WakeInv, cPc = "wait", read_idx < write_idx PROVE Signalled
    BY DEF NoLostWakeup, Signalled
  <2>1. read_idx # write_idx
    BY DEF RingInv, IndexInv
  <2>. QED  BY <2>1 DEF WakeInv
<1>. QED  BY <1>1, <1>2, <1>3, PTL DEF Spec
=============================================================================
