------------------------------ MODULE ShmRing ------------------------------
(***************************************************************************)
(* The two single-producer single-consumer rings of the shared memory      *)
(* between Python and the RTCore daemon:                                   *)
(*                                                                         *)
(*   "cmd"     Python's _cmd_ring_write produces, the IPC helper thread    *)
(*             consumes, and only when poll() reports the eventfd;         *)
(*   "status"  the helper's ring_write produces, Python's status thread    *)
(*             consumes, on the eventfd and also every 0.25 s.             *)
(*                                                                         *)
(* Both ends are the same algorithm, so one module stands for both and the *)
(* variable ring says which one a behaviour is about.  Nothing locks the   *)
(* memory: each load and store the other end can observe is a step.  A     *)
(* slot is written in two steps, so that a half-written one can be seen.   *)
(*                                                                         *)
(* Indices grow without wrapping; the n-th attempt to send is message n.   *)
(***************************************************************************)
EXTENDS Naturals, Sequences

CONSTANTS
  Capacity,    (* ring_capacity                                            *)
  MaxMessages  (* bound: attempts to send, below 2^32                      *)

ASSUME Assumptions == Capacity \in Nat \ {0} /\ MaxMessages \in Nat

VARIABLES
  ring,                            (* which of the two rings this is       *)
  write_idx, read_idx, dropped,    (* RingHeaderV1                         *)
  slots,                           (* the entries                          *)
  eventfd,                         (* its counter                          *)
  pPc, w, attempts,                (* the producer                         *)
  cPc, r, end,                     (* the consumer                         *)
  handled                          (* what the consumer has acted on       *)

header == <<write_idx, read_idx, dropped>>
pVars  == <<pPc, w, attempts>>
cVars  == <<cPc, r, end, handled>>
vars   == <<ring, header, slots, eventfd, pVars, cVars>>

Rings   == {"cmd", "status"}
Message == 1..MaxMessages
Torn    == 0
Slot(i) == i % Capacity

Init ==
  /\ ring \in Rings
  /\ write_idx = 0 /\ read_idx = 0 /\ dropped = 0
  /\ slots = [i \in 0..(Capacity - 1) |-> Torn]
  /\ eventfd = 0
  /\ pPc = "idle" /\ w = 0 /\ attempts = 0
  /\ cPc = "wait" /\ r = 0 /\ end = 0
  /\ handled = <<>>

-----------------------------------------------------------------------------
(* The producer.                                                           *)

\* Mutant: one message too many fits.
HasRoomForOneMore == write_idx - read_idx <= Capacity

HasRoom == write_idx - read_idx < Capacity

\* One look at the header decides.
BeginSend ==
  /\ pPc = "idle" /\ attempts < MaxMessages
  /\ HasRoom
  /\ attempts' = attempts + 1
  /\ w' = write_idx
  /\ pPc' = "clear"
  /\ UNCHANGED <<ring, header, slots, eventfd, cVars>>

\* The ring is full: Python raises an error, the helper drops the snapshot and
\* signals all the same.
Overflow ==
  /\ pPc = "idle" /\ attempts < MaxMessages
  /\ ~HasRoom
  /\ attempts' = attempts + 1
  /\ dropped' = dropped + 1
  /\ pPc' = IF ring = "status" THEN "signal" ELSE "idle"
  /\ UNCHANGED <<ring, write_idx, read_idx, slots, eventfd, w, cVars>>

ClearSlot ==
  /\ pPc = "clear"
  /\ slots' = [slots EXCEPT ![Slot(w)] = Torn]
  /\ pPc' = "fill"
  /\ UNCHANGED <<ring, header, eventfd, w, attempts, cVars>>

FillSlot ==
  /\ pPc = "fill"
  /\ slots' = [slots EXCEPT ![Slot(w)] = attempts]
  /\ pPc' = "publish"
  /\ UNCHANGED <<ring, header, eventfd, w, attempts, cVars>>

Publish ==
  /\ pPc = "publish"
  /\ write_idx' = w + 1
  /\ pPc' = "signal"
  /\ UNCHANGED <<ring, read_idx, dropped, slots, eventfd, w, attempts, cVars>>

SignalConsumer ==
  /\ pPc = "signal"
  /\ eventfd' = eventfd + 1
  /\ pPc' = "idle"
  /\ UNCHANGED <<ring, header, slots, w, attempts, cVars>>

Finish == ClearSlot \/ FillSlot \/ Publish \/ SignalConsumer

-----------------------------------------------------------------------------
(* The consumer.                                                           *)

\* poll() or select() reports the eventfd, and its counter is read to zero.
Wake ==
  /\ cPc = "wait" /\ eventfd > 0
  /\ eventfd' = 0
  /\ cPc' = "read"
  /\ UNCHANGED <<ring, header, slots, pVars, r, end, handled>>

\* The wait times out: only the status thread looks at its ring all the same.
WakeOnTimeout ==
  /\ cPc = "wait" /\ eventfd = 0
  /\ ring = "status"
  /\ cPc' = "read"
  /\ UNCHANGED <<ring, header, slots, eventfd, pVars, r, end, handled>>

\* Both indices are read once for the whole batch.
ReadIndices ==
  /\ cPc = "read"
  /\ r' = read_idx /\ end' = write_idx
  /\ cPc' = "handle"
  /\ UNCHANGED <<ring, header, slots, eventfd, pVars, handled>>

HandleNext ==
  /\ cPc = "handle" /\ r < end
  /\ handled' = Append(handled, slots[Slot(r)])
  /\ r' = r + 1
  /\ UNCHANGED <<ring, header, slots, eventfd, pVars, cPc, end>>

\* Mutant: the eventfd is emptied after the batch.
EndBatchAndDrain ==
  /\ cPc = "handle" /\ r = end
  /\ read_idx' = r /\ eventfd' = 0
  /\ cPc' = "wait" /\ r' = 0 /\ end' = 0
  /\ UNCHANGED <<ring, write_idx, dropped, slots, pVars, handled>>

\* The end of the batch: the slots go back to the producer all at once.
EndBatch ==
  /\ cPc = "handle" /\ r = end
  /\ read_idx' = r
  /\ cPc' = "wait" /\ r' = 0 /\ end' = 0
  /\ UNCHANGED <<ring, write_idx, dropped, slots, eventfd, pVars, handled>>

Consume == Wake \/ WakeOnTimeout \/ ReadIndices \/ HandleNext \/ EndBatch

-----------------------------------------------------------------------------
Next == BeginSend \/ Overflow \/ Finish \/ Consume

Spec == Init /\ [][Next]_vars

\* A send that has begun is finished; both consumers loop without blocking on
\* anything but the eventfd.  Nobody has to send.
FairSpec == Spec /\ WF_vars(Finish) /\ WF_vars(Consume)

-----------------------------------------------------------------------------
(* Properties.                                                             *)

\* The place of the consumer in the ring: read_idx, until a batch moves it on.
Cursor == IF cPc = "handle" THEN r ELSE read_idx

\* The messages a channel would hold: what the published slots contain.
Waiting == [k \in 1..(write_idx - Cursor) |-> slots[Slot(Cursor + k - 1)]]

\* Every variable of the ring has its type, and the indices never get further
\* apart than the ring is long.
TypeOK ==
  /\ ring \in Rings
  /\ write_idx \in 0..MaxMessages /\ read_idx \in 0..write_idx
  /\ write_idx - read_idx <= Capacity
  /\ dropped \in 0..MaxMessages
  /\ slots \in [0..(Capacity - 1) -> Message \cup {Torn}]
  /\ eventfd \in 0..MaxMessages
  /\ pPc \in {"idle", "clear", "fill", "publish", "signal"}
  /\ w \in 0..MaxMessages /\ attempts \in 0..MaxMessages
  /\ cPc \in {"wait", "read", "handle"}
  /\ r \in 0..write_idx /\ end \in r..write_idx
  /\ handled \in Seq(Message)

(***************************************************************************)
(* The rings are channels: ipc_v1.hpp and backend.py promise an ordered    *)
(* stream of commands and of snapshots, whatever slot is being reused.     *)
(***************************************************************************)
Chan == INSTANCE Channel WITH waiting <- Waiting, delivered <- handled

\* No accepted message is lost, repeated, reordered or seen half written.
ImplementsChannel == Chan!Spec

\* A consumer does not sleep on a message: while it waits, what is in the ring has
\* been signalled, or is about to be by the producer that published it last.
NoLostWakeup == cPc = "wait" /\ read_idx < write_idx => eventfd > 0 \/ pPc = "signal"

\* Every accepted message is acted on: no wake-up is lost between emptying the
\* eventfd and reading the indices, also where no timeout makes up for one.
DeliversAll == Chan!Delivers
=============================================================================
