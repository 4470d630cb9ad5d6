------------------------------ MODULE Channel ------------------------------
(***************************************************************************)
(* What either ring in shared memory promises its two ends: a bounded      *)
(* first-in first-out channel that neither loses, repeats nor reorders a   *)
(* message it has accepted, and that delivers all of them.                 *)
(***************************************************************************)
EXTENDS Sequences, Naturals

CONSTANTS
  Message,   (* what is sent                                               *)
  Capacity   (* how many accepted messages may wait                        *)

VARIABLES
  waiting,   (* accepted, not yet delivered, oldest first                  *)
  delivered  (* what the receiving end has been given, oldest first        *)

vars == <<waiting, delivered>>

Init == waiting = <<>> /\ delivered = <<>>

\* A message is accepted only while there is room.
Accept(m) ==
  /\ Len(waiting) < Capacity
  /\ waiting' = Append(waiting, m)
  /\ UNCHANGED delivered

Deliver ==
  /\ waiting # <<>>
  /\ waiting' = Tail(waiting)
  /\ delivered' = Append(delivered, Head(waiting))

Next == Deliver \/ \E m \in Message : Accept(m)

Spec == Init /\ [][Next]_vars

\* The receiving end has no reason to stop while something waits.
Delivers == WF_vars(Deliver)
=============================================================================
