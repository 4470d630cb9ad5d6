--------------------------- MODULE ControllerSlot ---------------------------
(***************************************************************************)
(* What the accept loop of the daemon promises: one place for a            *)
(* controller, given only when it is free, and taken back only from one    *)
(* that is no longer there, until the daemon stops.                        *)
(***************************************************************************)
CONSTANTS Client, None

VARIABLES owner,   (* who has the place, or None                           *)
          present, (* the clients whose process holds its socket open      *)
          stopping (* the daemon was told to stop, or stops by itself      *)

vars == <<owner, present, stopping>>

Init == owner = None /\ present = {} /\ stopping = FALSE

Come(c) == c \notin present /\ present' = present \cup {c} /\ UNCHANGED <<owner, stopping>>

Go(c) == c \in present /\ present' = present \ {c} /\ UNCHANGED <<owner, stopping>>

Grant(c) == owner = None /\ owner' = c /\ UNCHANGED <<present, stopping>>

Free ==
  /\ owner # None
  /\ owner \notin present \/ stopping
  /\ owner' = None
  /\ UNCHANGED <<present, stopping>>

Stop == ~stopping /\ stopping' = TRUE /\ UNCHANGED <<owner, present>>

Next == (\E c \in Client : Come(c) \/ Go(c) \/ Grant(c)) \/ Free \/ Stop

Spec == Init /\ [][Next]_vars
=============================================================================
