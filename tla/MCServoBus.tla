----------------------------- MODULE MCServoBus -----------------------------
(* The model-checked instance of ServoBus. *)
EXTENDS ServoBus, TLC

\* Threads are told apart only by what they have done.
MCPublishers == Permutations(Publisher)
=============================================================================
