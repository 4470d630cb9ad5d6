------------------------------- MODULE Ds402 -------------------------------
(***************************************************************************)
(* The DS402 (CiA 402) power state machine of a servo drive, seen from     *)
(* both ends of the fieldbus:                                              *)
(*                                                                         *)
(*   - the master's half is ds402.hpp: the drive state is decoded from the *)
(*     statusword (object 0x6041) and the next controlword (0x6040) is     *)
(*     chosen from that state and from what the master wants;              *)
(*   - the drive's half (external) is how a drive answers a controlword.   *)
(*                                                                         *)
(* A statusword is the set of its bits that are 1, restricted to the bits  *)
(* the decoder looks at; a controlword is named after its constant.        *)
(***************************************************************************)

States == {"Unknown", "NotReady", "SwitchOnDisabled", "ReadyToSwitchOn",
           "SwitchedOn", "OperationEnabled", "QuickStopActive",
           "FaultReactionActive", "Fault"}

Controlwords == {"CW_SHUTDOWN", "CW_SWITCH_ON", "CW_ENABLE_OP",
                 "CW_DISABLE_VOLTAGE", "CW_FAULT_RESET"}

\* sw & 0x4F and sw & 0x6F: the second mask also keeps bit 5 (quick stop).
Masked4F(sw) == sw \cap {0, 1, 2, 3, 6}
Masked6F(sw) == sw \cap {0, 1, 2, 3, 5, 6}

decode_statusword(sw) ==
  CASE Masked4F(sw) = {}              -> "NotReady"
    [] Masked4F(sw) = {6}             -> "SwitchOnDisabled"
    [] Masked6F(sw) = {0, 5}          -> "ReadyToSwitchOn"
    [] Masked6F(sw) = {0, 1, 5}       -> "SwitchedOn"
    [] Masked6F(sw) = {0, 1, 2, 5}    -> "OperationEnabled"
    [] Masked6F(sw) = {0, 1, 2}       -> "QuickStopActive"
    [] Masked4F(sw) = {0, 1, 2, 3}    -> "FaultReactionActive"
    [] Masked4F(sw) = {3}             -> "Fault"
    [] OTHER                          -> "Unknown"

(***************************************************************************)
(* The controlword that takes a drive in state st one step towards being   *)
(* enabled, or disables it.  A fault is reset only in state Fault.         *)
(***************************************************************************)
controlword_for_enable(st, want_enable, want_fault_reset) ==
  IF want_fault_reset /\ st = "Fault" THEN "CW_FAULT_RESET"
  ELSE IF ~want_enable THEN "CW_DISABLE_VOLTAGE"
  ELSE CASE st \in {"SwitchOnDisabled", "QuickStopActive"} -> "CW_SHUTDOWN"
         [] st = "ReadyToSwitchOn"                         -> "CW_SWITCH_ON"
         [] st \in {"SwitchedOn", "OperationEnabled"}      -> "CW_ENABLE_OP"
         [] OTHER                                          -> "CW_DISABLE_VOLTAGE"

-----------------------------------------------------------------------------
(* The drive (external: the A6-EC servo drive, as CiA 402 specifies it).   *)

DriveStates == States \ {"Unknown"}

\* What a drive reports in each of its states.
StatuswordOf(st) ==
  CASE st = "NotReady"            -> {}
    [] st = "SwitchOnDisabled"    -> {6}
    [] st = "ReadyToSwitchOn"     -> {0, 5}
    [] st = "SwitchedOn"          -> {0, 1, 5}
    [] st = "OperationEnabled"    -> {0, 1, 2, 5}
    [] st = "QuickStopActive"     -> {0, 1, 2}
    [] st = "FaultReactionActive" -> {0, 1, 2, 3}
    [] st = "Fault"               -> {3}

Powered == {"ReadyToSwitchOn", "SwitchedOn", "OperationEnabled"}

(***************************************************************************)
(* The state a drive in state st moves to on controlword cw; st itself     *)
(* when the controlword asks for no transition.  Leaving NotReady and      *)
(* FaultReactionActive needs no controlword.  A fault reset is answered by *)
(* DriveResets in the module of the cycle: a drive may refuse it.          *)
(***************************************************************************)
DriveAnswer(st, cw) ==
  CASE st = "NotReady"            -> "SwitchOnDisabled"
    [] st = "FaultReactionActive" -> "Fault"
    [] st = "Fault"               -> "Fault"
    [] st \in Powered \cup {"QuickStopActive"}
         /\ cw \in {"CW_DISABLE_VOLTAGE", "CW_FAULT_RESET"} -> "SwitchOnDisabled"
    [] st = "QuickStopActive" /\ cw = "CW_SHUTDOWN"         -> "SwitchOnDisabled"
    [] st \in {"SwitchOnDisabled", "SwitchedOn", "OperationEnabled"}
         /\ cw = "CW_SHUTDOWN"                              -> "ReadyToSwitchOn"
    [] st \in {"ReadyToSwitchOn", "OperationEnabled"}
         /\ cw = "CW_SWITCH_ON"                             -> "SwitchedOn"
    [] st = "SwitchedOn" /\ cw = "CW_ENABLE_OP"             -> "OperationEnabled"
    [] OTHER                                                -> st
=============================================================================
