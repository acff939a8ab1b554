---------------------------- MODULE HealthMachine ----------------------------
(***************************************************************************)
(* The health state machine of the runtime                                 *)
(* (cpp/src/runtime/health_machine.cpp).  It owns the health state that is *)
(* published to the operator and the control hold, the advisory request to *)
(* the robot's control stack to stop relying on perception.                *)
(*                                                                         *)
(* control_hold_ and control_hold_reason_ are always assigned together, so *)
(* one variable, holdReason, stands for both: the hold is active exactly   *)
(* when a reason is recorded.  The transition history only feeds logs.     *)
(***************************************************************************)
VARIABLES
  health,      (* HealthMachine::state_                                    *)
  holdReason   (* control_hold_reason_, NoHold when control_hold_ is false *)

healthVars == <<health, holdReason>>

NoHold      == ""
HoldReasons == {"INPUT_STALE", "NO_ELIGIBLE_PROFILE"}

HealthStates ==
  {"Starting", "Ready", "Degraded", "FailClosed", "Recovering", "Stopping"}

HealthTypeOK ==
  /\ health \in HealthStates
  /\ holdReason \in HoldReasons \cup {NoHold}

HoldActive == holdReason # NoHold

HealthInit == health = "Starting" /\ holdReason = NoHold

SetReady == health' = "Ready" /\ holdReason' = NoHold

(* A degradation leaves an active hold in place. *)
SetDegraded == health' = "Degraded" /\ UNCHANGED holdReason

SetFailClosed(reason) == health' = "FailClosed" /\ holdReason' = reason

(* Deviation: begin_recovery leaves the hold as it is. *)
BeginRecoveryKeepingHold == health' = "Recovering" /\ UNCHANGED holdReason

(* begin_recovery followed by clear_control_hold, as request_recovery calls *)
(* them.                                                                    *)
BeginRecovery == health' = "Recovering" /\ holdReason' = NoHold
==============================================================================
