---------------------------- MODULE EngineContract ----------------------------
(***************************************************************************)
(* What the runtime engine promises to the program that embeds it          *)
(* (cpp/include/perceptshift/runtime/runtime_engine.hpp, controller.hpp):  *)
(* which profile is active, the published health, the control hold and the *)
(* frame under way.  When and why a profile is selected, demoted or given  *)
(* up is left open: every decision of the controller is one of the few     *)
(* outcomes below.  RuntimeEngine implements this specification under      *)
(* service calls at any time, and RuntimeNode is built on it.              *)
(***************************************************************************)
EXTENDS HealthMachine

CONSTANTS
  Profiles,    (* profile ids of the bundle *)
  None         (* no profile                *)

ASSUME NoneAssumption == None \notin Profiles

VARIABLES
  phase,       (* unconfigured, configured, ready            *)
  active,      (* the profile that serves frames             *)
  pc,          (* the frame under way: idle, executing, settling *)
  executed,    (* the profile the frame under way runs on    *)
  stale        (* its source is stale                        *)

frameContractVars == <<pc, executed, stale>>
contractVars == <<phase, active, frameContractVars, healthVars>>

ContractTypeOK ==
  /\ phase \in {"unconfigured", "configured", "ready"}
  /\ active \in Profiles \cup {None}
  /\ pc \in {"idle", "executing", "settling"}
  /\ executed \in Profiles \cup {None}
  /\ stale \in BOOLEAN
  /\ HealthTypeOK

ContractInit ==
  /\ phase = "unconfigured" /\ active = None
  /\ pc = "idle" /\ executed = None /\ stale = FALSE
  /\ HealthInit
------------------------------------------------------------------------------
(* The outcomes of a switch decision.  A profile that stays active never    *)
(* leaves the fail-closed state by a decision.                              *)
Select(p) == active # p /\ active' = p /\ SetReady

Demote(p) ==
  /\ active \notin {None, p}
  /\ active' = p /\ SetDegraded

GiveUp ==
  /\ active' = None
  /\ SetFailClosed("NO_ELIGIBLE_PROFILE") \/ UNCHANGED healthVars

Stabilise ==
  /\ active # None
  /\ health \notin {"FailClosed", "Ready", "Recovering"}
  /\ SetReady
  /\ UNCHANGED active

Decide ==
  \/ \E p \in Profiles : Select(p) \/ Demote(p)
  \/ GiveUp
  \/ Stabilise
  \/ UNCHANGED <<active, healthVars>>

(* The outcomes of an observation: fail closed on a stale frame, degrade on *)
(* a failure, confirm a recovery, or nothing the embedding program sees.    *)
Observed ==
  /\ \/ stale /\ SetFailClosed("INPUT_STALE")
     \/ active # None /\ SetDegraded
     \/ health = "Recovering" /\ SetReady
     \/ UNCHANGED healthVars
  /\ UNCHANGED active

Recover ==
  /\ health \in {"FailClosed", "Degraded"}
  /\ BeginRecovery
  /\ UNCHANGED active
------------------------------------------------------------------------------
Configured ==
  /\ phase = "unconfigured" /\ phase' = "configured"
  /\ UNCHANGED <<active, frameContractVars, healthVars>>

Startup ==
  /\ phase = "configured"
  /\ Decide
  /\ phase' = IF active' = None THEN "configured" ELSE "ready"
  /\ UNCHANGED frameContractVars

(* A frame is refused while a hold is asserted or no profile is active. *)
Begin ==
  /\ phase = "ready" /\ pc = "idle"
  /\ Decide
  /\ IF active' = None \/ holdReason' # NoHold
     THEN UNCHANGED frameContractVars
     ELSE pc' = "executing" /\ executed' = active' /\ stale' \in BOOLEAN
  /\ UNCHANGED phase

NoFrame == pc' = "idle" /\ executed' = None /\ stale' = FALSE

Abandon ==
  /\ pc = "executing"
  /\ NoFrame
  /\ UNCHANGED <<phase, active, healthVars>>

Finish ==
  /\ pc = "executing" /\ pc' = "settling"
  /\ Observed
  /\ UNCHANGED <<phase, executed, stale>>

Settled ==
  /\ pc = "settling"
  /\ Decide
  /\ NoFrame
  /\ UNCHANGED phase

(* Calls from outside the frame loop: an evaluation after a policy update,  *)
(* and a recovery.  Pins and policies show only in later decisions.         *)
Called ==
  /\ phase # "unconfigured"
  /\ Decide \/ Recover
  /\ UNCHANGED <<phase, frameContractVars>>

ContractNext ==
  Configured \/ Startup \/ Begin \/ Abandon \/ Finish \/ Settled \/ Called

ContractSpec == ContractInit /\ [][ContractNext]_contractVars
==============================================================================
