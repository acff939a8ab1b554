---------------------------- MODULE RuntimeEngine ----------------------------
(***************************************************************************)
(* The runtime engine (cpp/src/runtime/runtime_engine.cpp): it configures  *)
(* itself from a verified bundle, warms one session per certified profile, *)
(* selects a startup profile and then runs frames one at a time around the *)
(* controller.  A frame is three steps, because the controller has no lock *)
(* and inference takes most of a frame's time:                             *)
(*   StartFrame       evaluate_switch at the frame's receive time          *)
(*   FinishInference  the executor returned; observe                       *)
(*   Settle           evaluate_switch again; the result is handed back     *)
(* Service calls reach the controller through engine.controller().  In     *)
(* EngineSpec they come between frames, in ConcurrentSpec also during one, *)
(* as the ROS node's service callbacks do.                                 *)
(***************************************************************************)
EXTENDS Controller

VARIABLES
  phase,      (* unconfigured, configured (configured_), ready (ready_)    *)
  pc,         (* where run_active_inference is: idle, executing, settling  *)
  executed,   (* result.executed_profile_id of the frame under way         *)
  stale,      (* request.source_stale of the frame under way               *)
  lastStart   (* when the previous frame was taken from the intake slot    *)

engineOnlyVars == <<phase, pc, executed, stale, lastStart>>
engineVars     == <<vars, engineOnlyVars>>

(* The types of controller and engine, with the miss window within the      *)
(* policy; a profile is executed exactly while a frame is under way.        *)
EngineTypeOK ==
  /\ TypeOK
  /\ phase \in {"unconfigured", "configured", "ready"}
  /\ pc \in {"idle", "executing", "settling"}
  /\ executed \in Profiles \cup {None}
  /\ stale \in BOOLEAN
  /\ lastStart \in 0..now
  /\ pc = "idle" <=> executed = None

EngineInit ==
  /\ Init
  /\ phase = "unconfigured" /\ pc = "idle"
  /\ executed = None /\ stale = FALSE /\ lastStart = 0

(* configure() builds the registry and the controller that Init describes.  *)
(* A failure leaves the engine unconfigured.                                *)
Configure ==
  /\ phase = "unconfigured"
  /\ phase' = "configured"
  /\ UNCHANGED <<vars, pc, executed, stale, lastStart>>

(* One iteration of create_sessions: the session was created, warmed up and *)
(* put in the pool.  On a failure load_and_warmup returns with the sessions *)
(* made so far, and may be called again.                                    *)
CreateSession(p) ==
  /\ phase = "configured"
  /\ MarkProfileWarmed(p)
  /\ UNCHANGED engineOnlyVars

SelectStartup ==
  /\ phase = "configured"
  /\ warmed = Profiles
  /\ EvaluateSwitch(now)
  /\ phase' = IF active' = None THEN "configured" ELSE "ready"
  /\ UNCHANGED <<pc, executed, stale, lastStart>>

(* Deviation: the profile is captured before the evaluation. *)
StartFrameCapturedEarly(t, isStale) ==
  /\ phase = "ready" /\ pc = "idle"
  /\ t \in lastStart..now
  /\ EvaluateSwitch(t)
  /\ lastStart' = now
  /\ IF active' = None \/ holdReason' # NoHold
     THEN UNCHANGED <<pc, executed, stale>>
     ELSE pc' = "executing" /\ executed' = active /\ stale' = isStale
  /\ UNCHANGED phase

(* A frame is refused when no profile is active or a hold is asserted; its *)
(* observation is skipped then.  It was received after the previous frame  *)
(* left the intake slot.                                                   *)
StartFrame(t, isStale) ==
  /\ phase = "ready" /\ pc = "idle"
  /\ t \in lastStart..now
  /\ EvaluateSwitch(t)
  /\ lastStart' = now
  /\ IF active' = None \/ holdReason' # NoHold
     THEN UNCHANGED <<pc, executed, stale>>
     ELSE pc' = "executing" /\ executed' = active' /\ stale' = isStale
  /\ UNCHANGED phase

FrameDone == pc' = "idle" /\ executed' = None /\ stale' = FALSE

(* Preprocessing or the executor itself returned an error: the controller   *)
(* never hears of the frame.                                                *)
AbandonFrame ==
  /\ pc = "executing"
  /\ FrameDone
  /\ UNCHANGED <<vars, phase, lastStart>>

FinishInference(ok) ==
  /\ pc = "executing"
  /\ pc' = "settling"
  /\ Observe(now, stale, ok)
  /\ UNCHANGED <<phase, executed, stale, lastStart>>

(* The result counts as ok exactly when no hold is active after this step   *)
(* and inference succeeded.                                                 *)
Settle ==
  /\ pc = "settling"
  /\ EvaluateSwitch(now)
  /\ FrameDone
  /\ UNCHANGED <<phase, lastStart>>

EngineTick == Tick /\ UNCHANGED engineOnlyVars

(* Calls of the service callbacks on engine.controller(); a policy update   *)
(* is followed by an evaluation from the same callback.                     *)
ServiceCall ==
  /\ phase # "unconfigured"
  /\ \/ \E p \in Profiles, seconds \in PinSeconds : RequestPin(p, now, seconds)
     \/ ClearPin
     \/ RequestRecovery
     \/ \E next \in Policies : UpdatePolicy(next)
  /\ UNCHANGED engineOnlyVars

ServiceEvaluate ==
  /\ phase # "unconfigured"
  /\ EvaluateSwitch(now)
  /\ UNCHANGED engineOnlyVars

RunFrame ==
  \/ \E t \in 0..MaxTime, isStale \in BOOLEAN : StartFrame(t, isStale)
  \/ AbandonFrame
  \/ \E ok \in BOOLEAN : FinishInference(ok)
  \/ Settle

EngineNext ==
  \/ Configure
  \/ \E p \in Profiles : CreateSession(p)
  \/ SelectStartup
  \/ RunFrame
  \/ EngineTick

NextBetweenFrames ==
  EngineNext \/ (pc = "idle" /\ (ServiceCall \/ ServiceEvaluate))
ConcurrentNext == EngineNext \/ ServiceCall \/ ServiceEvaluate

EngineSpec     == EngineInit /\ [][NextBetweenFrames]_engineVars
ConcurrentSpec == EngineInit /\ [][ConcurrentNext]_engineVars

(* The worker keeps taking frames while images arrive, and inference        *)
(* returns: the executor has no wait on another thread.                     *)
FrameFairness ==
  /\ WF_engineVars(\E t \in 0..MaxTime, isStale \in BOOLEAN : StartFrame(t, isStale))
  /\ WF_engineVars(AbandonFrame \/ \E ok \in BOOLEAN : FinishInference(ok))
  /\ WF_engineVars(Settle)
  /\ WF_engineVars(EngineTick)

LiveSpec       == EngineSpec /\ FrameFairness

Contract == INSTANCE EngineContract WITH
  phase <- phase, active <- active, health <- health, holdReason <- holdReason,
  pc <- pc, executed <- executed, stale <- stale
------------------------------------------------------------------------------
(* A frame runs only on a profile whose session is in the pool, that is the *)
(* profile the controller will credit the observation to, and never under a *)
(* control hold.                                                            *)
FrameRunsOnActive ==
  pc = "executing" => /\ executed \in warmed
                      /\ executed = active
                      /\ ~HoldActive

(* The engine keeps the promises of EngineContract even when service calls  *)
(* come during a frame: every decision, observation and recovery has one of *)
(* the outcomes the embedding node relies on, and none releases a hold on   *)
(* the side.                                                                *)
EngineImplementsContract == Contract!ContractSpec

(* An unpinned engine does not go on for ever with an active profile that   *)
(* is not eligible while another one is: frames count towards the confirmed *)
(* demotion, or a startup selection follows a NO_ELIGIBLE_PROFILE hold.     *)
EligibleProfileIsFound ==
  (/\ phase = "ready" /\ pinned = None
   /\ active \notin EligibleProfiles(now) /\ EligibleProfiles(now) # {})
    ~> (\/ pinned # None
        \/ active \in EligibleProfiles(now) \/ EligibleProfiles(now) = {})

(* The comment in evaluate_switch and docs/operator-workflow.md: a runtime  *)
(* that failed closed on stale input keeps its hold until the operator      *)
(* requests recovery.                                                       *)
FailClosedUntilRecovery ==
  [][holdReason = "INPUT_STALE" /\ ~HoldActive' => RequestRecovery]_engineVars
==============================================================================
