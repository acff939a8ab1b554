---------------------------- MODULE EngineProofs ----------------------------
(***************************************************************************)
(* Proofs about the engine for every bundle, policy and bound: each of its *)
(* steps is a step of the controller, so what ControllerProofs establishes *)
(* holds inside the engine too; it keeps the promises of EngineContract    *)
(* under concurrent service calls; and without them a frame runs on the    *)
(* profile its observation is credited to.                                 *)
(***************************************************************************)
EXTENDS RuntimeEngine, ControllerProofs, TLAPS

(* Frames are received in the past, and only a ready engine has one. *)
FrameInv ==
  /\ now \in Nat
  /\ lastStart \in 0..now
  /\ stale \in BOOLEAN
  /\ pc # "idle" => phase = "ready"

(* The calls of the controller leave the clock alone. *)
LEMMA EvaluateKeepsClock ==
  ASSUME NEW t, EvaluateSwitch(t)
  PROVE  UNCHANGED <<now, warmed, policy>>
BY DEF EvaluateSwitch, EvaluatePinned, EvaluateUnpinned, profileVars

LEMMA ObserveKeepsClock ==
  ASSUME NEW t, NEW s, NEW ok, Observe(t, s, ok)
  PROVE  UNCHANGED <<now, warmed, active>>
<1>1. CASE ObserveStale
  BY <1>1 DEF ObserveStale, profileVars, switchVars
<1>2. CASE UNCHANGED vars
  BY <1>2 DEF vars, profileVars, switchVars
<1>3. CASE \E latency \in Latencies, bound \in Bounds, signal \in Signals :
             ObserveSuccess(latency, bound, signal)
  BY <1>3 DEF ObserveSuccess, switchVars
<1>4. CASE ObserveFailure(t)
  BY <1>4 DEF ObserveFailure, switchVars
<1> QED BY <1>1, <1>2, <1>3, <1>4 DEF Observe

LEMMA ServiceKeepsClock ==
  ASSUME ServiceCall
  PROVE  UNCHANGED <<now, warmed, active>>
BY DEF ServiceCall, RequestPin, ClearPin, RequestRecovery, UpdatePolicy,
       profileVars, switchVars
------------------------------------------------------------------------------
(* A step of the engine is a step of the controller or leaves it alone.     *)
LEMMA EngineStepIsControllerStep ==
  ASSUME FrameInv, ConcurrentNext
  PROVE  [Next]_vars
<1>0. now \in 0..now /\ lastStart..now \subseteq 0..now
  BY DEF FrameInv
<1>1. CASE Configure \/ AbandonFrame
  BY <1>1 DEF Configure, AbandonFrame
<1>2. CASE \E p \in Profiles : CreateSession(p)
  BY <1>2 DEF CreateSession, Next
<1>3. CASE SelectStartup \/ Settle \/ ServiceEvaluate
  <2>1. EvaluateSwitch(now)
    BY <1>3 DEF SelectStartup, Settle, ServiceEvaluate
  <2> QED BY <2>1, <1>0 DEF Next
<1>4. CASE \E t \in 0..MaxTime, isStale \in BOOLEAN : StartFrame(t, isStale)
  <2>1. PICK t \in lastStart..now : EvaluateSwitch(t)
    BY <1>4 DEF StartFrame
  <2> QED BY <2>1, <1>0 DEF Next
<1>5. CASE \E ok \in BOOLEAN : FinishInference(ok)
  <2>1. PICK ok \in BOOLEAN : Observe(now, stale, ok)
    BY <1>5 DEF FinishInference
  <2> QED BY <2>1 DEF Next, FrameInv
<1>6. CASE EngineTick
  BY <1>6 DEF EngineTick, Next
<1>7. CASE ServiceCall
  BY <1>7, <1>0 DEF ServiceCall, Next
<1> QED BY <1>1, <1>2, <1>3, <1>4, <1>5, <1>6, <1>7
        DEF ConcurrentNext, EngineNext, RunFrame

LEMMA FrameInvInit == EngineInit => FrameInv
<1> SUFFICES ASSUME EngineInit PROVE FrameInv
  OBVIOUS
<1>1. now = 0
  BY DEF EngineInit, Init
<1>2. lastStart = 0
  BY DEF EngineInit
<1>3. now \in Nat /\ lastStart \in 0..now
  BY <1>1, <1>2
<1>4. stale \in BOOLEAN /\ pc = "idle"
  BY DEF EngineInit
<1> QED BY <1>3, <1>4 DEF FrameInv

LEMMA FrameInvStep == FrameInv /\ [ConcurrentNext]_engineVars => FrameInv'
<1> SUFFICES ASSUME FrameInv, [ConcurrentNext]_engineVars PROVE FrameInv'
  OBVIOUS
<1> USE DEF FrameInv, engineOnlyVars
<1>1. CASE Configure \/ AbandonFrame
  BY <1>1 DEF Configure, AbandonFrame, FrameDone, vars
<1>2. CASE \E p \in Profiles : CreateSession(p)
  BY <1>2 DEF CreateSession, MarkProfileWarmed
<1>3. CASE SelectStartup \/ Settle \/ ServiceEvaluate
  <2>1. now' = now
    BY <1>3, EvaluateKeepsClock DEF SelectStartup, Settle, ServiceEvaluate
  <2> QED BY <1>3, <2>1 DEF SelectStartup, Settle, ServiceEvaluate, FrameDone
<1>4. CASE \E t \in 0..MaxTime, isStale \in BOOLEAN : StartFrame(t, isStale)
  <2>1. PICK t \in 0..MaxTime, isStale \in BOOLEAN : StartFrame(t, isStale)
    BY <1>4
  <2>2. now' = now
    BY <2>1, EvaluateKeepsClock DEF StartFrame
  <2> QED BY <2>1, <2>2 DEF StartFrame
<1>5. CASE \E ok \in BOOLEAN : FinishInference(ok)
  <2>1. now' = now
    BY <1>5, ObserveKeepsClock DEF FinishInference
  <2> QED BY <1>5, <2>1 DEF FinishInference
<1>6. CASE EngineTick
  BY <1>6 DEF EngineTick, Tick
<1>7. CASE ServiceCall
  <2>1. now' = now
    BY <1>7, ServiceKeepsClock
  <2> QED BY <1>7, <2>1 DEF ServiceCall
<1>8. CASE UNCHANGED engineVars
  BY <1>8 DEF engineVars, vars
<1> QED BY <1>1, <1>2, <1>3, <1>4, <1>5, <1>6, <1>7, <1>8
        DEF ConcurrentNext, EngineNext, RunFrame

(* Every behaviour of the engine, with service calls at any moment, is a    *)
(* behaviour of the controller: the theorems of ControllerProofs hold for   *)
(* the controller inside the engine.                                        *)
THEOREM EngineImplementsController == ConcurrentSpec => Spec
<1>1. EngineInit => Init
  BY DEF EngineInit
<1>2. FrameInv /\ [ConcurrentNext]_engineVars => [Next]_vars
  BY EngineStepIsControllerStep DEF engineVars
<1> QED
  BY <1>1, <1>2, FrameInvInit, FrameInvStep, PTL DEF ConcurrentSpec, Spec

(* Calls between frames are a special case of calls at any moment. *)
LEMMA BetweenFramesIsConcurrent == EngineSpec => ConcurrentSpec
<1>1. [NextBetweenFrames]_engineVars => [ConcurrentNext]_engineVars
  BY DEF NextBetweenFrames, ConcurrentNext
<1> QED BY <1>1, PTL DEF EngineSpec, ConcurrentSpec
------------------------------------------------------------------------------
(***************************************************************************)
(* A frame runs on the active profile when services keep out of it.        *)
(***************************************************************************)
LEMMA EvaluateLeavesFrame ==
  ASSUME pc = "executing", phase = "ready", NextBetweenFrames,
         pc' = "executing"
  PROVE  UNCHANGED <<executed, warmed, active, healthVars>>
<1>1. EngineTick
  BY DEF NextBetweenFrames, EngineNext, Configure, CreateSession, SelectStartup,
         RunFrame, StartFrame, AbandonFrame, FrameDone, FinishInference, Settle
<1> QED BY <1>1 DEF EngineTick, Tick, engineOnlyVars, profileVars, switchVars

LEMMA FrameRunsStep ==
  ASSUME FrameInv, Safety', FrameRunsOnActive, [NextBetweenFrames]_engineVars
  PROVE  FrameRunsOnActive'
<1>1. CASE UNCHANGED engineVars
  BY <1>1 DEF FrameRunsOnActive, engineVars, engineOnlyVars, vars, profileVars,
              switchVars, healthVars, HoldActive
<1>2. CASE NextBetweenFrames /\ pc' = "executing" /\ pc = "executing"
  BY <1>2, EvaluateLeavesFrame
     DEF FrameInv, FrameRunsOnActive, HoldActive, healthVars
<1>3. CASE NextBetweenFrames /\ pc' = "executing" /\ pc # "executing"
  <2>1. PICK t \in 0..MaxTime, isStale \in BOOLEAN : StartFrame(t, isStale)
    BY <1>3 DEF NextBetweenFrames, EngineNext, Configure, CreateSession,
                SelectStartup, RunFrame, AbandonFrame, FrameDone,
                FinishInference, Settle, EngineTick, ServiceCall,
                ServiceEvaluate, engineOnlyVars
  <2>2. executed' = active' /\ active' # None /\ holdReason' = NoHold
    BY <2>1, <1>3 DEF StartFrame
  <2>3. active' \in warmed'
    BY <2>2 DEF Safety, ActiveIsServable
  <2> QED BY <2>2, <2>3 DEF FrameRunsOnActive, HoldActive
<1>4. CASE pc' # "executing"
  BY <1>4 DEF FrameRunsOnActive
<1> QED BY <1>1, <1>2, <1>3, <1>4

(* While service calls wait for the end of a frame, the profile that runs   *)
(* it is warm, is the one its observation will be credited to, and no hold  *)
(* is asserted.                                                             *)
THEOREM FrameAlwaysRunsOnActive == EngineSpec => []FrameRunsOnActive
<1>1. EngineInit => FrameRunsOnActive
  BY DEF EngineInit, FrameRunsOnActive
<1>2. FrameInv /\ Safety' /\ FrameRunsOnActive /\ [NextBetweenFrames]_engineVars
        => FrameRunsOnActive'
  BY FrameRunsStep
<1>3. EngineSpec => []Safety
  BY BetweenFramesIsConcurrent, EngineImplementsController, SafetyInvariant, PTL
<1>4. EngineSpec => []FrameInv
  BY BetweenFramesIsConcurrent, FrameInvInit, FrameInvStep, PTL DEF ConcurrentSpec
<1> QED
  BY <1>1, <1>2, <1>3, <1>4, PTL DEF EngineSpec
------------------------------------------------------------------------------
(***************************************************************************)
(* The engine keeps the promises of EngineContract.                        *)
(***************************************************************************)
LEMMA PinnedIsDecision ==
  ASSUME TypeOK, NEW t, EvaluatePinned(t)
  PROVE  Contract!Decide
<1>1. pinned \in Profiles
  BY DEF EvaluatePinned, PinServes, TypeOK
<1>2. CASE active = pinned
  BY <1>2 DEF EvaluatePinned, switchVars, healthVars, Contract!Decide,
              Contract!healthVars
<1>3. CASE active # pinned
  BY <1>1, <1>3 DEF EvaluatePinned, SwitchTo, SetReady, Contract!Decide,
              Contract!Select, NoHold, Contract!SetReady, Contract!NoHold
<1> QED BY <1>2, <1>3

LEMMA BestIsDecision ==
  ASSUME NEW t, NEW best \in Best(EligibleProfiles(t), escalation),
         \/ EvaluateStartup(t, best) \/ EvaluateStable(best)
         \/ EvaluateDemotion(t, best) \/ EvaluatePromotion(t, best)
         \/ EvaluateKeep(t, best)
  PROVE  Contract!Decide
<1>0. best \in Profiles
  BY BestIsEligible
<1> USE DEF Contract!Decide, Contract!healthVars, healthVars
<1>1. CASE EvaluateStartup(t, best)
  BY <1>0, <1>1, NoneIsNoProfile
  DEF EvaluateStartup, SwitchTo, SetReady, Contract!Select, NoHold,
      Contract!SetReady, Contract!NoHold
<1>2. CASE EvaluateStable(best)
  <2>1. active # None /\ active' = active
    BY <1>0, <1>2, NoneIsNoProfile DEF EvaluateStable
  <2>2. CASE health \in {"FailClosed", "Ready", "Recovering"}
    BY <1>2, <2>1, <2>2 DEF EvaluateStable
  <2>3. CASE health \notin {"FailClosed", "Ready", "Recovering"}
    BY <1>2, <2>1, <2>3 DEF EvaluateStable, SetReady, Contract!Stabilise,
                            NoHold, Contract!SetReady, Contract!NoHold
  <2> QED BY <2>2, <2>3
<1>3. CASE EvaluateDemotion(t, best)
  <2>1. CASE SwitchTo(best, t) /\ SetDegraded
    BY <1>0, <1>3, <2>1 DEF EvaluateDemotion, SwitchTo, SetDegraded,
                            Contract!Demote, Contract!SetDegraded
  <2>2. CASE UNCHANGED <<active, healthVars>>
    BY <2>2
  <2> QED BY <1>3, <2>1, <2>2 DEF EvaluateDemotion
<1>4. CASE EvaluatePromotion(t, best)
  <2>1. CASE SwitchTo(best, t) /\ SetReady
    BY <1>0, <1>4, <2>1
    DEF EvaluatePromotion, SwitchTo, SetReady, Contract!Select, NoHold,
        Contract!SetReady, Contract!NoHold
  <2>2. CASE UNCHANGED <<active, healthVars>>
    BY <2>2
  <2> QED BY <1>4, <2>1, <2>2 DEF EvaluatePromotion
<1>5. CASE EvaluateKeep(t, best)
  BY <1>5 DEF EvaluateKeep
<1> QED BY <1>1, <1>2, <1>3, <1>4, <1>5

(* Every return path of evaluate_switch is one of the contract's outcomes. *)
LEMMA EvaluateIsDecision ==
  ASSUME TypeOK, NEW t, EvaluateSwitch(t)
  PROVE  Contract!Decide
<1>1. CASE EvaluatePinned(t)
  BY <1>1, PinnedIsDecision
<1>2. CASE EvaluateUnpinned(t)
  <2>1. CASE EvaluateNoEligible(t)
    BY <2>1 DEF EvaluateNoEligible, SetFailClosed, healthVars, NoHold,
                Contract!Decide, Contract!GiveUp, Contract!SetFailClosed,
                Contract!healthVars
  <2>2. CASE ~EvaluateNoEligible(t)
    <3>1. PICK best \in Best(EligibleProfiles(t), escalation) :
            \/ EvaluateStartup(t, best) \/ EvaluateStable(best)
            \/ EvaluateDemotion(t, best) \/ EvaluatePromotion(t, best)
            \/ EvaluateKeep(t, best)
      BY <1>2, <2>2 DEF EvaluateUnpinned
    <3> QED BY <3>1, BestIsDecision
  <2> QED BY <2>1, <2>2
<1> QED BY <1>1, <1>2 DEF EvaluateSwitch

LEMMA ObserveIsObserved ==
  ASSUME NEW t, NEW ok, Observe(t, stale, ok)
  PROVE  Contract!Observed
<1> USE DEF Contract!Observed, Contract!healthVars, healthVars
<1>1. CASE stale /\ ObserveStale
  BY <1>1 DEF ObserveStale, SetFailClosed, switchVars, Contract!SetFailClosed
<1>2. CASE UNCHANGED vars
  BY <1>2 DEF vars, switchVars
<1>3. CASE \E latency \in Latencies, bound \in Bounds, signal \in Signals :
             ObserveSuccess(latency, bound, signal)
  <2>1. PICK latency \in Latencies, bound \in Bounds, signal \in Signals :
             ObserveSuccess(latency, bound, signal)
    BY <1>3
  <2>2. active' = active /\ ConfirmRecovery(latency > policy.deadline)
    BY <2>1 DEF ObserveSuccess, switchVars
  <2> QED BY <2>2 DEF ConfirmRecovery, SetReady, NoHold, Contract!SetReady,
                      Contract!NoHold
<1>4. CASE active # None /\ ObserveFailure(t)
  BY <1>4 DEF ObserveFailure, SetDegraded, switchVars, Contract!SetDegraded
<1> QED BY <1>1, <1>2, <1>3, <1>4 DEF Observe

LEMMA RecoveryIsRecover == RequestRecovery => Contract!Recover
  BY DEF RequestRecovery, BeginRecovery, switchVars, NoHold, Contract!Recover,
         Contract!BeginRecovery, Contract!NoHold

LEMMA EngineStepIsContractStep ==
  ASSUME TypeOK, FrameInv, [ConcurrentNext]_engineVars
  PROVE  [Contract!ContractNext]_(Contract!contractVars)
<1> USE DEF Contract!ContractNext, Contract!contractVars,
            Contract!frameContractVars, Contract!healthVars
<1>1. CASE Configure
  BY <1>1 DEF Configure, vars, switchVars, healthVars, Contract!Configured
<1>2. CASE AbandonFrame
  BY <1>2 DEF AbandonFrame, FrameDone, vars, switchVars, healthVars,
              Contract!Abandon, Contract!NoFrame
<1>3. CASE \E p \in Profiles : CreateSession(p)
  BY <1>3 DEF CreateSession, MarkProfileWarmed, engineOnlyVars, switchVars,
              healthVars
<1>4. CASE SelectStartup
  BY <1>4, EvaluateIsDecision DEF SelectStartup, Contract!Startup
<1>5. CASE \E t \in 0..MaxTime, isStale \in BOOLEAN : StartFrame(t, isStale)
  <2>1. PICK t \in 0..MaxTime, isStale \in BOOLEAN : StartFrame(t, isStale)
    BY <1>5
  <2>2. Contract!Decide
    BY <2>1, EvaluateIsDecision DEF StartFrame
  <2>3. Contract!Begin
    BY <2>1, <2>2 DEF StartFrame, Contract!Begin, NoHold, Contract!NoHold
  <2> QED BY <2>3
<1>6. CASE \E ok \in BOOLEAN : FinishInference(ok)
  BY <1>6, ObserveIsObserved DEF FinishInference, Contract!Finish
<1>7. CASE Settle
  BY <1>7, EvaluateIsDecision DEF Settle, FrameDone, Contract!Settled,
                                  Contract!NoFrame
<1>8. CASE EngineTick
  BY <1>8 DEF EngineTick, Tick, engineOnlyVars, switchVars, healthVars
<1>9. CASE ServiceCall
  <2>1. CASE RequestRecovery
    BY <1>9, <2>1, RecoveryIsRecover DEF ServiceCall, engineOnlyVars,
       Contract!Called
  <2>2. CASE ~RequestRecovery
    BY <1>9, <2>2 DEF ServiceCall, RequestPin, ClearPin, UpdatePolicy,
       engineOnlyVars, switchVars, healthVars
  <2> QED BY <2>1, <2>2
<1>10. CASE ServiceEvaluate
  BY <1>10, EvaluateIsDecision DEF ServiceEvaluate, engineOnlyVars,
     Contract!Called
<1>11. CASE UNCHANGED engineVars
  BY <1>11 DEF engineVars, engineOnlyVars, vars, switchVars, healthVars
<1> QED BY <1>1, <1>2, <1>3, <1>4, <1>5, <1>6, <1>7, <1>8, <1>9, <1>10, <1>11
        DEF ConcurrentNext, EngineNext, RunFrame

(* Whatever service calls interrupt a frame, the node that embeds the       *)
(* engine sees only the steps that EngineContract allows.                   *)
THEOREM EngineKeepsContract == ConcurrentSpec => EngineImplementsContract
<1>1. EngineInit => Contract!ContractInit
  BY DEF EngineInit, Init, HealthInit, NoHold, Contract!ContractInit,
         Contract!HealthInit, Contract!NoHold
<1>2. TypeOK /\ FrameInv /\ [ConcurrentNext]_engineVars
        => [Contract!ContractNext]_(Contract!contractVars)
  BY EngineStepIsContractStep
<1>3. ConcurrentSpec => []TypeOK
  BY EngineImplementsController, TypeCorrect, PTL
<1>4. ConcurrentSpec => []FrameInv
  BY FrameInvInit, FrameInvStep, PTL DEF ConcurrentSpec
<1> QED
  BY <1>1, <1>2, <1>3, <1>4, PTL
     DEF ConcurrentSpec, EngineImplementsContract, Contract!ContractSpec
------------------------------------------------------------------------------
(* The types.  A frame has an executed profile from the moment it starts to  *)
(* the moment it is handed back, whatever is called meanwhile.               *)
FrameTypes ==
  /\ phase \in {"unconfigured", "configured", "ready"}
  /\ pc \in {"idle", "executing", "settling"}
  /\ executed \in Profiles \cup {None}
  /\ pc = "idle" <=> executed = None

LEMMA FrameTypesStep ==
  ASSUME TypeOK', FrameTypes, ConcurrentNext
  PROVE  FrameTypes'
<1>1. CASE \E t \in 0..MaxTime, isStale \in BOOLEAN : StartFrame(t, isStale)
  <2>1. PICK t \in 0..MaxTime, isStale \in BOOLEAN : StartFrame(t, isStale)
    BY <1>1
  <2>2. active' \in Profiles \cup {None}
    BY DEF TypeOK
  <2> QED BY <2>1, <2>2 DEF StartFrame, FrameTypes
<1>2. CASE AbandonFrame \/ Settle
  BY <1>2 DEF AbandonFrame, Settle, FrameDone, FrameTypes
<1>3. CASE \E ok \in BOOLEAN : FinishInference(ok)
  BY <1>3 DEF FinishInference, FrameTypes
<1>4. CASE Configure \/ SelectStartup
  BY <1>4 DEF Configure, SelectStartup, FrameTypes
<1>5. CASE UNCHANGED engineOnlyVars
  BY <1>5 DEF engineOnlyVars, FrameTypes
<1> QED BY <1>1, <1>2, <1>3, <1>4, <1>5 DEF ConcurrentNext, EngineNext, RunFrame,
        CreateSession, EngineTick, ServiceCall, ServiceEvaluate

(* Phase, frame and controller keep their types, and a frame is under way    *)
(* exactly as long as a profile is executed, with calls at any moment.       *)
THEOREM EngineTypeCorrect == ConcurrentSpec => []EngineTypeOK
<1>1. EngineInit => FrameTypes
  BY DEF EngineInit, FrameTypes
<1>2. FrameTypes /\ TypeOK' /\ [ConcurrentNext]_engineVars => FrameTypes'
  BY FrameTypesStep DEF engineVars, engineOnlyVars, FrameTypes
<1>3. TypeOK /\ FrameInv /\ FrameTypes => EngineTypeOK
  BY DEF FrameInv, FrameTypes, EngineTypeOK
<1>4. ConcurrentSpec => []TypeOK
  BY EngineImplementsController, TypeCorrect, PTL
<1>5. ConcurrentSpec => []FrameInv
  BY FrameInvInit, FrameInvStep, PTL DEF ConcurrentSpec
<1> QED BY <1>1, <1>2, <1>3, <1>4, <1>5, PTL DEF ConcurrentSpec
==============================================================================
