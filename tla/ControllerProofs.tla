--------------------------- MODULE ControllerProofs ---------------------------
(***************************************************************************)
(* Theorems about the controller, for every registry, policy set and bound *)
(* on time.  Type correctness comes first; each safety invariant is then   *)
(* inductive together with it.                                             *)
(***************************************************************************)
EXTENDS Controller, TLAPS

(* What select_best returns is one of the eligible profiles, so it meets    *)
(* the policy with either latency bound.                                    *)
LEMMA BestIsEligible ==
  ASSUME NEW t, NEW best \in Best(EligibleProfiles(t), escalation)
  PROVE  /\ best \in EligibleProfiles(t)
         /\ best \in Profiles
         /\ Eligible(best, MaxOf(Attr[best].offline, online[best]), t)
BY DEF Best, EligibleProfiles

LEMMA EligibleIsServable ==
  ASSUME NEW p, NEW b, NEW t, Eligible(p, b, t)
  PROVE  p \in warmed /\ Attr[p].certified
BY DEF Eligible

LEMMA NoneIsNoProfile == None \notin Profiles
BY ProfilesAssumption
------------------------------------------------------------------------------
(* Frames, one lemma per path of observe. *)
LEMMA PolicyWindow ==
  ASSUME NEW q \in Policies
  PROVE  q.missWindow \in Nat /\ q.weight \in Nat /\ q.deadline \in Int
<1>1. q \in PolicyType
  BY PoliciesAssumption
<1> QED
  BY <1>1 DEF PolicyType

LEMMA PushKeepsType ==
  ASSUME policy \in Policies, missWindow \in Seq(BOOLEAN),
         Len(missWindow) <= policy.missWindow,
         NEW miss \in BOOLEAN, PushMiss(miss)
  PROVE  missWindow' \in Seq(BOOLEAN) /\ Len(missWindow') <= policy.missWindow
<1> DEFINE pushed == Append(missWindow, miss)
<1>1. pushed \in Seq(BOOLEAN) /\ Len(pushed) = Len(missWindow) + 1
  OBVIOUS
<1>2. pushed # <<>>
  BY <1>1
<1>3. Tail(pushed) \in Seq(BOOLEAN) /\ Len(Tail(pushed)) = Len(missWindow)
  BY <1>1, <1>2
<1>4. missWindow' = IF Len(pushed) > policy.missWindow THEN Tail(pushed)
                                                       ELSE pushed
  BY DEF PushMiss
<1> HIDE DEF pushed
<1>5. Len(missWindow) \in Nat /\ policy.missWindow \in Nat
  BY PolicyWindow
<1>6. CASE Len(pushed) > policy.missWindow
  <2>1. missWindow' = Tail(pushed)
    BY <1>4, <1>6
  <2> QED
    BY <1>3, <2>1
<1>7. CASE ~(Len(pushed) > policy.missWindow)
  <2>1. missWindow' = pushed
    BY <1>4, <1>7
  <2>2. Len(pushed) <= policy.missWindow
    BY <1>1, <1>5, <1>7
  <2> QED
    BY <1>1, <2>1, <2>2
<1> QED
  BY <1>6, <1>7

LEMMA ObserveType ==
  ASSUME TypeOK, NEW s \in BOOLEAN, NEW ok \in BOOLEAN, Observe(now, s, ok)
  PROVE  TypeOK'
<1>1. CASE ObserveStale
  BY <1>1 DEF ObserveStale, SetFailClosed, HoldReasons, HealthStates, TypeOK,
     HealthTypeOK, profileVars, switchVars, pinVars, frameVars
<1>2. CASE UNCHANGED vars
  BY <1>2 DEF vars, TypeOK, HealthTypeOK, profileVars, switchVars, pinVars,
     frameVars, healthVars
<1>3. CASE active # None /\ ObserveFailure(now)
  <2>1. active \in Profiles
    BY <1>3 DEF TypeOK
  <2>2. missWindow' \in Seq(BOOLEAN) /\ Len(missWindow') <= policy.missWindow
    BY <1>3, PushKeepsType DEF ObserveFailure, TypeOK
  <2>3. failures' \in [Profiles -> Nat] /\ cooldown' \in [Profiles -> Nat]
    BY <1>3, <2>1, BoundsAssumption DEF ObserveFailure, TypeOK
  <2>4. HealthTypeOK'
    BY <1>3 DEF ObserveFailure, SetDegraded, TypeOK, HealthTypeOK, HealthStates
  <2> QED
    BY <1>3, <2>2, <2>3, <2>4
    DEF ObserveFailure, TypeOK, switchVars, pinVars
<1>4. ASSUME active # None, NEW latency \in Latencies, NEW bound \in Bounds,
             NEW signal \in Signals, ObserveSuccess(latency, bound, signal)
      PROVE  TypeOK'
  <2>1. active \in Profiles
    BY <1>4 DEF TypeOK
  <2>2. (latency > policy.deadline) \in BOOLEAN
    OBVIOUS
  <2>3. missWindow' \in Seq(BOOLEAN) /\ Len(missWindow') <= policy.missWindow
    BY <1>4, <2>2, PushKeepsType DEF ObserveSuccess, TypeOK
  <2>4. online' \in [Profiles -> Nat] /\ healthy' \subseteq Profiles
    BY <1>4, <2>1, BoundsAssumption DEF ObserveSuccess, TypeOK
  <2>5. HealthTypeOK' /\ recoverStreak' \in Nat
    BY <1>4 DEF ObserveSuccess, ConfirmRecovery, SetReady, TypeOK, HealthTypeOK,
       HealthStates, healthVars
  <2>6. escalation' \in BOOLEAN
    BY <1>4 DEF ObserveSuccess, Escalate, TypeOK
  <2> QED
    BY <1>4, <2>3, <2>4, <2>5, <2>6
    DEF ObserveSuccess, TypeOK, switchVars, pinVars
<1> QED
  BY <1>1, <1>2, <1>3, <1>4 DEF Observe
------------------------------------------------------------------------------
(* Evaluations. *)
LEMMA EvaluateType ==
  ASSUME TypeOK, NEW t \in 0..now, EvaluateSwitch(t)
  PROVE  TypeOK'
<1>1. t \in Nat
  BY DEF TypeOK
<1>2. CASE EvaluatePinned(t)
  <2>1. pinned \in Profiles
    BY <1>2 DEF EvaluatePinned, PinServes, TypeOK
  <2> QED
    BY <1>1, <1>2, <2>1 DEF EvaluatePinned, SwitchTo, SetReady, TypeOK,
       HealthTypeOK, HealthStates, profileVars, switchVars, pinVars, frameVars,
       healthVars
<1>3. CASE EvaluateUnpinned(t)
  <2>1. pinned' \in Profiles \cup {None} /\ pinExpires' \in Nat
    BY <1>3 DEF EvaluateUnpinned, DropExpiredPin, TypeOK, pinVars
  <2>2. /\ active' \in Profiles \cup {None} /\ activeSince' \in Nat
        /\ promotionStreak' \in Nat /\ demotionStreak' \in Nat
        /\ HealthTypeOK'
    <3>1. CASE EvaluateNoEligible(t)
      BY <3>1 DEF EvaluateNoEligible, SetFailClosed, TypeOK, HealthTypeOK,
         HealthStates, HoldReasons, healthVars
    <3>2. ASSUME NEW best \in Best(EligibleProfiles(t), escalation),
                 \/ EvaluateStartup(t, best)
                 \/ EvaluateStable(best)
                 \/ EvaluateDemotion(t, best)
                 \/ EvaluatePromotion(t, best)
                 \/ EvaluateKeep(t, best)
          PROVE  <2>2
      <4>1. best \in Profiles
        BY <3>2, BestIsEligible
      <4>2. CASE EvaluateStartup(t, best)
        BY <1>1, <4>1, <4>2 DEF EvaluateStartup, SwitchTo, SetReady, TypeOK,
           HealthTypeOK, HealthStates
      <4>3. CASE EvaluateStable(best)
        BY <4>1, <4>3 DEF EvaluateStable, SetReady, TypeOK, HealthTypeOK,
           HealthStates, healthVars
      <4>4. CASE EvaluateDemotion(t, best)
        <5>1. demotionStreak' \in Nat /\ promotionStreak' \in Nat
          BY <4>4 DEF EvaluateDemotion, TypeOK
        <5>2. CASE SwitchTo(best, t) /\ SetDegraded
          BY <1>1, <4>1, <5>1, <5>2 DEF SwitchTo, SetDegraded, TypeOK,
             HealthTypeOK, HealthStates
        <5>3. CASE UNCHANGED <<active, activeSince, healthVars>>
          BY <5>1, <5>3 DEF TypeOK, HealthTypeOK, healthVars
        <5> QED BY <4>4, <5>2, <5>3 DEF EvaluateDemotion
      <4>5. CASE EvaluatePromotion(t, best)
        <5>1. demotionStreak' \in Nat /\ promotionStreak' \in Nat
          BY <4>5 DEF EvaluatePromotion, TypeOK
        <5>2. CASE SwitchTo(best, t) /\ SetReady
          BY <1>1, <4>1, <5>1, <5>2 DEF SwitchTo, SetReady, TypeOK,
             HealthTypeOK, HealthStates
        <5>3. CASE UNCHANGED <<active, activeSince, healthVars>>
          BY <5>1, <5>3 DEF TypeOK, HealthTypeOK, healthVars
        <5> QED BY <4>5, <5>2, <5>3 DEF EvaluatePromotion
      <4>6. CASE EvaluateKeep(t, best)
        BY <4>1, <4>6 DEF EvaluateKeep, TypeOK, HealthTypeOK, healthVars
      <4> QED
        BY <3>2, <4>2, <4>3, <4>4, <4>5, <4>6
    <3> QED
      BY <1>3, <3>1, <3>2 DEF EvaluateUnpinned
  <2> QED
    BY <1>3, <2>1, <2>2 DEF EvaluateUnpinned, TypeOK, profileVars, frameVars
<1> QED
  BY <1>2, <1>3 DEF EvaluateSwitch
------------------------------------------------------------------------------
(* Every reachable state of the controller has its type: in particular the  *)
(* streaks and timestamps stay natural numbers and the active and pinned    *)
(* profiles are profiles of the registry.                                   *)
THEOREM TypeCorrect == Spec => []TypeOK
<1>1. Init => TypeOK
  <2> SUFFICES ASSUME Init PROVE TypeOK
    OBVIOUS
  <2>1. HealthTypeOK
    BY DEF Init, HealthInit, HealthTypeOK, HealthStates
  <2>2. missWindow \in Seq(BOOLEAN) /\ Len(missWindow) <= policy.missWindow
    BY PolicyWindow DEF Init
  <2>3. /\ failures \in [Profiles -> Nat] /\ cooldown \in [Profiles -> Nat]
        /\ online \in [Profiles -> Nat]
    BY DEF Init
  <2> QED
    BY <2>1, <2>2, <2>3 DEF Init, TypeOK
<1>2. TypeOK /\ [Next]_vars => TypeOK'
  <2> SUFFICES ASSUME TypeOK, [Next]_vars PROVE TypeOK'
    OBVIOUS
  <2>1. CASE Tick
    BY <2>1 DEF Tick, TypeOK, HealthTypeOK, profileVars, switchVars, pinVars,
       frameVars, healthVars
  <2>2. ASSUME NEW p \in Profiles, MarkProfileWarmed(p) PROVE TypeOK'
    BY <2>2 DEF MarkProfileWarmed, TypeOK, HealthTypeOK, switchVars, pinVars,
       frameVars, healthVars
  <2>3. ASSUME NEW t \in 0..now, EvaluateSwitch(t) PROVE TypeOK'
    BY <2>3, EvaluateType
  <2>4. ASSUME NEW s \in BOOLEAN, NEW ok \in BOOLEAN, Observe(now, s, ok)
        PROVE  TypeOK'
    BY <2>4, ObserveType
  <2>5. ASSUME NEW p \in Profiles, NEW seconds \in PinSeconds,
               RequestPin(p, now, seconds)
        PROVE  TypeOK'
    BY <2>5, BoundsAssumption DEF RequestPin, TypeOK, HealthTypeOK, profileVars,
       switchVars, frameVars, healthVars
  <2>6. CASE ClearPin
    BY <2>6 DEF ClearPin, TypeOK, HealthTypeOK, profileVars, switchVars,
       frameVars, healthVars
  <2>7. CASE RequestRecovery
    BY <2>7 DEF RequestRecovery, BeginRecovery, Certified, TypeOK, HealthTypeOK,
       HealthStates, switchVars, pinVars
  <2>8. ASSUME NEW next \in Policies, UpdatePolicy(next) PROVE TypeOK'
    BY <2>8, PolicyWindow DEF UpdatePolicy, TypeOK, HealthTypeOK, profileVars, switchVars,
       pinVars, healthVars
  <2>9. CASE UNCHANGED vars
    BY <2>9 DEF vars, TypeOK, HealthTypeOK, profileVars, switchVars, pinVars,
       frameVars, healthVars
  <2> QED
    BY <2>1, <2>2, <2>3, <2>4, <2>5, <2>6, <2>7, <2>8, <2>9 DEF Next
<1> QED
  BY <1>1, <1>2, PTL DEF Spec
------------------------------------------------------------------------------
(* The four safety invariants.  HoldIsRecoverable is inductive on its own;  *)
(* the others need to know that a selected profile is a profile.            *)
Safety ==
  /\ HoldIsRecoverable
  /\ NoEligibleHoldHasNoProfile
  /\ ReadyHasProfile
  /\ ActiveIsServable

LEMMA ObserveSafety ==
  ASSUME TypeOK, Safety, NEW s \in BOOLEAN, NEW ok \in BOOLEAN,
         Observe(now, s, ok)
  PROVE  Safety'
<1>1. CASE ObserveStale
  BY <1>1 DEF ObserveStale, SetFailClosed, Safety, HoldIsRecoverable,
     NoEligibleHoldHasNoProfile, ReadyHasProfile, ActiveIsServable, HoldActive,
     NoHold, profileVars, switchVars
<1>2. CASE UNCHANGED vars
  BY <1>2 DEF vars, Safety, HoldIsRecoverable, NoEligibleHoldHasNoProfile,
     ReadyHasProfile, ActiveIsServable, HoldActive, profileVars, switchVars,
     healthVars
<1>3. CASE active # None /\ ObserveFailure(now)
  BY <1>3 DEF ObserveFailure, SetDegraded, Safety, HoldIsRecoverable,
     NoEligibleHoldHasNoProfile, ReadyHasProfile, ActiveIsServable, HoldActive,
     switchVars
<1>4. ASSUME active # None, NEW latency \in Latencies, NEW bound \in Bounds,
             NEW signal \in Signals, ObserveSuccess(latency, bound, signal)
      PROVE  Safety'
  BY <1>4 DEF ObserveSuccess, ConfirmRecovery, SetReady, Safety,
     HoldIsRecoverable, NoEligibleHoldHasNoProfile, ReadyHasProfile,
     ActiveIsServable, HoldActive, NoHold, switchVars, healthVars
<1> QED
  BY <1>1, <1>2, <1>3, <1>4 DEF Observe

(* A step that selects profile p, with the hold lifted or left as it was     *)
(* under another selected profile.                                          *)
LEMMA SelectSafety ==
  ASSUME Safety, NEW p \in Profiles, p \in warmed, Attr[p].certified,
         warmed' = warmed, active' = p,
         SetReady \/ (SetDegraded /\ active # None)
  PROVE  Safety'
BY NoneIsNoProfile DEF Safety, SetReady, SetDegraded, HoldIsRecoverable,
   NoEligibleHoldHasNoProfile, ReadyHasProfile, ActiveIsServable, HoldActive,
   NoHold

(* A step that neither selects another profile nor touches the health.       *)
LEMMA KeepSafety ==
  ASSUME Safety, warmed \subseteq warmed', active' = active,
         UNCHANGED healthVars
  PROVE  Safety'
BY DEF Safety, healthVars, HoldIsRecoverable, NoEligibleHoldHasNoProfile,
   ReadyHasProfile, ActiveIsServable, HoldActive

LEMMA EvaluateSafety ==
  ASSUME TypeOK, Safety, NEW t \in 0..now, EvaluateSwitch(t)
  PROVE  Safety'
<1>1. CASE EvaluatePinned(t)
  <2>1. pinned \in Profiles /\ pinned \in warmed /\ Attr[pinned].certified
    BY <1>1 DEF EvaluatePinned, PinServes, Eligible, TypeOK
  <2>2. CASE active = pinned
    BY <1>1, <2>2, KeepSafety DEF EvaluatePinned, switchVars, profileVars
  <2>3. CASE active # pinned
    BY <1>1, <2>1, <2>3, SelectSafety DEF EvaluatePinned, SwitchTo, profileVars
  <2> QED
    BY <2>2, <2>3
<1>2. CASE EvaluateUnpinned(t)
  <2>1. warmed' = warmed
    BY <1>2 DEF EvaluateUnpinned, profileVars
  <2>2. CASE EvaluateNoEligible(t)
    BY <2>1, <2>2, PoliciesAssumption
    DEF EvaluateNoEligible, SetFailClosed, Safety, HoldIsRecoverable,
        NoEligibleHoldHasNoProfile, ReadyHasProfile, ActiveIsServable,
        HoldActive, NoHold, healthVars, TypeOK
  <2>3. ASSUME NEW best \in Best(EligibleProfiles(t), escalation),
               \/ EvaluateStartup(t, best)
               \/ EvaluateStable(best)
               \/ EvaluateDemotion(t, best)
               \/ EvaluatePromotion(t, best)
               \/ EvaluateKeep(t, best)
        PROVE  Safety'
    <3>1. best \in Profiles /\ best \in warmed /\ Attr[best].certified
      BY BestIsEligible, EligibleIsServable
    <3>2. CASE EvaluateStartup(t, best)
      BY <2>1, <3>1, <3>2, SelectSafety DEF EvaluateStartup, SwitchTo
    <3>3. CASE EvaluateStable(best)
      BY <2>1, <3>1, <3>3, SelectSafety, KeepSafety DEF EvaluateStable
    <3>4. CASE EvaluateDemotion(t, best)
      BY <2>1, <3>1, <3>4, SelectSafety, KeepSafety DEF EvaluateDemotion, SwitchTo
    <3>5. CASE EvaluatePromotion(t, best)
      BY <2>1, <3>1, <3>5, SelectSafety, KeepSafety DEF EvaluatePromotion, SwitchTo
    <3>6. CASE EvaluateKeep(t, best)
      BY <2>1, <3>6, KeepSafety DEF EvaluateKeep
    <3> QED
      BY <2>3, <3>2, <3>3, <3>4, <3>5, <3>6
  <2> QED
    BY <1>2, <2>2, <2>3 DEF EvaluateUnpinned
<1> QED
  BY <1>1, <1>2 DEF EvaluateSwitch

LEMMA SafetyInvariant == Spec => []Safety
<1>1. Init => Safety
  BY NoneIsNoProfile DEF Init, HealthInit, Safety, HoldIsRecoverable,
     NoEligibleHoldHasNoProfile, ReadyHasProfile, ActiveIsServable, HoldActive,
     NoHold
<1>2. TypeOK /\ Safety /\ [Next]_vars => Safety'
  <2> SUFFICES ASSUME TypeOK, Safety, [Next]_vars PROVE Safety'
    OBVIOUS
  <2>1. CASE Tick
    BY <2>1, KeepSafety DEF Tick, profileVars, switchVars
  <2>2. ASSUME NEW p \in Profiles, MarkProfileWarmed(p) PROVE Safety'
    BY <2>2, KeepSafety DEF MarkProfileWarmed, switchVars
  <2>3. ASSUME NEW t \in 0..now, EvaluateSwitch(t) PROVE Safety'
    BY <2>3, EvaluateSafety
  <2>4. ASSUME NEW s \in BOOLEAN, NEW ok \in BOOLEAN, Observe(now, s, ok)
        PROVE  Safety'
    BY <2>4, ObserveSafety
  <2>5. ASSUME NEW p \in Profiles, NEW seconds \in PinSeconds,
               RequestPin(p, now, seconds)
        PROVE  Safety'
    BY <2>5, KeepSafety DEF RequestPin, profileVars, switchVars
  <2>6. CASE ClearPin
    BY <2>6, KeepSafety DEF ClearPin, profileVars, switchVars
  <2>7. CASE RequestRecovery
    BY <2>7 DEF RequestRecovery, BeginRecovery, Safety, HoldIsRecoverable,
       NoEligibleHoldHasNoProfile, ReadyHasProfile, ActiveIsServable,
       HoldActive, NoHold, switchVars
  <2>8. ASSUME NEW next \in Policies, UpdatePolicy(next) PROVE Safety'
    BY <2>8, KeepSafety DEF UpdatePolicy, profileVars, switchVars
  <2>9. CASE UNCHANGED vars
    BY <2>9, KeepSafety DEF vars, profileVars, switchVars
  <2> QED
    BY <2>1, <2>2, <2>3, <2>4, <2>5, <2>6, <2>7, <2>8, <2>9 DEF Next
<1> QED
  BY <1>1, <1>2, TypeCorrect, PTL DEF Spec

(* A published FailClosed always comes with the control hold, and a hold is  *)
(* only asserted where request_recovery can lift it.                        *)
THEOREM HoldIsAlwaysRecoverable == Spec => []HoldIsRecoverable
<1>1. Safety => HoldIsRecoverable
  BY DEF Safety
<1> QED
  BY <1>1, SafetyInvariant, PTL

(* A NO_ELIGIBLE_PROFILE hold and a selected profile exclude each other.     *)
THEOREM NoEligibleHoldIsTruthful == Spec => []NoEligibleHoldHasNoProfile
<1>1. Safety => NoEligibleHoldHasNoProfile
  BY DEF Safety
<1> QED
  BY <1>1, SafetyInvariant, PTL

(* Ready and Degraded are only published with a selected profile, if every   *)
(* policy fails closed on an empty eligible set.                            *)
THEOREM ReadyAlwaysHasProfile == Spec => []ReadyHasProfile
<1>1. Safety => ReadyHasProfile
  BY DEF Safety
<1> QED
  BY <1>1, SafetyInvariant, PTL

(* The active profile is certified and its session is warm.                  *)
THEOREM ActiveIsAlwaysServable == Spec => []ActiveIsServable
<1>1. Safety => ActiveIsServable
  BY DEF Safety
<1> QED
  BY <1>1, SafetyInvariant, PTL
------------------------------------------------------------------------------
(* Dropping the online bound can only make a profile more eligible.          *)
LEMMA OfflineEligible ==
  ASSUME TypeOK, NEW p \in Profiles, NEW t,
         Eligible(p, MaxOf(Attr[p].offline, online[p]), t)
  PROVE  Eligible(p, Attr[p].offline, t)
<1> DEFINE w == Attr[p].offline * policy.weight
<1>1. Attr[p].offline \in Int /\ policy.weight \in Int /\ online[p] \in Int
      /\ policy.deadline \in Int
  <2>2. policy.weight \in Nat /\ policy.deadline \in Int
    BY PolicyWindow DEF TypeOK
  <2>3. Attr[p] \in Attributes
    BY ProfilesAssumption
  <2>4. Attr[p].offline \in Nat
    BY <2>3 DEF Attributes
  <2> QED
    BY <2>2, <2>4 DEF TypeOK
<1>2. w \in Int
  BY <1>1
<1>3. MaxOf(MaxOf(Attr[p].offline, online[p]), w) <= policy.deadline
  BY DEF Eligible
<1> HIDE DEF w
<1>4. MaxOf(Attr[p].offline, w) <= policy.deadline
  BY <1>1, <1>2, <1>3 DEF MaxOf
<1> QED
  BY <1>4 DEF Eligible, w

LEMMA SwitchTargetStep ==
  ASSUME TypeOK, Next, active' \notin {active, None}
  PROVE  \E t \in 0..now : Eligible(active', Attr[active'].offline, t)
<1>1. PICK t \in 0..now : EvaluateSwitch(t)
  BY DEF Next, Tick, MarkProfileWarmed, Observe, ObserveStale, ObserveFailure,
     ObserveSuccess, RequestPin, ClearPin, RequestRecovery, UpdatePolicy, vars,
     switchVars
<1>2. CASE EvaluatePinned(t)
  BY <1>2 DEF EvaluatePinned, PinServes, SwitchTo, switchVars
<1>3. CASE EvaluateUnpinned(t)
  <2>1. PICK best \in Best(EligibleProfiles(t), escalation) : active' = best
    BY <1>3 DEF EvaluateUnpinned, EvaluateNoEligible, EvaluateStartup,
       EvaluateStable, EvaluateDemotion, EvaluatePromotion, EvaluateKeep,
       SwitchTo
  <2> QED
    BY <2>1, BestIsEligible, OfflineEligible
<1> QED
  BY <1>1, <1>2, <1>3 DEF EvaluateSwitch

(* Whatever makes a profile active, startup, pin, demotion or promotion,     *)
(* the profile met the policy in force at that moment.                      *)
THEOREM SwitchesMeetPolicy == Spec => SwitchTargetMeetsPolicy
<1>1. TypeOK /\ [Next]_vars =>
        [active' \notin {active, None} =>
           \E t \in 0..now : Eligible(active', Attr[active'].offline, t)]_vars
  BY SwitchTargetStep
<1> QED
  BY <1>1, TypeCorrect, PTL DEF Spec, SwitchTargetMeetsPolicy
==============================================================================
