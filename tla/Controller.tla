------------------------------ MODULE Controller ------------------------------
(***************************************************************************)
(* The adaptive profile controller (cpp/src/runtime/controller.cpp) with   *)
(* the eligibility rule it applies (eligibility.cpp) and the health machine*)
(* it drives.  One action per public method; evaluate_switch is the        *)
(* disjunction of its return paths.                                        *)
(*                                                                         *)
(* Time is the steady clock in ticks.  A caller hands in a timestamp t that*)
(* never lies ahead of the clock but may lag behind it: the engine         *)
(* evaluates a frame at its receive time, after later times were observed. *)
(* Latencies, envelopes and the deadline are natural numbers of one unit.  *)
(* The conservative bound of a profile's latency estimator is one number   *)
(* online[p], zero while there are no samples; a new sample may move it to *)
(* any value of Bounds.                                                    *)
(***************************************************************************)
EXTENDS Integers, Sequences, FiniteSets, HealthMachine

CONSTANTS
  Profiles,      (* profile ids in the registry                            *)
  Attr,          (* the certified attributes of each profile               *)
  None,          (* no profile                                             *)
  Policies,      (* the policies an operator may load or update to         *)
  Latencies,     (* executor latencies a successful frame can show         *)
  Bounds,        (* conservative bounds an estimator can report            *)
  PinSeconds,    (* pin durations an operator asks for, in ticks           *)
  Cooldown,      (* the two-second cooldown after a failed inference       *)
  MaxTime,       (* bound on the clock                                     *)
  MaxFailures    (* bound on a profile's failure count                     *)

Attributes == [certified : BOOLEAN, quality : Nat, utility : Nat,
               p99 : Nat, offline : Nat]

PolicyType ==
  [deadline : Int, dwell : Nat, promote : Int, demote : Int,
   missWindow : Nat, missThreshold : Nat, weight : Nat, minQuality : Nat,
   escalation : BOOLEAN, pinMax : Nat, failStale : BOOLEAN,
   failNoEligible : BOOLEAN, recover : Int, maxTransient : Int]

(* validate_runtime_policy *)
ValidPolicy(q) ==
  /\ q.deadline > 0
  /\ q.demote >= 1 /\ q.promote >= 1
  /\ q.maxTransient >= 1

ASSUME ProfilesAssumption ==
  /\ None \notin Profiles
  /\ Attr \in [Profiles -> Attributes]

ASSUME PoliciesAssumption == Policies \subseteq PolicyType

ASSUME BoundsAssumption ==
  /\ Latencies \subseteq Nat /\ Bounds \subseteq Nat /\ PinSeconds \subseteq Nat
  /\ Cooldown \in Nat /\ MaxTime \in Nat /\ MaxFailures \in Nat

VARIABLES
  now,             (* the steady clock                                     *)
  policy,          (* policy_                                              *)
  warmed,          (* profiles with warmed = true                          *)
  healthy,         (* profiles with healthy = true                         *)
  failures,        (* failure_count                                        *)
  cooldown,        (* cooldown_until_steady_ns                             *)
  online,          (* conservative bound of the estimator, 0: no samples   *)
  active,          (* active_profile_id_                                   *)
  activeSince,     (* active_since_steady_ns_                              *)
  pinned,          (* pin_->profile_id, None when there is no pin          *)
  pinExpires,      (* pin_->expires_steady_ns                              *)
  promotionStreak, (* promotion_streak_                                    *)
  demotionStreak,  (* demotion_streak_                                     *)
  recoverStreak,   (* recover_streak_                                      *)
  missWindow,      (* deadline_miss_window_, oldest first                  *)
  escalation       (* confidence_escalation_active_                        *)

profileVars == <<warmed, healthy, failures, cooldown, online>>
switchVars  == <<active, activeSince, promotionStreak, demotionStreak>>
pinVars     == <<pinned, pinExpires>>
frameVars   == <<recoverStreak, missWindow, escalation>>

vars == <<now, policy, profileVars, switchVars, pinVars, frameVars, healthVars>>

TypeOK ==
  /\ now \in Nat
  /\ policy \in Policies
  /\ warmed \subseteq Profiles
  /\ healthy \subseteq Profiles
  /\ failures \in [Profiles -> Nat]
  /\ cooldown \in [Profiles -> Nat]
  /\ online \in [Profiles -> Nat]
  /\ active \in Profiles \cup {None}
  /\ activeSince \in Nat
  /\ pinned \in Profiles \cup {None}
  /\ pinExpires \in Nat
  /\ promotionStreak \in Nat
  /\ demotionStreak \in Nat
  /\ recoverStreak \in Nat
  /\ missWindow \in Seq(BOOLEAN) /\ Len(missWindow) <= policy.missWindow
  /\ escalation \in BOOLEAN
  /\ HealthTypeOK

(* A start does not validate the policy: the bundle's defaults are merged as *)
(* they are, and of a policy file the failure limit is not looked at.        *)
Init ==
  /\ now = 0
  /\ policy \in Policies
  /\ warmed = {} /\ healthy = Profiles
  /\ failures = [p \in Profiles |-> 0]
  /\ cooldown = [p \in Profiles |-> 0]
  /\ online   = [p \in Profiles |-> 0]
  /\ active = None /\ activeSince = 0
  /\ pinned = None /\ pinExpires = 0
  /\ promotionStreak = 0 /\ demotionStreak = 0 /\ recoverStreak = 0
  /\ missWindow = <<>> /\ escalation = FALSE
  /\ HealthInit
------------------------------------------------------------------------------
(***************************************************************************)
(* Eligibility and selection.                                              *)
(***************************************************************************)
MaxOf(a, b) == IF a >= b THEN a ELSE b

(* Deviation: profiles that are not warm count too. *)
EligibleUnwarmed(p, b, t) ==
  /\ Attr[p].certified
  /\ cooldown[p] <= t
  /\ p \in healthy \/ failures[p] < policy.maxTransient
  /\ Attr[p].quality >= policy.minQuality
  /\ MaxOf(b, Attr[p].offline * policy.weight) <= policy.deadline

(* evaluate_eligibility with a latency bound b at time t.  No code path     *)
(* records the INT64_MAX cooldown that the hard-failure branch tests for.   *)
Eligible(p, b, t) ==
  /\ Attr[p].certified
  /\ p \in warmed
  /\ cooldown[p] <= t
  /\ p \in healthy \/ failures[p] < policy.maxTransient
  /\ Attr[p].quality >= policy.minQuality
  /\ MaxOf(b, Attr[p].offline * policy.weight) <= policy.deadline

EligibleProfiles(t) ==
  {p \in Profiles : Eligible(p, MaxOf(Attr[p].offline, online[p]), t)}

Better(a, b, preferQuality) ==
  \/ preferQuality /\ Attr[a].quality > Attr[b].quality
  \/ /\ preferQuality => Attr[a].quality = Attr[b].quality
     /\ \/ Attr[a].utility > Attr[b].utility
        \/ /\ Attr[a].utility = Attr[b].utility
           /\ Attr[a].p99 < Attr[b].p99

(* select_best: ties go to the first in the registry's unordered_map, an   *)
(* order the code does not fix.                                            *)
Best(E, preferQuality) ==
  {p \in E : \A q \in E : ~Better(q, p, preferQuality)}
------------------------------------------------------------------------------
(***************************************************************************)
(* observe                                                                 *)
(***************************************************************************)
(* Deviation: the window is not trimmed. *)
PushMissUntrimmed(miss) == missWindow' = Append(missWindow, miss)

PushMiss(miss) ==
  LET pushed == Append(missWindow, miss)
  IN  missWindow' = IF Len(pushed) > policy.missWindow THEN Tail(pushed)
                                                       ELSE pushed

ObserveStale ==
  /\ policy.failStale
  /\ SetFailClosed("INPUT_STALE")
  /\ UNCHANGED <<now, policy, profileVars, switchVars, pinVars, frameVars>>

(* The failed frame carries latency zero, so it never counts as a miss.    *)
(* set_degraded leaves Recovering, so the recovery streak is not touched.  *)
ObserveFailure(t) ==
  /\ failures[active] < MaxFailures
  /\ healthy' = healthy \ {active}
  /\ failures' = [failures EXCEPT ![active] = @ + 1]
  /\ cooldown' = [cooldown EXCEPT ![active] = t + Cooldown]
  /\ PushMiss(FALSE)
  /\ SetDegraded
  /\ UNCHANGED <<now, policy, warmed, online, switchVars, pinVars,
                 recoverStreak, escalation>>

(* signal is the confidence signal relative to the escalation threshold.   *)
Signals == {"absent", "low", "high"}

Escalate(signal) ==
  escalation' = IF policy.escalation /\ signal # "absent" THEN signal = "low"
                                                          ELSE escalation

ConfirmRecovery(miss) ==
  IF health # "Recovering" THEN UNCHANGED <<recoverStreak, healthVars>>
  ELSE IF miss THEN recoverStreak' = 0 /\ UNCHANGED healthVars
  ELSE IF recoverStreak + 1 >= policy.recover
       THEN recoverStreak' = 0 /\ SetReady
       ELSE recoverStreak' = recoverStreak + 1 /\ UNCHANGED healthVars

ObserveSuccess(latency, bound, signal) ==
  /\ healthy' = healthy \cup {active}
  /\ online' = [online EXCEPT ![active] = bound]
  /\ PushMiss(latency > policy.deadline)
  /\ Escalate(signal)
  /\ ConfirmRecovery(latency > policy.deadline)
  /\ UNCHANGED <<now, policy, warmed, failures, cooldown, switchVars, pinVars>>

(* A stale frame fails closed when the policy says so and is an ordinary   *)
(* frame otherwise.  The frame is credited to the profile that is active   *)
(* now, and to none when a concurrent evaluation deselected it.            *)
Observe(t, stale, ok) ==
  IF stale /\ policy.failStale THEN ObserveStale
  ELSE IF active = None THEN UNCHANGED vars
  ELSE IF ok THEN \E latency \in Latencies, bound \in Bounds, signal \in Signals :
                    ObserveSuccess(latency, bound, signal)
             ELSE ObserveFailure(t)
------------------------------------------------------------------------------
(***************************************************************************)
(* evaluate_switch: one action per return path.                            *)
(***************************************************************************)
(* Deviation: the pinned profile is not checked. *)
PinServesUnchecked(t) == pinned # None /\ pinExpires > t

(* A live pin wins while its profile is eligible on the offline envelope   *)
(* alone; the online latency bound is not consulted.                       *)
PinServes(t) ==
  /\ pinned # None
  /\ pinExpires > t
  /\ Eligible(pinned, Attr[pinned].offline, t)

DropExpiredPin(t) ==
  IF pinned # None /\ pinExpires <= t
  THEN pinned' = None /\ pinExpires' = 0
  ELSE UNCHANGED pinVars

SwitchTo(p, t) == active' = p /\ activeSince' = t

EvaluatePinned(t) ==
  /\ PinServes(t)
  /\ IF active = pinned THEN UNCHANGED <<switchVars, healthVars>>
     ELSE /\ SwitchTo(pinned, t) /\ SetReady
          /\ UNCHANGED <<promotionStreak, demotionStreak>>
  /\ UNCHANGED <<now, policy, profileVars, pinVars, frameVars>>

(* Deviation: the active profile is not dropped. *)
EvaluateNoEligibleKeepingActive(t) ==
  /\ EligibleProfiles(t) = {}
  /\ IF policy.failNoEligible THEN SetFailClosed("NO_ELIGIBLE_PROFILE")
                              ELSE UNCHANGED healthVars
  /\ UNCHANGED switchVars

EvaluateNoEligible(t) ==
  /\ EligibleProfiles(t) = {}
  /\ IF policy.failNoEligible THEN SetFailClosed("NO_ELIGIBLE_PROFILE")
                              ELSE UNCHANGED healthVars
  /\ active' = None
  /\ UNCHANGED <<activeSince, promotionStreak, demotionStreak>>

EvaluateStartup(t, best) ==
  /\ active = None
  /\ SwitchTo(best, t) /\ SetReady
  /\ UNCHANGED <<promotionStreak, demotionStreak>>

(* Deviation: keeping the profile lifts every hold. *)
EvaluateStableReleasing(best) ==
  /\ active = best
  /\ promotionStreak' = 0 /\ demotionStreak' = 0
  /\ IF health \in {"Ready", "Recovering"} THEN UNCHANGED healthVars
                                           ELSE SetReady
  /\ UNCHANGED <<active, activeSince>>

(* The active profile is the best one: the code stays fail-closed here, and *)
(* otherwise returns to Ready.                                              *)
EvaluateStable(best) ==
  /\ active = best
  /\ promotionStreak' = 0 /\ demotionStreak' = 0
  /\ IF health \in {"FailClosed", "Ready", "Recovering"}
     THEN UNCHANGED healthVars
     ELSE SetReady
  /\ UNCHANGED <<active, activeSince>>

DeadlineRisk ==
  Cardinality({i \in DOMAIN missWindow : missWindow[i]}) >= policy.missThreshold

MustDemote(t) ==
  DeadlineRisk \/ active \notin EligibleProfiles(t) \/ active \notin healthy

(* Deviation: the confirmations are not counted. *)
EvaluateDemotionUncounted(t, best) ==
  /\ active \notin {None, best}
  /\ MustDemote(t)
  /\ promotionStreak' = 0
  /\ IF demotionStreak + 1 > policy.demote
     THEN SwitchTo(best, t) /\ demotionStreak' = 0 /\ SetDegraded
     ELSE UNCHANGED <<active, activeSince, demotionStreak, healthVars>>

EvaluateDemotion(t, best) ==
  /\ active \notin {None, best}
  /\ MustDemote(t)
  /\ promotionStreak' = 0
  /\ IF demotionStreak + 1 >= policy.demote
     THEN SwitchTo(best, t) /\ demotionStreak' = 0 /\ SetDegraded
     ELSE /\ demotionStreak' = demotionStreak + 1
          /\ UNCHANGED <<active, activeSince, healthVars>>

WorthPromoting(t, best) ==
  /\ t - activeSince >= policy.dwell
  /\ Attr[best].utility > Attr[active].utility

EvaluatePromotion(t, best) ==
  /\ active \notin {None, best}
  /\ ~MustDemote(t) /\ WorthPromoting(t, best)
  /\ demotionStreak' = 0
  /\ IF promotionStreak + 1 >= policy.promote
     THEN SwitchTo(best, t) /\ promotionStreak' = 0 /\ SetReady
     ELSE /\ promotionStreak' = promotionStreak + 1
          /\ UNCHANGED <<active, activeSince, healthVars>>

EvaluateKeep(t, best) ==
  /\ active \notin {None, best}
  /\ ~MustDemote(t) /\ ~WorthPromoting(t, best)
  /\ promotionStreak' = 0
  /\ UNCHANGED <<active, activeSince, demotionStreak, healthVars>>

EvaluateUnpinned(t) ==
  /\ ~PinServes(t)
  /\ DropExpiredPin(t)
  /\ \/ EvaluateNoEligible(t)
     \/ \E best \in Best(EligibleProfiles(t), escalation) :
          \/ EvaluateStartup(t, best)
          \/ EvaluateStable(best)
          \/ EvaluateDemotion(t, best)
          \/ EvaluatePromotion(t, best)
          \/ EvaluateKeep(t, best)
  /\ UNCHANGED <<now, policy, profileVars, frameVars>>

EvaluateSwitch(t) == EvaluatePinned(t) \/ EvaluateUnpinned(t)
------------------------------------------------------------------------------
(***************************************************************************)
(* The remaining methods.                                                  *)
(***************************************************************************)
MarkProfileWarmed(p) ==
  /\ p \notin warmed
  /\ warmed' = warmed \cup {p}
  /\ UNCHANGED <<now, policy, healthy, failures, cooldown, online, switchVars,
                 pinVars, frameVars, healthVars>>

RequestPin(p, t, seconds) ==
  /\ 0 < seconds /\ seconds <= policy.pinMax
  /\ pinned' = p /\ pinExpires' = t + seconds
  /\ UNCHANGED <<now, policy, profileVars, switchVars, frameVars, healthVars>>

ClearPin ==
  /\ pinned # None
  /\ pinned' = None /\ pinExpires' = 0
  /\ UNCHANGED <<now, policy, profileVars, switchVars, frameVars, healthVars>>

Certified == {p \in Profiles : Attr[p].certified}

RequestRecovery ==
  /\ health \in {"FailClosed", "Degraded"}
  /\ BeginRecovery
  /\ recoverStreak' = 0
  /\ healthy' = healthy \cup Certified
  /\ failures' = [p \in Profiles |-> IF p \in Certified THEN 0 ELSE failures[p]]
  /\ cooldown' = [p \in Profiles |-> IF p \in Certified THEN 0 ELSE cooldown[p]]
  /\ UNCHANGED <<now, policy, warmed, online, switchVars, pinVars, missWindow,
                 escalation>>

(* An invalid policy is refused and the old one stays.  The estimators are *)
(* not rebuilt.                                                            *)
UpdatePolicy(next) ==
  /\ ValidPolicy(next)
  /\ policy' = next
  /\ missWindow' = <<>>
  /\ UNCHANGED <<now, profileVars, switchVars, pinVars, recoverStreak,
                 escalation, healthVars>>

Tick ==
  /\ now < MaxTime
  /\ now' = now + 1
  /\ UNCHANGED <<policy, profileVars, switchVars, pinVars, frameVars, healthVars>>

Next ==
  \/ Tick
  \/ \E p \in Profiles : MarkProfileWarmed(p)
  \/ \E t \in 0..now : EvaluateSwitch(t)
  \/ \E stale, ok \in BOOLEAN : Observe(now, stale, ok)
  \/ \E p \in Profiles, seconds \in PinSeconds : RequestPin(p, now, seconds)
  \/ ClearPin
  \/ RequestRecovery
  \/ \E next \in Policies : UpdatePolicy(next)

Spec == Init /\ [][Next]_vars
------------------------------------------------------------------------------
(***************************************************************************)
(* Properties.                                                             *)
(***************************************************************************)
(* Fail-closed and the control hold agree.  Whenever the published state is *)
(* FailClosed the hold is asserted, and a hold is only ever asserted in a   *)
(* state the operator can recover from (request_recovery accepts FailClosed *)
(* and Degraded only): a hold in Ready, Recovering or Starting could never  *)
(* be lifted by request_recovery.                                           *)
HoldIsRecoverable ==
  /\ health = "FailClosed" => HoldActive
  /\ HoldActive => health \in {"FailClosed", "Degraded"}

(* A NO_ELIGIBLE_PROFILE hold means that no profile is selected: every path *)
(* of evaluate_switch that selects a profile again also lifts that hold,    *)
(* except a demotion, which cannot start without an active profile.         *)
NoEligibleHoldHasNoProfile ==
  holdReason = "NO_ELIGIBLE_PROFILE" => active = None

(* When every policy fails closed on an empty eligible set, Ready and       *)
(* Degraded are only published while some profile is selected.              *)
ReadyHasProfile ==
  (\A q \in Policies : q.failNoEligible)
    => (health \in {"Ready", "Degraded"} => active # None)

(* Only certified and warmed profiles are ever active, whatever pins, policy *)
(* updates and recoveries were requested.                                   *)
ActiveIsServable ==
  active # None => active \in warmed /\ Attr[active].certified

(* A step that makes another profile active picks one that is out of its    *)
(* cooldown, meets the quality floor and whose offline envelope meets the   *)
(* deadline, judged by the state at that moment.                            *)
SwitchTargetMeetsPolicy ==
  [][active' \notin {active, None} =>
       \E t \in 0..now : Eligible(active', Attr[active'].offline, t)]_vars
==============================================================================
