---------------------------- MODULE Certification ----------------------------
(***************************************************************************)
(* The certification of a candidate (perceptshift_forge/certification):    *)
(* build_certification_context turns the candidate's documents into facts, *)
(* each of them written down as evidence, and thirteen gates judge them.   *)
(*                                                                         *)
(* cfg is the configuration of the run, trial and doc are the trial and    *)
(* the evaluation on record, environment the last one captured.            *)
(***************************************************************************)
EXTENDS Integers

CONSTANTS
  Unavailable,  (* a measurement that the host does not provide            *)
  Unlimited     (* a limit that is not configured                          *)

(* Some requested provider is registered, and the share of the nodes that   *)
(* it runs is known and large enough where the configuration asks for that. *)
ProviderOk(cfg, trial) ==
  /\ trial.registered
  /\ cfg.requireXnnpack => trial.xnnpack # Unavailable /\ trial.xnnpack > 0
  /\ cfg.maxFallback # Unlimited =>
       trial.xnnpack # Unavailable /\ 100 - trial.xnnpack <= cfg.maxFallback

(* The candidate's manifest is valid, and its model is there, has the       *)
(* digest of the manifest and passes the checker.  The gates on schema,     *)
(* integrity, model and artifacts are one fact here, as they fail alike.    *)
IsSound(cfg, model) == model \in cfg.sound

(* A missing fingerprint of the host is only a matter of a run that requires *)
(* a valid environment.                                                     *)
HostOk(cfg, environment) == environment.present \/ ~cfg.requireEnvironment

(* The orchestrator states that every trial it accepts was warmed up.       *)
Context(cfg, model, trial, doc, environment) ==
  [schema      |-> IsSound(cfg, model),
   integrity   |-> IsSound(cfg, model),
   model       |-> IsSound(cfg, model),
   artifacts   |-> IsSound(cfg, model),
   tensor      |-> IsSound(cfg, model) \/ cfg.inputsKnown,
   host        |-> HostOk(cfg, environment),
   provider    |-> ProviderOk(cfg, trial),
   equivalence |-> doc.equivalent,
   quality     |-> doc.ok,
   memory      |-> trial.rss # Unavailable /\ trial.rss <= cfg.maxRss,
   latency     |-> trial.p99 <= cfg.deadline,
   environment |-> environment.status \in {"valid", "valid_with_warnings"},
   warmup      |-> TRUE]

Required(cfg, gate) ==
  /\ gate = "equivalence" => cfg.requireEquivalence
  /\ gate = "environment" => cfg.requireEnvironment

(* Deviation: the quality gate is not asked. *)
PassesMostGates(cfg, context) ==
  \A gate \in DOMAIN context \ {"quality"} : Required(cfg, gate) => context[gate]

(* run_certification_gates and is_certified. *)
PassesGates(cfg, context) ==
  \A gate \in DOMAIN context : Required(cfg, gate) => context[gate]
==============================================================================
