# TLA+ verification of PerceptShift

PerceptShift selects, frame by frame, which certified inference profile may run
so that perception meets its deadline, and asks the control stack to hold when
none may. A forge produces those profiles: it quantizes, benchmarks, certifies
and packages models. This directory holds TLA+ models of the program, the TLC
configurations that check them on small instances, and TLAPS proofs of the
results that hold for every instance. `PROJECT.json` maps every definition to
the lines it models and lists runs, mutants, findings, hazards and theorems.

## The system and its parts

| Part | State it keeps | Operations | Talks to | What makes it correct | Modelled |
|------|----------------|------------|----------|-----------------------|----------|
| Health machine (`health_machine.cpp`) | health, hold and its reason | set_ready, set_degraded, set_fail_closed, begin_recovery, clear_control_hold | owned by the controller | hold and state agree | `HealthMachine` |
| Controller (`controller.cpp`, `eligibility.cpp`) | active profile, pin, streaks, miss window, per-profile health, cooldown and failures, policy | mark_profile_warmed, observe, evaluate_switch, request_pin, clear_pin, request_recovery, update_policy | engine, ROS services | only servable profiles are active; switches meet the policy; a hold is truthful and recoverable | `Controller` |
| Runtime engine (`runtime_engine.cpp`) | phase, session pool, frame under way | configure, load_and_warmup, execute_frame | controller, sessions, bundle loader | a frame runs on the profile it is credited to; a bad profile is given up | `RuntimeEngine`, `EngineContract` |
| ROS node (`runtime_node.cpp`) | lifecycle, latest-frame slot, worker thread, reported health and hold, latched hold topic | lifecycle transitions, on_image, worker loop, services | engine, robot, API | a reported hold is on the topic; no thread loses its engine; deactivation ends | `RuntimeNode` |
| Forge orchestration (`orchestration/`) | run directory: run.json, run.lock, pipeline.json, evidence files, bundle | run, resume, bench workers, eleven pipeline steps | file system, child processes | what is recorded is true after any crash; only certified profiles are packaged; one executor | `RunLock`, `RunIndex`, `ForgeRun`, `CandidateEvidence` |
| Forge datasets and stream (`datasets/`) | manifests, dataset_stream/ with its files and roles | validate, isolate splits, materialize, pick calibration and evaluation entries | quantization, bench workers, evaluation | no image is on both sides; an output is graded against the label of its own image | `BenchStream`, `CandidateEvidence` |
| Candidates, evaluation, certification (`candidates/`, `evaluation/`, `certification/`, `orchestration/evaluate.py`, `quantize_step.py`) | statuses, trials, outputs, quality and certification files of the run | generate, quantize, benchmark, evaluate, certify, select | orchestration, bench workers | what is compared is comparable; what is certified meets the configuration | `CandidateEvidence`, `Certification`; frontier in `ForgeRun` |
| Run index (`runs/storage.py`, `hashing.py`) | index.json and its temporary file, shared by all runs of a user | index_run | file system | no finished run is lost | `RunIndex` |
| Bundle tools and loader (`bundle.py`, CLI `bundle`, `bundle_loader.cpp`) | bundle directory, import target | create, verify, inspect, sign, mac, import, load | forge, engine, CLI | a finished packaging verifies; an import is all or nothing; tools and node agree | `ProfileBundle`, `BundleDelivery` |
| API ROS bridge (`ros_bridge.py`, `app.py`, mutations of `routers/`) | connection and reason, copied hold, pin and deadline, service calls under way | start, stop, executor loop with its callbacks, graph refresh, service calls with timeouts | node, event loop, request threads, telemetry hub | the view converges to the node's; no thread waits for ever; a dead bridge says so | `RosBridge` |
| Telemetry hub and console (`telemetry.py`, `routers/telemetry.py`, `useTelemetrySocket.ts`) | sequence, cache, a bounded queue per subscriber; the hook's socket and gap count | publish, subscribe, stream, unsubscribe; connect, receive, reconnect | bridge, web console | queues hold the newest events, losses are counted, slots are freed | `TelemetryHub` |
| API auth, audit, routers | mutation window, audit rows | rate limit, token check, mutations | bridge, database | at most the limit per window; every mutation audited | planned |
| Latency estimator (`latency_estimator.cpp`) | sample window | record, bound | controller | the bound is conservative | planned as operators |
| CLI, web console, scripts, deployment | presentation | | API, forge, native applications | | no |

What is hard in this code: the controller's decisions depend on the order of
calls made by two threads that share it without a lock; a frame is evaluated at
its receive time, which lags behind times already observed; a hold, a health
state and a selected profile are three pieces of state that must agree; the node
republishes a copy of the engine's hold on a latched topic from four threads;
forge runs are killed between any two writes and resumed by a process that
trusts what is recorded; two processes may pass the lock's check together; the
bridge's thread publishes into an event loop that may be blocked on the lock it
holds; a service call that timed out may still be applied; a stream only learns
of a lost console by a send that raises, and a handler that fails early leaves its
slot behind; verification, signing and import read a
directory file by file while a packager rewrites it; a run that is resumed
measures in a new session beside what earlier ones left; identities are lost on
the way from manifest entries through file names to graded outputs.

## Modules

`HealthMachine` has one operator per method of the C++ class and is extended by
both `Controller` and `EngineContract`.

`Controller` has one action per public method. `evaluate_switch` is the
disjunction of its return paths (`EvaluatePinned`, `EvaluateNoEligible`,
`EvaluateStartup`, `EvaluateStable`, `EvaluateDemotion`, `EvaluatePromotion`,
`EvaluateKeep`), `observe` of its branches. Time is a tick counter and callers
pass timestamps that may lag behind it. Latencies and the estimator's bound are
arbitrary members of small sets: whatever the estimator computes, the controller
must cope with it. It starts with any policy, as the code does not validate the one
it starts with, and takes valid ones only from `update_policy`. Ties in `select_best` are broken by the iteration order of an
unordered map, so the model allows each of the best profiles.

`RuntimeEngine` extends the controller by the phases of start-up and splits a
frame at the points where inference runs: `StartFrame`, `FinishInference` or
`AbandonFrame`, `Settle`. `EngineSpec` lets service calls come between frames,
`ConcurrentSpec` at any moment, which is what the node's thread structure allows.

`EngineContract` is the abstract specification: which profile is active, health,
hold and the frame under way, with the decision rules left open.
`RuntimeEngine` implements it (`EngineImplementsContract`), and `RuntimeNode` is
built on it instead of on the whole controller.

`RuntimeNode` models the node's threads: lifecycle transitions (each cut where
another thread can see the difference), the image callback, the worker with its
condition variable, and the service callback group, which is mutually exclusive
and so a single thread of calls. `topic` is the last message of the latched
`~/control_hold_request`. `publish_control_hold` stores the reported hold and then
publishes it, with no lock: where another publisher may run in between, the two
are steps of their own (`ActivateStore` and `ActivatePublish`, `WorkerAnnounce` and
`WorkerRequest`, `Shutdown` and `ShutdownPublish`). `crossed` is a history variable:
the topic holds a release that an activation published over a reported hold.

`RunLock` is the lock file protocol: a check, a separate write, a release that
unlinks whatever is there, a death that leaves the file behind. `ForgeRun`
extends it by the pipeline. The eleven steps are recorded in order, so a number
stands for pipeline.json; a step that leaves several files which later steps read
has an action per write, or, for a trial and its status, an action that may be cut
between them (`LeaveWorker`). A process's memory (`mem`) is a record of its
own, because the code mixes values it computed with values it reads back.
`raced` is a history variable: some process overwrote the lock of a live one;
`overtaken` is another: a resumed process took the lock between the creator's
run.json and the creator's own lock.
`RunIndex` is the index that every finishing run rewrites through one temporary
name: two writers that overlap share the temporary file, and a rename publishes
the file the other has open (`handle`). `ForgeRun` extends it too: a run may be
killed between any two of its steps, and other runs finish meanwhile.

`BenchStream` (no variables) has the datasets as sequences of items, an id, a
content and a label each: validation by the three adapters, the comparison of the
splits, the entries of the stream with the ids they are given, roles and file
names, and its repetitions. An item without an id, and an image whose id is 0,
takes a generated one (`Named`). `Certification` has the thirteen gates over the
context that certification collects; those on schema, integrity, model and artifacts
are one fact about the candidate (`IsSound`). `CandidateEvidence` uses both: the steps of a run
from the environment capture to certification with what each leaves on disk
(`files`, `trials`, `rows`, `detections`, `status`, `environment`, `evaluation`,
`certified`), a session's memory (`start`, `pending`, `current`) and failures and
kills between any two steps, after which a new session goes on from the record.
`answers`, `session` and `drift` of a trial are ghosts: the outputs the
worker gave, the session it ran in and the drift the code compared. `rows` and
`detections` are functions over the candidates whose file has been written so far.
The module assumes what the configuration schema demands (a degradation is not
negative) and that markers such as `None`, `Silent` and `Unavailable` are not
values the program computes. Where
`ForgeRun` keeps one number per measurement and asks what a crash does to the
pipeline, this module asks what the numbers are worth.

`ProfileBundle` is the bundle directory as a function from paths to contents,
with one packager and several clients that call the tools, each read and each
write a step of its own. A forge run packages attestations with each profile and
`bundle create` packages one profile without; the manifest tells which wrote it. One
attestation stands for the two files of a profile. Files that are written atomically leave
`<path>.tmp` behind when they are cut; a model is copied in place and can be
torn. A client that is at work when somebody writes to the source is
`disturbed`. `BundleDelivery` is the abstract specification of an import: one
verified directory, at once and for good. `ProfileBundle` implements it
(`ImportIsDelivery`) with the target visible only to those who were told that an
import succeeded.

`TelemetryHub` takes the hub's methods as single steps (they hold an asyncio lock
and never await inside) and cuts the stream handler of a socket at each of its
awaits: `Subscribe`, `Accept`, `Announce`, `SendHello`, `TakeEvent`,
`SendEvent`, `Unsubscribe`. The first two awaits come before the handler's try:
when they raise (`FailEarly`) the subscription stays for good. A send reaches the
page, or is buffered for a page that has gone, or raises; once the server knows
that the page has gone (`NoticeClosed`), it raises. `Connect`, `LoseConnection`,
`Leave` and `Receive` are the hook of the console. An event is its sequence number.
`settled` and `hellos` are history variables: the events a subscription no longer
waits for, and the hello frames a page has counted. `told` is the number of drops
that a frame carries, which counts those of the subscription twice, as the code
does.

`RosBridge` has three kinds of threads: the event loop (`loop`), the executor
thread of the bridge (`thread`, one value per place where it can be seen to
wait) and the request threads (`call`). A publication is scheduled on the loop
(`pending`) while the executor thread waits for it, in one place with the
bridge's lock held (`announcing`); readers of the state wait for that lock
(`LockFree`). A caller gives up after its timeout at any moment and its call may
still be applied (`abandoned`). The node is reduced to what the bridge sees of
it, hold, deadline and messages; `RuntimeNode` models it in full. Both directions
of disorder are there: a response and the message that contradicts it arrive in
either order, and a callback may find a message that is already outdated.
`unsynced` is a history variable: policy calls have overlapped, been abandoned
or lost their node.

The MC modules only give constants their values. In each module the operators
whose comment describes a deviation (`PushMissUntrimmed`, `TakeLockUnchecked`,
...) belong to no specification: they are the mutants that show that a property
can fail.

## Runs

| Run | Specification | What it shows |
|-----|---------------|---------------|
| `runtime_engine` | `ConcurrentSpec` | Controller and engine keep their types. Hold, health and active profile agree (`HoldIsRecoverable`, `NoEligibleHoldHasNoProfile`); only certified, warm profiles are active; every switch meets the policy of the moment; the engine implements its contract under calls at any moment. |
| `engine_liveness` | `LiveSpec` | With calls between frames, a frame runs on the profile it is credited to and never under a hold; an active profile that is not eligible is given up when another one is. |
| `runtime_node` | `NodeLiveSpec` | A worker never loses its engine; a reported hold is on the topic unless a release crossed it; an engine hold is announced; deactivation ends in spite of the unlocked notification. |
| `forge_run` | `LiveForgeSpec` | One process at a time, two faults anywhere, another run that finishes meanwhile: every recorded step holds, the packaged certification is the one for the published latency, the index loses no run unless writers overlap, and a process without a fault completes the run from whatever was left. |
| `forge_two` | `ForgeSpec` | Two processes and one fault: the lock protocol is kept, and without a race one process at a time works on the run. |
| `telemetry` | `LiveHubSpec` | A console and what is left of its earlier connections compete for two slots: queues of two hold the newest events in order, every event is queued, taken or counted as dropped, slots belong to handlers, also to those that failed early, the gaps the console shows are explained, and a handler that has something to send to a socket known to be closed frees its slot. |
| `ros_bridge` | `LiveBridgeSpec` | Start-up and shutdown get past the lock and the join, every mutation answers, the hold shown converges to the node's, the deadline shown is the node's unless policy calls overlapped or were given up, and a bridge without a thread is disconnected. |
| `profile_bundle` | `BundleSpec` | Forge packagings and `bundle create` over each other, beside signing, MACing, two imports into one target and a kill: a packaging that ends leaves a bundle that verifies (unless a foreign model or an old signature was there), the node accepts what the tools accept (but for a signature, a MAC, a left temporary file or attestations that `bundle create` does not list), and the imports implement their abstract specification. |
| `candidate_evidence` | `EvidenceSpec` | Failures and kills in two sessions: calibration and evaluation stay apart, trials that are compared are of one session, within the drift of its recorded start, with their own outputs and detections, a quality on record is that of the worker's answers to the images themselves, and a certified candidate meets the configuration by what its own trial measured. |

The other three runs show that what a document or a comment of the repository
says does not hold of the code:

| Run | Finding |
|-----|---------|
| `fail_closed_until_recovery` | A stale-input hold is lifted by a demotion followed by an ordinary evaluation, by a promotion or by a pin, without an operator recovery. The evaluation inside the very frame that was stale can do it. |
| `baseline_is_copied` | A kill during the copy of the baseline leaves a truncated file that the resumed run records as the model. |
| `pin_follows_responses` | The API drops the pin it shows when a profile message arrives, without any service response: the node never fills the message's pin field. |

More weaknesses are listed as hazards, as no document promises otherwise:

* an accepted recovery leaves the latched topic requesting a hold; a release that
  `on_activate` publishes can cross the worker's request and stay on the topic under
  a reported hold until the worker refuses another frame;
* two processes that race for the lock can package what the certification record
  rejects; a creator that has written run.json but not yet its lock can be overtaken
  by a resumed process that finishes the run, after which the creator starts the run
  again from an empty record over the finished bundle (the attempt to prove
  `RecordedStepsHold` found this, which needs no overlap inside the lock);
* a resumed session compares temperatures with that of the last capture, whatever
  the host's is when it begins;
* a stream handler whose `accept` or announcement raises leaks its slot; one whose
  console has gone keeps it until a send raises; the number of drops told to a
  console counts its own twice;
* a signature covers the digest as it is after the verification, which another
  packaging may have replaced; `bundle create` over a forge packaging makes a bundle
  that the tools accept and the node refuses;
* the detections on an evaluation image with id 0 are not counted.

Some properties exempt situations in which the code does not keep them; each is
named in the property and in its hazard: a race for the lock, a creator that was
overtaken, overlapping index writers, overlapping policy calls, a release that
crossed a request, a directory that is written to while an import works on it,
leftovers of other packagings, two ids with one file name and, with detections, one
image id in both sets or an evaluation image with id 0 (`Confused`).

### Bounds, and why they are enough

* Engine: two profiles, the slower one of higher quality and utility; the fast one
  is what a missed deadline or a tighter policy demotes to, so both promotion and
  demotion occur. Three policies: both profiles
  meet the first deadline, only the fast one the second, which also escalates on
  low confidence, takes stale frames for ordinary ones and gives a profile up
  after a single failure; the third can only be started with, as an update would
  refuse it. Latencies and bounds lie on either side of both
  deadlines. `MaxTime` 1 covers a dwell, a cooldown and a pin that run out, as
  each lasts one tick; `MaxFailures` caps the failure count, the only unbounded
  counter. The stale-hold run uses `MaxTime` 2 and `MaxFailures` 2.
* Node: no bound; the state space is finite.
* Forge: two models, one of them quantized; a latency on either side of the
  deadline, so that candidates dominate each other; `MaxFaults` bounds kills,
  failures and interrupts together: two let a resumed process be killed as well.
  With two processes one model, one latency and one fault keep the product
  small, and the two are interchangeable (symmetry); the theorems hold for any
  number of processes, models and faults. One more writer of
  the index is enough for every overlap of two.
* Telemetry: one console, three connections and two slots, so that it is refused when
  handlers of its earlier connections hold the slots; queues of two, so that order
  and holes can go wrong, and a cache of one; `MaxSequence` 2 bounds the events of
  the bridge and the sockets that are opened; with the announcements of two
  connections this overflows a queue. Subscriptions do not see which page they
  serve, and the drops of all count in one total. The theorems hold for all sizes.
* Bridge: one request thread with the two mutations whose effects can be undone
  by others, policy and recovery. A thread leaves one abandoned call behind at
  most, and a topic keeps its last message only, a bound of the model: the
  bridge's queues are longer, but every callback overwrites what the one before
  it wrote. Nodes come and go without bound. With one request thread
  calls overlap only as an abandoned one and its successor. The pin run uses `pin`
  and `clear_pin`.
* Bundle: two packagings of one profile or of two, with attestations or without, so
  that one packages over the leftovers of another or of a killed one; one kill; two
  clients that import, one of which also makes the other calls; of the packager and
  the clients two are at work at a time (`TwoAtWork`). The theorems hold for any
  number of each.
* Evidence: three candidates, one of them quantized and sorted before the two
  variants of the baseline; two contents; two sessions, so that one finds what
  another left; fourteen configurations, one for each kind of dataset and limit, two
  of them with an id 0.
  Contents and readings are chosen to lie on either side of each limit. All four
  properties are proved for every dataset and configuration.

### Fairness

* `LiveSpec`: images keep arriving, so frames keep starting; inference returns
  (it waits for no other thread); the clock advances. Nothing is assumed of
  operators. Services come between frames in this run.
* `NodeLiveSpec`: weak fairness of each thread that can run, as the operating
  system schedules them; strong fairness of the image callback's queueing,
  which competes with the worker for a mutex that the worker keeps giving up
  while it sleeps; and a camera that keeps sending. No operator action, neither
  transition nor service call, has to happen.
* `LiveForgeSpec`: a running process keeps running, which includes the worker's
  timeout. Nobody has to resume a run: `CrashedRunIsResumable` speaks of a
  process that has started and meets no fault of its own.

* `LiveHubSpec`: the event loop keeps running the handlers, and a send returns or
  raises in the end. No event has to be published, no console has to reconnect, and
  the server need not notice that a page has gone.
* `LiveBridgeSpec`: the event loop and the executor thread run; a thread that
  waits for the bridge's lock gets it, since it is free during most of each round
  (strong fairness of `ReadState` and `Accepted`); the executor comes to each
  callback that stays ready (strong fairness of the two that write the hold); a
  caller's timeout runs out; a node that is up publishes its health. The node
  need not answer a call, nor appear.

Deadlock is not checked for the engine and the node: the engine model ends with
its clock, and a node that is shut down stops. Nor for the telemetry model, which
ends with its bound, the bridge, which is stopped for good, and the evidence
model, which ends with its sessions. The forge and bundle runs check it: a run
can always be resumed, a tool always be called.

## Proofs

All theorems are for every value of the constants, from the named assumptions
(`ProfilesAssumption`, `PoliciesAssumption`, `BoundsAssumption`,
`NoneAssumption`, `LockAssumption`, `IndexAssumption`, `ForgeAssumption`,
`HubAssumption`,
`BridgeAssumption`, `BundleAssumption`, `EvidenceAssumption`), which TLC evaluates
on the instances.

* `ControllerProofs`: `TypeCorrect`. Its invariant is inductive as it stands,
  except that the miss window stays within the policy only because
  `update_policy` clears it, which `PolicyWindow` and `PushKeepsType` isolate.
  `Safety` is the conjunction of the four invariants; none is inductive alone.
  That a demotion keeps a hold without breaking `NoEligibleHoldHasNoProfile`
  needs that invariant itself in the previous state, where the active profile
  of the demotion rules the reason out. Its corollaries are
  `HoldIsAlwaysRecoverable`, `NoEligibleHoldIsTruthful`,
  `ReadyAlwaysHasProfile` and `ActiveIsAlwaysServable`. `SwitchesMeetPolicy` is
  an action property: whichever path selects, the target is eligible on its
  offline envelope, because dropping the online bound only relaxes eligibility
  (`OfflineEligible`).
* `EngineProofs`: `EngineImplementsController` (every step of the engine is a
  controller step or leaves it alone, given that a frame's receive time is not
  ahead of the clock, `FrameInv`), so the theorems above hold inside the engine
  with calls at any moment; `EngineKeepsContract`, step by step through every
  return path; `EngineTypeCorrect`, on the controller's `TypeCorrect`;
  `FrameAlwaysRunsOnActive` for calls between frames. The last one is false for
  calls during a frame.
* `RuntimeNodeProofs`: `WorkerAlwaysHasEngine` from `EngineInv`, which adds in
  which lifecycle points the engine is ready and the worker exists;
  `ReportedHoldIsAlwaysOnTopic` from `TopicInv`, which adds that the publishers
  are activated, that an accepted frame never carries a hold, and which publisher,
  between its store and its message, may hold a message back. `NodeTypeCorrect`: to the
  engine inside it every step of the node is a step of `EngineContract`, the
  construction of a new engine or nothing.
* `ForgeProofs`: `OneExecutor` and `LockIsNeverOrphaned` from `LockInv`, which
  says that without a race a process at work is the one the lock names;
  `ForgeImplementsLock` shows that every pipeline step, failure and kill
  refines the protocol, and so `ForgeHasOneExecutor`. In the same way
  `ForgeImplementsIndex` shows that a run rewrites the index only as `RunIndex`
  says, from which `IndexAlwaysGrows` follows: without overlapping writers no
  step takes a run out of the index. `ForgeTypeCorrect`.
  `RecordedStepsAlwaysHold` and `PackagedAlwaysMatchesEvidence` rest on `RunInv`.
  What is recorded of a step does not imply that the next one works: the files
  that a step still has to overwrite may be an earlier attempt's (`LeftoverInv`),
  a loop has done exactly the items that are not in `todo` (`LoopInv`), and what a
  process carries in memory was read off files that nobody has changed since
  (`MemoryInv`). The last part needs that one process works at a time, so
  everything is conditional on `~raced`; and `StartInv` says where the creator
  can be, which is where the attempt failed until `overtaken` was told apart.
* `HubProofs`: `HubTypeCorrect`, `QueueAlwaysHoldsNewest`, `EveryEventIsAlwaysAccounted` and
  `SlotsAlwaysFollowHandlers`, together one inductive invariant with the types.
  They need each other: that a push onto a full queue drops exactly one element
  rests on the queue never being longer than its limit (`PushedQueue`), and the
  accounts rest on the same distinction. `PublicationKeepsQueues` serves both
  callers of publish. `GapsAreAlwaysExplained` needs an account (`GapInv`) of which
  drops and hello frames have been counted as a gap and which are still ahead:
  a gap that the next event will show has been paid for by then.
* `BridgeProofs`: `BridgeTypeCorrect`; `ReasonAlwaysMatchesConnection` and
  `EndedBridgeIsAlwaysDisconnected` from `BridgeInv`, which adds that a bridge
  without a thread was never connected and that a stopped one has lost its thread
  (the join); `DeadlineIsAlwaysTheNodes` from `DeadlineInv`: as long as no policy
  calls overlapped, the node is ahead of the deadline shown by exactly the one
  call it has accepted whose answer nobody has looked at.
* `BundleProofs`: `ImportImplementsDelivery` from
  `ReaderInv`, which says of each undisturbed client which files it has found
  intact and which it has copied so far; a complete copy of a directory that
  verifies verifies (`CompleteCopyVerifies`). `PackedBundleAlwaysVerifies` from
  `PackerInv`: the inventory a packager carries lists exactly the profiles it has
  described, each as it is on disk. `BundleTypeCorrect` rests on both.
  `VerifiedBundleAlwaysLoads` from `PairsInv`: a profile or an attestation is
  written only after its model, models are never removed, and a manifest that lists
  the model lists the profile, and the attestation when a forge run wrote it. It does not need packaging to be over, as the property grants.
* `EvidenceProofs`: `EvidenceTypeCorrect`; `TrialsAreAlwaysComparable` from
  `TrialsInv`, by which a benchmark in progress has trials of its own session only
  for the candidates it has come to, and none counts as measured before its
  outputs are saved; `CalibrationIsAlwaysSeparate` from `InputsInv`, which follows
  a content from the dataset into the stream, its file and the calibration. It
  needs that a path carries the role, so that two ids with one file name only
  overwrite each other within a split, and that repetitions are of the evaluation
  split (`CalibrationEntry`).

  `QualityIsAlwaysMeasured` has two halves. One is about the order of events: the
  stream and its files are the dataset's (`StreamInv`), every variant of the
  baseline has been generated and so is measured (`Generated`), and each
  evaluation on record is what the files now on record give (`EvaluationInv`),
  as nothing a grade rests on changes once the benchmark is recorded (`Settled`).
  The other is about one state: entry `k` of the graded part of the stream is of
  image `Slot(k)`, also for the repetitions, which go round modulo the number of
  images (`EntryToGrade`, `Repeats`); ids of graded entries differ, so the last row
  with an id is the entry's own (`AnswerOnRecord`); so counting entries is counting
  images (`HitsAreTrue`, `PrecisionIsTrue`), and the baseline that a candidate is
  compared with is the first measured variant (`RecordedIsOnRecord`).
  `CertifiedIsAlwaysEntitled` adds `CertifiedInv`: a certificate is what the gates
  say of the documents on record, and an environment valid with warnings is never
  one of a run that requires a valid environment.

Only model-checked: the liveness properties `EligibleProfileIsFound`,
`HoldIsAnnounced`, `DeactivationCompletes`, `CrashedRunIsResumable`,
`ClosedSocketFreesSlot`, `LoopIsNeverStuck`, `CallsReturn` and `HoldViewConverges`,
as liveness under fairness and `ENABLED` are out of the prover's reach. Every
invariant and every action property that a run checks is stated by a theorem.

## Not modelled

* Data races as such. The controller and the reported health and hold are read
  and written by two threads without a common lock; each call is one step of the
  model, so torn or cached reads are not explored. Nor is the destruction of an
  object while another thread uses it (cleanup against a service call, shutdown
  against the worker).
* Numerical code (latency quantiles, preprocessing, adapters, statistics),
  cryptography, ONNX Runtime, telemetry of the host, parsing and presentation.
  A digest is the text it was computed from.
* The API's authentication, rate limit, audit and database; the web console
  beyond its socket.
* In the node: the reported profile and counters, the periodic health message,
  transitions that throw.
* In the bridge: a join that expires after its five seconds because a callback
  hangs; the health and profile reports and reason codes it only copies,
  and which missing package keeps ROS off. In the hub: the REST views that read
  the cache.
* In the forge: reuse of pids, several hosts on one file system, what two bench
  workers write at once, reports, configuration reading. In `CandidateEvidence`:
  the inspection of a quantized model (see `ForgeRun`), attestations and
  cold-start trials, which nothing reads; shuffling, as any order is allowed; two
  tensors without an id that share a path; an image without an annotation; the two files of the environment capture are one step. Metrics are
  hits among items, and a trial has one latency.
* In the bundle: NOTICE, which nothing compares, what a MAC
  covers, which nothing reads, path checks, the keys that only the standalone
  runtime passes. The content of a file is the number of the packaging that wrote
  it.
* `LatestFrameQueue`: no program uses it.

## Plan

1. The latency bound of `latency_estimator.cpp` as a recursive function, checked
   against a reference definition.
2. Theorems that prepare the liveness properties: the states in which a bridge
   thread waits for the lock or the loop never form a cycle, and a node that has
   to announce a hold has a step that does.
3. The mutation window of the API's rate limit and the audit record beside each
   mutation.
