----------------------------- MODULE RuntimeNode -----------------------------
(***************************************************************************)
(* The ROS lifecycle node around the engine                                *)
(* (ros2_ws/src/perceptshift_ros/src/runtime_node.cpp).  Five threads of   *)
(* control meet here, as its MultiThreadedExecutor runs its callback groups*)
(* side by side: the lifecycle transitions, the image callback, the worker,*)
(* the service callbacks (one at a time) and the embedding engine, which   *)
(* takes no lock and is described by EngineContract.  Each action is a     *)
(* stretch of one thread between two accesses another thread can see.      *)
(*                                                                         *)
(* The engine_ pointer is null exactly while phase is unconfigured and no  *)
(* configuration is under way.  The profile the node reports, the counters *)
(* and the periodic health message are left out: no other thread reads     *)
(* them to decide anything.  on_error, which only runs when a transition   *)
(* throws, is left out too.                                                *)
(***************************************************************************)
EXTENDS EngineContract

VARIABLES
  lifecycle,   (* lifecycle state or the point reached in a transition      *)
  activated,   (* the lifecycle publishers are activated                    *)
  accepting,   (* accepting_frames_                                         *)
  stop,        (* worker_stop_                                              *)
  offering,    (* on_image is past its accepting_frames_ test               *)
  slot,        (* latest_queued_ holds a frame                              *)
  worker,      (* where the worker thread is; none: not joinable            *)
  result,      (* the FrameResult the worker is handling                    *)
  recovering,  (* handle_recovery is between the engine's and its own part  *)
  nodeHealth,  (* health_state_                                             *)
  nodeHold,    (* control_hold_requested_                                   *)
  announcing,  (* the hold on_activate has read and is to publish           *)
  topic,       (* the latched message of ~/control_hold_request             *)
  crossed      (* history: topic is a release that on_activate published    *)
               (* over a hold the worker had reported since                 *)

intakeVars == <<accepting, offering, slot>>
reportVars == <<nodeHealth, nodeHold>>
topicVars  == <<topic, crossed>>
nodeVars   == <<lifecycle, activated, stop, intakeVars, worker, result,
                recovering, reportVars, announcing, topicVars>>
allVars    == <<contractVars, nodeVars>>

Results  == [ok : BOOLEAN, hold : BOOLEAN]
NoResult == [ok |-> FALSE, hold |-> FALSE]

NodeTypeOK ==
  /\ ContractTypeOK
  /\ lifecycle \in {"unconfigured", "configuring", "inactive", "activating",
                    "announcing", "publishing", "active", "stopping",
                    "joining", "finalizing", "finalized"}
  /\ activated \in BOOLEAN /\ stop \in BOOLEAN
  /\ accepting \in BOOLEAN /\ offering \in BOOLEAN /\ slot \in BOOLEAN
  /\ worker \in {"none", "looping", "blocking", "sleeping", "taken", "framing",
                 "publish", "record", "announce", "request", "exited"}
  /\ result \in Results
  /\ recovering \in BOOLEAN
  /\ nodeHealth \in {"unknown", "ok", "fail_closed", "recovering"}
  /\ nodeHold \in BOOLEAN /\ announcing \in BOOLEAN
  /\ topic \in {"none", "hold", "release"} /\ crossed \in BOOLEAN

NodeInit ==
  /\ ContractInit
  /\ lifecycle = "unconfigured" /\ activated = FALSE
  /\ accepting = FALSE /\ offering = FALSE /\ slot = FALSE
  /\ stop = FALSE /\ worker = "none" /\ result = NoResult
  /\ recovering = FALSE
  /\ nodeHealth = "unknown" /\ nodeHold = TRUE
  /\ announcing = FALSE /\ topic = "none" /\ crossed = FALSE

(* engine_.reset(), and the state of a new engine. *)
ResetEngine ==
  /\ phase' = "unconfigured" /\ active' = None
  /\ NoFrame
  /\ health' = "Starting" /\ holdReason' = NoHold

(* publish_control_hold stores the hold and then publishes it, without a     *)
(* lock: another thread may do the same in between.  A message is only        *)
(* delivered by an activated publisher.                                       *)
StoreHold(hold) == nodeHold' = hold

PublishHold(hold) ==
  topic' = IF activated THEN IF hold THEN "hold" ELSE "release" ELSE topic
------------------------------------------------------------------------------
(***************************************************************************)
(* on_configure.  The services exist from its start, so they may reach the *)
(* engine while it warms up.                                               *)
(***************************************************************************)
ConfigureBegin ==
  /\ lifecycle = "unconfigured"
  /\ lifecycle' = "configuring"
  /\ ResetEngine
  /\ UNCHANGED <<activated, stop, intakeVars, worker, result, recovering,
                 reportVars, announcing, topicVars>>

ConfigureEngine ==
  /\ lifecycle = "configuring"
  /\ Configured \/ (Startup /\ phase' = "ready")
  /\ UNCHANGED nodeVars

(* The engine could not be configured, refused the policy or found no       *)
(* profile at startup.  The publishers are not activated yet, so nobody sees *)
(* the hold between its store and its publication.                          *)
ConfigureFailed ==
  /\ lifecycle = "configuring" /\ phase # "ready"
  /\ lifecycle' = "unconfigured"
  /\ nodeHealth' = "fail_closed"
  /\ StoreHold(TRUE) /\ PublishHold(TRUE)
  /\ ResetEngine
  /\ UNCHANGED <<activated, stop, intakeVars, worker, result, recovering,
                 announcing, crossed>>

ConfigureDone ==
  /\ lifecycle = "configuring" /\ phase = "ready"
  /\ lifecycle' = "inactive"
  /\ nodeHealth' = IF HoldActive THEN "fail_closed" ELSE "ok"
  /\ StoreHold(HoldActive) /\ PublishHold(HoldActive)
  /\ UNCHANGED <<contractVars, activated, stop, intakeVars, worker, result,
                 recovering, announcing, crossed>>
------------------------------------------------------------------------------
(***************************************************************************)
(* on_activate starts the worker before it publishes the hold it believes  *)
(* in, on_deactivate stops and joins it.                                   *)
(***************************************************************************)
ActivateStart ==
  /\ lifecycle = "inactive"
  /\ lifecycle' = "activating"
  /\ activated' = TRUE /\ accepting' = TRUE /\ stop' = FALSE
  /\ worker' = IF worker = "none" THEN "looping" ELSE worker
  /\ UNCHANGED <<contractVars, offering, slot, result, recovering, reportVars,
                 announcing, topicVars>>

ActivateRead ==
  /\ lifecycle = "activating"
  /\ lifecycle' = "announcing" /\ announcing' = nodeHold
  /\ UNCHANGED <<contractVars, activated, stop, intakeVars, worker, result,
                 recovering, reportVars, topicVars>>

ActivateStore ==
  /\ lifecycle = "announcing"
  /\ lifecycle' = "publishing"
  /\ StoreHold(announcing)
  /\ UNCHANGED <<contractVars, activated, stop, intakeVars, worker, result,
                 recovering, nodeHealth, announcing, topicVars>>

ActivatePublish ==
  /\ lifecycle = "publishing"
  /\ lifecycle' = "active"
  /\ PublishHold(announcing) /\ announcing' = FALSE
  /\ crossed' = (nodeHold /\ ~announcing)
  /\ UNCHANGED <<contractVars, activated, stop, intakeVars, worker, result,
                 recovering, reportVars>>

DeactivateStop ==
  /\ lifecycle = "active"
  /\ lifecycle' = "stopping"
  /\ accepting' = FALSE /\ stop' = TRUE
  /\ UNCHANGED <<contractVars, activated, offering, slot, worker, result,
                 recovering, reportVars, announcing, topicVars>>

(* worker_stop_ is stored and notified without frame_mutex_. *)
DeactivateNotify ==
  /\ lifecycle = "stopping"
  /\ lifecycle' = "joining"
  /\ worker' = IF worker = "sleeping" THEN "looping" ELSE worker
  /\ UNCHANGED <<contractVars, activated, stop, intakeVars, result, recovering,
                 reportVars, announcing, topicVars>>

(* Deviation: the worker is not joined. *)
DeactivateUnjoined ==
  /\ lifecycle = "joining"
  /\ lifecycle' = "inactive"
  /\ slot' = FALSE /\ activated' = FALSE
  /\ UNCHANGED <<contractVars, stop, accepting, offering, worker, result,
                 recovering, reportVars, announcing, topicVars>>

DeactivateJoin ==
  /\ lifecycle = "joining" /\ worker = "exited"
  /\ lifecycle' = "inactive"
  /\ worker' = "none" /\ slot' = FALSE /\ activated' = FALSE
  /\ UNCHANGED <<contractVars, stop, accepting, offering, result, recovering,
                 reportVars, announcing, topicVars>>

(* The latched message goes with its publisher.                             *)
CleanUp ==
  /\ lifecycle = "inactive"
  /\ lifecycle' = "unconfigured"
  /\ ResetEngine
  /\ accepting' = FALSE /\ stop' = TRUE
  /\ nodeHealth' = "unknown" /\ topic' = "none"
  /\ UNCHANGED <<activated, offering, slot, worker, result, recovering,
                 nodeHold, announcing, crossed>>

(* The worker is neither stopped nor joined. *)
Shutdown ==
  /\ lifecycle \in {"unconfigured", "inactive", "active"}
  /\ lifecycle' = IF activated THEN "finalizing" ELSE "finalized"
  /\ accepting' = FALSE
  /\ StoreHold(activated \/ nodeHold)
  /\ UNCHANGED <<contractVars, activated, stop, offering, slot, worker, result,
                 recovering, nodeHealth, announcing, topicVars>>

ShutdownPublish ==
  /\ lifecycle = "finalizing"
  /\ lifecycle' = "finalized"
  /\ PublishHold(TRUE)
  /\ UNCHANGED <<contractVars, activated, stop, intakeVars, worker, result,
                 recovering, reportVars, announcing, crossed>>
------------------------------------------------------------------------------
(***************************************************************************)
(* on_image: frames that are not valid images are dropped before the slot. *)
(***************************************************************************)
Offer ==
  /\ accepting /\ ~offering
  /\ offering' = TRUE
  /\ UNCHANGED <<contractVars, lifecycle, activated, stop, accepting, slot,
                 worker, result, recovering, reportVars, announcing, topicVars>>

(* The worker holds frame_mutex_ until it sleeps. *)
Enqueue ==
  /\ offering /\ worker # "blocking"
  /\ offering' = FALSE /\ slot' = TRUE
  /\ worker' = IF worker = "sleeping" THEN "looping" ELSE worker
  /\ UNCHANGED <<contractVars, lifecycle, activated, stop, accepting, result,
                 recovering, reportVars, announcing, topicVars>>
------------------------------------------------------------------------------
(***************************************************************************)
(* worker_loop.                                                            *)
(***************************************************************************)
workerContext == <<lifecycle, activated, stop, accepting, offering, recovering,
                   announcing>>

(* The loop condition and the predicate of wait_for. *)
WorkerTest ==
  /\ worker = "looping"
  /\ worker' = IF stop THEN "exited" ELSE IF slot THEN "taken" ELSE "blocking"
  /\ slot' = (stop /\ slot)
  /\ UNCHANGED <<contractVars, workerContext, result, reportVars, topicVars>>

WorkerSleep ==
  /\ worker = "blocking" /\ worker' = "sleeping"
  /\ UNCHANGED <<contractVars, workerContext, slot, result, reportVars, topicVars>>

(* Deviation: the wait for a frame has no timeout. *)
WorkerWakeOnFrame ==
  /\ worker = "sleeping" /\ slot /\ worker' = "looping"
  /\ UNCHANGED <<contractVars, workerContext, slot, result, reportVars, topicVars>>

(* wait_for gives up after 50 ms. *)
WorkerTimeout ==
  /\ worker = "sleeping" /\ worker' = "looping"
  /\ UNCHANGED <<contractVars, workerContext, slot, result, reportVars, topicVars>>

(* Deviation: a refused frame carries no hold. *)
WorkerBeginSilently ==
  /\ worker = "taken"
  /\ Begin
  /\ IF pc' = "executing" THEN worker' = "framing" /\ UNCHANGED result
                          ELSE worker' = "publish" /\ result' = NoResult
  /\ UNCHANGED <<workerContext, slot, reportVars, topicVars>>

(* execute_frame up to the executor.  The worker's own test that the engine *)
(* is ready never fails (WorkerHasEngine).                                  *)
WorkerBegin ==
  /\ worker = "taken"
  /\ Begin
  /\ IF pc' = "executing" THEN worker' = "framing" /\ UNCHANGED result
     ELSE /\ worker' = "publish"
          /\ result' = [NoResult EXCEPT !.hold = (holdReason' # NoHold)]
  /\ UNCHANGED <<workerContext, slot, reportVars, topicVars>>

WorkerFinish ==
  /\ worker = "framing"
  /\ Finish
  /\ UNCHANGED nodeVars

(* The hold in an abandoned frame's result dates from its admission. *)
WorkerAbandon ==
  /\ worker = "framing" /\ worker' = "publish"
  /\ Abandon
  /\ result' = NoResult
  /\ UNCHANGED <<workerContext, slot, reportVars, topicVars>>

(* A hold makes the frame a failure even when the inference succeeded. *)
WorkerSettle ==
  /\ worker = "framing" /\ worker' = "publish"
  /\ Settled
  /\ \E inferred \in BOOLEAN :
       LET hold == holdReason' # NoHold IN
       result' = [ok |-> inferred /\ ~hold, hold |-> hold]
  /\ UNCHANGED <<workerContext, slot, reportVars, topicVars>>

(* publish_frame_result and the other messages of a frame. *)
WorkerPublish ==
  /\ worker = "publish" /\ worker' = "record"
  /\ UNCHANGED <<contractVars, workerContext, slot, result, reportVars, topicVars>>

(* Deviation: a frame that fails without a hold sets a health no reader   *)
(* knows.                                                                  *)
WorkerRecordDegraded ==
  /\ worker = "record" /\ ~result.ok /\ ~result.hold
  /\ nodeHealth' = "degraded"
  /\ worker' = "looping" /\ result' = NoResult
  /\ UNCHANGED <<contractVars, workerContext, slot, nodeHold, topicVars>>

(* A failure without a hold leaves the reported health as it was: the node  *)
(* never reports a degradation.                                             *)
WorkerRecord ==
  /\ worker = "record"
  /\ CASE result.ok -> nodeHold' = FALSE /\ nodeHealth' = "ok"
       [] ~result.ok /\ result.hold -> nodeHold' = TRUE /\ nodeHealth' = "fail_closed"
       [] OTHER -> UNCHANGED reportVars
  /\ worker' = IF result.hold THEN "announce" ELSE "looping"
  /\ result' = IF result.hold THEN result ELSE NoResult
  /\ UNCHANGED <<contractVars, workerContext, slot, topicVars>>

(* Deviation: a hold that is already reported is not announced. *)
WorkerAnnounceOnChange ==
  /\ worker = "announce"
  /\ worker' = IF nodeHold THEN "looping" ELSE "request"
  /\ StoreHold(TRUE)
  /\ result' = NoResult
  /\ UNCHANGED <<contractVars, workerContext, slot, nodeHealth, topicVars>>

WorkerAnnounce ==
  /\ worker = "announce" /\ worker' = "request"
  /\ StoreHold(TRUE)
  /\ result' = NoResult
  /\ UNCHANGED <<contractVars, workerContext, slot, nodeHealth, topicVars>>

WorkerRequest ==
  /\ worker = "request" /\ worker' = "looping"
  /\ PublishHold(TRUE) /\ crossed' = FALSE
  /\ UNCHANGED <<contractVars, workerContext, slot, result, reportVars>>
------------------------------------------------------------------------------
(***************************************************************************)
(* The mutation services.  A pin or an accepted policy by itself shows in  *)
(* later decisions of the engine only; a policy update also evaluates.     *)
(***************************************************************************)
UpdateRuntimePolicy ==
  /\ ~recovering
  /\ phase # "unconfigured"
  /\ Decide
  /\ UNCHANGED <<phase, frameContractVars, nodeVars>>

RecoverEngine ==
  /\ ~recovering
  /\ phase # "unconfigured"
  /\ Recover
  /\ recovering' = TRUE
  /\ UNCHANGED <<phase, frameContractVars, lifecycle, activated, stop,
                 intakeVars, worker, result, reportVars, announcing, topicVars>>

(* The node's own hold is dropped; no message is published. *)
RecoverNode ==
  /\ recovering /\ recovering' = FALSE
  /\ nodeHold' = FALSE /\ nodeHealth' = "recovering"
  /\ UNCHANGED <<contractVars, lifecycle, activated, stop, intakeVars, worker,
                 result, announcing, topicVars>>
------------------------------------------------------------------------------
Transition ==
  \/ ConfigureBegin \/ ConfigureEngine \/ ConfigureFailed \/ ConfigureDone
  \/ ActivateStart \/ ActivateRead \/ ActivateStore \/ ActivatePublish
  \/ DeactivateStop \/ DeactivateNotify \/ DeactivateJoin
  \/ CleanUp \/ Shutdown \/ ShutdownPublish

Work ==
  \/ WorkerTest \/ WorkerSleep \/ WorkerTimeout
  \/ WorkerBegin \/ WorkerFinish \/ WorkerAbandon \/ WorkerSettle
  \/ WorkerPublish \/ WorkerRecord \/ WorkerAnnounce \/ WorkerRequest

Serve == UpdateRuntimePolicy \/ RecoverEngine \/ RecoverNode

NodeNext == Transition \/ Offer \/ Enqueue \/ Work \/ Serve

NodeSpec == NodeInit /\ [][NodeNext]_allVars

(* Threads that can run do run.  An image callback that waits for           *)
(* frame_mutex_ gets it in the end, as the worker sleeps without it.        *)
NodeFairness ==
  /\ WF_allVars(Work)
  /\ WF_allVars(ActivateRead \/ ActivateStore \/ ActivatePublish)
  /\ WF_allVars(DeactivateNotify \/ DeactivateJoin)
  /\ WF_allVars(RecoverNode)
  /\ SF_allVars(Enqueue)

(* The camera keeps sending. *)
NodeLiveSpec == NodeSpec /\ NodeFairness /\ WF_allVars(Offer)
------------------------------------------------------------------------------
(* A worker thread exists only between activation and the join, or after a *)
(* shutdown, and while it is inside execute_frame the engine it runs in is *)
(* the configured one: cleanup and reconfiguration cannot pull it away.    *)
WorkerHasEngine ==
  /\ lifecycle \in {"unconfigured", "configuring", "inactive"} => worker = "none"
  /\ worker \in {"taken", "framing"} => phase = "ready"
  /\ worker = "framing" <=> pc # "idle"

(* Whenever the worker is between frames, a hold that the node reports in   *)
(* its health and status is also the latched request on the hold topic,     *)
(* whatever recovery, activation and frame results overlapped.  The one      *)
(* exception: on_activate published the release it had stored before the     *)
(* worker reported and requested the hold (publish_control_hold), and the    *)
(* worker has not refused another frame yet.                                 *)
ReportedHoldIsOnTopic ==
  lifecycle = "active" /\ nodeHold /\ worker \in {"looping", "blocking", "sleeping"}
    => topic = "hold" \/ crossed

(* docs/architecture.md, fail-closed behaviour: a hold of the engine is     *)
(* requested on the topic, unless it is lifted or the node is taken down    *)
(* first.  A release that crossed a request is mended with the next frame.  *)
HoldIsAnnounced ==
  (lifecycle = "active" /\ HoldActive)
    ~> (topic = "hold" \/ ~HoldActive \/ lifecycle # "active")

(* on_deactivate always gets its worker to exit, although worker_stop_ is   *)
(* stored and notified without the mutex of the condition variable.         *)
DeactivationCompletes == (lifecycle = "stopping") ~> (lifecycle = "inactive")
==============================================================================
