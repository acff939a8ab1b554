-------------------------- MODULE RuntimeNodeProofs --------------------------
(***************************************************************************)
(* Proofs about the ROS node, for every set of profiles: the engine is not *)
(* taken away from the worker, a reported hold is the one on the topic, and*)
(* node, threads and engine keep their types.                              *)
(***************************************************************************)
EXTENDS RuntimeNode, TLAPS

(* The worker and the engine through the lifecycle.  The phase of the engine *)
(* only falls back in states without a worker.                             *)
EngineInv ==
  /\ lifecycle \in {"inactive", "activating", "announcing", "publishing",
                    "active", "stopping", "joining"} => phase = "ready"
  /\ lifecycle \in {"unconfigured", "configuring", "inactive"} => worker = "none"
  /\ worker # "none" => phase = "ready"
  /\ worker = "framing" <=> pc # "idle"

(* The hold topic and the reported hold: only between WorkerRecord and      *)
(* WorkerRequest may the node report a hold it has not published, unless a   *)
(* release of the activation came after it, and it publishes through an      *)
(* activated publisher.                                                      *)
TopicInv ==
  /\ lifecycle \in {"activating", "announcing", "publishing", "active"}
       => activated
  /\ lifecycle = "active" /\ nodeHold /\ worker \notin {"announce", "request"}
       => topic = "hold" \/ crossed
  /\ ~(result.ok /\ result.hold)
  /\ result \in Results

LEMMA EngineInvInit == NodeInit => EngineInv
  BY DEF NodeInit, ContractInit, EngineInv

LEMMA EngineInvStep == EngineInv /\ [NodeNext]_allVars => EngineInv'
<1> SUFFICES ASSUME EngineInv, [NodeNext]_allVars PROVE EngineInv'
  OBVIOUS
<1> USE DEF EngineInv
<1>1. CASE Transition
  <2>1. CASE ConfigureBegin \/ ConfigureFailed
    BY <2>1 DEF ConfigureBegin, ConfigureFailed, ResetEngine, NoFrame
  <2>2. CASE ConfigureEngine
    BY <2>2 DEF ConfigureEngine, Configured, Startup, nodeVars, frameContractVars
  <2>3. CASE ConfigureDone
    BY <2>3 DEF ConfigureDone, contractVars, frameContractVars
  <2>4. CASE ActivateStart \/ ActivateRead \/ ActivateStore \/ ActivatePublish
    BY <2>4 DEF ActivateStart, ActivateRead, ActivateStore, ActivatePublish,
                contractVars, frameContractVars
  <2>5. CASE DeactivateStop \/ DeactivateNotify \/ DeactivateJoin
    BY <2>5 DEF DeactivateStop, DeactivateNotify, DeactivateJoin, contractVars,
                frameContractVars
  <2>6. CASE CleanUp
    BY <2>6 DEF CleanUp, ResetEngine, NoFrame
  <2>7. CASE Shutdown \/ ShutdownPublish
    BY <2>7 DEF Shutdown, ShutdownPublish, contractVars, frameContractVars
  <2> QED BY <1>1, <2>1, <2>2, <2>3, <2>4, <2>5, <2>6, <2>7 DEF Transition
<1>2. CASE Offer \/ Enqueue
  BY <1>2 DEF Offer, Enqueue, contractVars, frameContractVars
<1>3. CASE Work
  <2> USE DEF workerContext
  <2>1. CASE WorkerTest \/ WorkerSleep \/ WorkerTimeout
    BY <2>1 DEF WorkerTest, WorkerSleep, WorkerTimeout, contractVars,
                frameContractVars
  <2>2. CASE WorkerBegin
    BY <2>2 DEF WorkerBegin, Begin, frameContractVars
  <2>3. CASE WorkerFinish
    BY <2>3 DEF WorkerFinish, Finish, nodeVars
  <2>4. CASE WorkerAbandon \/ WorkerSettle
    BY <2>4 DEF WorkerAbandon, WorkerSettle, Abandon, Settled, NoFrame
  <2>5. CASE WorkerPublish \/ WorkerRecord \/ WorkerAnnounce \/ WorkerRequest
    BY <2>5 DEF WorkerPublish, WorkerRecord, WorkerAnnounce, WorkerRequest,
                contractVars, frameContractVars
  <2> QED BY <1>3, <2>1, <2>2, <2>3, <2>4, <2>5 DEF Work
<1>4. CASE Serve
  BY <1>4 DEF Serve, UpdateRuntimePolicy, RecoverEngine, RecoverNode,
              contractVars, frameContractVars, nodeVars
<1>5. CASE UNCHANGED allVars
  BY <1>5 DEF allVars, nodeVars, contractVars, frameContractVars
<1> QED BY <1>1, <1>2, <1>3, <1>4, <1>5 DEF NodeNext

(* Cleanup and reconfiguration never take the engine from a worker that is  *)
(* in execute_frame.                                                        *)
THEOREM WorkerAlwaysHasEngine == NodeSpec => []WorkerHasEngine
<1>1. EngineInv => WorkerHasEngine
  BY DEF EngineInv, WorkerHasEngine
<1> QED
  BY <1>1, EngineInvInit, EngineInvStep, PTL DEF NodeSpec
------------------------------------------------------------------------------
LEMMA TopicInvInit == NodeInit => TopicInv
<1>1. ASSUME NodeInit PROVE TopicInv
  <2>1. result = [ok |-> FALSE, hold |-> FALSE]
    BY <1>1 DEF NodeInit, NoResult
  <2>2. result \in Results /\ ~(result.ok /\ result.hold)
    BY <2>1 DEF Results
  <2> QED BY <1>1, <2>2 DEF NodeInit, TopicInv
<1> QED BY <1>1

(* The results that the worker passes on. *)
LEMMA ResultIsConsistent ==
  ASSUME TopicInv, Work
  PROVE  result' \in Results /\ ~(result'.ok /\ result'.hold)
<1> USE DEF TopicInv, Results, NoResult
<1>1. CASE WorkerTest \/ WorkerSleep \/ WorkerTimeout
  BY <1>1 DEF WorkerTest, WorkerSleep, WorkerTimeout
<1>2. CASE WorkerBegin
  BY <1>2 DEF WorkerBegin
<1>3. CASE WorkerFinish
  BY <1>3 DEF WorkerFinish, nodeVars
<1>4. CASE WorkerAbandon
  BY <1>4 DEF WorkerAbandon
<1>5. CASE WorkerSettle
  <2>1. PICK inferred \in BOOLEAN :
          LET hold == holdReason' # NoHold IN
          result' = [ok |-> inferred /\ ~hold, hold |-> hold]
    BY <1>5 DEF WorkerSettle
  <2> QED BY <2>1
<1>6. CASE WorkerPublish \/ WorkerRecord \/ WorkerAnnounce \/ WorkerRequest
  <2>1. NoResult \in Results /\ ~(NoResult.ok /\ NoResult.hold)
    OBVIOUS
  <2>2. result' \in {result, NoResult}
    BY <1>6 DEF WorkerPublish, WorkerRecord, WorkerAnnounce, WorkerRequest
  <2> QED BY <2>1, <2>2
<1> QED BY <1>1, <1>2, <1>3, <1>4, <1>5, <1>6 DEF Work

(* Outside the worker a result stays as it is. *)
LEMMA ResultOutsideWork ==
  Transition \/ Offer \/ Enqueue \/ Serve => UNCHANGED result
  BY DEF Transition, Offer, Enqueue, Serve, ConfigureBegin, ConfigureEngine,
         ConfigureFailed, ConfigureDone, ActivateStart, ActivateRead,
         ActivateStore, ActivatePublish, DeactivateStop, DeactivateNotify,
         DeactivateJoin, CleanUp, Shutdown, ShutdownPublish,
         UpdateRuntimePolicy, RecoverEngine, RecoverNode, nodeVars

LEMMA TopicInvStep == TopicInv /\ [NodeNext]_allVars => TopicInv'
<1> SUFFICES ASSUME TopicInv, [NodeNext]_allVars PROVE TopicInv'
  OBVIOUS
<1>1. CASE Transition
  <2>1. result' \in Results /\ ~(result'.ok /\ result'.hold)
    BY <1>1, ResultOutsideWork DEF TopicInv
  <2>2. /\ lifecycle' \in {"activating", "announcing", "publishing", "active"}
             => activated'
        /\ lifecycle' = "active" /\ nodeHold'
             /\ worker' \notin {"announce", "request"}
             => topic' = "hold" \/ crossed'
    <3> USE DEF TopicInv, PublishHold, topicVars
    <3>1. CASE ConfigureBegin \/ ConfigureFailed \/ ConfigureDone
      BY <3>1 DEF ConfigureBegin, ConfigureFailed, ConfigureDone
    <3>2. CASE ConfigureEngine
      BY <3>2 DEF ConfigureEngine, nodeVars, reportVars
    <3>3. CASE ActivateStart \/ ActivateRead \/ ActivateStore
      BY <3>3 DEF ActivateStart, ActivateRead, ActivateStore
    <3>4. CASE ActivatePublish
      BY <3>4 DEF ActivatePublish, reportVars
    <3>5. CASE DeactivateStop \/ DeactivateNotify \/ DeactivateJoin
      BY <3>5 DEF DeactivateStop, DeactivateNotify, DeactivateJoin
    <3>6. CASE CleanUp \/ Shutdown \/ ShutdownPublish
      BY <3>6 DEF CleanUp, Shutdown, ShutdownPublish
    <3> QED BY <1>1, <3>1, <3>2, <3>3, <3>4, <3>5, <3>6 DEF Transition
  <2> QED BY <2>1, <2>2 DEF TopicInv
<1>2. CASE Offer \/ Enqueue
  BY <1>2 DEF TopicInv, Offer, Enqueue, reportVars, topicVars
<1>3. CASE Work
  <2>1. result' \in Results /\ ~(result'.ok /\ result'.hold)
    BY <1>3, ResultIsConsistent
  <2>2. UNCHANGED <<lifecycle, activated>>
    BY <1>3 DEF Work, WorkerTest, WorkerSleep, WorkerTimeout,
                WorkerBegin, WorkerFinish, WorkerAbandon, WorkerSettle,
                WorkerPublish, WorkerRecord, WorkerAnnounce, WorkerRequest,
                workerContext, nodeVars
  <2>3. lifecycle' = "active" /\ nodeHold' /\ worker' \notin {"announce", "request"}
          => topic' = "hold" \/ crossed'
    <3>1. CASE WorkerRecord
      BY <3>1, <2>2 DEF TopicInv, WorkerRecord, reportVars, topicVars
    <3>2. CASE WorkerAnnounce \/ WorkerRequest
      BY <3>2, <2>2 DEF TopicInv, WorkerAnnounce, WorkerRequest, PublishHold
    <3>3. CASE ~WorkerRecord /\ ~WorkerAnnounce /\ ~WorkerRequest
      <4>1. /\ UNCHANGED <<nodeHold, topic, crossed>>
            /\ worker \notin {"announce", "request"}
        BY <1>3, <3>3 DEF Work, WorkerTest, WorkerSleep, WorkerTimeout,
                WorkerBegin, WorkerFinish, WorkerAbandon,
                WorkerSettle, WorkerPublish, reportVars, topicVars, nodeVars
      <4> QED BY <4>1, <2>2 DEF TopicInv
    <3> QED BY <3>1, <3>2, <3>3
  <2> QED BY <2>1, <2>2, <2>3 DEF TopicInv
<1>4. CASE Serve
  BY <1>4 DEF TopicInv, Serve, UpdateRuntimePolicy, RecoverEngine, RecoverNode,
              nodeVars, reportVars, topicVars
<1>5. CASE UNCHANGED allVars
  BY <1>5 DEF TopicInv, allVars, nodeVars, reportVars, topicVars
<1> QED BY <1>1, <1>2, <1>3, <1>4, <1>5 DEF NodeNext

(* A hold that the node reports between frames is the latched request on    *)
(* the hold topic, although store and publication are two steps of every     *)
(* thread, unless the release of the activation crossed the request.         *)
THEOREM ReportedHoldIsAlwaysOnTopic == NodeSpec => []ReportedHoldIsOnTopic
<1>1. TopicInv => ReportedHoldIsOnTopic
  BY DEF TopicInv, ReportedHoldIsOnTopic
<1> QED
  BY <1>1, TopicInvInit, TopicInvStep, PTL DEF NodeSpec
------------------------------------------------------------------------------
(* Types.  Whatever the engine does for the node keeps the engine's.        *)
LEMMA DecideTypes ==
  ASSUME ContractTypeOK, Decide
  PROVE  active' \in Profiles \cup {None} /\ HealthTypeOK'
BY DEF ContractTypeOK, HealthTypeOK, HealthStates, HoldReasons, NoHold, Decide,
       Select, Demote, GiveUp, Stabilise, SetReady, SetDegraded, SetFailClosed,
       healthVars

LEMMA ContractTypeStep ==
  ASSUME ContractTypeOK,
         \/ ContractNext \/ ResetEngine
         \/ UNCHANGED contractVars
  PROVE  ContractTypeOK'
<1> USE DEF ContractTypeOK
<1>1. CASE Configured
  BY <1>1 DEF Configured, frameContractVars, healthVars, HealthTypeOK
<1>2. CASE Startup
  BY <1>2, DecideTypes DEF Startup, frameContractVars
<1>3. CASE Begin
  BY <1>3, DecideTypes DEF Begin, frameContractVars
<1>4. CASE Abandon
  BY <1>4 DEF Abandon, NoFrame, healthVars, HealthTypeOK
<1>5. CASE Finish
  BY <1>5 DEF Finish, Observed, SetReady, SetDegraded, SetFailClosed, healthVars,
              HealthTypeOK, HealthStates, HoldReasons, NoHold
<1>6. CASE Settled
  BY <1>6, DecideTypes DEF Settled, NoFrame
<1>7. CASE Called
  <2>1. active' \in Profiles \cup {None} /\ HealthTypeOK'
    BY <1>7, DecideTypes DEF Called, Recover, BeginRecovery, HealthTypeOK,
       HealthStates, HoldReasons, NoHold
  <2> QED BY <1>7, <2>1 DEF Called, frameContractVars
<1>8. CASE ResetEngine
  BY <1>8 DEF ResetEngine, NoFrame, HealthTypeOK, HealthStates, HoldReasons, NoHold
<1>9. CASE UNCHANGED contractVars
  BY <1>9 DEF contractVars, frameContractVars, healthVars, HealthTypeOK
<1> QED BY <1>1, <1>2, <1>3, <1>4, <1>5, <1>6, <1>7, <1>8, <1>9 DEF ContractNext

(* Every step of the node is one of the engine's, a new engine, or none: the *)
(* node adds no state of the engine that its contract does not know.        *)
LEMMA NodeStepOfEngine ==
  ASSUME [NodeNext]_allVars
  PROVE  ContractNext \/ ResetEngine \/ UNCHANGED contractVars
<1>1. CASE Transition
  BY <1>1 DEF Transition, ConfigureBegin, ConfigureEngine, ConfigureFailed,
              ConfigureDone, ActivateStart, ActivateRead, ActivateStore,
              ActivatePublish, DeactivateStop, DeactivateNotify, DeactivateJoin,
              CleanUp, Shutdown, ShutdownPublish, ContractNext
<1>2. CASE Offer \/ Enqueue
  BY <1>2 DEF Offer, Enqueue
<1>3. CASE Work
  BY <1>3 DEF Work, WorkerTest, WorkerSleep, WorkerTimeout, WorkerBegin,
              WorkerFinish, WorkerAbandon, WorkerSettle, WorkerPublish,
              WorkerRecord, WorkerAnnounce, WorkerRequest, ContractNext
<1>4. CASE Serve
  BY <1>4 DEF Serve, UpdateRuntimePolicy, RecoverEngine, RecoverNode, ContractNext,
              Called
<1>5. CASE UNCHANGED allVars
  BY <1>5 DEF allVars
<1> QED BY <1>1, <1>2, <1>3, <1>4, <1>5 DEF NodeNext

(* The threads of the node, and what they report. *)
ThreadTypes ==
  /\ lifecycle \in {"unconfigured", "configuring", "inactive", "activating",
                    "announcing", "publishing", "active", "stopping",
                    "joining", "finalizing", "finalized"}
  /\ activated \in BOOLEAN /\ stop \in BOOLEAN
  /\ accepting \in BOOLEAN /\ offering \in BOOLEAN /\ slot \in BOOLEAN
  /\ worker \in {"none", "looping", "blocking", "sleeping", "taken", "framing",
                 "publish", "record", "announce", "request", "exited"}
  /\ recovering \in BOOLEAN

ReportTypes ==
  /\ nodeHealth \in {"unknown", "ok", "fail_closed", "recovering"}
  /\ nodeHold \in BOOLEAN /\ announcing \in BOOLEAN
  /\ topic \in {"none", "hold", "release"} /\ crossed \in BOOLEAN

LEMMA ThreadTypesStep ==
  ASSUME ThreadTypes, [NodeNext]_allVars
  PROVE  ThreadTypes'
<1> USE DEF ThreadTypes, intakeVars
<1>1. CASE Transition
  <2>1. CASE ConfigureBegin \/ ConfigureFailed \/ ConfigureDone
    BY <2>1 DEF ConfigureBegin, ConfigureFailed, ConfigureDone
  <2>2. CASE ConfigureEngine
    BY <2>2 DEF ConfigureEngine, nodeVars
  <2>3. CASE ActivateStart
    BY <2>3 DEF ActivateStart
  <2>4. CASE ActivateRead \/ ActivateStore \/ ActivatePublish
    BY <2>4 DEF ActivateRead, ActivateStore, ActivatePublish
  <2>5. CASE DeactivateStop \/ DeactivateNotify \/ DeactivateJoin
    BY <2>5 DEF DeactivateStop, DeactivateNotify, DeactivateJoin
  <2>6. CASE CleanUp \/ Shutdown \/ ShutdownPublish
    BY <2>6 DEF CleanUp, Shutdown, ShutdownPublish
  <2> QED BY <1>1, <2>1, <2>2, <2>3, <2>4, <2>5, <2>6 DEF Transition
<1>2. CASE Offer
  BY <1>2 DEF Offer
<1>3. CASE Enqueue
  BY <1>3 DEF Enqueue
<1>4. CASE Work
  <2> USE DEF workerContext
  <2>1. CASE WorkerTest \/ WorkerSleep \/ WorkerTimeout
    BY <2>1 DEF WorkerTest, WorkerSleep, WorkerTimeout
  <2>2. CASE WorkerBegin \/ WorkerAbandon \/ WorkerSettle
    BY <2>2 DEF WorkerBegin, WorkerAbandon, WorkerSettle
  <2>3. CASE WorkerFinish
    BY <2>3 DEF WorkerFinish, nodeVars
  <2>4. CASE WorkerPublish \/ WorkerRecord
    BY <2>4 DEF WorkerPublish, WorkerRecord
  <2>5. CASE WorkerAnnounce \/ WorkerRequest
    BY <2>5 DEF WorkerAnnounce, WorkerRequest
  <2> QED BY <1>4, <2>1, <2>2, <2>3, <2>4, <2>5 DEF Work
<1>5. CASE Serve
  <2>1. CASE UpdateRuntimePolicy
    BY <2>1 DEF UpdateRuntimePolicy, nodeVars
  <2>2. CASE RecoverEngine \/ RecoverNode
    BY <2>2 DEF RecoverEngine, RecoverNode
  <2> QED BY <1>5, <2>1, <2>2 DEF Serve
<1>6. CASE UNCHANGED allVars
  BY <1>6 DEF allVars, nodeVars
<1> QED BY <1>1, <1>2, <1>3, <1>4, <1>5, <1>6 DEF NodeNext

LEMMA ReportTypesStep ==
  ASSUME ReportTypes, [NodeNext]_allVars
  PROVE  ReportTypes'
<1> USE DEF ReportTypes, StoreHold, PublishHold, HoldActive, reportVars, topicVars
<1>1. CASE Transition
  <2>1. CASE ConfigureBegin \/ ConfigureFailed \/ ConfigureDone
    BY <2>1 DEF ConfigureBegin, ConfigureFailed, ConfigureDone
  <2>2. CASE ConfigureEngine
    BY <2>2 DEF ConfigureEngine, nodeVars
  <2>3. CASE ActivateStart \/ ActivateRead \/ ActivateStore
    BY <2>3 DEF ActivateStart, ActivateRead, ActivateStore
  <2>4. CASE ActivatePublish
    BY <2>4 DEF ActivatePublish
  <2>5. CASE DeactivateStop \/ DeactivateNotify \/ DeactivateJoin
    BY <2>5 DEF DeactivateStop, DeactivateNotify, DeactivateJoin
  <2>6. CASE CleanUp
    BY <2>6 DEF CleanUp
  <2>7. CASE Shutdown \/ ShutdownPublish
    BY <2>7 DEF Shutdown, ShutdownPublish
  <2> QED BY <1>1, <2>1, <2>2, <2>3, <2>4, <2>5, <2>6, <2>7 DEF Transition
<1>2. CASE Offer \/ Enqueue
  BY <1>2 DEF Offer, Enqueue
<1>3. CASE Work
  <2> USE DEF workerContext
  <2>1. CASE WorkerTest \/ WorkerSleep \/ WorkerTimeout \/ WorkerPublish
    BY <2>1 DEF WorkerTest, WorkerSleep, WorkerTimeout, WorkerPublish
  <2>2. CASE WorkerBegin \/ WorkerAbandon \/ WorkerSettle
    BY <2>2 DEF WorkerBegin, WorkerAbandon, WorkerSettle
  <2>3. CASE WorkerFinish
    BY <2>3 DEF WorkerFinish, nodeVars
  <2>4. CASE WorkerRecord
    <3>1. nodeHold' \in BOOLEAN /\ nodeHealth' \in {"ok", "fail_closed", nodeHealth}
      BY <2>4 DEF WorkerRecord
    <3>2. UNCHANGED <<announcing, topic, crossed>>
      BY <2>4 DEF WorkerRecord
    <3> QED BY <3>1, <3>2
  <2>5. CASE WorkerAnnounce \/ WorkerRequest
    BY <2>5 DEF WorkerAnnounce, WorkerRequest
  <2> QED BY <1>3, <2>1, <2>2, <2>3, <2>4, <2>5 DEF Work
<1>4. CASE Serve
  BY <1>4 DEF Serve, UpdateRuntimePolicy, RecoverEngine, RecoverNode, nodeVars
<1>5. CASE UNCHANGED allVars
  BY <1>5 DEF allVars, nodeVars
<1> QED BY <1>1, <1>2, <1>3, <1>4, <1>5 DEF NodeNext

(* The node, its threads and the engine keep their types: the node reports  *)
(* a health that its readers know.                                          *)
THEOREM NodeTypeCorrect == NodeSpec => []NodeTypeOK
<1>1. NodeInit => ContractTypeOK /\ ThreadTypes /\ ReportTypes
  BY DEF NodeInit, ContractInit, HealthInit, ContractTypeOK, HealthTypeOK,
         HealthStates, HoldReasons, NoHold, ThreadTypes, ReportTypes
<1>2. ContractTypeOK /\ [NodeNext]_allVars => ContractTypeOK'
  BY NodeStepOfEngine, ContractTypeStep
<1>3. ThreadTypes /\ [NodeNext]_allVars => ThreadTypes'
  BY ThreadTypesStep
<1>4. ReportTypes /\ [NodeNext]_allVars => ReportTypes'
  BY ReportTypesStep
<1>5. ContractTypeOK /\ ThreadTypes /\ ReportTypes /\ TopicInv => NodeTypeOK
  BY DEF ThreadTypes, ReportTypes, NodeTypeOK, TopicInv
<1> QED BY <1>1, <1>2, <1>3, <1>4, <1>5, TopicInvInit, TopicInvStep, PTL DEF NodeSpec
==============================================================================
