------------------------------ MODULE RosBridge ------------------------------
(***************************************************************************)
(* The API's bridge to the runtime node (python/perceptshift_api:          *)
(* ros_bridge.py, the lifespan of app.py, the mutations of                 *)
(* routers/runtime.py and routers/profiles.py).                            *)
(*                                                                         *)
(* Three kinds of threads meet: the event loop, which starts and stops the *)
(* bridge; the bridge's executor thread, which handles one message or      *)
(* response at a time and then refreshes the graph state; and the threads  *)
(* of the requests (Callers) that wait for a service.  A publication runs  *)
(* on the event loop while the executor thread waits for it.               *)
(*                                                                         *)
(* The bridge's RLock guards short pieces of code, single steps here.  The *)
(* exception is the connection event of _refresh_graph_state, published    *)
(* with the lock held: the lock is held exactly while thread is            *)
(* "announcing".                                                           *)
(*                                                                         *)
(* Of the state the connection, hold, pin and deadline are kept.  What the *)
(* bridge only copies, reports of health and profiles and their reason     *)
(* codes, is left out.  One profile is enough for the pin.                 *)
(* The node is modelled from what the bridge sees of it; RuntimeNode       *)
(* models it in full.  A topic keeps its last message only.                *)
(***************************************************************************)
EXTENDS Naturals, FiniteSets

CONSTANTS
  Callers,     (* request threads; each asks for a deadline of its own       *)
  Operations,  (* the mutations they use                                     *)
  None

AllOperations == {"policy", "pin", "clear_pin", "clear_control_hold",
                  "reload_profiles"}

ASSUME BridgeAssumption ==
  /\ None \notin Callers \cup AllOperations
  /\ Operations \subseteq AllOperations

VARIABLES
  loop,        (* the event loop: what the lifespan is doing                 *)
  pending,     (* the publication the executor thread scheduled on the loop  *)
  thread,      (* where the executor thread is                               *)
  connected, reason,               (* connection, as the API reports it      *)
  hold, pinned, deadline,          (* what the API reports of the runtime    *)
  call,        (* the service call of each request thread                    *)
  abandoned,   (* a call a thread gave up waiting for, still on its way      *)
  nodeUp, nodeHold, nodeDeadline,  (* the runtime node                       *)
  healthTopic, holdTopic,          (* the message not yet handled            *)
  unsynced     (* history: the deadline shown may differ from the node's     *)

linkVars    == <<connected, reason>>
viewVars    == <<hold, pinned, deadline>>
callVars    == <<call, abandoned>>
nodeVars    == <<nodeUp, nodeHold, nodeDeadline>>
topicVars   == <<healthTopic, holdTopic>>
vars == <<loop, pending, thread, linkVars, viewVars, callVars, nodeVars,
          topicVars, unsynced>>

NoCall    == [stage |-> "idle", op |-> None, accepted |-> FALSE]
Calls     == [stage : {"waiting", "lost", "answered", "done"}, op : AllOperations,
              accepted : BOOLEAN] \cup {NoCall}
Deadlines == Callers \cup {None}
Messages  == {"hold", "release", None}

BridgeTypeOK ==
  /\ loop \in {"created", "starting", "serving", "stopping", "stopped"}
  /\ pending \in BOOLEAN
  /\ thread \in {"none", "spinning", "publishing", "refreshing", "announcing",
                 "ended"}
  /\ connected \in BOOLEAN
  /\ reason \in {"ROS_UNAVAILABLE", "ROS_GRAPH_ABSENT", "OK", "ROS_SHUTDOWN",
                 "ROS_BRIDGE_ERROR"}
  /\ hold \in BOOLEAN /\ pinned \in BOOLEAN
  /\ deadline \in Deadlines
  /\ call \in [Callers -> Calls]
  /\ abandoned \in [Callers -> AllOperations \cup {None}]
  /\ nodeUp \in BOOLEAN /\ nodeHold \in BOOLEAN /\ nodeDeadline \in Deadlines
  /\ healthTopic \in Messages /\ holdTopic \in Messages
  /\ unsynced \in BOOLEAN

(* RosBridgeState() *)
BridgeInit ==
  /\ loop = "created" /\ pending = FALSE /\ thread = "none"
  /\ connected = FALSE /\ reason = "ROS_UNAVAILABLE"
  /\ hold = FALSE /\ pinned = FALSE /\ deadline = None
  /\ call = [c \in Callers |-> NoCall]
  /\ abandoned = [c \in Callers |-> None]
  /\ nodeUp \in BOOLEAN /\ nodeHold = TRUE /\ nodeDeadline = None
  /\ healthTopic = None /\ holdTopic = None
  /\ unsynced = FALSE
------------------------------------------------------------------------------
(***************************************************************************)
(* The event loop: the lifespan of the application                         *)
(***************************************************************************)
(* start() with ROS disabled or its packages missing; which of them the      *)
(* reason code says is left out.                                             *)
StartWithoutRos ==
  /\ loop = "created"
  /\ loop' = "starting"
  /\ UNCHANGED <<pending, thread, linkVars, viewVars, callVars, nodeVars,
                 topicVars, unsynced>>

StartWithRos ==
  /\ loop = "created"
  /\ loop' = "starting"
  /\ thread' = "spinning"
  /\ connected' = FALSE /\ reason' = "ROS_GRAPH_ABSENT"
  /\ UNCHANGED <<pending, viewVars, callVars, nodeVars, topicVars, unsynced>>

(* _loop_publish is set and _stop is not until the lifespan ends. *)
Publishing == loop \in {"starting", "serving"}
Stopping   == loop \in {"stopping", "stopped"}

LockFree == thread # "announcing"

(* The lifespan reads bridge.state before it serves: the loop itself blocks  *)
(* while the lock is held.                                                   *)
ReadState ==
  /\ loop = "starting" /\ LockFree
  /\ loop' = "serving"
  /\ UNCHANGED <<pending, thread, linkVars, viewVars, callVars, nodeVars,
                 topicVars, unsynced>>

(* hub.publish, scheduled by the executor thread *)
RunPublication ==
  /\ loop = "serving" /\ pending
  /\ pending' = FALSE
  /\ UNCHANGED <<loop, thread, linkVars, viewVars, callVars, nodeVars,
                 topicVars, unsynced>>

BeginStop ==
  /\ loop = "serving"
  /\ loop' = "stopping"
  /\ UNCHANGED <<pending, thread, linkVars, viewVars, callVars, nodeVars,
                 topicVars, unsynced>>

(* Deviation: stop() does not wait for the thread. *)
JoinedAtOnce == TRUE

(* The loop joins the thread, for five seconds at most.  They outlast the    *)
(* thread's waits, 1 s for a publication and 0.1 s for a message; a join that *)
(* expires all the same, with a callback that hangs, is left out.            *)
Joined == thread \in {"none", "ended"}

FinishStop ==
  /\ loop = "stopping" /\ Joined
  /\ loop' = "stopped"
  /\ IF thread # "none"
     THEN connected' = FALSE /\ reason' = "ROS_SHUTDOWN"
     ELSE UNCHANGED linkVars
  /\ UNCHANGED <<pending, thread, viewVars, callVars, nodeVars, topicVars,
                 unsynced>>
------------------------------------------------------------------------------
(***************************************************************************)
(* The executor thread: _executor_loop                                     *)
(***************************************************************************)
(* _publish_event at the end of a callback *)
PublishEvent ==
  IF Publishing THEN pending' = TRUE /\ thread' = "publishing"
                ELSE pending' = pending /\ thread' = "refreshing"

(* spin_once finds nothing within its 0.1 s. *)
SpinIdle ==
  /\ thread = "spinning"
  /\ thread' = "refreshing"
  /\ UNCHANGED <<loop, pending, linkVars, viewVars, callVars, nodeVars,
                 topicVars, unsynced>>

(* Deviation: the hold of the health message is ignored. *)
OnHealthWithoutHold ==
  /\ thread = "spinning" /\ healthTopic # None
  /\ healthTopic' = None
  /\ connected' = TRUE /\ reason' = "OK"
  /\ PublishEvent
  /\ UNCHANGED <<loop, viewVars, callVars, nodeVars, holdTopic, unsynced>>

(* _on_health *)
OnHealth ==
  /\ thread = "spinning" /\ healthTopic # None
  /\ healthTopic' = None
  /\ hold' = (healthTopic = "hold")
  /\ connected' = TRUE /\ reason' = "OK"
  /\ PublishEvent
  /\ UNCHANGED <<loop, pinned, deadline, callVars, nodeVars, holdTopic,
                 unsynced>>

(* _on_control_hold *)
OnControlHold ==
  /\ thread = "spinning" /\ holdTopic # None
  /\ holdTopic' = None
  /\ hold' = (holdTopic = "hold")
  /\ PublishEvent
  /\ UNCHANGED <<loop, linkVars, pinned, deadline, callVars, nodeVars,
                 healthTopic, unsynced>>

(* _on_profile: the node never sets manual_pin_active, so its message clears *)
(* the pin of the profile it names.                                          *)
OnProfile ==
  /\ thread = "spinning"
  /\ pinned' = FALSE
  /\ PublishEvent
  /\ UNCHANGED <<loop, linkVars, hold, deadline, callVars, nodeVars,
                 healthTopic, holdTopic, unsynced>>

(* _on_switch, _on_trace *)
OnSwitchOrTrace ==
  /\ thread = "spinning"
  /\ PublishEvent
  /\ UNCHANGED <<loop, linkVars, viewVars, callVars, nodeVars, topicVars,
                 unsynced>>

(* spin_once completes the future of a call. *)
OnResponse(c) ==
  /\ thread = "spinning" /\ call[c].stage = "answered"
  /\ call' = [call EXCEPT ![c].stage = "done"]
  /\ thread' = "refreshing"
  /\ UNCHANGED <<loop, pending, linkVars, viewVars, abandoned, nodeVars,
                 topicVars, unsynced>>

(* The publication has run ... *)
PublishReturns ==
  /\ thread = "publishing" /\ ~pending
  /\ thread' = "refreshing"
  /\ UNCHANGED <<loop, pending, linkVars, viewVars, callVars, nodeVars,
                 topicVars, unsynced>>

(* ... or the wait for it times out; the loop still runs it later. *)
PublishTimesOut ==
  /\ thread = "publishing" /\ pending
  /\ thread' = "refreshing"
  /\ UNCHANGED <<loop, pending, linkVars, viewVars, callVars, nodeVars,
                 topicVars, unsynced>>

(* The loop test of _executor_loop; a thread that ends tears the node down. *)
NextRound == thread' = IF Stopping THEN "ended" ELSE "spinning"

SetConnected == connected' = TRUE /\ reason' = "OK"

SetAbsent == connected' = FALSE /\ reason' = "ROS_GRAPH_ABSENT"

(* _refresh_graph_state.  A new connection is announced first. *)
RefreshAnnounces ==
  /\ thread = "refreshing" /\ nodeUp /\ ~connected /\ Publishing
  /\ thread' = "announcing" /\ pending' = TRUE
  /\ UNCHANGED <<loop, linkVars, viewVars, callVars, nodeVars, topicVars,
                 unsynced>>

RefreshConnected ==
  /\ thread = "refreshing" /\ nodeUp /\ (connected \/ ~Publishing)
  /\ SetConnected /\ NextRound
  /\ UNCHANGED <<loop, pending, viewVars, callVars, nodeVars, topicVars,
                 unsynced>>

RefreshAbsent ==
  /\ thread = "refreshing" /\ ~nodeUp
  /\ SetAbsent /\ NextRound
  /\ UNCHANGED <<loop, pending, viewVars, callVars, nodeVars, topicVars,
                 unsynced>>

AnnounceReturns ==
  /\ thread = "announcing" /\ ~pending
  /\ SetConnected /\ NextRound
  /\ UNCHANGED <<loop, pending, viewVars, callVars, nodeVars, topicVars,
                 unsynced>>

(* Deviation: the publication is awaited without a timeout. *)
AnnounceWaits == FALSE /\ UNCHANGED vars

AnnounceTimesOut ==
  /\ thread = "announcing" /\ pending
  /\ SetConnected /\ NextRound
  /\ UNCHANGED <<loop, pending, viewVars, callVars, nodeVars, topicVars,
                 unsynced>>

(* Deviation: the failure has a state that nothing handles. *)
ExecutorHangs ==
  /\ thread \in {"spinning", "refreshing"}
  /\ thread' = "failed"
  /\ connected' = FALSE /\ reason' = "ROS_BRIDGE_ERROR"
  /\ UNCHANGED <<loop, pending, viewVars, callVars, nodeVars, topicVars,
                 unsynced>>

(* Any exception of rclpy or of a callback ends the thread for good. *)
ExecutorFails ==
  /\ thread \in {"spinning", "refreshing"}
  /\ thread' = "ended"
  /\ connected' = FALSE /\ reason' = "ROS_BRIDGE_ERROR"
  /\ UNCHANGED <<loop, pending, viewVars, callVars, nodeVars, topicVars,
                 unsynced>>
------------------------------------------------------------------------------
(***************************************************************************)
(* The request threads: set_policy, pin_profile, clear_pin, recovery       *)
(***************************************************************************)
(* A policy call of another thread that may still reach the node. *)
OtherPolicyCall(c) ==
  \E d \in Callers \ {c} : "policy" \in {call[d].op, abandoned[d]}

(* _require_client and call_async.  A thread has one abandoned call at most, *)
(* a bound of the model.                                                     *)
Request(c, op) ==
  /\ loop = "serving" /\ LockFree
  /\ call[c] = NoCall /\ abandoned[c] = None
  /\ connected /\ nodeUp /\ thread \notin {"none", "ended"}
  /\ call' = [call EXCEPT ![c] = [stage |-> "waiting", op |-> op,
                                  accepted |-> FALSE]]
  /\ unsynced' = (unsynced \/ (op = "policy" /\ OtherPolicyCall(c)))
  /\ UNCHANGED <<loop, pending, thread, linkVars, viewVars, abandoned,
                 nodeVars, topicVars>>

(* What an accepted call changes of the bridge's state. *)
UpdateView(c, op) ==
  /\ deadline' = IF op = "policy" THEN c ELSE deadline
  /\ pinned' = CASE op = "pin" -> TRUE [] op = "clear_pin" -> FALSE
                 [] OTHER -> pinned
  /\ hold' = IF op = "clear_control_hold" THEN FALSE ELSE hold

Accepted(c) ==
  /\ call[c].stage = "done" /\ call[c].accepted /\ LockFree
  /\ UpdateView(c, call[c].op)
  /\ call' = [call EXCEPT ![c] = NoCall]
  /\ UNCHANGED <<loop, pending, thread, linkVars, abandoned, nodeVars,
                 topicVars, unsynced>>

(* Deviation: the view is updated before the response is looked at. *)
RejectedUpdates(c) ==
  /\ call[c].stage = "done" /\ ~call[c].accepted
  /\ UpdateView(c, call[c].op)
  /\ call' = [call EXCEPT ![c] = NoCall]
  /\ UNCHANGED <<loop, pending, thread, linkVars, abandoned, nodeVars,
                 topicVars, unsynced>>

(* ROS_SERVICE_REJECTED *)
Rejected(c) ==
  /\ call[c].stage = "done" /\ ~call[c].accepted
  /\ call' = [call EXCEPT ![c] = NoCall]
  /\ UNCHANGED <<loop, pending, thread, linkVars, viewVars, abandoned,
                 nodeVars, topicVars, unsynced>>

(* Deviation: only a shutdown ends the wait. *)
GiveUpAtShutdown(c) ==
  /\ Stopping
  /\ call[c].stage \in {"waiting", "lost", "answered"}
  /\ abandoned' = [abandoned EXCEPT ![c] =
                     IF call[c].stage = "waiting" THEN call[c].op ELSE None]
  /\ call' = [call EXCEPT ![c] = NoCall]
  /\ unsynced' = (unsynced \/ call[c].op = "policy")
  /\ UNCHANGED <<loop, pending, thread, linkVars, viewVars, nodeVars,
                 topicVars>>

(* ROS_TIMEOUT, or ROS_SHUTDOWN once _stop is set.  The request is not       *)
(* cancelled: the node may still apply it, or has.                           *)
GiveUp(c) ==
  /\ call[c].stage \in {"waiting", "lost", "answered"}
  /\ abandoned' = [abandoned EXCEPT ![c] =
                     IF call[c].stage = "waiting" THEN call[c].op ELSE None]
  /\ call' = [call EXCEPT ![c] = NoCall]
  /\ unsynced' = (unsynced \/ call[c].op = "policy")
  /\ UNCHANGED <<loop, pending, thread, linkVars, viewVars, nodeVars,
                 topicVars>>
------------------------------------------------------------------------------
(***************************************************************************)
(* The runtime node as the bridge sees it                                  *)
(***************************************************************************)
(* An accepted recovery releases the hold, whichever action was asked for. *)
NodeApplies(c, op) ==
  /\ nodeDeadline' = IF op = "policy" THEN c ELSE nodeDeadline
  /\ nodeHold' = IF op \in {"clear_control_hold", "reload_profiles"}
                 THEN FALSE ELSE nodeHold

NodeAnswers(c) ==
  /\ nodeUp /\ call[c].stage = "waiting"
  /\ \/ /\ NodeApplies(c, call[c].op)
        /\ call' = [call EXCEPT ![c].stage = "answered", ![c].accepted = TRUE]
     \/ /\ call[c].op # "clear_pin"
        /\ call' = [call EXCEPT ![c].stage = "answered"]
        /\ UNCHANGED <<nodeDeadline, nodeHold>>
  /\ UNCHANGED <<loop, pending, thread, linkVars, viewVars, abandoned, nodeUp,
                 topicVars, unsynced>>

NodeAnswersAbandoned(c) ==
  /\ nodeUp /\ abandoned[c] # None
  /\ \/ NodeApplies(c, abandoned[c])
     \/ UNCHANGED <<nodeDeadline, nodeHold>>
  /\ abandoned' = [abandoned EXCEPT ![c] = None]
  /\ UNCHANGED <<loop, pending, thread, linkVars, viewVars, call, nodeUp,
                 topicVars, unsynced>>

(* A refused frame: the hold is announced. *)
NodeHolds ==
  /\ nodeUp
  /\ nodeHold' = TRUE /\ holdTopic' = "hold"
  /\ UNCHANGED <<loop, pending, thread, linkVars, viewVars, callVars, nodeUp,
                 nodeDeadline, healthTopic, unsynced>>

(* A good frame ends the reported hold without a message on the hold topic. *)
NodeReleases ==
  /\ nodeUp /\ nodeHold
  /\ nodeHold' = FALSE
  /\ UNCHANGED <<loop, pending, thread, linkVars, viewVars, callVars, nodeUp,
                 nodeDeadline, topicVars, unsynced>>

(* The telemetry timer *)
NodePublishesHealth ==
  /\ nodeUp
  /\ healthTopic' = IF nodeHold THEN "hold" ELSE "release"
  /\ UNCHANGED <<loop, pending, thread, linkVars, viewVars, callVars,
                 nodeVars, holdTopic, unsynced>>

(* The node goes away with the calls it has not answered. *)
NodeDisappears ==
  /\ nodeUp
  /\ nodeUp' = FALSE
  /\ call' = [c \in Callers |-> IF call[c].stage = "waiting"
                                THEN [call[c] EXCEPT !.stage = "lost"]
                                ELSE call[c]]
  /\ abandoned' = [c \in Callers |-> None]
  /\ unsynced' = TRUE
  /\ UNCHANGED <<loop, pending, thread, linkVars, viewVars, nodeHold,
                 nodeDeadline, topicVars>>

(* A new node is activated with its defaults and announces its hold. *)
NodeAppears ==
  /\ ~nodeUp
  /\ nodeUp' = TRUE /\ nodeDeadline' = None
  /\ nodeHold' \in BOOLEAN
  /\ holdTopic' = IF nodeHold' THEN "hold" ELSE "release"
  /\ UNCHANGED <<loop, pending, thread, linkVars, viewVars, callVars,
                 healthTopic, unsynced>>
------------------------------------------------------------------------------
Loop == ReadState \/ RunPublication \/ FinishStop

Round ==
  \/ SpinIdle \/ OnHealth \/ OnControlHold \/ OnProfile
  \/ OnSwitchOrTrace
  \/ \E c \in Callers : OnResponse(c)
  \/ PublishReturns \/ PublishTimesOut
  \/ RefreshAnnounces \/ RefreshConnected \/ RefreshAbsent
  \/ AnnounceReturns \/ AnnounceTimesOut

Return(c) == Accepted(c) \/ Rejected(c) \/ GiveUp(c)

NodeNext ==
  \/ NodeHolds \/ NodeReleases \/ NodePublishesHealth
  \/ NodeDisappears \/ NodeAppears
  \/ \E c \in Callers : NodeAnswers(c) \/ NodeAnswersAbandoned(c)

BridgeNext ==
  \/ StartWithoutRos \/ StartWithRos \/ Loop \/ BeginStop
  \/ Round \/ ExecutorFails
  \/ \E c \in Callers : Return(c) \/ \E op \in Operations : Request(c, op)
  \/ NodeNext

BridgeSpec == BridgeInit /\ [][BridgeNext]_vars

(* The threads run; who waits for the lock gets it, free for most of each   *)
(* round; an executor with several things ready comes to each of them; the  *)
(* clock of a waiting request advances; the telemetry timer of a node that  *)
(* is up fires.                                                              *)
LiveBridgeSpec ==
  /\ BridgeSpec
  /\ WF_vars(Loop) /\ WF_vars(Round) /\ SF_vars(ReadState)
  /\ SF_vars(OnHealth) /\ SF_vars(OnControlHold)
  /\ WF_vars(NodePublishesHealth)
  /\ \A c \in Callers : SF_vars(Accepted(c)) /\ WF_vars(Return(c))
------------------------------------------------------------------------------
(* The reason the API gives with the connection is the one of the present:  *)
(* "OK" exactly when connected (health, graph state, failure and shutdown   *)
(* each write both, from different threads).                                 *)
ReasonMatchesConnection == connected <=> reason = "OK"

(* A bridge that is stopped, or whose thread has failed, never says it is   *)
(* connected: nothing would ever withdraw it (stop, _executor_loop).         *)
EndedBridgeIsDisconnected ==
  (loop = "stopped" \/ (thread = "ended" /\ ~Stopping)) => ~connected

(* Without overlapping, abandoned or lost policy calls the deadline the API *)
(* shows is the one the node works with (set_policy updates its copy after  *)
(* the response).  With two calls at once the copy keeps the later response *)
(* and the node the later request, and no topic ever corrects it.           *)
DeadlineIsTheNodes ==
  ~unsynced /\ deadline # None /\ (\A c \in Callers : call[c] = NoCall)
    => deadline = nodeDeadline

(* The event loop gets past the lock and the join although the executor     *)
(* thread holds the lock, or lives on, while it waits for the loop          *)
(* (_refresh_graph_state, publish_from_bridge, the lifespan).                *)
LoopIsNeverStuck ==
  /\ loop = "starting" ~> loop = "serving"
  /\ loop = "stopping" ~> loop = "stopped"

(* A mutation answers its client whatever becomes of node and executor      *)
(* thread (_wait_future).                                                    *)
CallsReturn == \A c \in Callers : call[c] # NoCall ~> call[c] = NoCall

(* Whatever order topics and responses arrive in, the hold the API shows    *)
(* becomes and stays the node's once that stays the same (_on_health,       *)
(* _on_control_hold, recovery).                                              *)
Bridging == nodeUp /\ thread \notin {"none", "ended"}
HoldViewConverges ==
  /\ <>[](Bridging /\ nodeHold) => <>[]hold
  /\ <>[](Bridging /\ ~nodeHold) => <>[]~hold

(* docs/api-reference.md: "Local state is updated only after successful     *)
(* service responses".  The pin the API shows changes only with one.        *)
PinFollowsResponses ==
  [][pinned' # pinned => \E c \in Callers : Accepted(c)]_vars
==============================================================================
