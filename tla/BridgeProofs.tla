------------------------------ MODULE BridgeProofs ------------------------------
(***************************************************************************)
(* Proofs about RosBridge: whatever the threads, the node and the topics   *)
(* do, the reason of the connection is the right one, and a bridge whose   *)
(* thread has ended does not say it is connected.                          *)
(***************************************************************************)
EXTENDS RosBridge, TLAPS

(* A bridge without a thread was never connected; a stopped one has lost    *)
(* its thread; a thread that ends by itself withdraws the connection.        *)
BridgeInv ==
  /\ ReasonMatchesConnection
  /\ thread = "none" => ~connected
  /\ loop = "stopped" => thread \in {"none", "ended"} /\ ~connected
  /\ thread = "ended" /\ ~Stopping => ~connected

LEMMA BridgeStarts ==
  ASSUME BridgeInit
  PROVE  BridgeInv
BY DEF BridgeInit, BridgeInv, ReasonMatchesConnection

(* The event loop: start, publications, stop. *)
LEMMA LoopKeepsInv ==
  ASSUME BridgeInv, StartWithoutRos \/ StartWithRos \/ Loop \/ BeginStop
  PROVE  BridgeInv'
<1>1. CASE StartWithoutRos \/ ReadState \/ RunPublication \/ BeginStop
  BY <1>1 DEF StartWithoutRos, ReadState, RunPublication, BeginStop, BridgeInv,
     ReasonMatchesConnection, Stopping, linkVars
<1>2. CASE StartWithRos
  BY <1>2 DEF StartWithRos, BridgeInv, ReasonMatchesConnection, Stopping
<1>3. CASE FinishStop
  BY <1>3 DEF FinishStop, Joined, BridgeInv, ReasonMatchesConnection, Stopping,
     linkVars
<1> QED BY <1>1, <1>2, <1>3 DEF Loop

(* The callbacks and waits of the executor thread.  The thread is alive      *)
(* before and after, so the loop has not stopped.                            *)
LEMMA CallbackKeepsInv ==
  ASSUME BridgeInv,
         \/ SpinIdle \/ OnHealth \/ OnControlHold \/ OnProfile
         \/ OnSwitchOrTrace \/ \E c \in Callers : OnResponse(c)
         \/ PublishReturns \/ PublishTimesOut \/ RefreshAnnounces
  PROVE  BridgeInv'
<1>1. /\ thread \notin {"none", "ended"} /\ thread' \notin {"none", "ended"}
      /\ loop' = loop
  BY DEF SpinIdle, OnHealth, OnControlHold, OnProfile, OnSwitchOrTrace,
     OnResponse, PublishReturns, PublishTimesOut, RefreshAnnounces, PublishEvent
<1>2. ReasonMatchesConnection'
  BY DEF SpinIdle, OnHealth, OnControlHold, OnProfile, OnSwitchOrTrace,
     OnResponse, PublishReturns, PublishTimesOut, RefreshAnnounces, BridgeInv,
     ReasonMatchesConnection, linkVars
<1> QED BY <1>1, <1>2 DEF BridgeInv, Stopping

(* The end of a round, where the thread sees that it should stop. *)
LEMMA RefreshKeepsInv ==
  ASSUME BridgeInv,
         \/ RefreshConnected \/ RefreshAbsent
         \/ AnnounceReturns \/ AnnounceTimesOut
  PROVE  BridgeInv'
<1>1. /\ thread \notin {"none", "ended"} /\ loop' = loop
      /\ thread' = IF Stopping THEN "ended" ELSE "spinning"
  BY DEF RefreshConnected, RefreshAbsent, AnnounceReturns, AnnounceTimesOut,
     NextRound
<1>2. ReasonMatchesConnection'
  BY DEF RefreshConnected, RefreshAbsent, AnnounceReturns, AnnounceTimesOut,
     SetConnected, SetAbsent, ReasonMatchesConnection
<1> QED BY <1>1, <1>2 DEF BridgeInv, Stopping

(* Everything else leaves thread, loop and connection alone. *)
LEMMA OthersKeepInv ==
  ASSUME BridgeInv, UNCHANGED <<loop, thread, linkVars>>
  PROVE  BridgeInv'
BY DEF BridgeInv, ReasonMatchesConnection, Stopping, linkVars

(* The invariant is inductive. *)
LEMMA BridgeInvHolds == BridgeSpec => []BridgeInv
<1>1. BridgeInit => BridgeInv
  BY BridgeStarts
<1>2. BridgeInv /\ [BridgeNext]_vars => BridgeInv'
  <2> SUFFICES ASSUME BridgeInv, [BridgeNext]_vars PROVE BridgeInv'
    OBVIOUS
  <2>1. CASE StartWithoutRos \/ StartWithRos \/ Loop \/ BeginStop
    BY <2>1, LoopKeepsInv
  <2>2. CASE Round
    BY <2>2, CallbackKeepsInv, RefreshKeepsInv DEF Round
  <2>3. CASE ExecutorFails
    BY <2>3 DEF ExecutorFails, BridgeInv, ReasonMatchesConnection, Stopping
  <2>4. ASSUME NEW c \in Callers,
               Return(c) \/ \E op \in Operations : Request(c, op)
        PROVE  BridgeInv'
    BY <2>4, OthersKeepInv DEF Return, Accepted, Rejected, GiveUp, Request
  <2>5. CASE NodeNext
    BY <2>5, OthersKeepInv DEF NodeNext, NodeHolds, NodeReleases,
       NodePublishesHealth, NodeDisappears, NodeAppears, NodeAnswers,
       NodeAnswersAbandoned
  <2>6. CASE UNCHANGED vars
    BY <2>6, OthersKeepInv DEF vars
  <2> QED BY <2>1, <2>2, <2>3, <2>4, <2>5, <2>6 DEF BridgeNext
<1> QED BY <1>1, <1>2, PTL DEF BridgeSpec

(* The API says "OK" of the connection exactly while it is connected: health *)
(* messages, graph state, failure and shutdown write both halves.            *)
THEOREM ReasonAlwaysMatchesConnection == BridgeSpec => []ReasonMatchesConnection
BY BridgeInvHolds, PTL DEF BridgeInv

(* A bridge that is stopped, or whose thread has failed, is disconnected: no *)
(* thread is left that could connect it or withdraw the connection.          *)
THEOREM EndedBridgeIsAlwaysDisconnected ==
  BridgeSpec => []EndedBridgeIsDisconnected
<1>1. BridgeInv => EndedBridgeIsDisconnected
  BY DEF BridgeInv, EndedBridgeIsDisconnected
<1> QED BY <1>1, BridgeInvHolds, PTL

------------------------------------------------------------------------------
(* The types.  A call under way is a record of three fields.                  *)
LEMMA NoCallIsIdle ==
  NoCall \in Calls /\ NoCall.stage = "idle" /\ NoCall.op = None /\ ~NoCall.accepted
BY DEF Calls, NoCall

LEMMA UnderWay ==
  ASSUME NEW k \in Calls, k # NoCall
  PROVE  /\ k.stage # "idle"
         /\ k.op \in AllOperations
         /\ k \in [stage : {"waiting", "lost", "answered", "done"},
                   op : AllOperations, accepted : BOOLEAN]
BY DEF Calls, NoCall

LEMMA Staged ==
  ASSUME NEW k \in Calls, k # NoCall,
         NEW s \in {"waiting", "lost", "answered", "done"},
         NEW m, m = [k EXCEPT !.stage = s]
  PROVE  m \in Calls /\ m.stage = s /\ m.op = k.op /\ m.accepted = k.accepted
BY UnderWay DEF Calls

LEMMA TakenUp ==
  ASSUME NEW k \in Calls, k # NoCall,
         NEW m, m = [k EXCEPT !.stage = "answered", !.accepted = TRUE]
  PROVE  m \in Calls /\ m.stage = "answered" /\ m.op = k.op /\ m.accepted
BY UnderWay DEF Calls

(* What the steps of a call do to it and to the others. *)
OneCall(c, k) ==
  /\ call' \in [Callers -> Calls]
  /\ call'[c] = k
  /\ \A b \in Callers \ {c} : call'[b] = call[b]

LEMMA CallBecomes ==
  ASSUME BridgeTypeOK, NEW c \in Callers, NEW k \in Calls,
         call' = [call EXCEPT ![c] = k]
  PROVE  OneCall(c, k)
BY DEF OneCall, BridgeTypeOK

LEMMA RequestChanges ==
  ASSUME BridgeTypeOK, NEW c \in Callers, NEW op \in Operations, Request(c, op)
  PROVE  /\ call[c] = NoCall
         /\ OneCall(c, [stage |-> "waiting", op |-> op, accepted |-> FALSE])
<1>1. [stage |-> "waiting", op |-> op, accepted |-> FALSE] \in Calls
  BY BridgeAssumption DEF Calls
<1> QED BY <1>1, CallBecomes DEF Request

LEMMA ReturnChanges ==
  ASSUME BridgeTypeOK, NEW c \in Callers, Return(c)
  PROVE  call[c] \in Calls /\ call[c] # NoCall /\ OneCall(c, NoCall)
<1>1. call[c].stage # "idle"
  BY DEF Return, Accepted, Rejected, GiveUp
<1>2. call' = [call EXCEPT ![c] = NoCall]
  BY DEF Return, Accepted, Rejected, GiveUp
<1> QED BY <1>1, <1>2, CallBecomes, NoCallIsIdle DEF BridgeTypeOK

LEMMA ResponseChanges ==
  ASSUME BridgeTypeOK, NEW c \in Callers, OnResponse(c)
  PROVE  \E k \in Calls :
           /\ OneCall(c, k)
           /\ call[c] # NoCall
           /\ k.stage = "done" /\ k.op = call[c].op /\ k.accepted = call[c].accepted
<1> DEFINE m == [call[c] EXCEPT !.stage = "done"]
<1>1. call[c] \in Calls /\ call[c] # NoCall
  BY NoCallIsIdle DEF OnResponse, BridgeTypeOK
<1>2. call' = [call EXCEPT ![c] = m]
  BY DEF OnResponse
<1>3. m \in Calls /\ m.stage = "done" /\ m.op = call[c].op
      /\ m.accepted = call[c].accepted
  BY <1>1, Staged
<1> HIDE DEF m
<1> QED BY <1>1, <1>2, <1>3, CallBecomes

LEMMA AnswerChanges ==
  ASSUME BridgeTypeOK, NEW c \in Callers, NodeAnswers(c)
  PROVE  \E k \in Calls :
           /\ OneCall(c, k)
           /\ call[c] # NoCall
           /\ k.stage = "answered" /\ k.op = call[c].op
           /\ \/ k.accepted /\ NodeApplies(c, call[c].op)
              \/ /\ k.accepted = call[c].accepted
                 /\ UNCHANGED <<nodeDeadline, nodeHold>>
<1>1. call[c] \in Calls /\ call[c] # NoCall
  BY NoCallIsIdle DEF NodeAnswers, BridgeTypeOK
<1>2. CASE /\ NodeApplies(c, call[c].op)
           /\ call' = [call EXCEPT ![c].stage = "answered", ![c].accepted = TRUE]
  <2> DEFINE m == [call[c] EXCEPT !.stage = "answered", !.accepted = TRUE]
  <2>1. call' = [call EXCEPT ![c] = m]
    BY <1>2 DEF BridgeTypeOK
  <2>2. m \in Calls /\ m.stage = "answered" /\ m.op = call[c].op /\ m.accepted
    BY <1>1, TakenUp
  <2> HIDE DEF m
  <2> QED BY <1>1, <1>2, <2>1, <2>2, CallBecomes
<1>3. CASE /\ call' = [call EXCEPT ![c].stage = "answered"]
           /\ UNCHANGED <<nodeDeadline, nodeHold>>
  <2> DEFINE m == [call[c] EXCEPT !.stage = "answered"]
  <2>1. call' = [call EXCEPT ![c] = m]
    BY <1>3
  <2>2. m \in Calls /\ m.stage = "answered" /\ m.op = call[c].op
        /\ m.accepted = call[c].accepted
    BY <1>1, Staged
  <2> HIDE DEF m
  <2> QED BY <1>1, <1>3, <2>1, <2>2, CallBecomes
<1> QED BY <1>2, <1>3 DEF NodeAnswers

LEMMA DisappearanceChanges ==
  ASSUME BridgeTypeOK, NodeDisappears
  PROVE  /\ call' \in [Callers -> Calls]
         /\ \A c \in Callers : call'[c].stage # "waiting"
<1>1. ASSUME NEW c \in Callers
      PROVE  call'[c] \in Calls /\ call'[c].stage # "waiting"
  <2> DEFINE m == [call[c] EXCEPT !.stage = "lost"]
  <2>1. CASE call[c].stage = "waiting"
    <3>1. call'[c] = m
      BY <2>1 DEF NodeDisappears
    <3>2. m \in Calls /\ m.stage = "lost"
      BY <2>1, Staged, NoCallIsIdle DEF BridgeTypeOK
    <3> HIDE DEF m
    <3> QED BY <3>1, <3>2
  <2>2. CASE call[c].stage # "waiting"
    BY <2>2 DEF NodeDisappears, BridgeTypeOK
  <2> QED BY <2>1, <2>2
<1> QED BY <1>1 DEF NodeDisappears

LoopType == loop \in {"created", "starting", "serving", "stopping", "stopped"}
ThreadType ==
  /\ pending \in BOOLEAN
  /\ thread \in {"none", "spinning", "publishing", "refreshing", "announcing",
                 "ended"}
LinkType ==
  /\ connected \in BOOLEAN
  /\ reason \in {"ROS_UNAVAILABLE", "ROS_GRAPH_ABSENT", "OK", "ROS_SHUTDOWN",
                 "ROS_BRIDGE_ERROR"}
ViewType == hold \in BOOLEAN /\ pinned \in BOOLEAN /\ deadline \in Deadlines
CallType ==
  call \in [Callers -> Calls] /\ abandoned \in [Callers -> AllOperations \cup {None}]
NodeType == nodeUp \in BOOLEAN /\ nodeHold \in BOOLEAN /\ nodeDeadline \in Deadlines
TopicType == healthTopic \in Messages /\ holdTopic \in Messages

(* What a step leaves alone keeps its type. *)
LEMMA UnchangedTypes ==
  ASSUME BridgeTypeOK
  PROVE  /\ loop' = loop => LoopType'
         /\ UNCHANGED <<pending, thread>> => ThreadType'
         /\ UNCHANGED linkVars => LinkType'
         /\ UNCHANGED viewVars => ViewType'
         /\ UNCHANGED callVars => CallType'
         /\ UNCHANGED nodeVars => NodeType'
         /\ UNCHANGED topicVars => TopicType'
         /\ unsynced' = unsynced => unsynced' \in BOOLEAN
BY DEF BridgeTypeOK, LoopType, ThreadType, LinkType, ViewType, CallType, NodeType,
   TopicType, linkVars, viewVars, callVars, nodeVars, topicVars

LEMMA LoopKeepsType ==
  ASSUME BridgeTypeOK, StartWithoutRos \/ StartWithRos \/ Loop \/ BeginStop
  PROVE  BridgeTypeOK'
<1>1. LoopType' /\ ThreadType'
  BY DEF StartWithoutRos, StartWithRos, Loop, ReadState, RunPublication, FinishStop,
     BeginStop, BridgeTypeOK, LoopType, ThreadType
<1>2. LinkType'
  BY UnchangedTypes DEF StartWithoutRos, StartWithRos, Loop, ReadState,
     RunPublication, FinishStop, BeginStop, LinkType
<1>3. ViewType' /\ CallType' /\ NodeType' /\ TopicType' /\ unsynced' \in BOOLEAN
  BY UnchangedTypes DEF StartWithoutRos, StartWithRos, Loop, ReadState,
     RunPublication, FinishStop, BeginStop
<1> QED BY <1>1, <1>2, <1>3 DEF BridgeTypeOK, LoopType, ThreadType, LinkType,
       ViewType, CallType, NodeType, TopicType

LEMMA RoundKeepsType ==
  ASSUME BridgeTypeOK, Round \/ ExecutorFails
  PROVE  BridgeTypeOK'
<1> USE DEF Round, SpinIdle, OnHealth, OnControlHold, OnProfile, OnSwitchOrTrace,
        OnResponse, PublishReturns, PublishTimesOut, RefreshAnnounces,
        RefreshConnected, RefreshAbsent, AnnounceReturns, AnnounceTimesOut,
        ExecutorFails
<1>1. LoopType' /\ NodeType' /\ unsynced' \in BOOLEAN
  BY UnchangedTypes
<1>2. ThreadType'
  BY DEF PublishEvent, NextRound, BridgeTypeOK, ThreadType
<1>3. LinkType'
  BY UnchangedTypes DEF SetConnected, SetAbsent, LinkType
<1>4. ViewType'
  BY UnchangedTypes DEF ViewType, BridgeTypeOK
<1>5. TopicType'
  BY UnchangedTypes DEF TopicType, BridgeTypeOK, Messages
<1>6. CallType'
  <2>1. ASSUME NEW c \in Callers, OnResponse(c) PROVE CallType'
    <3>1. call' \in [Callers -> Calls]
      BY <2>1, ResponseChanges DEF OneCall
    <3> QED BY <2>1, <3>1 DEF CallType, BridgeTypeOK
  <2> QED BY <2>1, UnchangedTypes
<1> QED BY <1>1, <1>2, <1>3, <1>4, <1>5, <1>6 DEF BridgeTypeOK, LoopType, ThreadType, LinkType,
       ViewType, CallType, NodeType, TopicType

LEMMA RequestsKeepType ==
  ASSUME BridgeTypeOK, NEW c \in Callers,
         Return(c) \/ \E op \in Operations : Request(c, op)
  PROVE  BridgeTypeOK'
<1>1. call' \in [Callers -> Calls]
  BY ReturnChanges, RequestChanges DEF OneCall
<1>2. abandoned' \in [Callers -> AllOperations \cup {None}]
  <2>1. call[c] # NoCall => call[c].op \in AllOperations
    BY UnderWay DEF BridgeTypeOK
  <2> QED BY <2>1, ReturnChanges DEF Return, Accepted, Rejected, GiveUp, Request,
          BridgeTypeOK
<1>3. LoopType' /\ ThreadType' /\ LinkType' /\ NodeType' /\ TopicType'
  BY UnchangedTypes DEF Return, Accepted, Rejected, GiveUp, Request
<1>4. ViewType'
  BY UnchangedTypes DEF Return, Accepted, Rejected, GiveUp, Request, UpdateView,
     BridgeTypeOK, ViewType, Deadlines
<1>5. unsynced' \in BOOLEAN
  BY DEF Return, Accepted, Rejected, GiveUp, Request, BridgeTypeOK
<1> QED BY <1>1, <1>2, <1>3, <1>4, <1>5 DEF BridgeTypeOK, LoopType, ThreadType, LinkType,
       ViewType, CallType, NodeType, TopicType

LEMMA NodeKeepsType ==
  ASSUME BridgeTypeOK, NodeNext
  PROVE  BridgeTypeOK'
<1>1. LoopType' /\ ThreadType' /\ LinkType' /\ ViewType'
  BY UnchangedTypes DEF NodeNext, NodeHolds, NodeReleases, NodePublishesHealth,
     NodeDisappears, NodeAppears, NodeAnswers, NodeAnswersAbandoned
<1>2. CallType'
  <2>1. ASSUME NEW c \in Callers, NodeAnswers(c) PROVE CallType'
    <3>1. call' \in [Callers -> Calls]
      BY <2>1, AnswerChanges DEF OneCall
    <3> QED BY <2>1, <3>1 DEF NodeAnswers, CallType, BridgeTypeOK
  <2>2. ASSUME NEW c \in Callers, NodeAnswersAbandoned(c) PROVE CallType'
    BY <2>2 DEF NodeAnswersAbandoned, CallType, BridgeTypeOK
  <2>3. ASSUME NodeDisappears PROVE CallType'
    BY <2>3, DisappearanceChanges DEF NodeDisappears, CallType
  <2> QED BY <2>1, <2>2, <2>3, UnchangedTypes DEF NodeNext, NodeHolds,
          NodeReleases, NodePublishesHealth, NodeAppears
<1>3. NodeType'
  BY UnchangedTypes DEF NodeNext, NodeHolds, NodeReleases, NodePublishesHealth,
     NodeDisappears, NodeAppears, NodeAnswers, NodeAnswersAbandoned, NodeApplies,
     NodeType, BridgeTypeOK, Deadlines, nodeVars
<1>4. TopicType'
  BY UnchangedTypes DEF NodeNext, NodeHolds, NodeReleases, NodePublishesHealth,
     NodeDisappears, NodeAppears, NodeAnswers, NodeAnswersAbandoned,
     TopicType, BridgeTypeOK, Messages
<1>5. unsynced' \in BOOLEAN
  BY UnchangedTypes DEF NodeNext, NodeHolds, NodeReleases, NodePublishesHealth,
     NodeDisappears, NodeAppears, NodeAnswers, NodeAnswersAbandoned
<1> QED BY <1>1, <1>2, <1>3, <1>4, <1>5 DEF BridgeTypeOK, LoopType, ThreadType, LinkType,
       ViewType, CallType, NodeType, TopicType

(* The bridge's state keeps its types, whichever thread writes it.            *)
THEOREM BridgeTypeCorrect == BridgeSpec => []BridgeTypeOK
<1>1. BridgeInit => BridgeTypeOK
  BY DEF BridgeInit, BridgeTypeOK, Calls, NoCall, Deadlines, Messages
<1>2. BridgeTypeOK /\ [BridgeNext]_vars => BridgeTypeOK'
  <2>1. ASSUME BridgeTypeOK, UNCHANGED vars PROVE BridgeTypeOK'
    BY <2>1 DEF BridgeTypeOK, vars, linkVars, viewVars, callVars, nodeVars, topicVars
  <2> QED BY <2>1, LoopKeepsType, RoundKeepsType, RequestsKeepType, NodeKeepsType
          DEF BridgeNext
<1> QED BY <1>1, <1>2, PTL DEF BridgeSpec

------------------------------------------------------------------------------
(* How the two deadlines are related while calls are under way: the node is   *)
(* ahead by the one policy call that it has accepted and whose response the   *)
(* bridge has yet to look at.                                                 *)
Ahead(c) == call[c].op = "policy" /\ call[c].accepted

OnePolicyCall ==
  /\ \A c \in Callers : abandoned[c] # "policy"
  /\ \A b, c \in Callers :
       call[b].op = "policy" /\ call[c].op = "policy" => b = c

FreshWithoutNode ==
  ~nodeUp => /\ nodeDeadline = None /\ deadline = None
             /\ \A c \in Callers : call[c] = NoCall

Related ==
  /\ \A c \in Callers : Ahead(c) => nodeDeadline = c
  /\ (\A c \in Callers : ~Ahead(c)) => nodeDeadline = deadline

DeadlineInv ==
  /\ \A c \in Callers : call[c].stage = "waiting" => ~call[c].accepted
  /\ ~unsynced => OnePolicyCall /\ FreshWithoutNode /\ Related

LEMMA OthersKeepDeadlines ==
  ASSUME DeadlineInv,
         UNCHANGED <<call, abandoned, nodeUp, nodeDeadline, deadline, unsynced>>
  PROVE  DeadlineInv'
BY DEF DeadlineInv, OnePolicyCall, FreshWithoutNode, Related, Ahead

LEMMA RequestKeepsDeadlines ==
  ASSUME BridgeTypeOK, DeadlineInv, NEW c \in Callers, NEW op \in Operations,
         Request(c, op)
  PROVE  DeadlineInv'
<1>1. /\ call[c] = NoCall /\ nodeUp /\ nodeUp' = nodeUp
      /\ UNCHANGED <<abandoned, nodeDeadline, deadline>>
      /\ call'[c] = [stage |-> "waiting", op |-> op, accepted |-> FALSE]
      /\ \A b \in Callers \ {c} : call'[b] = call[b]
  BY RequestChanges DEF Request, OneCall, nodeVars, viewVars
<1>2. \A b \in Callers : call'[b].stage = "waiting" => ~call'[b].accepted
  BY <1>1 DEF DeadlineInv
<1>3. ASSUME ~unsynced' PROVE (OnePolicyCall /\ FreshWithoutNode /\ Related)'
  <2>1. /\ ~unsynced
        /\ op = "policy" => \A b \in Callers \ {c} : call[b].op # "policy"
    BY <1>3 DEF Request, OtherPolicyCall
  <2>2. OnePolicyCall'
    BY <1>1, <2>1 DEF DeadlineInv, OnePolicyCall
  <2>3. Related'
    BY <1>1, <2>1 DEF DeadlineInv, Related, Ahead, NoCall
  <2> QED BY <1>1, <2>2, <2>3 DEF FreshWithoutNode
<1> QED BY <1>2, <1>3 DEF DeadlineInv

LEMMA ReturnKeepsDeadlines ==
  ASSUME BridgeTypeOK, DeadlineInv, NEW c \in Callers, Return(c)
  PROVE  DeadlineInv'
<1>1. /\ call[c].stage # "idle" /\ call[c] # NoCall
      /\ UNCHANGED <<nodeUp, nodeDeadline>>
      /\ call'[c] = NoCall
      /\ \A b \in Callers \ {c} : call'[b] = call[b]
  <2>1. UNCHANGED <<nodeUp, nodeDeadline>>
    BY DEF Return, Accepted, Rejected, GiveUp, nodeVars
  <2>2. call[c].stage # "idle"
    BY DEF Return, Accepted, Rejected, GiveUp
  <2> QED BY <2>1, <2>2, ReturnChanges DEF OneCall
<1>2. \A b \in Callers : call'[b].stage = "waiting" => ~call'[b].accepted
  BY <1>1 DEF DeadlineInv, NoCall
<1>3. ASSUME ~unsynced' PROVE (OnePolicyCall /\ FreshWithoutNode /\ Related)'
  <2>1. ~unsynced /\ nodeUp /\ OnePolicyCall /\ Related
    BY <1>1, <1>3 DEF Return, Accepted, Rejected, GiveUp, DeadlineInv,
       FreshWithoutNode, BridgeTypeOK
  <2>2. \A b \in Callers : abandoned'[b] # "policy"
    BY <1>3, <2>1, BridgeAssumption DEF Return, Accepted, Rejected, GiveUp, OnePolicyCall,
       BridgeTypeOK, AllOperations
  <2>3. OnePolicyCall'
    BY <1>1, <2>1, <2>2, BridgeAssumption DEF OnePolicyCall, NoCall, AllOperations
  <2>4. Related'
    <3>1. CASE Ahead(c)
      <4>1. Accepted(c) /\ deadline' = c /\ nodeDeadline = c
        BY <1>3, <2>1, <3>1 DEF Ahead, Return, Accepted, Rejected, GiveUp, UpdateView,
           Related
      <4>2. \A b \in Callers : ~Ahead(b)'
        BY <1>1, <2>1, <3>1 DEF Ahead, OnePolicyCall, NoCall
      <4> QED BY <1>1, <4>1, <4>2 DEF Related
    <3>2. CASE ~Ahead(c)
      <4>1. deadline' = deadline
        BY <3>2 DEF Ahead, Return, Accepted, Rejected, GiveUp, UpdateView, viewVars
      <4>2. \A b \in Callers : Ahead(b)' <=> Ahead(b)
        BY <1>1, <3>2 DEF Ahead, NoCall
      <4> QED BY <1>1, <2>1, <4>1, <4>2 DEF Related
    <3> QED BY <3>1, <3>2
  <2> QED BY <1>1, <2>1, <2>3, <2>4 DEF FreshWithoutNode
<1> QED BY <1>2, <1>3 DEF DeadlineInv

LEMMA AnswerKeepsDeadlines ==
  ASSUME BridgeTypeOK, DeadlineInv, NEW c \in Callers, NodeAnswers(c)
  PROVE  DeadlineInv'
<1>0. PICK k \in Calls :
        /\ OneCall(c, k)
        /\ k.stage = "answered" /\ k.op = call[c].op
        /\ \/ k.accepted /\ NodeApplies(c, call[c].op)
           \/ /\ k.accepted = call[c].accepted
              /\ UNCHANGED <<nodeDeadline, nodeHold>>
  BY AnswerChanges
<1>1. /\ call[c].stage = "waiting" /\ call'[c].stage = "answered"
      /\ call'[c].op = call[c].op
      /\ nodeUp /\ nodeUp' = nodeUp
      /\ UNCHANGED <<abandoned, deadline, unsynced>>
      /\ \A b \in Callers \ {c} : call'[b] = call[b]
  BY <1>0 DEF NodeAnswers, OneCall, viewVars
<1>2. ~call[c].accepted
  BY <1>1 DEF DeadlineInv
<1>3. \A b \in Callers : call'[b].stage = "waiting" => ~call'[b].accepted
  BY <1>1 DEF DeadlineInv
<1>4. ASSUME ~unsynced PROVE (OnePolicyCall /\ FreshWithoutNode /\ Related)'
  <2>1. OnePolicyCall /\ Related
    BY <1>4 DEF DeadlineInv
  <2>2. OnePolicyCall'
    BY <1>1, <2>1 DEF OnePolicyCall
  <2>3. \/ call[c].op = "policy" /\ call'[c].accepted /\ nodeDeadline' = c
        \/ nodeDeadline' = nodeDeadline /\ ~Ahead(c)'
    BY <1>0, <1>1, <1>2 DEF OneCall, NodeApplies, Ahead
  <2>4. \A b \in Callers \ {c} : Ahead(b)' <=> Ahead(b)
    BY <1>1 DEF Ahead
  <2>5. Related'
    <3>1. CASE call[c].op = "policy" /\ call'[c].accepted /\ nodeDeadline' = c
      BY <1>1, <2>1, <2>4, <3>1 DEF Related, Ahead, OnePolicyCall
    <3>2. CASE nodeDeadline' = nodeDeadline /\ ~Ahead(c)'
      BY <1>1, <1>2, <2>1, <2>4, <3>2 DEF Related, Ahead
    <3> QED BY <2>3, <3>1, <3>2
  <2> QED BY <1>1, <2>2, <2>5 DEF FreshWithoutNode
<1> QED BY <1>1, <1>3, <1>4 DEF DeadlineInv

LEMMA NodeKeepsDeadlines ==
  ASSUME BridgeTypeOK, DeadlineInv, NodeNext
  PROVE  DeadlineInv'
<1>1. CASE NodeHolds \/ NodeReleases \/ NodePublishesHealth
  BY <1>1, OthersKeepDeadlines DEF NodeHolds, NodeReleases, NodePublishesHealth,
     callVars, nodeVars, viewVars
<1>2. CASE NodeDisappears
  <2>1. \A c \in Callers : call'[c].stage = "waiting" => ~call'[c].accepted
    BY <1>2, DisappearanceChanges
  <2> QED BY <1>2, <2>1 DEF NodeDisappears, DeadlineInv
<1>3. CASE NodeAppears
  <2>1. ASSUME ~unsynced PROVE Related'
    BY <1>3, <2>1 DEF NodeAppears, DeadlineInv, FreshWithoutNode, Related, Ahead,
       NoCall, callVars, viewVars
  <2> QED BY <1>3, <2>1 DEF NodeAppears, DeadlineInv, FreshWithoutNode,
          OnePolicyCall, callVars, viewVars
<1>4. ASSUME NEW c \in Callers, NodeAnswersAbandoned(c) PROVE DeadlineInv'
  <2>1. /\ UNCHANGED <<call, nodeUp, deadline, unsynced>> /\ nodeUp
        /\ abandoned'[c] = None
        /\ \A b \in Callers \ {c} : abandoned'[b] = abandoned[b]
    BY <1>4 DEF NodeAnswersAbandoned, BridgeTypeOK, viewVars
  <2>2. ASSUME ~unsynced PROVE nodeDeadline' = nodeDeadline /\ OnePolicyCall'
    <3>1. OnePolicyCall
      BY <2>2 DEF DeadlineInv
    <3>2. nodeDeadline' = nodeDeadline
      BY <1>4, <3>1 DEF NodeAnswersAbandoned, NodeApplies, OnePolicyCall
    <3>3. OnePolicyCall'
      BY <2>1, <3>1, BridgeAssumption DEF OnePolicyCall, AllOperations
    <3> QED BY <3>2, <3>3
  <2> QED BY <2>1, <2>2 DEF DeadlineInv, FreshWithoutNode, Related, Ahead
<1> QED BY <1>1, <1>2, <1>3, <1>4, AnswerKeepsDeadlines DEF NodeNext

(* Unless policy calls overlap, are given up or lose their node, the deadline *)
(* the API shows is the node's whenever no call is under way: requests        *)
(* refused, late or made while the view is being rewritten included.          *)
THEOREM DeadlineIsAlwaysTheNodes == BridgeSpec => []DeadlineIsTheNodes
<1>1. BridgeInit => DeadlineInv
  BY BridgeAssumption DEF BridgeInit, DeadlineInv, OnePolicyCall, FreshWithoutNode, Related, Ahead,
     NoCall, AllOperations
<1>2. BridgeTypeOK /\ DeadlineInv /\ [BridgeNext]_vars => DeadlineInv'
  <2> SUFFICES ASSUME BridgeTypeOK, DeadlineInv, [BridgeNext]_vars
               PROVE  DeadlineInv'
    OBVIOUS
  <2>1. CASE StartWithoutRos \/ StartWithRos \/ Loop \/ BeginStop \/ UNCHANGED vars
    BY <2>1, OthersKeepDeadlines DEF StartWithoutRos, StartWithRos, Loop, ReadState,
       RunPublication, FinishStop, BeginStop, vars, callVars, nodeVars, viewVars
  <2>2. ASSUME NEW c \in Callers, OnResponse(c) PROVE DeadlineInv'
    <3>1. \A b \in Callers : /\ call'[b].op = call[b].op
                             /\ call'[b].accepted = call[b].accepted
                             /\ call'[b].stage = "waiting" => call[b].stage = "waiting"
                             /\ call[b] = NoCall => call'[b] = NoCall
      BY <2>2, ResponseChanges DEF OneCall
    <3> QED BY <2>2, <3>1 DEF OnResponse, DeadlineInv, OnePolicyCall,
            FreshWithoutNode, Related, Ahead, nodeVars, viewVars
  <2>3. CASE Round \/ ExecutorFails
    BY <2>2, <2>3, OthersKeepDeadlines DEF Round, SpinIdle, OnHealth, OnControlHold,
       OnProfile, OnSwitchOrTrace, PublishReturns, PublishTimesOut, RefreshAnnounces,
       RefreshConnected, RefreshAbsent, AnnounceReturns, AnnounceTimesOut,
       ExecutorFails, callVars, nodeVars, viewVars
  <2>4. ASSUME NEW c \in Callers,
               Return(c) \/ \E op \in Operations : Request(c, op)
        PROVE  DeadlineInv'
    BY <2>4, RequestKeepsDeadlines, ReturnKeepsDeadlines
  <2> QED BY <2>1, <2>3, <2>4, NodeKeepsDeadlines DEF BridgeNext
<1>3. DeadlineInv => DeadlineIsTheNodes
  BY DEF DeadlineInv, Related, Ahead, DeadlineIsTheNodes, NoCall
<1> QED BY <1>1, <1>2, <1>3, BridgeTypeCorrect, PTL DEF BridgeSpec
==============================================================================
