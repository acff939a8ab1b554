------------------------------- MODULE HubProofs -------------------------------
(***************************************************************************)
(* Proofs about TelemetryHub: for any number of pages, slots and queue     *)
(* places, queues hold the newest events, events are accounted for, slots  *)
(* follow handlers and the gaps a console shows are explained.             *)
(***************************************************************************)
EXTENDS TelemetryHub, FiniteSetTheorems, TLAPS

(* The inductive invariant: the properties with the types they rest on. *)
HubInv ==
  /\ HubTypeOK
  /\ QueueHoldsNewest
  /\ EveryEventIsAccounted
  /\ SlotsFollowHandlers

(* What is left of the queue q when e has been pushed: q or q without its   *)
(* oldest element, then e.                                                   *)
IsPushed(p, q, e, size) ==
  /\ p \in Seq(Nat)
  /\ Len(q) < size => Len(p) = Len(q) + 1
  /\ ~(Len(q) < size) => Len(p) = Len(q)
  /\ p[Len(p)] = e
  /\ \A i \in 1 .. Len(p) - 1 :
       /\ Len(q) < size => p[i] = q[i]
       /\ ~(Len(q) < size) => p[i] = q[i + 1]

(* A bounded push gives up at most the oldest element. *)
LEMMA PushedQueue ==
  ASSUME NEW q \in Seq(Nat), NEW e \in Nat, NEW size \in Nat \ {0},
         Len(q) <= size
  PROVE  IsPushed(PushBounded(q, e, size), q, e, size)
<1>1. CASE Len(q) < size
  BY <1>1 DEF PushBounded, IsPushed
<1>2. CASE ~(Len(q) < size)
  <2>1. q # <<>> /\ Len(q) = size
    BY <1>2
  <2>2. Tail(q) \in Seq(Nat) /\ Len(Tail(q)) = Len(q) - 1
    BY <2>1
  <2>3. \A i \in 1 .. Len(q) - 1 : Tail(q)[i] = q[i + 1]
    BY <2>1
  <2> QED BY <1>2, <2>1, <2>2, <2>3 DEF PushBounded, IsPushed
<1> QED BY <1>1, <1>2

(* The subscriptions are finite sets, and so are those with a full queue. *)
LEMMA ClientsAreFinite ==
  ASSUME HubTypeOK
  PROVE  /\ IsFiniteSet(clients)
         /\ Cardinality(clients) \in Nat
         /\ Cardinality(FullQueues) \in Nat
<1>1. IsFiniteSet(clients)
  BY HubAssumption, FS_Subset DEF HubTypeOK
<1>2. IsFiniteSet(FullQueues)
  BY <1>1, FS_Subset DEF FullQueues
<1> QED BY <1>1, <1>2, FS_CardinalityType

(* The program starts without subscriptions. *)
LEMMA HubStarts ==
  ASSUME HubInit
  PROVE  HubInv
<1>1. HubTypeOK
  BY DEF HubInit, HubTypeOK, NoFrame, Frames
<1>2. QueueHoldsNewest /\ EveryEventIsAccounted
  BY DEF HubInit, QueueHoldsNewest, EveryEventIsAccounted
<1>3. SlotsFollowHandlers
  BY FS_EmptySet, HubAssumption DEF HubInit, SlotsFollowHandlers
<1> QED BY <1>1, <1>2, <1>3 DEF HubInv

(* A publication, whoever makes it, keeps queues and accounts right. *)
LEMMA PublicationKeepsQueues ==
  ASSUME HubInv, PublishEvent
  PROVE  /\ sequence' \in Nat /\ cache' \in Seq(Nat) /\ droppedTotal' \in Nat
         /\ queue' \in [ClientIds -> Seq(Nat)]
         /\ dropped' \in [ClientIds -> Nat]
         /\ QueueHoldsNewest' /\ EveryEventIsAccounted'
         /\ Len(cache') <= CacheSize
         /\ \A k \in clients : Len(queue'[k]) <= QueueSize
<1>1. /\ sequence \in Nat /\ sequence + 1 \in Nat /\ sequence' = sequence + 1
      /\ QueueSize \in Nat \ {0} /\ CacheSize \in Nat \ {0}
      /\ clients' = clients /\ settled' = settled
      /\ clients \subseteq ClientIds
  BY HubAssumption DEF HubInv, HubTypeOK, PublishEvent
<1>2. cache' \in Seq(Nat) /\ Len(cache') <= CacheSize
  <2>1. IsPushed(cache', cache, sequence + 1, CacheSize)
    BY <1>1, PushedQueue DEF HubInv, HubTypeOK, SlotsFollowHandlers, PublishEvent
  <2> QED BY <1>1, <2>1 DEF IsPushed, HubInv, HubTypeOK, SlotsFollowHandlers
<1>3. droppedTotal' \in Nat
  BY ClientsAreFinite DEF HubInv, HubTypeOK, PublishEvent
<1>4. dropped' \in [ClientIds -> Nat]
  BY DEF HubInv, HubTypeOK, PublishEvent
<1>5. ASSUME NEW k \in clients
      PROVE  /\ k \in ClientIds /\ queue[k] \in Seq(Nat)
             /\ Len(queue[k]) \in Nat /\ Len(queue[k]) <= QueueSize
             /\ k \in FullQueues <=> ~(Len(queue[k]) < QueueSize)
             /\ IsPushed(queue'[k], queue[k], sequence + 1, QueueSize)
  <2>1. /\ k \in ClientIds /\ queue[k] \in Seq(Nat)
        /\ Len(queue[k]) \in Nat /\ Len(queue[k]) <= QueueSize
    BY <1>1 DEF HubInv, HubTypeOK, SlotsFollowHandlers
  <2>2. k \in FullQueues <=> ~(Len(queue[k]) < QueueSize)
    BY <1>1, <2>1 DEF FullQueues
  <2>3. queue'[k] = PushBounded(queue[k], sequence + 1, QueueSize)
    BY <2>1 DEF PublishEvent
  <2>4. IsPushed(PushBounded(queue[k], sequence + 1, QueueSize), queue[k],
                 sequence + 1, QueueSize)
    BY <1>1, <2>1, PushedQueue
  <2> QED BY <2>1, <2>2, <2>3, <2>4
<1>6. queue' \in [ClientIds -> Seq(Nat)] /\ \A k \in clients : Len(queue'[k]) <= QueueSize
  <2>1. ASSUME NEW k \in clients
        PROVE  queue'[k] \in Seq(Nat) /\ Len(queue'[k]) <= QueueSize
    BY <1>1, <1>5 DEF IsPushed
  <2>2. ASSUME NEW k \in ClientIds PROVE queue'[k] \in Seq(Nat)
    BY <2>1 DEF HubInv, HubTypeOK, PublishEvent
  <2> QED BY <2>1, <2>2 DEF PublishEvent
<1>7. QueueHoldsNewest'
  <2> SUFFICES ASSUME NEW k \in clients, NEW i \in DOMAIN queue'[k]
               PROVE  queue'[k][i] = sequence' - Len(queue'[k]) + i
    BY <1>1, Zenon DEF QueueHoldsNewest
  <2>1. /\ queue[k] \in Seq(Nat) /\ Len(queue[k]) \in Nat /\ sequence \in Nat
        /\ sequence' = sequence + 1
        /\ IsPushed(queue'[k], queue[k], sequence + 1, QueueSize)
    BY <1>1, <1>5
  <2>2. \A j \in 1 .. Len(queue[k]) : queue[k][j] = sequence - Len(queue[k]) + j
    <3>1. DOMAIN queue[k] = 1 .. Len(queue[k])
      BY <2>1
    <3> QED BY <3>1, Zenon DEF HubInv, QueueHoldsNewest
  <2>3. Len(queue'[k]) \in Nat /\ i \in 1 .. Len(queue'[k])
    BY <2>1 DEF IsPushed
  <2>4. CASE i = Len(queue'[k])
    BY <2>1, <2>3, <2>4 DEF IsPushed
  <2>5. CASE i # Len(queue'[k]) /\ Len(queue[k]) < QueueSize
    <3>1. i \in 1 .. Len(queue'[k]) - 1 /\ i \in 1 .. Len(queue[k])
      BY <2>1, <2>3, <2>5 DEF IsPushed
    <3>2. queue'[k][i] = queue[k][i] /\ Len(queue'[k]) = Len(queue[k]) + 1
      BY <2>1, <2>5, <3>1 DEF IsPushed
    <3>3. queue[k][i] = sequence - Len(queue[k]) + i
      BY <2>2, <3>1
    <3>4. sequence - Len(queue[k]) + i = sequence + 1 - Len(queue'[k]) + i
      BY <2>1, <2>3, <3>2
    <3>5. queue'[k][i] = sequence + 1 - Len(queue'[k]) + i
      BY <3>2, <3>3, <3>4
    <3> QED BY <2>1, <3>5
  <2>6. CASE i # Len(queue'[k]) /\ ~(Len(queue[k]) < QueueSize)
    <3>1. i \in 1 .. Len(queue'[k]) - 1 /\ i + 1 \in 1 .. Len(queue[k])
      BY <2>1, <2>3, <2>6 DEF IsPushed
    <3>2. queue'[k][i] = queue[k][i + 1] /\ Len(queue'[k]) = Len(queue[k])
      BY <2>1, <2>6, <3>1 DEF IsPushed
    <3>3. queue[k][i + 1] = sequence - Len(queue[k]) + (i + 1)
      BY <2>2, <3>1
    <3>4. \A s, l, j \in Nat : s - l + (j + 1) = s + 1 - l + j
      OBVIOUS
    <3>5. sequence - Len(queue[k]) + (i + 1) = sequence + 1 - Len(queue[k]) + i
      <4>1. i \in Nat /\ sequence \in Nat /\ Len(queue[k]) \in Nat
        BY <2>1, <2>3
      <4> QED BY <3>4, <4>1, Zenon
    <3>6. queue'[k][i] = sequence + 1 - Len(queue'[k]) + i
      BY <3>2, <3>3, <3>5
    <3> QED BY <2>1, <3>6
  <2> QED BY <2>4, <2>5, <2>6
<1>8. EveryEventIsAccounted'
  <2> SUFFICES ASSUME NEW k \in clients
               PROVE  settled[k] + dropped'[k] + Len(queue'[k]) = sequence + 1
    BY <1>1 DEF EveryEventIsAccounted
  <2>1. /\ settled[k] \in Nat /\ dropped[k] \in Nat /\ sequence \in Nat
        /\ settled[k] + dropped[k] + Len(queue[k]) = sequence
    BY <1>1 DEF HubInv, HubTypeOK, EveryEventIsAccounted
  <2>2. dropped'[k] = IF k \in FullQueues THEN dropped[k] + 1 ELSE dropped[k]
    BY <1>5 DEF PublishEvent
  <2>3. Len(queue'[k]) = IF k \in FullQueues THEN Len(queue[k])
                                             ELSE Len(queue[k]) + 1
    BY <1>5 DEF IsPushed
  <2>4. Len(queue[k]) \in Nat
    BY <1>5
  <2>5. CASE k \in FullQueues
    <3>1. dropped'[k] = dropped[k] + 1 /\ Len(queue'[k]) = Len(queue[k])
      BY <2>2, <2>3, <2>5
    <3>2. settled[k] + (dropped[k] + 1) + Len(queue[k]) = sequence + 1
      <4> DEFINE s == settled[k]  j == dropped[k]  l == Len(queue[k])
      <4>1. s \in Nat /\ j \in Nat /\ l \in Nat /\ sequence \in Nat
            /\ s + j + l = sequence
        BY <2>1, <2>4
      <4> HIDE DEF s, j, l
      <4>2. s + (j + 1) + l = sequence + 1
        BY <4>1
      <4> QED BY <4>2 DEF s, j, l
    <3> QED BY <3>1, <3>2
  <2>6. CASE k \notin FullQueues
    BY <2>1, <2>2, <2>3, <2>4, <2>6
  <2> QED BY <2>5, <2>6
<1> QED BY <1>1, <1>2, <1>3, <1>4, <1>6, <1>7, <1>8

(* The properties speak of the hub and the handlers only. *)
LEMMA OtherStateDoesNotMatter ==
  ASSUME HubInv, UNCHANGED <<hubVars, subVars>>, HubTypeOK',
         \A k \in ClientIds : handler[k] = "none" <=> handler'[k] = "none",
         \A c \in Consoles : conn'[c] \in {conn[c], NoClient}
  PROVE  HubInv'
<1>1. QueueHoldsNewest' /\ EveryEventIsAccounted'
  BY DEF HubInv, QueueHoldsNewest, EveryEventIsAccounted, hubVars, subVars
<1>2. SlotsFollowHandlers'
  BY DEF HubInv, SlotsFollowHandlers, hubVars, subVars
<1> QED BY <1>1, <1>2 DEF HubInv

(* Publications of the program, and of a handler that announces itself. *)
LEMMA PublishKeepsInv ==
  ASSUME HubInv, Publish
  PROVE  HubInv'
<1>1. PublishEvent /\ UNCHANGED <<streamVars, pageVars>>
  BY DEF Publish
<1>2. HubTypeOK'
  BY <1>1, PublicationKeepsQueues DEF HubInv, HubTypeOK, PublishEvent,
     streamVars, pageVars, shownVars
<1>3. SlotsFollowHandlers'
  BY <1>1, PublicationKeepsQueues DEF HubInv, SlotsFollowHandlers,
     PublishEvent, streamVars, pageVars
<1> QED BY <1>1, <1>2, <1>3, PublicationKeepsQueues DEF HubInv

LEMMA AnnounceKeepsInv ==
  ASSUME HubInv, NEW k \in ClientIds, Announce(k)
  PROVE  HubInv'
<1>1. PublishEvent /\ UNCHANGED <<sending, closed, pageVars>>
  BY DEF Announce
<1>2. HubTypeOK'
  BY <1>1, PublicationKeepsQueues DEF HubInv, HubTypeOK, PublishEvent,
     Announce, pageVars, shownVars
<1>3. SlotsFollowHandlers'
  BY <1>1, PublicationKeepsQueues DEF HubInv, HubTypeOK, SlotsFollowHandlers,
     PublishEvent, Announce, pageVars
<1> QED BY <1>1, <1>2, <1>3, PublicationKeepsQueues DEF HubInv

(* A new subscription starts empty, at the present. *)
LEMMA SubscribeKeepsInv ==
  ASSUME HubInv, NEW c \in Consoles, NEW k \in ClientIds, Subscribe(c, k)
  PROVE  HubInv'
<1>1. k \notin clients /\ sequence \in Nat
  BY DEF Subscribe, Opens, HubInv, HubTypeOK, SlotsFollowHandlers
<1>2. HubTypeOK'
  BY DEF Subscribe, Opens, HubInv, HubTypeOK, hubVars, shownVars
<1>3. QueueHoldsNewest'
  <2> SUFFICES ASSUME NEW j \in clients', NEW i \in DOMAIN queue'[j]
               PROVE  queue'[j][i] = sequence' - Len(queue'[j]) + i
    BY Zenon DEF QueueHoldsNewest
  <2>1. j # k
    BY DEF Subscribe, Opens, HubInv, HubTypeOK
  <2>2. j \in clients /\ j \in ClientIds
    BY <2>1 DEF Subscribe, Opens, HubInv, HubTypeOK
  <2>3. queue'[j] = queue[j] /\ sequence' = sequence
    BY <2>1, <2>2 DEF Subscribe, Opens, HubInv, HubTypeOK, hubVars
  <2> QED BY <2>2, <2>3, Zenon DEF HubInv, QueueHoldsNewest
<1>4. EveryEventIsAccounted'
  <2> SUFFICES ASSUME NEW j \in clients'
               PROVE  settled'[j] + dropped'[j] + Len(queue'[j]) = sequence'
    BY DEF EveryEventIsAccounted
  <2>1. CASE j = k
    BY <1>1, <2>1 DEF Subscribe, Opens, HubInv, HubTypeOK, hubVars
  <2>2. CASE j # k
    BY <2>2 DEF Subscribe, Opens, HubInv, HubTypeOK, EveryEventIsAccounted, hubVars
  <2> QED BY <2>1, <2>2
<1>5. SlotsFollowHandlers'
  <2>1. \A j \in ClientIds : j \in clients' <=> handler'[j] # "none"
    BY DEF Subscribe, Opens, HubInv, HubTypeOK, SlotsFollowHandlers
  <2>2. Cardinality(clients') <= MaxClients
    <3>1. Cardinality(clients \cup {k}) = Cardinality(clients) + 1
      BY <1>1, ClientsAreFinite, FS_AddElement DEF HubInv
    <3>2. clients' = clients \cup {k} /\ Cardinality(clients) < MaxClients
      BY DEF Subscribe, Opens
    <3>3. Cardinality(clients) \in Nat /\ MaxClients \in Nat
      BY ClientsAreFinite, HubAssumption DEF HubInv
    <3> QED BY <3>1, <3>2, <3>3
  <2>3. \A j \in clients' : Len(queue'[j]) <= QueueSize
    BY HubAssumption DEF Subscribe, Opens, HubInv, HubTypeOK, SlotsFollowHandlers
  <2>4. Len(cache') <= CacheSize
    BY DEF Subscribe, Opens, HubInv, SlotsFollowHandlers, hubVars
  <2>5. \A d \in Consoles : conn'[d] \in clients' \cup {NoClient}
    BY DEF Subscribe, Opens, HubInv, HubTypeOK, SlotsFollowHandlers
  <2> QED BY <2>1, <2>2, <2>3, <2>4, <2>5 DEF SlotsFollowHandlers
<1> QED BY <1>2, <1>3, <1>4, <1>5 DEF HubInv

(* What is left of the queue q when its oldest element has been taken. *)
IsTaken(p, q) ==
  /\ p \in Seq(Nat) /\ DOMAIN p = 1 .. Len(p)
  /\ Len(p) <= Len(q)
  /\ \A s, j \in Nat : (s + 1) + j + Len(p) = s + j + Len(q)
  /\ \A i \in DOMAIN p : /\ i + 1 \in DOMAIN q /\ p[i] = q[i + 1]
                        /\ \A s \in Nat : s - Len(q) + (i + 1) = s - Len(p) + i

LEMMA TakenQueue ==
  ASSUME NEW q \in Seq(Nat), q # <<>>
  PROVE  IsTaken(Tail(q), q)
<1>1. PICK n \in Nat : Len(q) = n + 1
  <2>1. Len(q) \in Nat /\ Len(q) # 0
    OBVIOUS
  <2> QED BY <2>1
<1>2. Tail(q) \in Seq(Nat) /\ Len(Tail(q)) = n /\ DOMAIN Tail(q) = 1 .. n
  BY <1>1
<1>3. \A i \in 1 .. n : i + 1 \in DOMAIN q /\ Tail(q)[i] = q[i + 1]
  BY <1>1
<1>4. /\ n <= n + 1
      /\ \A s, j \in Nat : (s + 1) + j + n = s + j + (n + 1)
      /\ \A i \in 1 .. n, s \in Nat : s - (n + 1) + (i + 1) = s - n + i
  OBVIOUS
<1>5. Len(Tail(q)) <= Len(q)
  BY <1>1, <1>2, <1>4
<1>6. \A s, j \in Nat : (s + 1) + j + Len(Tail(q)) = s + j + Len(q)
  BY <1>1, <1>2, <1>4
<1>7. \A i \in DOMAIN Tail(q), s \in Nat :
        s - Len(q) + (i + 1) = s - Len(Tail(q)) + i
  BY <1>1, <1>2, <1>4
<1>8. \A i \in DOMAIN Tail(q) : i + 1 \in DOMAIN q /\ Tail(q)[i] = q[i + 1]
  BY <1>2, <1>3
<1>9. Tail(q) \in Seq(Nat) /\ DOMAIN Tail(q) = 1 .. Len(Tail(q))
  BY <1>2
<1> QED BY <1>5, <1>6, <1>7, <1>8, <1>9, Zenon DEF IsTaken

(* An event that is taken is the oldest one queued. *)
LEMMA TakeEventKeepsInv ==
  ASSUME HubInv, NEW k \in ClientIds, TakeEvent(k)
  PROVE  HubInv'
<1>1. /\ queue[k] \in Seq(Nat) /\ queue[k] # <<>>
      /\ sequence \in Nat /\ sequence' = sequence
  BY DEF TakeEvent, HubInv, HubTypeOK, hubVars
<1>2. IsTaken(queue'[k], queue[k])
  <2>1. queue'[k] = Tail(queue[k])
    BY DEF TakeEvent, HubInv, HubTypeOK
  <2>2. IsTaken(Tail(queue[k]), queue[k])
    BY <1>1, TakenQueue
  <2> QED BY <2>1, <2>2
<1>3. HubTypeOK'
  <2>1. Head(queue[k]) \in Nat /\ Tail(queue[k]) \in Seq(Nat)
    BY <1>1
  <2>2. queue' \in [ClientIds -> Seq(Nat)] /\ sending' \in [ClientIds -> Frames]
    <3>1. droppedTotal \in Nat /\ dropped[k] \in Nat
      BY DEF HubInv, HubTypeOK
    <3>2. [number |-> Head(queue[k]), told |-> droppedTotal + dropped[k]] \in Frames
      BY <2>1, <3>1 DEF Frames
    <3> QED BY <2>1, <3>2 DEF TakeEvent, HubInv, HubTypeOK
  <2>3. /\ settled' \in [ClientIds -> Nat]
        /\ handler' = [handler EXCEPT ![k] = "sending"]
    BY DEF TakeEvent, HubInv, HubTypeOK
  <2>4. UNCHANGED <<hubVars, clients, dropped, closed, pageVars>>
    BY DEF TakeEvent
  <2> QED BY <2>2, <2>3, <2>4 DEF HubInv, HubTypeOK, hubVars, pageVars, shownVars
<1>4. QueueHoldsNewest'
  <2> SUFFICES ASSUME NEW j \in clients', NEW i \in DOMAIN queue'[j]
               PROVE  queue'[j][i] = sequence' - Len(queue'[j]) + i
    BY Zenon DEF QueueHoldsNewest
  <2>1. j \in clients
    BY DEF TakeEvent
  <2>2. CASE j # k
    <3>1. queue'[j] = queue[j]
      BY <2>2 DEF TakeEvent, HubInv, HubTypeOK
    <3> QED BY <1>1, <2>1, <3>1, Zenon DEF HubInv, QueueHoldsNewest
  <2>3. CASE j = k
    <3>1. i + 1 \in DOMAIN queue[k] /\ queue'[k][i] = queue[k][i + 1]
      BY <1>2, <2>3, Zenon DEF IsTaken
    <3>2. queue[k][i + 1] = sequence - Len(queue[k]) + (i + 1)
      BY <2>1, <2>3, <3>1, Zenon DEF HubInv, QueueHoldsNewest
    <3>3. sequence - Len(queue[k]) + (i + 1) = sequence - Len(queue'[k]) + i
      BY <1>1, <1>2, <2>3, Zenon DEF IsTaken
    <3>4. queue'[k][i] = sequence - Len(queue'[k]) + i
      BY <3>1, <3>2, <3>3
    <3> QED BY <1>1, <2>3, <3>4
  <2> QED BY <2>2, <2>3
<1>5. EveryEventIsAccounted'
  <2> SUFFICES ASSUME NEW j \in clients'
               PROVE  settled'[j] + dropped'[j] + Len(queue'[j]) = sequence
    BY <1>1 DEF EveryEventIsAccounted
  <2>1. j \in clients /\ dropped' = dropped
    BY DEF TakeEvent
  <2>2. settled[j] + dropped[j] + Len(queue[j]) = sequence
    BY <2>1 DEF HubInv, EveryEventIsAccounted
  <2>3. CASE j = k
    <3>1. settled'[k] = settled[k] + 1 /\ settled[k] \in Nat /\ dropped[k] \in Nat
      BY DEF TakeEvent, HubInv, HubTypeOK
    <3>2. (settled[k] + 1) + dropped[k] + Len(queue'[k])
            = settled[k] + dropped[k] + Len(queue[k])
      BY <1>2, <3>1, Zenon DEF IsTaken
    <3> QED BY <2>1, <2>2, <2>3, <3>1, <3>2, Zenon
  <2>4. CASE j # k
    <3>1. settled'[j] = settled[j] /\ queue'[j] = queue[j]
      BY <2>4 DEF TakeEvent, HubInv, HubTypeOK
    <3> QED BY <2>1, <2>2, <3>1, Zenon
  <2> QED BY <2>3, <2>4
<1>6. SlotsFollowHandlers'
  <2>1. \A j \in ClientIds : j \in clients' <=> handler'[j] # "none"
    BY DEF TakeEvent, HubInv, HubTypeOK, SlotsFollowHandlers
  <2>2. ASSUME NEW j \in clients' PROVE Len(queue'[j]) <= QueueSize
    <3>1. /\ j \in clients /\ Len(queue[j]) <= QueueSize
          /\ queue[j] \in Seq(Nat)
      BY DEF TakeEvent, HubInv, HubTypeOK, SlotsFollowHandlers
    <3>2. CASE j = k
      <4>1. Len(queue'[j]) <= Len(queue[j]) /\ queue'[j] \in Seq(Nat)
        BY <1>2, <3>2 DEF IsTaken
      <4>2. /\ Len(queue'[j]) \in Int /\ Len(queue[j]) \in Int
            /\ QueueSize \in Int
        BY <3>1, <4>1, HubAssumption
      <4>3. \A x, y, z \in Int : x <= y /\ y <= z => x <= z
        OBVIOUS
      <4> QED BY <3>1, <4>1, <4>2, <4>3, Zenon
    <3>3. CASE j # k
      BY <3>1, <3>3 DEF TakeEvent, HubInv, HubTypeOK
    <3> QED BY <3>2, <3>3
  <2> QED BY <2>1, <2>2 DEF TakeEvent, HubInv, SlotsFollowHandlers, hubVars, pageVars
<1> QED BY <1>3, <1>4, <1>5, <1>6 DEF HubInv

(* A handler that leaves gives its slot back. *)
LEMMA UnsubscribeKeepsInv ==
  ASSUME HubInv, NEW k \in ClientIds, Unsubscribe(k)
  PROVE  HubInv'
<1>1. HubTypeOK'
  BY DEF Unsubscribe, HubInv, HubTypeOK, hubVars, shownVars
<1>2. ASSUME NEW j \in clients'
      PROVE  /\ j \in clients /\ queue'[j] = queue[j] /\ sequence' = sequence
             /\ settled'[j] = settled[j] /\ dropped'[j] = dropped[j]
  BY DEF Unsubscribe, HubInv, HubTypeOK, hubVars
<1>3. QueueHoldsNewest'
  BY <1>2, Zenon DEF HubInv, QueueHoldsNewest
<1>4. EveryEventIsAccounted'
  BY <1>2 DEF HubInv, EveryEventIsAccounted
<1>5. SlotsFollowHandlers'
  <2>1. \A j \in ClientIds : j \in clients' <=> handler'[j] # "none"
    BY DEF Unsubscribe, HubInv, HubTypeOK, SlotsFollowHandlers
  <2>2. Cardinality(clients') <= MaxClients
    <3>1. Cardinality(clients') <= Cardinality(clients)
      BY ClientsAreFinite, FS_Subset DEF Unsubscribe, HubInv
    <3>2. IsFiniteSet(clients')
      BY ClientsAreFinite, FS_Subset DEF Unsubscribe, HubInv
    <3>3. Cardinality(clients') \in Nat /\ Cardinality(clients) \in Nat
      BY <3>2, ClientsAreFinite, FS_CardinalityType DEF HubInv
    <3> QED BY <3>1, <3>3, HubAssumption DEF HubInv, SlotsFollowHandlers
  <2>3. \A c \in Consoles : conn'[c] \in clients' \cup {NoClient}
    BY DEF Unsubscribe, HubInv, HubTypeOK, SlotsFollowHandlers
  <2> QED BY <1>2, <2>1, <2>2, <2>3 DEF Unsubscribe, HubInv, SlotsFollowHandlers, hubVars
<1> QED BY <1>1, <1>3, <1>4, <1>5 DEF HubInv

(* What a frame does to the pages, if it reaches one. *)
LEMMA ReceiveTypes ==
  ASSUME HubTypeOK, NEW k \in ClientIds, NEW frame \in Frames, SendFrame(k, frame)
  PROVE  /\ gaps' \in [Consoles -> Nat] /\ hellos' \in [Consoles -> Nat]
         /\ told' \in [Consoles -> Nat] /\ last' \in [Consoles -> Nat \cup {-1}]
         /\ \E to \in {"waiting", "leaving"} :
              handler' = [handler EXCEPT ![k] = to]
<1>1. ASSUME NEW c \in Consoles, Receive(c, frame)
      PROVE  /\ gaps' \in [Consoles -> Nat] /\ hellos' \in [Consoles -> Nat]
             /\ told' \in [Consoles -> Nat] /\ last' \in [Consoles -> Nat \cup {-1}]
  <2>1. frame.number \in Nat /\ frame.told \in Nat
    BY DEF Frames
  <2>2. gaps' \in [Consoles -> Nat]
    BY <1>1 DEF Receive, HubTypeOK
  <2>3. hellos' \in [Consoles -> Nat]
    BY <1>1 DEF Receive, HubTypeOK
  <2>4. told' \in [Consoles -> Nat] /\ last' \in [Consoles -> Nat \cup {-1}]
    BY <1>1, <2>1 DEF Receive, HubTypeOK
  <2> QED BY <2>2, <2>3, <2>4
<1>2. CASE UNCHANGED shownVars
  BY <1>2 DEF SendFrame, shownVars, HubTypeOK
<1> QED BY <1>1, <1>2 DEF SendFrame, Delivered

(* A frame that is sent changes what the page shows, or sends the handler    *)
(* to its end; neither starts nor ends a handler.                            *)
LEMMA SendKeepsInv ==
  ASSUME HubInv, NEW k \in ClientIds, SendHello(k) \/ SendEvent(k)
  PROVE  HubInv'
<1>1. PICK frame \in Frames : SendFrame(k, frame)
  <2>1. CASE SendHello(k)
    <3>1. [number |-> 0, told |-> droppedTotal] \in Frames
      BY DEF Frames, HubInv, HubTypeOK
    <3> QED BY <2>1, <3>1 DEF SendHello
  <2>2. CASE SendEvent(k)
    BY <2>2 DEF SendEvent, HubInv, HubTypeOK
  <2> QED BY <2>1, <2>2
<1>2. NoFrame \in Frames
  BY DEF NoFrame, Frames
<1>3. /\ handler[k] # "none" /\ UNCHANGED <<hubVars, subVars, closed, page, conn>>
      /\ sending' \in [ClientIds -> Frames]
  BY <1>2 DEF SendHello, SendEvent, HubInv, HubTypeOK
<1>4. PICK to \in {"waiting", "leaving"} : handler' = [handler EXCEPT ![k] = to]
  BY <1>1, ReceiveTypes DEF HubInv
<1>5. HubTypeOK'
  BY <1>1, <1>3, <1>4, ReceiveTypes DEF HubInv, HubTypeOK, hubVars, subVars
<1>6. \A j \in ClientIds : handler[j] = "none" <=> handler'[j] = "none"
  BY <1>3, <1>4 DEF HubInv, HubTypeOK
<1> QED BY <1>3, <1>5, <1>6, OtherStateDoesNotMatter

(* What the page does of its own. *)
LEMMA PageKeepsInv ==
  ASSUME HubInv, NEW c \in Consoles,
         Connect(c) \/ LoseConnection(c) \/ Leave(c) \/ RefuseAtLimit(c)
  PROVE  HubInv'
<1>1. UNCHANGED <<hubVars, subVars, streamVars>>
  BY Zenon DEF Connect, LoseConnection, Leave, RefuseAtLimit
<1>2. \A d \in Consoles : conn'[d] \in {conn[d], NoClient}
  BY DEF Connect, LoseConnection, Leave, RefuseAtLimit, HubInv, HubTypeOK
<1>3. page' \in [Consoles -> {"off", "opening", "open", "waiting"}]
  BY DEF Connect, LoseConnection, Leave, RefuseAtLimit, HubInv, HubTypeOK
<1>4. /\ conn' \in [Consoles -> ClientIds \cup {NoClient}]
      /\ last' \in [Consoles -> Nat \cup {-1}] /\ gaps' \in [Consoles -> Nat]
      /\ told' \in [Consoles -> Nat] /\ hellos' \in [Consoles -> Nat]
  <2>1. CASE Connect(c) \/ RefuseAtLimit(c)
    BY <2>1 DEF Connect, RefuseAtLimit, HubInv, HubTypeOK, shownVars
  <2>2. CASE LoseConnection(c)
    BY <2>2 DEF LoseConnection, HubInv, HubTypeOK, shownVars
  <2>3. CASE Leave(c)
    BY <2>3 DEF Leave, HubInv, HubTypeOK
  <2> QED BY <2>1, <2>2, <2>3
<1>5. HubTypeOK'
  BY <1>1, <1>3, <1>4 DEF HubInv, HubTypeOK, hubVars, subVars, streamVars
<1> QED BY <1>1, <1>2, <1>5, OtherStateDoesNotMatter DEF streamVars

(* The handshake, its failure, and what the server learns of a socket. *)
LEMMA HandshakeKeepsInv ==
  ASSUME HubInv, NEW k \in ClientIds, Accept(k) \/ FailEarly(k) \/ NoticeClosed(k)
  PROVE  HubInv'
<1>1. UNCHANGED <<hubVars, subVars, sending, conn, shownVars>>
  BY Zenon DEF Accept, FailEarly, NoticeClosed, pageVars
<1>2. \A j \in ClientIds : handler[j] = "none" <=> handler'[j] = "none"
  BY DEF Accept, FailEarly, NoticeClosed, HubInv, HubTypeOK
<1>3. /\ page' \in [Consoles -> {"off", "opening", "open", "waiting"}]
      /\ closed' \subseteq ClientIds
      /\ handler' \in [ClientIds -> {"none", "subscribed", "accepted", "failed",
                                    "announced", "waiting", "sending", "leaving"}]
  BY DEF Accept, FailEarly, NoticeClosed, HubInv, HubTypeOK, pageVars
<1>4. HubTypeOK'
  BY <1>1, <1>3 DEF HubInv, HubTypeOK, hubVars, subVars, shownVars
<1> QED BY <1>1, <1>2, <1>4, OtherStateDoesNotMatter

(* The invariant is inductive: one lemma per kind of action. *)
LEMMA HubInvHolds == HubSpec => []HubInv
<1>1. HubInit => HubInv
  BY HubStarts
<1>2. HubInv /\ [HubNext]_vars => HubInv'
  <2> SUFFICES ASSUME HubInv, [HubNext]_vars PROVE HubInv'
    OBVIOUS
  <2>1. CASE Publish
    BY <2>1, PublishKeepsInv
  <2>2. ASSUME NEW c \in Consoles, NEW k \in ClientIds, Subscribe(c, k)
        PROVE  HubInv'
    BY <2>2, SubscribeKeepsInv
  <2>3. ASSUME NEW k \in ClientIds, Stream(k) PROVE HubInv'
    BY <2>3, HandshakeKeepsInv, AnnounceKeepsInv, SendKeepsInv, TakeEventKeepsInv,
       UnsubscribeKeepsInv DEF Stream
  <2>4. ASSUME NEW k \in ClientIds, FailEarly(k) \/ NoticeClosed(k) PROVE HubInv'
    BY <2>4, HandshakeKeepsInv
  <2>5. ASSUME NEW c \in Consoles,
               RefuseAtLimit(c) \/ Connect(c) \/ LoseConnection(c) \/ Leave(c)
        PROVE  HubInv'
    BY <2>5, PageKeepsInv
  <2>6. CASE UNCHANGED vars
    <3>1. UNCHANGED <<hubVars, subVars, streamVars, pageVars>>
      BY <2>6 DEF vars
    <3>2. HubTypeOK'
      BY <3>1 DEF HubInv, HubTypeOK, hubVars, subVars, streamVars, pageVars, shownVars
    <3> QED BY <3>1, <3>2, OtherStateDoesNotMatter DEF streamVars, pageVars
  <2> QED BY <2>1, <2>2, <2>3, <2>4, <2>5, <2>6 DEF HubNext
<1> QED BY <1>1, <1>2, PTL DEF HubSpec

(* The hub's queues, counters and slots keep their types, whatever consoles *)
(* and publishers do.                                                       *)
THEOREM HubTypeCorrect == HubSpec => []HubTypeOK
BY HubInvHolds, PTL DEF HubInv

(* The queue of a subscriber always holds the newest events, in order and    *)
(* without a hole, however its reads and the publications interleave.        *)
THEOREM QueueAlwaysHoldsNewest == HubSpec => []QueueHoldsNewest
BY HubInvHolds, PTL DEF HubInv

(* The drop counter of a subscription is exact: with what was taken and what *)
(* is queued it makes up all events since the subscription.                  *)
THEOREM EveryEventIsAlwaysAccounted == HubSpec => []EveryEventIsAccounted
BY HubInvHolds, PTL DEF HubInv

(* A slot is held exactly while its handler runs, or for good if the handler *)
(* failed before its try; and slots, queues and the cache stay within their  *)
(* settings, however handlers fail.                                          *)
THEOREM SlotsAlwaysFollowHandlers == HubSpec => []SlotsFollowHandlers
BY HubInvHolds, PTL DEF HubInv
------------------------------------------------------------------------------
(* The gaps of a page.  A frame costs one if its number is not the next.    *)
Cost(seen, number) == IF number > seen + 1 THEN 1 ELSE 0

(* The events of a subscription that are past: taken or dropped.  An event  *)
(* that is taken is the latest of them.                                     *)
Past(k) == settled[k] + dropped[k]

(* The gaps are paid by the hello frames and the drops of the hub, and also  *)
(* by the drops that the page has been told of.                              *)
CountsInv(c) ==
  /\ gaps[c] <= hellos[c] + droppedTotal
  /\ gaps[c] <= hellos[c] + told[c]

(* The drops since the last event taken are ahead of what the page counts:  *)
(* they pay for the gap that the next event shows, as the hello frame pays  *)
(* for the one of the first event.                                          *)
WaitInv(c, k) ==
  \/ last[c] = 0 /\ gaps[c] + 1 <= hellos[c] + droppedTotal
  \/ /\ last[c] > 0 /\ last[c] <= Past(k)
     /\ gaps[c] + (Past(k) - last[c]) <= hellos[c] + droppedTotal

(* The frame on its way brings the number that pays for it. *)
SendInv(c, k) ==
  LET frame == sending[k]
      after == gaps[c] + Cost(last[c], frame.number) IN
  /\ frame.number > 0 /\ frame.number <= Past(k) /\ last[c] >= 0
  /\ after + (Past(k) - frame.number) <= hellos[c] + droppedTotal
  /\ after <= hellos[c] + frame.told

GapInv(c) ==
  /\ CountsInv(c)
  /\ \A k \in ClientIds :
       conn[c] = k => /\ handler[k] = "waiting" => WaitInv(c, k)
                      /\ handler[k] = "sending" => SendInv(c, k)

(* A handler serves one page. *)
OnePagePerHandler ==
  \A c, d \in Consoles : conn[c] = conn[d] => c = d \/ conn[c] = NoClient

PagesInv == OnePagePerHandler /\ \A c \in Consoles : GapInv(c)

(* What a page has, as numbers. *)
LEMMA PageTypes ==
  ASSUME HubTypeOK, NEW c \in Consoles, NEW k \in ClientIds
  PROVE  /\ gaps[c] \in Nat /\ hellos[c] \in Nat /\ told[c] \in Nat
         /\ last[c] \in Nat \cup {-1} /\ droppedTotal \in Nat
         /\ settled[k] \in Nat /\ dropped[k] \in Nat /\ Past(k) \in Nat
         /\ sending[k].number \in Nat /\ sending[k].told \in Nat
         /\ Cost(last[c], sending[k].number) \in {0, 1}
<1>1. settled[k] \in Nat /\ dropped[k] \in Nat
  BY DEF HubTypeOK
<1>2. sending[k] \in Frames
  BY DEF HubTypeOK
<1> QED BY <1>1, <1>2 DEF HubTypeOK, Past, Cost, Frames

(* Where the page shows nothing new, and the hub counts at least the drops   *)
(* of the page's own subscription.                                           *)
LEMMA GapAdvance ==
  ASSUME HubTypeOK, HubTypeOK', NEW c \in Consoles, GapInv(c),
         NEW n \in Nat, droppedTotal' = droppedTotal + n,
         UNCHANGED <<gaps[c], hellos[c], told[c], last[c]>>,
         \A k \in ClientIds :
           conn'[c] = k =>
             \/ handler'[k] \notin {"waiting", "sending"}
             \/ /\ conn[c] = k /\ handler'[k] = handler[k]
                /\ sending'[k] = sending[k] /\ settled'[k] = settled[k]
                /\ \E m \in 0 .. n : dropped'[k] = dropped[k] + m
  PROVE  GapInv(c)'
<1>1. /\ gaps'[c] = gaps[c] /\ hellos'[c] = hellos[c]
      /\ told'[c] = told[c] /\ last'[c] = last[c]
  OBVIOUS
<1>2. CountsInv(c)'
  <2>1. CountsInv(c)
    BY DEF GapInv
  <2>2. /\ gaps[c] \in Nat /\ hellos[c] \in Nat /\ droppedTotal \in Nat
    BY DEF HubTypeOK
  <2> QED BY <1>1, <2>1, <2>2 DEF CountsInv
<1>3. ASSUME NEW k \in ClientIds, conn'[c] = k,
             handler'[k] \in {"waiting", "sending"}
      PROVE  /\ handler'[k] = "waiting" => WaitInv(c, k)'
             /\ handler'[k] = "sending" => SendInv(c, k)'
  <2>1. /\ conn[c] = k /\ handler'[k] = handler[k]
        /\ sending'[k] = sending[k] /\ settled'[k] = settled[k]
    BY <1>3
  <2>2. PICK m \in 0 .. n : dropped'[k] = dropped[k] + m
    BY <1>3
  <2>3. /\ gaps[c] \in Nat /\ hellos[c] \in Nat /\ told[c] \in Nat
        /\ last[c] \in Nat \cup {-1} /\ droppedTotal \in Nat
        /\ settled[k] \in Nat /\ dropped[k] \in Nat /\ Past(k) \in Nat
        /\ sending[k].number \in Nat /\ sending[k].told \in Nat
        /\ Cost(last[c], sending[k].number) \in {0, 1}
    BY PageTypes
  <2>4. Past(k)' = Past(k) + m
    <3>1. settled[k] + (dropped[k] + m) = settled[k] + dropped[k] + m
      BY <2>3
    <3> QED BY <2>1, <2>2, <3>1 DEF Past
  <2>5. Cost(last[c], sending[k].number)' = Cost(last[c], sending[k].number)
    BY <1>1, <2>1 DEF Cost
  <2>6. CASE handler[k] = "waiting"
    <3>1. WaitInv(c, k)
      BY <2>1, <2>6 DEF GapInv
    <3> QED BY <1>1, <2>1, <2>3, <2>4, <2>6, <3>1 DEF WaitInv
  <2>7. CASE handler[k] = "sending"
    <3>1. SendInv(c, k)
      BY <2>1, <2>7 DEF GapInv
    <3> QED BY <1>1, <2>1, <2>3, <2>4, <2>5, <2>7, <3>1 DEF SendInv
  <2> QED BY <1>3, <2>1, <2>6, <2>7
<1> QED BY <1>2, <1>3 DEF GapInv

(* The same without a drop. *)
LEMMA GapFrame ==
  ASSUME HubTypeOK, HubTypeOK', NEW c \in Consoles, GapInv(c),
         UNCHANGED <<droppedTotal, gaps[c], hellos[c], told[c], last[c]>>,
         \A k \in ClientIds :
           conn'[c] = k =>
             \/ handler'[k] \notin {"waiting", "sending"}
             \/ /\ conn[c] = k /\ handler'[k] = handler[k]
                /\ sending'[k] = sending[k] /\ settled'[k] = settled[k]
                /\ dropped'[k] = dropped[k]
  PROVE  GapInv(c)'
<1>1. droppedTotal' = droppedTotal + 0 /\ 0 \in 0 .. 0
  BY DEF HubTypeOK
<1>2. \A k \in ClientIds : dropped[k] + 0 = dropped[k]
  BY DEF HubTypeOK
<1> QED BY <1>1, <1>2, GapAdvance

(* A publication drops at most one event of each queue, and counts it.      *)
LEMMA PublicationGaps ==
  ASSUME HubInv, HubInv', PublishEvent, NEW c \in Consoles, GapInv(c),
         UNCHANGED <<sending, pageVars>>,
         \A k \in ClientIds : \/ handler'[k] = handler[k]
                              \/ handler'[k] \notin {"waiting", "sending"}
  PROVE  GapInv(c)'
<1>1. HubTypeOK /\ HubTypeOK'
  BY DEF HubInv
<1>2. Cardinality(FullQueues) \in Nat /\ IsFiniteSet(FullQueues)
  <2>1. IsFiniteSet(clients) /\ Cardinality(FullQueues) \in Nat
    BY <1>1, ClientsAreFinite
  <2> QED BY <2>1, FS_Subset DEF FullQueues
<1>3. /\ droppedTotal' = droppedTotal + Cardinality(FullQueues)
      /\ settled' = settled
  BY DEF PublishEvent
<1>4. UNCHANGED <<sending, conn, last, gaps, told, hellos>>
  BY DEF pageVars, shownVars
<1>5. ASSUME NEW k \in ClientIds
      PROVE  \E m \in 0 .. Cardinality(FullQueues) : dropped'[k] = dropped[k] + m
  <2>1. dropped'[k] = (IF k \in FullQueues THEN dropped[k] + 1 ELSE dropped[k])
        /\ dropped[k] \in Nat
    BY <1>1 DEF PublishEvent, HubTypeOK
  <2>2. CASE k \in FullQueues
    <3>1. Cardinality(FullQueues) # 0
      BY <1>2, <2>2, FS_EmptySet
    <3>2. 1 \in 0 .. Cardinality(FullQueues)
      BY <1>2, <3>1
    <3> QED BY <2>1, <2>2, <3>2
  <2>3. CASE k \notin FullQueues
    <3>1. 0 \in 0 .. Cardinality(FullQueues) /\ dropped'[k] = dropped[k] + 0
      BY <1>2, <2>1, <2>3
    <3> QED BY <3>1
  <2> QED BY <2>2, <2>3
<1> QED BY <1>1, <1>2, <1>3, <1>4, <1>5, GapAdvance

(* A frame reaches the page at the other end, and no other. *)
LEMMA FrameReaches ==
  ASSUME HubTypeOK, OnePagePerHandler, NEW c \in Consoles, NEW k \in ClientIds,
         NEW frame, SendFrame(k, frame)
  PROVE  /\ handler' \in {[handler EXCEPT ![k] = "waiting"],
                          [handler EXCEPT ![k] = "leaving"]}
         /\ conn[c] # k => UNCHANGED <<gaps[c], hellos[c], told[c], last[c]>>
         /\ conn[c] = k => \/ Receive(c, frame)
                           \/ handler'[k] = "leaving" /\ UNCHANGED shownVars
<1>1. CASE Delivered(k, frame) /\ handler' = [handler EXCEPT ![k] = "waiting"]
  <2>1. PICK d \in Consoles : conn[d] = k /\ Receive(d, frame)
    BY <1>1 DEF Delivered
  <2>2. conn[c] = k => c = d
    BY <2>1, HubAssumption DEF OnePagePerHandler
  <2>3. c # d => UNCHANGED <<gaps[c], hellos[c], told[c], last[c]>>
    BY <2>1 DEF Receive, HubTypeOK
  <2> QED BY <1>1, <2>1, <2>2, <2>3
<1>2. CASE /\ ~IsConnected(k) /\ handler' = [handler EXCEPT ![k] = "waiting"]
           /\ UNCHANGED shownVars
  BY <1>2 DEF IsConnected, shownVars
<1>3. CASE handler' = [handler EXCEPT ![k] = "leaving"] /\ UNCHANGED shownVars
  <2>1. handler'[k] = "leaving"
    BY <1>3 DEF HubTypeOK
  <2> QED BY <1>3, <2>1 DEF shownVars
<1> QED BY <1>1, <1>2, <1>3 DEF SendFrame

(* What a page makes of a frame. *)
LEMMA ReceivedFrame ==
  ASSUME HubTypeOK, NEW c \in Consoles, NEW frame \in Frames, Receive(c, frame)
  PROVE  /\ gaps'[c] = IF last[c] # -1 THEN gaps[c] + Cost(last[c], frame.number)
                                       ELSE gaps[c]
         /\ last'[c] = frame.number /\ told'[c] = frame.told
         /\ hellos'[c] = IF frame.number = 0 THEN hellos[c] + 1 ELSE hellos[c]
<1>1. gaps[c] \in Nat /\ last[c] \in Nat \cup {-1} /\ frame.number \in Nat
  BY DEF HubTypeOK, Frames
<1>2. gaps'[c] = IF last[c] # -1 /\ frame.number > last[c] + 1
                 THEN gaps[c] + 1 ELSE gaps[c]
  BY DEF Receive, HubTypeOK
<1>3. gaps'[c] = IF last[c] # -1 THEN gaps[c] + Cost(last[c], frame.number)
                                 ELSE gaps[c]
  BY <1>1, <1>2 DEF Cost
<1>4. last'[c] = frame.number /\ told'[c] = frame.told
  BY DEF Receive, HubTypeOK
<1>5. hellos'[c] = IF frame.number = 0 THEN hellos[c] + 1 ELSE hellos[c]
  BY DEF Receive, HubTypeOK
<1> QED BY <1>3, <1>4, <1>5

(* The hello frame costs no gap and pays for one. *)
LEMMA SendHelloGaps ==
  ASSUME HubInv, HubInv', PagesInv, NEW c \in Consoles, NEW k \in ClientIds,
         conn[c] = k, SendHello(k)
  PROVE  GapInv(c)'
<1> DEFINE frame == [number |-> 0, told |-> droppedTotal]
<1>1. /\ gaps[c] \in Nat /\ hellos[c] \in Nat /\ told[c] \in Nat
      /\ last[c] \in Nat \cup {-1} /\ droppedTotal \in Nat
  BY PageTypes DEF HubInv
<1>2. /\ droppedTotal' = droppedTotal /\ conn' = conn
      /\ frame \in Frames /\ frame.number = 0 /\ frame.told = droppedTotal
      /\ CountsInv(c) /\ OnePagePerHandler /\ HubTypeOK
      /\ SendFrame(k, frame)
  BY <1>1 DEF SendHello, hubVars, Frames, PagesInv, GapInv, HubInv
<1>3. handler'[k] \in {"waiting", "leaving"}
  BY <1>2, FrameReaches DEF HubTypeOK
<1> HIDE DEF frame
<1>4. CASE Receive(c, frame)
  <2>1. /\ last'[c] = 0 /\ told'[c] = droppedTotal /\ hellos'[c] = hellos[c] + 1
        /\ gaps'[c] = IF last[c] # -1 THEN gaps[c] + Cost(last[c], 0) ELSE gaps[c]
    BY <1>2, <1>4, ReceivedFrame
  <2>2. gaps'[c] = gaps[c]
    BY <1>1, <2>1 DEF Cost
  <2>3. CountsInv(c)' /\ WaitInv(c, k)'
    BY <1>1, <1>2, <2>1, <2>2 DEF CountsInv, WaitInv
  <2> QED BY <1>2, <1>3, <2>3 DEF GapInv
<1>5. CASE handler'[k] = "leaving" /\ UNCHANGED shownVars
  <2>1. CountsInv(c)'
    BY <1>2, <1>5 DEF CountsInv, shownVars
  <2> QED BY <1>2, <1>5, <2>1 DEF GapInv
<1> QED BY <1>2, <1>4, <1>5, FrameReaches

(* The event taken is the next one not past: if none was dropped since the  *)
(* one before, it costs no gap.                                              *)
LEMMA TakeEventGaps ==
  ASSUME HubInv, HubInv', PagesInv, NEW c \in Consoles, NEW k \in ClientIds,
         conn[c] = k, TakeEvent(k)
  PROVE  GapInv(c)'
<1>1. /\ gaps[c] \in Nat /\ hellos[c] \in Nat /\ told[c] \in Nat
      /\ last[c] \in Nat \cup {-1} /\ droppedTotal \in Nat
      /\ settled[k] \in Nat /\ dropped[k] \in Nat /\ Past(k) \in Nat
  BY PageTypes DEF HubInv
<1>2. /\ sequence \in Nat /\ queue[k] \in Seq(Nat) /\ queue[k] # <<>>
      /\ handler[k] = "waiting" /\ k \in clients
      /\ UNCHANGED <<droppedTotal, dropped, conn, last, gaps, told, hellos>>
  BY DEF HubInv, HubTypeOK, SlotsFollowHandlers, TakeEvent, hubVars, pageVars, shownVars
<1>3. /\ settled'[k] = settled[k] + 1 /\ handler'[k] = "sending"
      /\ sending'[k].number = Head(queue[k])
      /\ sending'[k].told = droppedTotal + dropped[k]
  BY DEF HubInv, HubTypeOK, TakeEvent
<1>4. Head(queue[k]) = Past(k) + 1
  <2>1. Len(queue[k]) \in Nat /\ 1 \in DOMAIN queue[k] /\ Head(queue[k]) = queue[k][1]
    BY <1>2
  <2>2. queue[k][1] = sequence - Len(queue[k]) + 1
    BY <1>2, <2>1 DEF HubInv, QueueHoldsNewest
  <2>3. settled[k] + dropped[k] + Len(queue[k]) = sequence
    BY <1>2 DEF HubInv, EveryEventIsAccounted
  <2>4. \A x, l \in Nat : x + l = sequence => sequence - l + 1 = x + 1
    BY <1>2
  <2>5. Past(k) + Len(queue[k]) = sequence
    BY <2>3 DEF Past
  <2> QED BY <1>1, <2>1, <2>2, <2>4, <2>5
<1>5. Past(k)' = Past(k) + 1
  <2>1. (settled[k] + 1) + dropped[k] = (settled[k] + dropped[k]) + 1
    BY <1>1
  <2> QED BY <1>2, <1>3, <2>1 DEF Past
<1>6. CountsInv(c) /\ WaitInv(c, k)
  BY <1>2 DEF PagesInv, GapInv
<1>7. CountsInv(c)'
  BY <1>2, <1>6 DEF CountsInv
<1>8. SendInv(c, k)'
  <2> DEFINE cost == IF Past(k) + 1 > last[c] + 1 THEN 1 ELSE 0
  <2>1. Cost(last[c], sending[k].number)' = cost
    BY <1>2, <1>3, <1>4 DEF Cost
  <2>2. last[c] >= 0 /\ gaps[c] + cost <= hellos[c] + droppedTotal
    BY <1>1, <1>6 DEF CountsInv, WaitInv
  <2>3. gaps[c] + cost <= hellos[c] + (droppedTotal + dropped[k])
    BY <1>1, <2>2
  <2>4. sending'[k].number = Past(k)' /\ Past(k)' > 0
    BY <1>1, <1>3, <1>4, <1>5
  <2>5. Past(k)' - Past(k)' = 0 /\ Past(k)' \in Nat /\ gaps[c] + cost + 0 = gaps[c] + cost
    BY <1>1, <1>5
  <2> HIDE DEF cost
  <2> QED BY <1>2, <1>3, <2>1, <2>2, <2>3, <2>4, <2>5 DEF SendInv
<1> QED BY <1>2, <1>3, <1>7, <1>8 DEF GapInv

(* The frame that arrives was paid for when it was made. *)
LEMMA SendEventGaps ==
  ASSUME HubInv, HubInv', PagesInv, NEW c \in Consoles, NEW k \in ClientIds,
         conn[c] = k, SendEvent(k)
  PROVE  GapInv(c)'
<1>1. /\ gaps[c] \in Nat /\ hellos[c] \in Nat /\ told[c] \in Nat
      /\ last[c] \in Nat \cup {-1} /\ droppedTotal \in Nat /\ Past(k) \in Nat
      /\ sending[k].number \in Nat /\ sending[k].told \in Nat
      /\ Cost(last[c], sending[k].number) \in {0, 1}
  BY PageTypes DEF HubInv
<1>2. /\ droppedTotal' = droppedTotal /\ conn' = conn /\ Past(k)' = Past(k)
      /\ sending[k] \in Frames /\ HubTypeOK /\ OnePagePerHandler
      /\ SendFrame(k, sending[k])
  BY DEF SendEvent, hubVars, subVars, Past, PagesInv, HubInv, HubTypeOK
<1>3. CountsInv(c) /\ SendInv(c, k)
  BY DEF SendEvent, PagesInv, GapInv
<1>4. handler'[k] \in {"waiting", "leaving"}
  BY <1>2, FrameReaches DEF HubTypeOK
<1>5. CASE Receive(c, sending[k])
  <2>1. /\ last'[c] = sending[k].number /\ told'[c] = sending[k].told
        /\ gaps'[c] = gaps[c] + Cost(last[c], sending[k].number)
        /\ hellos'[c] = hellos[c]
    BY <1>1, <1>2, <1>3, <1>5, ReceivedFrame DEF SendInv
  <2>2. CountsInv(c)' /\ WaitInv(c, k)'
    BY <1>1, <1>2, <1>3, <2>1 DEF SendInv, CountsInv, WaitInv
  <2> QED BY <1>2, <1>4, <2>2 DEF GapInv
<1>6. CASE handler'[k] = "leaving" /\ UNCHANGED shownVars
  <2>1. CountsInv(c)'
    BY <1>2, <1>3, <1>6 DEF CountsInv, shownVars
  <2> QED BY <1>2, <1>6, <2>1 DEF GapInv
<1> QED BY <1>2, <1>5, <1>6, FrameReaches

(* A frame for another page changes nothing here. *)
LEMMA OtherFrame ==
  ASSUME HubInv, HubInv', PagesInv, NEW c \in Consoles, NEW k \in ClientIds,
         conn[c] # k, SendHello(k) \/ TakeEvent(k) \/ SendEvent(k)
  PROVE  GapInv(c)'
<1>1. HubTypeOK /\ HubTypeOK' /\ GapInv(c) /\ OnePagePerHandler
  BY DEF HubInv, PagesInv
<1>2. UNCHANGED <<droppedTotal, dropped, conn>>
  BY DEF SendHello, TakeEvent, SendEvent, hubVars, subVars, pageVars
<1>3. UNCHANGED <<gaps[c], hellos[c], told[c], last[c]>>
  <2>1. CASE TakeEvent(k)
    BY <2>1 DEF TakeEvent, pageVars, shownVars
  <2>2. CASE SendHello(k) \/ SendEvent(k)
    BY <1>1, <2>2, FrameReaches DEF SendHello, SendEvent
  <2> QED BY <2>1, <2>2
<1>4. ASSUME NEW j \in ClientIds, j # k
      PROVE  /\ handler'[j] = handler[j] /\ sending'[j] = sending[j]
             /\ settled'[j] = settled[j]
  <2>1. CASE TakeEvent(k)
    BY <1>1, <1>4, <2>1 DEF TakeEvent, HubTypeOK
  <2>2. CASE SendHello(k) \/ SendEvent(k)
    <3>1. handler'[j] = handler[j]
      <4>1. PICK frame : SendFrame(k, frame)
        BY <2>2 DEF SendHello, SendEvent
      <4>2. handler' \in {[handler EXCEPT ![k] = "waiting"],
                         [handler EXCEPT ![k] = "leaving"]}
        BY <1>1, <4>1, FrameReaches
      <4> QED BY <1>1, <1>4, <4>2 DEF HubTypeOK
    <3>2. sending'[j] = sending[j] /\ settled'[j] = settled[j]
      BY <1>1, <1>4, <2>2 DEF SendHello, SendEvent, HubTypeOK, subVars
    <3> QED BY <3>1, <3>2
  <2> QED BY <2>1, <2>2
<1> QED BY <1>1, <1>2, <1>3, <1>4, GapFrame

(* Subscriptions, handshakes, ends of handlers and of pages. *)
LEMMA OtherStepGaps ==
  ASSUME HubInv, HubInv', PagesInv, NEW c \in Consoles, NEW d \in Consoles,
         NEW k \in ClientIds,
         \/ Subscribe(d, k) \/ Unsubscribe(k)
         \/ Accept(k) \/ FailEarly(k) \/ NoticeClosed(k)
         \/ RefuseAtLimit(d) \/ Connect(d) \/ LoseConnection(d) \/ Leave(d)
  PROVE  GapInv(c)'
<1>1. HubTypeOK /\ HubTypeOK' /\ GapInv(c)
  BY DEF HubInv, PagesInv
<1>2. CASE Subscribe(d, k)
  <2>1. UNCHANGED <<droppedTotal, gaps, hellos, told, last, sending>>
    BY <1>2 DEF Subscribe, Opens, hubVars, shownVars
  <2>2. /\ handler'[k] = "subscribed" /\ conn[c] # k
        /\ conn'[c] \in {conn[c], k}
        /\ \A j \in ClientIds \ {k} : /\ handler'[j] = handler[j]
                                       /\ settled'[j] = settled[j]
                                       /\ dropped'[j] = dropped[j]
    BY <1>1, <1>2 DEF Subscribe, Opens, HubTypeOK
  <2> QED BY <1>1, <2>1, <2>2, GapFrame
<1>3. CASE Unsubscribe(k)
  <2>1. UNCHANGED <<droppedTotal, gaps, hellos, told, last, sending>>
    BY <1>3 DEF Unsubscribe, hubVars, shownVars
  <2>2. /\ handler'[k] = "none"
        /\ conn'[c] \in {conn[c], NoClient}
        /\ \A j \in ClientIds \ {k} : /\ handler'[j] = handler[j]
                                       /\ settled'[j] = settled[j]
                                       /\ dropped'[j] = dropped[j]
    BY <1>1, <1>3 DEF Unsubscribe, HubTypeOK
  <2> QED BY <1>1, <2>1, <2>2, HubAssumption, GapFrame
<1>4. CASE Accept(k) \/ FailEarly(k) \/ NoticeClosed(k)
  <2>1. UNCHANGED <<droppedTotal, settled, dropped, gaps, hellos, told, last, sending, conn>>
    BY <1>4 DEF Accept, FailEarly, NoticeClosed, hubVars, subVars, pageVars, shownVars
  <2>2. \A j \in ClientIds : \/ handler'[j] = handler[j]
                             \/ handler'[j] \notin {"waiting", "sending"}
    BY <1>1, <1>4 DEF Accept, FailEarly, NoticeClosed, HubTypeOK
  <2> QED BY <1>1, <2>1, <2>2, GapFrame
<1>5. CASE RefuseAtLimit(d) \/ Connect(d) \/ LoseConnection(d) \/ (Leave(d) /\ c # d)
  <2>1. UNCHANGED <<hubVars, subVars, streamVars>>
    BY <1>5, Zenon DEF RefuseAtLimit, Connect, LoseConnection, Leave
  <2>2. UNCHANGED <<gaps[c], hellos[c], told[c], last[c]>>
    BY <1>1, <1>5 DEF RefuseAtLimit, Connect, LoseConnection, Leave, HubTypeOK, shownVars
  <2>3. conn'[c] \in {conn[c], NoClient}
    BY <1>1, <1>5 DEF RefuseAtLimit, Connect, LoseConnection, Leave, HubTypeOK
  <2> QED BY <1>1, <2>1, <2>2, <2>3, HubAssumption, GapFrame DEF hubVars, subVars, streamVars
<1>6. CASE Leave(c) /\ c = d
  <2>1. /\ gaps'[c] = 0 /\ hellos'[c] = 0 /\ told'[c] = 0 /\ conn'[c] = NoClient
        /\ droppedTotal' \in Nat
    BY <1>1, <1>6 DEF Leave, HubTypeOK
  <2> QED BY <2>1, HubAssumption DEF GapInv, CountsInv
<1> QED BY <1>2, <1>3, <1>4, <1>5, <1>6

(* A page is connected to a handler that serves no other. *)
LEMMA OnePageStep ==
  ASSUME HubInv, HubInv', OnePagePerHandler, [HubNext]_vars
  PROVE  OnePagePerHandler'
<1>1. ASSUME NEW d \in Consoles, NEW k \in ClientIds, Subscribe(d, k)
      PROVE  OnePagePerHandler'
  <2>1. /\ conn' = [conn EXCEPT ![d] = k] /\ conn \in [Consoles -> ClientIds \cup {NoClient}]
        /\ \A e \in Consoles : conn[e] # k
    BY <1>1 DEF Subscribe, Opens, HubInv, HubTypeOK
  <2>2. \A e \in Consoles : conn'[e] = IF e = d THEN k ELSE conn[e]
    BY <2>1
  <2> QED BY <2>1, <2>2 DEF OnePagePerHandler
<1>2. ASSUME NEW k \in ClientIds, Unsubscribe(k) PROVE OnePagePerHandler'
  BY <1>2 DEF Unsubscribe, HubInv, HubTypeOK, OnePagePerHandler
<1>3. ASSUME NEW d \in Consoles, LoseConnection(d) \/ Leave(d) PROVE OnePagePerHandler'
  BY <1>3 DEF LoseConnection, Leave, HubInv, HubTypeOK, OnePagePerHandler
<1>4. CASE UNCHANGED conn
  BY <1>4 DEF OnePagePerHandler
<1>5. ASSUME NEW k \in ClientIds,
             \/ Accept(k) \/ Announce(k) \/ SendHello(k) \/ TakeEvent(k)
             \/ SendEvent(k) \/ FailEarly(k) \/ NoticeClosed(k)
      PROVE  UNCHANGED conn
  BY <1>5 DEF Accept, Announce, SendHello, TakeEvent, SendEvent, FailEarly,
              NoticeClosed, pageVars
<1>6. ASSUME NEW d \in Consoles, RefuseAtLimit(d) \/ Connect(d) PROVE UNCHANGED conn
  BY <1>6 DEF RefuseAtLimit, Connect
<1>7. Publish \/ UNCHANGED vars => UNCHANGED conn
  BY DEF Publish, vars, pageVars
<1> QED BY <1>1, <1>2, <1>3, <1>4, <1>5, <1>6, <1>7 DEF HubNext, Stream

(* What the handler of one page does is no matter of the others.             *)
LEMMA GapStep ==
  ASSUME HubInv, HubInv', PagesInv, [HubNext]_vars, NEW c \in Consoles
  PROVE  GapInv(c)'
<1>1. GapInv(c)
  BY DEF PagesInv
<1>2. CASE Publish
  BY <1>1, <1>2, PublicationGaps DEF Publish, streamVars
<1>3. ASSUME NEW k \in ClientIds, Announce(k) PROVE GapInv(c)'
  <2>1. \A j \in ClientIds : \/ handler'[j] = handler[j]
                             \/ handler'[j] \notin {"waiting", "sending"}
    BY <1>3 DEF Announce, HubInv, HubTypeOK
  <2> QED BY <1>1, <1>3, <2>1, PublicationGaps DEF Announce
<1>4. ASSUME NEW k \in ClientIds, SendHello(k) \/ TakeEvent(k) \/ SendEvent(k)
      PROVE  GapInv(c)'
  BY <1>4, SendHelloGaps, TakeEventGaps, SendEventGaps, OtherFrame
<1>5. ASSUME NEW d \in Consoles, NEW k \in ClientIds, Subscribe(d, k)
      PROVE  GapInv(c)'
  BY <1>5, OtherStepGaps
<1>6. ASSUME NEW k \in ClientIds,
             Accept(k) \/ FailEarly(k) \/ NoticeClosed(k) \/ Unsubscribe(k)
      PROVE  GapInv(c)'
  BY <1>6, OtherStepGaps
<1>7. ASSUME NEW d \in Consoles,
             RefuseAtLimit(d) \/ Connect(d) \/ LoseConnection(d) \/ Leave(d)
      PROVE  GapInv(c)'
  <2>1. CASE \E k \in ClientIds : TRUE
    BY <1>7, <2>1, OtherStepGaps
  <2>2. CASE ClientIds = {}
    <3>1. CountsInv(c)'
      <4>1. CountsInv(c) /\ HubTypeOK
        BY <1>1 DEF GapInv, HubInv
      <4>2. /\ droppedTotal' = droppedTotal
            /\ \/ UNCHANGED <<gaps[c], hellos[c], told[c]>>
               \/ gaps'[c] = 0 /\ hellos'[c] = 0 /\ told'[c] = 0
        BY <1>7, <4>1 DEF RefuseAtLimit, Connect, LoseConnection, Leave, hubVars,
                          shownVars, HubTypeOK
      <4> QED BY <4>1, <4>2 DEF CountsInv, HubTypeOK
    <3> QED BY <2>2, <3>1 DEF GapInv
  <2> QED BY <2>1, <2>2
<1>8. CASE UNCHANGED vars
  BY <1>1, <1>8, GapFrame DEF vars, hubVars, subVars, streamVars, pageVars, shownVars, HubInv
<1> QED BY <1>2, <1>3, <1>4, <1>5, <1>6, <1>7, <1>8 DEF HubNext, Stream

(* A page shows no more gaps than the drops it has been told of and the      *)
(* hello frames it has shown, through any number of reconnections, and       *)
(* although the number it is told is of an earlier moment than the frame.    *)
THEOREM GapsAreAlwaysExplained == HubSpec => []GapsAreExplained
<1>1. HubInit => PagesInv
  BY DEF HubInit, PagesInv, OnePagePerHandler, GapInv, CountsInv
<1>2. HubInv /\ HubInv' /\ PagesInv /\ [HubNext]_vars => PagesInv'
  BY GapStep, OnePageStep DEF PagesInv
<1>3. PagesInv => GapsAreExplained
  BY DEF PagesInv, GapInv, CountsInv, GapsAreExplained
<1> QED BY <1>1, <1>2, <1>3, HubInvHolds, PTL DEF HubSpec
==============================================================================
