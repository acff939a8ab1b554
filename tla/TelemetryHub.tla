----------------------------- MODULE TelemetryHub -----------------------------
(***************************************************************************)
(* The telemetry fan-out of the local API and the console that reads it    *)
(* (python/perceptshift_api: telemetry.py, routers/telemetry.py; web:      *)
(* hooks/useTelemetrySocket.ts).                                           *)
(*                                                                         *)
(* The hub's methods hold an asyncio lock and never await inside it, so    *)
(* each is one step of the event loop.  Between two awaits of a stream     *)
(* handler the rest of the program runs.  Events are their sequence        *)
(* numbers.  A console is a page with one socket at a time; a subscription *)
(* and the handler that made it share a client id, and a page that         *)
(* reconnects gets a new one while the old handler may still be at work.   *)
(***************************************************************************)
EXTENDS Integers, Sequences, FiniteSets

CONSTANTS
  Consoles,      (* pages that show telemetry                               *)
  ClientIds,     (* ids of subscriptions; one that nothing refers to any    *)
                 (* more stands for a fresh one                             *)
  NoClient,      (* no id                                                   *)
  QueueSize,     (* websocket_queue_size                                    *)
  CacheSize,     (* telemetry_cache_size                                    *)
  MaxClients,    (* websocket_max_clients                                   *)
  MaxSequence    (* bound: no event of the bridge and no socket beyond it   *)

ASSUME HubAssumption ==
  /\ QueueSize \in Nat \ {0} /\ CacheSize \in Nat \ {0} /\ MaxClients \in Nat
  /\ MaxSequence \in Nat /\ IsFiniteSet(ClientIds) /\ NoClient \notin ClientIds

VARIABLES
  sequence,      (* _sequence                                               *)
  cache,         (* _cache                                                  *)
  droppedTotal,  (* _dropped_total                                          *)
  clients,       (* the keys of _clients                                    *)
  queue,         (* the queue of each subscription                          *)
  dropped,       (* ClientSubscription.dropped                              *)
  settled,       (* history: events before the subscription or taken since  *)
  handler,       (* where the stream handler of a subscription is; failed:  *)
                 (* it ended before its try, and nobody unsubscribes        *)
  sending,       (* the frame it has made of an event                       *)
  closed,        (* the sockets that the server knows to be closed          *)
  page,          (* the hook's socket: off, opening, open, waiting          *)
  conn,          (* the handler at the other end of the page's socket       *)
  last,          (* lastSequence of the hook; -1: null                      *)
  gaps,          (* sequenceGaps of the hook                                *)
  told,          (* droppedEventCount of the hook                           *)
  hellos         (* history: hello frames a page has shown                  *)

hubVars    == <<sequence, cache, droppedTotal>>
subVars    == <<clients, queue, dropped, settled>>
streamVars == <<handler, sending, closed>>
shownVars  == <<last, gaps, told, hellos>>
pageVars   == <<page, conn, shownVars>>
vars       == <<hubVars, subVars, streamVars, pageVars>>

Frames  == [number : Nat, told : Nat]
NoFrame == [number |-> 0, told |-> 0]

HubTypeOK ==
  /\ sequence \in Nat /\ cache \in Seq(Nat) /\ droppedTotal \in Nat
  /\ clients \subseteq ClientIds
  /\ queue \in [ClientIds -> Seq(Nat)]
  /\ dropped \in [ClientIds -> Nat] /\ settled \in [ClientIds -> Nat]
  /\ handler \in [ClientIds -> {"none", "subscribed", "accepted", "failed",
                                "announced", "waiting", "sending", "leaving"}]
  /\ sending \in [ClientIds -> Frames] /\ closed \subseteq ClientIds
  /\ page \in [Consoles -> {"off", "opening", "open", "waiting"}]
  /\ conn \in [Consoles -> ClientIds \cup {NoClient}]
  /\ last \in [Consoles -> Nat \cup {-1}]
  /\ gaps \in [Consoles -> Nat] /\ told \in [Consoles -> Nat]
  /\ hellos \in [Consoles -> Nat]

(* "api_started" is published before the first request is served. *)
HubInit ==
  /\ sequence = 1 /\ cache = <<1>> /\ droppedTotal = 0
  /\ clients = {} /\ closed = {}
  /\ queue = [k \in ClientIds |-> <<>>]
  /\ dropped = [k \in ClientIds |-> 0]
  /\ settled = [k \in ClientIds |-> 0]
  /\ handler = [k \in ClientIds |-> "none"]
  /\ sending = [k \in ClientIds |-> NoFrame]
  /\ page = [c \in Consoles |-> "off"]
  /\ conn = [c \in Consoles |-> NoClient]
  /\ last = [c \in Consoles |-> -1]
  /\ gaps = [c \in Consoles |-> 0]
  /\ told = [c \in Consoles |-> 0]
  /\ hellos = [c \in Consoles |-> 0]
------------------------------------------------------------------------------
(***************************************************************************)
(* The hub                                                                 *)
(***************************************************************************)
(* Deviation: a full queue refuses the new element. *)
PushKeepingOldest(q, e, size) == IF Len(q) < size THEN Append(q, e) ELSE q

(* A bounded queue that gives up its oldest element for a new one: a full   *)
(* subscription's queue, and the cache, a deque with a maxlen.               *)
PushBounded(q, e, size) ==
  Append(IF Len(q) < size THEN q ELSE Tail(q), e)

(* Deviation: an off-by-one in the test for a full queue. *)
QueuesPastLimit == {k \in clients : Len(queue[k]) > QueueSize}

FullQueues == {k \in clients : Len(queue[k]) >= QueueSize}

(* The second QueueFull of the code, which would drop the client, cannot    *)
(* occur: the lock is held and nothing else puts.                            *)
PublishEvent ==
  LET event == sequence + 1 IN
  /\ sequence' = event
  /\ cache' = PushBounded(cache, event, CacheSize)
  /\ queue' = [k \in ClientIds |-> IF k \in clients
                                   THEN PushBounded(queue[k], event, QueueSize)
                                   ELSE queue[k]]
  /\ dropped' = [k \in ClientIds |-> IF k \in FullQueues THEN dropped[k] + 1
                                                          ELSE dropped[k]]
  /\ droppedTotal' = droppedTotal + Cardinality(FullQueues)
  /\ UNCHANGED <<clients, settled>>

(* Anything the bridge or the lifespan publishes. *)
Publish ==
  /\ sequence < MaxSequence
  /\ PublishEvent
  /\ UNCHANGED <<streamVars, pageVars>>
------------------------------------------------------------------------------
(***************************************************************************)
(* telemetry_stream, the handler of one socket                             *)
(***************************************************************************)
Opens(c, k) ==
  /\ page[c] = "opening" /\ conn[c] = NoClient
  /\ k \in ClientIds \ clients /\ \A d \in Consoles : conn[d] # k
  /\ clients' = clients \cup {k}
  /\ queue' = [queue EXCEPT ![k] = <<>>]
  /\ dropped' = [dropped EXCEPT ![k] = 0]
  /\ settled' = [settled EXCEPT ![k] = sequence]
  /\ handler' = [handler EXCEPT ![k] = "subscribed"]
  /\ conn' = [conn EXCEPT ![c] = k]
  /\ UNCHANGED <<hubVars, sending, closed, page, shownVars>>

(* Deviation: the limit is not tested. *)
SubscribeUnlimited(c, k) == Opens(c, k)

Subscribe(c, k) == Cardinality(clients) < MaxClients /\ Opens(c, k)

Refused(c) ==
  /\ page[c] = "opening" /\ conn[c] = NoClient
  /\ Cardinality(clients) >= MaxClients

(* Deviation: the hook takes a refusal for the end. *)
GiveUpAtLimit(c) ==
  /\ Refused(c)
  /\ page' = [page EXCEPT ![c] = "closed"]
  /\ UNCHANGED <<hubVars, subVars, streamVars, conn, shownVars>>

(* The socket is closed with 1013 and the hook's onclose schedules a retry. *)
RefuseAtLimit(c) ==
  /\ Refused(c)
  /\ page' = [page EXCEPT ![c] = "waiting"]
  /\ UNCHANGED <<hubVars, subVars, streamVars, conn, shownVars>>

(* accept(), and the hook's onopen, if the page is still there. *)
Accept(k) ==
  /\ handler[k] = "subscribed"
  /\ handler' = [handler EXCEPT ![k] = "accepted"]
  /\ page' = [c \in Consoles |-> IF conn[c] = k THEN "open" ELSE page[c]]
  /\ UNCHANGED <<hubVars, subVars, sending, closed, conn, shownVars>>

(* accept() or emit_connection_status() raises, as the page is gone or the   *)
(* task is cancelled.  Both come before the try: the subscription stays.     *)
FailEarly(k) ==
  /\ handler[k] \in {"subscribed", "accepted"}
  /\ handler' = [handler EXCEPT ![k] = "failed"]
  /\ UNCHANGED <<hubVars, subVars, sending, closed, pageVars>>

(* The "connected" event goes to every subscriber, this one included. *)
Announce(k) ==
  /\ handler[k] = "accepted"
  /\ PublishEvent
  /\ handler' = [handler EXCEPT ![k] = "announced"]
  /\ UNCHANGED <<sending, closed, pageVars>>

(* Deviation: the next number already counts as a gap. *)
ReceiveOffByOne(c, frame) ==
  /\ gaps' = [gaps EXCEPT ![c] =
                IF last[c] # -1 /\ frame.number > last[c] THEN @ + 1 ELSE @]
  /\ last' = [last EXCEPT ![c] = frame.number]
  /\ told' = [told EXCEPT ![c] = frame.told]
  /\ hellos' = [hellos EXCEPT ![c] = IF frame.number = 0 THEN @ + 1 ELSE @]

(* onmessage: a frame whose number is more than one ahead counts as a gap. *)
Receive(c, frame) ==
  /\ gaps' = [gaps EXCEPT ![c] =
                IF last[c] # -1 /\ frame.number > last[c] + 1 THEN @ + 1 ELSE @]
  /\ last' = [last EXCEPT ![c] = frame.number]
  /\ told' = [told EXCEPT ![c] = frame.told]
  /\ hellos' = [hellos EXCEPT ![c] = IF frame.number = 0 THEN @ + 1 ELSE @]

IsConnected(k) == \E c \in Consoles : conn[c] = k

Delivered(k, frame) == \E c \in Consoles : conn[c] = k /\ Receive(c, frame)

(* Deviation: a failed send is swallowed. *)
SendFrameQuietly(k, frame) ==
  /\ handler' = [handler EXCEPT ![k] = "waiting"]
  /\ \/ Delivered(k, frame)
     \/ ~IsConnected(k) /\ UNCHANGED shownVars

(* send_json reaches the page; or is buffered for a page that has gone, as   *)
(* long as the server does not know; or raises.                              *)
SendFrame(k, frame) ==
  \/ /\ Delivered(k, frame) /\ k \notin closed
     /\ handler' = [handler EXCEPT ![k] = "waiting"]
  \/ /\ ~IsConnected(k) /\ k \notin closed
     /\ handler' = [handler EXCEPT ![k] = "waiting"]
     /\ UNCHANGED shownVars
  \/ /\ handler' = [handler EXCEPT ![k] = "leaving"]
     /\ UNCHANGED shownVars

(* The hello frame has number 0. *)
SendHello(k) ==
  /\ handler[k] = "announced"
  /\ SendFrame(k, [number |-> 0, told |-> droppedTotal])
  /\ UNCHANGED <<hubVars, subVars, sending, closed, page, conn>>

(* The number of drops in a frame adds those of the subscription, which the  *)
(* total already has.                                                        *)
TakeEvent(k) ==
  /\ handler[k] = "waiting" /\ queue[k] # <<>>
  /\ sending' = [sending EXCEPT ![k] = [number |-> Head(queue[k]),
                                        told |-> droppedTotal + dropped[k]]]
  /\ queue' = [queue EXCEPT ![k] = Tail(@)]
  /\ settled' = [settled EXCEPT ![k] = @ + 1]
  /\ handler' = [handler EXCEPT ![k] = "sending"]
  /\ UNCHANGED <<hubVars, clients, dropped, closed, pageVars>>

SendEvent(k) ==
  /\ handler[k] = "sending"
  /\ SendFrame(k, sending[k])
  /\ sending' = [sending EXCEPT ![k] = NoFrame]
  /\ UNCHANGED <<hubVars, subVars, closed, page, conn>>

(* The finally clause; the server closes the socket.  The subscription's     *)
(* queue is garbage from here on.                                            *)
Unsubscribe(k) ==
  /\ handler[k] = "leaving"
  /\ clients' = clients \ {k}
  /\ queue' = [queue EXCEPT ![k] = <<>>]
  /\ dropped' = [dropped EXCEPT ![k] = 0]
  /\ settled' = [settled EXCEPT ![k] = 0]
  /\ handler' = [handler EXCEPT ![k] = "none"]
  /\ closed' = closed \ {k}
  /\ conn' = [c \in Consoles |-> IF conn[c] = k THEN NoClient ELSE conn[c]]
  /\ UNCHANGED <<hubVars, sending, page, shownVars>>

(* The server learns that the page of a handler has gone: a close frame, a   *)
(* reset, or its ping times out.                                             *)
NoticeClosed(k) ==
  /\ handler[k] \notin {"none", "failed"} /\ k \notin closed
  /\ ~IsConnected(k)
  /\ closed' = closed \cup {k}
  /\ UNCHANGED <<hubVars, subVars, handler, sending, pageVars>>
------------------------------------------------------------------------------
(***************************************************************************)
(* useTelemetrySocket, the hook of a page                                  *)
(***************************************************************************)
(* The effect runs, or its reconnect timer fires: connect(). *)
Connect(c) ==
  /\ sequence < MaxSequence
  /\ page[c] \in {"off", "waiting"}
  /\ page' = [page EXCEPT ![c] = "opening"]
  /\ UNCHANGED <<hubVars, subVars, streamVars, conn, shownVars>>

(* The connection is lost: onclose, and a timer. *)
LoseConnection(c) ==
  /\ page[c] \in {"opening", "open"}
  /\ page' = [page EXCEPT ![c] = "waiting"]
  /\ conn' = [conn EXCEPT ![c] = NoClient]
  /\ UNCHANGED <<hubVars, subVars, streamVars, shownVars>>

(* The effect's cleanup, which cancels the timer and closes the socket; the *)
(* state of the hook survives until the page is left.                        *)
Leave(c) ==
  /\ page[c] # "off"
  /\ page' = [page EXCEPT ![c] = "off"]
  /\ conn' = [conn EXCEPT ![c] = NoClient]
  /\ last' = [last EXCEPT ![c] = -1]
  /\ gaps' = [gaps EXCEPT ![c] = 0]
  /\ told' = [told EXCEPT ![c] = 0]
  /\ hellos' = [hellos EXCEPT ![c] = 0]
  /\ UNCHANGED <<hubVars, subVars, streamVars>>
------------------------------------------------------------------------------
Stream(k) == \/ Accept(k) \/ Announce(k) \/ SendHello(k)
             \/ TakeEvent(k) \/ SendEvent(k) \/ Unsubscribe(k)

HubNext ==
  \/ Publish
  \/ \E k \in ClientIds : Stream(k) \/ FailEarly(k) \/ NoticeClosed(k)
  \/ \E c \in Consoles :
       \/ \E k \in ClientIds : Subscribe(c, k)
       \/ RefuseAtLimit(c) \/ Connect(c) \/ LoseConnection(c) \/ Leave(c)

HubSpec == HubInit /\ [][HubNext]_vars

(* The event loop keeps running the handlers, and a send returns or raises. *)
LiveHubSpec == HubSpec /\ \A k \in ClientIds : WF_vars(Stream(k))
------------------------------------------------------------------------------
(* A subscriber's queue holds the newest events, in order and without a     *)
(* hole: a slow console loses old events, never recent ones (publish).      *)
QueueHoldsNewest ==
  \A k \in clients : \A i \in DOMAIN queue[k] :
    queue[k][i] = sequence - Len(queue[k]) + i

(* Every event since the subscription is queued, taken or counted once in    *)
(* the subscription's own counter, also for a subscription that its handler  *)
(* has left behind (publish).                                                *)
EveryEventIsAccounted ==
  \A k \in clients :
    settled[k] + dropped[k] + Len(queue[k]) = sequence

(* A slot is held exactly while a handler runs or after one has failed       *)
(* before its try, a page is served by a handler that holds a slot, and slots *)
(* and queues stay within their settings: a handler whose subscription was   *)
(* taken away would wait for ever (subscribe, unsubscribe).                   *)
SlotsFollowHandlers ==
  /\ \A k \in ClientIds : k \in clients <=> handler[k] # "none"
  /\ \A c \in Consoles : conn[c] \in clients \cup {NoClient}
  /\ Cardinality(clients) <= MaxClients
  /\ \A k \in clients : Len(queue[k]) <= QueueSize
  /\ Len(cache) <= CacheSize

(* What a page shows is consistent with itself: its gaps are explained by the *)
(* drops it has been told of, except for one per connection, as the hello     *)
(* frame is numbered 0 and the first event after it counts as a gap           *)
(* (onmessage, telemetry_stream).                                             *)
GapsAreExplained ==
  \A c \in Consoles : gaps[c] <= hellos[c] + told[c]

(* A handler in its loop with something to send, whose socket the server      *)
(* knows to be closed, frees its slot.  With nothing to send, or before the   *)
(* server knows, it does not: the loop of telemetry_stream learns of a        *)
(* disconnect by a send that raises.                                          *)
ClosedSocketFreesSlot ==
  \A k \in ClientIds :
    (/\ k \in closed
     /\ \/ handler[k] \in {"announced", "sending"}
        \/ handler[k] = "waiting" /\ queue[k] # <<>>)
      ~> k \notin clients
==============================================================================
