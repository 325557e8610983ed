------------------------------ MODULE EventRelay ------------------------------
(***************************************************************************)
(* Events of running flows on their way from a worker to browsers.         *)
(*                                                                         *)
(*   utils/SSEStreamer.ts                   open responses and observers   *)
(*   queue/RedisEventSubscriber.ts          channels a replica listens to  *)
(*   queue/RedisEventPublisher.ts           the worker's end               *)
(*   services/webhook-listener/registry.ts  who watches a flow, and where  *)
(*   controllers/webhook, webhook-listener, predictions                    *)
(*                                                                         *)
(* Queue mode: a worker publishes the events of a run on the channel of    *)
(* its chat; a replica subscribes to it and writes what arrives to the     *)
(* response of the chat and to the panels observing it.  One flow.         *)
(***************************************************************************)
EXTENDS Naturals, Sequences, FiniteSets

CONSTANTS
  Replicas,    \* servers
  Listeners,   \* webhook panels: each connects once
  Chats,       \* chat ids, which are channels
  Requests,    \* requests that run the flow
  Plans,       \* request -> what it may be: [kind, chat, at]
  Nobody,      \* no replica, no response
  MaxEvents    \* bound: request -> events of its run

ASSUME RelayAssumption ==
  /\ Plans \in [Requests -> 
       SUBSET [kind : {"stream", "webhook", "webhookStream"}, chat : Chats, at : Replicas]]
  /\ Chats \cap Listeners = {} /\ Requests \cap Listeners = {} /\ Requests \cap Chats = {}
  /\ Nobody \notin Replicas \cup Requests \cup Listeners
  /\ MaxEvents \in [Requests -> Nat]

VARIABLES
  clients,     \* replica -> chat or listener -> whose response is open
  observers,   \* replica -> chat -> listeners that get a copy
  subscribed,  \* replica -> subscribedChannels
  channels,    \* replica -> channels it is subscribed to at Redis
  handlers,    \* replica -> channel -> message handlers of the Redis client
  inbox,       \* replica -> replies and messages of the subscriber's connection
  binds,       \* bind messages on their way between replicas
  registry,    \* listener -> the replica its entry names
  panel,       \* listener -> where it is and how far
  request,     \* request -> what it is and how far
  emitted,     \* request -> events its run has published
  heard        \* history: what was written to each response

vars == <<clients, observers, subscribed, channels, handlers, inbox, binds,
          registry, panel, request, emitted, heard>>

streamer == <<clients, observers, heard>>
subscriber == <<subscribed, channels, handlers, inbox>>
watchers == <<registry, panel>>

Init ==
  /\ clients = [r \in Replicas |-> [id \in Chats \cup Listeners |-> Nobody]]
  /\ observers = [r \in Replicas |-> [k \in Chats |-> {}]]
  /\ subscribed = [r \in Replicas |-> {}]
  /\ channels = [r \in Replicas |-> {}]
  /\ handlers = [r \in Replicas |-> [k \in Chats |-> 0]]
  /\ inbox = [r \in Replicas |-> << >>]
  /\ binds = {}
  /\ registry = [l \in Listeners |-> Nobody]
  /\ panel = [l \in Listeners |-> [pc |-> "off", at |-> Nobody]]
  /\ request = [q \in Requests |->
                  [pc |-> "new", kind |-> "webhook", chat |-> Nobody, at |-> Nobody, todo |-> {}]]
  /\ emitted = [q \in Requests |-> 0]
  /\ heard = [x \in Listeners \cup Requests |-> << >>]

---------------------------------------------------------------------------
(***************************************************************************)
(* SSEStreamer                                                             *)
(***************************************************************************)
HasClient(r, id) == clients[r][id] # Nobody

AddClient(r, id, who) == clients' = [clients EXCEPT ![r][id] = who]

(* Those a write for a chat reaches: its own response and its observers.   *)
Reached(r, k) ==
  {clients[r][id] : id \in {k} \cup observers[r][k]} \ {Nobody}

(* safeWrite of what n handlers write; observers that are gone are dropped. *)
SafeWrite(r, k, event, n) ==
  /\ heard' = [x \in Listeners \cup Requests |->
                 IF x \in Reached(r, k) THEN heard[x] \o [i \in 1..n |-> event] ELSE heard[x]]
  /\ observers' = IF n = 0 THEN observers
                  ELSE [observers EXCEPT ![r][k] = {l \in @ : HasClient(r, l)}]
  /\ UNCHANGED clients

(* Mutant: who was removed keeps observing. *)
MutRemoveClient(r, id) ==
  /\ heard' = [x \in Listeners \cup Requests |->
                 IF id \in Chats /\ x \in Reached(r, id)
                 THEN Append(heard[x], [of |-> id, n |-> 0]) ELSE heard[x]]
  /\ clients' = [clients EXCEPT ![r][id] = Nobody]
  /\ observers' = [observers EXCEPT ![r] =
                     [k \in Chats |-> IF k = id THEN {} ELSE observers[r][k]]]

(* The response ends, the observers of the chat are told and let go, and   *)
(* who was removed observes nothing any more.                              *)
RemoveClient(r, id) ==
  /\ heard' = [x \in Listeners \cup Requests |->
                 IF id \in Chats /\ x \in Reached(r, id)
                 THEN Append(heard[x], [of |-> id, n |-> 0]) ELSE heard[x]]
  /\ clients' = [clients EXCEPT ![r][id] = Nobody]
  /\ observers' = [observers EXCEPT ![r] =
                     [k \in Chats |-> IF k = id THEN {} ELSE observers[r][k] \ {id}]]

---------------------------------------------------------------------------
(***************************************************************************)
(* RedisEventSubscriber.  A command is carried out by Redis at once; its   *)
(* reply comes in order with the messages.                                 *)
(***************************************************************************)
Reply(kind, k, by) == [kind |-> kind, chat |-> k, by |-> by, n |-> 0]

Subscribe(r, k, by) ==
  IF k \in subscribed[r] THEN UNCHANGED subscriber
  ELSE /\ channels' = [channels EXCEPT ![r] = @ \cup {k}]
       /\ inbox' = [inbox EXCEPT ![r] = Append(@, Reply("subscribed", k, by))]
       /\ UNCHANGED <<subscribed, handlers>>

Unsubscribe(r, k, by) ==
  IF k \notin subscribed[r] THEN UNCHANGED subscriber
  ELSE /\ channels' = [channels EXCEPT ![r] = @ \ {k}]
       /\ inbox' = [inbox EXCEPT ![r] = Append(@, Reply("unsubscribed", k, by))]
       /\ UNCHANGED <<subscribed, handlers>>

(* Who awaited the reply goes on. *)
Resumed(by, pc) == IF by \in Requests THEN [request EXCEPT ![by].pc = pc] ELSE request

TakeSubscribed(r) ==
  LET m == Head(inbox[r])
  IN  /\ inbox[r] # << >> /\ m.kind = "subscribed"
      /\ inbox' = [inbox EXCEPT ![r] = Tail(@)]
      /\ handlers' = [handlers EXCEPT ![r][m.chat] = @ + 1]
      /\ subscribed' = [subscribed EXCEPT ![r] = @ \cup {m.chat}]
      /\ request' = Resumed(m.by, "bind")
      /\ UNCHANGED <<streamer, channels, binds, watchers, emitted>>

(* Mutant: the channel is kept in the set. *)
MutTakeUnsubscribed(r) ==
  LET m == Head(inbox[r])
  IN  /\ inbox[r] # << >> /\ m.kind = "unsubscribed"
      /\ inbox' = [inbox EXCEPT ![r] = Tail(@)]
      /\ handlers' = [handlers EXCEPT ![r][m.chat] = 0]
      /\ request' = Resumed(m.by, "close")
      /\ UNCHANGED <<streamer, subscribed, channels, binds, watchers, emitted>>

TakeUnsubscribed(r) ==
  LET m == Head(inbox[r])
  IN  /\ inbox[r] # << >> /\ m.kind = "unsubscribed"
      /\ inbox' = [inbox EXCEPT ![r] = Tail(@)]
      /\ handlers' = [handlers EXCEPT ![r][m.chat] = 0]
      /\ subscribed' = [subscribed EXCEPT ![r] = @ \ {m.chat}]
      /\ request' = Resumed(m.by, "close")
      /\ UNCHANGED <<streamer, channels, binds, watchers, emitted>>

(* handleEvent, once for each handler. *)
TakeEvent(r) ==
  LET m == Head(inbox[r])
  IN  /\ inbox[r] # << >> /\ m.kind = "event"
      /\ inbox' = [inbox EXCEPT ![r] = Tail(@)]
      /\ SafeWrite(r, m.chat, [of |-> m.by, n |-> m.n], handlers[r][m.chat])
      /\ UNCHANGED <<subscribed, channels, handlers, binds, watchers, request, emitted>>

(* Mutant: observers do not count. *)
MutSweep(r, k) ==
  /\ k \in subscribed[r]
  /\ ~ HasClient(r, k)
  /\ \A i \in DOMAIN inbox[r] : inbox[r][i] # Reply("unsubscribed", k, Nobody)
  /\ Unsubscribe(r, k, Nobody)
  /\ UNCHANGED <<streamer, binds, watchers, request, emitted>>

(* startPeriodicCleanup *)
Sweep(r, k) ==
  /\ k \in subscribed[r]
  /\ ~ HasClient(r, k) /\ observers[r][k] = {}
  /\ \A i \in DOMAIN inbox[r] : inbox[r][i] # Reply("unsubscribed", k, Nobody)
  /\ Unsubscribe(r, k, Nobody)
  /\ UNCHANGED <<streamer, binds, watchers, request, emitted>>

---------------------------------------------------------------------------
(***************************************************************************)
(* Webhook panels.                                                         *)
(***************************************************************************)
(* streamListener: the client is added, then the entry is written. *)
Open(l, r) ==
  /\ panel[l].pc = "off"
  /\ panel' = [panel EXCEPT ![l] = [pc |-> "opening", at |-> r]]
  /\ AddClient(r, l, l)
  /\ UNCHANGED <<observers, heard, subscriber, binds, registry, request, emitted>>

(* heartbeat writes the entry, the first time and again every 30 seconds.  *)
(* Only after the first time does the replica look out for the connection  *)
(* to close.                                                               *)
Heartbeat(l) ==
  /\ panel[l].pc \in {"opening", "on", "ghost"}
  /\ registry' = [registry EXCEPT ![l] = panel[l].at]
  /\ panel' = [panel EXCEPT ![l].pc = IF @ = "ghost" THEN "ghost" ELSE "on"]
  /\ UNCHANGED <<streamer, subscriber, binds, request, emitted>>

(* The connection closes while the first heartbeat is awaited, or has      *)
(* closed before: nobody hears of it, and the heartbeats go on.            *)
Vanish(l) ==
  /\ panel[l].pc = "opening"
  /\ panel' = [panel EXCEPT ![l].pc = "ghost"]
  /\ UNCHANGED <<streamer, subscriber, binds, registry, request, emitted>>

(* unregisterListener, whether or not the connection was heard to close.   *)
Unregister(l) ==
  /\ panel[l].pc \in {"on", "ghost"}
  /\ registry' = [registry EXCEPT ![l] = Nobody]
  /\ UNCHANGED <<streamer, subscriber, binds, panel, request, emitted>>

(* The connection closes; the entry is deleted thereafter. *)
Close(l) ==
  /\ panel[l].pc = "on"
  /\ panel' = [panel EXCEPT ![l].pc = "closing"]
  /\ RemoveClient(panel[l].at, l)
  /\ UNCHANGED <<subscriber, binds, registry, request, emitted>>

Leave(l) ==
  /\ panel[l].pc = "closing"
  /\ panel' = [panel EXCEPT ![l].pc = "gone"]
  /\ registry' = [registry EXCEPT ![l] = Nobody]
  /\ UNCHANGED <<streamer, subscriber, binds, request, emitted>>

---------------------------------------------------------------------------
(***************************************************************************)
(* Requests.                                                               *)
(***************************************************************************)
(* A streaming prediction opens its response and subscribes; a webhook     *)
(* looks for panels first.                                                 *)
Begin(q) ==
  /\ request[q].pc = "new"
  /\ \E plan \in Plans[q] :
       /\ request' = [request EXCEPT ![q] =
            [pc |-> IF plan.kind = "stream" THEN "subscribe" ELSE "list",
             kind |-> plan.kind, chat |-> plan.chat, at |-> plan.at, todo |-> {}]]
       /\ IF plan.kind = "stream" THEN AddClient(plan.at, plan.chat, q) ELSE UNCHANGED clients
  /\ UNCHANGED <<observers, heard, subscriber, binds, watchers, emitted>>

(* Mutant: the subscription is not awaited. *)
MutSubscribeStream(q) ==
  LET u == request[q]
  IN  /\ u.pc = "subscribe"
      /\ Subscribe(u.at, u.chat, q)
      /\ request' = [request EXCEPT ![q].pc = "bind"]
      /\ UNCHANGED <<streamer, binds, watchers, emitted>>

SubscribeStream(q) ==
  LET u == request[q]
  IN  /\ u.pc = "subscribe"
      /\ Subscribe(u.at, u.chat, q)
      /\ request' = [request EXCEPT ![q].pc = IF u.chat \in subscribed[u.at] THEN "bind" ELSE "await"]
      /\ UNCHANGED <<streamer, binds, watchers, emitted>>

(* Mutant: entries that were deleted are listed. *)
MutListPanels(q) ==
  /\ request[q].pc = "list"
  /\ request' = [request EXCEPT ![q].pc = "bind", ![q].todo = {<<l, registry[l]>> : l \in Listeners}]
  /\ UNCHANGED <<streamer, subscriber, binds, watchers, emitted>>

(* getActiveListeners *)
ListPanels(q) ==
  /\ request[q].pc = "list"
  /\ request' = [request EXCEPT ![q].pc = "bind",
                   ![q].todo = {<<l, registry[l]>> : l \in {m \in Listeners : registry[m] # Nobody}}]
  /\ UNCHANGED <<streamer, subscriber, binds, watchers, emitted>>

(* bindExecution: panels on this replica observe at once, the others are   *)
(* told by a message that is not answered.                                 *)
BindHere(q) ==
  LET u == request[q]
  IN  /\ u.pc = "bind"
      /\ \E e \in u.todo :
           /\ e[2] = u.at
           /\ observers' = [observers EXCEPT ![u.at][u.chat] = @ \cup {e[1]}]
           /\ request' = [request EXCEPT ![q].todo = @ \ {e},
                            ![q].pc = IF u.chat \in subscribed[u.at] THEN "bind" ELSE "await"]
      /\ Subscribe(u.at, u.chat, q)
      /\ UNCHANGED <<clients, heard, binds, watchers, emitted>>

BindElsewhere(q) ==
  LET u == request[q]
  IN  /\ u.pc = "bind"
      /\ \E e \in u.todo :
           /\ e[2] # u.at
           /\ binds' = binds \cup {[to |-> e[2], listener |-> e[1], chat |-> u.chat, by |-> q]}
           /\ request' = [request EXCEPT ![q].todo = @ \ {e}]
      /\ UNCHANGED <<streamer, subscriber, watchers, emitted>>

(* Mutant: not checked whether the panel is still there. *)
MutTakeBind(b) ==
  /\ b \in binds
  /\ binds' = binds \ {b}
  /\ observers' = [observers EXCEPT ![b.to][b.chat] = @ \cup {b.listener}]
  /\ Subscribe(b.to, b.chat, Nobody)
  /\ UNCHANGED <<clients, heard, watchers, request, emitted>>

(* A bind message arrives; the panel may be gone. *)
TakeBind(b) ==
  /\ b \in binds
  /\ binds' = binds \ {b}
  /\ IF HasClient(b.to, b.listener)
     THEN /\ observers' = [observers EXCEPT ![b.to][b.chat] = @ \cup {b.listener}]
          /\ Subscribe(b.to, b.chat, Nobody)
     ELSE UNCHANGED <<observers, subscriber>>
  /\ UNCHANGED <<clients, heard, watchers, request, emitted>>

(* The flow is handed to a worker. *)
Run(q) ==
  LET u == request[q]
  IN  /\ u.pc = "bind" /\ u.todo = {}
      /\ request' = [request EXCEPT ![q].pc = "run"]
      /\ IF u.kind = "webhookStream" THEN AddClient(u.at, u.chat, q) ELSE UNCHANGED clients
      /\ UNCHANGED <<observers, heard, subscriber, binds, watchers, emitted>>

(* The worker publishes an event. *)
Emit(q) ==
  LET k == request[q].chat
      m == [kind |-> "event", chat |-> k, by |-> q, n |-> emitted[q] + 1]
  IN  /\ request[q].pc = "run"
      /\ emitted[q] < MaxEvents[q]
      /\ emitted' = [emitted EXCEPT ![q] = @ + 1]
      /\ inbox' = [r \in Replicas |-> IF k \in channels[r] THEN Append(inbox[r], m) ELSE inbox[r]]
      /\ UNCHANGED <<streamer, subscribed, channels, handlers, binds, watchers, request>>

(* The result of the job, or its error, comes by another connection than   *)
(* the events.  A stream unsubscribes before it is removed.                *)
Finish(q) ==
  LET u == request[q]
  IN  /\ u.pc = "run"
      /\ IF u.kind = "stream"
         THEN /\ Unsubscribe(u.at, u.chat, q)
              /\ request' = [request EXCEPT ![q].pc =
                               IF u.chat \in subscribed[u.at] THEN "await" ELSE "close"]
              /\ UNCHANGED streamer
         ELSE /\ RemoveClient(u.at, u.chat)
              /\ request' = [request EXCEPT ![q].pc = "done"]
              /\ UNCHANGED subscriber
      /\ UNCHANGED <<binds, watchers, emitted>>

CloseStream(q) ==
  /\ request[q].pc = "close"
  /\ RemoveClient(request[q].at, request[q].chat)
  /\ request' = [request EXCEPT ![q].pc = "done"]
  /\ UNCHANGED <<subscriber, binds, watchers, emitted>>

---------------------------------------------------------------------------
RequestStep(q) ==
  \/ SubscribeStream(q) \/ ListPanels(q) \/ BindHere(q) \/ BindElsewhere(q)
  \/ Run(q) \/ Finish(q) \/ CloseStream(q)

Take(r) == TakeSubscribed(r) \/ TakeUnsubscribed(r) \/ TakeEvent(r)

TakeSomeBind == \E b \in binds : TakeBind(b)

Next ==
  \/ \E q \in Requests : Begin(q) \/ RequestStep(q) \/ Emit(q)
  \/ \E r \in Replicas : Take(r) \/ \E k \in Chats : Sweep(r, k)
  \/ \E l \in Listeners :
       \/ \E r \in Replicas : Open(l, r)
       \/ Heartbeat(l) \/ Vanish(l) \/ Unregister(l) \/ Close(l) \/ Leave(l)
  \/ TakeSomeBind

Spec == Init /\ [][Next]_vars

(* Awaits are answered, runs end, messages arrive, the clean-up is run     *)
(* every minute.  Nothing makes a panel close; one that closes leaves.     *)
Fairness ==
  /\ \A q \in Requests : WF_vars(RequestStep(q))
  /\ \A r \in Replicas : WF_vars(Take(r)) /\ \A k \in Chats : WF_vars(Sweep(r, k))
  /\ \A l \in Listeners : WF_vars(Leave(l))
  /\ WF_vars(TakeSomeBind)

---------------------------------------------------------------------------
(***************************************************************************)
(* Properties.                                                             *)
(***************************************************************************)
TypeOK ==
  /\ clients \in [Replicas -> [Chats \cup Listeners -> Requests \cup Listeners \cup {Nobody}]]
  /\ observers \in [Replicas -> [Chats -> SUBSET Listeners]]
  /\ subscribed \in [Replicas -> SUBSET Chats]
  /\ channels \in [Replicas -> SUBSET Chats]
  /\ handlers \in [Replicas -> [Chats -> Nat]]
  /\ registry \in [Listeners -> Replicas \cup {Nobody}]
  /\ \A q \in Requests : emitted[q] \in 0 .. MaxEvents[q]
  /\ \A b \in binds : b.to \in Replicas /\ b.listener \in Listeners /\ b.chat \in Chats

Running(q) == request[q].pc \in {"list", "subscribe", "bind", "await", "run", "close"}

(* Positions of two events of the run of q, the second the next x heard of *)
(* it, with no end of the chat in between.                                 *)
Successive(x, q) ==
  LET s == heard[x]
  IN  {p \in (1 .. Len(s)) \X (1 .. Len(s)) :
         /\ p[1] < p[2] /\ s[p[1]].of = q /\ s[p[2]].of = q
         /\ \A i \in p[1] + 1 .. p[2] - 1 : s[i].of \notin {q, request[q].chat}}

(* "Prevent duplicate subscription" (RedisEventSubscriber.ts): no event is *)
(* written twice to one panel.                                             *)
HeardOnce ==
  \A x \in Listeners \cup Requests, q \in Requests : \A p \in Successive(x, q) :
    heard[x][p[2]].n # heard[x][p[1]].n

(* The replica that holds the response of q listens to the channel the     *)
(* worker publishes to.                                                    *)
Listens(q) ==
  LET u == request[q]
  IN  u.chat \in channels[u.at] /\ handlers[u.at][u.chat] > 0

(* While the flow of a streaming prediction runs (controllers/predictions, *)
(* and its internal twin), its replica listens: whatever the clean-up and  *)
(* the other requests unsubscribe, no event of it is lost.                 *)
PredictionsAreHeard ==
  \A q \in Requests : request[q].kind = "stream" /\ request[q].pc = "run" => Listens(q)

(* A replica knows what it is subscribed to: when no reply is on its way,  *)
(* its set, the handlers of its Redis client and Redis agree.  What it     *)
(* does not know of would never be cleaned up.                             *)
KnowsItsChannels ==
  \A r \in Replicas :
    (\A i \in DOMAIN inbox[r] : inbox[r][i].kind = "event") =>
      /\ subscribed[r] = channels[r]
      /\ subscribed[r] = {k \in Chats : handlers[r][k] > 0}

(* A panel of replica r, that has not been heard to close. *)
Present(l, r) == panel[l].at = r /\ panel[l].pc \in {"opening", "on", "ghost"}

(* A panel whose connection was heard to close observes nothing any more,  *)
(* and one of another replica never did, except a chat that a request on   *)
(* the same replica is binding or running.                                 *)
ObserversArePresent ==
  \A r \in Replicas, k \in Chats :
    \/ \A l \in observers[r][k] : Present(l, r)
    \/ \E q \in Requests : Running(q) /\ request[q].at = r /\ request[q].chat = k

(* When all requests are done and all panels closed, a replica stays       *)
(* subscribed only to channels a panel observes that was not heard to      *)
(* close, on whatever replica the others were and in whatever order they   *)
(* went.                                                                   *)
Over ==
  /\ \A q \in Requests : request[q].pc \in {"new", "done"}
  /\ \A l \in Listeners : panel[l].pc \in {"off", "gone", "ghost"}

HeldByGhost(r, k) == \E l \in observers[r][k] : panel[l].pc = "ghost"

SubscriptionsDrain ==
  Over ~> \/ \A r \in Replicas : \A k \in subscribed[r] : HeldByGhost(r, k)
          \/ ~ Over
===========================================================================
