--------------------------- MODULE EventRelayProofs ---------------------------
(***************************************************************************)
(* Theorems about the relay of events for all replicas, panels, chats,     *)
(* requests and plans: what a reply may find, when a replica listens to a  *)
(* channel, and that events come in order and without a gap.               *)
(***************************************************************************)
EXTENDS EventRelayAudit, SequenceTheorems, TLAPS

(* The types of the variables that TypeOK leaves out, and what a request   *)
(* or a panel that has begun has. The replies on their way are for         *)
(* requests that have begun.                                               *)
Message ==
  [kind : {"subscribed", "unsubscribed", "event"}, chat : Chats,
   by : Requests \cup {Nobody}, n : Nat]

RequestType ==
  [pc : {"new", "list", "subscribe", "bind", "await", "run", "close", "done"},
   kind : {"stream", "webhook", "webhookStream"},
   chat : Chats \cup {Nobody}, at : Replicas \cup {Nobody},
   todo : SUBSET (Listeners \X Replicas)]

PanelType ==
  [pc : {"off", "opening", "on", "ghost", "closing", "gone"}, at : Replicas \cup {Nobody}]

Begun(rq, q) == rq[q].pc # "new"

RequestsOK(rq) ==
  /\ rq \in [Requests -> RequestType]
  /\ \A q \in Requests : Begun(rq, q) => rq[q].at \in Replicas /\ rq[q].chat \in Chats

PanelsOK(pn) ==
  /\ pn \in [Listeners -> PanelType]
  /\ \A l \in Listeners : pn[l].pc # "off" => pn[l].at \in Replicas

InboxOK(inb, rq) ==
  /\ inb \in [Replicas -> Seq(Message)]
  /\ \A r \in Replicas : \A i \in 1..Len(inb[r]) :
       inb[r][i].by \in Requests => Begun(rq, inb[r][i].by)

TypeInv ==
  /\ TypeOK
  /\ RequestsOK(request)
  /\ PanelsOK(panel)
  /\ InboxOK(inbox, request)

(* Parts of TypeOK, for the groups of variables an action changes.         *)
StreamerOK(cl, ob) ==
  /\ cl \in [Replicas -> [Chats \cup Listeners -> Requests \cup Listeners \cup {Nobody}]]
  /\ ob \in [Replicas -> [Chats -> SUBSET Listeners]]

SubscriberOK(su, ch, ha) ==
  /\ su \in [Replicas -> SUBSET Chats]
  /\ ch \in [Replicas -> SUBSET Chats]
  /\ ha \in [Replicas -> [Chats -> Nat]]

RestOK(re, em, bi) ==
  /\ re \in [Listeners -> Replicas \cup {Nobody}]
  /\ \A q \in Requests : em[q] \in 0 .. MaxEvents[q]
  /\ \A b \in bi : b.to \in Replicas /\ b.listener \in Listeners /\ b.chat \in Chats

LEMMA TypeParts ==
  TypeOK <=> /\ StreamerOK(clients, observers)
             /\ SubscriberOK(subscribed, channels, handlers)
             /\ RestOK(registry, emitted, binds)
BY DEF TypeOK, StreamerOK, SubscriberOK, RestOK

(* What is on its way stays good while requests go on: none is new again.  *)
LEMMA InboxCarried ==
  ASSUME NEW inb, NEW rq, NEW rq2, InboxOK(inb, rq),
         \A q \in Requests : Begun(rq, q) => Begun(rq2, q)
  PROVE  InboxOK(inb, rq2)
BY DEF InboxOK

(* A message for some of the replicas. *)
LEMMA InboxGrows ==
  ASSUME NEW inb, NEW rq, InboxOK(inb, rq), NEW m \in Message,
         m.by \in Requests => Begun(rq, m.by),
         NEW new, new = [r \in Replicas |-> new[r]],
         \A r \in Replicas : new[r] = inb[r] \/ new[r] = Append(inb[r], m)
  PROVE  InboxOK(new, rq)
<1>1. \A r \in Replicas : inb[r] \in Seq(Message) /\ Append(inb[r], m) \in Seq(Message)
  BY DEF InboxOK
<1>2. \A r \in Replicas : new[r] \in Seq(Message)  BY <1>1
<1>3. new \in [Replicas -> Seq(Message)]  BY <1>2
<1>4. ASSUME NEW r \in Replicas, NEW i \in 1..Len(new[r])
      PROVE  new[r][i].by \in Requests => Begun(rq, new[r][i].by)
  <2>1. CASE new[r] = inb[r]  BY <2>1, <1>4 DEF InboxOK
  <2>2. CASE new[r] = Append(inb[r], m)
    <3>1. i \in 1 .. Len(inb[r]) + 1  BY <1>1, <1>4, <2>2
    <3>2. CASE i = Len(inb[r]) + 1
      <4>1. new[r][i] = m  BY <1>1, <2>2, <3>2
      <4> QED  BY <4>1
    <3>3. CASE i # Len(inb[r]) + 1
      <4>1. i \in 1..Len(inb[r])  BY <1>1, <3>1, <3>3
      <4>2. new[r][i] = inb[r][i]  BY <1>1, <2>2, <4>1
      <4> QED  BY <4>1, <4>2 DEF InboxOK
    <3> QED  BY <3>2, <3>3
  <2> QED  BY <2>1, <2>2
<1> QED  BY <1>3, <1>4 DEF InboxOK

LEMMA InboxAppend ==
  ASSUME NEW inb, NEW rq, InboxOK(inb, rq), NEW r \in Replicas, NEW m \in Message,
         m.by \in Requests => Begun(rq, m.by)
  PROVE  InboxOK([inb EXCEPT ![r] = Append(@, m)], rq)
<1> DEFINE new == [inb EXCEPT ![r] = Append(@, m)]
<1>1. new = [s \in Replicas |-> new[s]]  BY DEF InboxOK
<1>2. \A s \in Replicas : new[s] = inb[s] \/ new[s] = Append(inb[s], m)  BY DEF InboxOK
<1> HIDE DEF new
<1> QED  BY <1>1, <1>2, InboxGrows DEF new

LEMMA InboxTail ==
  ASSUME NEW inb, NEW rq, InboxOK(inb, rq), NEW r \in Replicas, inb[r] # << >>
  PROVE  /\ Head(inb[r]) \in Message
         /\ Head(inb[r]).by \in Requests => Begun(rq, Head(inb[r]).by)
         /\ InboxOK([inb EXCEPT ![r] = Tail(@)], rq)
<1> DEFINE new == [inb EXCEPT ![r] = Tail(@)]
<1>1. inb[r] \in Seq(Message)  BY DEF InboxOK
<1>2. Len(inb[r]) \in Nat /\ Len(inb[r]) >= 1 /\ Head(inb[r]) = inb[r][1]  BY <1>1
<1>3. /\ Tail(inb[r]) \in Seq(Message) /\ Len(Tail(inb[r])) = Len(inb[r]) - 1
      /\ \A j \in 1 .. Len(inb[r]) - 1 : Tail(inb[r])[j] = inb[r][j + 1]
  BY <1>1, HeadTailProperties
<1>4. new \in [Replicas -> Seq(Message)]  BY <1>3 DEF InboxOK
<1>5. ASSUME NEW s \in Replicas, NEW i \in 1..Len(new[s])
      PROVE  new[s][i].by \in Requests => Begun(rq, new[s][i].by)
  <2>1. CASE s = r
    <3>1. new[s] = Tail(inb[r])  BY <2>1 DEF InboxOK
    <3>2. i \in 1 .. Len(inb[r]) - 1  BY <1>5, <1>3, <3>1
    <3>3. PICK j \in 1 .. Len(inb[r]) : j = i + 1  BY <3>2, <1>2
    <3>4. new[s][i] = inb[r][j]  BY <1>3, <3>1, <3>2, <3>3
    <3>5. inb[r][j].by \in Requests => Begun(rq, inb[r][j].by)  BY DEF InboxOK
    <3> HIDE DEF new
    <3> QED  BY <3>4, <3>5
  <2>2. CASE s # r
    <3>1. new[s] = inb[s]  BY <2>2 DEF InboxOK
    <3> HIDE DEF new
    <3> QED  BY <3>1, <1>5 DEF InboxOK
  <2> QED  BY <2>1, <2>2
<1>6. 1 \in 1..Len(inb[r])  BY <1>2
<1> QED  BY <1>1, <1>2, <1>4, <1>5, <1>6 DEF InboxOK

(* A request that goes on to another place of its program. *)
LEMMA GoesOn ==
  ASSUME TypeInv, NEW q \in Requests,
         \/ Begun(request, q)
         \/ request'[q].at \in Replicas /\ request'[q].chat \in Chats,
         Begun(request, q) => /\ request'[q].at = request[q].at
                              /\ request'[q].chat = request[q].chat,
         request' \in [Requests -> RequestType], Begun(request', q),
         \A p \in Requests : p # q => request'[p] = request[p]
  PROVE  /\ RequestsOK(request')
         /\ \A p \in Requests : Begun(request, p) => Begun(request', p)
BY DEF TypeInv, RequestsOK, Begun

(* The same for a step of a request, with what it leaves as it was. *)
LEMMA Advance ==
  ASSUME TypeInv, NEW q \in Requests, Begun(request, q),
         NEW pc \in {"bind", "await", "run", "close", "done"},
         NEW todo \in SUBSET (Listeners \X Replicas),
         \/ request' = [request EXCEPT ![q].pc = pc]
         \/ request' = [request EXCEPT ![q].todo = todo] /\ pc = request[q].pc
         \/ request' = [request EXCEPT ![q].pc = pc, ![q].todo = todo]
         \/ request' = [request EXCEPT ![q].todo = todo, ![q].pc = pc]
  PROVE  /\ RequestsOK(request')
         /\ \A p \in Requests : Begun(request, p) => Begun(request', p)
         /\ request'[q].pc = pc /\ request'[q].at = request[q].at
         /\ request'[q].chat = request[q].chat
         /\ \A p \in Requests : p # q => request'[p] = request[p]
<1>1. request \in [Requests -> RequestType]  BY DEF TypeInv, RequestsOK
<1>2. request[q] \in RequestType  BY <1>1
<1>3. PICK v \in RequestType :
        /\ request' = [request EXCEPT ![q] = v]
        /\ v.pc = pc /\ v.at = request[q].at /\ v.chat = request[q].chat
  <2> DEFINE u == request[q]
  <2>1. /\ [u EXCEPT !.pc = pc] \in RequestType /\ [u EXCEPT !.todo = todo] \in RequestType
        /\ [u EXCEPT !.pc = pc, !.todo = todo] \in RequestType
        /\ [u EXCEPT !.todo = todo, !.pc = pc] \in RequestType
    BY <1>2 DEF RequestType
  <2>2. CASE request' = [request EXCEPT ![q].pc = pc]
    <3>1. request' = [request EXCEPT ![q] = [u EXCEPT !.pc = pc]]  BY <2>2
    <3>2. /\ [u EXCEPT !.pc = pc].pc = pc /\ [u EXCEPT !.pc = pc].at = u.at
          /\ [u EXCEPT !.pc = pc].chat = u.chat
      BY <1>2 DEF RequestType
    <3> QED  BY <2>1, <3>1, <3>2
  <2>3. CASE request' = [request EXCEPT ![q].todo = todo] /\ pc = u.pc
    <3>1. request' = [request EXCEPT ![q] = [u EXCEPT !.todo = todo]]  BY <2>3
    <3>2. /\ [u EXCEPT !.todo = todo].pc = pc /\ [u EXCEPT !.todo = todo].at = u.at
          /\ [u EXCEPT !.todo = todo].chat = u.chat
      BY <1>2, <2>3 DEF RequestType
    <3> QED  BY <2>1, <3>1, <3>2
  <2>4. CASE request' = [request EXCEPT ![q].pc = pc, ![q].todo = todo]
    <3> DEFINE v == [u EXCEPT !.pc = pc, !.todo = todo]
    <3>1. request' = [request EXCEPT ![q] = v]  BY <2>4, <1>1
    <3>2. v.pc = pc /\ v.at = u.at /\ v.chat = u.chat  BY <1>2 DEF RequestType
    <3> QED  BY <2>1, <3>1, <3>2
  <2>5. CASE request' = [request EXCEPT ![q].todo = todo, ![q].pc = pc]
    <3> DEFINE v == [u EXCEPT !.todo = todo, !.pc = pc]
    <3>1. request' = [request EXCEPT ![q] = v]  BY <2>5, <1>1
    <3>2. v.pc = pc /\ v.at = u.at /\ v.chat = u.chat  BY <1>2 DEF RequestType
    <3> QED  BY <2>1, <3>1, <3>2
  <2> QED  BY <2>2, <2>3, <2>4, <2>5
<1>4. request' \in [Requests -> RequestType] /\ request'[q] = v  BY <1>1, <1>3
<1>5. \A p \in Requests : p # q => request'[p] = request[p]  BY <1>1, <1>3
<1> QED  BY <1>3, <1>4, <1>5, GoesOn DEF Begun

LEMMA AdvancePc ==
  ASSUME TypeInv, NEW q \in Requests, Begun(request, q),
         NEW pc \in {"bind", "await", "run", "close", "done"},
         request' = [request EXCEPT ![q].pc = pc]
  PROVE  /\ RequestsOK(request')
         /\ \A p \in Requests : Begun(request, p) => Begun(request', p)
         /\ request'[q].pc = pc /\ request'[q].at = request[q].at
         /\ request'[q].chat = request[q].chat
         /\ \A p \in Requests : p # q => request'[p] = request[p]
<1>1. {} \in SUBSET (Listeners \X Replicas)  OBVIOUS
<1> QED  BY <1>1, Advance

LEMMA ObserverTypes ==
  ASSUME NEW cl, NEW ob, StreamerOK(cl, ob),
         NEW r \in Replicas, NEW k \in Chats, NEW l \in Listeners
  PROVE  StreamerOK(cl, [ob EXCEPT ![r][k] = @ \cup {l}])
BY DEF StreamerOK

LEMMA AddTypes ==
  ASSUME TypeInv, NEW r \in Replicas, NEW id \in Chats \cup Listeners,
         NEW who \in Requests \cup Listeners, AddClient(r, id, who), UNCHANGED observers
  PROVE  StreamerOK(clients', observers')
BY DEF TypeInv, TypeOK, StreamerOK, AddClient

LEMMA RemoveTypes ==
  ASSUME TypeInv, NEW r \in Replicas, NEW id \in Chats \cup Listeners, RemoveClient(r, id)
  PROVE  StreamerOK(clients', observers')
<1>1. clients' \in [Replicas -> [Chats \cup Listeners -> Requests \cup Listeners \cup {Nobody}]]
  BY DEF TypeInv, TypeOK, RemoveClient
<1>2. observers' \in [Replicas -> [Chats -> SUBSET Listeners]]
  BY DEF TypeInv, TypeOK, RemoveClient
<1> QED  BY <1>1, <1>2 DEF StreamerOK

LEMMA CommandTypes ==
  ASSUME TypeInv, NEW r \in Replicas, NEW k \in Chats, NEW by \in Requests \cup {Nobody},
         by \in Requests => Begun(request, by),
         Subscribe(r, k, by) \/ Unsubscribe(r, k, by)
  PROVE  /\ SubscriberOK(subscribed', channels', handlers')
         /\ InboxOK(inbox', request)
<1>1. CASE UNCHANGED subscriber
  BY <1>1, TypeParts DEF TypeInv, subscriber
<1>2. ASSUME NEW kind \in {"subscribed", "unsubscribed"}
      PROVE  InboxOK([inbox EXCEPT ![r] = Append(@, Reply(kind, k, by))], request)
  <2>1. Reply(kind, k, by) \in Message /\ Reply(kind, k, by).by = by  BY DEF Reply, Message
  <2> QED  BY <2>1, InboxAppend DEF TypeInv
<1>3. CASE Subscribe(r, k, by) /\ k \notin subscribed[r]
  <2>1. /\ channels' = [channels EXCEPT ![r] = @ \cup {k}]
        /\ inbox' = [inbox EXCEPT ![r] = Append(@, Reply("subscribed", k, by))]
        /\ UNCHANGED <<subscribed, handlers>>
    BY <1>3 DEF Subscribe
  <2>2. InboxOK(inbox', request)  BY <2>1, <1>2
  <2> QED  BY <2>1, <2>2 DEF TypeInv, TypeOK, SubscriberOK
<1>4. CASE Unsubscribe(r, k, by) /\ k \in subscribed[r]
  <2>1. /\ channels' = [channels EXCEPT ![r] = @ \ {k}]
        /\ inbox' = [inbox EXCEPT ![r] = Append(@, Reply("unsubscribed", k, by))]
        /\ UNCHANGED <<subscribed, handlers>>
    BY <1>4 DEF Unsubscribe
  <2>2. InboxOK(inbox', request)  BY <2>1, <1>2
  <2> QED  BY <2>1, <2>2 DEF TypeInv, TypeOK, SubscriberOK
<1> QED  BY <1>1, <1>3, <1>4 DEF Subscribe, Unsubscribe

(* Who awaited a reply goes on. *)
LEMMA ResumedTypes ==
  ASSUME TypeInv, NEW by \in Requests \cup {Nobody}, by \in Requests => Begun(request, by),
         NEW pc \in {"bind", "close"}, request' = Resumed(by, pc)
  PROVE  /\ RequestsOK(request')
         /\ \A p \in Requests : Begun(request, p) => Begun(request', p)
<1>1. CASE by \notin Requests
  <2>1. request' = request  BY <1>1 DEF Resumed
  <2> QED  BY <2>1 DEF TypeInv
<1>2. CASE by \in Requests
  <2>1. request' = [request EXCEPT ![by].pc = pc]  BY <1>2 DEF Resumed
  <2>2. request \in [Requests -> RequestType]  BY DEF TypeInv, RequestsOK
  <2>3. request[by] \in RequestType /\ [request[by] EXCEPT !.pc = pc] \in RequestType
    BY <1>2, <2>2 DEF RequestType
  <2>4. request' \in [Requests -> RequestType]  BY <2>1, <2>2, <2>3
  <2>5. /\ request'[by].at = request[by].at /\ request'[by].chat = request[by].chat
        /\ request'[by].pc = pc
    BY <1>2, <2>1, <2>2, <2>3 DEF RequestType
  <2>6. \A p \in Requests : p # by => request'[p] = request[p]  BY <2>1, <2>2
  <2> QED  BY <1>2, <2>4, <2>5, <2>6, GoesOn DEF Begun
<1> QED  BY <1>1, <1>2

---------------------------------------------------------------------------
(***************************************************************************)
(* Type correctness.                                                       *)
(***************************************************************************)
LEMMA TypeInit == Init => TypeInv
<1> SUFFICES ASSUME Init PROVE TypeInv
  OBVIOUS
<1>1. StreamerOK(clients, observers)  BY DEF Init, StreamerOK
<1>2. SubscriberOK(subscribed, channels, handlers)  BY DEF Init, SubscriberOK
<1>3. RestOK(registry, emitted, binds)  BY RelayAssumption DEF Init, RestOK
<1>4. RequestsOK(request)  BY DEF Init, RequestsOK, RequestType, Begun
<1>5. PanelsOK(panel)  BY DEF Init, PanelsOK, PanelType
<1>6. InboxOK(inbox, request)
  <2>1. << >> \in Seq(Message) /\ Len(<< >>) = 0  OBVIOUS
  <2> QED  BY <2>1 DEF Init, InboxOK
<1> QED  BY <1>1, <1>2, <1>3, <1>4, <1>5, <1>6, TypeParts DEF TypeInv

(* The parts again, primed; an action that keeps the variables of a part   *)
(* keeps the part.                                                         *)
LEMMA TypeFromParts ==
  ASSUME TypeInv,
         \/ UNCHANGED <<clients, observers>>
         \/ StreamerOK(clients', observers'),
         \/ UNCHANGED <<subscribed, channels, handlers>>
         \/ SubscriberOK(subscribed', channels', handlers'),
         \/ UNCHANGED <<registry, emitted, binds>>
         \/ RestOK(registry', emitted', binds'),
         \/ UNCHANGED request
         \/ /\ RequestsOK(request')
            /\ \A p \in Requests : Begun(request, p) => Begun(request', p),
         \/ UNCHANGED panel
         \/ PanelsOK(panel'),
         \/ UNCHANGED inbox
         \/ InboxOK(inbox', request)
         \/ InboxOK(inbox', request')
  PROVE  TypeInv'
<1>1. /\ StreamerOK(clients, observers) /\ SubscriberOK(subscribed, channels, handlers)
      /\ RestOK(registry, emitted, binds)
  BY TypeParts DEF TypeInv
<1>2. /\ StreamerOK(clients', observers') /\ SubscriberOK(subscribed', channels', handlers')
      /\ RestOK(registry', emitted', binds')
  BY <1>1
<1>3. TypeOK'  BY <1>2 DEF TypeOK, StreamerOK, SubscriberOK, RestOK
<1>4. RequestsOK(request') /\ PanelsOK(panel')  BY DEF TypeInv
<1>5. \A p \in Requests : Begun(request, p) => Begun(request', p)  OBVIOUS
<1>6. InboxOK(inbox', request')
  <2>1. CASE InboxOK(inbox', request)  BY <2>1, <1>5, InboxCarried
  <2>2. CASE UNCHANGED inbox  BY <2>2, <1>5, InboxCarried DEF TypeInv
  <2> QED  BY <2>1, <2>2
<1> QED  BY <1>3, <1>4, <1>6 DEF TypeInv

(* Redis replies and messages. *)
LEMMA TypeTake == ASSUME TypeInv, NEW r \in Replicas, Take(r) PROVE TypeInv'
<1> DEFINE m == Head(inbox[r])
<1>1. inbox[r] # << >> /\ inbox' = [inbox EXCEPT ![r] = Tail(@)]
  BY DEF Take, TakeSubscribed, TakeUnsubscribed, TakeEvent
<1>2. /\ m \in Message /\ (m.by \in Requests => Begun(request, m.by))
      /\ InboxOK(inbox', request)
  BY <1>1, InboxTail DEF TypeInv
<1>3. m.chat \in Chats /\ m.by \in Requests \cup {Nobody}  BY <1>2 DEF Message
<1> HIDE DEF m
<1>4. CASE TakeSubscribed(r)
  <2>1. /\ handlers' = [handlers EXCEPT ![r][m.chat] = @ + 1]
        /\ subscribed' = [subscribed EXCEPT ![r] = @ \cup {m.chat}]
        /\ request' = Resumed(m.by, "bind")
        /\ UNCHANGED <<clients, observers, channels, binds, registry, panel, emitted>>
    BY <1>4 DEF TakeSubscribed, streamer, watchers, m
  <2>2. SubscriberOK(subscribed', channels', handlers')
    BY <1>3, <2>1 DEF TypeInv, TypeOK, SubscriberOK
  <2>3. /\ RequestsOK(request')
        /\ \A p \in Requests : Begun(request, p) => Begun(request', p)
    BY <1>2, <1>3, <2>1, ResumedTypes
  <2> QED  BY <1>2, <2>1, <2>2, <2>3, TypeFromParts
<1>5. CASE TakeUnsubscribed(r)
  <2>1. /\ handlers' = [handlers EXCEPT ![r][m.chat] = 0]
        /\ subscribed' = [subscribed EXCEPT ![r] = @ \ {m.chat}]
        /\ request' = Resumed(m.by, "close")
        /\ UNCHANGED <<clients, observers, channels, binds, registry, panel, emitted>>
    BY <1>5 DEF TakeUnsubscribed, streamer, watchers, m
  <2>2. SubscriberOK(subscribed', channels', handlers')
    BY <1>3, <2>1 DEF TypeInv, TypeOK, SubscriberOK
  <2>3. /\ RequestsOK(request')
        /\ \A p \in Requests : Begun(request, p) => Begun(request', p)
    BY <1>2, <1>3, <2>1, ResumedTypes
  <2> QED  BY <1>2, <2>1, <2>2, <2>3, TypeFromParts
<1>6. CASE TakeEvent(r)
  <2>1. /\ clients' = clients
        /\ \/ observers' = observers
           \/ observers' = [observers EXCEPT ![r][m.chat] = {l \in @ : HasClient(r, l)}]
        /\ UNCHANGED <<subscribed, channels, handlers, binds, registry, panel, request, emitted>>
    BY <1>6 DEF TakeEvent, SafeWrite, watchers, m
  <2>2. PICK kept \in SUBSET Listeners :
          observers' = observers \/ observers' = [observers EXCEPT ![r][m.chat] = kept]
    <3> DEFINE kept == {l \in observers[r][m.chat] : HasClient(r, l)}
    <3>1. kept \in SUBSET Listeners  BY <1>3 DEF TypeInv, TypeOK
    <3>2. observers' = observers \/ observers' = [observers EXCEPT ![r][m.chat] = kept]  BY <2>1
    <3> HIDE DEF kept
    <3> QED  BY <3>1, <3>2
  <2>3. observers' \in [Replicas -> [Chats -> SUBSET Listeners]]
    <3>1. observers \in [Replicas -> [Chats -> SUBSET Listeners]]  BY DEF TypeInv, TypeOK
    <3>2. observers[r] \in [Chats -> SUBSET Listeners]  BY <3>1
    <3>3. [observers[r] EXCEPT ![m.chat] = kept] \in [Chats -> SUBSET Listeners]
      BY <1>3, <3>2
    <3>4. CASE observers' = [observers EXCEPT ![r][m.chat] = kept]
      <4>1. observers' = [observers EXCEPT ![r] = [observers[r] EXCEPT ![m.chat] = kept]]
        BY <3>4
      <4> QED  BY <3>1, <3>3, <4>1
    <3> QED  BY <2>2, <3>1, <3>4
  <2>4. StreamerOK(clients', observers')  BY <2>1, <2>3 DEF TypeInv, TypeOK, StreamerOK
  <2> QED  BY <1>2, <2>1, <2>4, TypeFromParts
<1> QED  BY <1>4, <1>5, <1>6 DEF Take

LEMMA TypeSweep ==
  ASSUME TypeInv, NEW r \in Replicas, NEW k \in Chats, Sweep(r, k) PROVE TypeInv'
<1>1. /\ Unsubscribe(r, k, Nobody)
      /\ UNCHANGED <<clients, observers, binds, registry, panel, request, emitted>>
  BY DEF Sweep, streamer, watchers
<1>2. Nobody \notin Requests  BY RelayAssumption
<1>3. /\ SubscriberOK(subscribed', channels', handlers') /\ InboxOK(inbox', request)
  BY <1>1, <1>2, CommandTypes
<1> QED  BY <1>1, <1>3, TypeFromParts

(* Panels. *)
LEMMA TypePanel ==
  ASSUME TypeInv, NEW l \in Listeners,
         \/ \E r \in Replicas : Open(l, r)
         \/ Heartbeat(l) \/ Vanish(l) \/ Unregister(l) \/ Close(l) \/ Leave(l)
  PROVE  TypeInv'
<1>0. /\ panel \in [Listeners -> PanelType] /\ panel[l] \in PanelType
      /\ panel[l].pc # "off" => panel[l].at \in Replicas
  BY DEF TypeInv, PanelsOK
<1>1. ASSUME NEW v \in PanelType, v.pc # "off" => v.at \in Replicas,
             panel' = [panel EXCEPT ![l] = v]
      PROVE  PanelsOK(panel')
  BY <1>0, <1>1 DEF TypeInv, PanelsOK
<1>2. ASSUME NEW pc \in {"on", "ghost", "closing", "gone"}, panel[l].pc # "off",
             panel' = [panel EXCEPT ![l].pc = pc]
      PROVE  PanelsOK(panel')
  <2> DEFINE v == [panel[l] EXCEPT !.pc = pc]
  <2>1. v \in PanelType /\ v.at = panel[l].at  BY <1>0 DEF PanelType
  <2>2. panel' = [panel EXCEPT ![l] = v]  BY <1>2
  <2> HIDE DEF v
  <2> QED  BY <2>1, <2>2, <1>0, <1>1, <1>2
<1>3. \A who \in Replicas \cup {Nobody} : registry' = [registry EXCEPT ![l] = who]
        => registry' \in [Listeners -> Replicas \cup {Nobody}]
  BY DEF TypeInv, TypeOK
<1>4. ASSUME registry' \in [Listeners -> Replicas \cup {Nobody}], UNCHANGED <<emitted, binds>>
      PROVE  RestOK(registry', emitted', binds')
  BY <1>4 DEF TypeInv, TypeOK, RestOK
<1>5. ASSUME NEW r \in Replicas, Open(l, r) PROVE TypeInv'
  <2>1. /\ panel' = [panel EXCEPT ![l] = [pc |-> "opening", at |-> r]]
        /\ AddClient(r, l, l)
        /\ UNCHANGED <<observers, subscribed, channels, handlers, inbox, binds, registry, request, emitted>>
    BY <1>5 DEF Open, subscriber
  <2>2. [pc |-> "opening", at |-> r] \in PanelType  BY DEF PanelType
  <2>3. PanelsOK(panel')  BY <2>1, <2>2, <1>1
  <2>4. StreamerOK(clients', observers')  BY <2>1, AddTypes
  <2> QED  BY <2>1, <2>3, <2>4, TypeFromParts
<1>6. CASE Heartbeat(l)
  <2> DEFINE pc == IF panel[l].pc = "ghost" THEN "ghost" ELSE "on"
  <2>1. /\ panel[l].pc \in {"opening", "on", "ghost"}
        /\ registry' = [registry EXCEPT ![l] = panel[l].at]
        /\ panel' = [panel EXCEPT ![l].pc = pc]
        /\ UNCHANGED <<clients, observers, subscribed, channels, handlers, inbox, binds, request, emitted>>
    BY <1>6 DEF Heartbeat, streamer, subscriber
  <2>2. PanelsOK(panel')
    <3>1. pc \in {"on", "ghost", "closing", "gone"}  OBVIOUS
    <3> HIDE DEF pc
    <3> QED  BY <2>1, <3>1, <1>2
  <2>3. RestOK(registry', emitted', binds')  BY <2>1, <1>0, <1>3, <1>4
  <2> QED  BY <2>1, <2>2, <2>3, TypeFromParts
<1>7. CASE Unregister(l)
  <2>1. /\ registry' = [registry EXCEPT ![l] = Nobody]
        /\ UNCHANGED <<clients, observers, subscribed, channels, handlers, inbox, binds, panel, request, emitted>>
    BY <1>7 DEF Unregister, streamer, subscriber
  <2>2. RestOK(registry', emitted', binds')  BY <2>1, <1>3, <1>4
  <2> QED  BY <2>1, <2>2, TypeFromParts
<1>8. CASE Close(l)
  <2>1. /\ panel[l].pc = "on"
        /\ panel' = [panel EXCEPT ![l].pc = "closing"]
        /\ RemoveClient(panel[l].at, l)
        /\ UNCHANGED <<subscribed, channels, handlers, inbox, binds, registry, request, emitted>>
    BY <1>8 DEF Close, subscriber
  <2>2. PanelsOK(panel')  BY <2>1, <1>2
  <2>3. StreamerOK(clients', observers')  BY <2>1, <1>0, RemoveTypes
  <2> QED  BY <2>1, <2>2, <2>3, TypeFromParts
<1>9. CASE Leave(l)
  <2>1. /\ panel[l].pc = "closing"
        /\ panel' = [panel EXCEPT ![l].pc = "gone"]
        /\ registry' = [registry EXCEPT ![l] = Nobody]
        /\ UNCHANGED <<clients, observers, subscribed, channels, handlers, inbox, binds, request, emitted>>
    BY <1>9 DEF Leave, streamer, subscriber
  <2>2. PanelsOK(panel')  BY <2>1, <1>2
  <2>3. RestOK(registry', emitted', binds')  BY <2>1, <1>3, <1>4
  <2> QED  BY <2>1, <2>2, <2>3, TypeFromParts
<1>10. CASE Vanish(l)
  <2>1. /\ panel[l].pc = "opening"
        /\ panel' = [panel EXCEPT ![l].pc = "ghost"]
        /\ UNCHANGED <<clients, observers, subscribed, channels, handlers, inbox, binds, registry, request, emitted>>
    BY <1>10 DEF Vanish, streamer, subscriber
  <2>2. PanelsOK(panel')  BY <2>1, <1>2
  <2> QED  BY <2>1, <2>2, TypeFromParts
<1> QED  BY <1>5, <1>6, <1>7, <1>8, <1>9, <1>10

(* Requests. *)
LEMMA TypeBegin == ASSUME TypeInv, NEW q \in Requests, Begin(q) PROVE TypeInv'
<1>1. PICK plan \in Plans[q] :
        /\ request' = [request EXCEPT ![q] =
             [pc |-> IF plan.kind = "stream" THEN "subscribe" ELSE "list",
              kind |-> plan.kind, chat |-> plan.chat, at |-> plan.at, todo |-> {}]]
        /\ IF plan.kind = "stream" THEN AddClient(plan.at, plan.chat, q) ELSE UNCHANGED clients
  BY DEF Begin
<1>2. /\ request[q].pc = "new"
      /\ UNCHANGED <<observers, subscribed, channels, handlers, inbox, binds, registry, panel, emitted>>
  BY DEF Begin, subscriber, watchers
<1>3. /\ plan.kind \in {"stream", "webhook", "webhookStream"}
      /\ plan.chat \in Chats /\ plan.at \in Replicas
  BY RelayAssumption
<1>4. /\ RequestsOK(request')
      /\ \A p \in Requests : Begun(request, p) => Begun(request', p)
  <2> DEFINE v == [pc |-> IF plan.kind = "stream" THEN "subscribe" ELSE "list",
                   kind |-> plan.kind, chat |-> plan.chat, at |-> plan.at, todo |-> {}]
  <2>1. v \in RequestType /\ v.pc # "new" /\ v.at \in Replicas /\ v.chat \in Chats
    BY <1>3 DEF RequestType
  <2>2. request \in [Requests -> RequestType]  BY DEF TypeInv, RequestsOK
  <2>3. request' = [request EXCEPT ![q] = v]  BY <1>1
  <2> HIDE DEF v
  <2>4. /\ request' \in [Requests -> RequestType] /\ request'[q] = v
        /\ \A p \in Requests : p # q => request'[p] = request[p]
    BY <2>1, <2>2, <2>3
  <2> QED  BY <1>2, <2>1, <2>4, GoesOn DEF Begun
<1>5. UNCHANGED <<clients, observers>> \/ StreamerOK(clients', observers')
  BY <1>1, <1>2, <1>3, AddTypes
<1> QED  BY <1>2, <1>4, <1>5, TypeFromParts

LEMMA TypeStep == ASSUME TypeInv, NEW q \in Requests, RequestStep(q) PROVE TypeInv'
<1> DEFINE u == request[q]
<1>1. u.pc # "new"
  BY DEF RequestStep, SubscribeStream, ListPanels, BindHere, BindElsewhere, Run, Finish, CloseStream
<1>2. /\ Begun(request, q) /\ u.at \in Replicas /\ u.chat \in Chats
      /\ u \in RequestType /\ u.todo \in SUBSET (Listeners \X Replicas)
  BY <1>1 DEF Begun, TypeInv, RequestsOK, RequestType
<1>3. \A e \in u.todo : /\ e[1] \in Listeners /\ e[2] \in Replicas
                         /\ u.todo \ {e} \in SUBSET (Listeners \X Replicas)
  BY <1>2
<1>4. ASSUME Subscribe(u.at, u.chat, q) \/ Unsubscribe(u.at, u.chat, q)
      PROVE  SubscriberOK(subscribed', channels', handlers') /\ InboxOK(inbox', request)
  BY <1>2, <1>4, CommandTypes
<1>5. ASSUME SubscribeStream(q) PROVE TypeInv'
  <2>1. /\ Subscribe(u.at, u.chat, q)
        /\ request' = [request EXCEPT ![q].pc = IF u.chat \in subscribed[u.at] THEN "bind" ELSE "await"]
        /\ UNCHANGED <<clients, observers, binds, registry, panel, emitted>>
    BY <1>5 DEF SubscribeStream, streamer, watchers
  <2>2. /\ RequestsOK(request')
        /\ \A p \in Requests : Begun(request, p) => Begun(request', p)
    <3> DEFINE pc == IF u.chat \in subscribed[u.at] THEN "bind" ELSE "await"
    <3>1. pc \in {"bind", "await", "run", "close", "done"} /\ request' = [request EXCEPT ![q].pc = pc]
      BY <2>1
    <3> HIDE DEF pc
    <3> QED  BY <1>2, <3>1, AdvancePc
  <2> QED  BY <2>1, <2>2, <1>4, TypeFromParts
<1>6. ASSUME ListPanels(q) PROVE TypeInv'
  <2> DEFINE todo == {<<l, registry[l]>> : l \in {m \in Listeners : registry[m] # Nobody}}
  <2>1. /\ request' = [request EXCEPT ![q].pc = "bind", ![q].todo = todo]
        /\ UNCHANGED <<clients, observers, subscribed, channels, handlers, inbox,
                       binds, registry, panel, emitted>>
    BY <1>6 DEF ListPanels, streamer, subscriber, watchers
  <2>2. todo \in SUBSET (Listeners \X Replicas)  BY DEF TypeInv, TypeOK
  <2> HIDE DEF todo
  <2>3. /\ RequestsOK(request')
        /\ \A p \in Requests : Begun(request, p) => Begun(request', p)
    BY <1>2, <2>1, <2>2, Advance
  <2> QED  BY <2>1, <2>3, TypeFromParts
<1>7. ASSUME BindHere(q) PROVE TypeInv'
  <2>1. PICK e \in u.todo :
          /\ observers' = [observers EXCEPT ![u.at][u.chat] = @ \cup {e[1]}]
          /\ request' = [request EXCEPT ![q].todo = @ \ {e},
               ![q].pc = IF u.chat \in subscribed[u.at] THEN "bind" ELSE "await"]
    BY <1>7 DEF BindHere
  <2>2. /\ Subscribe(u.at, u.chat, q)
        /\ UNCHANGED <<clients, binds, registry, panel, emitted>>
    BY <1>7 DEF BindHere, watchers
  <2>3. /\ RequestsOK(request')
        /\ \A p \in Requests : Begun(request, p) => Begun(request', p)
    <3> DEFINE pc == IF u.chat \in subscribed[u.at] THEN "bind" ELSE "await"
               todo == u.todo \ {e}
    <3>1. pc \in {"bind", "await", "run", "close", "done"}  OBVIOUS
    <3>2. request' = [request EXCEPT ![q].todo = todo, ![q].pc = pc]  BY <2>1
    <3>3. todo \in SUBSET (Listeners \X Replicas)  BY <1>3, <2>1
    <3> HIDE DEF pc, todo
    <3> QED  BY <1>2, <3>1, <3>2, <3>3, Advance
  <2>4. StreamerOK(clients', observers')
    BY <1>2, <1>3, <2>1, <2>2, TypeParts, ObserverTypes DEF TypeInv
  <2> QED  BY <2>2, <2>3, <2>4, <1>4, TypeFromParts
<1>8. ASSUME BindElsewhere(q) PROVE TypeInv'
  <2>1. PICK e \in u.todo :
          /\ binds' = binds \cup {[to |-> e[2], listener |-> e[1], chat |-> u.chat, by |-> q]}
          /\ request' = [request EXCEPT ![q].todo = @ \ {e}]
    BY <1>8 DEF BindElsewhere
  <2>2. /\ u.pc = "bind"
        /\ UNCHANGED <<clients, observers, subscribed, channels, handlers, inbox, registry, panel, emitted>>
    BY <1>8 DEF BindElsewhere, streamer, subscriber, watchers
  <2>3. /\ RequestsOK(request')
        /\ \A p \in Requests : Begun(request, p) => Begun(request', p)
    <3> DEFINE todo == u.todo \ {e}
    <3>1. request' = [request EXCEPT ![q].todo = todo]  BY <2>1
    <3>2. todo \in SUBSET (Listeners \X Replicas)  BY <1>3, <2>1
    <3>3. u.pc \in {"bind", "await", "run", "close", "done"}  BY <2>2
    <3> HIDE DEF todo
    <3> QED  BY <1>2, <3>1, <3>2, <3>3, Advance
  <2>4. RestOK(registry', emitted', binds')
    BY <1>2, <1>3, <2>1, <2>2 DEF TypeInv, TypeOK, RestOK
  <2> QED  BY <2>2, <2>3, <2>4, TypeFromParts
<1>9. ASSUME Run(q) PROVE TypeInv'
  <2>1. /\ request' = [request EXCEPT ![q].pc = "run"]
        /\ AddClient(u.at, u.chat, q) \/ UNCHANGED clients
        /\ UNCHANGED <<observers, subscribed, channels, handlers, inbox, binds, registry, panel, emitted>>
    BY <1>9 DEF Run, subscriber, watchers
  <2>2. /\ RequestsOK(request')
        /\ \A p \in Requests : Begun(request, p) => Begun(request', p)
    BY <1>2, <2>1, AdvancePc
  <2>3. UNCHANGED <<clients, observers>> \/ StreamerOK(clients', observers')
    BY <1>2, <2>1, AddTypes
  <2> QED  BY <2>1, <2>2, <2>3, TypeFromParts
<1>10. ASSUME Finish(q) PROVE TypeInv'
  <2>1. UNCHANGED <<binds, registry, panel, emitted>>  BY <1>10 DEF Finish, watchers
  <2>2. CASE u.kind = "stream"
    <3> DEFINE pc == IF u.chat \in subscribed[u.at] THEN "await" ELSE "close"
    <3>1. /\ Unsubscribe(u.at, u.chat, q) /\ UNCHANGED <<clients, observers>>
          /\ request' = [request EXCEPT ![q].pc = pc]
      BY <1>10, <2>2 DEF Finish, streamer
    <3>2. pc \in {"bind", "await", "run", "close", "done"}  OBVIOUS
    <3> HIDE DEF pc
    <3>3. /\ RequestsOK(request')
          /\ \A p \in Requests : Begun(request, p) => Begun(request', p)
      BY <1>2, <3>1, <3>2, AdvancePc
    <3> QED  BY <2>1, <3>1, <3>3, <1>4, TypeFromParts
  <2>3. CASE u.kind # "stream"
    <3>1. /\ RemoveClient(u.at, u.chat) /\ UNCHANGED <<subscribed, channels, handlers, inbox>>
          /\ request' = [request EXCEPT ![q].pc = "done"]
      BY <1>10, <2>3 DEF Finish, subscriber
    <3>2. /\ RequestsOK(request')
          /\ \A p \in Requests : Begun(request, p) => Begun(request', p)
      BY <1>2, <3>1, AdvancePc
    <3>3. StreamerOK(clients', observers')  BY <1>2, <3>1, RemoveTypes
    <3> QED  BY <2>1, <3>1, <3>2, <3>3, TypeFromParts
  <2> QED  BY <2>2, <2>3
<1>11. ASSUME CloseStream(q) PROVE TypeInv'
  <2>1. /\ RemoveClient(u.at, u.chat)
        /\ request' = [request EXCEPT ![q].pc = "done"]
        /\ UNCHANGED <<subscribed, channels, handlers, inbox, binds, registry, panel, emitted>>
    BY <1>11 DEF CloseStream, subscriber, watchers
  <2>2. /\ RequestsOK(request')
        /\ \A p \in Requests : Begun(request, p) => Begun(request', p)
    BY <1>2, <2>1, AdvancePc
  <2>3. StreamerOK(clients', observers')  BY <1>2, <2>1, RemoveTypes
  <2> QED  BY <2>1, <2>2, <2>3, TypeFromParts
<1> QED  BY <1>5, <1>6, <1>7, <1>8, <1>9, <1>10, <1>11 DEF RequestStep

(* The worker. *)
LEMMA TypeEmit == ASSUME TypeInv, NEW q \in Requests, Emit(q) PROVE TypeInv'
<1> DEFINE k == request[q].chat
           m == [kind |-> "event", chat |-> k, by |-> q, n |-> emitted[q] + 1]
<1>1. /\ request[q].pc = "run" /\ emitted[q] < MaxEvents[q]
      /\ emitted' = [emitted EXCEPT ![q] = @ + 1]
      /\ inbox' = [r \in Replicas |-> IF k \in channels[r] THEN Append(inbox[r], m) ELSE inbox[r]]
      /\ UNCHANGED <<clients, observers, subscribed, channels, handlers, binds, registry, panel, request>>
  BY DEF Emit, streamer, watchers
<1>2. emitted[q] \in Nat /\ MaxEvents[q] \in Nat  BY RelayAssumption DEF TypeInv, TypeOK
<1>3. Begun(request, q) /\ k \in Chats  BY <1>1 DEF Begun, TypeInv, RequestsOK
<1>4. m \in Message /\ m.by = q  BY <1>2, <1>3 DEF Message
<1> HIDE DEF m
<1>5. InboxOK(inbox', request)
  <2>1. /\ inbox' = [r \in Replicas |-> inbox'[r]]
        /\ \A r \in Replicas : inbox'[r] = inbox[r] \/ inbox'[r] = Append(inbox[r], m)
    BY <1>1
  <2> QED  BY <1>3, <1>4, <2>1, InboxGrows DEF TypeInv
<1>6. \A p \in Requests : emitted'[p] \in 0 .. MaxEvents[p]
  <2>1. \A p \in Requests : p # q => emitted'[p] = emitted[p]  BY <1>1
  <2>2. emitted'[q] = emitted[q] + 1 \/ emitted'[q] = emitted[q]  BY <1>1
  <2> QED  BY <1>1, <1>2, <2>1, <2>2 DEF TypeInv, TypeOK
<1>7. RestOK(registry', emitted', binds')  BY <1>1, <1>6 DEF TypeInv, TypeOK, RestOK
<1> QED  BY <1>1, <1>5, <1>7, TypeFromParts

(* A bind message. *)
LEMMA TypeTakeBind == ASSUME TypeInv, NEW b \in binds, TakeBind(b) PROVE TypeInv'
<1>1. /\ binds' = binds \ {b} /\ UNCHANGED <<clients, registry, panel, request, emitted>>
  BY DEF TakeBind, watchers
<1>2. b.to \in Replicas /\ b.listener \in Listeners /\ b.chat \in Chats
  BY DEF TypeInv, TypeOK
<1>3. RestOK(registry', emitted', binds')  BY <1>1 DEF TypeInv, TypeOK, RestOK
<1>4. CASE HasClient(b.to, b.listener)
  <2>1. /\ observers' = [observers EXCEPT ![b.to][b.chat] = @ \cup {b.listener}]
        /\ Subscribe(b.to, b.chat, Nobody)
    BY <1>4 DEF TakeBind
  <2>2. StreamerOK(clients', observers')
    BY <1>1, <1>2, <2>1, TypeParts, ObserverTypes DEF TypeInv
  <2>3. Nobody \notin Requests  BY RelayAssumption
  <2>4. SubscriberOK(subscribed', channels', handlers') /\ InboxOK(inbox', request)
    BY <1>2, <2>1, <2>3, CommandTypes
  <2> QED  BY <1>1, <1>3, <2>2, <2>4, TypeFromParts
<1>5. CASE ~ HasClient(b.to, b.listener)
  <2>1. UNCHANGED <<observers, subscribed, channels, handlers, inbox>>
    BY <1>5 DEF TakeBind, subscriber
  <2> QED  BY <1>1, <1>3, <2>1, TypeFromParts
<1> QED  BY <1>4, <1>5

LEMMA TypeNext == TypeInv /\ [Next]_vars => TypeInv'
<1> SUFFICES ASSUME TypeInv, [Next]_vars PROVE TypeInv'
  OBVIOUS
<1>1. CASE UNCHANGED vars
  BY <1>1, TypeFromParts DEF vars
<1>2. CASE TakeSomeBind
  BY <1>2, TypeTakeBind DEF TakeSomeBind
<1> QED  BY <1>1, <1>2, TypeBegin, TypeStep, TypeEmit, TypeTake, TypeSweep, TypePanel DEF Next

(* The variables keep their types, whatever connects, leaves or runs.      *)
THEOREM RelayTypes == Spec => []TypeOK
<1>1. Init => TypeInv  BY TypeInit
<1>2. TypeInv /\ [Next]_vars => TypeInv'  BY TypeNext
<1>3. TypeInv => TypeOK  BY DEF TypeInv
<1> QED  BY <1>1, <1>2, <1>3, PTL DEF Spec

---------------------------------------------------------------------------
(***************************************************************************)
(* ObserversArePresent.  Watched: the observers of a chat have a response  *)
(* in the streamer, for who is heard to close is scrubbed from every chat, *)
(* the observers of a chat go with its request, and only a request that    *)
(* has begun binds panels without looking.  Housed: who has a response is  *)
(* a panel of the replica that was not heard to close.                     *)
(***************************************************************************)
AllThere(r, k) == \A l \in observers[r][k] : HasClient(r, l)

Bound(r, k) == \E q \in Requests : Running(q) /\ request[q].at = r /\ request[q].chat = k

Watched == \A r \in Replicas, k \in Chats : AllThere(r, k) \/ Bound(r, k)

Housed == \A r \in Replicas, l \in Listeners : HasClient(r, l) => Present(l, r)

LEMMA WatchedIs ==
  ASSUME TypeInv, Watched, Housed PROVE ObserversArePresent
<1>1. \A r \in Replicas, k \in Chats : observers[r][k] \subseteq Listeners
  BY DEF TypeInv, TypeOK
<1> QED  BY <1>1 DEF Watched, Housed, AllThere, Bound, ObserversArePresent

(* Who runs goes on running where it is, but for q. *)
LEMMA BoundKept ==
  ASSUME NEW q \in Requests,
         \A p \in Requests : p # q => request'[p] = request[p],
         NEW r \in Replicas, NEW k \in Chats, Bound(r, k),
         \/ r # request[q].at \/ k # request[q].chat
         \/ Running(q)' /\ request'[q].at = request[q].at /\ request'[q].chat = request[q].chat
         \/ ~ Running(q)
  PROVE  Bound(r, k)'
<1>1. PICK p \in Requests : Running(p) /\ request[p].at = r /\ request[p].chat = k
  BY DEF Bound
<1>2. CASE p # q  BY <1>1, <1>2 DEF Bound, Running
<1>3. CASE p = q  BY <1>1, <1>3 DEF Bound
<1> QED  BY <1>2, <1>3

LEMMA RemoveKeeps ==
  ASSUME TypeInv, NEW r \in Replicas, NEW id \in Chats \cup Listeners, RemoveClient(r, id),
         NEW s \in Replicas, NEW k \in Chats
  PROVE  /\ AllThere(s, k) => AllThere(s, k)'
         /\ s = r /\ k = id => AllThere(s, k)'
<1>1. observers'[s][k] = IF s = r THEN IF k = id THEN {} ELSE observers[s][k] \ {id}
                         ELSE observers[s][k]
  BY DEF RemoveClient, TypeInv, TypeOK
<1>2. \A l \in Listeners : s # r \/ l # id => clients'[s][l] = clients[s][l]
  BY DEF RemoveClient, TypeInv, TypeOK
<1>3. observers[s][k] \subseteq Listeners  BY DEF TypeInv, TypeOK
<1>4. ASSUME NEW l \in observers'[s][k]
      PROVE  l \in observers[s][k] /\ clients'[s][l] = clients[s][l]
  BY <1>1, <1>2, <1>3
<1> QED  BY <1>1, <1>4 DEF AllThere, HasClient

LEMMA AddKeeps ==
  ASSUME TypeInv, NEW r \in Replicas, NEW id \in Chats \cup Listeners,
         NEW who \in Requests \cup Listeners, AddClient(r, id, who), UNCHANGED observers,
         NEW s \in Replicas, NEW k \in Chats, AllThere(s, k)
  PROVE  AllThere(s, k)'
<1>1. who # Nobody  BY RelayAssumption
<1>2. \A l \in Listeners : clients'[s][l] = clients[s][l] \/ clients'[s][l] = who
  BY DEF AddClient, TypeInv, TypeOK
<1>3. observers[s][k] \subseteq Listeners  BY DEF TypeInv, TypeOK
<1> QED  BY <1>1, <1>2, <1>3 DEF AllThere, HasClient

(* A step of a request that goes on. *)
LEMMA WatchedAdvance ==
  ASSUME TypeInv, Watched, NEW q \in Requests, Running(q)',
         request'[q].at = request[q].at, request'[q].chat = request[q].chat,
         \A p \in Requests : p # q => request'[p] = request[p],
         \A s \in Replicas, k \in Chats :
           AllThere(s, k) => AllThere(s, k)' \/ (s = request[q].at /\ k = request[q].chat)
  PROVE  Watched'
<1> SUFFICES ASSUME NEW s \in Replicas, NEW k \in Chats PROVE AllThere(s, k)' \/ Bound(s, k)'
  BY DEF Watched
<1>1. CASE Bound(s, k)  BY <1>1, BoundKept
<1>2. CASE AllThere(s, k)
  <2>1. CASE s = request[q].at /\ k = request[q].chat  BY <2>1 DEF Bound
  <2> QED  BY <1>2, <2>1
<1> QED  BY <1>1, <1>2 DEF Watched

(* A step that ends one. *)
LEMMA WatchedEnd ==
  ASSUME TypeInv, Watched, NEW q \in Requests,
         \A p \in Requests : p # q => request'[p] = request[p],
         request[q].at \in Replicas, request[q].chat \in Chats,
         RemoveClient(request[q].at, request[q].chat)
  PROVE  Watched'
<1> SUFFICES ASSUME NEW s \in Replicas, NEW k \in Chats PROVE AllThere(s, k)' \/ Bound(s, k)'
  BY DEF Watched
<1>1. CASE s = request[q].at /\ k = request[q].chat  BY <1>1, RemoveKeeps
<1>2. CASE AllThere(s, k)  BY <1>2, RemoveKeeps
<1>3. CASE Bound(s, k) /\ ~ (s = request[q].at /\ k = request[q].chat)  BY <1>3, BoundKept
<1> QED  BY <1>1, <1>2, <1>3 DEF Watched

LEMMA WatchedStep == ASSUME TypeInv, Watched, NEW q \in Requests, RequestStep(q) PROVE Watched'
<1> DEFINE u == request[q]
<1>1. u.pc # "new"
  BY DEF RequestStep, SubscribeStream, ListPanels, BindHere, BindElsewhere, Run, Finish, CloseStream
<1>2. /\ Begun(request, q) /\ u.at \in Replicas /\ u.chat \in Chats
      /\ u \in RequestType /\ u.todo \in SUBSET (Listeners \X Replicas)
  BY <1>1 DEF Begun, TypeInv, RequestsOK, RequestType
<1>3. \A e \in u.todo : /\ e[1] \in Listeners /\ e[2] \in Replicas
                         /\ u.todo \ {e} \in SUBSET (Listeners \X Replicas)
  BY <1>2
<1>4. ASSUME UNCHANGED <<clients, observers>>
      PROVE  \A s \in Replicas, k \in Chats : AllThere(s, k) => AllThere(s, k)'
  BY <1>4 DEF AllThere, HasClient
<1>5. ASSUME Running(q)', request'[q].at = u.at, request'[q].chat = u.chat,
              \A p \in Requests : p # q => request'[p] = request[p],
              \A s \in Replicas, k \in Chats : AllThere(s, k) => AllThere(s, k)'
       PROVE  Watched'
  BY <1>5, WatchedAdvance
<1>6. ASSUME Running(q)', request'[q].at = u.at, request'[q].chat = u.chat,
              \A p \in Requests : p # q => request'[p] = request[p],
              UNCHANGED <<clients, observers>>
       PROVE  Watched'
  BY <1>4, <1>5, <1>6
<1>7. ASSUME SubscribeStream(q) PROVE Watched'
  <2> DEFINE pc == IF u.chat \in subscribed[u.at] THEN "bind" ELSE "await"
  <2>1. request' = [request EXCEPT ![q].pc = pc] /\ UNCHANGED <<clients, observers>>
    BY <1>7 DEF SubscribeStream, streamer
  <2>2. pc \in {"bind", "await"}  OBVIOUS
  <2> HIDE DEF pc
  <2>3. /\ request'[q].pc = pc /\ request'[q].at = u.at /\ request'[q].chat = u.chat
        /\ \A p \in Requests : p # q => request'[p] = request[p]
    BY <1>2, <2>1, <2>2, AdvancePc
  <2>4. Running(q)'  BY <2>2, <2>3 DEF Running
  <2> QED  BY <2>1, <2>3, <2>4, <1>6
<1>8. ASSUME ListPanels(q) PROVE Watched'
  <2> DEFINE todo == {<<l, registry[l]>> : l \in {m \in Listeners : registry[m] # Nobody}}
  <2>1. /\ request' = [request EXCEPT ![q].pc = "bind", ![q].todo = todo]
        /\ UNCHANGED <<clients, observers>>
    BY <1>8 DEF ListPanels, streamer
  <2>2. todo \in SUBSET (Listeners \X Replicas)  BY DEF TypeInv, TypeOK
  <2> HIDE DEF todo
  <2>3. /\ request'[q].pc = "bind" /\ request'[q].at = u.at /\ request'[q].chat = u.chat
        /\ \A p \in Requests : p # q => request'[p] = request[p]
    BY <1>2, <2>1, <2>2, Advance
  <2>4. Running(q)'  BY <2>3 DEF Running
  <2> QED  BY <2>1, <2>3, <2>4, <1>6
<1>9. ASSUME BindHere(q) PROVE Watched'
  <2>1. PICK e \in u.todo :
          /\ observers' = [observers EXCEPT ![u.at][u.chat] = @ \cup {e[1]}]
          /\ request' = [request EXCEPT ![q].todo = @ \ {e},
               ![q].pc = IF u.chat \in subscribed[u.at] THEN "bind" ELSE "await"]
    BY <1>9 DEF BindHere
  <2>2. UNCHANGED clients  BY <1>9 DEF BindHere
  <2>3. /\ request'[q].pc \in {"bind", "await"} /\ request'[q].at = u.at /\ request'[q].chat = u.chat
        /\ \A p \in Requests : p # q => request'[p] = request[p]
    <3> DEFINE pc == IF u.chat \in subscribed[u.at] THEN "bind" ELSE "await"
               todo == u.todo \ {e}
    <3>1. pc \in {"bind", "await"}  OBVIOUS
    <3>2. request' = [request EXCEPT ![q].todo = todo, ![q].pc = pc]  BY <2>1
    <3>3. todo \in SUBSET (Listeners \X Replicas)  BY <1>3, <2>1
    <3> HIDE DEF pc, todo
    <3> QED  BY <1>2, <3>1, <3>2, <3>3, Advance
  <2>4. Running(q)'  BY <2>3 DEF Running
  <2>5. \A s \in Replicas, k \in Chats :
          observers'[s][k] = observers[s][k] \/ (s = u.at /\ k = u.chat)
    BY <2>1 DEF TypeInv, TypeOK
  <2>6. \A s \in Replicas, k \in Chats :
          AllThere(s, k) => AllThere(s, k)' \/ (s = u.at /\ k = u.chat)
    BY <2>2, <2>5 DEF AllThere, HasClient
  <2> QED  BY <2>3, <2>4, <2>6, WatchedAdvance
<1>10. ASSUME BindElsewhere(q) PROVE Watched'
  <2>1. PICK e \in u.todo : request' = [request EXCEPT ![q].todo = @ \ {e}]
    BY <1>10 DEF BindElsewhere
  <2>2. u.pc = "bind" /\ UNCHANGED <<clients, observers>>
    BY <1>10 DEF BindElsewhere, streamer
  <2>3. /\ request'[q].pc = "bind" /\ request'[q].at = u.at /\ request'[q].chat = u.chat
        /\ \A p \in Requests : p # q => request'[p] = request[p]
    <3> DEFINE todo == u.todo \ {e}
    <3>1. request' = [request EXCEPT ![q].todo = todo]  BY <2>1
    <3>2. todo \in SUBSET (Listeners \X Replicas)  BY <1>3, <2>1
    <3> HIDE DEF todo
    <3> QED  BY <1>2, <2>2, <3>1, <3>2, Advance
  <2>4. Running(q)'  BY <2>3 DEF Running
  <2> QED  BY <2>2, <2>3, <2>4, <1>6
<1>11. ASSUME Run(q) PROVE Watched'
  <2>1. /\ request' = [request EXCEPT ![q].pc = "run"]
        /\ AddClient(u.at, u.chat, q) \/ UNCHANGED clients
        /\ UNCHANGED observers
    BY <1>11 DEF Run
  <2>2. /\ request'[q].pc = "run" /\ request'[q].at = u.at /\ request'[q].chat = u.chat
        /\ \A p \in Requests : p # q => request'[p] = request[p]
    BY <1>2, <2>1, AdvancePc
  <2>3. Running(q)'  BY <2>2 DEF Running
  <2>4. \A s \in Replicas, k \in Chats : AllThere(s, k) => AllThere(s, k)'
    BY <1>2, <1>4, <2>1, AddKeeps
  <2> QED  BY <2>2, <2>3, <2>4, <1>5
<1>12. ASSUME Finish(q) PROVE Watched'
  <2>1. CASE u.kind = "stream"
    <3> DEFINE pc == IF u.chat \in subscribed[u.at] THEN "await" ELSE "close"
    <3>1. UNCHANGED <<clients, observers>> /\ request' = [request EXCEPT ![q].pc = pc]
      BY <1>12, <2>1 DEF Finish, streamer
    <3>2. pc \in {"await", "close"}  OBVIOUS
    <3> HIDE DEF pc
    <3>3. /\ request'[q].pc = pc /\ request'[q].at = u.at /\ request'[q].chat = u.chat
          /\ \A p \in Requests : p # q => request'[p] = request[p]
      BY <1>2, <3>1, <3>2, AdvancePc
    <3>4. Running(q)'  BY <3>2, <3>3 DEF Running
    <3> QED  BY <3>1, <3>3, <3>4, <1>6
  <2>2. CASE u.kind # "stream"
    <3>1. RemoveClient(u.at, u.chat) /\ request' = [request EXCEPT ![q].pc = "done"]
      BY <1>12, <2>2 DEF Finish
    <3>2. \A p \in Requests : p # q => request'[p] = request[p]  BY <1>2, <3>1, AdvancePc
    <3> QED  BY <1>2, <3>1, <3>2, WatchedEnd
  <2> QED  BY <2>1, <2>2
<1>13. ASSUME CloseStream(q) PROVE Watched'
  <2>1. RemoveClient(u.at, u.chat) /\ request' = [request EXCEPT ![q].pc = "done"]
    BY <1>13 DEF CloseStream
  <2>2. \A p \in Requests : p # q => request'[p] = request[p]  BY <1>2, <2>1, AdvancePc
  <2> QED  BY <1>2, <2>1, <2>2, WatchedEnd
<1> QED  BY <1>7, <1>8, <1>9, <1>10, <1>11, <1>12, <1>13 DEF RequestStep

LEMMA WatchedTake == ASSUME TypeInv, Watched, NEW r \in Replicas, Take(r) PROVE Watched'
<1> DEFINE m == Head(inbox[r])
<1>1. inbox[r] # << >>
  BY DEF Take, TakeSubscribed, TakeUnsubscribed, TakeEvent
<1>2. m \in Message /\ (m.by \in Requests => Begun(request, m.by))
  BY <1>1, InboxTail DEF TypeInv
<1>3. /\ m.chat \in Chats
      /\ \E p \in Requests \cup {Nobody} : p = m.by /\ (p \in Requests => Begun(request, p))
  BY <1>2 DEF Message
<1> HIDE DEF m
<1>4. PICK by \in Requests \cup {Nobody} : by = m.by /\ (by \in Requests => Begun(request, by))
  BY <1>3
<1>5. ASSUME NEW pc \in {"bind", "close"}, request' = Resumed(by, pc),
             UNCHANGED <<clients, observers>>
      PROVE  Watched'
  <2>1. \A s \in Replicas, k \in Chats : AllThere(s, k) => AllThere(s, k)'
    BY <1>5 DEF AllThere, HasClient
  <2>2. CASE by \notin Requests
    <3>1. request' = request  BY <1>5, <2>2 DEF Resumed
    <3>2. \A s \in Replicas, k \in Chats : Bound(s, k) => Bound(s, k)'
      BY <3>1 DEF Bound, Running
    <3> QED  BY <2>1, <3>2 DEF Watched
  <2>3. CASE by \in Requests
    <3>1. request' = [request EXCEPT ![by].pc = pc]  BY <1>5, <2>3 DEF Resumed
    <3>2. {} \in SUBSET (Listeners \X Replicas)  OBVIOUS
    <3>3. /\ request'[by].pc = pc /\ request'[by].at = request[by].at
          /\ request'[by].chat = request[by].chat
          /\ \A p \in Requests : p # by => request'[p] = request[p]
      BY <1>4, <2>3, <3>1, <3>2, AdvancePc
    <3>4. Running(by)'  BY <1>5, <3>3 DEF Running
    <3> QED  BY <2>1, <2>3, <3>3, <3>4, WatchedAdvance
  <2> QED  BY <2>2, <2>3
<1>6. CASE TakeSubscribed(r)  BY <1>4, <1>5, <1>6 DEF TakeSubscribed, streamer, m
<1>7. CASE TakeUnsubscribed(r)  BY <1>4, <1>5, <1>7 DEF TakeUnsubscribed, streamer, m
<1>8. CASE TakeEvent(r)
  <2>1. /\ UNCHANGED <<clients, request>>
        /\ \/ observers' = observers
           \/ observers' = [observers EXCEPT ![r][m.chat] = {l \in @ : HasClient(r, l)}]
    BY <1>8 DEF TakeEvent, SafeWrite, m
  <2>2. ASSUME NEW s \in Replicas, NEW k \in Chats
        PROVE  observers'[s][k] \subseteq observers[s][k]
    <3> DEFINE kept == {l \in observers[r][m.chat] : HasClient(r, l)}
    <3>1. kept \subseteq observers[r][m.chat]  OBVIOUS
    <3>2. observers' = observers \/ observers' = [observers EXCEPT ![r][m.chat] = kept]  BY <2>1
    <3> HIDE DEF kept
    <3>3. CASE observers' = [observers EXCEPT ![r][m.chat] = kept]
      <4>1. observers'[s][k] = IF s = r /\ k = m.chat THEN kept ELSE observers[s][k]
        BY <1>3, <3>3 DEF TypeInv, TypeOK
      <4> QED  BY <3>1, <4>1
    <3> QED  BY <3>2, <3>3
  <2>3. \A s \in Replicas, k \in Chats : AllThere(s, k) => AllThere(s, k)'
    BY <2>1, <2>2 DEF AllThere, HasClient
  <2>4. \A s \in Replicas, k \in Chats : Bound(s, k) => Bound(s, k)'
    BY <2>1 DEF Bound, Running
  <2> QED  BY <2>3, <2>4 DEF Watched
<1> QED  BY <1>6, <1>7, <1>8 DEF Take

LEMMA WatchedBegin == ASSUME TypeInv, Watched, NEW q \in Requests, Begin(q) PROVE Watched'
<1>1. PICK plan \in Plans[q] :
        /\ request' = [request EXCEPT ![q] =
             [pc |-> IF plan.kind = "stream" THEN "subscribe" ELSE "list",
              kind |-> plan.kind, chat |-> plan.chat, at |-> plan.at, todo |-> {}]]
        /\ IF plan.kind = "stream" THEN AddClient(plan.at, plan.chat, q) ELSE UNCHANGED clients
  BY DEF Begin
<1>2. request[q].pc = "new" /\ UNCHANGED observers  BY DEF Begin
<1>3. plan.chat \in Chats /\ plan.at \in Replicas  BY RelayAssumption
<1>4. \A p \in Requests : p # q => request'[p] = request[p]
  BY <1>1 DEF TypeInv, RequestsOK
<1>5. ~ Running(q)  BY <1>2 DEF Running
<1>6. \A s \in Replicas, k \in Chats : Bound(s, k) => Bound(s, k)'
  BY <1>4, <1>5, BoundKept
<1>7. ASSUME UNCHANGED clients
      PROVE  \A s \in Replicas, k \in Chats : AllThere(s, k) => AllThere(s, k)'
  BY <1>2, <1>7 DEF AllThere, HasClient
<1>8. \A s \in Replicas, k \in Chats : AllThere(s, k) => AllThere(s, k)'
  BY <1>1, <1>2, <1>3, <1>7, AddKeeps
<1> QED  BY <1>6, <1>8 DEF Watched

LEMMA WatchedPanel ==
  ASSUME TypeInv, Watched, NEW l \in Listeners,
         \/ \E r \in Replicas : Open(l, r)
         \/ Heartbeat(l) \/ Vanish(l) \/ Unregister(l) \/ Close(l) \/ Leave(l)
  PROVE  Watched'
<1>1. UNCHANGED request  BY DEF Open, Heartbeat, Vanish, Unregister, Close, Leave
<1>2. \A s \in Replicas, k \in Chats : Bound(s, k) => Bound(s, k)'
  BY <1>1 DEF Bound, Running
<1>3. CASE Heartbeat(l) \/ Vanish(l) \/ Unregister(l) \/ Leave(l)
  <2>1. UNCHANGED <<clients, observers>>
    BY <1>3 DEF Heartbeat, Vanish, Unregister, Leave, streamer
  <2> QED  BY <2>1, <1>2 DEF Watched, AllThere, HasClient
<1>4. ASSUME NEW r \in Replicas, Open(l, r) PROVE Watched'
  <2>1. AddClient(r, l, l) /\ UNCHANGED observers  BY <1>4 DEF Open
  <2>2. \A s \in Replicas, k \in Chats : AllThere(s, k) => AllThere(s, k)'
    BY <2>1, AddKeeps
  <2> QED  BY <1>2, <2>2 DEF Watched
<1>5. CASE Close(l)
  <2>1. panel[l].at \in Replicas /\ RemoveClient(panel[l].at, l)
    BY <1>5 DEF Close, TypeInv, PanelsOK
  <2>2. \A s \in Replicas, k \in Chats : AllThere(s, k) => AllThere(s, k)'
    BY <2>1, RemoveKeeps
  <2> QED  BY <1>2, <2>2 DEF Watched
<1> QED  BY <1>3, <1>4, <1>5

LEMMA WatchedBind == ASSUME TypeInv, Watched, NEW b \in binds, TakeBind(b) PROVE Watched'
<1>1. UNCHANGED <<clients, request>>  BY DEF TakeBind
<1>2. b.to \in Replicas /\ b.chat \in Chats  BY DEF TypeInv, TypeOK
<1>3. \A s \in Replicas, k \in Chats : Bound(s, k) => Bound(s, k)'
  BY <1>1 DEF Bound, Running
<1>4. ASSUME NEW s \in Replicas, NEW k \in Chats, NEW l \in observers'[s][k]
      PROVE  l \in observers[s][k] \/ HasClient(s, l)
  <2>1. CASE HasClient(b.to, b.listener)
    <3>1. observers' = [observers EXCEPT ![b.to][b.chat] = @ \cup {b.listener}]
      BY <2>1 DEF TakeBind
    <3> QED  BY <1>2, <1>4, <2>1, <3>1 DEF TypeInv, TypeOK
  <2>2. CASE ~ HasClient(b.to, b.listener)  BY <1>4, <2>2 DEF TakeBind
  <2> QED  BY <2>1, <2>2
<1>5. \A s \in Replicas, k \in Chats : AllThere(s, k) => AllThere(s, k)'
  BY <1>1, <1>4 DEF AllThere, HasClient
<1> QED  BY <1>3, <1>5 DEF Watched

LEMMA WatchedNext == TypeInv /\ Watched /\ [Next]_vars => Watched'
<1> SUFFICES ASSUME TypeInv, Watched, [Next]_vars PROVE Watched'
  OBVIOUS
<1>1. ASSUME UNCHANGED <<clients, observers, request>> PROVE Watched'
  BY <1>1 DEF Watched, AllThere, Bound, HasClient, Running
<1>2. CASE UNCHANGED vars  BY <1>1, <1>2 DEF vars
<1>3. ASSUME NEW q \in Requests, Emit(q) PROVE Watched'
  BY <1>1, <1>3 DEF Emit, streamer
<1>4. ASSUME NEW r \in Replicas, NEW k \in Chats, Sweep(r, k) PROVE Watched'
  BY <1>1, <1>4 DEF Sweep, streamer
<1>5. CASE TakeSomeBind  BY <1>5, WatchedBind DEF TakeSomeBind
<1> QED
  BY <1>2, <1>3, <1>4, <1>5, WatchedBegin, WatchedStep, WatchedTake, WatchedPanel DEF Next

(* Opening or closing the response of a chat is nothing to the panels. *)
LEMMA ChatsAside ==
  ASSUME TypeInv, NEW r \in Replicas, NEW k \in Chats, NEW who,
         AddClient(r, k, who) \/ RemoveClient(r, k),
         NEW s \in Replicas, NEW l \in Listeners
  PROVE  clients'[s][l] = clients[s][l]
<1>1. /\ clients \in [Replicas -> [Chats \cup Listeners -> Requests \cup Listeners \cup {Nobody}]]
      /\ l # k
  BY RelayAssumption DEF TypeInv, TypeOK
<1>2. \E w : clients' = [clients EXCEPT ![r][k] = w]
  <2>1. CASE AddClient(r, k, who)  BY <2>1 DEF AddClient
  <2>2. CASE RemoveClient(r, k)  BY <2>2 DEF RemoveClient
  <2> QED  BY <2>1, <2>2
<1> QED  BY <1>1, <1>2

LEMMA HousedPanel ==
  ASSUME TypeInv, Housed, NEW l \in Listeners,
         \/ \E r \in Replicas : Open(l, r)
         \/ Heartbeat(l) \/ Vanish(l) \/ Unregister(l) \/ Close(l) \/ Leave(l)
  PROVE  Housed'
<1>1. /\ panel \in [Listeners -> PanelType] /\ Nobody \notin Replicas
      /\ clients \in [Replicas -> [Chats \cup Listeners -> Requests \cup Listeners \cup {Nobody}]]
      /\ panel[l].pc # "off" => panel[l].at \in Replicas
  BY RelayAssumption DEF TypeInv, TypeOK, PanelsOK
<1> SUFFICES ASSUME NEW s \in Replicas, NEW p \in Listeners, HasClient(s, p)'
             PROVE  Present(p, s)'
  BY DEF Housed
<1>2. ASSUME NEW r \in Replicas, Open(l, r) PROVE Present(p, s)'
  <2>1. /\ panel[l].pc = "off" /\ AddClient(r, l, l)
        /\ panel' = [panel EXCEPT ![l] = [pc |-> "opening", at |-> r]]
    BY <1>2 DEF Open
  <2>2. CASE p = l
    <3>1. ~ HasClient(s, l)
      BY <2>1 DEF Housed, Present
    <3>2. s = r
      BY <1>1, <2>1, <2>2, <3>1 DEF AddClient, HasClient
    <3> QED  BY <1>1, <2>1, <2>2, <3>2 DEF Present
  <2>3. CASE p # l
    <3>1. HasClient(s, p)
      BY <1>1, <2>1, <2>3 DEF AddClient, HasClient
    <3> QED  BY <1>1, <2>1, <2>3, <3>1 DEF Housed, Present
  <2> QED  BY <2>2, <2>3
<1>3. CASE Heartbeat(l)
  <2>1. HasClient(s, p)
    BY <1>3 DEF Heartbeat, streamer, HasClient
  <2> QED  BY <1>1, <1>3, <2>1 DEF Heartbeat, Housed, Present, PanelType
<1>4. CASE Vanish(l)
  <2>1. HasClient(s, p)
    BY <1>4 DEF Vanish, streamer, HasClient
  <2> QED  BY <1>1, <1>4, <2>1 DEF Vanish, Housed, Present, PanelType
<1>5. CASE Unregister(l)
  BY <1>5 DEF Unregister, streamer, HasClient, Housed, Present
<1>6. CASE Close(l)
  <2>1. /\ panel[l].pc = "on" /\ panel[l].at \in Replicas /\ RemoveClient(panel[l].at, l)
        /\ panel' = [panel EXCEPT ![l].pc = "closing"]
    BY <1>1, <1>6 DEF Close
  <2>2. /\ HasClient(s, p)
        /\ p = l => s # panel[l].at
    BY <1>1, <2>1 DEF RemoveClient, HasClient
  <2>3. Present(p, s)
    BY <2>2 DEF Housed
  <2>4. p # l
    BY <2>2, <2>3 DEF Present
  <2> QED  BY <1>1, <2>1, <2>3, <2>4 DEF Present
<1>7. CASE Leave(l)
  <2>1. HasClient(s, p) /\ panel[l].pc = "closing"
    BY <1>7 DEF Leave, streamer, HasClient
  <2>2. Present(p, s) /\ p # l
    BY <2>1 DEF Housed, Present
  <2> QED  BY <1>1, <1>7, <2>2 DEF Leave, Present
<1> QED  BY <1>2, <1>3, <1>4, <1>5, <1>6, <1>7

LEMMA HousedNext == TypeInv /\ Housed /\ [Next]_vars => Housed'
<1> SUFFICES ASSUME TypeInv, Housed, [Next]_vars PROVE Housed'
  OBVIOUS
<1>1. ASSUME UNCHANGED panel,
             \A s \in Replicas, l \in Listeners : clients'[s][l] = clients[s][l]
      PROVE  Housed'
  BY <1>1 DEF Housed, HasClient, Present
<1>2. ASSUME UNCHANGED <<clients, panel>> PROVE Housed'
  BY <1>1, <1>2
<1>3. CASE UNCHANGED vars  BY <1>2, <1>3 DEF vars
<1>4. ASSUME NEW q \in Requests, Begin(q) PROVE Housed'
  <2>1. PICK plan \in Plans[q] :
          IF plan.kind = "stream" THEN AddClient(plan.at, plan.chat, q) ELSE UNCHANGED clients
    BY <1>4 DEF Begin
  <2>2. plan.chat \in Chats /\ plan.at \in Replicas  BY RelayAssumption
  <2>3. UNCHANGED panel  BY <1>4 DEF Begin, watchers
  <2>4. \A s \in Replicas, l \in Listeners : clients'[s][l] = clients[s][l]
    BY <2>1, <2>2, ChatsAside
  <2> QED  BY <1>1, <2>3, <2>4
<1>5. ASSUME NEW q \in Requests, RequestStep(q) PROVE Housed'
  <2> DEFINE u == request[q]
  <2>1. u.pc # "new" /\ UNCHANGED panel
    BY <1>5 DEF RequestStep, SubscribeStream, ListPanels, BindHere, BindElsewhere, Run, Finish,
                CloseStream, watchers
  <2>2. u.at \in Replicas /\ u.chat \in Chats
    BY <2>1 DEF TypeInv, RequestsOK, Begun
  <2>3. \/ UNCHANGED clients
        \/ AddClient(u.at, u.chat, q)
        \/ RemoveClient(u.at, u.chat)
    BY <1>5 DEF RequestStep, SubscribeStream, ListPanels, BindHere, BindElsewhere, Run, Finish,
                CloseStream, streamer
  <2>4. \A s \in Replicas, l \in Listeners : clients'[s][l] = clients[s][l]
    BY <2>2, <2>3, ChatsAside
  <2> QED  BY <1>1, <2>1, <2>4
<1>6. ASSUME NEW q \in Requests, Emit(q) PROVE Housed'
  BY <1>2, <1>6 DEF Emit, streamer, watchers
<1>7. ASSUME NEW r \in Replicas, Take(r) PROVE Housed'
  BY <1>2, <1>7 DEF Take, TakeSubscribed, TakeUnsubscribed, TakeEvent, SafeWrite, streamer, watchers
<1>8. ASSUME NEW r \in Replicas, NEW k \in Chats, Sweep(r, k) PROVE Housed'
  BY <1>2, <1>8 DEF Sweep, streamer, watchers
<1>9. CASE TakeSomeBind
  BY <1>2, <1>9 DEF TakeSomeBind, TakeBind, watchers
<1> QED
  BY <1>3, <1>4, <1>5, <1>6, <1>7, <1>8, <1>9, HousedPanel DEF Next

(* A panel whose connection was heard to close observes nothing any more,  *)
(* and one of another replica never did, except a chat that a request on   *)
(* the same replica is binding or running: streamListener's close handler  *)
(* against bindExecution, bind messages and handleEvent. A panel that      *)
(* closed unheard may stay.                                                *)
THEOREM NobodyLingers == Spec => []ObserversArePresent
<1>1. Init => TypeInv /\ Watched /\ Housed
  BY TypeInit DEF Init, Watched, AllThere, Housed, HasClient
<1>2. TypeInv /\ Watched /\ Housed /\ [Next]_vars => (TypeInv /\ Watched /\ Housed)'
  BY TypeNext, WatchedNext, HousedNext
<1>3. TypeInv /\ Watched /\ Housed => ObserversArePresent  BY WatchedIs
<1> QED  BY <1>1, <1>2, <1>3, PTL DEF Spec

---------------------------------------------------------------------------
(***************************************************************************)
(* KnowsItsChannels: what Redis has subscribed for a replica is what the   *)
(* replica will know once it has taken the replies that are on their way.  *)
(***************************************************************************)
IsReply(m, k) == m.kind # "event" /\ m.chat = k

(* The last reply about k, or what is known if there is none. *)
Outcome(s, k, known) ==
  \/ k \in known /\ \A i \in 1..Len(s) : ~ IsReply(s[i], k)
  \/ \E i \in 1..Len(s) : /\ IsReply(s[i], k) /\ s[i].kind = "subscribed"
                         /\ \A j \in 1..Len(s) : j > i => ~ IsReply(s[j], k)

AgreesOn(r, k) ==
  /\ k \in subscribed[r] <=> handlers[r][k] > 0
  /\ k \in channels[r] <=> Outcome(inbox[r], k, subscribed[r])

ChannelInv == TypeInv /\ \A r \in Replicas, k \in Chats : AgreesOn(r, k)

(* A reply that comes last decides; what is no reply changes nothing. *)
LEMMA OutcomeOfReply ==
  ASSUME NEW s \in Seq(Message), NEW m \in Message, NEW k, NEW known, IsReply(m, k)
  PROVE  Outcome(Append(s, m), k, known) <=> m.kind = "subscribed"
<1> DEFINE t == Append(s, m)
<1>1. Len(s) \in Nat /\ Len(t) = Len(s) + 1 /\ t[Len(s) + 1] = m  OBVIOUS
<1>2. PICK n \in 1..Len(t) : n = Len(s) + 1  BY <1>1
<1>3. t[n] = m /\ \A j \in 1..Len(t) : ~ j > n  BY <1>1, <1>2
<1>4. \A i \in 1..Len(t) : n > i \/ i = n  BY <1>1, <1>2
<1> HIDE DEF t
<1>5. CASE m.kind = "subscribed"  BY <1>3, <1>5 DEF Outcome, t
<1>6. CASE m.kind # "subscribed"
  <2>1. ~ \A i \in 1..Len(t) : ~ IsReply(t[i], k)  BY <1>3
  <2>2. ASSUME NEW i \in 1..Len(t), IsReply(t[i], k), t[i].kind = "subscribed",
               \A j \in 1..Len(t) : j > i => ~ IsReply(t[j], k)
        PROVE  FALSE
    <3>1. i # n  BY <1>3, <1>6, <2>2
    <3>2. n > i  BY <1>4, <3>1
    <3> QED  BY <1>3, <2>2, <3>2
  <2>3. ~ Outcome(t, k, known)  BY <2>1, <2>2 DEF Outcome
  <2> QED  BY <1>6, <2>3 DEF t
<1> QED  BY <1>5, <1>6

LEMMA OutcomeOfOther ==
  ASSUME NEW s \in Seq(Message), NEW m \in Message, NEW k, NEW known, ~ IsReply(m, k)
  PROVE  Outcome(Append(s, m), k, known) <=> Outcome(s, k, known)
<1> DEFINE t == Append(s, m)
<1>1. /\ Len(s) \in Nat /\ Len(t) = Len(s) + 1 /\ t[Len(s) + 1] = m
      /\ \A i \in 1..Len(s) : t[i] = s[i]
  OBVIOUS
<1>2. 1..Len(s) \subseteq 1..Len(t) /\ \A i \in 1..Len(t) : i \in 1..Len(s) \/ t[i] = m
  <2>1. \A i \in 1..Len(t) : i \in 1..Len(s) \/ i = Len(s) + 1  BY <1>1
  <2> QED  BY <1>1, <2>1
<1> HIDE DEF t
<1>3. (\A i \in 1..Len(t) : ~ IsReply(t[i], k)) <=> (\A i \in 1..Len(s) : ~ IsReply(s[i], k))
  BY <1>1, <1>2
<1>4. \A i : (\A j \in 1..Len(t) : j > i => ~ IsReply(t[j], k))
               <=> (\A j \in 1..Len(s) : j > i => ~ IsReply(s[j], k))
  BY <1>1, <1>2
<1>5. ASSUME Outcome(t, k, known) PROVE Outcome(s, k, known)
  <2>1. CASE k \in known /\ \A i \in 1..Len(t) : ~ IsReply(t[i], k)
    BY <2>1, <1>3 DEF Outcome
  <2>2. ASSUME NEW i \in 1..Len(t), IsReply(t[i], k), t[i].kind = "subscribed",
               \A j \in 1..Len(t) : j > i => ~ IsReply(t[j], k)
        PROVE  Outcome(s, k, known)
    <3>1. i \in 1..Len(s)  BY <1>2, <2>2
    <3>2. t[i] = s[i]  BY <1>1, <3>1
    <3>3. \A j \in 1..Len(s) : j > i => ~ IsReply(s[j], k)  BY <1>4, <2>2
    <3> QED  BY <2>2, <3>1, <3>2, <3>3 DEF Outcome
  <2> QED  BY <1>5, <2>1, <2>2 DEF Outcome
<1>6. ASSUME Outcome(s, k, known) PROVE Outcome(t, k, known)
  <2>1. CASE k \in known /\ \A i \in 1..Len(s) : ~ IsReply(s[i], k)
    BY <2>1, <1>3 DEF Outcome
  <2>2. ASSUME NEW i \in 1..Len(s), IsReply(s[i], k), s[i].kind = "subscribed",
               \A j \in 1..Len(s) : j > i => ~ IsReply(s[j], k)
        PROVE  Outcome(t, k, known)
    <3>1. i \in 1..Len(t) /\ t[i] = s[i]  BY <1>1, <1>2
    <3>2. \A j \in 1..Len(t) : j > i => ~ IsReply(t[j], k)  BY <1>4, <2>2
    <3> QED  BY <2>2, <3>1, <3>2 DEF Outcome
  <2> QED  BY <1>6, <2>1, <2>2 DEF Outcome
<1> QED  BY <1>5, <1>6 DEF t

(* Taking the first of what is on its way. *)
LEMMA OutcomeOfTail ==
  ASSUME NEW s \in Seq(Message), s # << >>, NEW k, NEW known, NEW after,
         k \in after <=> IF IsReply(Head(s), k) THEN Head(s).kind = "subscribed" ELSE k \in known
  PROVE  Outcome(s, k, known) <=> Outcome(Tail(s), k, after)
<1> DEFINE t == Tail(s)
<1>1. /\ Len(s) \in Nat /\ Len(s) >= 1 /\ Head(s) = s[1] /\ Len(t) = Len(s) - 1
      /\ \A i \in 1..Len(t) : t[i] = s[i + 1]
  BY HeadTailProperties
<1> HIDE DEF t
<1>2. ASSUME NEW i \in 1..Len(s), i # 1
      PROVE  \E h \in 1..Len(t) : i = h + 1 /\ t[h] = s[i]
  <2>1. i - 1 \in 1..Len(t) /\ i = (i - 1) + 1  BY <1>1, <1>2
  <2>2. PICK h \in 1..Len(t) : i = h + 1  BY <2>1
  <2> QED  BY <1>1, <2>2
<1>3. ASSUME NEW h \in 1..Len(t)
      PROVE  \E i \in 1..Len(s) : i = h + 1 /\ t[h] = s[i]
  <2>1. h + 1 \in 1..Len(s)  BY <1>1
  <2> QED  BY <1>1, <2>1
<1>4. (\A i \in 1..Len(s) : i # 1 => ~ IsReply(s[i], k)) <=> (\A h \in 1..Len(t) : ~ IsReply(t[h], k))
  <2>1. ASSUME \A i \in 1..Len(s) : i # 1 => ~ IsReply(s[i], k), NEW h \in 1..Len(t)
        PROVE  ~ IsReply(t[h], k)
    <3>1. PICK i \in 1..Len(s) : i = h + 1 /\ t[h] = s[i]  BY <1>3
    <3>2. i # 1  BY <3>1
    <3> QED  BY <2>1, <3>1, <3>2
  <2>2. ASSUME \A h \in 1..Len(t) : ~ IsReply(t[h], k), NEW i \in 1..Len(s), i # 1
        PROVE  ~ IsReply(s[i], k)
    <3>1. PICK h \in 1..Len(t) : i = h + 1 /\ t[h] = s[i]  BY <1>2, <2>2
    <3> QED  BY <2>2, <3>1
  <2> QED  BY <2>1, <2>2
<1>5. 1 \in 1..Len(s)  BY <1>1
<1>6. ASSUME Outcome(s, k, known) PROVE Outcome(t, k, after)
  <2>1. CASE k \in known /\ \A i \in 1..Len(s) : ~ IsReply(s[i], k)
    <3>1. ~ IsReply(Head(s), k)  BY <1>1, <1>5, <2>1
    <3>2. k \in after  BY <2>1, <3>1
    <3>3. \A h \in 1..Len(t) : ~ IsReply(t[h], k)  BY <1>4, <2>1
    <3> QED  BY <3>2, <3>3 DEF Outcome
  <2>2. ASSUME NEW i \in 1..Len(s), IsReply(s[i], k), s[i].kind = "subscribed",
               \A j \in 1..Len(s) : j > i => ~ IsReply(s[j], k)
        PROVE  Outcome(t, k, after)
    <3>1. CASE i = 1
      <4>1. k \in after  BY <1>1, <2>2, <3>1
      <4>2. \A j \in 1..Len(s) : j # 1 => j > i  BY <3>1
      <4>3. \A j \in 1..Len(s) : j # 1 => ~ IsReply(s[j], k)  BY <2>2, <4>2
      <4>4. \A h \in 1..Len(t) : ~ IsReply(t[h], k)  BY <1>4, <4>3
      <4> QED  BY <4>1, <4>4 DEF Outcome
    <3>2. CASE i # 1
      <4>1. PICK h \in 1..Len(t) : i = h + 1 /\ t[h] = s[i]  BY <1>2, <3>2
      <4>2. ASSUME NEW j \in 1..Len(t), j > h PROVE ~ IsReply(t[j], k)
        <5>1. PICK n \in 1..Len(s) : n = j + 1 /\ t[j] = s[n]  BY <1>3
        <5>2. n > i  BY <4>1, <4>2, <5>1
        <5> QED  BY <2>2, <5>1, <5>2
      <4> QED  BY <2>2, <4>1, <4>2 DEF Outcome
    <3> QED  BY <3>1, <3>2
  <2> QED  BY <1>6, <2>1, <2>2 DEF Outcome
<1>7. ASSUME Outcome(t, k, after) PROVE Outcome(s, k, known)
  <2>1. CASE k \in after /\ \A h \in 1..Len(t) : ~ IsReply(t[h], k)
    <3>1. \A i \in 1..Len(s) : i # 1 => ~ IsReply(s[i], k)  BY <1>4, <2>1
    <3>2. CASE IsReply(Head(s), k)
      <4>1. IsReply(s[1], k) /\ s[1].kind = "subscribed"  BY <1>1, <2>1, <3>2
      <4>2. \A j \in 1..Len(s) : j > 1 => j # 1  OBVIOUS
      <4>3. \A j \in 1..Len(s) : j > 1 => ~ IsReply(s[j], k)  BY <3>1, <4>2
      <4> QED  BY <1>5, <4>1, <4>3 DEF Outcome
    <3>3. CASE ~ IsReply(Head(s), k)
      <4>1. k \in known  BY <2>1, <3>3
      <4>2. \A i \in 1..Len(s) : ~ IsReply(s[i], k)  BY <1>1, <3>1, <3>3
      <4> QED  BY <4>1, <4>2 DEF Outcome
    <3> QED  BY <3>2, <3>3
  <2>2. ASSUME NEW h \in 1..Len(t), IsReply(t[h], k), t[h].kind = "subscribed",
               \A j \in 1..Len(t) : j > h => ~ IsReply(t[j], k)
        PROVE  Outcome(s, k, known)
    <3>1. PICK i \in 1..Len(s) : i = h + 1 /\ t[h] = s[i]  BY <1>3
    <3>2. ASSUME NEW j \in 1..Len(s), j > i PROVE ~ IsReply(s[j], k)
      <4>1. j # 1  BY <3>1, <3>2
      <4>2. PICK n \in 1..Len(t) : j = n + 1 /\ t[n] = s[j]  BY <1>2, <4>1
      <4>3. n > h  BY <3>1, <3>2, <4>2
      <4> QED  BY <2>2, <4>2, <4>3
    <3> QED  BY <2>2, <3>1, <3>2 DEF Outcome
  <2> QED  BY <1>7, <2>1, <2>2 DEF Outcome
<1> QED  BY <1>6, <1>7 DEF t

LEMMA AgreesKept ==
  ASSUME NEW r \in Replicas, NEW k \in Chats, AgreesOn(r, k),
         inbox'[r] = inbox[r], subscribed'[r] = subscribed[r],
         channels'[r] = channels[r], handlers'[r] = handlers[r]
  PROVE  AgreesOn(r, k)'
BY DEF AgreesOn, Outcome

(* What is appended and is no reply about k. *)
LEMMA AgreesAppend ==
  ASSUME TypeInv, NEW r \in Replicas, NEW k \in Chats, AgreesOn(r, k),
         NEW m \in Message, ~ IsReply(m, k), inbox'[r] = Append(inbox[r], m),
         subscribed'[r] = subscribed[r], handlers'[r] = handlers[r],
         k \in channels'[r] <=> k \in channels[r]
  PROVE  AgreesOn(r, k)'
<1>1. inbox[r] \in Seq(Message)  BY DEF TypeInv, InboxOK
<1>2. Outcome(Append(inbox[r], m), k, subscribed[r]) <=> Outcome(inbox[r], k, subscribed[r])
  BY <1>1, OutcomeOfOther
<1>3. Outcome(inbox'[r], k, subscribed'[r]) <=> Outcome(inbox[r], k, subscribed[r])
  BY <1>2
<1> QED  BY <1>3 DEF AgreesOn

(* A command: Redis carries it out, its reply is on its way. *)
LEMMA AgreesCommand ==
  ASSUME ChannelInv, NEW r \in Replicas, NEW k \in Chats, NEW by \in Requests \cup {Nobody},
         Subscribe(r, k, by) \/ Unsubscribe(r, k, by), NEW s \in Replicas, NEW c \in Chats
  PROVE  AgreesOn(s, c)'
<1>0. TypeInv /\ AgreesOn(s, c)  BY DEF ChannelInv
<1>1. CASE UNCHANGED subscriber  BY <1>0, <1>1, AgreesKept DEF subscriber
<1>2. ASSUME NEW kind \in {"subscribed", "unsubscribed"},
             inbox' = [inbox EXCEPT ![r] = Append(@, Reply(kind, k, by))],
             channels' = [channels EXCEPT
                            ![r] = IF kind = "subscribed" THEN @ \cup {k} ELSE @ \ {k}],
             UNCHANGED <<subscribed, handlers>>
      PROVE  AgreesOn(s, c)'
  <2> DEFINE m == Reply(kind, k, by)
  <2>1. m \in Message /\ m.kind = kind /\ m.chat = k  BY DEF Reply, Message
  <2>2. inbox \in [Replicas -> Seq(Message)] /\ channels \in [Replicas -> SUBSET Chats]
    BY <1>0 DEF TypeInv, TypeOK, InboxOK
  <2>3. s # r => inbox'[s] = inbox[s] /\ channels'[s] = channels[s]  BY <1>2, <2>2
  <2>4. /\ inbox'[r] = Append(inbox[r], m)
        /\ channels'[r] = IF kind = "subscribed" THEN channels[r] \cup {k} ELSE channels[r] \ {k}
    BY <1>2, <2>2
  <2> HIDE DEF m
  <2>5. CASE s # r  BY <1>0, <1>2, <2>3, <2>5, AgreesKept
  <2>6. CASE s = r /\ c # k
    <3>1. ~ IsReply(m, c)  BY <2>1, <2>6 DEF IsReply
    <3>2. c \in channels'[r] <=> c \in channels[r]  BY <2>4, <2>6
    <3> QED  BY <1>0, <1>2, <2>1, <2>4, <2>6, <3>1, <3>2, AgreesAppend
  <2>7. CASE s = r /\ c = k
    <3>1. IsReply(m, k)  BY <2>1 DEF IsReply
    <3>2. Outcome(Append(inbox[r], m), k, subscribed[r]) <=> kind = "subscribed"
      BY <2>1, <2>2, <3>1, OutcomeOfReply
    <3>3. Outcome(inbox'[r], k, subscribed'[r]) <=> kind = "subscribed"  BY <1>2, <2>4, <3>2
    <3>4. k \in channels'[r] <=> kind = "subscribed"  BY <2>4
    <3> QED  BY <1>0, <1>2, <2>7, <3>3, <3>4 DEF AgreesOn
  <2> QED  BY <2>5, <2>6, <2>7
<1>3. CASE Subscribe(r, k, by) /\ k \notin subscribed[r]
  <2>1. /\ inbox' = [inbox EXCEPT ![r] = Append(@, Reply("subscribed", k, by))]
        /\ channels' = [channels EXCEPT ![r] = @ \cup {k}]
        /\ UNCHANGED <<subscribed, handlers>>
    BY <1>3 DEF Subscribe
  <2> QED  BY <2>1, <1>2
<1>4. CASE Unsubscribe(r, k, by) /\ k \in subscribed[r]
  <2>1. /\ inbox' = [inbox EXCEPT ![r] = Append(@, Reply("unsubscribed", k, by))]
        /\ channels' = [channels EXCEPT ![r] = @ \ {k}]
        /\ UNCHANGED <<subscribed, handlers>>
    BY <1>4 DEF Unsubscribe
  <2> QED  BY <2>1, <1>2
<1> QED  BY <1>1, <1>3, <1>4 DEF Subscribe, Unsubscribe

(* A reply or a message is taken. *)
LEMMA AgreesTake ==
  ASSUME ChannelInv, NEW r \in Replicas, Take(r), NEW s \in Replicas, NEW c \in Chats
  PROVE  AgreesOn(s, c)'
<1> DEFINE m == Head(inbox[r])
<1>0. TypeInv /\ AgreesOn(s, c)  BY DEF ChannelInv
<1>1. inbox[r] # << >> /\ inbox' = [inbox EXCEPT ![r] = Tail(@)] /\ UNCHANGED channels
  BY DEF Take, TakeSubscribed, TakeUnsubscribed, TakeEvent
<1>2. /\ inbox \in [Replicas -> Seq(Message)] /\ subscribed \in [Replicas -> SUBSET Chats]
      /\ handlers \in [Replicas -> [Chats -> Nat]]
  BY <1>0 DEF TypeInv, TypeOK, InboxOK
<1>3. m \in Message  BY <1>0, <1>1, InboxTail DEF TypeInv
<1>4. m.chat \in Chats  BY <1>3 DEF Message
<1>5. inbox'[r] = Tail(inbox[r]) /\ (s # r => inbox'[s] = inbox[s])  BY <1>1, <1>2
<1>6. /\ \/ /\ m.kind = "subscribed"
            /\ subscribed' = [subscribed EXCEPT ![r] = @ \cup {m.chat}]
            /\ handlers' = [handlers EXCEPT ![r][m.chat] = @ + 1]
         \/ /\ m.kind = "unsubscribed"
            /\ subscribed' = [subscribed EXCEPT ![r] = @ \ {m.chat}]
            /\ handlers' = [handlers EXCEPT ![r][m.chat] = 0]
         \/ /\ m.kind = "event"
            /\ UNCHANGED <<subscribed, handlers>>
  BY DEF Take, TakeSubscribed, TakeUnsubscribed, TakeEvent
<1> HIDE DEF m
<1>7. CASE s # r
  <2>1. subscribed'[s] = subscribed[s] /\ handlers'[s] = handlers[s]  BY <1>2, <1>4, <1>6, <1>7
  <2> QED  BY <1>0, <1>1, <1>5, <1>7, <2>1, AgreesKept
<1>8. CASE s = r
  <2>1. c \in subscribed'[r] <=> IF IsReply(m, c) THEN m.kind = "subscribed" ELSE c \in subscribed[r]
    BY <1>2, <1>4, <1>6 DEF IsReply
  <2>2. c \in subscribed'[r] <=> handlers'[r][c] > 0
    <3>1. handlers[r][c] \in Nat /\ (c \in subscribed[r] <=> handlers[r][c] > 0)
      BY <1>0, <1>2, <1>8 DEF AgreesOn
    <3>2. CASE m.kind = "subscribed"
      <4>1. handlers'[r][c] = IF c = m.chat THEN handlers[r][c] + 1 ELSE handlers[r][c]
        BY <1>2, <1>4, <1>6, <3>2
      <4>2. c \in subscribed'[r] <=> c = m.chat \/ c \in subscribed[r]
        BY <1>2, <1>6, <3>2
      <4> QED  BY <3>1, <4>1, <4>2
    <3>3. CASE m.kind = "unsubscribed"
      <4>1. handlers'[r][c] = IF c = m.chat THEN 0 ELSE handlers[r][c]
        BY <1>2, <1>4, <1>6, <3>3
      <4>2. c \in subscribed'[r] <=> c # m.chat /\ c \in subscribed[r]
        BY <1>2, <1>6, <3>3
      <4> QED  BY <3>1, <4>1, <4>2
    <3>4. CASE m.kind = "event"
      BY <1>6, <3>1, <3>4
    <3> QED  BY <1>6, <3>2, <3>3, <3>4
  <2>3. Outcome(inbox[r], c, subscribed[r]) <=> Outcome(Tail(inbox[r]), c, subscribed'[r])
    <3> DEFINE after == subscribed'[r]
    <3>1. c \in after <=> IF IsReply(Head(inbox[r]), c) THEN Head(inbox[r]).kind = "subscribed"
                          ELSE c \in subscribed[r]
      BY <2>1 DEF m
    <3> HIDE DEF after
    <3>2. Outcome(inbox[r], c, subscribed[r]) <=> Outcome(Tail(inbox[r]), c, after)
      BY <1>1, <1>2, <3>1, OutcomeOfTail
    <3> QED  BY <3>2 DEF after
  <2>4. Outcome(inbox'[r], c, subscribed'[r]) <=> Outcome(inbox[r], c, subscribed[r])
    BY <1>5, <2>3
  <2> QED  BY <1>0, <1>1, <1>8, <2>2, <2>4 DEF AgreesOn
<1> QED  BY <1>7, <1>8

(* An event of a worker. *)
LEMMA AgreesEmit ==
  ASSUME ChannelInv, NEW q \in Requests, Emit(q), NEW s \in Replicas, NEW c \in Chats
  PROVE  AgreesOn(s, c)'
<1> DEFINE k == request[q].chat
           m == [kind |-> "event", chat |-> k, by |-> q, n |-> emitted[q] + 1]
<1>0. TypeInv /\ AgreesOn(s, c)  BY DEF ChannelInv
<1>1. /\ request[q].pc = "run" /\ emitted[q] < MaxEvents[q]
      /\ inbox' = [r \in Replicas |-> IF k \in channels[r] THEN Append(inbox[r], m) ELSE inbox[r]]
      /\ UNCHANGED <<subscribed, channels, handlers>>
  BY DEF Emit
<1>2. emitted[q] \in Nat  BY <1>0, RelayAssumption DEF TypeInv, TypeOK
<1>3. k \in Chats  BY <1>0, <1>1 DEF Begun, TypeInv, RequestsOK
<1>4. m \in Message /\ ~ IsReply(m, c)  BY <1>2, <1>3 DEF Message, IsReply
<1>5. inbox'[s] = inbox[s] \/ inbox'[s] = Append(inbox[s], m)  BY <1>1
<1> HIDE DEF m
<1> QED  BY <1>0, <1>1, <1>4, <1>5, AgreesKept, AgreesAppend

LEMMA ChannelNext == ChannelInv /\ [Next]_vars => ChannelInv'
<1> SUFFICES ASSUME ChannelInv, [Next]_vars, NEW s \in Replicas, NEW c \in Chats
             PROVE  AgreesOn(s, c)'
  BY TypeNext DEF ChannelInv
<1>0. TypeInv /\ AgreesOn(s, c)  BY DEF ChannelInv
<1>1. ASSUME UNCHANGED subscriber PROVE AgreesOn(s, c)'
  BY <1>0, <1>1, AgreesKept DEF subscriber
<1>2. CASE UNCHANGED vars  BY <1>1, <1>2 DEF vars, subscriber
<1>3. ASSUME NEW q \in Requests, Begin(q) PROVE AgreesOn(s, c)'
  BY <1>1, <1>3 DEF Begin
<1>4. ASSUME NEW q \in Requests, RequestStep(q) PROVE AgreesOn(s, c)'
  <2>1. request[q].pc # "new"
    BY <1>4
    DEF RequestStep, SubscribeStream, ListPanels, BindHere, BindElsewhere, Run, Finish, CloseStream
  <2>2. request[q].at \in Replicas /\ request[q].chat \in Chats
    BY <1>0, <2>1 DEF Begun, TypeInv, RequestsOK
  <2>3. \/ UNCHANGED subscriber
        \/ Subscribe(request[q].at, request[q].chat, q)
        \/ Unsubscribe(request[q].at, request[q].chat, q)
    BY <1>4
    DEF RequestStep, SubscribeStream, ListPanels, BindHere, BindElsewhere, Run, Finish, CloseStream
  <2> QED  BY <1>1, <2>2, <2>3, AgreesCommand
<1>5. ASSUME NEW r \in Replicas, NEW k \in Chats, Sweep(r, k) PROVE AgreesOn(s, c)'
  <2>1. Unsubscribe(r, k, Nobody)  BY <1>5 DEF Sweep
  <2> QED  BY <2>1, AgreesCommand
<1>6. ASSUME NEW l \in Listeners,
             \/ \E r \in Replicas : Open(l, r)
             \/ Heartbeat(l) \/ Vanish(l) \/ Unregister(l) \/ Close(l) \/ Leave(l)
      PROVE  AgreesOn(s, c)'
  BY <1>1, <1>6 DEF Open, Heartbeat, Vanish, Unregister, Close, Leave
<1>7. ASSUME NEW b \in binds, TakeBind(b) PROVE AgreesOn(s, c)'
  <2>1. UNCHANGED subscriber \/ Subscribe(b.to, b.chat, Nobody)
    BY <1>7 DEF TakeBind
  <2>2. b.to \in Replicas /\ b.chat \in Chats  BY <1>0 DEF TypeInv, TypeOK
  <2> QED  BY <1>1, <2>1, <2>2, AgreesCommand
<1>8. ASSUME NEW q \in Requests, Emit(q) PROVE AgreesOn(s, c)'
  BY <1>8, AgreesEmit
<1>9. ASSUME NEW r \in Replicas, Take(r) PROVE AgreesOn(s, c)'
  BY <1>9, AgreesTake
<1>10. CASE TakeSomeBind  BY <1>7, <1>10 DEF TakeSomeBind
<1> QED  BY <1>2, <1>3, <1>4, <1>5, <1>6, <1>8, <1>9, <1>10 DEF Next

(* A replica knows what it is subscribed to: without a reply on its way    *)
(* its set, its handlers and Redis agree, whatever overlapped before.      *)
THEOREM ChannelsAreKnown == Spec => []KnowsItsChannels
<1>1. Init => ChannelInv
  <2>1. ASSUME Init, NEW r \in Replicas, NEW k \in Chats PROVE AgreesOn(r, k)
    BY <2>1 DEF Init, AgreesOn, Outcome
  <2> QED  BY <2>1, TypeInit DEF ChannelInv
<1>2. ChannelInv /\ [Next]_vars => ChannelInv'  BY ChannelNext
<1>3. ChannelInv => KnowsItsChannels
  <2> SUFFICES ASSUME ChannelInv, NEW r \in Replicas,
                      \A i \in DOMAIN inbox[r] : inbox[r][i].kind = "event"
               PROVE  /\ subscribed[r] = channels[r]
                      /\ subscribed[r] = {k \in Chats : handlers[r][k] > 0}
    BY DEF KnowsItsChannels
  <2>1. subscribed[r] \subseteq Chats /\ channels[r] \subseteq Chats /\ inbox[r] \in Seq(Message)
    BY DEF ChannelInv, TypeInv, TypeOK, InboxOK
  <2>2. DOMAIN inbox[r] = 1..Len(inbox[r])  BY <2>1
  <2>3. ASSUME NEW k \in Chats
        PROVE  /\ k \in channels[r] <=> k \in subscribed[r]
               /\ k \in subscribed[r] <=> handlers[r][k] > 0
    <3>1. AgreesOn(r, k)  BY DEF ChannelInv
    <3>2. \A i \in 1..Len(inbox[r]) : ~ IsReply(inbox[r][i], k)  BY <2>2 DEF IsReply
    <3>3. Outcome(inbox[r], k, subscribed[r]) <=> k \in subscribed[r]  BY <3>2 DEF Outcome
    <3> QED  BY <3>1, <3>3 DEF AgreesOn
  <2> QED  BY <2>1, <2>3
<1> QED  BY <1>1, <1>2, <1>3, PTL DEF Spec

---------------------------------------------------------------------------
(***************************************************************************)
(* PredictionsAreHeard: who waits for which reply, and what else touches   *)
(* the channel of a stream.                                                *)
(***************************************************************************)
(* Webhooks come with chats of their own. *)
OwnChats ==
  \A q \in Requests, s \in Requests : \A p \in Plans[q], o \in Plans[s] :
    p.kind = "stream" /\ o.kind # "stream" => p.chat # o.chat

Active(q) == Begun(request, q) /\ request[q].kind = "stream" /\ request[q].pc # "done"

(* A chat is answered once at a time: on one replica no two streaming      *)
(* predictions of it are under way.                                        *)
NoOverlap ==
  \A q \in Requests, s \in Requests :
    /\ Active(q) /\ Active(s)
    /\ request[q].at = request[s].at /\ request[q].chat = request[s].chat
    => q = s

Mail(r) == 1..Len(inbox[r])

NoReplies(r, k) == \A i \in Mail(r) : ~ IsReply(inbox[r][i], k)

(* A request is what its plan said; a stream does not look for panels. *)
Planned ==
  \A q \in Requests : Begun(request, q) =>
    /\ [kind |-> request[q].kind, chat |-> request[q].chat, at |-> request[q].at] \in Plans[q]
    /\ request[q].kind = "stream" => request[q].pc # "list" /\ request[q].todo = {}

(* Bind messages are about chats of webhooks that have begun, replies for  *)
(* a request come to where it is, and a stream awaits them.                *)
BindsOK ==
  \A b \in binds : \E q \in Requests :
    Begun(request, q) /\ request[q].kind # "stream" /\ request[q].chat = b.chat

RepliesOK ==
  \A r \in Replicas : \A i \in Mail(r) :
    LET m == inbox[r][i]
    IN  m.kind # "event" /\ m.by \in Requests =>
          /\ request[m.by].at = r /\ request[m.by].chat = m.chat
          /\ request[m.by].kind = "stream" => request[m.by].pc = "await"

(* A replica has to do with a channel only for a webhook or for a stream   *)
(* of its own that is under way.                                           *)
Busy(r, k) ==
  \E q \in Requests :
    /\ request[q].chat = k
    /\ \/ Begun(request, q) /\ request[q].kind # "stream"
       \/ Active(q) /\ request[q].at = r

Quiet(r, k) == k \notin subscribed[r] /\ NoReplies(r, k)

QuietOK == \A r \in Replicas, k \in Chats : ~ Busy(r, k) => Quiet(r, k)

(* There is one reply about k on its way to q, and it brings news. *)
OneReply(r, k, q) ==
  \E i \in Mail(r) :
    /\ IsReply(inbox[r][i], k) /\ inbox[r][i].by = q
    /\ inbox[r][i].kind = "subscribed" <=> k \notin subscribed[r]
    /\ \A j \in Mail(r) : j # i => ~ IsReply(inbox[r][j], k)

(* The response of a stream is open until it is done, so that no clean-up  *)
(* touches its channel, and what the replica knows of the channel is what  *)
(* the place of the stream in its program says.                            *)
StreamOK(q) ==
  LET u == request[q]
  IN  /\ clients[u.at][u.chat] = q
      /\ u.pc \in {"subscribe", "close"} => Quiet(u.at, u.chat)
      /\ u.pc = "await" => OneReply(u.at, u.chat, q)
      /\ u.pc \in {"bind", "run"} => u.chat \in subscribed[u.at] /\ NoReplies(u.at, u.chat)

StreamsOK == \A q \in Requests : Active(q) => StreamOK(q)

StreamInv ==
  ChannelInv /\ Planned /\ BindsOK /\ RepliesOK /\ QuietOK /\ StreamsOK

(* The mailbox of a replica, when something comes or is taken. *)
LEMMA Appended ==
  ASSUME NEW S, NEW s \in Seq(S), NEW m \in S, NEW t, t = Append(s, m)
  PROVE  /\ 1..Len(s) \subseteq 1..Len(t)
         /\ \A i \in 1..Len(s) : t[i] = s[i]
         /\ \A i \in 1..Len(t) : i \in 1..Len(s) \/ (t[i] = m /\ \A j \in 1..Len(s) : j < i)
         /\ \E i \in 1..Len(t) :
              t[i] = m /\ i \notin 1..Len(s) /\ (\A j \in 1..Len(s) : j < i)
              /\ \A j \in 1..Len(t) : j = i \/ j \in 1..Len(s)
<1>1. Len(s) \in Nat /\ Len(t) = Len(s) + 1 /\ t[Len(s) + 1] = m /\ \A i \in 1..Len(s) : t[i] = s[i]
  OBVIOUS
<1>2. \A i \in 1..Len(t) : i \in 1..Len(s) \/ i = Len(s) + 1  BY <1>1
<1>3. Len(s) + 1 \in 1..Len(t) /\ Len(s) + 1 \notin 1..Len(s) /\ \A j \in 1..Len(s) : j < Len(s) + 1
  BY <1>1
<1>4. 1..Len(s) \subseteq 1..Len(t)  BY <1>1
<1>5. \A i \in 1..Len(t) : i \in 1..Len(s) \/ (t[i] = m /\ \A j \in 1..Len(s) : j < i)
  BY <1>1, <1>2, <1>3
<1> QED  BY <1>1, <1>2, <1>3, <1>4, <1>5

LEMMA Taken ==
  ASSUME NEW S, NEW s \in Seq(S), s # << >>, NEW t, t = Tail(s)
  PROVE  /\ 1 \in 1..Len(s) /\ Head(s) = s[1]
         /\ \A h \in 1..Len(t) : h + 1 \in 1..Len(s) /\ t[h] = s[h + 1] /\ h + 1 # 1
         /\ \A i \in 1..Len(s) : i # 1 => 1 < i /\ \E h \in 1..Len(t) : i = h + 1 /\ t[h] = s[i]
<1>1. /\ Len(s) \in Nat /\ Len(s) >= 1 /\ Head(s) = s[1] /\ Len(t) = Len(s) - 1
      /\ \A i \in 1..Len(t) : t[i] = s[i + 1]
  BY HeadTailProperties
<1>2. ASSUME NEW i \in 1..Len(s), i # 1
      PROVE  1 < i /\ \E h \in 1..Len(t) : i = h + 1 /\ t[h] = s[i]
  <2>1. i - 1 \in 1..Len(t) /\ i = (i - 1) + 1 /\ 1 < i  BY <1>1, <1>2
  <2>2. PICK h \in 1..Len(t) : i = h + 1  BY <2>1
  <2> QED  BY <1>1, <2>1, <2>2
<1>3. \A h \in 1..Len(t) : h + 1 \in 1..Len(s) /\ t[h] = s[h + 1] /\ h + 1 # 1
  BY <1>1
<1>4. 1 \in 1..Len(s)  BY <1>1
<1> QED  BY <1>1, <1>2, <1>3, <1>4

(* The request that moves on, field by field. *)
LEMMA Moved ==
  ASSUME TypeInv, NEW q \in Requests, NEW pc, NEW todo,
         \/ request' = [request EXCEPT ![q].pc = pc] /\ todo = request[q].todo
         \/ request' = [request EXCEPT ![q].todo = todo] /\ pc = request[q].pc
         \/ request' = [request EXCEPT ![q].pc = pc, ![q].todo = todo]
         \/ request' = [request EXCEPT ![q].todo = todo, ![q].pc = pc]
  PROVE  /\ request'[q].pc = pc /\ request'[q].todo = todo
         /\ request'[q].kind = request[q].kind /\ request'[q].chat = request[q].chat
         /\ request'[q].at = request[q].at
         /\ \A p \in Requests : p # q => request'[p] = request[p]
<1>1. request \in [Requests -> RequestType]  BY DEF TypeInv, RequestsOK
<1>2. request[q] \in RequestType  BY <1>1
<1>3. request'[q] = [request[q] EXCEPT !.pc = pc, !.todo = todo]
  <2>1. CASE request' = [request EXCEPT ![q].pc = pc] /\ todo = request[q].todo
    BY <1>1, <1>2, <2>1 DEF RequestType
  <2>2. CASE request' = [request EXCEPT ![q].todo = todo] /\ pc = request[q].pc
    BY <1>1, <1>2, <2>2 DEF RequestType
  <2>3. CASE request' = [request EXCEPT ![q].pc = pc, ![q].todo = todo]
    BY <1>1, <1>2, <2>3 DEF RequestType
  <2>4. CASE request' = [request EXCEPT ![q].todo = todo, ![q].pc = pc]
    BY <1>1, <1>2, <2>4 DEF RequestType
  <2> QED  BY <2>1, <2>2, <2>3, <2>4
<1>4. \A p \in Requests : p # q => request'[p] = request[p]  BY <1>1
<1> QED  BY <1>2, <1>3, <1>4 DEF RequestType

(* A command of RedisEventSubscriber: nothing, or Redis carries it out and *)
(* its reply is on its way.                                                *)
LEMMA CommandIs ==
  ASSUME TypeInv, NEW r \in Replicas, NEW k \in Chats, NEW by \in Requests \cup {Nobody},
         Subscribe(r, k, by) \/ Unsubscribe(r, k, by)
  PROVE  \/ UNCHANGED subscriber
         \/ /\ UNCHANGED <<subscribed, handlers>>
            /\ \A s \in Replicas : s # r => inbox'[s] = inbox[s] /\ channels'[s] = channels[s]
            /\ \E m \in Message :
                 /\ inbox'[r] = Append(inbox[r], m) /\ m.chat = k /\ m.by = by
                 /\ \/ /\ m.kind = "subscribed" /\ Subscribe(r, k, by) /\ k \notin subscribed[r]
                       /\ channels'[r] = channels[r] \cup {k}
                    \/ /\ m.kind = "unsubscribed" /\ Unsubscribe(r, k, by) /\ k \in subscribed[r]
                       /\ channels'[r] = channels[r] \ {k}
<1>1. /\ inbox \in [Replicas -> Seq(Message)] /\ channels \in [Replicas -> SUBSET Chats]
  BY DEF TypeInv, TypeOK, InboxOK
<1>2. ASSUME NEW kind \in {"subscribed", "unsubscribed"}
      PROVE  /\ Reply(kind, k, by) \in Message /\ Reply(kind, k, by).chat = k
             /\ Reply(kind, k, by).by = by /\ Reply(kind, k, by).kind = kind
  BY DEF Reply, Message
<1>3. CASE Subscribe(r, k, by) /\ k \notin subscribed[r]
  <2>1. /\ inbox' = [inbox EXCEPT ![r] = Append(@, Reply("subscribed", k, by))]
        /\ channels' = [channels EXCEPT ![r] = @ \cup {k}]
        /\ UNCHANGED <<subscribed, handlers>>
    BY <1>3 DEF Subscribe
  <2> QED  BY <1>1, <1>2, <1>3, <2>1
<1>4. CASE Unsubscribe(r, k, by) /\ k \in subscribed[r]
  <2>1. /\ inbox' = [inbox EXCEPT ![r] = Append(@, Reply("unsubscribed", k, by))]
        /\ channels' = [channels EXCEPT ![r] = @ \ {k}]
        /\ UNCHANGED <<subscribed, handlers>>
    BY <1>4 DEF Unsubscribe
  <2> QED  BY <1>1, <1>2, <1>4, <2>1
<1> QED  BY <1>3, <1>4 DEF Subscribe, Unsubscribe

(* Nothing changes for the replies about k at r. *)
SameReplies(r, k) ==
  /\ k \in subscribed'[r] <=> k \in subscribed[r]
  /\ \/ inbox'[r] = inbox[r]
     \/ \E m \in Message : inbox'[r] = Append(inbox[r], m) /\ ~ IsReply(m, k)
     \/ inbox[r] # << >> /\ inbox'[r] = Tail(inbox[r]) /\ ~ IsReply(Head(inbox[r]), k)

LEMMA RepliesKept ==
  ASSUME TypeInv, NEW r \in Replicas, NEW k \in Chats, SameReplies(r, k)
  PROVE  /\ NoReplies(r, k) => NoReplies(r, k)'
         /\ \A q \in Requests : OneReply(r, k, q) => OneReply(r, k, q)'
<1> DEFINE s == inbox[r]
           t == inbox'[r]
<1>0. s \in Seq(Message)  BY DEF TypeInv, InboxOK
<1>1. CASE t = s  BY <1>1 DEF SameReplies, NoReplies, OneReply, Mail
<1>2. ASSUME NEW m \in Message, t = Append(s, m), ~ IsReply(m, k)
      PROVE  /\ NoReplies(r, k) => NoReplies(r, k)'
             /\ \A q \in Requests : OneReply(r, k, q) => OneReply(r, k, q)'
  <2>1. /\ 1..Len(s) \subseteq 1..Len(t) /\ \A i \in 1..Len(s) : t[i] = s[i]
        /\ \A i \in 1..Len(t) : i \in 1..Len(s) \/ ~ IsReply(t[i], k)
    <3> HIDE DEF s, t
    <3> QED  BY <1>0, <1>2, Appended
  <2> QED  BY <2>1 DEF SameReplies, NoReplies, OneReply, Mail
<1>3. CASE s # << >> /\ t = Tail(s) /\ ~ IsReply(Head(s), k)
  <2>1. /\ 1 \in 1..Len(s) /\ Head(s) = s[1]
        /\ \A h \in 1..Len(t) : h + 1 \in 1..Len(s) /\ t[h] = s[h + 1]
        /\ \A i \in 1..Len(s) : i # 1 => \E h \in 1..Len(t) : i = h + 1 /\ t[h] = s[i]
    <3> HIDE DEF s, t
    <3> QED  BY <1>0, <1>3, Taken
  <2>2. NoReplies(r, k) => NoReplies(r, k)'  BY <2>1 DEF NoReplies, Mail
  <2>3. ASSUME NEW q \in Requests, OneReply(r, k, q) PROVE OneReply(r, k, q)'
    <3>1. PICK i \in 1..Len(s) :
            /\ IsReply(s[i], k) /\ s[i].by = q
            /\ s[i].kind = "subscribed" <=> k \notin subscribed[r]
            /\ \A j \in 1..Len(s) : j # i => ~ IsReply(s[j], k)
      BY <2>3 DEF OneReply, Mail
    <3>2. i # 1  BY <1>3, <2>1, <3>1
    <3>3. PICK h \in 1..Len(t) : i = h + 1 /\ t[h] = s[i]  BY <2>1, <3>2
    <3>4. \A j \in 1..Len(t) : j # h => ~ IsReply(t[j], k)
      <4> SUFFICES ASSUME NEW j \in 1..Len(t), j # h PROVE ~ IsReply(t[j], k)
        OBVIOUS
      <4>1. j + 1 # i  BY <3>3
      <4> QED  BY <2>1, <3>1, <4>1
    <3> QED  BY <3>1, <3>3, <3>4 DEF OneReply, Mail, SameReplies
  <2> QED  BY <2>2, <2>3
<1> QED  BY <1>1, <1>2, <1>3 DEF SameReplies

(* Nothing else is about the channel of a stream on its replica. *)
LEMMA Apart ==
  ASSUME OwnChats, NoOverlap, Planned, NEW p \in Requests, NEW q \in Requests, p # q,
         Active(p), Active(q) \/ (Begun(request, q) /\ request[q].kind # "stream")
  PROVE  \/ request[q].chat # request[p].chat
         \/ Active(q) /\ request[q].at # request[p].at
<1> DEFINE a == [kind |-> request[p].kind, chat |-> request[p].chat, at |-> request[p].at]
           b == [kind |-> request[q].kind, chat |-> request[q].chat, at |-> request[q].at]
<1>1. CASE Active(q)  BY <1>1 DEF NoOverlap
<1>2. CASE Begun(request, q) /\ request[q].kind # "stream"
  <2>1. a \in Plans[p] /\ b \in Plans[q]  BY <1>2 DEF Planned, Active
  <2>2. a.kind = "stream" /\ b.kind # "stream"  BY <1>2 DEF Active
  <2>3. a.chat = request[p].chat /\ b.chat = request[q].chat  OBVIOUS
  <2> HIDE DEF a, b
  <2> QED  BY <2>1, <2>2, <2>3 DEF OwnChats
<1> QED  BY <1>1, <1>2

(* A stream that the step leaves alone. *)
LEMMA StreamKept ==
  ASSUME TypeInv, NEW p \in Requests, Active(p), StreamOK(p), request'[p] = request[p],
         SameReplies(request[p].at, request[p].chat),
         clients'[request[p].at][request[p].chat] = clients[request[p].at][request[p].chat]
  PROVE  StreamOK(p)'
<1>1. PICK r \in Replicas, k \in Chats : request[p].at = r /\ request[p].chat = k
  BY DEF Active, TypeInv, RequestsOK
<1>2. /\ NoReplies(r, k) => NoReplies(r, k)'
      /\ OneReply(r, k, p) => OneReply(r, k, p)'
      /\ k \in subscribed'[r] <=> k \in subscribed[r]
  BY <1>1, RepliesKept DEF SameReplies
<1>3. NoReplies(r, k)' <=> NoReplies(request[p].at, request[p].chat)'
  BY <1>1 DEF NoReplies, Mail
<1>4. OneReply(r, k, p)' <=> OneReply(request[p].at, request[p].chat, p)'
  BY <1>1 DEF OneReply, Mail
<1> QED  BY <1>1, <1>2, <1>3, <1>4 DEF StreamOK, Quiet

(* A command about another channel. *)
LEMMA OtherChannel ==
  ASSUME TypeInv, NEW r \in Replicas, NEW k \in Chats, NEW by \in Requests \cup {Nobody},
         UNCHANGED subscriber \/ Subscribe(r, k, by) \/ Unsubscribe(r, k, by),
         NEW s \in Replicas, NEW c \in Chats, s # r \/ c # k \/ UNCHANGED subscriber
  PROVE  SameReplies(s, c)
<1>1. CASE UNCHANGED subscriber  BY <1>1 DEF subscriber, SameReplies
<1>2. ASSUME NEW m \in Message, UNCHANGED subscribed,
             \A t \in Replicas : t # r => inbox'[t] = inbox[t],
             inbox'[r] = Append(inbox[r], m), m.chat = k, s # r \/ c # k
      PROVE  SameReplies(s, c)
  BY <1>2 DEF SameReplies, IsReply
<1> QED  BY <1>1, <1>2, CommandIs

(* A response opens or closes; the others stay as they are. *)
LEMMA OtherResponse ==
  ASSUME TypeInv, NEW r \in Replicas, NEW id \in Chats \cup Listeners, NEW who,
         AddClient(r, id, who) \/ RemoveClient(r, id),
         NEW s \in Replicas, NEW c \in Chats \cup Listeners, s # r \/ c # id
  PROVE  clients'[s][c] = clients[s][c]
<1>1. clients \in [Replicas -> [Chats \cup Listeners -> Requests \cup Listeners \cup {Nobody}]]
  BY DEF TypeInv, TypeOK
<1>2. PICK v : clients' = [clients EXCEPT ![r][id] = v]  BY DEF AddClient, RemoveClient
<1>3. clients[r] \in [Chats \cup Listeners -> Requests \cup Listeners \cup {Nobody}]  BY <1>1
<1>4. [clients[r] EXCEPT ![id] = v][c] = IF c = id THEN v ELSE clients[r][c]  BY <1>3
<1>5. clients'[s] = IF s = r THEN [clients[r] EXCEPT ![id] = v] ELSE clients[s]  BY <1>1, <1>2
<1> QED  BY <1>4, <1>5

(* Requests go on, and keep what they are. *)
Carried ==
  \A p \in Requests : Begun(request, p) =>
    /\ Begun(request', p) /\ request'[p].kind = request[p].kind
    /\ request'[p].chat = request[p].chat /\ request'[p].at = request[p].at

LEMMA QuietKept ==
  ASSUME TypeInv, NEW r \in Replicas, NEW k \in Chats, SameReplies(r, k), Quiet(r, k)
  PROVE  Quiet(r, k)'
BY RepliesKept DEF SameReplies, Quiet

LEMMA BindsKept ==
  ASSUME BindsOK, Carried,
         \A b \in binds' : b \in binds \/ \E q \in Requests :
           Begun(request, q) /\ request[q].kind # "stream" /\ request[q].chat = b.chat
  PROVE  BindsOK'
<1> SUFFICES ASSUME NEW b \in binds'
             PROVE  \E q \in Requests :
                      Begun(request', q) /\ request'[q].kind # "stream" /\ request'[q].chat = b.chat
  BY DEF BindsOK
<1>1. PICK q \in Requests :
        Begun(request, q) /\ request[q].kind # "stream" /\ request[q].chat = b.chat
  BY DEF BindsOK
<1> QED  BY <1>1 DEF Carried

(* Who waits goes on waiting: what was in the mailbox stays good, and what *)
(* is new is an event or a good reply.                                     *)
Waiting ==
  \A p \in Requests : request[p].kind = "stream" /\ request[p].pc = "await" => request'[p].pc = "await"

LEMMA RepliesAreKept ==
  ASSUME TypeInv, RepliesOK, Carried, Waiting,
         \A r \in Replicas : \A i \in 1..Len(inbox'[r]) :
           \/ \E j \in 1..Len(inbox[r]) : inbox'[r][i] = inbox[r][j]
           \/ inbox'[r][i].kind = "event"
           \/ LET q == inbox'[r][i].by
              IN  q \in Requests =>
                    /\ Begun(request, q) /\ request[q].at = r /\ request[q].chat = inbox'[r][i].chat
                    /\ request[q].kind = "stream" => request'[q].pc = "await"
  PROVE  RepliesOK'
<1> SUFFICES ASSUME NEW r \in Replicas, NEW i \in 1..Len(inbox'[r]), NEW q \in Requests,
                    inbox'[r][i].kind # "event", inbox'[r][i].by = q
             PROVE  /\ request'[q].at = r /\ request'[q].chat = inbox'[r][i].chat
                    /\ request'[q].kind = "stream" => request'[q].pc = "await"
  BY DEF RepliesOK, Mail
<1>1. ASSUME NEW j \in 1..Len(inbox[r]), inbox'[r][i] = inbox[r][j]
      PROVE  /\ Begun(request, q) /\ request[q].at = r /\ request[q].chat = inbox'[r][i].chat
             /\ request[q].kind = "stream" => request'[q].pc = "await"
  <2>1. Begun(request, q)  BY <1>1 DEF TypeInv, InboxOK
  <2>2. /\ request[q].at = r /\ request[q].chat = inbox[r][j].chat
        /\ request[q].kind = "stream" => request[q].pc = "await"
    BY <1>1 DEF RepliesOK, Mail
  <2> QED  BY <1>1, <2>1, <2>2 DEF Waiting
<1>2. /\ Begun(request, q) /\ request[q].at = r /\ request[q].chat = inbox'[r][i].chat
      /\ request[q].kind = "stream" => request'[q].pc = "await"
  BY <1>1
<1> QED  BY <1>2 DEF Carried

LEMMA RepliesCommand ==
  ASSUME TypeInv, RepliesOK, Carried, Waiting,
         NEW r \in Replicas, NEW k \in Chats, NEW by \in Requests \cup {Nobody},
         UNCHANGED subscriber \/ Subscribe(r, k, by) \/ Unsubscribe(r, k, by),
         by \in Requests =>
           /\ Begun(request, by) /\ request[by].at = r /\ request[by].chat = k
           /\ request[by].kind = "stream" => UNCHANGED subscriber \/ request'[by].pc = "await"
  PROVE  RepliesOK'
<1>1. CASE UNCHANGED subscriber  BY <1>1, RepliesAreKept DEF subscriber
<1>2. ASSUME NEW m \in Message, \A t \in Replicas : t # r => inbox'[t] = inbox[t],
             inbox'[r] = Append(inbox[r], m), m.chat = k, m.by = by, ~ UNCHANGED subscriber
      PROVE  RepliesOK'
  <2> SUFFICES ASSUME NEW t \in Replicas, NEW i \in 1..Len(inbox'[t])
               PROVE  \/ \E j \in 1..Len(inbox[t]) : inbox'[t][i] = inbox[t][j]
                      \/ t = r /\ inbox'[t][i] = m
    BY <1>2, RepliesAreKept
  <2>1. CASE t # r  BY <1>2, <2>1
  <2>2. CASE t = r
    <3>1. inbox[r] \in Seq(Message)  BY DEF TypeInv, InboxOK
    <3>2. i \in 1..Len(inbox[r]) \/ inbox'[r][i] = m  BY <1>2, <2>2, <3>1, Appended
    <3>3. i \in 1..Len(inbox[r]) => inbox'[r][i] = inbox[r][i]  BY <1>2, <2>2, <3>1, Appended
    <3> QED  BY <2>2, <3>2, <3>3
  <2> QED  BY <2>1, <2>2
<1> QED  BY <1>1, <1>2, CommandIs

---------------------------------------------------------------------------
(***************************************************************************)
(* StreamInv, step by step.  The steps of q, of the clean-up and of a bind *)
(* message give commands about one channel at one replica.                 *)
(***************************************************************************)
StreamParts == Planned /\ BindsOK /\ RepliesOK /\ QuietOK /\ StreamsOK

LEMMA StreamInit == Init => StreamInv
<1> SUFFICES ASSUME Init PROVE StreamInv
  OBVIOUS
<1>1. ChannelInv
  <2>1. ASSUME NEW r \in Replicas, NEW k \in Chats PROVE AgreesOn(r, k)
    BY DEF Init, AgreesOn, Outcome
  <2> QED  BY <2>1, TypeInit DEF ChannelInv
<1>2. \A q \in Requests : ~ Begun(request, q)  BY DEF Init, Begun
<1>3. Planned /\ StreamsOK  BY <1>2 DEF Planned, StreamsOK, Active
<1>4. BindsOK  BY DEF Init, BindsOK
<1>5. \A r \in Replicas : inbox[r] = << >> /\ subscribed[r] = {}  BY DEF Init
<1>6. RepliesOK /\ QuietOK  BY <1>5 DEF RepliesOK, QuietOK, Quiet, NoReplies, Mail
<1> QED  BY <1>1, <1>3, <1>4, <1>6 DEF StreamInv

LEMMA StreamBegin ==
  ASSUME OwnChats, NoOverlap', StreamInv, NEW q \in Requests, Begin(q)
  PROVE  StreamParts'
<1>0. TypeInv /\ Planned /\ BindsOK /\ RepliesOK /\ QuietOK /\ StreamsOK
  BY DEF StreamInv, ChannelInv
<1>1. PICK plan \in Plans[q] :
        /\ request' = [request EXCEPT ![q] =
             [pc |-> IF plan.kind = "stream" THEN "subscribe" ELSE "list",
              kind |-> plan.kind, chat |-> plan.chat, at |-> plan.at, todo |-> {}]]
        /\ IF plan.kind = "stream" THEN AddClient(plan.at, plan.chat, q) ELSE UNCHANGED clients
  BY DEF Begin
<1>2. plan \in [kind : {"stream", "webhook", "webhookStream"}, chat : Chats, at : Replicas]
  BY RelayAssumption
<1>3. ~ Begun(request, q) /\ UNCHANGED <<subscriber, binds>>  BY DEF Begin, Begun
<1>4. request \in [Requests -> RequestType]  BY <1>0 DEF TypeInv, RequestsOK
<1>5. /\ request'[q].pc = IF plan.kind = "stream" THEN "subscribe" ELSE "list"
      /\ request'[q].kind = plan.kind /\ request'[q].chat = plan.chat
      /\ request'[q].at = plan.at /\ request'[q].todo = {}
      /\ \A p \in Requests : p # q => request'[p] = request[p]
  BY <1>1, <1>4
<1>6. Carried  BY <1>3, <1>5 DEF Carried, Begun
<1>7. \A r \in Replicas, k \in Chats : SameReplies(r, k)  BY <1>3 DEF SameReplies, subscriber
<1>8. QuietOK'
  <2> SUFFICES ASSUME NEW r \in Replicas, NEW k \in Chats, ~ Busy(r, k)'
               PROVE  Quiet(r, k)'
    BY DEF QuietOK
  <2>1. ~ Busy(r, k)  BY <1>3, <1>5 DEF Busy, Active, Begun
  <2> QED  BY <1>0, <1>7, <2>1, QuietKept DEF QuietOK
<1>9. BindsOK'  BY <1>0, <1>3, <1>6, BindsKept
<1>10. RepliesOK'
  <2>1. Waiting  BY <1>3, <1>5 DEF Waiting, Begun
  <2> QED  BY <1>0, <1>3, <1>6, <2>1, RepliesAreKept DEF subscriber
<1>11. Planned'
  <2>1. [kind |-> plan.kind, chat |-> plan.chat, at |-> plan.at] = plan  BY <1>2
  <2>2. [kind |-> request'[q].kind, chat |-> request'[q].chat, at |-> request'[q].at] \in Plans[q]
    BY <1>5, <2>1
  <2>3. request'[q].kind = "stream" => request'[q].pc # "list" /\ request'[q].todo = {}
    BY <1>5
  <2> QED  BY <1>0, <1>5, <2>2, <2>3 DEF Planned, Begun
<1>12. ASSUME NEW p \in Requests, Active(p)' PROVE StreamOK(p)'
  <2>1. CASE p = q
    <3>1. plan.kind = "stream"  BY <1>5, <1>12, <2>1 DEF Active
    <3>2. plan.at \in Replicas /\ plan.chat \in Chats  BY <1>2
    <3>3. ~ Busy(plan.at, plan.chat)
      <4> SUFFICES ASSUME NEW o \in Requests, request[o].chat = plan.chat,
                          \/ Begun(request, o) /\ request[o].kind # "stream"
                          \/ Active(o) /\ request[o].at = plan.at
                   PROVE  FALSE
        BY DEF Busy
      <4>1. o # q  BY <1>3 DEF Active
      <4>2. CASE Active(o) /\ request[o].at = plan.at
        <5>1. Active(o)' /\ request'[o] = request[o]  BY <1>5, <4>1, <4>2 DEF Active, Begun
        <5> QED  BY <1>5, <1>12, <2>1, <4>1, <4>2, <5>1 DEF NoOverlap
      <4>3. CASE Begun(request, o) /\ request[o].kind # "stream"
        <5> DEFINE b == [kind |-> request[o].kind, chat |-> request[o].chat, at |-> request[o].at]
        <5>1. b \in Plans[o] /\ b.chat = plan.chat /\ b.kind # "stream"  BY <1>0, <4>3 DEF Planned
        <5> HIDE DEF b
        <5> QED  BY <3>1, <5>1 DEF OwnChats
      <4> QED  BY <4>2, <4>3
    <3>4. Quiet(plan.at, plan.chat)'  BY <1>0, <1>7, <3>2, <3>3, QuietKept DEF QuietOK
    <3>5. Quiet(request[q].at, request[q].chat)'
      BY <1>5, <3>4 DEF Quiet, NoReplies, Mail
    <3>6. clients'[plan.at][plan.chat] = q
      BY <1>0, <1>1, <3>1, <3>2 DEF AddClient, TypeInv, TypeOK
    <3>7. request'[q].pc = "subscribe"  BY <1>5, <3>1
    <3> QED  BY <1>5, <2>1, <3>5, <3>6, <3>7 DEF StreamOK
  <2>2. CASE p # q
    <3>1. Active(p) /\ StreamOK(p) /\ request'[p] = request[p]
      BY <1>0, <1>5, <1>12, <2>2 DEF Active, Begun, StreamsOK
    <3>2. request[p].at \in Replicas /\ request[p].chat \in Chats
      BY <1>0, <3>1 DEF Active, TypeInv, RequestsOK
    <3>3. plan.kind = "stream" => plan.at # request[p].at \/ plan.chat # request[p].chat
      <4> SUFFICES ASSUME plan.kind = "stream", plan.at = request[p].at, plan.chat = request[p].chat
                   PROVE  FALSE
        OBVIOUS
      <4>1. Active(q)'  BY <1>5 DEF Active, Begun
      <4> QED  BY <1>5, <1>12, <2>2, <3>1, <4>1 DEF NoOverlap
    <3>4. clients'[request[p].at][request[p].chat] = clients[request[p].at][request[p].chat]
      <4>1. CASE plan.kind # "stream"  BY <1>1, <4>1
      <4>2. CASE plan.kind = "stream"
        BY <1>0, <1>1, <1>2, <3>2, <3>3, <4>2, OtherResponse
      <4> QED  BY <4>1, <4>2
    <3> QED  BY <1>0, <1>7, <3>1, <3>2, <3>4, StreamKept
  <2> QED  BY <2>1, <2>2
<1> QED  BY <1>8, <1>9, <1>10, <1>11, <1>12 DEF StreamsOK, StreamParts

(* What a step of a request that has begun does. *)
LEMMA StepIs ==
  ASSUME StreamInv, NEW q \in Requests, RequestStep(q)
  PROVE  /\ Begun(request, q) /\ request[q].pc \notin {"done", "await"} /\ Begun(request', q)
         /\ request[q].at \in Replicas /\ request[q].chat \in Chats
         /\ \/ UNCHANGED subscriber
            \/ Subscribe(request[q].at, request[q].chat, q)
            \/ Unsubscribe(request[q].at, request[q].chat, q)
         /\ UNCHANGED clients
            \/ AddClient(request[q].at, request[q].chat, q)
            \/ RemoveClient(request[q].at, request[q].chat)
         /\ request'[q].kind = request[q].kind /\ request'[q].chat = request[q].chat
         /\ request'[q].at = request[q].at
         /\ \A p \in Requests : p # q => request'[p] = request[p]
         /\ \A b \in binds' : b \in binds \/ (b.chat = request[q].chat /\ request[q].todo # {})
         /\ request'[q].pc # "list" /\ (request'[q].todo \subseteq request[q].todo \/ request[q].pc = "list")
<1>0. TypeInv  BY DEF StreamInv, ChannelInv
<1> DEFINE a == request[q].at
           k == request[q].chat
<1>1. Begun(request, q) /\ request[q].pc \notin {"done", "await"}
  BY DEF RequestStep, SubscribeStream, ListPanels, BindHere, BindElsewhere, Run, Finish, CloseStream, Begun
<1>2. a \in Replicas /\ k \in Chats  BY <1>0, <1>1 DEF TypeInv, RequestsOK
<1>3. /\ \/ UNCHANGED subscriber
         \/ Subscribe(a, k, q)
         \/ Unsubscribe(a, k, q)
      /\ UNCHANGED clients \/ AddClient(a, k, q) \/ RemoveClient(a, k)
  <2>1. CASE SubscribeStream(q) \/ ListPanels(q)
    BY <2>1 DEF SubscribeStream, ListPanels, streamer
  <2>2. CASE BindHere(q) \/ BindElsewhere(q)
    BY <2>2 DEF BindHere, BindElsewhere, streamer
  <2>3. CASE Run(q)  BY <2>3 DEF Run
  <2>4. CASE Finish(q)  BY <2>4 DEF Finish, streamer
  <2>5. CASE CloseStream(q)  BY <2>5 DEF CloseStream
  <2> QED  BY <2>1, <2>2, <2>3, <2>4, <2>5 DEF RequestStep
<1>4. \A b \in binds' : b \in binds \/ (b.chat = k /\ request[q].todo # {})
  <2>1. CASE binds' = binds  BY <2>1
  <2>2. CASE BindElsewhere(q)  BY <2>2 DEF BindElsewhere
  <2>3. binds' = binds \/ BindElsewhere(q)
    BY DEF RequestStep, SubscribeStream, ListPanels, BindHere, Run, Finish, CloseStream
  <2> QED  BY <2>1, <2>2, <2>3
<1>5. PICK pc, todo :
        /\ \/ request' = [request EXCEPT ![q].pc = pc] /\ todo = request[q].todo
           \/ request' = [request EXCEPT ![q].todo = todo] /\ pc = request[q].pc
           \/ request' = [request EXCEPT ![q].pc = pc, ![q].todo = todo]
           \/ request' = [request EXCEPT ![q].todo = todo, ![q].pc = pc]
        /\ pc \notin {"new", "list"}
        /\ todo \subseteq request[q].todo \/ request[q].pc = "list"
  <2>1. CASE SubscribeStream(q)
    <3> WITNESS IF k \in subscribed[a] THEN "bind" ELSE "await", request[q].todo
    <3> QED  BY <2>1 DEF SubscribeStream
  <2>2. CASE ListPanels(q)
    <3> WITNESS "bind", {<<l, registry[l]>> : l \in {m \in Listeners : registry[m] # Nobody}}
    <3> QED  BY <2>2 DEF ListPanels
  <2>3. CASE BindHere(q)
    <3>1. PICK e \in request[q].todo :
            request' = [request EXCEPT ![q].todo = @ \ {e},
                          ![q].pc = IF k \in subscribed[a] THEN "bind" ELSE "await"]
      BY <2>3 DEF BindHere
    <3> WITNESS IF k \in subscribed[a] THEN "bind" ELSE "await", request[q].todo \ {e}
    <3> QED  BY <3>1
  <2>4. CASE BindElsewhere(q)
    <3>1. PICK e \in request[q].todo : request' = [request EXCEPT ![q].todo = @ \ {e}]
      BY <2>4 DEF BindElsewhere
    <3> WITNESS request[q].pc, request[q].todo \ {e}
    <3> QED  BY <2>4, <3>1 DEF BindElsewhere
  <2>5. CASE Run(q)
    <3> WITNESS "run", request[q].todo
    <3> QED  BY <2>5 DEF Run
  <2>6. CASE Finish(q)
    <3> WITNESS IF request[q].kind # "stream" THEN "done"
                ELSE IF k \in subscribed[a] THEN "await" ELSE "close", request[q].todo
    <3> QED  BY <2>6 DEF Finish
  <2>7. CASE CloseStream(q)
    <3> WITNESS "done", request[q].todo
    <3> QED  BY <2>7 DEF CloseStream
  <2> QED  BY <2>1, <2>2, <2>3, <2>4, <2>5, <2>6, <2>7 DEF RequestStep
<1>6. /\ request'[q].pc = pc /\ request'[q].todo = todo
      /\ request'[q].kind = request[q].kind /\ request'[q].chat = request[q].chat
      /\ request'[q].at = request[q].at
      /\ \A p \in Requests : p # q => request'[p] = request[p]
  <2> HIDE DEF a, k
  <2>1. CASE request' = [request EXCEPT ![q].pc = pc] /\ todo = request[q].todo
    <3>1. request \in [Requests -> RequestType] /\ request[q] \in RequestType
      BY <1>0 DEF TypeInv, RequestsOK
    <3> QED  BY <2>1, <3>1 DEF RequestType
  <2>2. CASE request' = [request EXCEPT ![q].todo = todo] /\ pc = request[q].pc
    <3>1. request \in [Requests -> RequestType] /\ request[q] \in RequestType
      BY <1>0 DEF TypeInv, RequestsOK
    <3> QED  BY <2>2, <3>1 DEF RequestType
  <2>3. CASE request' = [request EXCEPT ![q].pc = pc, ![q].todo = todo]
    BY <1>0, <2>3, Moved
  <2>4. CASE request' = [request EXCEPT ![q].todo = todo, ![q].pc = pc]
    BY <1>0, <2>4, Moved
  <2> QED  BY <1>5, <2>1, <2>2, <2>3, <2>4
<1>7. Begun(request', q)  BY <1>5, <1>6 DEF Begun
<1> QED  BY <1>1, <1>2, <1>3, <1>4, <1>5, <1>6, <1>7

(* The stream q itself. *)
LEMMA StreamOwnStep ==
  ASSUME StreamInv, NEW q \in Requests, RequestStep(q), Active(q)
  PROVE  /\ Active(q)' => StreamOK(q)'
         /\ UNCHANGED subscriber \/ request'[q].pc = "await"
         /\ Active(q)' \/ (UNCHANGED subscriber /\ Quiet(request[q].at, request[q].chat))
<1>0. TypeInv /\ StreamOK(q) /\ request[q].pc # "list" /\ request[q].todo = {}
  BY DEF StreamInv, ChannelInv, StreamsOK, Planned, Active
<1>1. PICK a \in Replicas, k \in Chats :
        /\ request[q].at = a /\ request[q].chat = k
        /\ request'[q].at = a /\ request'[q].chat = k /\ request'[q].kind = "stream"
  BY StepIs DEF Active
<1>2. request \in [Requests -> RequestType] /\ request[q].kind = "stream"
  BY <1>0 DEF TypeInv, RequestsOK, Active
<1>3. /\ NoReplies(a, k)' <=> NoReplies(request[q].at, request[q].chat)'
      /\ OneReply(a, k, q)' <=> OneReply(request[q].at, request[q].chat, q)'
  BY <1>1 DEF NoReplies, OneReply, Mail
<1>4. ASSUME UNCHANGED subscriber
      PROVE  (NoReplies(a, k)' <=> NoReplies(a, k)) /\ subscribed' = subscribed
  BY <1>4 DEF subscriber, NoReplies, Mail
(* A command is given: its reply is the only one about the channel. *)
<1>5. ASSUME NEW m \in Message, inbox'[a] = Append(inbox[a], m), m.chat = k, m.by = q,
             m.kind \in {"subscribed", "unsubscribed"}, UNCHANGED subscribed,
             m.kind = "subscribed" <=> k \notin subscribed[a], NoReplies(a, k)
      PROVE  OneReply(a, k, q)'
  <2> DEFINE s == inbox[a]
             t == inbox'[a]
  <2>1. s \in Seq(Message)  BY <1>0, <1>1 DEF TypeInv, InboxOK
  <2>2. /\ \A i \in 1..Len(s) : t[i] = s[i]
        /\ \E i \in 1..Len(t) : t[i] = m /\ \A j \in 1..Len(t) : j = i \/ j \in 1..Len(s)
    <3>1. t = Append(s, m)  BY <1>5
    <3> HIDE DEF s, t
    <3> QED  BY <2>1, <3>1, Appended
  <2>3. PICK i \in 1..Len(t) : t[i] = m /\ \A j \in 1..Len(t) : j = i \/ j \in 1..Len(s)
    BY <2>2
  <2>4. \A j \in 1..Len(t) : j # i => ~ IsReply(t[j], k)
    BY <1>5, <2>2, <2>3 DEF NoReplies, Mail
  <2>5. IsReply(t[i], k) /\ t[i].by = q /\ (t[i].kind = "subscribed" <=> k \notin subscribed'[a])
    BY <1>5, <2>3 DEF IsReply
  <2> QED  BY <2>3, <2>4, <2>5 DEF OneReply, Mail
<1>6. CASE SubscribeStream(q)
  <2>1. /\ request[q].pc = "subscribe" /\ Subscribe(a, k, q) /\ UNCHANGED clients
        /\ request' = [request EXCEPT ![q].pc = IF k \in subscribed[a] THEN "bind" ELSE "await"]
    BY <1>1, <1>6 DEF SubscribeStream, streamer
  <2>2. k \notin subscribed[a] /\ NoReplies(a, k) /\ clients[a][k] = q
    BY <1>0, <1>1, <2>1 DEF StreamOK, Quiet
  <2>3. request'[q].pc = "await"  BY <1>2, <2>1, <2>2 DEF RequestType
  <2>4. OneReply(a, k, q)'
    <3>1. ~ UNCHANGED subscriber
      <4>1. inbox' = [inbox EXCEPT ![a] = Append(@, Reply("subscribed", k, q))]
        BY <2>1, <2>2 DEF Subscribe
      <4>2. inbox \in [Replicas -> Seq(Message)] /\ Reply("subscribed", k, q) \in Message
        BY <1>0, <1>1 DEF TypeInv, InboxOK, Reply, Message
      <4>3. inbox[a] \in Seq(Message) /\ inbox'[a] = Append(inbox[a], Reply("subscribed", k, q))
        BY <1>1, <4>1, <4>2
      <4>4. Len(inbox'[a]) = Len(inbox[a]) + 1 /\ Len(inbox[a]) \in Nat  BY <4>2, <4>3
      <4> QED  BY <4>4 DEF subscriber
    <3>2. PICK m \in Message :
            /\ UNCHANGED subscribed /\ inbox'[a] = Append(inbox[a], m) /\ m.chat = k /\ m.by = q
            /\ \/ m.kind = "subscribed" /\ k \notin subscribed[a]
               \/ m.kind = "unsubscribed" /\ k \in subscribed[a]
      BY <1>0, <1>1, <2>1, <3>1, CommandIs
    <3> QED  BY <1>5, <2>2, <3>2
  <2>5. StreamOK(q)'  BY <1>1, <1>3, <2>1, <2>2, <2>3, <2>4 DEF StreamOK, Quiet
  <2>6. Active(q)'  BY <1>1, <2>3 DEF Active, Begun
  <2> QED  BY <2>3, <2>5, <2>6
<1>7. CASE Run(q)
  <2>1. /\ request[q].pc = "bind" /\ request' = [request EXCEPT ![q].pc = "run"]
        /\ UNCHANGED <<subscriber, clients>>
    BY <1>1, <1>2, <1>7 DEF Run
  <2>2. k \in subscribed[a] /\ NoReplies(a, k) /\ clients[a][k] = q
    BY <1>0, <1>1, <2>1 DEF StreamOK, Quiet
  <2>3. request'[q].pc = "run"  BY <1>2, <2>1 DEF RequestType
  <2>4. StreamOK(q)'  BY <1>1, <1>3, <1>4, <2>1, <2>2, <2>3 DEF StreamOK, Quiet
  <2>5. Active(q)'  BY <1>1, <2>3 DEF Active, Begun
  <2> QED  BY <2>1, <2>4, <2>5
<1>8. CASE Finish(q)
  <2>1. /\ request[q].pc = "run" /\ Unsubscribe(a, k, q) /\ UNCHANGED clients
        /\ request' = [request EXCEPT ![q].pc = IF k \in subscribed[a] THEN "await" ELSE "close"]
    BY <1>1, <1>2, <1>8 DEF Finish, streamer
  <2>2. k \in subscribed[a] /\ NoReplies(a, k) /\ clients[a][k] = q
    BY <1>0, <1>1, <2>1 DEF StreamOK, Quiet
  <2>3. request'[q].pc = "await"  BY <1>2, <2>1, <2>2 DEF RequestType
  <2>4. OneReply(a, k, q)'
    <3>1. ~ UNCHANGED subscriber
      <4>1. inbox' = [inbox EXCEPT ![a] = Append(@, Reply("unsubscribed", k, q))]
        BY <2>1, <2>2 DEF Unsubscribe
      <4>2. inbox \in [Replicas -> Seq(Message)] /\ Reply("unsubscribed", k, q) \in Message
        BY <1>0, <1>1 DEF TypeInv, InboxOK, Reply, Message
      <4>3. inbox[a] \in Seq(Message) /\ inbox'[a] = Append(inbox[a], Reply("unsubscribed", k, q))
        BY <1>1, <4>1, <4>2
      <4>4. Len(inbox'[a]) = Len(inbox[a]) + 1 /\ Len(inbox[a]) \in Nat  BY <4>2, <4>3
      <4> QED  BY <4>4 DEF subscriber
    <3>2. PICK m \in Message :
            /\ UNCHANGED subscribed /\ inbox'[a] = Append(inbox[a], m) /\ m.chat = k /\ m.by = q
            /\ \/ m.kind = "subscribed" /\ k \notin subscribed[a]
               \/ m.kind = "unsubscribed" /\ k \in subscribed[a]
      BY <1>0, <1>1, <2>1, <3>1, CommandIs
    <3> QED  BY <1>5, <2>2, <3>2
  <2>5. StreamOK(q)'  BY <1>1, <1>3, <2>1, <2>2, <2>3, <2>4 DEF StreamOK, Quiet
  <2>6. Active(q)'  BY <1>1, <2>3 DEF Active, Begun
  <2> QED  BY <2>3, <2>5, <2>6
<1>9. CASE CloseStream(q)
  <2>1. /\ request[q].pc = "close" /\ request' = [request EXCEPT ![q].pc = "done"]
        /\ UNCHANGED subscriber
    BY <1>9 DEF CloseStream
  <2>2. k \notin subscribed[a] /\ NoReplies(a, k)  BY <1>0, <1>1, <2>1 DEF StreamOK, Quiet
  <2>3. request'[q].pc = "done"  BY <1>2, <2>1 DEF RequestType
  <2>4. ~ Active(q)'  BY <2>3 DEF Active
  <2> QED  BY <1>1, <2>1, <2>2, <2>4 DEF Quiet
<1>10. ~ ListPanels(q) /\ ~ BindHere(q) /\ ~ BindElsewhere(q)
  BY <1>0 DEF ListPanels, BindHere, BindElsewhere
<1> QED  BY <1>6, <1>7, <1>8, <1>9, <1>10 DEF RequestStep

LEMMA StreamStep ==
  ASSUME OwnChats, NoOverlap, StreamInv, NEW q \in Requests, RequestStep(q)
  PROVE  StreamParts'
<1>0. TypeInv /\ Planned /\ BindsOK /\ RepliesOK /\ QuietOK /\ StreamsOK
  BY DEF StreamInv, ChannelInv
<1>1. PICK a \in Replicas, k \in Chats :
        /\ request[q].at = a /\ request[q].chat = k
        /\ Begun(request, q) /\ request[q].pc \notin {"done", "await"} /\ Begun(request', q)
        /\ UNCHANGED subscriber \/ Subscribe(a, k, q) \/ Unsubscribe(a, k, q)
        /\ UNCHANGED clients \/ AddClient(a, k, q) \/ RemoveClient(a, k)
        /\ request'[q].kind = request[q].kind /\ request'[q].chat = k /\ request'[q].at = a
        /\ \A p \in Requests : p # q => request'[p] = request[p]
        /\ \A b \in binds' : b \in binds \/ (b.chat = k /\ request[q].todo # {})
        /\ request'[q].pc # "list" /\ (request'[q].todo \subseteq request[q].todo \/ request[q].pc = "list")
  BY StepIs
<1>2. Carried  BY <1>1 DEF Carried, Begun
<1>3. \A r \in Replicas, c \in Chats : r # a \/ c # k => SameReplies(r, c)
  BY <1>0, <1>1, OtherChannel
<1>4. QuietOK'
  <2> SUFFICES ASSUME NEW r \in Replicas, NEW c \in Chats, ~ Busy(r, c)'
               PROVE  Quiet(r, c)'
    BY DEF QuietOK
  <2>1. CASE r = a /\ c = k
    <3>1. request[q].kind = "stream" /\ ~ Active(q)'
      BY <1>1, <2>1 DEF Busy, Begun
    <3>2. Active(q)  BY <1>1, <3>1 DEF Active
    <3>3. UNCHANGED subscriber /\ Quiet(r, c)
      BY <1>1, <2>1, <3>1, <3>2, StreamOwnStep
    <3>4. SameReplies(r, c)  BY <3>3 DEF SameReplies, subscriber
    <3> QED  BY <1>0, <3>3, <3>4, QuietKept
  <2>2. CASE r # a \/ c # k
    <3>1. ~ Busy(r, c)
      <4> SUFFICES ASSUME NEW o \in Requests, request[o].chat = c,
                          \/ Begun(request, o) /\ request[o].kind # "stream"
                          \/ Active(o) /\ request[o].at = r
                   PROVE  FALSE
        BY DEF Busy
      <4>1. CASE o # q  BY <1>1, <4>1 DEF Busy, Active, Begun
      <4>2. CASE o = q
        <5>1. request[q].kind # "stream"  BY <1>1, <2>2, <4>2
        <5> QED  BY <1>1, <4>2, <5>1 DEF Busy, Begun
      <4> QED  BY <4>1, <4>2
    <3> QED  BY <1>0, <1>3, <2>2, <3>1, QuietKept DEF QuietOK
  <2> QED  BY <2>1, <2>2
<1>5. BindsOK'
  <2>1. request[q].todo # {} => request[q].kind # "stream"  BY <1>0, <1>1 DEF Planned
  <2>2. \A b \in binds' : b \in binds \/ \E p \in Requests :
          Begun(request, p) /\ request[p].kind # "stream" /\ request[p].chat = b.chat
    BY <1>1, <2>1
  <2> QED  BY <1>0, <1>2, <2>2, BindsKept
<1>6. RepliesOK'
  <2>1. Waiting  BY <1>1 DEF Waiting
  <2>2. request[q].kind = "stream" => UNCHANGED subscriber \/ request'[q].pc = "await"
    BY <1>1, StreamOwnStep DEF Active
  <2> QED  BY <1>0, <1>1, <1>2, <2>1, <2>2, RepliesCommand
<1>7. Planned'
  <2>1. ASSUME NEW p \in Requests, Begun(request', p)
        PROVE  /\ [kind |-> request'[p].kind, chat |-> request'[p].chat, at |-> request'[p].at] \in Plans[p]
               /\ request'[p].kind = "stream" => request'[p].pc # "list" /\ request'[p].todo = {}
    <3>1. CASE p # q
      <4>1. request'[p] = request[p]  BY <1>1, <3>1
      <4> QED  BY <1>0, <2>1, <4>1 DEF Planned, Begun
    <3>2. CASE p = q
      <4>1. [kind |-> request[q].kind, chat |-> request[q].chat, at |-> request[q].at] \in Plans[q]
        BY <1>0, <1>1 DEF Planned
      <4>2. [kind |-> request'[q].kind, chat |-> request'[q].chat, at |-> request'[q].at] \in Plans[q]
        BY <1>1, <4>1
      <4>3. request'[q].kind = "stream" => request'[q].todo = {}
        BY <1>0, <1>1 DEF Planned
      <4> QED  BY <1>1, <3>2, <4>2, <4>3
    <3> QED  BY <3>1, <3>2
  <2> QED  BY <2>1 DEF Planned, Begun
<1>8. ASSUME NEW p \in Requests, Active(p)' PROVE StreamOK(p)'
  <2>1. CASE p = q
    <3>1. Active(q)  BY <1>1, <1>8, <2>1 DEF Active
    <3> QED  BY <1>8, <2>1, <3>1, StreamOwnStep
  <2>2. CASE p # q
    <3>1. Active(p) /\ StreamOK(p) /\ request'[p] = request[p]
      BY <1>0, <1>1, <1>8, <2>2 DEF Active, Begun, StreamsOK
    <3>2. request[p].at \in Replicas /\ request[p].chat \in Chats
      BY <1>0, <3>1 DEF Active, TypeInv, RequestsOK
    <3>3. Active(q) \/ (Begun(request, q) /\ request[q].kind # "stream")  BY <1>1 DEF Active
    <3>4. a # request[p].at \/ k # request[p].chat  BY <1>0, <1>1, <2>2, <3>1, <3>3, Apart
    <3>5. SameReplies(request[p].at, request[p].chat)  BY <1>3, <3>2, <3>4
    <3>6. clients'[request[p].at][request[p].chat] = clients[request[p].at][request[p].chat]
      <4>1. CASE UNCHANGED clients  BY <4>1
      <4>2. CASE AddClient(a, k, q) \/ RemoveClient(a, k)
        BY <1>0, <1>1, <3>2, <3>4, <4>2, OtherResponse
      <4> QED  BY <1>1, <4>1, <4>2
    <3> QED  BY <1>0, <3>1, <3>5, <3>6, StreamKept
  <2> QED  BY <2>1, <2>2
<1> QED  BY <1>4, <1>5, <1>6, <1>7, <1>8 DEF StreamsOK, StreamParts

(* A reply or a message is taken: the only reply about the channel of a    *)
(* stream is the one it awaits.                                            *)
LEMMA StreamTaken ==
  ASSUME StreamInv, NEW r \in Replicas, Take(r), NEW q \in Requests,
         request[q].kind = "stream", Head(inbox[r]).kind # "event", Head(inbox[r]).by = q
  PROVE  /\ Active(q) /\ StreamOK(q)'
         /\ \A s \in Replicas : \A i \in 1..Len(inbox'[s]) :
              inbox'[s][i].kind # "event" => inbox'[s][i].by # q
<1> DEFINE m == Head(inbox[r])
<1>0. TypeInv /\ StreamsOK /\ RepliesOK
  BY DEF StreamInv, ChannelInv
<1>1. inbox[r] # << >> /\ inbox' = [inbox EXCEPT ![r] = Tail(@)] /\ UNCHANGED clients
  BY DEF Take, TakeSubscribed, TakeUnsubscribed, TakeEvent, streamer
<1>2. /\ inbox \in [Replicas -> Seq(Message)] /\ subscribed \in [Replicas -> SUBSET Chats]
      /\ request \in [Requests -> RequestType]
  BY <1>0 DEF TypeInv, TypeOK, InboxOK, RequestsOK
<1>3. PICK s \in Seq(Message), t \in Seq(Message) :
        inbox[r] = s /\ inbox'[r] = t /\ t = Tail(s) /\ s # << >>
  <2>1. inbox[r] \in Seq(Message) /\ inbox'[r] = Tail(inbox[r])  BY <1>1, <1>2
  <2>2. Tail(inbox[r]) \in Seq(Message)  BY <1>1, <2>1
  <2> QED  BY <1>1, <2>1, <2>2
<1>4. /\ 1 \in 1..Len(s) /\ m = s[1]
      /\ \A h \in 1..Len(t) : h + 1 \in 1..Len(s) /\ t[h] = s[h + 1] /\ h + 1 # 1
  BY <1>3, Taken
<1>5. m \in Message /\ m.kind # "event" /\ m.by = q  BY <1>0, <1>1, InboxTail DEF TypeInv
<1> HIDE DEF m
<1>6. PICK k \in Chats : request[q].at = r /\ request[q].chat = k /\ m.chat = k
  <2>1. request[q].at = r /\ request[q].chat = m.chat
    BY <1>0, <1>3, <1>4, <1>5 DEF RepliesOK, Mail
  <2> QED  BY <1>5, <2>1 DEF Message
<1>7. request[q].pc = "await"  BY <1>0, <1>3, <1>4, <1>5 DEF RepliesOK, Mail
<1>8. Active(q) /\ clients[r][k] = q /\ OneReply(r, k, q)
  <2>1. Active(q)  BY <1>7 DEF Active, Begun
  <2> QED  BY <1>0, <1>6, <1>7, <2>1 DEF StreamsOK, StreamOK
<1>9. /\ m.kind = "subscribed" <=> k \notin subscribed[r]
      /\ \A j \in 1..Len(s) : j # 1 => ~ IsReply(s[j], k)
  <2>1. PICK i \in 1..Len(s) :
          /\ s[i].kind = "subscribed" <=> k \notin subscribed[r]
          /\ \A j \in 1..Len(s) : j # i => ~ IsReply(s[j], k)
    BY <1>3, <1>8 DEF OneReply, Mail
  <2>2. i = 1  BY <1>4, <1>5, <1>6, <2>1 DEF IsReply
  <2> QED  BY <1>4, <2>1, <2>2
<1>10. NoReplies(r, k)'  BY <1>3, <1>4, <1>9 DEF NoReplies, Mail
<1>11. \A pc : request' = Resumed(q, pc) =>
         request'[q].pc = pc /\ request'[q].at = r /\ request'[q].chat = k
  BY <1>2, <1>6 DEF Resumed, RequestType
<1>12. ASSUME NEW x \in Replicas, NEW i \in 1..Len(inbox'[x]),
              inbox'[x][i].kind # "event", inbox'[x][i].by = q
       PROVE  FALSE
  <2>1. CASE x = r
    <3>1. ~ IsReply(t[i], k)  BY <1>3, <1>10, <1>12, <2>1 DEF NoReplies, Mail
    <3>2. PICK j \in 1..Len(s) : t[i] = s[j]  BY <1>3, <1>4, <1>12, <2>1
    <3>3. s[j].kind # "event" /\ s[j].by = q  BY <1>3, <1>12, <2>1, <3>2
    <3>4. request[q].chat = s[j].chat  BY <1>0, <1>3, <3>3 DEF RepliesOK, Mail
    <3> QED  BY <1>6, <3>1, <3>2, <3>3, <3>4 DEF IsReply
  <2>2. CASE x # r
    <3>1. inbox'[x] = inbox[x]  BY <1>1, <1>2, <2>2
    <3>2. request[q].at = x  BY <1>0, <1>12, <3>1 DEF RepliesOK, Mail
    <3> QED  BY <1>6, <2>2, <3>2
  <2> QED  BY <2>1, <2>2
<1>13. CASE TakeSubscribed(r)
  <2>1. subscribed' = [subscribed EXCEPT ![r] = @ \cup {k}] /\ request' = Resumed(q, "bind")
    BY <1>5, <1>6, <1>13 DEF TakeSubscribed, m
  <2>2. k \in subscribed'[r]  BY <1>2, <2>1
  <2>3. request'[q].pc = "bind" /\ request'[q].at = r /\ request'[q].chat = k  BY <1>11, <2>1
  <2>4. clients'[request'[q].at][request'[q].chat] = q  BY <1>1, <1>8, <2>3
  <2>5. NoReplies(request[q].at, request[q].chat)'  BY <1>10, <2>3 DEF NoReplies, Mail
  <2> QED  BY <1>8, <1>12, <2>2, <2>3, <2>4, <2>5 DEF StreamOK, Quiet
<1>15. CASE TakeUnsubscribed(r)
  <2>1. subscribed' = [subscribed EXCEPT ![r] = @ \ {k}] /\ request' = Resumed(q, "close")
    BY <1>5, <1>6, <1>15 DEF TakeUnsubscribed, m
  <2>2. k \notin subscribed'[r]  BY <1>2, <2>1
  <2>3. request'[q].pc = "close" /\ request'[q].at = r /\ request'[q].chat = k  BY <1>11, <2>1
  <2>4. clients'[request'[q].at][request'[q].chat] = q  BY <1>1, <1>8, <2>3
  <2>5. NoReplies(request[q].at, request[q].chat)'  BY <1>10, <2>3 DEF NoReplies, Mail
  <2> QED  BY <1>8, <1>12, <2>2, <2>3, <2>4, <2>5 DEF StreamOK, Quiet
<1> QED  BY <1>5, <1>13, <1>15 DEF Take, TakeEvent, m

LEMMA StreamTake ==
  ASSUME StreamInv, NEW r \in Replicas, Take(r)
  PROVE  StreamParts'
<1> DEFINE m == Head(inbox[r])
<1>0. TypeInv /\ Planned /\ BindsOK /\ RepliesOK /\ QuietOK /\ StreamsOK
  BY DEF StreamInv, ChannelInv
<1>1. inbox[r] # << >> /\ inbox' = [inbox EXCEPT ![r] = Tail(@)] /\ UNCHANGED <<clients, binds>>
  BY DEF Take, TakeSubscribed, TakeUnsubscribed, TakeEvent, streamer, SafeWrite
<1>2. /\ inbox \in [Replicas -> Seq(Message)] /\ subscribed \in [Replicas -> SUBSET Chats]
      /\ request \in [Requests -> RequestType]
  BY <1>0 DEF TypeInv, TypeOK, InboxOK, RequestsOK
<1>3. m \in Message /\ (m.by \in Requests => Begun(request, m.by))
  BY <1>0, <1>1, InboxTail DEF TypeInv
<1>4. inbox'[r] = Tail(inbox[r]) /\ \A s \in Replicas : s # r => inbox'[s] = inbox[s]
  BY <1>1, <1>2
<1>5. /\ \/ m.kind = "event" /\ UNCHANGED <<subscribed, request>>
         \/ /\ m.kind # "event"
            /\ request' = Resumed(m.by, "bind") \/ request' = Resumed(m.by, "close")
            /\ \/ subscribed' = [subscribed EXCEPT ![r] = @ \cup {m.chat}]
               \/ subscribed' = [subscribed EXCEPT ![r] = @ \ {m.chat}]
  BY DEF Take, TakeSubscribed, TakeUnsubscribed, TakeEvent
<1> HIDE DEF m
<1>6. /\ \A p \in Requests : m.kind = "event" \/ m.by # p => request'[p] = request[p]
      /\ \A p \in Requests : /\ request'[p] = request[p] \/ request'[p].pc \in {"bind", "close"}
                             /\ request'[p].kind = request[p].kind /\ request'[p].todo = request[p].todo
                             /\ request'[p].chat = request[p].chat /\ request'[p].at = request[p].at
  <2>1. CASE m.kind = "event" \/ m.by \notin Requests  BY <1>5, <2>1 DEF Resumed
  <2>2. ASSUME m.by \in Requests, NEW pc \in {"bind", "close"}, request' = Resumed(m.by, pc)
        PROVE  /\ request'[m.by].pc = pc /\ request'[m.by].kind = request[m.by].kind
               /\ request'[m.by].todo = request[m.by].todo /\ request'[m.by].at = request[m.by].at
               /\ request'[m.by].chat = request[m.by].chat
               /\ \A p \in Requests : p # m.by => request'[p] = request[p]
    <3>1. request' = [request EXCEPT ![m.by].pc = pc]  BY <2>2 DEF Resumed
    <3>2. request[m.by] \in RequestType  BY <1>2, <2>2
    <3> QED  BY <1>2, <2>2, <3>1, <3>2 DEF RequestType
  <2>3. CASE m.kind # "event" /\ m.by \in Requests  BY <1>5, <2>2, <2>3
  <2> QED  BY <2>1, <2>3
<1>7. Carried  BY <1>6 DEF Carried, Begun
<1>8. ASSUME NEW s \in Replicas, NEW c \in Chats, s # r \/ ~ IsReply(m, c) PROVE SameReplies(s, c)
  <2>1. m.kind = "event" \/ m.chat \in Chats  BY <1>3 DEF Message
  <2>2. c \in subscribed'[s] <=> c \in subscribed[s]
    BY <1>2, <1>5, <1>8, <2>1 DEF IsReply
  <2>3. CASE s # r  BY <1>4, <2>2, <2>3 DEF SameReplies
  <2>4. CASE s = r /\ ~ IsReply(m, c)  BY <1>1, <1>4, <2>2, <2>4 DEF SameReplies, m
  <2> QED  BY <1>8, <2>3, <2>4
<1>9. 1 \in 1..Len(inbox[r]) /\ m = inbox[r][1]
      /\ \A h \in 1..Len(inbox'[r]) : h + 1 \in 1..Len(inbox[r]) /\ inbox'[r][h] = inbox[r][h + 1]
  <2>1. PICK s \in Seq(Message) : inbox[r] = s /\ inbox'[r] = Tail(s) /\ s # << >>
    BY <1>1, <1>2, <1>4
  <2> DEFINE t == Tail(s)
  <2>2. /\ 1 \in 1..Len(s) /\ Head(s) = s[1]
        /\ \A h \in 1..Len(t) : h + 1 \in 1..Len(s) /\ t[h] = s[h + 1]
    BY <2>1, Taken
  <2>3. inbox'[r] = t  BY <2>1
  <2> HIDE DEF t
  <2> QED  BY <2>1, <2>2, <2>3 DEF m
<1>10. BindsOK'  BY <1>0, <1>1, <1>7, BindsKept
<1>11. RepliesOK'
  <2> SUFFICES ASSUME NEW s \in Replicas, NEW i \in 1..Len(inbox'[s]), NEW q \in Requests,
                      inbox'[s][i].kind # "event", inbox'[s][i].by = q
               PROVE  /\ request'[q].at = s /\ request'[q].chat = inbox'[s][i].chat
                      /\ request'[q].kind = "stream" => request'[q].pc = "await"
    BY DEF RepliesOK, Mail
  <2>1. PICK j \in 1..Len(inbox[s]) : inbox'[s][i] = inbox[s][j]  BY <1>4, <1>9
  <2>2. /\ request[q].at = s /\ request[q].chat = inbox'[s][i].chat
        /\ request[q].kind = "stream" => request[q].pc = "await"
    BY <1>0, <2>1 DEF RepliesOK, Mail
  <2>3. request[q].kind = "stream" => m.kind = "event" \/ m.by # q
    <3> SUFFICES ASSUME request[q].kind = "stream", m.kind # "event", m.by = q PROVE FALSE
      OBVIOUS
    <3>1. inbox'[s][i].kind # "event" => inbox'[s][i].by # q  BY StreamTaken DEF m
    <3> QED  BY <3>1
  <2> QED  BY <1>6, <2>2, <2>3
<1>12. QuietOK'
  <2> SUFFICES ASSUME NEW s \in Replicas, NEW c \in Chats, ~ Busy(s, c)'
               PROVE  Quiet(s, c)'
    BY DEF QuietOK
  <2>1. CASE Busy(s, c)
    <3>1. PICK o \in Requests : /\ request[o].chat = c
                                /\ \/ Begun(request, o) /\ request[o].kind # "stream"
                                   \/ Active(o) /\ request[o].at = s
      BY <2>1 DEF Busy
    <3>2. request'[o].pc \in {request[o].pc, "bind", "close"}  BY <1>6
    <3> QED  BY <1>6, <3>1, <3>2 DEF Busy, Active, Begun
  <2>2. CASE ~ Busy(s, c)
    <3>1. Quiet(s, c)  BY <1>0, <2>2 DEF QuietOK
    <3>2. s # r \/ ~ IsReply(m, c)  BY <1>9, <3>1 DEF Quiet, NoReplies, Mail
    <3> QED  BY <1>0, <1>8, <3>1, <3>2, QuietKept
  <2> QED  BY <2>1, <2>2
<1>13. Planned'
  <2>1. ASSUME NEW p \in Requests, Begun(request', p) PROVE Begun(request, p)
    <3>1. request'[p] # request[p] => m.by = p  BY <1>6
    <3> QED  BY <1>3, <2>1, <3>1 DEF Begun
  <2>2. ASSUME NEW p \in Requests, Begun(request', p)
        PROVE  /\ [kind |-> request'[p].kind, chat |-> request'[p].chat, at |-> request'[p].at] \in Plans[p]
               /\ request'[p].kind = "stream" => request'[p].pc # "list" /\ request'[p].todo = {}
    <3>1. /\ [kind |-> request[p].kind, chat |-> request[p].chat, at |-> request[p].at] \in Plans[p]
          /\ request[p].kind = "stream" => request[p].pc # "list" /\ request[p].todo = {}
      BY <1>0, <2>1, <2>2 DEF Planned
    <3>2. [kind |-> request'[p].kind, chat |-> request'[p].chat, at |-> request'[p].at] \in Plans[p]
      BY <1>6, <3>1
    <3>3. request'[p].pc = request[p].pc \/ request'[p].pc \in {"bind", "close"}  BY <1>6
    <3> QED  BY <1>6, <3>1, <3>2, <3>3
  <2> QED  BY <2>2 DEF Planned
<1>14. ASSUME NEW p \in Requests, Active(p)' PROVE StreamOK(p)'
  <2>1. CASE m.kind # "event" /\ m.by = p
    <3>1. request[p].kind = "stream"  BY <1>6, <1>14 DEF Active
    <3> QED  BY <2>1, <3>1, StreamTaken DEF m
  <2>2. CASE m.kind = "event" \/ m.by # p
    <3>1. request'[p] = request[p] /\ Active(p) /\ StreamOK(p)
      BY <1>0, <1>6, <1>14, <2>2 DEF Active, Begun, StreamsOK
    <3>2. PICK s \in Replicas, c \in Chats : request[p].at = s /\ request[p].chat = c
      BY <1>0, <3>1 DEF Active, TypeInv, RequestsOK
    <3>3. s = r => ~ IsReply(m, c)
      <4> SUFFICES ASSUME s = r, IsReply(m, c) PROVE FALSE
        OBVIOUS
      <4>1. ~ NoReplies(s, c)  BY <1>9 DEF NoReplies, Mail
      <4>2. request[p].pc \in {"new", "list", "subscribe", "bind", "await", "run", "close", "done"}
        BY <1>2 DEF RequestType
      <4>3. request[p].pc \notin {"new", "list", "done"}
        BY <1>0, <3>1 DEF Active, Begun, Planned
      <4>4. OneReply(s, c, p)  BY <3>1, <3>2, <4>1, <4>2, <4>3 DEF StreamOK, Quiet
      <4>5. m.by = p  BY <1>9, <4>4 DEF OneReply, Mail
      <4> QED  BY <2>2, <4>5 DEF IsReply
    <3>4. SameReplies(s, c)  BY <1>8, <3>3
    <3> QED  BY <1>0, <1>1, <3>1, <3>2, <3>4, StreamKept
  <2> QED  BY <2>1, <2>2
<1> QED  BY <1>10, <1>11, <1>12, <1>13, <1>14 DEF StreamsOK, StreamParts

(* A step in which no stream takes part: no command, or one that no        *)
(* request awaits, about a channel that no stream of the replica has.      *)
LEMMA StreamAside ==
  ASSUME StreamInv, UNCHANGED request, binds' \subseteq binds,
         \A r \in Replicas, k \in Chats : clients'[r][k] = clients[r][k],
         \/ UNCHANGED subscriber
         \/ \E r \in Replicas, k \in Chats :
              /\ Subscribe(r, k, Nobody) \/ Unsubscribe(r, k, Nobody)
              /\ Busy(r, k)
              /\ \A p \in Requests : Active(p) => request[p].at # r \/ request[p].chat # k
  PROVE  StreamParts'
<1>0. TypeInv /\ Planned /\ BindsOK /\ RepliesOK /\ QuietOK /\ StreamsOK
  BY DEF StreamInv, ChannelInv
<1>1. Carried /\ Waiting  BY DEF Carried, Begun, Waiting
<1>2. ASSUME NEW s \in Replicas, NEW c \in Chats,
             ~ Busy(s, c) \/ \E p \in Requests : Active(p) /\ request[p].at = s /\ request[p].chat = c
      PROVE  SameReplies(s, c)
  <2>1. CASE UNCHANGED subscriber  BY <2>1 DEF subscriber, SameReplies
  <2>2. ASSUME NEW r \in Replicas, NEW k \in Chats,
               Subscribe(r, k, Nobody) \/ Unsubscribe(r, k, Nobody), Busy(r, k),
               \A p \in Requests : Active(p) => request[p].at # r \/ request[p].chat # k
        PROVE  SameReplies(s, c)
    <3>1. s # r \/ c # k  BY <1>2, <2>2
    <3> QED  BY <1>0, <2>2, <3>1, OtherChannel
  <2> QED  BY <2>1, <2>2
<1>3. QuietOK'
  <2> SUFFICES ASSUME NEW s \in Replicas, NEW c \in Chats, ~ Busy(s, c)' PROVE Quiet(s, c)'
    BY DEF QuietOK
  <2>1. ~ Busy(s, c)  BY DEF Busy, Active, Begun
  <2> QED  BY <1>0, <1>2, <2>1, QuietKept DEF QuietOK
<1>4. BindsOK'  BY <1>0, <1>1, BindsKept
<1>5. RepliesOK'
  <2>1. Nobody \notin Requests  BY RelayAssumption
  <2>2. CASE UNCHANGED subscriber  BY <1>0, <1>1, <2>2, RepliesAreKept DEF subscriber
  <2> QED  BY <1>0, <1>1, <2>1, <2>2, RepliesCommand
<1>6. Planned'  BY <1>0 DEF Planned, Begun
<1>7. ASSUME NEW p \in Requests, Active(p)' PROVE StreamOK(p)'
  <2>1. Active(p) /\ StreamOK(p)  BY <1>0, <1>7 DEF Active, Begun, StreamsOK
  <2>2. request[p].at \in Replicas /\ request[p].chat \in Chats
    BY <1>0, <2>1 DEF Active, TypeInv, RequestsOK
  <2>3. SameReplies(request[p].at, request[p].chat)  BY <1>2, <2>1, <2>2
  <2> QED  BY <1>0, <2>1, <2>2, <2>3, StreamKept
<1> QED  BY <1>3, <1>4, <1>5, <1>6, <1>7 DEF StreamsOK, StreamParts

LEMMA StreamSweep ==
  ASSUME StreamInv, NEW r \in Replicas, NEW k \in Chats, Sweep(r, k)
  PROVE  StreamParts'
<1>0. StreamsOK /\ QuietOK  BY DEF StreamInv
<1>1. /\ k \in subscribed[r] /\ clients[r][k] = Nobody /\ Unsubscribe(r, k, Nobody)
      /\ UNCHANGED <<clients, request, binds>>
  BY DEF Sweep, HasClient, streamer
<1>2. Busy(r, k)  BY <1>0, <1>1 DEF QuietOK, Quiet
<1>3. \A p \in Requests : Active(p) => request[p].at # r \/ request[p].chat # k
  BY <1>0, <1>1, RelayAssumption DEF StreamsOK, StreamOK
<1> QED  BY <1>1, <1>2, <1>3, StreamAside

LEMMA StreamTakeBind ==
  ASSUME OwnChats, NoOverlap, StreamInv, NEW b \in binds, TakeBind(b)
  PROVE  StreamParts'
<1>0. TypeInv /\ Planned /\ BindsOK  BY DEF StreamInv, ChannelInv
<1>1. b.to \in Replicas /\ b.chat \in Chats  BY <1>0 DEF TypeInv, TypeOK
<1>2. /\ Subscribe(b.to, b.chat, Nobody) \/ UNCHANGED subscriber
      /\ UNCHANGED <<clients, request>> /\ binds' \subseteq binds
  BY DEF TakeBind
<1>3. PICK q \in Requests :
        Begun(request, q) /\ request[q].kind # "stream" /\ request[q].chat = b.chat
  BY <1>0 DEF BindsOK
<1>4. Busy(b.to, b.chat)  BY <1>3 DEF Busy
<1>5. ASSUME NEW p \in Requests, Active(p) PROVE request[p].chat # b.chat
  <2>1. p # q /\ ~ Active(q)  BY <1>3, <1>5 DEF Active
  <2> QED  BY <1>0, <1>3, <1>5, <2>1, Apart
<1> QED  BY <1>1, <1>2, <1>4, <1>5, StreamAside

LEMMA StreamEmit ==
  ASSUME StreamInv, NEW q \in Requests, Emit(q)
  PROVE  StreamParts'
<1>0. TypeInv /\ Planned /\ BindsOK /\ RepliesOK /\ QuietOK /\ StreamsOK
  BY DEF StreamInv, ChannelInv
<1>1. PICK m : /\ m = [kind |-> "event", chat |-> request[q].chat, by |-> q, n |-> emitted[q] + 1]
               /\ \A r \in Replicas : inbox'[r] = inbox[r] \/ inbox'[r] = Append(inbox[r], m)
  BY DEF Emit
<1>2. UNCHANGED <<clients, subscribed, binds, request>>  BY DEF Emit, streamer
<1>3. m \in Message /\ m.kind = "event"
  <2>1. emitted[q] \in Nat  BY <1>0, RelayAssumption DEF TypeInv, TypeOK
  <2>2. request[q].chat \in Chats  BY <1>0 DEF Emit, Begun, TypeInv, RequestsOK
  <2> QED  BY <1>1, <2>1, <2>2 DEF Message
<1>4. \A r \in Replicas, k \in Chats : SameReplies(r, k)
  BY <1>1, <1>2, <1>3 DEF SameReplies, IsReply
<1>5. Carried /\ Waiting  BY <1>2 DEF Carried, Begun, Waiting
<1>6. QuietOK' /\ BindsOK'
  <2>1. BindsOK'  BY <1>0, <1>2, <1>5, BindsKept
  <2>2. ASSUME NEW r \in Replicas, NEW k \in Chats, ~ Busy(r, k)' PROVE Quiet(r, k)'
    <3>1. ~ Busy(r, k)  BY <1>2, <2>2 DEF Busy, Active, Begun
    <3> QED  BY <1>0, <1>4, <3>1, QuietKept DEF QuietOK
  <2> QED  BY <2>1, <2>2 DEF QuietOK
<1>7. RepliesOK'
  <2> SUFFICES ASSUME NEW r \in Replicas, NEW i \in 1..Len(inbox'[r])
               PROVE  \/ \E j \in 1..Len(inbox[r]) : inbox'[r][i] = inbox[r][j]
                      \/ inbox'[r][i].kind = "event"
    BY <1>0, <1>5, RepliesAreKept
  <2>1. CASE inbox'[r] = inbox[r]  BY <2>1
  <2>2. CASE inbox'[r] = Append(inbox[r], m)
    <3>1. inbox[r] \in Seq(Message)  BY <1>0 DEF TypeInv, InboxOK
    <3>2. i \in 1..Len(inbox[r]) \/ inbox'[r][i] = m  BY <1>3, <2>2, <3>1, Appended
    <3>3. i \in 1..Len(inbox[r]) => inbox'[r][i] = inbox[r][i]  BY <1>3, <2>2, <3>1, Appended
    <3> QED  BY <1>3, <3>2, <3>3
  <2> QED  BY <1>1, <2>1, <2>2
<1>8. Planned'  BY <1>0, <1>2 DEF Planned, Begun
<1>9. ASSUME NEW p \in Requests, Active(p)' PROVE StreamOK(p)'
  <2>1. Active(p) /\ StreamOK(p)  BY <1>0, <1>2, <1>9 DEF Active, Begun, StreamsOK
  <2>2. request[p].at \in Replicas /\ request[p].chat \in Chats
    BY <1>0, <2>1 DEF Active, TypeInv, RequestsOK
  <2> QED  BY <1>0, <1>2, <1>4, <2>1, <2>2, StreamKept
<1> QED  BY <1>6, <1>7, <1>8, <1>9 DEF StreamsOK, StreamParts

LEMMA PanelResponse ==
  ASSUME StreamInv, NEW l \in Listeners,
         \/ \E r \in Replicas : Open(l, r)
         \/ Heartbeat(l) \/ Vanish(l) \/ Unregister(l) \/ Close(l) \/ Leave(l)
  PROVE  /\ UNCHANGED <<subscriber, binds, request>>
         /\ \A r \in Replicas, k \in Chats : clients'[r][k] = clients[r][k]
<1>0. TypeInv  BY DEF StreamInv, ChannelInv
<1>1. UNCHANGED <<subscriber, binds, request>>
  BY DEF Open, Heartbeat, Vanish, Unregister, Close, Leave
<1>2. ASSUME NEW r \in Replicas, AddClient(r, l, l) \/ RemoveClient(r, l)
      PROVE  \A s \in Replicas, k \in Chats : clients'[s][k] = clients[s][k]
  BY <1>0, <1>2, RelayAssumption, OtherResponse
<1>3. CASE Close(l)
  <2>1. panel[l].at \in Replicas  BY <1>0, <1>3 DEF Close, TypeInv, PanelsOK
  <2> QED  BY <1>1, <1>2, <1>3, <2>1 DEF Close
<1>4. CASE Heartbeat(l) \/ Vanish(l) \/ Unregister(l) \/ Leave(l)
  BY <1>1, <1>4 DEF Heartbeat, Vanish, Unregister, Leave, streamer
<1>5. ASSUME NEW r \in Replicas, Open(l, r)
      PROVE  \A s \in Replicas, k \in Chats : clients'[s][k] = clients[s][k]
  BY <1>2, <1>5 DEF Open
<1> QED  BY <1>1, <1>3, <1>4, <1>5

LEMMA StreamNext ==
  OwnChats /\ NoOverlap /\ NoOverlap' /\ StreamInv /\ [Next]_vars => StreamInv'
<1> SUFFICES ASSUME OwnChats, NoOverlap, NoOverlap', StreamInv, [Next]_vars
             PROVE  StreamParts'
  BY ChannelNext DEF StreamInv, StreamParts
<1>1. CASE UNCHANGED vars
  <2>1. UNCHANGED <<subscriber, binds, request, clients>>  BY <1>1 DEF vars, subscriber
  <2> QED  BY <2>1, StreamAside
<1>2. ASSUME NEW q \in Requests, Begin(q) \/ RequestStep(q) \/ Emit(q)
      PROVE  StreamParts'
  BY <1>2, StreamBegin, StreamStep, StreamEmit
<1>3. ASSUME NEW r \in Replicas, Take(r) \/ \E k \in Chats : Sweep(r, k)
      PROVE  StreamParts'
  BY <1>3, StreamTake, StreamSweep
<1>4. ASSUME NEW l \in Listeners,
             \/ \E r \in Replicas : Open(l, r)
             \/ Heartbeat(l) \/ Vanish(l) \/ Unregister(l) \/ Close(l) \/ Leave(l)
      PROVE  StreamParts'
  BY <1>4, PanelResponse, StreamAside
<1>5. CASE TakeSomeBind  BY <1>5, StreamTakeBind DEF TakeSomeBind
<1> QED  BY <1>1, <1>2, <1>3, <1>4, <1>5 DEF Next

(* While a flow runs for a streaming response, the replica that holds it   *)
(* listens to the channel the worker publishes to: whatever panels come    *)
(* and go, and whenever the clean-up is run, if two streaming predictions  *)
(* of one chat are not under way on one replica at the same time (the      *)
(* first to end would take the channel from the other).                    *)
THEOREM StreamsAreHeard ==
  ASSUME OwnChats
  PROVE  Spec /\ []NoOverlap => []PredictionsAreHeard
<1>1. Init => StreamInv  BY StreamInit
<1>2. NoOverlap /\ NoOverlap' /\ StreamInv /\ [Next]_vars => StreamInv'  BY StreamNext
<1>3. StreamInv => PredictionsAreHeard
  <2> SUFFICES ASSUME StreamInv, NEW q \in Requests,
                      request[q].kind = "stream", request[q].pc = "run"
               PROVE  /\ request[q].chat \in channels[request[q].at]
                      /\ handlers[request[q].at][request[q].chat] > 0
    BY DEF PredictionsAreHeard, Listens
  <2>1. Active(q)  BY DEF Active, Begun
  <2>2. PICK r \in Replicas, k \in Chats : request[q].at = r /\ request[q].chat = k
    BY <2>1 DEF StreamInv, ChannelInv, Active, TypeInv, RequestsOK
  <2>3. k \in subscribed[r] /\ NoReplies(r, k)
    BY <2>1, <2>2 DEF StreamInv, StreamsOK, StreamOK
  <2>4. Outcome(inbox[r], k, subscribed[r])  BY <2>3 DEF Outcome, NoReplies, Mail
  <2>5. AgreesOn(r, k)  BY DEF StreamInv, ChannelInv
  <2> QED  BY <2>2, <2>3, <2>4, <2>5 DEF AgreesOn
<1> QED  BY <1>1, <1>2, <1>3, PTL DEF Spec

-----------------------------------------------------------------------------
(***************************************************************************)
(* Events in order and without a gap (HeardWithoutGap).  MailInv: behind a *)
(* mailbox, events of a request are numbered without a gap and the reply   *)
(* that ends a subscription comes last.  ResponseInv: a streamed response  *)
(* is bound on its own replica while its request runs.  GapInv: whoever    *)
(* still listens to a request finds its next event in the mailbox, or the  *)
(* replica no longer subscribes and no event of it comes any more; unless  *)
(* the clean-up was taking the channel away when somebody began to listen. *)
(***************************************************************************)

(* Where the clean-up's unsubscription is on its way nobody listens, or it *)
(* is on record that somebody began to.                                    *)
LapsesNoted ==
  \A r \in Replicas, k \in Chats :
    BeingSwept(r, k) => Reached(r, k) = {} \/ <<r, k>> \in lapsed

IsEventOf(m, q) == m.kind = "event" /\ m.by = q

(* The next event of q behind place i of s is number n + 1, or there is    *)
(* none and no more will come.                                             *)
Continued(s, q, i, n, over) ==
  \/ \E j \in 1..Len(s) :
       /\ j > i /\ IsEventOf(s[j], q) /\ s[j].n = n + 1
       /\ \A h \in 1..Len(s) : h > i /\ h < j => ~ IsEventOf(s[h], q)
  \/ over /\ \A j \in 1..Len(s) : j > i => ~ IsEventOf(s[j], q)

Ends(r, q, n) == request[q].chat \notin channels[r] \/ emitted[q] = n

(* Nothing about a channel comes behind the reply of its unsubscription.   *)
UnsubscribedLast ==
  \A r \in Replicas : \A i \in Mail(r) :
    LET m == inbox[r][i]
    IN  m.kind = "unsubscribed" =>
          /\ m.chat \in subscribed[r]
          /\ \A j \in Mail(r) : j > i => inbox[r][j].chat # m.chat
          /\ m = Reply("unsubscribed", m.chat, m.by)
          /\ m.by \in Requests => request[m.by].kind = "stream"

(* An event on its way is followed by the next of its run, as long as the  *)
(* replica is subscribed.                                                  *)
EventOK(r, i, q, c, n) ==
  /\ q \in Requests /\ Begun(request, q) /\ c = request[q].chat
  /\ \/ c \in channels[r]
     \/ \E j \in Mail(r) : j > i /\ inbox[r][j].kind = "unsubscribed" /\ inbox[r][j].chat = c
  /\ Continued(inbox[r], q, i, n, Ends(r, q, n))

EventsOK ==
  \A r \in Replicas : \A i \in Mail(r) :
    LET m == inbox[r][i] IN m.kind = "event" => EventOK(r, i, m.by, m.chat, m.n)

(* One reply at most is on its way for a request, which awaits it. *)
IsReplyTo(m, q) == m.kind # "event" /\ m.by = q

RepliesAwaited ==
  \A r \in Replicas, q \in Requests : \A i \in Mail(r) : IsReplyTo(inbox[r][i], q) =>
    /\ request[q].pc = "await"
    /\ \A j \in Mail(r) : IsReplyTo(inbox[r][j], q) => j = i

Counted == emitted \in [Requests -> Nat]

MailInv == UnsubscribedLast /\ EventsOK /\ RepliesAwaited /\ Counted

(* A request whose response has been opened. *)
Opened(q) ==
  \/ Begun(request, q) /\ request[q].kind = "stream"
  \/ request[q].kind = "webhookStream" /\ request[q].pc \in {"run", "done"}

Note == [of : Requests \cup Chats, n : Nat]

HeardOK ==
  /\ heard \in [Listeners \cup Requests -> Seq(Note)]
  /\ \A x \in Listeners \cup Requests : \A i \in 1..Len(heard[x]) :
       heard[x][i].of \in Requests => Begun(request, heard[x][i].of)

PlacesOK ==
  /\ \A r \in Replicas, l \in Listeners :
       clients[r][l] # Nobody => clients[r][l] = l /\ panel[l].pc # "off" /\ panel[l].at = r
  /\ \A r \in Replicas, k \in Chats : clients[r][k] \in Requests \cup {Nobody}
  /\ \A r \in Replicas, k \in Chats, q \in Requests :
       clients[r][k] = q => Opened(q) /\ request[q].at = r /\ request[q].chat = k
  /\ \A l \in Listeners : panel[l].pc = "off" => heard[l] = << >>
  /\ \A q \in Requests : ~ Opened(q) => heard[q] = << >>
  /\ \A r \in Replicas, k \in Chats : observers[r][k] # {} =>
       \E q \in Requests : Begun(request, q) /\ request[q].kind # "stream" /\ request[q].chat = k

ResponseInv == HeardOK /\ PlacesOK

(* The last that s tells of q is event n, and no end of the chat since.    *)
Latest(s, q, k, n) ==
  \E i \in 1..Len(s) :
    /\ s[i].of = q /\ s[i].n = n
    /\ \A j \in 1..Len(s) : j > i => s[j].of \notin {q, k}

Gapless(s, q, k) ==
  \A a \in 1..Len(s), b \in 1..Len(s) :
    /\ a < b /\ s[a].of = q /\ s[b].of = q
    /\ \A i \in 1..Len(s) : a < i /\ i < b => s[i].of \notin {q, k}
    => s[b].n = s[a].n \/ s[b].n = s[a].n + 1

Secure(r, k) ==
  \/ k \in subscribed[r]
  \/ \E s \in Requests : Active(s) /\ request[s].at = r /\ request[s].chat = k /\ request[s].pc = "close"

Good(r, q, n) ==
  Secure(r, request[q].chat) /\ Continued(inbox[r], q, 0, n, Ends(r, q, n))

OpenOK ==
  \A x \in Listeners \cup Requests, q \in Requests, n \in Nat :
    Latest(heard[x], q, request[q].chat, n) =>
      /\ \A r \in Replicas : x \in Listeners /\ clients[r][x] = x => x \in observers[r][request[q].chat]
      /\ \A r \in Replicas : x \in Reached(r, request[q].chat) =>
           <<r, request[q].chat>> \in lapsed \/ Good(r, q, n)

NoGaps ==
  \A x \in Listeners \cup Requests, q \in Requests :
    <<PlaceOf(x), request[q].chat>> \notin lapsed => Gapless(heard[x], q, request[q].chat)

GapInv == StreamInv /\ MailInv /\ ResponseInv /\ LapsesNoted /\ OpenOK /\ NoGaps

(* A message comes: the event that was awaited, or no event of q.          *)
LEMMA ContinuedAppend ==
  ASSUME NEW s \in Seq(Message), NEW m \in Message, NEW q, NEW i \in Nat, i <= Len(s),
         NEW n, NEW over \in BOOLEAN, NEW still \in BOOLEAN, Continued(s, q, i, n, over),
         \/ ~ IsEventOf(m, q) /\ (over => still)
         \/ IsEventOf(m, q) /\ (over => m.n = n + 1)
  PROVE  Continued(Append(s, m), q, i, n, still)
<1> DEFINE t == Append(s, m)
           e == Len(s) + 1
<1>1. /\ Len(s) \in Nat /\ Len(t) = e /\ t[e] = m /\ \A j \in 1..Len(s) : t[j] = s[j]
      /\ e \in 1..Len(t) /\ e > i /\ 1..Len(s) \subseteq 1..Len(t)
      /\ \A j \in 1..Len(t) : j = e \/ j \in 1..Len(s)
      /\ \A j \in 1..Len(s) : j < e
  OBVIOUS
<1>2. \A j \in 1..Len(s), h \in 1..Len(t) : h < j => h \in 1..Len(s)  BY <1>1
<1> HIDE DEF t, e
<1>3. ASSUME NEW j \in 1..Len(s), j > i, IsEventOf(s[j], q), s[j].n = n + 1,
             \A h \in 1..Len(s) : h > i /\ h < j => ~ IsEventOf(s[h], q)
      PROVE  Continued(t, q, i, n, still)
  <2>1. j \in 1..Len(t) /\ t[j] = s[j]  BY <1>1
  <2>2. \A h \in 1..Len(t) : h > i /\ h < j => ~ IsEventOf(t[h], q)  BY <1>1, <1>2, <1>3
  <2> QED  BY <1>3, <2>1, <2>2 DEF Continued
<1>4. CASE over /\ \A j \in 1..Len(s) : j > i => ~ IsEventOf(s[j], q)
  <2>1. CASE IsEventOf(m, q)
    <3>1. \A h \in 1..Len(t) : h > i /\ h < e => ~ IsEventOf(t[h], q)
      <4>1. \A h \in 1..Len(t) : h < e => h # e
        <5>1. e \in Nat  BY <1>1 DEF e
        <5> QED  BY <5>1
      <4> QED  BY <1>1, <1>4, <4>1
    <3> QED  BY <1>1, <1>4, <2>1, <3>1 DEF Continued
  <2>2. CASE ~ IsEventOf(m, q)
    <3>1. \A j \in 1..Len(t) : j > i => ~ IsEventOf(t[j], q)  BY <1>1, <1>4, <2>2
    <3> QED  BY <1>4, <2>2, <3>1 DEF Continued
  <2> QED  BY <2>1, <2>2
<1> QED  BY <1>3, <1>4 DEF Continued, t

(* What becomes of it when the first message is taken. *)
LEMMA ContinuedTail ==
  ASSUME NEW s \in Seq(Message), s # << >>, NEW q, NEW i \in Nat, NEW n,
         NEW over \in BOOLEAN, NEW still \in BOOLEAN, over => still,
         Continued(s, q, i + 1, n, over)
  PROVE  Continued(Tail(s), q, i, n, still)
<1> DEFINE t == Tail(s)
<1>1. /\ \A h \in 1..Len(t) : h + 1 \in 1..Len(s) /\ t[h] = s[h + 1]
      /\ \A j \in 1..Len(s) : j # 1 => \E h \in 1..Len(t) : j = h + 1 /\ t[h] = s[j]
  <2> HIDE DEF t
  <2> QED  BY Taken DEF t
<1>2. \A h \in 1..Len(t) : h \in Int  OBVIOUS
<1>3. \A j \in 1..Len(s) : j > i + 1 => j # 1  OBVIOUS
<1> HIDE DEF t
<1>4. ASSUME NEW j \in 1..Len(s), j > i + 1, IsEventOf(s[j], q), s[j].n = n + 1,
             \A h \in 1..Len(s) : h > i + 1 /\ h < j => ~ IsEventOf(s[h], q)
      PROVE  Continued(t, q, i, n, still)
  <2>1. PICK g \in 1..Len(t) : j = g + 1 /\ t[g] = s[j]  BY <1>1, <1>3, <1>4
  <2>2. g > i  BY <1>2, <1>4, <2>1
  <2>3. \A h \in 1..Len(t) : h > i /\ h < g => ~ IsEventOf(t[h], q)
    <3> SUFFICES ASSUME NEW h \in 1..Len(t), h > i, h < g PROVE ~ IsEventOf(t[h], q)
      OBVIOUS
    <3>1. h + 1 > i + 1 /\ h + 1 < j  BY <1>2, <2>1
    <3> QED  BY <1>1, <1>4, <3>1
  <2> QED  BY <1>4, <2>1, <2>2, <2>3 DEF Continued
<1>5. CASE over /\ \A j \in 1..Len(s) : j > i + 1 => ~ IsEventOf(s[j], q)
  <2>1. \A h \in 1..Len(t) : h > i => ~ IsEventOf(t[h], q)
    <3> SUFFICES ASSUME NEW h \in 1..Len(t), h > i PROVE ~ IsEventOf(t[h], q)
      OBVIOUS
    <3>1. h + 1 > i + 1  BY <1>2
    <3> QED  BY <1>1, <1>5, <3>1
  <2> QED  BY <1>5, <2>1 DEF Continued
<1> QED  BY <1>4, <1>5 DEF Continued, t

(* The first message is the next event, or the next one is behind it. *)
LEMMA ContinuedHead ==
  ASSUME NEW s \in Seq(Message), s # << >>, NEW q, NEW n, NEW over \in BOOLEAN,
         Continued(s, q, 0, n, over)
  PROVE  /\ IsEventOf(Head(s), q) => Head(s).n = n + 1
         /\ ~ IsEventOf(Head(s), q) => Continued(s, q, 0 + 1, n, over)
<1>1. 1 \in 1..Len(s) /\ Head(s) = s[1] /\ 1 > 0 /\ Len(s) \in Nat
  BY Taken
<1>2. ASSUME IsEventOf(Head(s), q) PROVE Head(s).n = n + 1
  <2>1. PICK j \in 1..Len(s) :
          /\ j > 0 /\ IsEventOf(s[j], q) /\ s[j].n = n + 1
          /\ \A h \in 1..Len(s) : h > 0 /\ h < j => ~ IsEventOf(s[h], q)
    BY <1>1, <1>2 DEF Continued
  <2>2. ~ 1 < j  BY <1>1, <1>2, <2>1
  <2>3. j = 1  BY <2>2
  <2> QED  BY <1>1, <2>1, <2>3
<1>3. ASSUME ~ IsEventOf(Head(s), q) PROVE Continued(s, q, 0 + 1, n, over)
  <2>1. \A j \in 1..Len(s) : IsEventOf(s[j], q) => j > 0 + 1
    <3> SUFFICES ASSUME NEW j \in 1..Len(s), IsEventOf(s[j], q) PROVE j > 0 + 1
      OBVIOUS
    <3>1. j # 1  BY <1>1, <1>3
    <3> QED  BY <3>1
  <2>2. \A h \in 1..Len(s) : h > 0 + 1 => h > 0  OBVIOUS
  <2>3. \A h \in 1..Len(s) : h > 0  OBVIOUS
  <2> QED  BY <2>1, <2>2, <2>3 DEF Continued
<1> QED  BY <1>2, <1>3

(* The same mailbox, more may be over. *)
LEMMA ContinuedSame ==
  ASSUME NEW s, NEW q, NEW i, NEW n, NEW over \in BOOLEAN, NEW still \in BOOLEAN, over => still,
         Continued(s, q, i, n, over)
  PROVE  Continued(s, q, i, n, still)
BY DEF Continued

---------------------------------------------------------------------------
(***************************************************************************)
(* MailInv, step by step.                                                  *)
(***************************************************************************)
AwaitKept(p) == request[p].pc = "await" => request'[p].pc = "await"

(* The same mail: who awaits goes on waiting. *)
LEMMA MailSame ==
  ASSUME TypeInv, MailInv, UNCHANGED <<subscriber, emitted>>, Carried,
         \A p \in Requests : AwaitKept(p)
  PROVE  MailInv'
<1>0. inbox' = inbox /\ channels' = channels /\ subscribed' = subscribed /\ emitted' = emitted
  BY DEF subscriber
<1>1. \A r \in Replicas : \A i \in Mail(r) :
        inbox[r][i].by \in Requests => Begun(request, inbox[r][i].by)
  BY DEF TypeInv, InboxOK, Mail
<1>2. UnsubscribedLast'
  <2> SUFFICES ASSUME NEW r \in Replicas, NEW i \in Mail(r), inbox[r][i].kind = "unsubscribed",
                      inbox[r][i].by \in Requests
               PROVE  request'[inbox[r][i].by].kind = "stream"
    BY <1>0 DEF MailInv, UnsubscribedLast, Mail
  <2> QED  BY <1>1 DEF MailInv, UnsubscribedLast, Carried
<1>3. EventsOK'
  <2> SUFFICES ASSUME NEW r \in Replicas, NEW i \in Mail(r), NEW q, NEW c, NEW n,
                      inbox[r][i].kind = "event", inbox[r][i].by = q,
                      inbox[r][i].chat = c, inbox[r][i].n = n
               PROVE  EventOK(r, i, q, c, n)'
    BY <1>0 DEF EventsOK, Mail
  <2>1. EventOK(r, i, q, c, n)  BY DEF MailInv, EventsOK
  <2>2. Begun(request', q) /\ request'[q].chat = request[q].chat  BY <2>1 DEF EventOK, Carried
  <2>3. Ends(r, q, n)' = Ends(r, q, n)  BY <1>0, <2>2 DEF Ends
  <2> QED  BY <1>0, <2>1, <2>2, <2>3 DEF EventOK, Mail
<1>4. RepliesAwaited'
  BY <1>0 DEF MailInv, RepliesAwaited, Mail, AwaitKept
<1> QED  BY <1>0, <1>2, <1>3, <1>4 DEF MailInv, Counted

(* A command that Redis carries out. *)
Commanded(r, k, by, kind) ==
  /\ UNCHANGED <<subscribed, handlers, emitted>>
  /\ \A s \in Replicas : s # r => inbox'[s] = inbox[s] /\ channels'[s] = channels[s]
  /\ inbox'[r] = Append(inbox[r], Reply(kind, k, by))
  /\ \/ kind = "subscribed" /\ k \notin subscribed[r] /\ channels'[r] = channels[r] \cup {k}
     \/ kind = "unsubscribed" /\ k \in subscribed[r] /\ channels'[r] = channels[r] \ {k}

(* A command keeps MailInv: its reply comes last. *)
LEMMA MailCommand ==
  ASSUME TypeInv, MailInv, Carried, NEW r \in Replicas, NEW k \in Chats,
         NEW by \in Requests \cup {Nobody}, NEW kind, Commanded(r, k, by, kind),
         by \in Requests => request[by].pc # "await" /\ request'[by].pc = "await",
         \A p \in Requests : p # by => AwaitKept(p),
         kind = "unsubscribed" =>
           /\ \A i \in Mail(r) : ~ (inbox[r][i].kind = "unsubscribed" /\ inbox[r][i].chat = k)
           /\ by \in Requests => request'[by].kind = "stream"
  PROVE  MailInv'
<1> DEFINE m == Reply(kind, k, by)
           e == Len(inbox[r]) + 1
<1>1. /\ m.kind = kind /\ m.chat = k /\ m.by = by /\ m \in Message
      /\ kind \in {"subscribed", "unsubscribed"} /\ kind # "event"
  BY DEF Reply, Commanded, Message
<1>2. inbox[r] \in Seq(Message) /\ Len(inbox[r]) \in Nat  BY DEF TypeInv, InboxOK
<1>3. /\ inbox'[r] = Append(inbox[r], m) /\ Len(inbox'[r]) = e /\ inbox'[r][e] = m
      /\ e \in 1..Len(inbox'[r]) /\ Mail(r) \subseteq 1..Len(inbox'[r])
      /\ \A i \in Mail(r) : inbox'[r][i] = inbox[r][i] /\ i < e /\ i \in Nat /\ i <= Len(inbox[r])
      /\ \A i \in 1..Len(inbox'[r]) : i \in Mail(r) \/ i = e
      /\ \A i \in 1..Len(inbox'[r]) : ~ i > e
  BY <1>2 DEF Commanded, Mail
<1> HIDE DEF m, e
<1>4. \A s \in Replicas : s # r => inbox'[s] = inbox[s] /\ channels'[s] = channels[s]
  BY DEF Commanded
<1>5. UNCHANGED <<subscribed, emitted>>  BY DEF Commanded
<1>6. \A s \in Replicas : \A i \in Mail(s) :
        inbox[s][i].by \in Requests => Begun(request, inbox[s][i].by)
  BY DEF TypeInv, InboxOK, Mail
<1>7. UnsubscribedLast'
  <2> SUFFICES ASSUME NEW s \in Replicas, NEW i \in 1..Len(inbox'[s]),
                      inbox'[s][i].kind = "unsubscribed"
               PROVE  /\ inbox'[s][i].chat \in subscribed[s]
                      /\ \A j \in 1..Len(inbox'[s]) : j > i => inbox'[s][j].chat # inbox'[s][i].chat
                      /\ inbox'[s][i] = Reply("unsubscribed", inbox'[s][i].chat, inbox'[s][i].by)
                      /\ inbox'[s][i].by \in Requests => request'[inbox'[s][i].by].kind = "stream"
    BY <1>5 DEF UnsubscribedLast, Mail
  <2>1. ASSUME i \in Mail(s), inbox'[s][i] = inbox[s][i]
        PROVE  /\ inbox'[s][i].chat \in subscribed[s]
               /\ \A j \in Mail(s) : j > i => inbox[s][j].chat # inbox'[s][i].chat
               /\ inbox'[s][i] = Reply("unsubscribed", inbox'[s][i].chat, inbox'[s][i].by)
               /\ inbox'[s][i].by \in Requests => request'[inbox'[s][i].by].kind = "stream"
    BY <1>6, <2>1 DEF MailInv, UnsubscribedLast, Carried
  <2>2. CASE s # r
    <3>1. inbox'[s] = inbox[s]  BY <1>4, <2>2
    <3> QED  BY <2>1, <3>1 DEF Mail
  <2>3. CASE s = r /\ i = e
    <3>1. inbox'[s][i] = m  BY <1>3, <2>3
    <3>2. kind = "unsubscribed"  BY <1>1, <3>1
    <3> QED  BY <1>1, <1>3, <2>3, <3>1, <3>2 DEF Commanded, m
  <2>4. CASE s = r /\ i # e
    <3>1. i \in Mail(s) /\ inbox'[s][i] = inbox[s][i]  BY <1>3, <2>4
    <3>2. inbox[r][i].chat # k
      <4>1. inbox[r][i].chat \in subscribed[r]  BY <2>1, <2>4, <3>1
      <4> QED  BY <2>4, <3>1, <4>1 DEF Commanded
    <3>3. inbox'[r][e].chat # inbox'[s][i].chat  BY <1>1, <1>3, <2>4, <3>1, <3>2
    <3> QED  BY <1>3, <2>1, <2>4, <3>1, <3>3
  <2> QED  BY <2>2, <2>3, <2>4
<1>8. EventsOK'
  <2> SUFFICES ASSUME NEW s \in Replicas, NEW i \in 1..Len(inbox'[s]), NEW q, NEW c, NEW n,
                      inbox'[s][i].kind = "event", inbox'[s][i].by = q,
                      inbox'[s][i].chat = c, inbox'[s][i].n = n
               PROVE  EventOK(s, i, q, c, n)'
    BY DEF EventsOK, Mail
  <2>1. i \in Mail(s) /\ inbox'[s][i] = inbox[s][i]
    <3>1. CASE s # r  BY <1>4, <3>1 DEF Mail
    <3>2. CASE s = r  BY <1>1, <1>3, <3>2
    <3> QED  BY <3>1, <3>2
  <2>2. EventOK(s, i, q, c, n)  BY <2>1 DEF MailInv, EventsOK
  <2>3. Begun(request', q) /\ request'[q].chat = request[q].chat  BY <2>2 DEF EventOK, Carried
  <2>4. CASE s # r
    <3>1. inbox'[s] = inbox[s] /\ channels'[s] = channels[s]  BY <1>4, <2>4
    <3>2. Ends(s, q, n)' = Ends(s, q, n)  BY <1>5, <2>3, <3>1 DEF Ends
    <3> QED  BY <2>2, <2>3, <3>1, <3>2 DEF EventOK, Mail
  <2>5. CASE s = r
    <3>0. /\ c \in channels[r] \/ \E j \in Mail(r) :
               j > i /\ inbox[r][j].kind = "unsubscribed" /\ inbox[r][j].chat = c
          /\ c = request[q].chat /\ q \in Requests
          /\ Continued(inbox[r], q, i, n, Ends(r, q, n))
      BY <2>2, <2>5 DEF EventOK
    <3>1. ASSUME c = k, c \notin channels[r] PROVE kind = "unsubscribed"
      <4>1. PICK j \in Mail(r) : inbox[r][j].kind = "unsubscribed" /\ inbox[r][j].chat = c
        BY <3>0, <3>1
      <4>2. k \in subscribed[r]  BY <3>1, <4>1 DEF MailInv, UnsubscribedLast
      <4> QED  BY <4>2 DEF Commanded
    <3>2. c \in channels'[r] \/ (c = k /\ kind = "unsubscribed") \/ c \notin channels[r]
      BY DEF Commanded
    <3>3. \/ c \in channels'[r]
          \/ \E j \in 1..Len(inbox'[r]) : /\ j > i /\ inbox'[r][j].kind = "unsubscribed"
                                          /\ inbox'[r][j].chat = c
      <4>1. CASE c = k /\ kind = "unsubscribed"
        <5>1. e > i  BY <1>3, <2>1, <2>5
        <5> QED  BY <1>1, <1>3, <4>1, <5>1
      <4>2. CASE c \notin channels[r]
        <5>1. PICK j \in Mail(r) : j > i /\ inbox[r][j].kind = "unsubscribed" /\ inbox[r][j].chat = c
          BY <3>0, <4>2
        <5> QED  BY <1>3, <5>1
      <4> QED  BY <3>2, <4>1, <4>2
    <3>4. Ends(r, q, n) => Ends(r, q, n)'
      <4>1. c \notin channels[r] => c \notin channels'[r]  BY <3>1 DEF Commanded
      <4> QED  BY <1>5, <2>3, <3>0, <4>1 DEF Ends
    <3>5. Continued(inbox'[r], q, i, n, Ends(r, q, n)')
      <4>1. Ends(r, q, n) \in BOOLEAN /\ Ends(r, q, n)' \in BOOLEAN  BY DEF Ends
      <4>2. ~ IsEventOf(m, q)  BY <1>1 DEF IsEventOf
      <4>3. i \in Nat /\ i <= Len(inbox[r])  BY <1>3, <2>1, <2>5
      <4> HIDE DEF Ends
      <4>4. Continued(Append(inbox[r], m), q, i, n, Ends(r, q, n)')
        BY <1>1, <1>2, <3>0, <3>4, <4>1, <4>2, <4>3, ContinuedAppend
      <4> QED  BY <1>3, <4>4
    <3> QED  BY <2>3, <2>5, <3>0, <3>3, <3>5 DEF EventOK, Mail
  <2> QED  BY <2>4, <2>5
<1>9. RepliesAwaited'
  <2> SUFFICES ASSUME NEW s \in Replicas, NEW i \in 1..Len(inbox'[s]), NEW q \in Requests,
                      IsReplyTo(inbox'[s][i], q)
               PROVE  /\ request'[q].pc = "await"
                      /\ \A j \in 1..Len(inbox'[s]) : IsReplyTo(inbox'[s][j], q) => j = i
    BY DEF RepliesAwaited, Mail
  <2>1. \A j \in Mail(s) : IsReplyTo(inbox[s][j], q) => request[q].pc = "await"
    BY DEF MailInv, RepliesAwaited
  <2>2. \A j \in Mail(s), h \in Mail(s) :
          IsReplyTo(inbox[s][j], q) /\ IsReplyTo(inbox[s][h], q) => j = h
    BY DEF MailInv, RepliesAwaited
  <2>3. CASE q = by
    <3>1. \A j \in Mail(s) : ~ IsReplyTo(inbox[s][j], q)  BY <2>1, <2>3
    <3>2. s = r
      <4>1. s # r => inbox'[s] = inbox[s]  BY <1>4
      <4> QED  BY <3>1, <4>1 DEF Mail
    <3> QED  BY <1>3, <2>3, <3>1, <3>2
  <2>4. CASE q # by
    <3>1. \A j \in 1..Len(inbox'[s]) :
            IsReplyTo(inbox'[s][j], q) => j \in Mail(s) /\ inbox'[s][j] = inbox[s][j]
      <4>1. CASE s # r  BY <1>4, <4>1 DEF Mail
      <4>2. CASE s = r  BY <1>1, <1>3, <2>4, <4>2 DEF IsReplyTo
      <4> QED  BY <4>1, <4>2
    <3> QED  BY <2>1, <2>2, <2>4, <3>1 DEF AwaitKept
  <2> QED  BY <2>3, <2>4
<1> QED  BY <1>5, <1>7, <1>8, <1>9 DEF MailInv, Counted

(* The worker publishes an event: it is the next one wherever an earlier   *)
(* one is on its way to a replica that is subscribed.                      *)
LEMMA EmitIs ==
  ASSUME TypeInv, Counted, NEW q \in Requests, Emit(q)
  PROVE  \E m \in Message :
           /\ m.kind = "event" /\ m.chat = request[q].chat /\ m.by = q /\ m.n = emitted[q] + 1
           /\ Begun(request, q) /\ request[q].chat \in Chats
           /\ UNCHANGED <<subscribed, channels, handlers, request, clients, observers, heard, panel>>
           /\ \A r \in Replicas :
                inbox'[r] = IF request[q].chat \in channels[r] THEN Append(inbox[r], m) ELSE inbox[r]
           /\ emitted' \in [Requests -> Nat]
           /\ emitted'[q] = emitted[q] + 1 /\ \A p \in Requests : p # q => emitted'[p] = emitted[p]
<1> DEFINE m == [kind |-> "event", chat |-> request[q].chat, by |-> q, n |-> emitted[q] + 1]
<1>1. request[q].chat \in Chats /\ Begun(request, q) /\ emitted[q] \in Nat
  BY DEF Emit, Begun, TypeInv, RequestsOK, Counted
<1>2. /\ m \in Message /\ m.kind = "event" /\ m.chat = request[q].chat /\ m.by = q
      /\ m.n = emitted[q] + 1
  BY <1>1 DEF Message
<1>3. /\ emitted' = [emitted EXCEPT ![q] = @ + 1]
      /\ inbox' = [r \in Replicas |->
                     IF request[q].chat \in channels[r] THEN Append(inbox[r], m) ELSE inbox[r]]
      /\ UNCHANGED <<subscribed, channels, handlers, request, clients, observers, heard, panel>>
  BY DEF Emit, streamer, watchers
<1> HIDE DEF m
<1>4. /\ emitted' \in [Requests -> Nat]
      /\ emitted'[q] = emitted[q] + 1 /\ \A p \in Requests : p # q => emitted'[p] = emitted[p]
  BY <1>1, <1>3 DEF Counted
<1>5. \A r \in Replicas :
        inbox'[r] = IF request[q].chat \in channels[r] THEN Append(inbox[r], m) ELSE inbox[r]
  BY <1>3
<1> QED  BY <1>1, <1>2, <1>3, <1>4, <1>5

(* An event published behind what was next, or as the next. *)
LEMMA ContinuedEmit ==
  ASSUME TypeInv, NEW q \in Requests, NEW m \in Message,
         m.kind = "event", m.by = q, m.n = emitted[q] + 1,
         UNCHANGED <<channels, request>>,
         emitted'[q] = emitted[q] + 1, \A p \in Requests : p # q => emitted'[p] = emitted[p],
         NEW r \in Replicas,
         inbox'[r] = IF request[q].chat \in channels[r] THEN Append(inbox[r], m) ELSE inbox[r],
         NEW p \in Requests, NEW i \in Nat, i <= Len(inbox[r]), NEW n,
         Continued(inbox[r], p, i, n, Ends(r, p, n))
  PROVE  Continued(inbox'[r], p, i, n, Ends(r, p, n)')
<1>1. Ends(r, p, n) \in BOOLEAN /\ Ends(r, p, n)' \in BOOLEAN  BY DEF Ends
<1>2. inbox[r] \in Seq(Message)  BY DEF TypeInv, InboxOK
<1>3. CASE request[q].chat \in channels[r]
  <2>1. inbox'[r] = Append(inbox[r], m)  BY <1>3
  <2>2. \/ ~ IsEventOf(m, p) /\ (Ends(r, p, n) => Ends(r, p, n)')
        \/ IsEventOf(m, p) /\ (Ends(r, p, n) => m.n = n + 1)
    <3>1. CASE p = q  BY <1>3, <3>1 DEF IsEventOf, Ends
    <3>2. CASE p # q  BY <3>2 DEF IsEventOf, Ends
    <3> QED  BY <3>1, <3>2
  <2> HIDE DEF Ends
  <2>3. Continued(Append(inbox[r], m), p, i, n, Ends(r, p, n)')
    BY <1>1, <1>2, <2>2, ContinuedAppend
  <2> QED  BY <2>1, <2>3
<1>4. CASE request[q].chat \notin channels[r]
  <2>1. inbox'[r] = inbox[r]  BY <1>4
  <2>2. Ends(r, p, n) => Ends(r, p, n)'
    <3>1. CASE p = q  BY <1>4, <3>1 DEF Ends
    <3>2. CASE p # q  BY <3>2 DEF Ends
    <3> QED  BY <3>1, <3>2
  <2> HIDE DEF Ends
  <2>3. Continued(inbox[r], p, i, n, Ends(r, p, n)')
    BY <1>1, <2>2, ContinuedSame
  <2> QED  BY <2>1, <2>3
<1> QED  BY <1>3, <1>4

(* A published event keeps MailInv. *)
LEMMA MailEmit ==
  ASSUME ChannelInv, MailInv, NEW q \in Requests, Emit(q)
  PROVE  MailInv'
<1>0. TypeInv /\ Counted  BY DEF ChannelInv, MailInv
<1>1. PICK m \in Message :
        /\ m.kind = "event" /\ m.chat = request[q].chat /\ m.by = q /\ m.n = emitted[q] + 1
        /\ Begun(request, q) /\ request[q].chat \in Chats
        /\ UNCHANGED <<subscribed, channels, handlers, request, clients, observers, heard, panel>>
        /\ \A r \in Replicas :
             inbox'[r] = IF request[q].chat \in channels[r] THEN Append(inbox[r], m) ELSE inbox[r]
        /\ emitted' \in [Requests -> Nat]
        /\ emitted'[q] = emitted[q] + 1 /\ \A p \in Requests : p # q => emitted'[p] = emitted[p]
  BY <1>0, EmitIs
<1>2. ASSUME NEW r \in Replicas
      PROVE  /\ Mail(r) \subseteq 1..Len(inbox'[r])
             /\ \A i \in Mail(r) : inbox'[r][i] = inbox[r][i] /\ i \in Nat /\ i <= Len(inbox[r])
             /\ \A i \in 1..Len(inbox'[r]) :
                  \/ i \in Mail(r)
                  \/ /\ inbox'[r][i] = m /\ request[q].chat \in channels[r]
                     /\ \A j \in 1..Len(inbox'[r]) : ~ j > i
  <2>1. inbox[r] \in Seq(Message)  BY <1>0 DEF TypeInv, InboxOK
  <2>2. CASE inbox'[r] = inbox[r]  BY <2>1, <2>2 DEF Mail
  <2>3. CASE inbox'[r] = Append(inbox[r], m) /\ request[q].chat \in channels[r]
    BY <2>1, <2>3 DEF Mail
  <2> QED  BY <1>1, <2>2, <2>3
<1>3. UnsubscribedLast'
  <2> SUFFICES ASSUME NEW r \in Replicas, NEW i \in 1..Len(inbox'[r]),
                      inbox'[r][i].kind = "unsubscribed"
               PROVE  /\ inbox'[r][i].chat \in subscribed[r]
                      /\ \A j \in 1..Len(inbox'[r]) : j > i => inbox'[r][j].chat # inbox'[r][i].chat
                      /\ inbox'[r][i] = Reply("unsubscribed", inbox'[r][i].chat, inbox'[r][i].by)
                      /\ inbox'[r][i].by \in Requests => request[inbox'[r][i].by].kind = "stream"
    BY <1>1 DEF UnsubscribedLast, Mail
  <2>1. i \in Mail(r) /\ inbox'[r][i] = inbox[r][i]
    <3>1. inbox'[r][i] # m  BY <1>1
    <3> QED  BY <1>2, <3>1
  <2>2. /\ inbox[r][i].chat \in subscribed[r]
        /\ \A j \in Mail(r) : j > i => inbox[r][j].chat # inbox[r][i].chat
        /\ inbox[r][i] = Reply("unsubscribed", inbox[r][i].chat, inbox[r][i].by)
        /\ inbox[r][i].by \in Requests => request[inbox[r][i].by].kind = "stream"
    BY <2>1 DEF MailInv, UnsubscribedLast
  <2>3. request[q].chat \in channels[r] => request[q].chat # inbox[r][i].chat
    <3> SUFFICES ASSUME NEW k, k = request[q].chat, k \in channels[r], k = inbox[r][i].chat PROVE FALSE
      OBVIOUS
    <3>1. Outcome(inbox[r], k, subscribed[r])  BY <1>1 DEF ChannelInv, AgreesOn
    <3>2. IsReply(inbox[r][i], k)  BY <2>1 DEF IsReply
    <3>3. PICK h \in 1..Len(inbox[r]) :
            /\ IsReply(inbox[r][h], k) /\ inbox[r][h].kind = "subscribed"
            /\ \A j \in 1..Len(inbox[r]) : j > h => ~ IsReply(inbox[r][j], k)
      BY <2>1, <3>1, <3>2 DEF Outcome, Mail
    <3>4. ~ i > h /\ i # h  BY <2>1, <3>2, <3>3 DEF Mail
    <3>5. h > i  BY <1>2, <2>1, <3>4
    <3> QED  BY <2>2, <3>3, <3>5 DEF IsReply, Mail
  <2> QED  BY <1>1, <1>2, <2>1, <2>2, <2>3
<1>4. EventsOK'
  <2> SUFFICES ASSUME NEW r \in Replicas, NEW i \in 1..Len(inbox'[r]), NEW p, NEW c, NEW n,
                      inbox'[r][i].kind = "event", inbox'[r][i].by = p,
                      inbox'[r][i].chat = c, inbox'[r][i].n = n
               PROVE  EventOK(r, i, p, c, n)'
    BY DEF EventsOK, Mail
  <2>1. CASE i \in Mail(r)
    <3>1. inbox'[r][i] = inbox[r][i] /\ i \in Nat /\ i <= Len(inbox[r])  BY <1>2, <2>1
    <3>2. EventOK(r, i, p, c, n)  BY <2>1, <3>1 DEF MailInv, EventsOK
    <3>3. p \in Requests /\ Continued(inbox[r], p, i, n, Ends(r, p, n))  BY <3>2 DEF EventOK
    <3>4. Continued(inbox'[r], p, i, n, Ends(r, p, n)')
      BY <1>0, <1>1, <3>1, <3>3, ContinuedEmit
    <3> QED  BY <1>1, <1>2, <3>2, <3>4 DEF EventOK, Mail
  <2>2. CASE i \notin Mail(r)
    <3>1. /\ inbox'[r][i] = m /\ request[q].chat \in channels[r]
          /\ \A j \in 1..Len(inbox'[r]) : ~ j > i
      BY <1>2, <2>2
    <3>2. p = q /\ c = request[q].chat /\ n = emitted'[q]  BY <1>1, <3>1
    <3>3. Continued(inbox'[r], q, i, n, Ends(r, q, n)')  BY <3>1, <3>2 DEF Continued, Ends
    <3> QED  BY <1>1, <3>1, <3>2, <3>3 DEF EventOK
  <2> QED  BY <2>1, <2>2
<1>5. RepliesAwaited'
  <2> SUFFICES ASSUME NEW r \in Replicas, NEW p \in Requests, NEW i \in 1..Len(inbox'[r]),
                      IsReplyTo(inbox'[r][i], p)
               PROVE  /\ request[p].pc = "await"
                      /\ \A j \in 1..Len(inbox'[r]) : IsReplyTo(inbox'[r][j], p) => j = i
    BY <1>1 DEF RepliesAwaited, Mail
  <2>1. \A j \in 1..Len(inbox'[r]) : IsReplyTo(inbox'[r][j], p) =>
          j \in Mail(r) /\ IsReplyTo(inbox[r][j], p)
    <3>1. ~ IsReplyTo(m, p)  BY <1>1 DEF IsReplyTo
    <3> QED  BY <1>2, <3>1
  <2> QED  BY <2>1 DEF MailInv, RepliesAwaited
<1> QED  BY <1>1, <1>3, <1>4, <1>5 DEF MailInv, Counted

(* What is taken from the mailbox of r; the places of the rest move.       *)
TakenFrom(r) ==
  /\ inbox[r] # << >> /\ inbox'[r] = Tail(inbox[r])
  /\ \A s \in Replicas : s # r => inbox'[s] = inbox[s]

(* What taking a message changes. *)
LEMMA TakeIs ==
  ASSUME TypeInv, NEW r \in Replicas, Take(r)
  PROVE  /\ TakenFrom(r) /\ UNCHANGED <<clients, channels, emitted, panel>>
         /\ Head(inbox[r]) \in Message
         /\ \/ /\ Head(inbox[r]).kind = "event" /\ TakeEvent(r)
               /\ UNCHANGED <<subscribed, handlers, request>>
            \/ /\ Head(inbox[r]).kind = "subscribed" /\ UNCHANGED <<observers, heard>>
               /\ request' = Resumed(Head(inbox[r]).by, "bind")
               /\ subscribed'[r] = subscribed[r] \cup {Head(inbox[r]).chat}
               /\ \A s \in Replicas : s # r => subscribed'[s] = subscribed[s]
            \/ /\ Head(inbox[r]).kind = "unsubscribed" /\ UNCHANGED <<observers, heard>>
               /\ request' = Resumed(Head(inbox[r]).by, "close")
               /\ subscribed'[r] = subscribed[r] \ {Head(inbox[r]).chat}
               /\ \A s \in Replicas : s # r => subscribed'[s] = subscribed[s]
<1> DEFINE m == Head(inbox[r])
<1>1. inbox[r] # << >> /\ inbox' = [inbox EXCEPT ![r] = Tail(@)]
  BY DEF Take, TakeSubscribed, TakeUnsubscribed, TakeEvent
<1>2. /\ inbox \in [Replicas -> Seq(Message)] /\ subscribed \in [Replicas -> SUBSET Chats]
  BY DEF TypeInv, TypeOK, InboxOK
<1>3. m \in Message  BY <1>1, InboxTail DEF TypeInv
<1>4. TakenFrom(r)  BY <1>1, <1>2 DEF TakenFrom
<1>5. CASE TakeSubscribed(r)
  <2>1. /\ m.kind = "subscribed" /\ request' = Resumed(m.by, "bind")
        /\ subscribed' = [subscribed EXCEPT ![r] = @ \cup {m.chat}]
        /\ UNCHANGED <<clients, channels, emitted, panel, observers, heard>>
    BY <1>5 DEF TakeSubscribed, streamer, watchers
  <2> HIDE DEF m
  <2>2. /\ subscribed'[r] = subscribed[r] \cup {m.chat}
        /\ \A s \in Replicas : s # r => subscribed'[s] = subscribed[s]
    BY <1>2, <2>1
  <2> QED  BY <1>3, <1>4, <2>1, <2>2 DEF m
<1>6. CASE TakeUnsubscribed(r)
  <2>1. /\ m.kind = "unsubscribed" /\ request' = Resumed(m.by, "close")
        /\ subscribed' = [subscribed EXCEPT ![r] = @ \ {m.chat}]
        /\ UNCHANGED <<clients, channels, emitted, panel, observers, heard>>
    BY <1>6 DEF TakeUnsubscribed, streamer, watchers
  <2> HIDE DEF m
  <2>2. /\ subscribed'[r] = subscribed[r] \ {m.chat}
        /\ \A s \in Replicas : s # r => subscribed'[s] = subscribed[s]
    BY <1>2, <2>1
  <2> QED  BY <1>3, <1>4, <2>1, <2>2 DEF m
<1>7. CASE TakeEvent(r)
  BY <1>3, <1>4, <1>7 DEF TakeEvent, SafeWrite, watchers
<1> QED  BY <1>5, <1>6, <1>7 DEF Take

(* The requests a reply resumes awaited it. *)
LEMMA ResumedIs ==
  ASSUME TypeInv, NEW by, NEW pc, request' = Resumed(by, pc)
  PROVE  /\ \A p \in Requests : p # by => request'[p] = request[p]
         /\ by \in Requests =>
              /\ request'[by].pc = pc /\ request'[by].kind = request[by].kind
              /\ request'[by].chat = request[by].chat /\ request'[by].at = request[by].at
              /\ request'[by].todo = request[by].todo
<1>1. CASE by \notin Requests  BY <1>1 DEF Resumed
<1>2. CASE by \in Requests
  <2>1. request' = [request EXCEPT ![by].pc = pc]  BY <1>2 DEF Resumed
  <2>2. request \in [Requests -> RequestType] /\ request[by] \in RequestType
    BY <1>2 DEF TypeInv, RequestsOK
  <2> QED  BY <1>2, <2>1, <2>2 DEF RequestType
<1> QED  BY <1>1, <1>2

(* Taking a message leaves who the requests are. *)
LEMMA CarriedTake ==
  ASSUME TypeInv, NEW r \in Replicas, Take(r)
  PROVE  /\ Carried
         /\ \A p \in Requests : IsReplyTo(Head(inbox[r]), p) \/ request'[p] = request[p]
<1>1. \/ request' = request /\ Head(inbox[r]).kind = "event"
      \/ Head(inbox[r]).kind # "event" /\ request' = Resumed(Head(inbox[r]).by, "bind")
      \/ Head(inbox[r]).kind # "event" /\ request' = Resumed(Head(inbox[r]).by, "close")
  BY TakeIs
<1>2. CASE request' = request  BY <1>2 DEF Carried, Begun
<1>3. ASSUME NEW by, by = Head(inbox[r]).by, NEW pc \in {"bind", "close"},
             request' = Resumed(by, pc), Head(inbox[r]).kind # "event"
      PROVE  /\ Carried
             /\ \A p \in Requests : IsReplyTo(Head(inbox[r]), p) \/ request'[p] = request[p]
  <2>1. /\ \A p \in Requests : p # by => request'[p] = request[p]
        /\ by \in Requests =>
             /\ request'[by].pc = pc /\ request'[by].kind = request[by].kind
             /\ request'[by].chat = request[by].chat /\ request'[by].at = request[by].at
    BY <1>3, ResumedIs
  <2> QED  BY <1>3, <2>1 DEF Carried, Begun, IsReplyTo
<1> QED  BY <1>1, <1>2, <1>3

(* What was next in a mailbox that has lost its first message, or none. *)
LEMMA ContinuedTake ==
  ASSUME TypeInv, NEW r \in Replicas, Take(r), NEW p \in Requests, Begun(request, p),
         NEW s \in Replicas, NEW n, NEW i \in Nat,
         \/ s # r /\ Continued(inbox[s], p, i, n, Ends(s, p, n))
         \/ s = r /\ Continued(inbox[r], p, i + 1, n, Ends(r, p, n))
  PROVE  Continued(inbox'[s], p, i, n, Ends(s, p, n)')
<1>1. TakenFrom(r) /\ UNCHANGED <<channels, emitted>> /\ Carried  BY TakeIs, CarriedTake
<1>2. Ends(s, p, n)' = Ends(s, p, n)  BY <1>1 DEF Ends, Carried
<1>3. CASE s # r  BY <1>1, <1>2, <1>3 DEF TakenFrom
<1>4. CASE s = r
  <2>1. inbox[r] \in Seq(Message)  BY DEF TypeInv, InboxOK
  <2>2. Ends(r, p, n) \in BOOLEAN  BY DEF Ends
  <2> HIDE DEF Ends
  <2>3. Continued(Tail(inbox[r]), p, i, n, Ends(r, p, n))
    BY <1>1, <1>4, <2>1, <2>2, ContinuedTail DEF TakenFrom
  <2> QED  BY <1>1, <1>2, <1>4, <2>3 DEF TakenFrom
<1> QED  BY <1>3, <1>4

(* Taking a message keeps MailInv. *)
LEMMA MailTake ==
  ASSUME TypeInv, RepliesOK, MailInv, NEW r \in Replicas, Take(r)
  PROVE  MailInv'
<1>1. /\ TakenFrom(r) /\ UNCHANGED <<channels, emitted>> /\ Carried
      /\ \A p \in Requests : IsReplyTo(Head(inbox[r]), p) \/ request'[p] = request[p]
  BY TakeIs, CarriedTake
<1>2. PICK t \in Seq(Message) : t = inbox[r] /\ t # << >> /\ inbox'[r] = Tail(t)
  <2>1. inbox[r] \in Seq(Message)  BY DEF TypeInv, InboxOK
  <2> QED  BY <1>1, <2>1 DEF TakenFrom
<1>3. /\ 1 \in Mail(r) /\ Head(inbox[r]) = inbox[r][1]
      /\ \A h \in 1..Len(inbox'[r]) : h + 1 \in Mail(r) /\ inbox'[r][h] = inbox[r][h + 1] /\ h + 1 # 1
      /\ \A i \in Mail(r) : i # 1 => \E h \in 1..Len(inbox'[r]) : i = h + 1 /\ inbox'[r][h] = inbox[r][i]
  <2> DEFINE u == Tail(t)
  <2>1. /\ 1 \in 1..Len(t) /\ Head(t) = t[1]
        /\ \A h \in 1..Len(u) : h + 1 \in 1..Len(t) /\ u[h] = t[h + 1] /\ h + 1 # 1
        /\ \A i \in 1..Len(t) : i # 1 => 1 < i /\ \E h \in 1..Len(u) : i = h + 1 /\ u[h] = t[i]
    <3> HIDE DEF u
    <3> QED  BY <1>2, Taken DEF u
  <2>2. inbox'[r] = u  BY <1>2
  <2> HIDE DEF u
  <2> QED  BY <1>2, <2>1, <2>2 DEF Mail
<1>4. \A s \in Replicas : s # r => inbox'[s] = inbox[s]  BY <1>1 DEF TakenFrom
    (* Where a message was before. *)
<1>5. ASSUME NEW s \in Replicas
      PROVE  \E d \in {0, 1} :
               /\ d = IF s = r THEN 1 ELSE 0
               /\ \A i \in 1..Len(inbox'[s]) : i + d \in Mail(s) /\ inbox'[s][i] = inbox[s][i + d]
  <2>1. CASE s = r
    <3> WITNESS 1 \in {0, 1}
    <3> QED  BY <1>3, <2>1
  <2>2. CASE s # r
    <3>1. \A i \in 1..Len(inbox[s]) : i + 0 = i  OBVIOUS
    <3>2. inbox'[s] = inbox[s]  BY <1>4, <2>2
    <3> WITNESS 0 \in {0, 1}
    <3> QED  BY <2>2, <3>1, <3>2 DEF Mail
  <2> QED  BY <2>1, <2>2
<1>6. UnsubscribedLast'
  <2> SUFFICES ASSUME NEW s \in Replicas, NEW i \in 1..Len(inbox'[s]),
                      inbox'[s][i].kind = "unsubscribed"
               PROVE  /\ inbox'[s][i].chat \in subscribed'[s]
                      /\ \A j \in 1..Len(inbox'[s]) : j > i => inbox'[s][j].chat # inbox'[s][i].chat
                      /\ inbox'[s][i] = Reply("unsubscribed", inbox'[s][i].chat, inbox'[s][i].by)
                      /\ inbox'[s][i].by \in Requests => request'[inbox'[s][i].by].kind = "stream"
    BY DEF UnsubscribedLast, Mail
  <2>1. PICK d \in {0, 1} :
          /\ d = IF s = r THEN 1 ELSE 0
          /\ \A h \in 1..Len(inbox'[s]) : h + d \in Mail(s) /\ inbox'[s][h] = inbox[s][h + d]
    BY <1>5
  <2>2. PICK g \in Mail(s) : g = i + d /\ inbox'[s][i] = inbox[s][g]  BY <2>1
  <2>3. /\ inbox[s][g].chat \in subscribed[s]
        /\ \A j \in Mail(s) : j > g => inbox[s][j].chat # inbox[s][g].chat
        /\ inbox[s][g] = Reply("unsubscribed", inbox[s][g].chat, inbox[s][g].by)
        /\ inbox[s][g].by \in Requests => request[inbox[s][g].by].kind = "stream"
    BY <2>2 DEF MailInv, UnsubscribedLast
  <2>4. \A j \in 1..Len(inbox'[s]) : j > i => inbox'[s][j].chat # inbox'[s][i].chat
    <3> SUFFICES ASSUME NEW j \in 1..Len(inbox'[s]), j > i
                 PROVE  inbox'[s][j].chat # inbox'[s][i].chat
      OBVIOUS
    <3>1. j + d > g  BY <2>2
    <3> QED  BY <2>1, <2>2, <2>3, <3>1
  <2>5. inbox[s][g].by \in Requests => request'[inbox[s][g].by].kind = "stream"
    <3>1. inbox[s][g].by \in Requests => Begun(request, inbox[s][g].by)
      BY DEF TypeInv, InboxOK, Mail
    <3> QED  BY <1>1, <2>3, <3>1 DEF Carried
  <2>6. inbox[s][g].chat \in subscribed'[s]
    <3>1. CASE s # r  BY <2>3, <3>1, TakeIs
    <3>2. CASE s = r
      <4>1. subscribed'[r] = subscribed[r] \/ subscribed[r] \subseteq subscribed'[r]
            \/ /\ Head(inbox[r]).kind = "unsubscribed"
               /\ subscribed'[r] = subscribed[r] \ {Head(inbox[r]).chat}
        BY TakeIs
      <4>2. g > 1  BY <2>1, <2>2, <3>2
      <4>3. Head(inbox[r]).kind = "unsubscribed" => inbox[r][g].chat # Head(inbox[r]).chat
        BY <1>3, <3>2, <4>2 DEF MailInv, UnsubscribedLast
      <4> QED  BY <2>3, <3>2, <4>1, <4>3
    <3> QED  BY <3>1, <3>2
  <2> QED  BY <2>2, <2>3, <2>4, <2>5, <2>6
<1>7. EventsOK'
  <2> SUFFICES ASSUME NEW s \in Replicas, NEW i \in 1..Len(inbox'[s]), NEW p, NEW c, NEW n,
                      inbox'[s][i].kind = "event", inbox'[s][i].by = p,
                      inbox'[s][i].chat = c, inbox'[s][i].n = n
               PROVE  EventOK(s, i, p, c, n)'
    BY DEF EventsOK, Mail
  <2>1. PICK d \in {0, 1} :
          /\ d = IF s = r THEN 1 ELSE 0
          /\ \A h \in 1..Len(inbox'[s]) : h + d \in Mail(s) /\ inbox'[s][h] = inbox[s][h + d]
    BY <1>5
  <2>2. EventOK(s, i + d, p, c, n)  BY <2>1 DEF MailInv, EventsOK
  <2>3. /\ p \in Requests /\ Begun(request, p) /\ c = request[p].chat
        /\ \/ c \in channels[s]
           \/ \E j \in Mail(s) : j > i + d /\ inbox[s][j].kind = "unsubscribed" /\ inbox[s][j].chat = c
        /\ Continued(inbox[s], p, i + d, n, Ends(s, p, n))
    BY <2>2 DEF EventOK
  <2>4. Begun(request', p) /\ request'[p].chat = c  BY <1>1, <2>3 DEF Carried
  <2>5. ASSUME NEW j \in Mail(s), j > i + d, inbox[s][j].kind = "unsubscribed", inbox[s][j].chat = c
        PROVE  \E h \in 1..Len(inbox'[s]) :
                 h > i /\ inbox'[s][h].kind = "unsubscribed" /\ inbox'[s][h].chat = c
    <3>1. CASE s # r
      <4>1. d = 0 /\ inbox'[s] = inbox[s]  BY <1>4, <2>1, <3>1
      <4>2. j > i  BY <2>5, <4>1
      <4> QED  BY <2>5, <4>1, <4>2 DEF Mail
    <3>2. CASE s = r
      <4>1. d = 1 /\ j # 1  BY <2>1, <2>5, <3>2
      <4>2. PICK h \in 1..Len(inbox'[r]) : j = h + 1 /\ inbox'[r][h] = inbox[r][j]
        BY <1>3, <3>2, <4>1
      <4>3. h > i  BY <2>5, <4>1, <4>2
      <4> QED  BY <2>5, <3>2, <4>2, <4>3
    <3> QED  BY <3>1, <3>2
  <2>6. Continued(inbox'[s], p, i, n, Ends(s, p, n)')
    <3>1. i \in Nat /\ i + 0 = i  OBVIOUS
    <3>2. \/ s # r /\ Continued(inbox[s], p, i, n, Ends(s, p, n))
          \/ s = r /\ Continued(inbox[r], p, i + 1, n, Ends(r, p, n))
      BY <2>1, <2>3, <3>1
    <3> QED  BY <2>3, <3>1, <3>2, ContinuedTake
  <2> QED  BY <1>1, <2>3, <2>4, <2>5, <2>6 DEF EventOK, Mail
<1>8. RepliesAwaited'
  <2> SUFFICES ASSUME NEW s \in Replicas, NEW p \in Requests, NEW i \in 1..Len(inbox'[s]),
                      IsReplyTo(inbox'[s][i], p)
               PROVE  /\ request'[p].pc = "await"
                      /\ \A j \in 1..Len(inbox'[s]) : IsReplyTo(inbox'[s][j], p) => j = i
    BY DEF RepliesAwaited, Mail
  <2>1. PICK d \in {0, 1} :
          /\ d = IF s = r THEN 1 ELSE 0
          /\ \A h \in 1..Len(inbox'[s]) : h + d \in Mail(s) /\ inbox'[s][h] = inbox[s][h + d]
    BY <1>5
  <2>2. i + d \in Mail(s) /\ IsReplyTo(inbox[s][i + d], p)  BY <2>1
  <2>3. /\ request[p].pc = "await"
        /\ \A j \in Mail(s) : IsReplyTo(inbox[s][j], p) => j = i + d
    BY <2>2 DEF MailInv, RepliesAwaited
  <2>4. \A j \in 1..Len(inbox'[s]) : IsReplyTo(inbox'[s][j], p) => j = i
    <3> SUFFICES ASSUME NEW j \in 1..Len(inbox'[s]), IsReplyTo(inbox'[s][j], p) PROVE j = i
      OBVIOUS
    <3>1. j + d = i + d  BY <2>1, <2>3
    <3> QED  BY <3>1
  <2>5. ~ IsReplyTo(Head(inbox[r]), p)
    <3> SUFFICES ASSUME IsReplyTo(inbox[r][1], p) PROVE FALSE
      BY <1>3
    <3>1. CASE s = r
      <4>1. 1 = i + 1  BY <1>3, <2>1, <2>3, <3>1
      <4> QED  BY <4>1
    <3>2. CASE s # r  BY <1>3, <2>2, <3>2 DEF RepliesOK, IsReplyTo
    <3> QED  BY <3>1, <3>2
  <2> QED  BY <1>1, <2>3, <2>4, <2>5
<1> QED  BY <1>1, <1>6, <1>7, <1>8 DEF MailInv, Counted

(* The command of a step of a request: a stream or a webhook subscribes,   *)
(* and waits, a stream unsubscribes, and waits.                            *)
LEMMA StepCommand ==
  ASSUME StreamInv, NEW q \in Requests, RequestStep(q)
  PROVE  /\ UNCHANGED emitted
         /\ \/ UNCHANGED subscriber
            \/ /\ request'[q].pc = "await"
               /\ \/ /\ Commanded(request[q].at, request[q].chat, q, "subscribed")
                     /\ Active(q) => request[q].pc = "subscribe"
                  \/ /\ Commanded(request[q].at, request[q].chat, q, "unsubscribed")
                     /\ Active(q) /\ request[q].pc = "run"
<1>0. TypeInv /\ Planned  BY DEF StreamInv, ChannelInv
<1>1. PICK a \in Replicas, k \in Chats : request[q].at = a /\ request[q].chat = k  BY StepIs
<1>2. UNCHANGED emitted
  BY DEF RequestStep, SubscribeStream, ListPanels, BindHere, BindElsewhere, Run, Finish, CloseStream
<1>3. inbox \in [Replicas -> Seq(Message)] /\ channels \in [Replicas -> SUBSET Chats]
  BY <1>0 DEF TypeInv, TypeOK, InboxOK
<1>4. ASSUME Subscribe(a, k, q), k \notin subscribed[a] PROVE Commanded(a, k, q, "subscribed")
  <2>1. /\ inbox' = [inbox EXCEPT ![a] = Append(@, Reply("subscribed", k, q))]
        /\ channels' = [channels EXCEPT ![a] = @ \cup {k}]
        /\ UNCHANGED <<subscribed, handlers>>
    BY <1>4 DEF Subscribe
  <2> QED  BY <1>2, <1>3, <1>4, <2>1 DEF Commanded
<1>5. ASSUME Unsubscribe(a, k, q), k \in subscribed[a] PROVE Commanded(a, k, q, "unsubscribed")
  <2>1. /\ inbox' = [inbox EXCEPT ![a] = Append(@, Reply("unsubscribed", k, q))]
        /\ channels' = [channels EXCEPT ![a] = @ \ {k}]
        /\ UNCHANGED <<subscribed, handlers>>
    BY <1>5 DEF Unsubscribe
  <2> QED  BY <1>2, <1>3, <1>5, <2>1 DEF Commanded
<1>6. CASE SubscribeStream(q)
  <2>1. /\ request[q].pc = "subscribe" /\ Subscribe(a, k, q)
        /\ request' = [request EXCEPT ![q].pc = IF k \in subscribed[a] THEN "bind" ELSE "await"]
    BY <1>1, <1>6 DEF SubscribeStream
  <2>2. CASE k \in subscribed[a]  BY <1>2, <2>1, <2>2 DEF Subscribe
  <2>3. CASE k \notin subscribed[a]
    <3>1. request'[q].pc = "await"  BY <1>0, <2>1, <2>3, Moved
    <3> QED  BY <1>1, <1>2, <1>4, <2>1, <2>3, <3>1
  <2> QED  BY <2>2, <2>3
<1>7. CASE BindHere(q)
  <2>1. PICK todo :
          /\ Subscribe(a, k, q)
          /\ request' = [request EXCEPT ![q].todo = todo,
                           ![q].pc = IF k \in subscribed[a] THEN "bind" ELSE "await"]
          /\ request[q].todo # {}
    BY <1>1, <1>7 DEF BindHere
  <2>2. CASE k \in subscribed[a]  BY <1>2, <2>1, <2>2 DEF Subscribe
  <2>3. CASE k \notin subscribed[a]
    <3>1. request'[q].pc = "await"  BY <1>0, <2>1, <2>3, Moved
    <3>2. ~ Active(q)  BY <1>0, <2>1 DEF Active, Planned
    <3> QED  BY <1>1, <1>2, <1>4, <2>1, <2>3, <3>1, <3>2
  <2> QED  BY <2>2, <2>3
<1>8. CASE Finish(q) /\ request[q].kind = "stream"
  <2>1. /\ request[q].pc = "run" /\ Unsubscribe(a, k, q)
        /\ request' = [request EXCEPT ![q].pc = IF k \in subscribed[a] THEN "await" ELSE "close"]
    BY <1>1, <1>8 DEF Finish
  <2>2. CASE k \notin subscribed[a]  BY <1>2, <2>1, <2>2 DEF Unsubscribe
  <2>3. CASE k \in subscribed[a]
    <3>1. request'[q].pc = "await"  BY <1>0, <2>1, <2>3, Moved
    <3>2. Active(q)  BY <1>8, <2>1 DEF Active, Begun
    <3> QED  BY <1>1, <1>2, <1>5, <2>1, <2>3, <3>1, <3>2
  <2> QED  BY <2>2, <2>3
<1>9. CASE Finish(q) /\ request[q].kind # "stream"  BY <1>2, <1>9 DEF Finish
<1>10. CASE ListPanels(q) \/ BindElsewhere(q) \/ Run(q) \/ CloseStream(q)
  BY <1>2, <1>10 DEF ListPanels, BindElsewhere, Run, CloseStream
<1> QED  BY <1>6, <1>7, <1>8, <1>9, <1>10 DEF RequestStep

(* The commands that no request awaits: a bind message subscribes, the     *)
(* clean-up unsubscribes.                                                  *)
LEMMA AsideCommand ==
  ASSUME TypeInv, NEW r \in Replicas, NEW k \in Chats, UNCHANGED emitted
  PROVE  /\ Subscribe(r, k, Nobody) =>
              UNCHANGED subscriber \/ Commanded(r, k, Nobody, "subscribed")
         /\ Unsubscribe(r, k, Nobody) =>
              UNCHANGED subscriber \/ Commanded(r, k, Nobody, "unsubscribed")
<1>1. inbox \in [Replicas -> Seq(Message)] /\ channels \in [Replicas -> SUBSET Chats]
  BY DEF TypeInv, TypeOK, InboxOK
<1>2. ASSUME Subscribe(r, k, Nobody), k \notin subscribed[r]
      PROVE  Commanded(r, k, Nobody, "subscribed")
  <2>1. /\ inbox' = [inbox EXCEPT ![r] = Append(@, Reply("subscribed", k, Nobody))]
        /\ channels' = [channels EXCEPT ![r] = @ \cup {k}]
        /\ UNCHANGED <<subscribed, handlers>>
    BY <1>2 DEF Subscribe
  <2> QED  BY <1>1, <1>2, <2>1 DEF Commanded
<1>3. ASSUME Unsubscribe(r, k, Nobody), k \in subscribed[r]
      PROVE  Commanded(r, k, Nobody, "unsubscribed")
  <2>1. /\ inbox' = [inbox EXCEPT ![r] = Append(@, Reply("unsubscribed", k, Nobody))]
        /\ channels' = [channels EXCEPT ![r] = @ \ {k}]
        /\ UNCHANGED <<subscribed, handlers>>
    BY <1>3 DEF Unsubscribe
  <2> QED  BY <1>1, <1>3, <2>1 DEF Commanded
<1> QED  BY <1>2, <1>3 DEF Subscribe, Unsubscribe

(* A step of a request keeps MailInv. *)
LEMMA MailStep ==
  ASSUME StreamInv, MailInv, NEW q \in Requests, RequestStep(q)
  PROVE  MailInv'
<1>0. TypeInv /\ StreamsOK  BY DEF StreamInv, ChannelInv
<1>1. PICK a \in Replicas, k \in Chats :
        /\ request[q].at = a /\ request[q].chat = k
        /\ Begun(request, q) /\ request[q].pc # "await" /\ Begun(request', q)
        /\ request'[q].kind = request[q].kind /\ request'[q].chat = k /\ request'[q].at = a
        /\ \A p \in Requests : p # q => request'[p] = request[p]
  BY StepIs
<1>2. Carried /\ \A p \in Requests : AwaitKept(p)  BY <1>1 DEF Carried, Begun, AwaitKept
<1>3. CASE UNCHANGED subscriber
  <2>1. UNCHANGED emitted  BY StepCommand
  <2> QED  BY <1>0, <1>2, <1>3, <2>1, MailSame
<1>4. CASE request'[q].pc = "await" /\ Commanded(a, k, q, "subscribed")
  <2>1. "subscribed" # "unsubscribed" /\ q \in Requests \cup {Nobody}  OBVIOUS
  <2> QED  BY <1>0, <1>1, <1>2, <1>4, <2>1, MailCommand
<1>5. CASE /\ request'[q].pc = "await" /\ Commanded(a, k, q, "unsubscribed")
           /\ Active(q) /\ request[q].pc = "run"
  <2>1. NoReplies(a, k)  BY <1>0, <1>1, <1>5 DEF StreamsOK, StreamOK
  <2>2. \A i \in Mail(a) : ~ (inbox[a][i].kind = "unsubscribed" /\ inbox[a][i].chat = k)
    BY <2>1 DEF NoReplies, IsReply
  <2>3. request'[q].kind = "stream"  BY <1>1, <1>5 DEF Active
  <2>4. q \in Requests \cup {Nobody}  OBVIOUS
  <2> QED  BY <1>0, <1>1, <1>2, <1>5, <2>2, <2>3, <2>4, MailCommand
<1> QED  BY <1>1, <1>3, <1>4, <1>5, StepCommand

(* The clean-up of a replica keeps MailInv. *)
LEMMA MailSweep ==
  ASSUME StreamInv, MailInv, NEW r \in Replicas, NEW k \in Chats, Sweep(r, k)
  PROVE  MailInv'
<1>0. TypeInv /\ StreamsOK /\ RepliesOK  BY DEF StreamInv, ChannelInv
<1>1. /\ clients[r][k] = Nobody
      /\ \A i \in Mail(r) : inbox[r][i] # Reply("unsubscribed", k, Nobody)
      /\ Unsubscribe(r, k, Nobody) /\ UNCHANGED <<request, emitted>>
  <2>1. inbox[r] \in Seq(Message)  BY <1>0 DEF TypeInv, InboxOK
  <2>2. DOMAIN inbox[r] = Mail(r)  BY <2>1 DEF Mail
  <2> QED  BY <2>2 DEF Sweep, HasClient
<1>2. Carried /\ \A p \in Requests : AwaitKept(p)  BY <1>1 DEF Carried, AwaitKept
<1>3. ASSUME NEW i \in Mail(r), inbox[r][i].kind = "unsubscribed", inbox[r][i].chat = k
      PROVE  FALSE
  <2>1. /\ inbox[r][i] = Reply("unsubscribed", k, inbox[r][i].by)
        /\ inbox[r][i].by \in Requests => request[inbox[r][i].by].kind = "stream"
    BY <1>3 DEF MailInv, UnsubscribedLast
  <2>2. inbox[r][i].by # Nobody  BY <1>1, <2>1
  <2>3. PICK p \in Requests : p = inbox[r][i].by
    <3>1. inbox[r][i] \in Message  BY <1>0 DEF TypeInv, InboxOK, Mail
    <3> QED  BY <2>2, <3>1 DEF Message
  <2>4. request[p].at = r /\ request[p].chat = k /\ request[p].pc = "await" /\ request[p].kind = "stream"
    BY <1>0, <1>3, <2>1, <2>3 DEF RepliesOK
  <2>5. Active(p)  BY <2>4 DEF Active, Begun
  <2> QED  BY <1>0, <1>1, <2>4, <2>5, RelayAssumption DEF StreamsOK, StreamOK
<1>4. Nobody \notin Requests /\ Nobody \in Requests \cup {Nobody}  BY RelayAssumption
<1>5. CASE UNCHANGED subscriber  BY <1>0, <1>1, <1>2, <1>5, MailSame
<1>6. CASE Commanded(r, k, Nobody, "unsubscribed")
  BY <1>0, <1>2, <1>3, <1>4, <1>6, MailCommand
<1> QED  BY <1>0, <1>1, <1>5, <1>6, AsideCommand

(* Taking a bind message keeps MailInv. *)
LEMMA MailTakeBind ==
  ASSUME StreamInv, MailInv, NEW b \in binds, TakeBind(b)
  PROVE  MailInv'
<1>0. TypeInv  BY DEF StreamInv, ChannelInv
<1>1. b.to \in Replicas /\ b.chat \in Chats  BY <1>0 DEF TypeInv, TypeOK
<1>2. /\ Subscribe(b.to, b.chat, Nobody) \/ UNCHANGED subscriber
      /\ UNCHANGED <<request, emitted>>
  BY DEF TakeBind
<1>3. Carried /\ \A p \in Requests : AwaitKept(p)  BY <1>2 DEF Carried, AwaitKept
<1>4. /\ Nobody \notin Requests /\ Nobody \in Requests \cup {Nobody}
      /\ "subscribed" # "unsubscribed"
  BY RelayAssumption
<1>5. CASE UNCHANGED subscriber  BY <1>0, <1>2, <1>3, <1>5, MailSame
<1>6. CASE Commanded(b.to, b.chat, Nobody, "subscribed")
  BY <1>0, <1>1, <1>3, <1>4, <1>6, MailCommand
<1> QED  BY <1>0, <1>1, <1>2, <1>5, <1>6, AsideCommand

(* No mail at the start. *)
LEMMA MailInit == Init => MailInv
<1> SUFFICES ASSUME Init PROVE MailInv
  OBVIOUS
<1>1. \A r \in Replicas : inbox[r] = << >>  BY DEF Init
<1>2. Counted  BY DEF Init, Counted
<1> QED  BY <1>1, <1>2 DEF MailInv, UnsubscribedLast, EventsOK, RepliesAwaited, Mail

(* MailInv is inductive, given StreamInv. *)
LEMMA MailNext == StreamInv /\ MailInv /\ [Next]_vars => MailInv'
<1> SUFFICES ASSUME StreamInv, MailInv, [Next]_vars PROVE MailInv'
  OBVIOUS
<1>0. TypeInv /\ ChannelInv /\ RepliesOK  BY DEF StreamInv, ChannelInv
<1>1. ASSUME UNCHANGED <<subscriber, emitted, request>> PROVE MailInv'
  <2>1. Carried /\ \A p \in Requests : AwaitKept(p)  BY <1>1 DEF Carried, AwaitKept
  <2> QED  BY <1>0, <1>1, <2>1, MailSame
<1>2. CASE UNCHANGED vars  BY <1>1, <1>2 DEF vars, subscriber
<1>3. ASSUME NEW q \in Requests, Begin(q) PROVE MailInv'
  <2>1. request[q].pc = "new" /\ UNCHANGED <<subscriber, emitted>>  BY <1>3 DEF Begin
  <2>2. \A p \in Requests : p # q => request'[p] = request[p]
    <3>1. request \in [Requests -> RequestType]  BY <1>0 DEF TypeInv, RequestsOK
    <3> QED  BY <1>3, <3>1 DEF Begin
  <2>3. Carried /\ \A p \in Requests : AwaitKept(p)
    BY <2>1, <2>2 DEF Carried, Begun, AwaitKept
  <2> QED  BY <1>0, <2>1, <2>3, MailSame
<1>4. ASSUME NEW q \in Requests, RequestStep(q) PROVE MailInv'
  BY <1>4, MailStep
<1>5. ASSUME NEW q \in Requests, Emit(q) PROVE MailInv'
  BY <1>0, <1>5, MailEmit
<1>6. ASSUME NEW r \in Replicas, Take(r) PROVE MailInv'
  BY <1>0, <1>6, MailTake
<1>7. ASSUME NEW r \in Replicas, NEW k \in Chats, Sweep(r, k) PROVE MailInv'
  BY <1>7, MailSweep
<1>8. ASSUME NEW l \in Listeners,
             \/ \E r \in Replicas : Open(l, r)
             \/ Heartbeat(l) \/ Vanish(l) \/ Unregister(l) \/ Close(l) \/ Leave(l)
      PROVE  MailInv'
  BY <1>1, <1>8 DEF Open, Heartbeat, Vanish, Unregister, Close, Leave
<1>9. CASE TakeSomeBind  BY <1>9, MailTakeBind DEF TakeSomeBind
<1> QED  BY <1>2, <1>3, <1>4, <1>5, <1>6, <1>7, <1>8, <1>9 DEF Next
---------------------------------------------------------------------------
(***************************************************************************)
(* ResponseInv: whose responses are open, and where.                       *)
(***************************************************************************)
PanelsKept ==
  \A l \in Listeners : panel[l].pc # "off" => panel'[l].pc # "off" /\ panel'[l].at = panel[l].at

OpenedKept == \A p \in Requests : Opened(p) => Opened(p)'

(* What a step does to the responses: a new one is opened, of a panel or   *)
(* of a request whose response was not open yet, ... *)
Opens(r, id, who) ==
  /\ AddClient(r, id, who) /\ UNCHANGED <<observers, heard>>
  /\ \/ /\ id \in Chats /\ who \in Requests /\ ~ Opened(who) /\ Opened(who)'
        /\ request'[who].at = r /\ request'[who].chat = id
     \/ /\ id \in Listeners /\ who = id
        /\ panel[id].pc = "off" /\ panel'[id].pc # "off" /\ panel'[id].at = r

(* ... a panel observes the chat of a webhook, ... *)
Watches(r, k, l) ==
  /\ observers' = [observers EXCEPT ![r][k] = @ \cup {l}]
  /\ UNCHANGED <<clients, heard>>
  /\ \E q \in Requests : Begun(request, q) /\ request[q].kind # "stream" /\ request[q].chat = k

(* ... or an event is written. *)
Writes(r) ==
  LET m == Head(inbox[r])
  IN  /\ TakeEvent(r) /\ m \in Message /\ m.kind = "event"
      /\ m.by \in Requests /\ Begun(request, m.by) /\ m.chat = request[m.by].chat
      /\ UNCHANGED <<clients, request, panel>>
      /\ SafeWrite(r, m.chat, [of |-> m.by, n |-> m.n], handlers[r][m.chat])

StreamerIs ==
  \/ UNCHANGED streamer
  \/ \E r \in Replicas, id \in Chats \cup Listeners, who \in Requests \cup Listeners : Opens(r, id, who)
  \/ \E r \in Replicas, k \in Chats, l \in Listeners : Watches(r, k, l)
  \/ \E r \in Replicas : Writes(r)
  \/ \E r \in Replicas, id \in Chats \cup Listeners : RemoveClient(r, id)

ResponseStep == Carried /\ OpenedKept /\ PanelsKept /\ StreamerIs

(* A request begins: its response, if any, is new. *)
LEMMA ResponseBegin ==
  ASSUME TypeInv, NEW q \in Requests, Begin(q)
  PROVE  ResponseStep
<1>1. PICK plan \in Plans[q] :
        /\ request' = [request EXCEPT ![q] =
             [pc |-> IF plan.kind = "stream" THEN "subscribe" ELSE "list",
              kind |-> plan.kind, chat |-> plan.chat, at |-> plan.at, todo |-> {}]]
        /\ IF plan.kind = "stream" THEN AddClient(plan.at, plan.chat, q) ELSE UNCHANGED clients
  BY DEF Begin
<1>2. plan.chat \in Chats /\ plan.at \in Replicas
  BY RelayAssumption
<1>3. request[q].pc = "new" /\ UNCHANGED <<observers, heard, panel>>
  BY DEF Begin, watchers
<1>4. request \in [Requests -> RequestType]
  BY DEF TypeInv, RequestsOK
<1>5. /\ request'[q].pc = IF plan.kind = "stream" THEN "subscribe" ELSE "list"
      /\ request'[q].kind = plan.kind /\ request'[q].chat = plan.chat /\ request'[q].at = plan.at
      /\ \A p \in Requests : p # q => request'[p] = request[p]
  BY <1>1, <1>4
<1>6. ~ Opened(q)
  BY <1>3 DEF Opened, Begun
<1>7. Carried
  BY <1>3, <1>5 DEF Carried, Begun
<1>8. OpenedKept
  BY <1>5, <1>6 DEF OpenedKept, Opened, Begun
<1>9. PanelsKept
  BY <1>3 DEF PanelsKept
<1>10. StreamerIs
  <2>1. CASE plan.kind = "stream"
    <3>1. Opened(q)'
      BY <1>5, <2>1 DEF Opened, Begun
    <3> QED  BY <1>1, <1>2, <1>3, <1>5, <1>6, <2>1, <3>1 DEF StreamerIs, Opens
  <2>2. CASE plan.kind # "stream"
    BY <1>1, <1>3, <2>2 DEF StreamerIs, streamer
  <2> QED  BY <2>1, <2>2
<1> QED  BY <1>7, <1>8, <1>9, <1>10 DEF ResponseStep

(* A step of a request and the responses. *)
LEMMA ResponseRequest ==
  ASSUME StreamInv, NEW q \in Requests, RequestStep(q)
  PROVE  ResponseStep
<1> DEFINE u == request[q]
<1>0. TypeInv /\ Planned
  BY DEF StreamInv, ChannelInv
<1>1. /\ Begun(request, q) /\ u.pc \notin {"done", "await"} /\ Begun(request', q)
      /\ u.at \in Replicas /\ u.chat \in Chats
      /\ request'[q].kind = u.kind /\ request'[q].chat = u.chat /\ request'[q].at = u.at
      /\ \A p \in Requests : p # q => request'[p] = request[p]
  BY StepIs
<1>2. UNCHANGED panel
  BY DEF RequestStep, SubscribeStream, ListPanels, BindHere, BindElsewhere, Run, Finish, CloseStream,
         watchers
<1>3. Carried
  <2> SUFFICES ASSUME NEW p \in Requests, Begun(request, p)
               PROVE  /\ Begun(request', p) /\ request'[p].kind = request[p].kind
                      /\ request'[p].chat = request[p].chat /\ request'[p].at = request[p].at
    BY DEF Carried
  <2>1. CASE p = q  BY <1>1, <2>1
  <2>2. CASE p # q  BY <1>1, <2>2 DEF Begun
  <2> QED  BY <2>1, <2>2
<1>4. PanelsKept
  BY <1>2 DEF PanelsKept
<1>5. request \in [Requests -> RequestType]
  BY <1>0 DEF TypeInv, RequestsOK
<1>6. u.pc = "run" /\ u.kind # "stream" => request'[q].pc = "done"
  <2> SUFFICES ASSUME u.pc = "run", u.kind # "stream" PROVE request'[q].pc = "done"
    OBVIOUS
  <2>1. Finish(q)
    BY DEF RequestStep, SubscribeStream, ListPanels, BindHere, BindElsewhere, Run, CloseStream
  <2>2. request' = [request EXCEPT ![q].pc = "done"]
    BY <2>1 DEF Finish
  <2> QED  BY <1>5, <2>2
<1>7. OpenedKept
  BY <1>1, <1>6 DEF OpenedKept, Opened, Begun
<1>8. StreamerIs
  <2>1. CASE SubscribeStream(q) \/ ListPanels(q) \/ BindElsewhere(q)
    BY <2>1 DEF SubscribeStream, ListPanels, BindElsewhere, StreamerIs
  <2>2. CASE BindHere(q)
    <3>1. PICK e \in u.todo : observers' = [observers EXCEPT ![u.at][u.chat] = @ \cup {e[1]}]
      BY <2>2 DEF BindHere
    <3>2. UNCHANGED <<clients, heard>>
      BY <2>2 DEF BindHere
    <3>3. e[1] \in Listeners
      BY <1>5 DEF RequestType
    <3>4. u.kind # "stream"
      BY <1>0, <1>1 DEF Planned
    <3> QED  BY <1>1, <3>1, <3>2, <3>3, <3>4 DEF StreamerIs, Watches
  <2>3. CASE Run(q)
    <3>1. CASE u.kind = "webhookStream"
      <4>1. AddClient(u.at, u.chat, q) /\ UNCHANGED <<observers, heard>> /\ u.pc = "bind"
            /\ request' = [request EXCEPT ![q].pc = "run"]
        BY <2>3, <3>1 DEF Run
      <4>2. request'[q].pc = "run"
        BY <1>5, <4>1
      <4>3. ~ Opened(q) /\ Opened(q)'
        BY <1>1, <3>1, <4>1, <4>2 DEF Opened
      <4> QED  BY <1>1, <4>1, <4>3 DEF StreamerIs, Opens
    <3>2. CASE u.kind # "webhookStream"
      BY <2>3, <3>2 DEF Run, StreamerIs, streamer
    <3> QED  BY <3>1, <3>2
  <2>4. CASE Finish(q)
    <3>1. UNCHANGED streamer \/ RemoveClient(u.at, u.chat)
      BY <2>4 DEF Finish
    <3> QED  BY <1>1, <3>1 DEF StreamerIs
  <2>5. CASE CloseStream(q)
    BY <1>1, <2>5 DEF CloseStream, StreamerIs
  <2> QED  BY <2>1, <2>2, <2>3, <2>4, <2>5 DEF RequestStep
<1> QED  BY <1>3, <1>4, <1>7, <1>8 DEF ResponseStep

(* Taking a message and the responses. *)
LEMMA ResponseTake ==
  ASSUME StreamInv, MailInv, NEW r \in Replicas, Take(r)
  PROVE  ResponseStep
<1> DEFINE m == Head(inbox[r])
<1>0. TypeInv
  BY DEF StreamInv, ChannelInv
<1>1. /\ Carried
      /\ \A p \in Requests : IsReplyTo(m, p) \/ request'[p] = request[p]
  BY <1>0, CarriedTake
<1>2. /\ inbox[r] # << >> /\ UNCHANGED <<clients, panel>> /\ m \in Message
      /\ \/ m.kind = "event" /\ TakeEvent(r) /\ UNCHANGED request
         \/ m.kind # "event" /\ UNCHANGED <<observers, heard>>
  BY <1>0, TakeIs DEF TakenFrom
<1>3. 1 \in Mail(r) /\ m = inbox[r][1]
  <2>1. inbox[r] \in Seq(Message)
    BY <1>0 DEF TypeInv, InboxOK
  <2> QED  BY <1>2, <2>1, Taken DEF Mail
<1>4. PanelsKept
  BY <1>2 DEF PanelsKept
<1>5. OpenedKept
  <2> SUFFICES ASSUME NEW p \in Requests, Opened(p) PROVE Opened(p)'
    BY DEF OpenedKept
  <2>1. CASE IsReplyTo(m, p)
    <3>1. request[p].pc = "await"
      BY <1>3, <2>1 DEF MailInv, RepliesAwaited
    <3>2. Begun(request, p) /\ request[p].kind = "stream"
      BY <3>1 DEF Opened
    <3> QED  BY <1>1, <3>2 DEF Carried, Opened
  <2>2. CASE request'[p] = request[p]
    BY <2>2 DEF Opened, Begun
  <2> QED  BY <1>1, <2>1, <2>2
<1>6. StreamerIs
  <2>1. CASE m.kind = "event" /\ TakeEvent(r) /\ UNCHANGED request
    <3>1. EventOK(r, 1, m.by, m.chat, m.n)
      BY <1>3, <2>1 DEF MailInv, EventsOK
    <3>2. SafeWrite(r, m.chat, [of |-> m.by, n |-> m.n], handlers[r][m.chat])
      BY <2>1 DEF TakeEvent
    <3>3. Writes(r)
      BY <1>2, <2>1, <3>1, <3>2 DEF Writes, EventOK
    <3> QED  BY <3>3 DEF StreamerIs
  <2>2. CASE UNCHANGED <<observers, heard>>
    BY <1>2, <2>2 DEF StreamerIs, streamer
  <2> QED  BY <1>2, <2>1, <2>2
<1> QED  BY <1>1, <1>4, <1>5, <1>6 DEF ResponseStep

(* A panel comes or goes. *)
LEMMA ResponsePanel ==
  ASSUME StreamInv, NEW l \in Listeners,
         \/ \E r \in Replicas : Open(l, r)
         \/ Heartbeat(l) \/ Vanish(l) \/ Unregister(l) \/ Close(l) \/ Leave(l)
  PROVE  ResponseStep
<1>0. TypeInv
  BY DEF StreamInv, ChannelInv
<1>1. UNCHANGED request
  BY PanelResponse
<1>2. Carried /\ OpenedKept
  BY <1>1 DEF Carried, OpenedKept, Opened, Begun
<1>3. panel \in [Listeners -> PanelType] /\ \A a \in Listeners : panel[a].pc # "off" => panel[a].at \in Replicas
  BY <1>0 DEF TypeInv, PanelsOK
<1>4. PanelsKept
  BY <1>3 DEF PanelsKept, PanelType, Open, Heartbeat, Vanish, Unregister, Close, Leave
<1>5. StreamerIs
  <2>1. ASSUME NEW r \in Replicas, Open(l, r) PROVE StreamerIs
    <3>1. /\ panel[l].pc = "off" /\ AddClient(r, l, l) /\ UNCHANGED <<observers, heard>>
          /\ panel'[l].pc # "off" /\ panel'[l].at = r
      BY <1>3, <2>1 DEF Open
    <3> QED  BY <3>1 DEF StreamerIs, Opens
  <2>2. CASE Heartbeat(l) \/ Vanish(l) \/ Unregister(l) \/ Leave(l)
    BY <2>2 DEF Heartbeat, Vanish, Unregister, Leave, StreamerIs
  <2>3. CASE Close(l)
    BY <1>3, <2>3 DEF Close, StreamerIs
  <2> QED  BY <2>1, <2>2, <2>3
<1> QED  BY <1>2, <1>4, <1>5 DEF ResponseStep

(* Every step is one of those ResponseStep names. *)
LEMMA ResponseIs == StreamInv /\ MailInv /\ [Next]_vars => ResponseStep
<1> SUFFICES ASSUME StreamInv, MailInv, [Next]_vars PROVE ResponseStep
  OBVIOUS
<1>0. TypeInv
  BY DEF StreamInv, ChannelInv
<1>1. ASSUME UNCHANGED <<streamer, request, panel>> PROVE ResponseStep
  BY <1>1 DEF ResponseStep, Carried, OpenedKept, PanelsKept, StreamerIs, Opened, Begun
<1>2. ASSUME NEW b \in binds, TakeBind(b) PROVE ResponseStep
  <2>1. UNCHANGED <<clients, heard, request, panel>>
    BY <1>2 DEF TakeBind, watchers
  <2>2. CASE HasClient(b.to, b.listener)
    <3>1. observers' = [observers EXCEPT ![b.to][b.chat] = @ \cup {b.listener}]
      BY <1>2, <2>2 DEF TakeBind
    <3>2. b.to \in Replicas /\ b.listener \in Listeners /\ b.chat \in Chats
      BY <1>0 DEF TypeInv, TypeOK
    <3>3. Watches(b.to, b.chat, b.listener)
      BY <2>1, <3>1 DEF StreamInv, BindsOK, Watches
    <3>4. StreamerIs
      BY <3>2, <3>3 DEF StreamerIs
    <3> QED  BY <2>1, <3>4 DEF ResponseStep, Carried, OpenedKept, PanelsKept, Opened, Begun
  <2>3. CASE ~ HasClient(b.to, b.listener)
    BY <1>1, <1>2, <2>1, <2>3 DEF TakeBind, streamer
  <2> QED  BY <2>2, <2>3
<1>3. CASE UNCHANGED vars
  BY <1>1, <1>3 DEF vars, streamer
<1>4. ASSUME NEW q \in Requests, Emit(q) PROVE ResponseStep
  BY <1>1, <1>4 DEF Emit, watchers
<1>5. ASSUME NEW r \in Replicas, NEW k \in Chats, Sweep(r, k) PROVE ResponseStep
  BY <1>1, <1>5 DEF Sweep, watchers
<1> QED
  BY <1>0, <1>2, <1>3, <1>4, <1>5, ResponseBegin, ResponseRequest, ResponseTake, ResponsePanel
  DEF Next, TakeSomeBind

(* What is told to a response comes after what it was told before. *)
Extends(s, t, e) ==
  /\ 1..Len(s) \subseteq 1..Len(t)
  /\ \A i \in 1..Len(s) : t[i] = s[i]
  /\ \A i \in 1..Len(t) : i \in 1..Len(s) \/ (t[i] = e /\ \A j \in 1..Len(s) : j < i)

Told(s, e, n) == s \o [i \in 1..n |-> e]

(* What telling the same note n times adds. *)
LEMMA Repeated ==
  ASSUME NEW s \in Seq(Note), NEW e \in Note, NEW n \in Nat
  PROVE  /\ Told(s, e, n) \in Seq(Note) /\ Extends(s, Told(s, e, n), e)
         /\ n = 0 => Told(s, e, n) = s
         /\ n # 0 => \E i \in 1..Len(Told(s, e, n)) : i \notin 1..Len(s)
<1> DEFINE t == Told(s, e, n)
<1> DEFINE c == [i \in 1..n |-> e]
<1>1. c \in Seq(Note) /\ Len(c) = n /\ \A i \in 1..n : c[i] = e
  OBVIOUS
<1> HIDE DEF c
<1>0. /\ s \o c \in Seq(Note) /\ Len(s \o c) = Len(s) + n /\ Len(s) \in Nat
      /\ \A i \in 1..Len(s) : (s \o c)[i] = s[i]
      /\ \A i \in 1..Len(s \o c) : i > Len(s) => (s \o c)[i] = c[i - Len(s)]
      /\ c = << >> => s \o c = s
  BY <1>1
<1>2. /\ t \in Seq(Note) /\ Len(t) = Len(s) + n /\ Len(s) \in Nat
      /\ \A i \in 1..Len(s) : t[i] = s[i]
      /\ \A i \in 1..Len(t) : i > Len(s) => t[i] = c[i - Len(s)]
      /\ c = << >> => t = s
  BY <1>0 DEF Told, c
<1> HIDE DEF t
<1>3. \A i \in 1..Len(s) : t[i] = s[i]
  BY <1>1, <1>2
<1>4. ASSUME NEW i \in 1..Len(t), i \notin 1..Len(s) PROVE t[i] = e /\ \A j \in 1..Len(s) : j < i
  <2>1. i > Len(s) /\ i - Len(s) \in 1..n
    BY <1>2, <1>4
  <2>2. t[i] = c[i - Len(s)]
    BY <1>1, <1>2, <2>1
  <2> QED  BY <1>1, <2>1, <2>2
<1>5. 1..Len(s) \subseteq 1..Len(t)
  BY <1>2
<1>6. n = 0 => t = s
  <2> SUFFICES ASSUME n = 0 PROVE t = s
    OBVIOUS
  <2>1. c = << >>
    BY <1>1
  <2> QED  BY <1>2, <2>1
<1>7. n # 0 => \E i \in 1..Len(t) : i \notin 1..Len(s)
  <2> SUFFICES ASSUME n # 0 PROVE Len(s) + 1 \in 1..Len(t) /\ Len(s) + 1 \notin 1..Len(s)
    OBVIOUS
  <2> QED  BY <1>2
<1> QED  BY <1>2, <1>3, <1>4, <1>5, <1>6, <1>7 DEF Extends, t

(* What one more note adds. *)
LEMMA Added ==
  ASSUME NEW s \in Seq(Note), NEW e \in Note, NEW t, t = Append(s, e)
  PROVE  t \in Seq(Note) /\ Extends(s, t, e) /\ \E i \in 1..Len(t) : i \notin 1..Len(s)
<1>1. /\ t \in Seq(Note) /\ Len(t) = Len(s) + 1 /\ Len(s) \in Nat /\ t[Len(s) + 1] = e
      /\ \A i \in 1..Len(s) : t[i] = s[i]
  OBVIOUS
<1>2. Len(s) + 1 \in 1..Len(t) /\ Len(s) + 1 \notin 1..Len(s)
  BY <1>1
<1>3. \A i \in 1..Len(t) : i \in 1..Len(s) \/ (i = Len(s) + 1 /\ \A j \in 1..Len(s) : j < i)
  BY <1>1
<1> QED  BY <1>1, <1>2, <1>3 DEF Extends

(* Who is told of an event, and who is told of an end. *)
LEMMA HeardWrite ==
  ASSUME TypeInv, HeardOK, NEW r \in Replicas, Writes(r), NEW x \in Listeners \cup Requests
  PROVE  LET m == Head(inbox[r])
             e == [of |-> m.by, n |-> m.n]
         IN  /\ e \in Note /\ heard'[x] \in Seq(Note) /\ Extends(heard[x], heard'[x], e)
             /\ heard'[x] # heard[x] => x \in Reached(r, m.chat) /\ handlers[r][m.chat] # 0
             /\ x \in Reached(r, m.chat) /\ handlers[r][m.chat] # 0 =>
                  \E i \in 1..Len(heard'[x]) : i \notin 1..Len(heard[x])
<1> DEFINE m == Head(inbox[r])
           e == [of |-> m.by, n |-> m.n]
           c == handlers[r][m.chat]
           t == Told(heard[x], e, c)
<1>1. m \in Message /\ m.by \in Requests /\ SafeWrite(r, m.chat, e, c)
  BY DEF Writes
<1>2. e \in Note
  BY <1>1 DEF Message, Note
<1>3. c \in Nat
  BY <1>1 DEF Message, TypeInv, TypeOK
<1>4. heard[x] \in Seq(Note)
  BY DEF HeardOK
<1>5. heard'[x] = IF x \in Reached(r, m.chat) THEN t ELSE heard[x]
  BY <1>1 DEF SafeWrite, Told
<1>6. /\ t \in Seq(Note) /\ Extends(heard[x], t, e) /\ (c = 0 => t = heard[x])
      /\ c # 0 => \E i \in 1..Len(t) : i \notin 1..Len(heard[x])
  <2> HIDE DEF e, c
  <2> QED  BY <1>2, <1>3, <1>4, Repeated
<1>7. Extends(heard[x], heard[x], e)
  BY DEF Extends
<1> HIDE DEF t, c
<1>8. CASE x \in Reached(r, m.chat)
  BY <1>2, <1>5, <1>6, <1>8 DEF c
<1>9. CASE x \notin Reached(r, m.chat)
  BY <1>2, <1>4, <1>5, <1>7, <1>9
<1> QED  BY <1>8, <1>9

(* A client that is removed hears at most the end of the chat. *)
LEMMA HeardRemove ==
  ASSUME HeardOK, NEW r \in Replicas, NEW id \in Chats \cup Listeners, RemoveClient(r, id),
         NEW x \in Listeners \cup Requests
  PROVE  LET e == [of |-> id, n |-> 0]
         IN  \/ heard'[x] = heard[x] /\ (id \in Listeners \/ x \notin Reached(r, id))
             \/ /\ id \in Chats /\ e \in Note /\ heard'[x] \in Seq(Note)
                /\ Extends(heard[x], heard'[x], e)
                /\ \E i \in 1..Len(heard'[x]) : i \notin 1..Len(heard[x])
                /\ x \in Reached(r, id)
<1> DEFINE e == [of |-> id, n |-> 0]
<1>1. heard'[x] = IF id \in Chats /\ x \in Reached(r, id) THEN Append(heard[x], e) ELSE heard[x]
  BY DEF RemoveClient
<1>2. heard[x] \in Seq(Note)
  BY DEF HeardOK
<1>3. CASE id \in Chats /\ x \in Reached(r, id)
  <2>1. e \in Note
    BY <1>3 DEF Note
  <2> HIDE DEF e
  <2>2. /\ heard'[x] \in Seq(Note) /\ Extends(heard[x], heard'[x], e)
        /\ \E i \in 1..Len(heard'[x]) : i \notin 1..Len(heard[x])
    BY <1>1, <1>2, <1>3, <2>1, Added
  <2> QED  BY <1>3, <2>1, <2>2 DEF e
<1>4. CASE ~ (id \in Chats /\ x \in Reached(r, id))
  BY <1>1, <1>4
<1> QED  BY <1>3, <1>4

(* Who is reached is there. *)
LEMMA ReachedIs ==
  ASSUME TypeInv, PlacesOK, NEW r \in Replicas, NEW k \in Chats, NEW x \in Reached(r, k)
  PROVE  \/ x \in Listeners /\ panel[x].pc # "off" /\ panel[x].at = r /\ clients[r][x] = x
              /\ x \in observers[r][k]
         \/ x \in Requests /\ Opened(x) /\ request[x].at = r /\ request[x].chat = k
              /\ clients[r][k] = x
<1>1. PICK id \in {k} \cup observers[r][k] : x = clients[r][id] /\ x # Nobody
  BY DEF Reached
<1>2. observers[r][k] \subseteq Listeners
  BY DEF TypeInv, TypeOK
<1>3. CASE id = k
  BY <1>1, <1>3 DEF PlacesOK
<1>4. CASE id \in observers[r][k]
  BY <1>1, <1>2, <1>4 DEF PlacesOK
<1> QED  BY <1>1, <1>3, <1>4

(* What is heard tells of requests that have begun. *)
LEMMA HeardKept ==
  ASSUME TypeInv, ResponseInv, ResponseStep PROVE HeardOK'
<1>1. HeardOK /\ Carried
  BY DEF ResponseInv, ResponseStep
<1>2. \A p \in Requests : Begun(request, p) => Begun(request', p)
  BY <1>1 DEF Carried
<1>3. CASE UNCHANGED heard
  BY <1>1, <1>2, <1>3 DEF HeardOK, Begun
<1>4. SUFFICES ASSUME heard' = [x \in Listeners \cup Requests |-> heard'[x]],
                      \A x \in Listeners \cup Requests :
                        \/ heard'[x] = heard[x]
                        \/ /\ heard'[x] \in Seq(Note)
                           /\ \E e \in Note : /\ Extends(heard[x], heard'[x], e)
                                              /\ e.of \in Requests => Begun(request, e.of)
               PROVE  HeardOK'
  <2>0. Requests \cap Chats = {}
    BY RelayAssumption
  <2>1. ASSUME NEW r \in Replicas, Writes(r) PROVE HeardOK'
    <3>1. heard' = [x \in Listeners \cup Requests |-> heard'[x]]
      BY <2>1 DEF Writes, SafeWrite
    <3>2. ASSUME NEW x \in Listeners \cup Requests
          PROVE  /\ heard'[x] \in Seq(Note)
                 /\ \E e \in Note : /\ Extends(heard[x], heard'[x], e)
                                    /\ e.of \in Requests => Begun(request, e.of)
      BY <1>1, <2>1, HeardWrite DEF Writes
    <3> QED  BY <1>4, <3>1, <3>2
  <2>2. ASSUME NEW r \in Replicas, NEW id \in Chats \cup Listeners, RemoveClient(r, id) PROVE HeardOK'
    <3>1. heard' = [x \in Listeners \cup Requests |-> heard'[x]]
      BY <2>2 DEF RemoveClient
    <3>2. ASSUME NEW x \in Listeners \cup Requests
          PROVE  \/ heard'[x] = heard[x]
                 \/ /\ heard'[x] \in Seq(Note)
                    /\ \E e \in Note : /\ Extends(heard[x], heard'[x], e)
                                       /\ e.of \in Requests => Begun(request, e.of)
      BY <1>1, <2>0, <2>2, HeardRemove
    <3> QED  BY <1>4, <3>1, <3>2
  <2> QED  BY <1>3, <2>1, <2>2 DEF ResponseStep, StreamerIs, Opens, Watches, streamer
<1>5. heard' \in [Listeners \cup Requests -> Seq(Note)]
  BY <1>1, <1>4 DEF HeardOK
<1>6. ASSUME NEW x \in Listeners \cup Requests, NEW i \in 1..Len(heard'[x]), heard'[x][i].of \in Requests
      PROVE  Begun(request', heard'[x][i].of)
  <2>0. CASE heard'[x] = heard[x]
    BY <1>1, <1>2, <1>6, <2>0 DEF HeardOK
  <2> SUFFICES ASSUME heard'[x] # heard[x] PROVE Begun(request', heard'[x][i].of)
    BY <2>0
  <2>1. PICK e \in Note : /\ Extends(heard[x], heard'[x], e)
                          /\ e.of \in Requests => Begun(request, e.of)
    BY <1>4
  <2>2. CASE i \in 1..Len(heard[x])
    BY <1>1, <1>2, <1>6, <2>1, <2>2 DEF HeardOK, Extends
  <2>3. CASE i \notin 1..Len(heard[x])
    BY <1>2, <1>6, <2>1, <2>3 DEF Extends
  <2> QED  BY <2>2, <2>3
<1> QED  BY <1>5, <1>6 DEF HeardOK

(* A step seen from one response, from one set of observers and from what  *)
(* one response has heard.                                                 *)
NewThere(r, id, who) ==
  /\ clients'[r][id] = who
  /\ \/ /\ id \in Chats /\ who \in Requests /\ ~ Opened(who) /\ Opened(who)'
        /\ request'[who].at = r /\ request'[who].chat = id
     \/ /\ id \in Listeners /\ who = id
        /\ panel[id].pc = "off" /\ panel'[id].pc # "off" /\ panel'[id].at = r

(* Who is connected after a step was, or has just come. *)
LEMMA ClientsIs ==
  ASSUME TypeInv, ResponseStep, NEW r \in Replicas, NEW id \in Chats \cup Listeners
  PROVE  \/ clients'[r][id] = clients[r][id]
         \/ clients'[r][id] = Nobody
         \/ /\ \E who \in Requests \cup Listeners : NewThere(r, id, who)
            /\ UNCHANGED <<observers, heard>>
<1>0. clients \in [Replicas -> [Chats \cup Listeners -> Requests \cup Listeners \cup {Nobody}]]
  BY DEF TypeInv, TypeOK
<1>1. ASSUME NEW s \in Replicas, NEW c \in Chats \cup Listeners, NEW who \in Requests \cup Listeners,
             Opens(s, c, who)
      PROVE  \/ clients'[r][id] = clients[r][id]
             \/ /\ \E p \in Requests \cup Listeners : NewThere(r, id, p)
                /\ UNCHANGED <<observers, heard>>
  <2>1. CASE s = r /\ c = id
    <3>1. clients'[r][id] = who
      BY <1>0, <1>1, <2>1 DEF Opens, AddClient
    <3> QED  BY <1>1, <2>1, <3>1 DEF Opens, NewThere
  <2>2. CASE s # r \/ c # id
    BY <1>1, <2>2, OtherResponse DEF Opens
  <2> QED  BY <2>1, <2>2
<1>2. ASSUME NEW s \in Replicas, NEW c \in Chats \cup Listeners, RemoveClient(s, c)
      PROVE  clients'[r][id] = clients[r][id] \/ clients'[r][id] = Nobody
  <2>1. CASE s = r /\ c = id
    BY <1>0, <1>2, <2>1 DEF RemoveClient
  <2>2. CASE s # r \/ c # id
    BY <1>2, <2>2, OtherResponse
  <2> QED  BY <2>1, <2>2
<1> QED  BY <1>1, <1>2 DEF ResponseStep, StreamerIs, streamer, Watches, Writes

(* Who observes after a step did, or has just begun to. *)
LEMMA ObserversIs ==
  ASSUME TypeInv, ResponseStep, NEW r \in Replicas, NEW k \in Chats
  PROVE  \/ observers'[r][k] \subseteq observers[r][k]
         \/ \E q \in Requests : Begun(request, q) /\ request[q].kind # "stream" /\ request[q].chat = k
<1>0. observers \in [Replicas -> [Chats -> SUBSET Listeners]]
  BY DEF TypeInv, TypeOK
<1>1. ASSUME NEW s \in Replicas, NEW c \in Chats, NEW l \in Listeners, Watches(s, c, l)
      PROVE  \/ observers'[r][k] \subseteq observers[r][k]
             \/ \E q \in Requests : Begun(request, q) /\ request[q].kind # "stream" /\ request[q].chat = k
  <2>1. CASE c = k
    BY <1>1, <2>1 DEF Watches
  <2>2. CASE c # k
    BY <1>0, <1>1, <2>2 DEF Watches
  <2> QED  BY <2>1, <2>2
<1>2. ASSUME NEW s \in Replicas, Writes(s) PROVE observers'[r][k] \subseteq observers[r][k]
  <2> DEFINE c == Head(inbox[s]).chat
  <2>1. c \in Chats
    BY <1>2 DEF Writes, Message
  <2>2. \/ observers' = observers
        \/ observers' = [observers EXCEPT ![s][c] = {l \in @ : HasClient(s, l)}]
    BY <1>2 DEF Writes, SafeWrite
  <2> HIDE DEF c
  <2> QED  BY <1>0, <2>1, <2>2
<1>3. ASSUME NEW s \in Replicas, NEW id \in Chats \cup Listeners, RemoveClient(s, id)
      PROVE  observers'[r][k] \subseteq observers[r][k]
  BY <1>0, <1>3 DEF RemoveClient
<1> QED  BY <1>1, <1>2, <1>3 DEF ResponseStep, StreamerIs, streamer, Opens

(* Only who is reached is told anything. *)
LEMMA HeardIs ==
  ASSUME TypeInv, HeardOK, ResponseStep, NEW x \in Listeners \cup Requests
  PROVE  heard'[x] = heard[x] \/ \E r \in Replicas, k \in Chats : x \in Reached(r, k)
<1>1. ASSUME NEW r \in Replicas, Writes(r), heard'[x] # heard[x]
      PROVE  \E k \in Chats : x \in Reached(r, k)
  <2>1. Head(inbox[r]).chat \in Chats
    BY <1>1 DEF Writes, Message
  <2> QED  BY <1>1, <2>1, HeardWrite
<1>2. ASSUME NEW r \in Replicas, NEW id \in Chats \cup Listeners, RemoveClient(r, id),
             heard'[x] # heard[x]
      PROVE  \E k \in Chats : x \in Reached(r, k)
  BY <1>2, HeardRemove
<1> QED  BY <1>1, <1>2 DEF ResponseStep, StreamerIs, streamer, Opens, Watches

(* A step keeps who is connected where. *)
LEMMA PlacesKept ==
  ASSUME TypeInv, TypeInv', ResponseInv, ResponseStep PROVE PlacesOK'
<1>1. HeardOK /\ PlacesOK /\ Carried /\ OpenedKept /\ PanelsKept
  BY DEF ResponseInv, ResponseStep
<1>2. ASSUME NEW r \in Replicas, NEW l \in Listeners, clients'[r][l] # Nobody
      PROVE  clients'[r][l] = l /\ panel'[l].pc # "off" /\ panel'[l].at = r
  <2>1. CASE clients'[r][l] = clients[r][l]
    BY <1>1, <1>2, <2>1 DEF PlacesOK, PanelsKept
  <2>2. ASSUME NEW who, NewThere(r, l, who) PROVE clients'[r][l] = l /\ panel'[l].pc # "off" /\ panel'[l].at = r
    BY <2>2, RelayAssumption DEF NewThere
  <2> QED  BY <1>2, <2>1, <2>2, ClientsIs
<1>3. ASSUME NEW r \in Replicas, NEW k \in Chats
      PROVE  /\ clients'[r][k] \in Requests \cup {Nobody}
             /\ \A q \in Requests :
                  clients'[r][k] = q => Opened(q)' /\ request'[q].at = r /\ request'[q].chat = k
  <2>0. Nobody \notin Requests
    BY RelayAssumption
  <2>1. CASE clients'[r][k] = clients[r][k]
    <3>1. ASSUME NEW q \in Requests, clients[r][k] = q
          PROVE  Opened(q)' /\ request'[q].at = r /\ request'[q].chat = k
      <4>1. Opened(q) /\ request[q].at = r /\ request[q].chat = k
        BY <1>1, <3>1 DEF PlacesOK
      <4>2. Begun(request, q)
        BY <4>1 DEF Opened, Begun
      <4> QED  BY <1>1, <4>1, <4>2 DEF Carried, OpenedKept
    <3> QED  BY <1>1, <2>1, <3>1 DEF PlacesOK
  <2>2. ASSUME NEW who, NewThere(r, k, who)
        PROVE  clients'[r][k] = who /\ who \in Requests /\ Opened(who)' /\ request'[who].at = r /\ request'[who].chat = k
    BY <2>2, RelayAssumption DEF NewThere
  <2>3. CASE \E who \in Requests \cup Listeners : NewThere(r, k, who)
    <3>1. PICK who : NewThere(r, k, who)
      BY <2>3
    <3>2. clients'[r][k] = who /\ who \in Requests /\ Opened(who)' /\ request'[who].at = r /\ request'[who].chat = k
      BY <2>2, <3>1
    <3> QED  BY <3>2
  <2> QED  BY <2>0, <2>1, <2>3, ClientsIs
<1>4. ASSUME NEW l \in Listeners, panel'[l].pc = "off" PROVE heard'[l] = << >>
  <2>1. panel[l].pc = "off"
    BY <1>1, <1>4 DEF PanelsKept
  <2>2. \A r \in Replicas, k \in Chats : l \notin Reached(r, k)
    BY <1>1, <2>1, ReachedIs, RelayAssumption
  <2> QED  BY <1>1, <2>1, <2>2, HeardIs DEF PlacesOK
<1>5. ASSUME NEW q \in Requests, ~ Opened(q)' PROVE heard'[q] = << >>
  <2>1. ~ Opened(q)
    BY <1>1, <1>5 DEF OpenedKept
  <2>2. \A r \in Replicas, k \in Chats : q \notin Reached(r, k)
    BY <1>1, <2>1, ReachedIs, RelayAssumption
  <2> QED  BY <1>1, <2>1, <2>2, HeardIs DEF PlacesOK
<1>6. ASSUME NEW r \in Replicas, NEW k \in Chats, observers'[r][k] # {}
      PROVE  \E q \in Requests : Begun(request', q) /\ request'[q].kind # "stream" /\ request'[q].chat = k
  <2>1. PICK q \in Requests : Begun(request, q) /\ request[q].kind # "stream" /\ request[q].chat = k
    BY <1>1, <1>6, ObserversIs DEF PlacesOK
  <2> QED  BY <1>1, <2>1 DEF Carried
<1> QED  BY <1>2, <1>3, <1>4, <1>5, <1>6 DEF PlacesOK

(* Nobody is connected at the start. *)
LEMMA ResponseInit == Init => ResponseInv
<1> SUFFICES ASSUME Init PROVE ResponseInv
  OBVIOUS
<1>1. /\ \A r \in Replicas, id \in Chats \cup Listeners : clients[r][id] = Nobody
      /\ \A r \in Replicas, k \in Chats : observers[r][k] = {}
      /\ heard = [x \in Listeners \cup Requests |-> << >>]
  BY DEF Init
<1>2. heard \in [Listeners \cup Requests -> Seq(Note)]
  <2>1. << >> \in Seq(Note)
    OBVIOUS
  <2> QED  BY <1>1, <2>1
<1>3. HeardOK
  <2>1. \A x \in Listeners \cup Requests : heard[x] = << >> /\ 1..Len(heard[x]) = {}
    BY <1>1
  <2> QED  BY <1>2, <2>1 DEF HeardOK
<1>4. PlacesOK
  BY <1>1, RelayAssumption DEF PlacesOK
<1> QED  BY <1>3, <1>4 DEF ResponseInv

(* ResponseInv is inductive, given StreamInv and MailInv. *)
LEMMA ResponseNext ==
  StreamInv /\ MailInv /\ ResponseInv /\ [Next]_vars => ResponseInv' /\ ResponseStep
<1> SUFFICES ASSUME StreamInv, MailInv, ResponseInv, [Next]_vars PROVE ResponseInv' /\ ResponseStep
  OBVIOUS
<1>1. TypeInv /\ TypeInv'
  BY TypeNext DEF StreamInv, ChannelInv
<1>2. ResponseStep
  BY ResponseIs
<1> QED  BY <1>1, <1>2, HeardKept, PlacesKept DEF ResponseInv

(* A panel stays where it is and a request where it was sent, once there   *)
(* is a response to hear anything.                                         *)
LEMMA PlaceKept ==
  ASSUME ResponseInv, ResponseStep, NEW x \in Listeners \cup Requests
  PROVE  PlaceOf(x)' = PlaceOf(x) \/ heard[x] = << >>
<1>1. PlacesOK /\ PanelsKept /\ Carried
  BY DEF ResponseInv, ResponseStep
<1>2. CASE x \in Listeners
  BY <1>1, <1>2 DEF PlacesOK, PanelsKept, PlaceOf
<1>3. CASE x \notin Listeners
  <2>1. CASE ~ Opened(x)
    BY <1>1, <1>3, <2>1 DEF PlacesOK
  <2>2. CASE Opened(x)
    <3>1. Begun(request, x)
      BY <2>2 DEF Opened, Begun
    <3> QED  BY <1>1, <1>3, <3>1 DEF Carried, PlaceOf
  <2> QED  BY <2>1, <2>2
<1> QED  BY <1>2, <1>3

---------------------------------------------------------------------------
(***************************************************************************)
(* LapsesNoted: who begins to listen behind the clean-up's back.           *)
(***************************************************************************)
(* Messages that come or go are not the clean-up's reply. *)
LEMMA NotSwept ==
  ASSUME NEW r \in Replicas, NEW k \in Chats, inbox[r] \in Seq(Message), BeingSwept(r, k)',
         \/ inbox'[r] = inbox[r]
         \/ inbox[r] # << >> /\ inbox'[r] = Tail(inbox[r])
         \/ \E m \in Message : m # Reply("unsubscribed", k, Nobody) /\ inbox'[r] = Append(inbox[r], m)
  PROVE  BeingSwept(r, k)
<1> DEFINE reply == Reply("unsubscribed", k, Nobody)
<1>1. PICK i \in DOMAIN inbox'[r] : inbox'[r][i] = reply
  BY DEF BeingSwept, Reply
<1>2. CASE inbox'[r] = inbox[r]
  BY <1>1, <1>2 DEF BeingSwept
<1>3. CASE inbox[r] # << >> /\ inbox'[r] = Tail(inbox[r])
  <2> HIDE DEF reply
  <2>1. i + 1 \in DOMAIN inbox[r] /\ inbox[r][i + 1] = reply
    BY <1>1, <1>3
  <2> QED  BY <2>1 DEF BeingSwept, reply
<1>4. ASSUME NEW m \in Message, m # reply, inbox'[r] = Append(inbox[r], m)
      PROVE  BeingSwept(r, k)
  <2> HIDE DEF reply
  <2>1. i \in DOMAIN inbox[r] /\ inbox[r][i] = reply
    BY <1>1, <1>4
  <2> QED  BY <2>1 DEF BeingSwept, reply
<1> QED  BY <1>2, <1>3, <1>4

(* The clean-up unsubscribes where nobody listens. *)
LEMMA SweptAlone ==
  ASSUME StreamInv, MailInv, [Next]_vars, NEW r \in Replicas, NEW k \in Chats,
         BeingSwept(r, k)', ~ BeingSwept(r, k)
  PROVE  Reached(r, k)' = {}
<1>0. TypeInv /\ Counted /\ inbox[r] \in Seq(Message) /\ Nobody \notin Requests
  BY RelayAssumption DEF StreamInv, ChannelInv, MailInv, TypeInv, InboxOK
<1>1. ASSUME inbox'[r] = inbox[r] PROVE FALSE
  BY <1>0, <1>1, NotSwept
<1>2. ASSUME NEW a \in Replicas, NEW c \in Chats, NEW by \in Requests \cup {Nobody}, NEW kind,
             Commanded(a, c, by, kind)
      PROVE  a = r /\ Reply(kind, c, by) = Reply("unsubscribed", k, Nobody)
  <2>1. Reply(kind, c, by) \in Message
    BY <1>2 DEF Commanded, Reply, Message
  <2> QED  BY <1>0, <1>1, <1>2, <2>1, NotSwept DEF Commanded
<1>3. CASE UNCHANGED vars
  BY <1>1, <1>3 DEF vars
<1>4. ASSUME NEW q \in Requests, Begin(q) PROVE FALSE
  BY <1>1, <1>4 DEF Begin, subscriber
<1>5. ASSUME NEW q \in Requests, RequestStep(q) PROVE FALSE
  <2>1. request[q].at \in Replicas /\ request[q].chat \in Chats
    BY <1>5, StepIs
  <2>2. ASSUME NEW kind, Commanded(request[q].at, request[q].chat, q, kind) PROVE FALSE
    BY <1>0, <1>2, <2>1, <2>2 DEF Reply
  <2> QED  BY <1>1, <1>5, <2>2, StepCommand DEF subscriber
<1>6. ASSUME NEW q \in Requests, Emit(q) PROVE FALSE
  <2>1. PICK m \in Message :
          /\ m.kind = "event"
          /\ inbox'[r] = IF request[q].chat \in channels[r] THEN Append(inbox[r], m) ELSE inbox[r]
    BY <1>0, <1>6, EmitIs
  <2>2. m # Reply("unsubscribed", k, Nobody)
    BY <2>1 DEF Reply
  <2> QED  BY <1>0, <1>1, <2>1, <2>2, NotSwept
<1>7. ASSUME NEW s \in Replicas, Take(s) PROVE FALSE
  <2>1. TakenFrom(s)
    BY <1>0, <1>7, TakeIs
  <2> QED  BY <1>0, <1>1, <2>1, NotSwept DEF TakenFrom
<1>8. ASSUME NEW s \in Replicas, NEW c \in Chats, Sweep(s, c) PROVE Reached(r, k)' = {}
  <2>1. /\ clients[s][c] = Nobody /\ observers[s][c] = {} /\ UNCHANGED <<clients, observers, emitted>>
        /\ Unsubscribe(s, c, Nobody)
    BY <1>8 DEF Sweep, HasClient, streamer
  <2>2. Commanded(s, c, Nobody, "unsubscribed")
    BY <1>0, <1>1, <2>1, AsideCommand DEF subscriber
  <2>3. s = r /\ c = k
    BY <1>2, <2>2 DEF Reply
  <2> QED  BY <2>1, <2>3 DEF Reached
<1>9. ASSUME NEW l \in Listeners,
             \/ \E s \in Replicas : Open(l, s)
             \/ Heartbeat(l) \/ Vanish(l) \/ Unregister(l) \/ Close(l) \/ Leave(l)
      PROVE  FALSE
  BY <1>1, <1>9 DEF Open, Heartbeat, Vanish, Unregister, Close, Leave, subscriber
<1>10. ASSUME NEW b \in binds, TakeBind(b) PROVE FALSE
  <2>1. b.to \in Replicas /\ b.chat \in Chats
    BY <1>0 DEF TypeInv, TypeOK
  <2>2. UNCHANGED subscriber \/ Commanded(b.to, b.chat, Nobody, "subscribed")
    <3>1. UNCHANGED emitted /\ (UNCHANGED subscriber \/ Subscribe(b.to, b.chat, Nobody))
      BY <1>10 DEF TakeBind
    <3> QED  BY <1>0, <2>1, <3>1, AsideCommand
  <2>3. Commanded(b.to, b.chat, Nobody, "subscribed")
    BY <1>1, <2>2 DEF subscriber
  <2>4. Reply("subscribed", b.chat, Nobody) = Reply("unsubscribed", k, Nobody)
    BY <1>2, <2>1, <2>3
  <2> QED  BY <2>4 DEF Reply
<1> QED
  BY <1>3, <1>4, <1>5, <1>6, <1>7, <1>8, <1>9, <1>10 DEF Next, TakeSomeBind

(* LapsesNoted is inductive, given StreamInv and MailInv. *)
LEMMA LapsesNext ==
  StreamInv /\ MailInv /\ LapsesNoted /\ [AuditNext]_auditVars => LapsesNoted'
<1> SUFFICES ASSUME StreamInv, MailInv, LapsesNoted, [AuditNext]_auditVars,
                    NEW r \in Replicas, NEW k \in Chats, BeingSwept(r, k)'
             PROVE  Reached(r, k)' = {} \/ <<r, k>> \in lapsed'
  BY DEF LapsesNoted
<1>1. CASE UNCHANGED auditVars
  BY <1>1 DEF auditVars, vars, LapsesNoted, BeingSwept, Reached
<1>2. CASE AuditNext /\ ~ BeingSwept(r, k)
  BY <1>2, SweptAlone DEF AuditNext
<1>3. CASE AuditNext /\ BeingSwept(r, k)
  <2>1. lapsed' = lapsed \cup Lapses
    BY <1>3 DEF AuditNext
  <2>2. CASE <<r, k>> \in lapsed
    BY <2>1, <2>2
  <2>3. CASE Reached(r, k) = {} /\ Reached(r, k)' # {}
    <3>1. <<r, k>> \in Lapses
      BY <1>3, <2>3 DEF Lapses, Reached
    <3> QED  BY <2>1, <3>1
  <2> QED  BY <1>3, <2>2, <2>3 DEF LapsesNoted
<1> QED  BY <1>1, <1>2, <1>3

---------------------------------------------------------------------------
(***************************************************************************)
(* What a response is told last of a run.                                  *)
(***************************************************************************)
(* Something else is told. *)
LEMMA OtherTold ==
  ASSUME NEW s \in Seq(Note), NEW t \in Seq(Note), NEW e \in Note, Extends(s, t, e),
         NEW q, NEW k, e.of # q
  PROVE  /\ Gapless(s, q, k) => Gapless(t, q, k)
         /\ \A n : Latest(t, q, k, n) => Latest(s, q, k, n)
<1>1. \A i \in 1..Len(t) : t[i].of = q => i \in 1..Len(s)
  BY DEF Extends
<1>2. ASSUME Gapless(s, q, k) PROVE Gapless(t, q, k)
  <2> SUFFICES ASSUME NEW a \in 1..Len(t), NEW b \in 1..Len(t), a < b, t[a].of = q, t[b].of = q,
                      \A i \in 1..Len(t) : a < i /\ i < b => t[i].of \notin {q, k}
               PROVE  t[b].n = t[a].n \/ t[b].n = t[a].n + 1
    BY DEF Gapless
  <2>1. a \in 1..Len(s) /\ b \in 1..Len(s) /\ t[a] = s[a] /\ t[b] = s[b]
    BY <1>1 DEF Extends
  <2>2. \A i \in 1..Len(s) : a < i /\ i < b => s[i].of \notin {q, k}
    BY DEF Extends
  <2> QED  BY <1>2, <2>1, <2>2 DEF Gapless
<1>3. ASSUME NEW n, Latest(t, q, k, n) PROVE Latest(s, q, k, n)
  <2>1. PICK i \in 1..Len(t) : /\ t[i].of = q /\ t[i].n = n
                               /\ \A j \in 1..Len(t) : j > i => t[j].of \notin {q, k}
    BY <1>3 DEF Latest
  <2> QED  BY <1>1, <2>1 DEF Latest, Extends
<1> QED  BY <1>2, <1>3

(* The end of the chat is told. *)
LEMMA EndTold ==
  ASSUME NEW s \in Seq(Note), NEW t \in Seq(Note), NEW e \in Note, Extends(s, t, e),
         NEW q, NEW k, e.of = k, q # k, \E i \in 1..Len(t) : i \notin 1..Len(s)
  PROVE  \A n : ~ Latest(t, q, k, n)
<1> SUFFICES ASSUME NEW n, NEW i \in 1..Len(t), t[i].of = q,
                    \A j \in 1..Len(t) : j > i => t[j].of \notin {q, k}
             PROVE  FALSE
  BY DEF Latest
<1>1. PICK h \in 1..Len(t) : h \notin 1..Len(s)
  OBVIOUS
<1>2. t[h].of = k /\ \A j \in 1..Len(s) : j < h
  BY <1>1 DEF Extends
<1>3. i \in 1..Len(s)
  BY DEF Extends
<1> QED  BY <1>2, <1>3

(* The next event of the run is told. *)
Follows(s, q, k, e) == \A n \in Nat : Latest(s, q, k, n) => e.n = n + 1

(* Who is told what follows hears no gap, and has heard that last. *)
LEMMA NextTold ==
  ASSUME NEW s \in Seq(Note), NEW t \in Seq(Note), NEW e \in Note, Extends(s, t, e),
         NEW q, NEW k, e.of = q, \E i \in 1..Len(t) : i \notin 1..Len(s),
         Gapless(s, q, k), Follows(s, q, k, e)
  PROVE  /\ Gapless(t, q, k)
         /\ \A n : Latest(t, q, k, n) => n = e.n
<1>1. Gapless(t, q, k)
  <2> SUFFICES ASSUME NEW a \in 1..Len(t), NEW b \in 1..Len(t), a < b, t[a].of = q, t[b].of = q,
                      \A i \in 1..Len(t) : a < i /\ i < b => t[i].of \notin {q, k}
               PROVE  t[b].n = t[a].n \/ t[b].n = t[a].n + 1
    BY DEF Gapless
  <2>1. CASE a \notin 1..Len(s)
    <3>1. \A j \in 1..Len(s) : j < a
      BY <2>1 DEF Extends
    <3>2. b \notin 1..Len(s)
      BY <3>1
    <3>3. t[a] = e /\ t[b] = e
      BY <2>1, <3>2 DEF Extends
    <3> QED  BY <3>3
  <2>2. CASE a \in 1..Len(s) /\ b \in 1..Len(s)
    <3>1. t[a] = s[a] /\ t[b] = s[b]
      BY <2>2 DEF Extends
    <3>2. \A i \in 1..Len(s) : a < i /\ i < b => s[i].of \notin {q, k}
      BY DEF Extends
    <3> QED  BY <2>2, <3>1, <3>2 DEF Gapless
  <2>3. CASE a \in 1..Len(s) /\ b \notin 1..Len(s)
    <3>1. t[a] = s[a] /\ t[b] = e /\ \A j \in 1..Len(s) : j < b
      BY <2>3 DEF Extends
    <3>2. \A i \in 1..Len(s) : i > a => s[i].of \notin {q, k}
      <4> SUFFICES ASSUME NEW i \in 1..Len(s), i > a PROVE s[i].of \notin {q, k}
        OBVIOUS
      <4>1. i \in 1..Len(t) /\ t[i] = s[i] /\ i < b /\ a < i
        BY <3>1 DEF Extends
      <4> QED  BY <4>1
    <3>3. s[a].n \in Nat
      <4>1. s[a] \in Note
        BY <2>3
      <4> QED  BY <4>1 DEF Note
    <3>4. Latest(s, q, k, s[a].n)
      BY <2>3, <3>1, <3>2 DEF Latest
    <3>5. e.n = s[a].n + 1
      BY <3>3, <3>4 DEF Follows
    <3> QED  BY <3>1, <3>5
  <2> QED  BY <2>1, <2>2, <2>3
<1>2. ASSUME NEW n, Latest(t, q, k, n) PROVE n = e.n
  <2>1. PICK i \in 1..Len(t) : /\ t[i].of = q /\ t[i].n = n
                               /\ \A j \in 1..Len(t) : j > i => t[j].of \notin {q, k}
    BY <1>2 DEF Latest
  <2>2. CASE i \notin 1..Len(s)
    BY <2>1, <2>2 DEF Extends
  <2>3. CASE i \in 1..Len(s)
    <3>1. PICK h \in 1..Len(t) : h \notin 1..Len(s)
      OBVIOUS
    <3>2. t[h] = e /\ h > i
      BY <2>3, <3>1 DEF Extends
    <3> QED  BY <2>1, <3>2
  <2> QED  BY <2>2, <2>3
<1> QED  BY <1>1, <1>2

---------------------------------------------------------------------------
(***************************************************************************)
(* Good: while a response is reached, what comes next for it is the next   *)
(* event of the run.                                                       *)
(***************************************************************************)
(* A replica that is no longer subscribed is about to end its stream of    *)
(* the chat; no one else of that replica has to do with the chat.          *)
LEMMA OnlyTheStream ==
  ASSUME OwnChats, NoOverlap, StreamInv, NEW r \in Replicas, NEW k \in Chats,
         Secure(r, k), k \notin subscribed[r], NEW s \in Requests, request[s].chat = k,
         \/ Begun(request, s) /\ request[s].kind # "stream"
         \/ Active(s) /\ request[s].at = r /\ request[s].pc # "close"
  PROVE  FALSE
<1>1. PICK p \in Requests :
        Active(p) /\ request[p].at = r /\ request[p].chat = k /\ request[p].pc = "close"
  BY DEF Secure
<1>2. p # s
  BY <1>1 DEF Active
<1>3. Planned
  BY DEF StreamInv
<1> QED  BY <1>1, <1>2, <1>3, Apart DEF Active

(* A reply comes: the next event is where it was. *)
LEMMA ContinuedCommand ==
  ASSUME TypeInv, Counted, NEW r \in Replicas, NEW q \in Requests, NEW n,
         NEW s \in Replicas, NEW c \in Chats, NEW by \in Requests \cup {Nobody}, NEW kind,
         Commanded(s, c, by, kind), kind = "subscribed" /\ s = r => c # request[q].chat,
         request'[q].chat = request[q].chat,
         Continued(inbox[r], q, 0, n, Ends(r, q, n))
  PROVE  Continued(inbox'[r], q, 0, n, Ends(r, q, n)')
<1> DEFINE m == Reply(kind, c, by)
<1>1. Ends(r, q, n) \in BOOLEAN /\ Ends(r, q, n)' \in BOOLEAN
  BY DEF Ends
<1>2. inbox[r] \in Seq(Message) /\ 0 \in Nat /\ 0 <= Len(inbox[r])
  <2>1. inbox[r] \in Seq(Message)
    BY DEF TypeInv, InboxOK
  <2> QED  BY <2>1
<1>3. m \in Message /\ ~ IsEventOf(m, q)
  BY DEF Commanded, Reply, Message, IsEventOf
<1>4. CASE s # r
  <2>1. inbox'[r] = inbox[r] /\ Ends(r, q, n)' = Ends(r, q, n)
    BY <1>4 DEF Commanded, Ends
  <2> QED  BY <2>1
<1>5. CASE s = r
  <2>1. inbox'[r] = Append(inbox[r], m)
    BY <1>5 DEF Commanded
  <2>2. Ends(r, q, n) => Ends(r, q, n)'
    BY <1>5 DEF Ends, Commanded
  <2> HIDE DEF Ends, m
  <2> QED  BY <1>1, <1>2, <1>3, <2>1, <2>2, ContinuedAppend
<1> QED  BY <1>4, <1>5

(* Once its client is removed a chat reaches nobody there. *)
LEMMA NobodyReached ==
  ASSUME TypeInv, NEW r \in Replicas, NEW k \in Chats, RemoveClient(r, k)
  PROVE  Reached(r, k)' = {}
<1>1. clients'[r][k] = Nobody /\ observers'[r][k] = {}
  BY DEF RemoveClient, TypeInv, TypeOK
<1> QED  BY <1>1 DEF Reached

(* A step of a request keeps what is next for those who listen. *)
LEMMA GoodStep ==
  ASSUME OwnChats, NoOverlap, StreamInv, MailInv, NEW s \in Requests, RequestStep(s),
         NEW r \in Replicas, NEW q \in Requests, Begun(request, q), NEW n, Good(r, q, n),
         Reached(r, request[q].chat)' # {}
  PROVE  Good(r, q, n)'
<1> DEFINE k == request[q].chat
           u == request[s]
<1>0. TypeInv /\ Counted
  BY DEF StreamInv, ChannelInv, MailInv
<1>1. /\ Begun(request, s) /\ u.pc \notin {"done", "await"}
      /\ u.at \in Replicas /\ u.chat \in Chats
      /\ request'[s].kind = u.kind /\ request'[s].chat = u.chat /\ request'[s].at = u.at
      /\ \A p \in Requests : p # s => request'[p] = request[p]
  BY StepIs
<1>2. request'[q].chat = k
  BY <1>1
<1>3. k \in Chats
  BY <1>0 DEF TypeInv, RequestsOK
<1>4. /\ UNCHANGED emitted
      /\ \/ UNCHANGED subscriber
         \/ /\ request'[s].pc = "await"
            /\ \/ /\ Commanded(u.at, u.chat, s, "subscribed")
                  /\ Active(s) => u.pc = "subscribe"
               \/ /\ Commanded(u.at, u.chat, s, "unsubscribed")
                  /\ Active(s) /\ u.pc = "run"
  BY StepCommand
<1>5. subscribed' = subscribed
  BY <1>4 DEF subscriber, Commanded
<1>6. Secure(r, k)'
  <2>1. CASE k \in subscribed[r]
    <3>1. k \in subscribed'[r]
      BY <1>5, <2>1
    <3> QED  BY <1>2, <3>1 DEF Secure
  <2>2. CASE k \notin subscribed[r]
    <3>1. PICK p \in Requests :
            Active(p) /\ request[p].at = r /\ request[p].chat = k /\ request[p].pc = "close"
      BY <2>2 DEF Good, Secure
    <3>2. p # s
      <4> SUFFICES ASSUME p = s PROVE FALSE
        OBVIOUS
      <4>1. CloseStream(s)
        BY <3>1 DEF RequestStep, SubscribeStream, ListPanels, BindHere, BindElsewhere, Run, Finish
      <4>2. PICK c \in Chats : c = k
        BY <1>3
      <4>3. RemoveClient(r, c)
        BY <3>1, <4>1, <4>2 DEF CloseStream
      <4>4. Reached(r, c)' = {}
        BY <1>0, <4>3, NobodyReached
      <4> QED  BY <1>2, <4>2, <4>4 DEF Reached
    <3>3. request'[p] = request[p]
      BY <1>1, <3>2
    <3>4. Active(p)' /\ request'[p].at = r /\ request'[p].chat = k /\ request'[p].pc = "close"
      BY <3>1, <3>3 DEF Active, Begun
    <3> QED  BY <1>2, <3>4 DEF Secure
  <2> QED  BY <2>1, <2>2
<1>7. Continued(inbox'[r], q, 0, n, Ends(r, q, n)')
  <2>0. Continued(inbox[r], q, 0, n, Ends(r, q, n))
    BY DEF Good
  <2>1. CASE UNCHANGED subscriber
    <3>1. inbox' = inbox /\ Ends(r, q, n)' = Ends(r, q, n)
      BY <1>2, <1>4, <2>1 DEF subscriber, Ends
    <3> QED  BY <2>0, <3>1
  <2>2. CASE Commanded(u.at, u.chat, s, "subscribed") /\ (Active(s) => u.pc = "subscribe")
    <3>1. u.at = r => u.chat # k
      <4> SUFFICES ASSUME u.at = r, u.chat = k PROVE FALSE
        OBVIOUS
      <4>1. k \notin subscribed[r]
        BY <2>2 DEF Commanded
      <4>2. \/ Begun(request, s) /\ u.kind # "stream"
            \/ Active(s) /\ u.at = r /\ u.pc # "close"
        BY <1>1, <2>2 DEF Active
      <4>3. Secure(r, k)
        BY DEF Good
      <4> QED  BY <1>3, <4>1, <4>2, <4>3, OnlyTheStream
    <3> HIDE DEF u, k
    <3> QED  BY <1>0, <1>1, <1>2, <2>0, <2>2, <3>1, ContinuedCommand DEF k
  <2>3. CASE Commanded(u.at, u.chat, s, "unsubscribed")
    BY <1>0, <1>1, <1>2, <2>0, <2>3, ContinuedCommand
  <2> QED  BY <1>4, <2>1, <2>2, <2>3
<1>8. Secure(r, request[q].chat)'
  BY <1>2, <1>6
<1> QED  BY <1>7, <1>8 DEF Good

(* Nothing happens to the mailbox or to who is about to close. *)
LEMMA GoodSame ==
  ASSUME NEW r \in Replicas, NEW q \in Requests, NEW n, Good(r, q, n),
         UNCHANGED <<subscriber, emitted>>, request'[q].chat = request[q].chat,
         \A p \in Requests : Active(p) => request'[p] = request[p]
  PROVE  Good(r, q, n)'
<1> DEFINE k == request[q].chat
<1>1. inbox' = inbox /\ subscribed' = subscribed /\ Ends(r, q, n)' = Ends(r, q, n)
  BY DEF subscriber, Ends
<1>2. Secure(r, request[q].chat)'
  <2>1. CASE k \in subscribed[r]
    BY <1>1, <2>1 DEF Secure
  <2>2. CASE k \notin subscribed[r]
    <3>1. PICK p \in Requests :
            Active(p) /\ request[p].at = r /\ request[p].chat = k /\ request[p].pc = "close"
      BY <2>2 DEF Good, Secure
    <3>2. Active(p)' /\ request'[p].at = r /\ request'[p].chat = k /\ request'[p].pc = "close"
      BY <3>1 DEF Active, Begun
    <3> QED  BY <3>2 DEF Secure
  <2> QED  BY <2>1, <2>2
<1> QED  BY <1>1, <1>2 DEF Good

(* A command that no request awaits. *)
LEMMA GoodAside ==
  ASSUME OwnChats, NoOverlap, StreamInv, MailInv, UNCHANGED request,
         NEW r \in Replicas, NEW q \in Requests, Begun(request, q), NEW n, Good(r, q, n),
         NEW s \in Replicas, NEW c \in Chats, NEW kind, Commanded(s, c, Nobody, kind),
         kind = "subscribed" => \E p \in Requests :
           Begun(request, p) /\ request[p].kind # "stream" /\ request[p].chat = c
  PROVE  Good(r, q, n)'
<1> DEFINE k == request[q].chat
<1>0. TypeInv /\ Counted /\ k \in Chats /\ request'[q].chat = k
  BY DEF StreamInv, ChannelInv, MailInv, TypeInv, RequestsOK
<1>1. Secure(r, k)
  BY DEF Good
<1>2. Secure(r, request[q].chat)'
  <2>1. subscribed' = subscribed
    BY DEF Commanded
  <2> QED  BY <1>1, <2>1 DEF Secure, Active, Begun
<1>3. kind = "subscribed" /\ s = r => c # k
  <2> SUFFICES ASSUME kind = "subscribed", s = r, c = k PROVE FALSE
    OBVIOUS
  <2>1. k \notin subscribed[r]
    BY DEF Commanded
  <2> QED  BY <1>0, <1>1, <2>1, OnlyTheStream
<1>4. Continued(inbox'[r], q, 0, n, Ends(r, q, n)')
  <2>1. Continued(inbox[r], q, 0, n, Ends(r, q, n))
    BY DEF Good
  <2> QED  BY <1>0, <1>3, <2>1, ContinuedCommand
<1> QED  BY <1>2, <1>4 DEF Good

(* Taking a message keeps what is next for those who listen. *)
LEMMA GoodTake ==
  ASSUME StreamInv, MailInv, NEW s \in Replicas, Take(s),
         NEW r \in Replicas, NEW q \in Requests, Begun(request, q), NEW n, Good(r, q, n),
         ~ BeingSwept(r, request[q].chat),
         s = r => ~ IsEventOf(Head(inbox[r]), q)
  PROVE  Good(r, q, n)'
<1> DEFINE k == request[q].chat
           m == Head(inbox[s])
<1>0. TypeInv /\ RepliesOK /\ k \in Chats
  BY DEF StreamInv, ChannelInv, TypeInv, RequestsOK
<1>1. /\ Carried
      /\ \A p \in Requests : IsReplyTo(m, p) \/ request'[p] = request[p]
  BY <1>0, CarriedTake
<1>2. request'[q].chat = k
  BY <1>1 DEF Carried
<1>3. /\ TakenFrom(s) /\ m \in Message
      /\ \/ m.kind = "event" /\ UNCHANGED subscribed
         \/ /\ m.kind = "subscribed" /\ subscribed'[s] = subscribed[s] \cup {m.chat}
            /\ \A z \in Replicas : z # s => subscribed'[z] = subscribed[z]
         \/ /\ m.kind = "unsubscribed" /\ request' = Resumed(m.by, "close")
            /\ subscribed'[s] = subscribed[s] \ {m.chat}
            /\ \A z \in Replicas : z # s => subscribed'[z] = subscribed[z]
  BY <1>0, TakeIs
<1>4. 1 \in Mail(s) /\ m = inbox[s][1] /\ inbox[s] # << >> /\ inbox[s] \in Seq(Message)
  <2>1. inbox[s] \in Seq(Message) /\ inbox[s] # << >>
    BY <1>0, <1>3 DEF TypeInv, InboxOK, TakenFrom
  <2> QED  BY <2>1, Taken DEF Mail
<1>5. Secure(r, k)'
  <2>1. CASE k \in subscribed'[r]
    BY <1>2, <2>1 DEF Secure
  <2>2. CASE k \notin subscribed'[r] /\ k \in subscribed[r]
    <3>1. s = r /\ m.kind = "unsubscribed" /\ m.chat = k /\ request' = Resumed(m.by, "close")
      BY <1>3, <2>2
    <3>2. m = Reply("unsubscribed", k, m.by) /\ (m.by \in Requests => request[m.by].kind = "stream")
      BY <1>4, <3>1 DEF MailInv, UnsubscribedLast
    <3>3. m.by # Nobody
      <4>1. 1 \in DOMAIN inbox[r]
        BY <1>4, <3>1 DEF Mail
      <4> QED  BY <1>4, <3>1, <3>2, <4>1 DEF BeingSwept
    <3>4. PICK p \in Requests : p = m.by
      BY <1>3, <3>3 DEF Message
    <3>5. request[p].at = r /\ request[p].chat = k
      BY <1>4, <3>1, <3>4 DEF StreamInv, RepliesOK
    <3>6. /\ request'[p].pc = "close" /\ request'[p].kind = "stream"
          /\ request'[p].at = r /\ request'[p].chat = k
      BY <1>0, <3>1, <3>2, <3>4, <3>5, ResumedIs
    <3>7. Active(p)'
      BY <3>6 DEF Active, Begun
    <3> QED  BY <1>2, <3>6, <3>7 DEF Secure
  <2>3. CASE k \notin subscribed[r]
    <3>1. PICK p \in Requests :
            Active(p) /\ request[p].at = r /\ request[p].chat = k /\ request[p].pc = "close"
      BY <2>3 DEF Good, Secure
    <3>2. ~ IsReplyTo(m, p)
      BY <1>4, <3>1 DEF MailInv, RepliesAwaited
    <3>3. request'[p] = request[p]
      BY <1>1, <3>2
    <3>4. Active(p)' /\ request'[p].at = r /\ request'[p].chat = k /\ request'[p].pc = "close"
      BY <3>1, <3>3 DEF Active, Begun
    <3> QED  BY <1>2, <3>4 DEF Secure
  <2> QED  BY <2>1, <2>2, <2>3
<1>6. Continued(inbox'[r], q, 0, n, Ends(r, q, n)')
  <2>0. Continued(inbox[r], q, 0, n, Ends(r, q, n)) /\ 0 \in Nat
    BY DEF Good
  <2>1. CASE s # r
    BY <1>0, <2>0, <2>1, ContinuedTake
  <2>2. CASE s = r
    <3>1. Ends(r, q, n) \in BOOLEAN
      BY DEF Ends
    <3>2. Continued(inbox[r], q, 0 + 1, n, Ends(r, q, n))
      <4> HIDE DEF Ends
      <4> QED  BY <1>4, <2>0, <2>2, <3>1, ContinuedHead
    <3> QED  BY <1>0, <2>0, <2>2, <3>2, ContinuedTake
  <2> QED  BY <2>1, <2>2
<1>7. Secure(r, request[q].chat)'
  BY <1>2, <1>5
<1> QED  BY <1>6, <1>7 DEF Good

(* A published event keeps what is next for those who listen. *)
LEMMA GoodEmit ==
  ASSUME StreamInv, MailInv, NEW s \in Requests, Emit(s),
         NEW r \in Replicas, NEW q \in Requests, NEW n, Good(r, q, n)
  PROVE  Good(r, q, n)'
<1>0. TypeInv /\ Counted
  BY DEF StreamInv, ChannelInv, MailInv
<1>1. PICK m \in Message :
        /\ m.kind = "event" /\ m.chat = request[s].chat /\ m.by = s /\ m.n = emitted[s] + 1
        /\ UNCHANGED <<subscribed, channels, handlers, request, clients, observers, heard, panel>>
        /\ \A z \in Replicas :
             inbox'[z] = IF request[s].chat \in channels[z] THEN Append(inbox[z], m) ELSE inbox[z]
        /\ emitted'[s] = emitted[s] + 1 /\ \A p \in Requests : p # s => emitted'[p] = emitted[p]
  BY <1>0, EmitIs
<1>2. Secure(r, request[q].chat)'
  BY <1>1 DEF Good, Secure, Active, Begun
<1>3. inbox[r] \in Seq(Message) /\ 0 \in Nat /\ 0 <= Len(inbox[r])
  <2>1. inbox[r] \in Seq(Message)
    BY <1>0 DEF TypeInv, InboxOK
  <2> QED  BY <2>1
<1>4. Continued(inbox'[r], q, 0, n, Ends(r, q, n)')
  BY <1>0, <1>1, <1>3, ContinuedEmit DEF Good
<1> QED  BY <1>2, <1>4 DEF Good

(* Every step keeps what is next for those who listened before. *)
LEMMA GoodKept ==
  ASSUME OwnChats, NoOverlap, StreamInv, MailInv, [Next]_vars,
         NEW r \in Replicas, NEW q \in Requests, Begun(request, q), NEW n, Good(r, q, n),
         ~ BeingSwept(r, request[q].chat), Reached(r, request[q].chat)' # {},
         TakeEvent(r) => ~ IsEventOf(Head(inbox[r]), q)
  PROVE  Good(r, q, n)'
<1>0. TypeInv
  BY DEF StreamInv, ChannelInv
<1>1. ASSUME NEW s \in Requests, Begin(s) PROVE Good(r, q, n)'
  <2>1. /\ request[s].pc = "new" /\ UNCHANGED <<subscriber, emitted>>
        /\ \A p \in Requests : p # s => request'[p] = request[p]
    BY <1>0, <1>1 DEF Begin, TypeInv, RequestsOK
  <2>2. q # s /\ \A p \in Requests : Active(p) => p # s
    BY <2>1 DEF Active, Begun
  <2> QED  BY <2>1, <2>2, GoodSame
<1>2. ASSUME NEW s \in Requests, RequestStep(s) PROVE Good(r, q, n)'
  BY <1>2, GoodStep
<1>3. ASSUME NEW s \in Requests, Emit(s) PROVE Good(r, q, n)'
  BY <1>3, GoodEmit
<1>4. ASSUME NEW s \in Replicas, Take(s) PROVE Good(r, q, n)'
  <2>1. s = r => ~ IsEventOf(Head(inbox[r]), q)
    BY <1>4 DEF Take, TakeSubscribed, TakeUnsubscribed, IsEventOf
  <2> QED  BY <1>4, <2>1, GoodTake
<1>5. ASSUME NEW s \in Replicas, NEW c \in Chats, Sweep(s, c) PROVE Good(r, q, n)'
  <2>1. UNCHANGED <<request, emitted>> /\ Unsubscribe(s, c, Nobody)
    BY <1>5 DEF Sweep
  <2>2. UNCHANGED subscriber \/ Commanded(s, c, Nobody, "unsubscribed")
    BY <1>0, <2>1, AsideCommand
  <2>3. CASE UNCHANGED subscriber
    BY <2>1, <2>3, GoodSame
  <2>4. CASE Commanded(s, c, Nobody, "unsubscribed")
    BY <2>1, <2>4, GoodAside
  <2> QED  BY <2>2, <2>3, <2>4
<1>6. ASSUME NEW l \in Listeners,
             \/ \E s \in Replicas : Open(l, s)
             \/ Heartbeat(l) \/ Vanish(l) \/ Unregister(l) \/ Close(l) \/ Leave(l)
      PROVE  Good(r, q, n)'
  <2>1. UNCHANGED <<subscriber, request, emitted>>
    BY <1>6 DEF Open, Heartbeat, Vanish, Unregister, Close, Leave
  <2> QED  BY <2>1, GoodSame
<1>7. ASSUME NEW b \in binds, TakeBind(b) PROVE Good(r, q, n)'
  <2>0. b.to \in Replicas /\ b.chat \in Chats
    BY <1>0 DEF TypeInv, TypeOK
  <2>1. UNCHANGED <<request, emitted>> /\ (UNCHANGED subscriber \/ Subscribe(b.to, b.chat, Nobody))
    BY <1>7 DEF TakeBind
  <2>2. UNCHANGED subscriber \/ Commanded(b.to, b.chat, Nobody, "subscribed")
    BY <1>0, <2>0, <2>1, AsideCommand
  <2>3. \E p \in Requests : Begun(request, p) /\ request[p].kind # "stream" /\ request[p].chat = b.chat
    BY DEF StreamInv, BindsOK
  <2>4. CASE UNCHANGED subscriber
    BY <2>1, <2>4, GoodSame
  <2>5. CASE Commanded(b.to, b.chat, Nobody, "subscribed")
    BY <2>0, <2>1, <2>3, <2>5, GoodAside
  <2> QED  BY <2>2, <2>4, <2>5
<1>8. CASE UNCHANGED vars
  BY <1>8, GoodSame DEF vars, subscriber
<1> QED
  BY <1>1, <1>2, <1>3, <1>4, <1>5, <1>6, <1>7, <1>8 DEF Next, TakeSomeBind

(* An event is written, if its chat has a response that waits for it. *)
LEMMA WritesIs ==
  ASSUME StreamInv, MailInv, NEW r \in Replicas, TakeEvent(r)
  PROVE  /\ Writes(r)
         /\ LET m == Head(inbox[r])
            IN  /\ EventOK(r, 1, m.by, m.chat, m.n) /\ m = inbox[r][1] /\ 1 \in Mail(r)
                /\ inbox[r] # << >> /\ inbox[r] \in Seq(Message)
<1> DEFINE m == Head(inbox[r])
<1>0. TypeInv
  BY DEF StreamInv, ChannelInv
<1>1. inbox[r] \in Seq(Message) /\ inbox[r] # << >> /\ m.kind = "event"
  BY <1>0 DEF TypeInv, InboxOK, TakeEvent
<1>2. 1 \in Mail(r) /\ m = inbox[r][1] /\ m \in Message
  <2>1. 1 \in Mail(r) /\ m = inbox[r][1]
    BY <1>1, Taken DEF Mail
  <2> QED  BY <1>1, <2>1 DEF Mail
<1>3. EventOK(r, 1, m.by, m.chat, m.n)
  BY <1>1, <1>2 DEF MailInv, EventsOK
<1>4. SafeWrite(r, m.chat, [of |-> m.by, n |-> m.n], handlers[r][m.chat])
      /\ UNCHANGED <<clients, request, panel>>
  BY DEF TakeEvent, SafeWrite, watchers
<1>5. Writes(r)
  BY <1>1, <1>2, <1>3, <1>4 DEF Writes, EventOK
<1> QED  BY <1>1, <1>2, <1>3, <1>5

(* Where a subscription is secure an event of the chat finds a handler. *)
LEMMA HandlersThere ==
  ASSUME StreamInv, MailInv, NEW r \in Replicas, TakeEvent(r),
         NEW q \in Requests, Head(inbox[r]).by = q, Secure(r, request[q].chat)
  PROVE  handlers[r][request[q].chat] # 0 /\ request[q].chat \in subscribed[r]
<1> DEFINE k == request[q].chat
           m == Head(inbox[r])
<1>0. TypeInv /\ StreamsOK
  BY DEF StreamInv, ChannelInv
<1>1. k \in Chats /\ Begun(request, q)
  BY <1>0, WritesIs DEF Writes, TypeInv, RequestsOK
<1>2. AgreesOn(r, k)
  BY <1>1 DEF StreamInv, ChannelInv
<1>3. CASE k \in subscribed[r]
  <2>1. handlers[r][k] > 0 /\ handlers[r][k] \in Nat
    BY <1>0, <1>1, <1>2, <1>3 DEF AgreesOn, TypeInv, TypeOK
  <2> QED  BY <1>3, <2>1
<1>4. CASE k \notin subscribed[r]
  <2>1. PICK p \in Requests :
          Active(p) /\ request[p].at = r /\ request[p].chat = k /\ request[p].pc = "close"
    BY <1>4 DEF Secure
  <2>2. NoReplies(r, k)
    BY <1>0, <2>1 DEF StreamsOK, StreamOK, Quiet
  <2>3. ~ Outcome(inbox[r], k, subscribed[r])
    BY <1>4, <2>2 DEF Outcome, NoReplies, Mail
  <2>4. k \notin channels[r]
    BY <1>2, <2>3 DEF AgreesOn
  <2>5. EventOK(r, 1, q, m.chat, m.n) /\ m.chat = k
    BY WritesIs DEF EventOK
  <2>6. PICK j \in Mail(r) : inbox[r][j].kind = "unsubscribed" /\ inbox[r][j].chat = k
    BY <2>4, <2>5 DEF EventOK
  <2> QED  BY <2>2, <2>6 DEF NoReplies, IsReply
<1> QED  BY <1>3, <1>4

---------------------------------------------------------------------------
(***************************************************************************)
(* GapInv, step by step.                                                   *)
(***************************************************************************)
(* Who has been told of a run and is reached was reached before.           *)
LEMMA ReachedBefore ==
  ASSUME TypeInv, TypeInv', ResponseInv, OpenOK, ResponseStep,
         NEW x \in Listeners \cup Requests, NEW r \in Replicas, NEW q \in Requests, NEW n \in Nat,
         NEW c \in Chats, c = request[q].chat, Latest(heard[x], q, c, n)
  PROVE  /\ x \in Reached(r, c)' => x \in Reached(r, c)
         /\ x \in Listeners /\ clients'[r][x] = x => clients[r][x] = x /\ x \in observers[r][c]
<1>0. HeardOK /\ PlacesOK /\ Nobody \notin Requests \cup Listeners
  BY RelayAssumption DEF ResponseInv
<1>1. heard[x] # << >>
  BY DEF Latest
<1>2. ASSUME NEW id \in Chats \cup Listeners, clients'[r][id] = x PROVE clients[r][id] = x
  <2>1. ~ NewThere(r, id, x)
    BY <1>0, <1>1 DEF NewThere, PlacesOK
  <2>2. x # Nobody
    BY <1>0
  <2> QED  BY <1>2, <2>1, <2>2, ClientsIs DEF NewThere
<1>3. ASSUME x \in Listeners, clients'[r][x] = x PROVE clients[r][x] = x /\ x \in observers[r][c]
  BY <1>2, <1>3 DEF OpenOK
<1>4. ASSUME x \in Reached(r, c)' PROVE x \in Reached(r, c)
  <2>1. PICK id \in {c} \cup observers'[r][c] : x = clients'[r][id] /\ x # Nobody
    BY <1>4 DEF Reached
  <2>2. observers'[r][c] \subseteq Listeners
    BY DEF TypeInv, TypeOK
  <2>3. CASE id = c
    BY <1>2, <2>1, <2>3 DEF Reached
  <2>4. CASE id \in observers'[r][c]
    <3>1. id \in Listeners /\ clients[r][id] = x
      BY <1>2, <2>1, <2>2, <2>4
    <3>2. x = id
      BY <1>0, <2>1, <3>1 DEF PlacesOK
    <3>3. x \in observers[r][c]
      BY <1>3, <2>1, <3>1, <3>2
    <3> QED  BY <2>1, <3>1, <3>2, <3>3 DEF Reached
  <2> QED  BY <2>1, <2>3, <2>4
<1> QED  BY <1>3, <1>4

(* A panel that is connected goes on observing a chat until it ends. *)
LEMMA ObservingKept ==
  ASSUME TypeInv, ResponseInv, ResponseStep, NEW r \in Replicas, NEW c \in Chats,
         NEW l \in Listeners, l \in observers[r][c], clients[r][l] = l, clients'[r][l] = l
  PROVE  l \in observers'[r][c] \/ (RemoveClient(r, c) /\ l \in Reached(r, c))
<1>0. /\ clients \in [Replicas -> [Chats \cup Listeners -> Requests \cup Listeners \cup {Nobody}]]
      /\ observers \in [Replicas -> [Chats -> SUBSET Listeners]]
      /\ Nobody \notin Requests \cup Listeners
  BY RelayAssumption DEF TypeInv, TypeOK
<1>1. ASSUME NEW s \in Replicas, NEW k \in Chats, NEW p \in Listeners, Watches(s, k, p)
      PROVE  l \in observers'[r][c]
  BY <1>0, <1>1 DEF Watches
<1>2. ASSUME NEW s \in Replicas, Writes(s) PROVE l \in observers'[r][c]
  <2> DEFINE k == Head(inbox[s]).chat
  <2>1. k \in Chats
    BY <1>2 DEF Writes, Message
  <2>2. \/ observers' = observers
        \/ observers' = [observers EXCEPT ![s][k] = {p \in @ : HasClient(s, p)}]
    BY <1>2 DEF Writes, SafeWrite
  <2>3. HasClient(r, l)
    BY <1>0 DEF HasClient
  <2> HIDE DEF k
  <2> QED  BY <1>0, <2>1, <2>2, <2>3
<1>3. ASSUME NEW s \in Replicas, NEW id \in Chats \cup Listeners, RemoveClient(s, id)
      PROVE  l \in observers'[r][c] \/ (RemoveClient(r, c) /\ l \in Reached(r, c))
  <2>1. CASE s = r /\ id = c
    <3>1. l \in Reached(r, c)
      BY <1>0 DEF Reached
    <3> QED  BY <1>3, <2>1, <3>1
  <2>2. CASE s = r /\ id = l
    <3>1. clients'[r][l] = Nobody
      BY <1>0, <1>3, <2>2 DEF RemoveClient
    <3> QED  BY <1>0, <3>1
  <2>3. CASE s # r \/ (id # c /\ id # l)
    BY <1>0, <1>3, <2>3 DEF RemoveClient
  <2> QED  BY <2>1, <2>2, <2>3
<1> QED  BY <1>1, <1>2, <1>3 DEF ResponseStep, StreamerIs, streamer, Opens

(* The next event of q is written to x. *)
Tells(r, x, q) ==
  /\ TakeEvent(r) /\ Head(inbox[r]).by = q
  /\ x \in Reached(r, request[q].chat) /\ handlers[r][request[q].chat] # 0

(* Who is not told of q hears nothing of it. *)
LEMMA ElseTold ==
  ASSUME TypeInv, HeardOK, ResponseStep, NEW x \in Listeners \cup Requests, NEW q \in Requests,
         \A r \in Replicas : ~ Tells(r, x, q)
  PROVE  \/ heard'[x] = heard[x]
         \/ /\ heard'[x] \in Seq(Note)
            /\ \E e \in Note : Extends(heard[x], heard'[x], e) /\ e.of # q
<1>1. ASSUME NEW r \in Replicas, Writes(r), heard'[x] # heard[x]
      PROVE  heard'[x] \in Seq(Note) /\ \E e \in Note : Extends(heard[x], heard'[x], e) /\ e.of # q
  <2> DEFINE m == Head(inbox[r])
             e == [of |-> m.by, n |-> m.n]
  <2>1. /\ e \in Note /\ heard'[x] \in Seq(Note) /\ Extends(heard[x], heard'[x], e)
        /\ x \in Reached(r, m.chat) /\ handlers[r][m.chat] # 0
    BY <1>1, HeardWrite
  <2>2. m.by # q
    BY <1>1, <2>1 DEF Tells, Writes
  <2>3. e.of = m.by
    OBVIOUS
  <2> HIDE DEF e
  <2> QED  BY <2>1, <2>2, <2>3
<1>2. ASSUME NEW r \in Replicas, NEW id \in Chats \cup Listeners, RemoveClient(r, id),
             heard'[x] # heard[x]
      PROVE  heard'[x] \in Seq(Note) /\ \E e \in Note : Extends(heard[x], heard'[x], e) /\ e.of # q
  <2> DEFINE e == [of |-> id, n |-> 0]
  <2>1. /\ e \in Note /\ heard'[x] \in Seq(Note) /\ Extends(heard[x], heard'[x], e)
        /\ id \in Chats
    BY <1>2, HeardRemove
  <2>2. e.of # q
    BY <2>1, RelayAssumption
  <2> HIDE DEF e
  <2> QED  BY <2>1, <2>2
<1> QED  BY <1>1, <1>2 DEF ResponseStep, StreamerIs, streamer, Opens, Watches

(* What is told of q comes after q has begun. *)
LEMMA ToldBegun ==
  ASSUME TypeInv, HeardOK, ResponseStep, NEW x \in Listeners \cup Requests, NEW q \in Requests,
         ~ Begun(request, q)
  PROVE  \A i \in 1..Len(heard'[x]) : heard'[x][i].of # q
<1>1. \A r \in Replicas : Writes(r) => Head(inbox[r]).by # q
  BY DEF Writes
<1>3. ASSUME NEW r \in Replicas, Writes(r), heard'[x] # heard[x]
      PROVE  \A i \in 1..Len(heard'[x]) : heard'[x][i].of # q
  <2> DEFINE m == Head(inbox[r])
             e == [of |-> m.by, n |-> m.n]
  <2>1. Extends(heard[x], heard'[x], e)
    BY <1>3, HeardWrite
  <2>2. e.of # q
    BY <1>1, <1>3
  <2> HIDE DEF e
  <2> QED  BY <2>1, <2>2 DEF HeardOK, Extends
<1>4. ASSUME NEW r \in Replicas, NEW id \in Chats \cup Listeners, RemoveClient(r, id),
             heard'[x] # heard[x]
      PROVE  \A i \in 1..Len(heard'[x]) : heard'[x][i].of # q
  <2> DEFINE e == [of |-> id, n |-> 0]
  <2>1. Extends(heard[x], heard'[x], e) /\ id \in Chats
    BY <1>4, HeardRemove
  <2>2. e.of # q
    BY <2>1, RelayAssumption
  <2> HIDE DEF e
  <2> QED  BY <2>1, <2>2 DEF HeardOK, Extends
<1>5. CASE heard'[x] = heard[x]
  BY <1>5 DEF HeardOK
<1> QED  BY <1>3, <1>4, <1>5 DEF ResponseStep, StreamerIs, streamer, Opens, Watches

(* One run and one response, in a step that does not tell the response of  *)
(* an event of the run: what has been told of the run stays the latest, or *)
(* the chat ends, ...                                                      *)
LEMMA GapElse ==
  ASSUME OwnChats, NoOverlap, GapInv, TypeInv', ResponseStep, [Next]_vars,
         lapsed \subseteq lapsed',
         NEW x \in Listeners \cup Requests, NEW q \in Requests, Begun(request, q),
         NEW c \in Chats, c = request[q].chat,
         \A r \in Replicas : ~ Tells(r, x, q)
  PROVE  /\ <<PlaceOf(x)', c>> \notin lapsed' => Gapless(heard'[x], q, c)
         /\ \A n \in Nat : Latest(heard'[x], q, c, n) =>
              /\ \A r \in Replicas : x \in Listeners /\ clients'[r][x] = x => x \in observers'[r][c]
              /\ \A r \in Replicas : x \in Reached(r, c)' => <<r, c>> \in lapsed' \/ Good(r, q, n)'
<1>0. /\ StreamInv /\ MailInv /\ ResponseInv /\ OpenOK /\ NoGaps /\ TypeInv /\ HeardOK
      /\ heard[x] \in Seq(Note) /\ request'[q].chat = c
  BY DEF GapInv, StreamInv, ChannelInv, ResponseInv, HeardOK, ResponseStep, Carried
<1>1. <<PlaceOf(x)', c>> \notin lapsed' => Gapless(heard[x], q, c)
  <2>1. CASE PlaceOf(x)' = PlaceOf(x)
    BY <1>0, <2>1 DEF NoGaps
  <2>2. CASE heard[x] = << >>
    BY <2>2 DEF Gapless
  <2> QED  BY <1>0, <2>1, <2>2, PlaceKept
<1>2. /\ Gapless(heard[x], q, c) => Gapless(heard'[x], q, c)
      /\ \A n : Latest(heard'[x], q, c, n) => Latest(heard[x], q, c, n)
  <2>1. CASE heard'[x] = heard[x]
    BY <2>1
  <2>2. CASE /\ heard'[x] \in Seq(Note)
             /\ \E e \in Note : Extends(heard[x], heard'[x], e) /\ e.of # q
    BY <1>0, <2>2, OtherTold
  <2> QED  BY <1>0, <2>1, <2>2, ElseTold
<1>3. ASSUME NEW n \in Nat, Latest(heard'[x], q, c, n)
      PROVE  /\ \A r \in Replicas : x \in Listeners /\ clients'[r][x] = x => x \in observers'[r][c]
             /\ \A r \in Replicas : x \in Reached(r, c)' => <<r, c>> \in lapsed' \/ Good(r, q, n)'
  <2>1. Latest(heard[x], q, c, n)
    BY <1>2, <1>3
  <2>2. ASSUME NEW r \in Replicas, x \in Listeners, clients'[r][x] = x PROVE x \in observers'[r][c]
    <3>1. clients[r][x] = x /\ x \in observers[r][c]
      BY <1>0, <2>1, <2>2, ReachedBefore
    <3>2. SUFFICES ASSUME RemoveClient(r, c), x \in Reached(r, c) PROVE FALSE
      BY <1>0, <2>2, <3>1, ObservingKept
    <3> DEFINE e == [of |-> c, n |-> 0]
    <3>3. c \notin Listeners /\ q # c
      BY RelayAssumption
    <3>4. /\ e \in Note /\ heard'[x] \in Seq(Note) /\ Extends(heard[x], heard'[x], e)
          /\ \E i \in 1..Len(heard'[x]) : i \notin 1..Len(heard[x])
      BY <1>0, <3>2, <3>3, HeardRemove
    <3>5. e.of = c
      OBVIOUS
    <3> HIDE DEF e
    <3> QED  BY <1>0, <1>3, <3>3, <3>4, <3>5, EndTold
  <2>3. ASSUME NEW r \in Replicas, x \in Reached(r, c)', <<r, c>> \notin lapsed'
        PROVE  Good(r, q, n)'
    <3>1. x \in Reached(r, c) /\ <<r, c>> \notin lapsed
      BY <1>0, <2>1, <2>3, ReachedBefore
    <3>2. Good(r, q, n)
      BY <1>0, <2>1, <3>1 DEF OpenOK
    <3>3. TakeEvent(r) => ~ IsEventOf(Head(inbox[r]), q)
      <4> SUFFICES ASSUME TakeEvent(r), Head(inbox[r]).by = q PROVE FALSE
        BY DEF IsEventOf
      <4>1. handlers[r][c] # 0
        BY <1>0, <3>2, HandlersThere DEF Good
      <4> QED  BY <3>1, <4>1 DEF Tells
    <3>4. ~ BeingSwept(r, request[q].chat)
      BY <3>1 DEF GapInv, LapsesNoted
    <3>5. Reached(r, request[q].chat)' # {}
      BY <1>0, <2>3 DEF Reached
    <3> QED  BY <1>0, <3>2, <3>3, <3>4, <3>5, GoodKept
  <2> QED  BY <2>2, <2>3
<1> QED  BY <1>1, <1>2, <1>3

(* ... and in one that does: the event is the next, and the one after it   *)
(* follows in the mailbox.                                                 *)
LEMMA GapTold ==
  ASSUME GapInv, TypeInv', lapsed \subseteq lapsed', NEW r \in Replicas, NEW x \in Listeners \cup Requests,
         NEW q \in Requests, Tells(r, x, q), NEW c \in Chats, c = request[q].chat
  PROVE  /\ <<PlaceOf(x)', c>> \notin lapsed' => Gapless(heard'[x], q, c)
         /\ \A n \in Nat : Latest(heard'[x], q, c, n) =>
              /\ \A s \in Replicas : x \in Listeners /\ clients'[s][x] = x => x \in observers'[s][c]
              /\ \A s \in Replicas : x \in Reached(s, c)' => <<s, c>> \in lapsed' \/ Good(s, q, n)'
<1> DEFINE m == Head(inbox[r])
           e == [of |-> m.by, n |-> m.n]
<1>0. /\ StreamInv /\ MailInv /\ ResponseInv /\ OpenOK /\ NoGaps /\ TypeInv /\ HeardOK /\ PlacesOK
      /\ heard[x] \in Seq(Note)
  BY DEF GapInv, StreamInv, ChannelInv, ResponseInv, HeardOK
<1>1. TakeEvent(r) /\ m.by = q /\ x \in Reached(r, c) /\ handlers[r][c] # 0
  BY DEF Tells
<1>2. /\ Writes(r) /\ EventOK(r, 1, q, m.chat, m.n) /\ m = inbox[r][1] /\ 1 \in Mail(r)
      /\ inbox[r] # << >> /\ inbox[r] \in Seq(Message)
  BY <1>0, <1>1, WritesIs
<1>3. m.chat = c /\ Begun(request, q) /\ m.kind = "event"
  BY <1>1, <1>2 DEF EventOK, Writes
<1>4. /\ e \in Note /\ heard'[x] \in Seq(Note) /\ Extends(heard[x], heard'[x], e)
      /\ \E i \in 1..Len(heard'[x]) : i \notin 1..Len(heard[x])
  BY <1>0, <1>1, <1>2, <1>3, HeardWrite
<1>5. e.of = q /\ e.n = m.n
  BY <1>1
<1>6. <<r, c>> \notin lapsed => Follows(heard[x], q, c, e)
  <2> SUFFICES ASSUME <<r, c>> \notin lapsed, NEW n \in Nat, Latest(heard[x], q, c, n)
               PROVE  m.n = n + 1
    BY <1>5 DEF Follows
  <2>1. Continued(inbox[r], q, 0, n, Ends(r, q, n))
    BY <1>0, <1>1 DEF OpenOK, Good
  <2>2. Ends(r, q, n) \in BOOLEAN
    BY DEF Ends
  <2>3. IsEventOf(m, q)
    BY <1>1, <1>3 DEF IsEventOf
  <2> HIDE DEF Ends
  <2> QED  BY <1>2, <2>1, <2>2, <2>3, ContinuedHead
<1>7. UNCHANGED <<clients, request, panel>>
  BY <1>2 DEF Writes
<1>8. observers' = [observers EXCEPT ![r][c] = {l \in @ : HasClient(r, l)}]
  BY <1>1, <1>2, <1>3 DEF Writes, SafeWrite
<1>9. observers'[r][c] = {l \in observers[r][c] : HasClient(r, l)}
       /\ \A s \in Replicas : observers'[s][c] \subseteq observers[s][c]
  BY <1>0, <1>8 DEF TypeInv, TypeOK
<1>10. \/ x \in Listeners /\ panel[x].at = r /\ clients[r][x] = x /\ x \in observers[r][c]
       \/ x \in Requests /\ request[x].at = r
  BY <1>0, <1>1, ReachedIs
<1>11. PlaceOf(x) = r /\ PlaceOf(x)' = r
  BY <1>7, <1>10, RelayAssumption DEF PlaceOf
<1>12. ASSUME <<r, c>> \notin lapsed
       PROVE  /\ Gapless(heard'[x], q, c)
              /\ \A n : Latest(heard'[x], q, c, n) => n = m.n
  <2>1. Gapless(heard[x], q, c)
    BY <1>0, <1>11, <1>12 DEF NoGaps
  <2> HIDE DEF e, m
  <2>2. Gapless(heard'[x], q, c) /\ \A n : Latest(heard'[x], q, c, n) => n = e.n
    BY <1>0, <1>4, <1>5, <1>6, <1>12, <2>1, NextTold
  <2> QED  BY <1>5, <2>2
<1>13. ASSUME NEW s \in Replicas, x \in Listeners, clients'[s][x] = x PROVE x \in observers'[s][c]
  <2>1. panel[x].at = s /\ clients[s][x] # Nobody
    BY <1>0, <1>7, <1>13, RelayAssumption DEF PlacesOK
  <2>2. s = r /\ x \in observers[r][c]
    BY <1>10, <1>13, <2>1, RelayAssumption
  <2> QED  BY <1>9, <2>1, <2>2 DEF HasClient
<1>14. ASSUME NEW n, n = m.n, NEW s \in Replicas, x \in Reached(s, c)' PROVE s = r /\ Good(s, q, n)'
  <2>1. x \in Reached(s, c)
    BY <1>7, <1>9, <1>14 DEF Reached
  <2>2. s = r
    BY <1>0, <1>10, <2>1, ReachedIs, RelayAssumption
  <2>3. c \in subscribed[r]
    <3>1. AgreesOn(r, c)
      BY <1>0 DEF StreamInv, ChannelInv
    <3>2. handlers[r][c] \in Nat
      BY <1>0 DEF TypeInv, TypeOK
    <3> QED  BY <1>1, <3>1, <3>2 DEF AgreesOn
  <2>4. subscribed' = subscribed
    BY <1>1 DEF TakeEvent
  <2>5. Secure(r, request[q].chat)'
    BY <1>7, <2>3, <2>4 DEF Secure
  <2>7. Continued(inbox[r], q, 0 + 1, n, Ends(r, q, n)) /\ 0 \in Nat
    BY <1>2, <1>14 DEF EventOK
  <2>8. Continued(inbox'[r], q, 0, n, Ends(r, q, n)')
    BY <1>0, <1>1, <1>3, <2>7, ContinuedTake DEF Take
  <2>9. Good(r, q, n)'
    BY <2>5, <2>8 DEF Good
  <2> QED  BY <2>2, <2>9
<1>15. ASSUME NEW s \in Replicas, x \in Reached(s, c)' PROVE s = r
  BY <1>14, <1>15
<1> HIDE DEF m, e
<1>16. CASE <<r, c>> \in lapsed
  BY <1>11, <1>13, <1>15, <1>16
<1>17. CASE <<r, c>> \notin lapsed
  BY <1>13, <1>14, <1>12, <1>17
<1> QED  BY <1>16, <1>17

(* Nothing has been heard at the start. *)
LEMMA GapInit == AuditInit => GapInv
<1> SUFFICES ASSUME Init PROVE GapInv
  BY DEF AuditInit
<1>1. StreamInv /\ MailInv /\ ResponseInv
  BY StreamInit, MailInit, ResponseInit
<1>2. \A x \in Listeners \cup Requests : heard[x] = << >> /\ 1..Len(heard[x]) = {}
  BY DEF Init
<1>3. LapsesNoted
  BY DEF LapsesNoted, BeingSwept, Init
<1>4. OpenOK
  BY <1>2 DEF OpenOK, Latest
<1>5. NoGaps
  BY <1>2 DEF NoGaps, Gapless
<1> QED  BY <1>1, <1>4, <1>5, <1>3 DEF GapInv

(* GapInv is inductive while chats do not overlap. *)
LEMMA GapNext ==
  OwnChats /\ NoOverlap /\ NoOverlap' /\ GapInv /\ [AuditNext]_auditVars => GapInv'
<1> SUFFICES ASSUME OwnChats, NoOverlap, NoOverlap', GapInv, [AuditNext]_auditVars PROVE GapInv'
  OBVIOUS
<1>0. [Next]_vars /\ lapsed \subseteq lapsed'
  BY DEF AuditNext, auditVars
<1>1. StreamInv' /\ MailInv' /\ ResponseInv' /\ ResponseStep
  BY <1>0, StreamNext, MailNext, ResponseNext DEF GapInv
<1>2. LapsesNoted'
  BY LapsesNext DEF GapInv
<1>3. TypeInv /\ TypeInv' /\ HeardOK /\ Carried
  BY <1>1 DEF GapInv, StreamInv, ChannelInv, ResponseInv, ResponseStep
<1>4. ASSUME NEW x \in Listeners \cup Requests, NEW q \in Requests, ~ Begun(request, q)
      PROVE  \A k : Gapless(heard'[x], q, k) /\ \A n : ~ Latest(heard'[x], q, k, n)
  <2>1. \A i \in 1..Len(heard'[x]) : heard'[x][i].of # q
    BY <1>1, <1>3, <1>4, ToldBegun
  <2> QED  BY <2>1 DEF Gapless, Latest
<1>5. ASSUME NEW x \in Listeners \cup Requests, NEW q \in Requests, Begun(request, q),
             NEW c \in Chats, c = request[q].chat
      PROVE  /\ <<PlaceOf(x)', c>> \notin lapsed' => Gapless(heard'[x], q, c)
             /\ \A n \in Nat : Latest(heard'[x], q, c, n) =>
                  /\ \A r \in Replicas : x \in Listeners /\ clients'[r][x] = x => x \in observers'[r][c]
                  /\ \A r \in Replicas : x \in Reached(r, c)' => <<r, c>> \in lapsed' \/ Good(r, q, n)'
  <2>1. CASE \E r \in Replicas : Tells(r, x, q)
    BY <1>0, <1>3, <1>5, <2>1, GapTold
  <2>2. CASE \A r \in Replicas : ~ Tells(r, x, q)
    BY <1>0, <1>1, <1>3, <1>5, <2>2, GapElse
  <2> QED  BY <2>1, <2>2
<1>6. \A q \in Requests : Begun(request, q) => request[q].chat \in Chats /\ request'[q].chat = request[q].chat
  BY <1>3 DEF TypeInv, RequestsOK, Carried
<1>7. NoGaps'
  <2> SUFFICES ASSUME NEW x \in Listeners \cup Requests, NEW q \in Requests,
                      <<PlaceOf(x)', request'[q].chat>> \notin lapsed'
               PROVE  Gapless(heard'[x], q, request'[q].chat)
    BY DEF NoGaps
  <2> QED  BY <1>4, <1>5, <1>6
<1>8. OpenOK'
  <2> SUFFICES ASSUME NEW x \in Listeners \cup Requests, NEW q \in Requests, NEW n \in Nat,
                      Latest(heard'[x], q, request'[q].chat, n)
               PROVE  /\ \A r \in Replicas : x \in Listeners /\ clients'[r][x] = x =>
                           x \in observers'[r][request'[q].chat]
                      /\ \A r \in Replicas : x \in Reached(r, request[q].chat)' =>
                           <<r, request'[q].chat>> \in lapsed' \/ Good(r, q, n)'
    BY DEF OpenOK
  <2>1. Begun(request, q)
    BY <1>4
  <2>2. PICK c \in Chats : c = request[q].chat /\ request'[q].chat = c
    BY <1>6, <2>1
  <2>3. /\ \A r \in Replicas : x \in Listeners /\ clients'[r][x] = x => x \in observers'[r][c]
        /\ \A r \in Replicas : x \in Reached(r, c)' => <<r, c>> \in lapsed' \/ Good(r, q, n)'
    BY <1>5, <2>1, <2>2
  <2>4. \A r \in Replicas : Reached(r, request[q].chat)' = Reached(r, c)'
    BY <2>2 DEF Reached
  <2> QED  BY <2>2, <2>3, <2>4
<1> QED  BY <1>1, <1>7, <1>8, <1>2 DEF GapInv

(* NoGaps, in the words of HeardWithoutGap. *)
LEMMA NoGapsIs ==
  ASSUME HeardOK, NoGaps PROVE HeardWithoutGap
<1> SUFFICES ASSUME NEW x \in Listeners \cup Requests, NEW q \in Requests,
                    <<PlaceOf(x), request[q].chat>> \notin lapsed, NEW p \in Successive(x, q)
             PROVE  heard[x][p[2]].n \in {heard[x][p[1]].n, heard[x][p[1]].n + 1}
  BY DEF HeardWithoutGap
<1> DEFINE s == heard[x]
           a == p[1]
           b == p[2]
<1>1. /\ a \in 1..Len(s) /\ b \in 1..Len(s) /\ a < b /\ s[a].of = q /\ s[b].of = q
      /\ \A i \in a + 1 .. b - 1 : s[i].of \notin {q, request[q].chat}
  BY DEF Successive
<1>2. Len(s) \in Nat
  BY DEF HeardOK
<1>3. \A i \in 1..Len(s) : a < i /\ i < b => s[i].of \notin {q, request[q].chat}
  <2> SUFFICES ASSUME NEW i \in 1..Len(s), a < i, i < b PROVE i \in a + 1 .. b - 1
    BY <1>1
  <2> HIDE DEF a, b, s
  <2> QED  BY <1>1, <1>2
<1>4. Gapless(s, q, request[q].chat)
  BY DEF NoGaps
<1> HIDE DEF a, b, s
<1>5. s[b].n = s[a].n \/ s[b].n = s[a].n + 1
  BY <1>1, <1>3, <1>4 DEF Gapless
<1> QED  BY <1>5 DEF a, b, s

(* Whatever connects, leaves or runs at the same time, the events of a run *)
(* come to a panel or a response in order and without a gap: handleEvent   *)
(* and safeWrite, behind Redis and the mailbox of the replica, with the    *)
(* replicas subscribing and unsubscribing on the way; except, as the       *)
(* property says, for a chat somebody began to listen to on that replica   *)
(* while the clean-up's unsubscription of it was on its way.  Hypotheses:  *)
(* streaming predictions of one chat on one replica do not overlap and     *)
(* webhooks have chats of their own, as above.                             *)
THEOREM EventsHeardWithoutGap ==
  ASSUME OwnChats
  PROVE  AuditSpec /\ []NoOverlap => []HeardWithoutGap
<1>1. AuditInit => GapInv
  BY GapInit
<1>2. GapInv /\ NoOverlap /\ NoOverlap' /\ [AuditNext]_auditVars => GapInv'
  BY GapNext
<1>3. GapInv => HeardWithoutGap
  BY NoGapsIs DEF GapInv, ResponseInv
<1> QED  BY <1>1, <1>2, <1>3, PTL DEF AuditSpec

===========================================================================
