--------------------------- MODULE EventRelayAudit ---------------------------
(***************************************************************************)
(* The relay of events with a history of the one race that costs a panel   *)
(* events: the clean-up drops the channel of a chat, and before the reply  *)
(* has come somebody begins to listen to the chat on the same replica.     *)
(* RedisEventSubscriber.subscribe still finds the channel in its set and   *)
(* returns; the reply then takes the channel away.                         *)
(***************************************************************************)
EXTENDS EventRelay

VARIABLE lapsed   \* history: <<replica, chat>> where that has happened

auditVars == <<vars, lapsed>>

BeingSwept(r, k) ==
  \E i \in DOMAIN inbox[r] : inbox[r][i] = Reply("unsubscribed", k, Nobody)

(* Replicas and chats somebody begins to listen to in this step, while the *)
(* clean-up's unsubscription is on its way.                                *)
Lapses ==
  {p \in Replicas \X Chats :
     BeingSwept(p[1], p[2]) /\ Reached(p[1], p[2]) = {} /\ Reached(p[1], p[2])' # {}}

AuditInit == Init /\ lapsed = {}

AuditNext == Next /\ lapsed' = lapsed \cup Lapses

AuditSpec == AuditInit /\ [][AuditNext]_auditVars

FairAuditSpec == AuditSpec /\ Fairness

---------------------------------------------------------------------------
(* The replica a response is on. *)
PlaceOf(x) == IF x \in Listeners THEN panel[x].at ELSE request[x].at

(* Whatever connects, leaves or runs at the same time, the events of a run *)
(* come to a panel or a response in order and without a gap, from wherever *)
(* it has begun to hear them until it is told that the run ended: whatever *)
(* happens on other replicas and to other chats.  Not so where somebody    *)
(* has begun to listen to the chat behind the clean-up's back: the channel *)
(* is lost, and found again by the next bind message.                      *)
HeardWithoutGap ==
  \A x \in Listeners \cup Requests, q \in Requests :
    <<PlaceOf(x), request[q].chat>> \notin lapsed =>
      \A p \in Successive(x, q) :
        heard[x][p[2]].n \in {heard[x][p[1]].n, heard[x][p[1]].n + 1}
===========================================================================
