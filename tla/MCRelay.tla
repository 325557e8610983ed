------------------------------- MODULE MCRelay -------------------------------
(* Two replicas and a panel or two; a webhook that may be called again for *)
(* the same chat, and a streaming prediction.  The first request names its *)
(* replica rA: the other is like it.                                       *)
EXTENDS EventRelayAudit

CONSTANTS rA, rB, w1, w2, k1, k2, q1, q2

TwoReplicas == {rA, rB}
OnePanel == {w1}
TwoPanels == {w1, w2}
TwoChats == {k1, k2}
TwoRequests == {q1, q2}
OneRequest == {q1}

Plan(kind, chat, ats) == {[kind |-> kind, chat |-> chat, at |-> r] : r \in ats}

Twice == [q \in {q1, q2} |->
            IF q = q1 THEN Plan("webhookStream", k1, {rA})
            ELSE Plan("webhook", k1, TwoReplicas) \cup Plan("stream", k2, TwoReplicas)]
ThreeAndOne == [q \in {q1, q2} |-> IF q = q1 THEN 3 ELSE 1]

OneWebhook == [q \in {q1} |-> Plan("webhook", k1, {rA})]
OneEvent == [q \in {q1} |-> 1]
===========================================================================
