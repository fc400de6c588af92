----------------------------- MODULE EffectOnce -----------------------------
(***************************************************************************)
(* What a consumer behind a dead letter queue promises of each key, in     *)
(* return for at-least-once delivery: one effect, however many copies      *)
(* arrive, and no copy acknowledged before it.  A copy that is not         *)
(* acknowledged is set aside for a human, or lost with its queue.          *)
(***************************************************************************)
EXTENDS Naturals

CONSTANT Keys

VARIABLES
    arrived,        \* keys of which a copy reached the queue
    effect,         \* effects of each
    acknowledged,   \* keys of which a copy was deleted by the consumer
    aside,          \* keys of which a copy is in the dead letter queue
    lost            \* keys of which a copy is gone with the queue

promise == <<arrived, effect, acknowledged, aside, lost>>

Init ==
    /\ arrived = {}
    /\ effect = [k \in Keys |-> 0]
    /\ acknowledged = {}
    /\ aside = {}
    /\ lost = {}

\* One publish reaches every queue that receives.
Arrive(K) ==
    /\ arrived' = arrived \cup K
    /\ UNCHANGED <<effect, acknowledged, aside, lost>>

Effect(k) ==
    /\ k \in arrived /\ effect[k] = 0
    /\ effect' = [effect EXCEPT ![k] = 1]
    /\ UNCHANGED <<arrived, acknowledged, aside, lost>>

Acknowledge(k) ==
    /\ k \in arrived /\ effect[k] > 0
    /\ acknowledged' = acknowledged \cup {k}
    /\ UNCHANGED <<arrived, effect, aside, lost>>

SetAside(k) ==
    /\ k \in arrived
    /\ aside' = aside \cup {k}
    /\ UNCHANGED <<arrived, effect, acknowledged, lost>>

\* The queues are emptied, the dead letter queues too.
Forget(K) ==
    /\ K \subseteq arrived
    /\ lost' = lost \cup K
    /\ aside' = {}
    /\ UNCHANGED <<arrived, effect, acknowledged>>

Next ==
    \/ \E K \in SUBSET Keys : Arrive(K) \/ Forget(K)
    \/ \E k \in Keys : Effect(k) \/ Acknowledge(k) \/ SetAside(k)

Spec == Init /\ [][Next]_promise

=============================================================================
