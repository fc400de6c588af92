------------------------------ MODULE Pipeline ------------------------------
(***************************************************************************)
(* The system end to end: the Order Service, and the contracts its other   *)
(* parts implement.  OutboxRelay implements AtLeastOnce, BootstrapJob      *)
(* implements FanOut, and PostgresConsumer implements EffectOnce, for each *)
(* of the queues here.  Added is what ties them together: a publish        *)
(* reaches the queues that receive at that moment, the relay is released   *)
(* by the bootstrap (docker-compose.yml), and a restart of LocalStack      *)
(* takes the topic and the queues away at once.                            *)
(***************************************************************************)
EXTENDS OrderService

CONSTANT Queues     \* Billing's and Shipping's; Notifications promises less

ASSUME QueuesAssumption == IsFiniteSet(Queues)

VARIABLES
    topic, receiving,                                   \* FanOut
    delivered, settled, abandoned,                      \* AtLeastOnce
    arrived, effect, acknowledged, aside, lost,         \* EffectOnce
    relayUp                                             \* the relay was started

wiring == <<topic, receiving>>
relay == <<delivered, settled, abandoned>>
consumers == <<arrived, effect, acknowledged, aside, lost>>
vars == <<apiVars, wiring, relay, consumers, relayUp>>

Keys == Queues \X Orders

Wiring == INSTANCE FanOut
Outbox == INSTANCE AtLeastOnce WITH Messages <- Orders, handed <- outbox
Effects == INSTANCE EffectOnce

Init ==
    /\ ApiInit
    /\ Wiring!Init
    /\ Outbox!Init
    /\ Effects!Init
    /\ relayUp = FALSE

-----------------------------------------------------------------------------
(* The bootstrap, and the gate Compose puts behind it. *)

CreateTopic ==
    /\ Wiring!CreateTopic
    /\ UNCHANGED <<apiVars, relay, consumers, relayUp>>

Connect(q) ==
    /\ Wiring!Connect(q)
    /\ UNCHANGED <<apiVars, relay, consumers, relayUp>>

\* Mutant: depends_on without service_completed_successfully.
StartRelay_Ungated ==
    /\ ~relayUp
    /\ relayUp' = TRUE
    /\ UNCHANGED <<apiVars, wiring, relay, consumers>>

\* The job exited 0: every queue receives.
StartRelay ==
    /\ ~relayUp /\ receiving = Queues
    /\ relayUp' = TRUE
    /\ UNCHANGED <<apiVars, wiring, relay, consumers>>

LocalStackRestart ==
    /\ topic
    /\ Spend("restart")
    /\ Wiring!Restart
    /\ Effects!Forget(arrived \ acknowledged)
    /\ UNCHANGED <<tables, requests, relay, relayUp>>

-----------------------------------------------------------------------------
(* The relay. *)

\* SNS copies the event to the queues that receive now.  A second copy costs a
\* fault (EveryDuplicatePaidFor of OutboxRelay).
Publish(o) ==
    /\ relayUp /\ topic
    /\ IF delivered[o] = 0 THEN UNCHANGED spent ELSE Spend("duplicate")
    /\ Outbox!Deliver(o)
    /\ Effects!Arrive(receiving \X {o})
    /\ UNCHANGED <<tables, requests, wiring, relayUp>>

Settle(o) ==
    /\ relayUp
    /\ Outbox!Settle(o)
    /\ UNCHANGED <<apiVars, wiring, consumers, relayUp>>

\* The row is parked, for the faults HealthyParkingIsPaidFor asks.
Park(o) ==
    /\ relayUp /\ Spend("parked")
    /\ Outbox!GiveUp(o)
    /\ UNCHANGED <<tables, requests, wiring, consumers, relayUp>>

-----------------------------------------------------------------------------
(* The consumers. *)

Consume(k) ==
    /\ Effects!Effect(k)
    /\ UNCHANGED <<apiVars, wiring, relay, relayUp>>

Acknowledge(k) ==
    /\ Effects!Acknowledge(k)
    /\ UNCHANGED <<apiVars, wiring, relay, relayUp>>

\* A copy ends in the dead letter queue, for the faults DlqIsPaidFor asks.
SetAside(k) ==
    /\ Spend("aside")
    /\ Effects!SetAside(k)
    /\ UNCHANGED <<tables, requests, wiring, relay, relayUp>>

-----------------------------------------------------------------------------
Next ==
    \/ ApiNext /\ UNCHANGED <<wiring, relay, consumers, relayUp>>
    \/ CreateTopic \/ StartRelay \/ LocalStackRestart
    \/ \E q \in Queues : Connect(q)
    \/ \E o \in Orders : Publish(o) \/ Settle(o) \/ Park(o)
    \/ \E k \in Keys : Consume(k) \/ Acknowledge(k) \/ SetAside(k)

Spec == Init /\ [][Next]_vars

\* A row is not published again once it is settled.
RelayStep(o) == o \notin settled \cup abandoned /\ (Publish(o) \/ Settle(o))

\* A copy is with its consumer as long as its queue has not lost it.
ConsumerStep(k) == k \notin aside \cup lost /\ (Consume(k) \/ Acknowledge(k))

\* The bootstrap runs until it succeeds, the relay and the consumers run.
FairSpec ==
    /\ Spec
    /\ WF_vars(CreateTopic) /\ WF_vars(StartRelay)
    /\ \A q \in Queues : WF_vars(Connect(q))
    /\ \A o \in Orders : WF_vars(RelayStep(o))
    /\ \A k \in Keys : WF_vars(ConsumerStep(k))

-----------------------------------------------------------------------------
(* Properties. *)

\* Every variable has its type.
TypeOK ==
    /\ ApiTypeOK
    /\ topic \in BOOLEAN /\ receiving \subseteq Queues
    /\ delivered \in [Orders -> Nat]
    /\ settled \subseteq Orders /\ abandoned \subseteq Orders
    /\ arrived \subseteq Keys /\ acknowledged \subseteq Keys
    /\ aside \subseteq Keys /\ lost \subseteq Keys
    /\ effect \in [Keys -> 0 .. 1]
    /\ relayUp \in BOOLEAN

\* An event that is settled reached every queue, or LocalStack restarted: the
\* gate holds back the relay until the fan-out is complete.
FanOutComplete ==
    \A o \in settled : Queues \X {o} \subseteq arrived \/ spent["restart"] > 0

\* Nobody is billed, and nothing shipped, for a request that was rejected, or
\* for an order that is not in the database.
OnlyStoredOrdersTakeEffect ==
    \A k \in Keys : effect[k] > 0 => k[2] \in orders /\ answer[k[2]] # "422"

\* Once the order is committed nobody needs to do anything more: it takes
\* effect at every consumer, unless its row was parked, a copy of it was set
\* aside, or LocalStack restarted.
OrderTakesEffect ==
    \A o \in Orders : o \in orders ~>
        \/ \A q \in Queues : effect[<<q, o>>] > 0
        \/ o \in abandoned
        \/ \E q \in Queues : <<q, o>> \in aside
        \/ spent["restart"] > 0

-----------------------------------------------------------------------------
(* The contract the system implements. *)

\* From the commit of an order on, the relay, the fan-out and the consumers are
\* together one queue that takes effect once: a crash or a restart anywhere on
\* the way may lose or set aside what was committed, and never invents a copy,
\* takes effect twice, or acknowledges what had no effect.
EndToEnd == INSTANCE EffectOnce WITH arrived <- Queues \X orders

EndToEndSafe == EndToEnd!Spec

=============================================================================
