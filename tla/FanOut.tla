------------------------------- MODULE FanOut -------------------------------
(***************************************************************************)
(* What a bootstrap promises of the topic: queues are connected to it one  *)
(* by one, a connected queue receives whatever is published from then on,  *)
(* and nothing but a restart of LocalStack disconnects it again.           *)
(***************************************************************************)
CONSTANT Queues

VARIABLES
    topic,          \* it exists
    receiving       \* queues a published message reaches

wiring == <<topic, receiving>>

Init == topic = FALSE /\ receiving = {}

\* The bootstrap does, and a relay that has no ARN.
CreateTopic == topic' = TRUE /\ UNCHANGED receiving

Connect(q) ==
    /\ topic
    /\ receiving' = receiving \cup {q}
    /\ UNCHANGED topic

Restart == topic' = FALSE /\ receiving' = {}

Next == CreateTopic \/ Restart \/ \E q \in Queues : Connect(q)

Spec == Init /\ [][Next]_wiring

=============================================================================
