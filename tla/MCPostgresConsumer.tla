------------------------- MODULE MCPostgresConsumer -------------------------
(* A small instance of billing for TLC. *)
EXTENDS PostgresConsumer, TLC

\* Two copies of one event, and a malformed message.
TwoCopies == [m \in Messages |-> IF m = "malformed" THEN "o2" ELSE "o1"]
OneIncomplete == [m \in Messages |-> IF m = "malformed" THEN "incomplete" ELSE "order"]

EachOnce == [k \in FaultKinds |-> 1]

SameConsumers == Permutations(Consumers)

=============================================================================
