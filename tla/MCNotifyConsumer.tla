-------------------------- MODULE MCNotifyConsumer --------------------------
(* Small instances of the notifications consumer for TLC. *)
EXTENDS NotifyConsumer, TLC

\* Two copies of one event, and a malformed message.
TwoCopies == [m \in Messages |-> IF m = "malformed" THEN "o2" ELSE "o1"]
OneIncomplete == [m \in Messages |-> IF m = "malformed" THEN "incomplete" ELSE "order"]
OneUnparsable == [m \in Messages |-> IF m = "malformed" THEN "unparsable" ELSE "order"]

EachOnce == [k \in FaultKinds |-> 1]
HandlerFaults == [k \in FaultKinds |-> IF k \in {"sigterm", "noAnswer", "restart"} THEN 0 ELSE 1]
RedisOnly == [k \in FaultKinds |-> IF k = "redisError" THEN 1 ELSE 0]

SameConsumers == Permutations(Consumers)

=============================================================================
