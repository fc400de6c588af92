----------------------------- MODULE MCPipeline -----------------------------
(* A small instance of the system for TLC. *)
EXTENDS Pipeline

\* Every request is for the same purchase: the second is a retry.
OnePurchase == [o \in Orders |-> "p"]

EachOnce == [k \in FaultKinds |-> 1]
OneUnacknowledged == [k \in FaultKinds |-> IF k = "commitUnacked" THEN 1 ELSE 0]

=============================================================================
