---------------------------- MODULE MCOutboxRelay ----------------------------
(* Small instances of the relay for TLC. *)
EXTENDS OutboxRelay, TLC

\* Row 1 is accepted, row 2 rejected with a listed code.
OnePoisoned == [x \in Rows |-> IF x = 2 THEN "InvalidParameter" ELSE "ok"]

\* The healthy row is behind a row rejected with a listed code and one
\* rejected with a code the relay does not know.
PoisonFirst == [x \in Rows |-> CASE x = 1 -> "InvalidParameter"
                                 [] x = 2 -> "InternalError"
                                 [] OTHER -> "ok"]

AllHealthy == [x \in Rows |-> "ok"]

Faults(allowed) == [k \in FaultKinds |-> IF k \in DOMAIN allowed THEN allowed[k] ELSE 0]

\* Anything that can happen to a relay, once.
EachOnce == [k \in FaultKinds |-> IF k = "sigterm" THEN 0 ELSE 1]

\* The bound of the safety run: three different faults in one behaviour.
AtMostThreeFaults == Cardinality({k \in FaultKinds : left[k] < Budget[k]}) <= 3

\* Fewer failed publishes than OUTBOX_MAX_ATTEMPTS, and no human.
Draining == Faults([crash |-> 1, sigterm |-> 1, noAnswer |-> 1])

Outage == Faults([noAnswer |-> 2])
ClearedAfterOutage == Faults([noAnswer |-> 2, clear |-> 1])
OneRestart == Faults([restart |-> 1])

SameRelays == Permutations(Relays)

=============================================================================
