-------------------------- MODULE PostgresConsumer --------------------------
(***************************************************************************)
(* Billing, and Shipping, which is the same program with other columns:    *)
(* handle() inserts the order's row in a transaction of its own, or does   *)
(* nothing if there is one.  The row is both the effect and the dedup      *)
(* record (src/billing/service.py, src/shipping/service.py).               *)
(***************************************************************************)
EXTENDS SqsConsumer

VARIABLES
    records,    \* committed rows of each order
    txn         \* each consumer's open transaction: none, or what its INSERT did

vars == <<loopVars, records, txn>>

Init == LoopInit /\ records = [o \in Orders |-> 0] /\ txn = [c \in Consumers |-> "none"]

OrderOf(c) == Order[msg[c]]

\* Mutant: the conflict is looked for on a column that is new each time.
Conflict_Never(c) == FALSE

\* ON CONFLICT (order_id).
Conflict(c) == records[OrderOf(c)] > 0

\* An uncommitted row of the same order makes the INSERT wait for its fate.
InsertBlocked(c) ==
    \E d \in Consumers \ {c} : txn[d] = "inserted" /\ OrderOf(d) = OrderOf(c)

Insert(c) ==
    /\ pc[c] = "handle" /\ txn[c] = "none"
    /\ Body[msg[c]] = "order" /\ ~InsertBlocked(c)
    /\ txn' = [txn EXCEPT ![c] = IF Conflict(c) THEN "conflict" ELSE "inserted"]
    /\ UNCHANGED <<loopVars, records>>

\* A field is missing or malformed.
PayloadRaises(c) ==
    /\ pc[c] = "handle" /\ Body[msg[c]] # "order"
    /\ HandlerRaises(c)
    /\ UNCHANGED <<queue, shutdown, spent, records, txn>>

InsertRaises(c) ==
    /\ pc[c] = "handle" /\ txn[c] = "none"
    /\ Spend("dbError")
    /\ HandlerRaises(c)
    /\ UNCHANGED <<queue, shutdown, records, txn>>

Recorded(c) ==
    IF txn[c] = "inserted" THEN [records EXCEPT ![OrderOf(c)] = @ + 1] ELSE records

Commit(c) ==
    /\ pc[c] = "handle" /\ txn[c] # "none"
    /\ records' = Recorded(c)
    /\ txn' = [txn EXCEPT ![c] = "none"]
    /\ HandlerReturns(c)
    /\ UNCHANGED <<queue, shutdown, spent>>

\* Mutant: session_scope swallows what the commit raises.
CommitRaises_Swallowed(c) ==
    /\ pc[c] = "handle" /\ txn[c] # "none"
    /\ Spend("dbError")
    /\ records' \in {records, Recorded(c)}
    /\ txn' = [txn EXCEPT ![c] = "none"]
    /\ HandlerReturns(c)
    /\ UNCHANGED <<queue, shutdown>>

\* Rolled back, or applied and the acknowledgement lost.
CommitRaises(c) ==
    /\ pc[c] = "handle" /\ txn[c] # "none"
    /\ Spend("dbError")
    /\ records' \in {records, Recorded(c)}
    /\ txn' = [txn EXCEPT ![c] = "none"]
    /\ HandlerRaises(c)
    /\ UNCHANGED <<queue, shutdown>>

\* The process dies; Postgres rolls its transaction back.
CrashInHandler(c) ==
    /\ Crash(c)
    /\ txn' = [txn EXCEPT ![c] = "none"]
    /\ UNCHANGED records

\* What a consumer does when nothing fails around it.
ConsumerStep(c) ==
    \/ LoopStep(c) /\ UNCHANGED <<records, txn>>
    \/ Insert(c) \/ PayloadRaises(c) \/ Commit(c)

Next ==
    \/ QueueStep /\ UNCHANGED <<records, txn>>
    \/ \E c \in Consumers :
         \/ ConsumerStep(c)
         \/ LoopFault(c) /\ UNCHANGED <<records, txn>>
         \/ InsertRaises(c) \/ CommitRaises(c) \/ CrashInHandler(c)

Spec == Init /\ [][Next]_vars

\* A running consumer keeps running, a stopped one is started again, and SQS
\* keeps its timers.
FairSpec ==
    /\ Spec
    /\ \A c \in Consumers : WF_vars(ConsumerStep(c))
    /\ \A m \in Messages : WF_vars((VisibilityExpires(m) \/ MoveToDlq(m)) /\ UNCHANGED <<records, txn>>)

-----------------------------------------------------------------------------
(* Properties. *)

\* Every variable has its type.
TypeOK ==
    /\ LoopTypeOK
    /\ records \in [Orders -> Nat]
    /\ txn \in [Consumers -> {"none", "inserted", "conflict"}]

\* Exactly once, its first half: however often SNS and SQS deliver it and to
\* however many consumers, an order is billed, and shipped, at most once.
OneRecordPerOrder == \A o \in Orders : records[o] <= 1

\* And its second half: handled first, deleted second, so a message that is
\* gone from the queue by a consumer's hand has left its record.
DeletedWasRecorded == \A m \in Messages : state[m] = "deleted" => records[Order[m]] > 0

-----------------------------------------------------------------------------
(* The contract the consumer implements. *)

OrdersIn(states) == {Order[m] : m \in {n \in Messages : state[n] \in states}}

Contract == INSTANCE EffectOnce
    WITH Keys <- Orders, effect <- records,
         arrived <- OrdersIn({"visible", "inFlight", "deleted", "dlq", "gone"}),
         acknowledged <- OrdersIn({"deleted"}),
         aside <- OrdersIn({"dlq"}), lost <- OrdersIn({"gone"})

\* Whatever the copies, the consumers and the faults, every step is a step of
\* the contract: an effect only for an order that arrived and has none, an
\* acknowledgement only after it, and nothing forgotten but in a restart.
EffectOnceSafe == Contract!Spec

=============================================================================
