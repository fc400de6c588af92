----------------------- MODULE PostgresConsumerProofs -----------------------
(***************************************************************************)
(* Billing and Shipping, for any number of messages, orders, consumers and *)
(* faults: an order has at most one record, a message a consumer deleted   *)
(* has left one, every step is one of the effect-once contract, and a      *)
(* sound message is set aside only for SQS_MAX_RECEIVE_COUNT faults.       *)
(***************************************************************************)
EXTENDS PostgresConsumer, SqsConsumerProofs

\* A consumer in its handler, or about to delete, works on a message, and
\* a transaction is open in the handler of a sound one only.
MsgInv == \A c \in Consumers :
    /\ pc[c] \in {"handle", "delete"} => msg[c] \in Messages
    /\ txn[c] # "none" => pc[c] = "handle" /\ Body[msg[c]] = "order"

\* An uncommitted row is the only row of its order, committed or not; an
\* INSERT that did nothing saw a committed one.
TxnInv == \A c \in Consumers :
    /\ txn[c] = "inserted" =>
         /\ records[OrderOf(c)] = 0
         /\ \A d \in Consumers \ {c} : txn[d] = "inserted" => OrderOf(d) # OrderOf(c)
    /\ txn[c] = "conflict" => records[OrderOf(c)] > 0

\* What is about to be deleted is recorded.
DeleteInv == \A c \in Consumers : pc[c] = "delete" => records[OrderOf(c)] > 0

HandlerInv == MsgInv /\ TxnInv /\ DeleteInv

RecordInv == OneRecordPerOrder /\ DeletedWasRecorded

IInv == TypeOK /\ HandlerInv /\ RecordInv

-----------------------------------------------------------------------------
(* Type correctness. *)

LEMMA SpendType ==
    ASSUME TypeOK, NEW kind \in FaultKinds, Spend(kind)
    PROVE  spent' \in [FaultKinds -> Nat]
BY DEF TypeOK, LoopTypeOK, Spend

LEMMA TypeInit == Init => TypeOK
BY CountsAssumption DEF Init, LoopInit, TypeOK, LoopTypeOK

LEMMA RecordedType ==
    ASSUME TypeOK, NEW c \in Consumers
    PROVE  Recorded(c) \in [Orders -> Nat]
<1>1. CASE txn[c] = "inserted"
  <2>1. ASSUME NEW o \in Orders PROVE Recorded(c)[o] \in Nat
    BY <1>1, <2>1 DEF TypeOK, Recorded
  <2>. QED BY <1>1, <2>1 DEF TypeOK, Recorded
<1>2. CASE txn[c] # "inserted"
  BY <1>2 DEF TypeOK, Recorded
<1>. QED BY <1>1, <1>2

LEMMA TypeStep == TypeOK /\ MsgInv /\ [Next]_vars => TypeOK'
<1>. SUFFICES ASSUME TypeOK, MsgInv, [Next]_vars PROVE TypeOK'
  OBVIOUS
<1>. USE CountsAssumption DEF TypeOK, LoopTypeOK, queue, process, loopVars
<1>1. ASSUME NEW m \in Messages, Deliver(m), UNCHANGED <<records, txn>> PROVE TypeOK'
  BY <1>1 DEF Deliver
<1>2. ASSUME NEW m \in Messages, VisibilityExpires(m), UNCHANGED <<records, txn>> PROVE TypeOK'
  BY <1>2 DEF VisibilityExpires
<1>3. ASSUME NEW m \in Messages, TooSlow(m), UNCHANGED <<records, txn>> PROVE TypeOK'
  BY <1>3, SpendType DEF TooSlow, FaultKinds
<1>4. ASSUME NEW m \in Messages, MoveToDlq(m), UNCHANGED <<records, txn>> PROVE TypeOK'
  BY <1>4 DEF MoveToDlq
<1>5. ASSUME LocalStackRestart, UNCHANGED <<records, txn>> PROVE TypeOK'
  BY <1>5, SpendType DEF LocalStackRestart, FaultKinds
<1>6. ASSUME Bootstrap, UNCHANGED <<records, txn>> PROVE TypeOK'
  BY <1>6 DEF Bootstrap
<1>7. ASSUME NEW c \in Consumers, Start(c), UNCHANGED <<records, txn>> PROVE TypeOK'
  BY <1>7 DEF Start
<1>8. ASSUME NEW c \in Consumers, ResolveQueue(c), UNCHANGED <<records, txn>> PROVE TypeOK'
  BY <1>8 DEF ResolveQueue
<1>9. ASSUME NEW c \in Consumers, Receive(c), UNCHANGED <<records, txn>> PROVE TypeOK'
  BY <1>9 DEF Receive, HandOut, Receivable
<1>10. ASSUME NEW c \in Consumers, ReceiveNoQueue(c), UNCHANGED <<records, txn>> PROVE TypeOK'
  BY <1>10 DEF ReceiveNoQueue
<1>11. ASSUME NEW c \in Consumers, Take(c), UNCHANGED <<records, txn>> PROVE TypeOK'
  BY <1>11 DEF Take, Continue
<1>12. ASSUME NEW c \in Consumers, Delete(c), UNCHANGED <<records, txn>> PROVE TypeOK'
  BY <1>12 DEF Delete, Deleted, OnQueue, Continue
<1>13. ASSUME NEW c \in Consumers, DeleteNoQueue(c), UNCHANGED <<records, txn>> PROVE TypeOK'
  BY <1>13 DEF DeleteNoQueue, Continue
<1>14. ASSUME NEW c \in Consumers, Stop(c), UNCHANGED <<records, txn>> PROVE TypeOK'
  BY <1>14 DEF Stop, Exit
<1>15. ASSUME NEW c \in Consumers, ReceiveLost(c), UNCHANGED <<records, txn>> PROVE TypeOK'
  BY <1>15, SpendType DEF ReceiveLost, HandOut, Receivable, FaultKinds
<1>16. ASSUME NEW c \in Consumers, DeleteRaises(c), UNCHANGED <<records, txn>> PROVE TypeOK'
  BY <1>16, SpendType DEF DeleteRaises, Deleted, OnQueue, Continue, FaultKinds
<1>17. ASSUME NEW c \in Consumers, HandleSignal(c), UNCHANGED <<records, txn>> PROVE TypeOK'
  BY <1>17, SpendType DEF HandleSignal, FaultKinds
<1>18. ASSUME NEW c \in Consumers, Insert(c) PROVE TypeOK'
  BY <1>18 DEF Insert, InsertBlocked, Conflict
<1>19. ASSUME NEW c \in Consumers, PayloadRaises(c) PROVE TypeOK'
  BY <1>19 DEF PayloadRaises, HandlerRaises, Continue
<1>20. ASSUME NEW c \in Consumers, Commit(c) PROVE TypeOK'
  BY <1>20, RecordedType DEF Commit, HandlerReturns
<1>21. ASSUME NEW c \in Consumers, InsertRaises(c) PROVE TypeOK'
  BY <1>21, SpendType DEF InsertRaises, HandlerRaises, Continue, FaultKinds
<1>22. ASSUME NEW c \in Consumers, CommitRaises(c) PROVE TypeOK'
  BY <1>22, SpendType, RecordedType DEF CommitRaises, HandlerRaises, Continue, FaultKinds
<1>23. ASSUME NEW c \in Consumers, CrashInHandler(c) PROVE TypeOK'
  BY <1>23, SpendType DEF CrashInHandler, Crash, Exit, FaultKinds
<1>24. CASE UNCHANGED vars
  BY <1>24 DEF vars
<1>. QED
  BY <1>1, <1>2, <1>3, <1>4, <1>5, <1>6, <1>7, <1>8, <1>9, <1>10, <1>11,
     <1>12, <1>13, <1>14, <1>15, <1>16, <1>17, <1>18, <1>19, <1>20, <1>21,
     <1>22, <1>23, <1>24
  DEF Next, ConsumerStep, LoopStep, LoopFault, QueueStep

-----------------------------------------------------------------------------
(* The handler and its transaction. *)

LEMMA HandlerStep == IInv /\ [Next]_vars => HandlerInv'
<1>. SUFFICES ASSUME IInv, [Next]_vars PROVE HandlerInv'
  OBVIOUS
<1>. USE OrderAssumption
     DEF IInv, HandlerInv, MsgInv, TxnInv, DeleteInv, OrderOf, TypeOK, LoopTypeOK,
         queue, process, loopVars
<1>1. ASSUME NEW m \in Messages, Deliver(m), UNCHANGED <<records, txn>> PROVE HandlerInv'
  BY <1>1 DEF Deliver
<1>2. ASSUME NEW m \in Messages, VisibilityExpires(m), UNCHANGED <<records, txn>> PROVE HandlerInv'
  BY <1>2 DEF VisibilityExpires
<1>3. ASSUME NEW m \in Messages, TooSlow(m), UNCHANGED <<records, txn>> PROVE HandlerInv'
  BY <1>3 DEF TooSlow
<1>4. ASSUME NEW m \in Messages, MoveToDlq(m), UNCHANGED <<records, txn>> PROVE HandlerInv'
  BY <1>4 DEF MoveToDlq
<1>5. ASSUME LocalStackRestart, UNCHANGED <<records, txn>> PROVE HandlerInv'
  BY <1>5 DEF LocalStackRestart
<1>6. ASSUME Bootstrap, UNCHANGED <<records, txn>> PROVE HandlerInv'
  BY <1>6 DEF Bootstrap
<1>7. ASSUME NEW c \in Consumers, Start(c), UNCHANGED <<records, txn>> PROVE HandlerInv'
  BY <1>7 DEF Start
<1>8. ASSUME NEW c \in Consumers, ResolveQueue(c), UNCHANGED <<records, txn>> PROVE HandlerInv'
  BY <1>8 DEF ResolveQueue
<1>9. ASSUME NEW c \in Consumers, Receive(c), UNCHANGED <<records, txn>> PROVE HandlerInv'
  BY <1>9 DEF Receive, HandOut, Receivable
<1>10. ASSUME NEW c \in Consumers, ReceiveNoQueue(c), UNCHANGED <<records, txn>> PROVE HandlerInv'
  BY <1>10 DEF ReceiveNoQueue
<1>11. ASSUME NEW c \in Consumers, Take(c), UNCHANGED <<records, txn>> PROVE HandlerInv'
  BY <1>11 DEF Take, Continue
<1>12. ASSUME NEW c \in Consumers, Delete(c), UNCHANGED <<records, txn>> PROVE HandlerInv'
  BY <1>12 DEF Delete, Deleted, OnQueue, Continue
<1>13. ASSUME NEW c \in Consumers, DeleteNoQueue(c), UNCHANGED <<records, txn>> PROVE HandlerInv'
  BY <1>13 DEF DeleteNoQueue, Continue
<1>14. ASSUME NEW c \in Consumers, Stop(c), UNCHANGED <<records, txn>> PROVE HandlerInv'
  BY <1>14 DEF Stop, Exit
<1>15. ASSUME NEW c \in Consumers, ReceiveLost(c), UNCHANGED <<records, txn>> PROVE HandlerInv'
  BY <1>15 DEF ReceiveLost, HandOut, Receivable
<1>16. ASSUME NEW c \in Consumers, DeleteRaises(c), UNCHANGED <<records, txn>> PROVE HandlerInv'
  BY <1>16 DEF DeleteRaises, Deleted, OnQueue, Continue
<1>17. ASSUME NEW c \in Consumers, HandleSignal(c), UNCHANGED <<records, txn>> PROVE HandlerInv'
  BY <1>17 DEF HandleSignal
<1>18. ASSUME NEW c \in Consumers, Insert(c) PROVE HandlerInv'
  BY <1>18 DEF Insert, InsertBlocked, Conflict
<1>19. ASSUME NEW c \in Consumers, PayloadRaises(c) PROVE HandlerInv'
  BY <1>19 DEF PayloadRaises, HandlerRaises, Continue
<1>20. ASSUME NEW c \in Consumers, Commit(c) PROVE HandlerInv'
  BY <1>20 DEF Commit, Recorded, HandlerReturns
<1>21. ASSUME NEW c \in Consumers, InsertRaises(c) PROVE HandlerInv'
  BY <1>21 DEF InsertRaises, HandlerRaises, Continue
<1>22. ASSUME NEW c \in Consumers, CommitRaises(c) PROVE HandlerInv'
  <2>1. MsgInv' /\ DeleteInv'
    BY <1>22 DEF CommitRaises, Recorded, HandlerRaises, Continue
  <2>2. TxnInv'
    BY <1>22 DEF CommitRaises, Recorded, HandlerRaises, Continue
  <2>. QED BY <2>1, <2>2
<1>23. ASSUME NEW c \in Consumers, CrashInHandler(c) PROVE HandlerInv'
  BY <1>23 DEF CrashInHandler, Crash, Exit
<1>24. CASE UNCHANGED vars
  BY <1>24 DEF vars
<1>. QED
  BY <1>1, <1>2, <1>3, <1>4, <1>5, <1>6, <1>7, <1>8, <1>9, <1>10, <1>11,
     <1>12, <1>13, <1>14, <1>15, <1>16, <1>17, <1>18, <1>19, <1>20, <1>21,
     <1>22, <1>23, <1>24
  DEF Next, ConsumerStep, LoopStep, LoopFault, QueueStep

LEMMA RecordStep == IInv /\ [Next]_vars => RecordInv'
<1>. SUFFICES ASSUME IInv, [Next]_vars PROVE RecordInv'
  OBVIOUS
<1>. USE OrderAssumption
     DEF IInv, HandlerInv, MsgInv, TxnInv, DeleteInv, OrderOf, TypeOK, LoopTypeOK,
         queue, process, loopVars, RecordInv, OneRecordPerOrder, DeletedWasRecorded
<1>1. ASSUME NEW m \in Messages, Deliver(m), UNCHANGED <<records, txn>> PROVE RecordInv'
  BY <1>1 DEF Deliver
<1>2. ASSUME NEW m \in Messages, VisibilityExpires(m), UNCHANGED <<records, txn>> PROVE RecordInv'
  BY <1>2 DEF VisibilityExpires
<1>3. ASSUME NEW m \in Messages, TooSlow(m), UNCHANGED <<records, txn>> PROVE RecordInv'
  BY <1>3 DEF TooSlow
<1>4. ASSUME NEW m \in Messages, MoveToDlq(m), UNCHANGED <<records, txn>> PROVE RecordInv'
  BY <1>4 DEF MoveToDlq
<1>5. ASSUME LocalStackRestart, UNCHANGED <<records, txn>> PROVE RecordInv'
  BY <1>5 DEF LocalStackRestart
<1>6. ASSUME Bootstrap, UNCHANGED <<records, txn>> PROVE RecordInv'
  BY <1>6 DEF Bootstrap
<1>7. ASSUME NEW c \in Consumers, Start(c), UNCHANGED <<records, txn>> PROVE RecordInv'
  BY <1>7 DEF Start
<1>8. ASSUME NEW c \in Consumers, ResolveQueue(c), UNCHANGED <<records, txn>> PROVE RecordInv'
  BY <1>8 DEF ResolveQueue
<1>9. ASSUME NEW c \in Consumers, Receive(c), UNCHANGED <<records, txn>> PROVE RecordInv'
  BY <1>9 DEF Receive, HandOut, Receivable
<1>10. ASSUME NEW c \in Consumers, ReceiveNoQueue(c), UNCHANGED <<records, txn>> PROVE RecordInv'
  BY <1>10 DEF ReceiveNoQueue
<1>11. ASSUME NEW c \in Consumers, Take(c), UNCHANGED <<records, txn>> PROVE RecordInv'
  BY <1>11 DEF Take, Continue
<1>12. ASSUME NEW c \in Consumers, Delete(c), UNCHANGED <<records, txn>> PROVE RecordInv'
  BY <1>12 DEF Delete, Deleted, OnQueue, Continue
<1>13. ASSUME NEW c \in Consumers, DeleteNoQueue(c), UNCHANGED <<records, txn>> PROVE RecordInv'
  BY <1>13 DEF DeleteNoQueue, Continue
<1>14. ASSUME NEW c \in Consumers, Stop(c), UNCHANGED <<records, txn>> PROVE RecordInv'
  BY <1>14 DEF Stop, Exit
<1>15. ASSUME NEW c \in Consumers, ReceiveLost(c), UNCHANGED <<records, txn>> PROVE RecordInv'
  BY <1>15 DEF ReceiveLost, HandOut, Receivable
<1>16. ASSUME NEW c \in Consumers, DeleteRaises(c), UNCHANGED <<records, txn>> PROVE RecordInv'
  BY <1>16 DEF DeleteRaises, Deleted, OnQueue, Continue
<1>17. ASSUME NEW c \in Consumers, HandleSignal(c), UNCHANGED <<records, txn>> PROVE RecordInv'
  BY <1>17 DEF HandleSignal
<1>18. ASSUME NEW c \in Consumers, Insert(c) PROVE RecordInv'
  BY <1>18 DEF Insert, InsertBlocked, Conflict
<1>19. ASSUME NEW c \in Consumers, PayloadRaises(c) PROVE RecordInv'
  BY <1>19 DEF PayloadRaises, HandlerRaises, Continue
<1>20. ASSUME NEW c \in Consumers, Commit(c) PROVE RecordInv'
  BY <1>20 DEF Commit, Recorded, HandlerReturns
<1>21. ASSUME NEW c \in Consumers, InsertRaises(c) PROVE RecordInv'
  BY <1>21 DEF InsertRaises, HandlerRaises, Continue
<1>22. ASSUME NEW c \in Consumers, CommitRaises(c) PROVE RecordInv'
  BY <1>22 DEF CommitRaises, Recorded, HandlerRaises, Continue
<1>23. ASSUME NEW c \in Consumers, CrashInHandler(c) PROVE RecordInv'
  BY <1>23 DEF CrashInHandler, Crash, Exit
<1>24. CASE UNCHANGED vars
  BY <1>24 DEF vars
<1>. QED
  BY <1>1, <1>2, <1>3, <1>4, <1>5, <1>6, <1>7, <1>8, <1>9, <1>10, <1>11,
     <1>12, <1>13, <1>14, <1>15, <1>16, <1>17, <1>18, <1>19, <1>20, <1>21,
     <1>22, <1>23, <1>24
  DEF Next, ConsumerStep, LoopStep, LoopFault, QueueStep

-----------------------------------------------------------------------------
(* The theorems. *)

LEMMA IInvInit == Init => IInv
<1>. SUFFICES ASSUME Init PROVE HandlerInv /\ RecordInv
  BY TypeInit DEF IInv
<1>. QED
  BY OrderAssumption DEF Init, LoopInit, HandlerInv, MsgInv, TxnInv, DeleteInv,
     RecordInv, OneRecordPerOrder, DeletedWasRecorded

\* The inductive invariant: shared/consumer.py's loop around the insert of
\* billing/service.py and shipping/service.py.
THEOREM Inductive == Spec => []IInv
<1>1. IInv /\ [Next]_vars => IInv'
  BY TypeStep, HandlerStep, RecordStep DEF IInv, HandlerInv
<1>. QED BY IInvInit, <1>1, PTL DEF Spec

\* Every variable keeps its type.
THEOREM TypeCorrect == Spec => []TypeOK
<1>1. IInv => TypeOK
  BY DEF IInv
<1>. QED BY Inductive, <1>1, PTL

\* However often and to however many consumers its event is delivered, an
\* order is billed, and shipped, at most once.
THEOREM BilledAtMostOnce == Spec => []OneRecordPerOrder
<1>1. IInv => OneRecordPerOrder
  BY DEF IInv, RecordInv
<1>. QED BY Inductive, <1>1, PTL

\* A message a consumer deleted has left its record: nothing is acknowledged
\* before its transaction is committed.
THEOREM NothingDeletedUnrecorded == Spec => []DeletedWasRecorded
<1>1. IInv => DeletedWasRecorded
  BY DEF IInv, RecordInv
<1>. QED BY Inductive, <1>1, PTL

-----------------------------------------------------------------------------
(* The contract. *)

\* What a consumer has in hand was delivered.
HandInv == \A c \in Consumers :
    /\ \A m \in hand[c] : state[m] # "unsent"
    /\ msg[c] \in Messages => state[msg[c]] # "unsent"

LEMMA HandStep == TypeOK /\ HandInv /\ [Next]_vars => HandInv'
<1>. SUFFICES ASSUME TypeOK, HandInv, [Next]_vars PROVE HandInv'
  OBVIOUS
<1>. USE MessagesAssumption DEF HandInv, TypeOK, LoopTypeOK, queue, process, loopVars
<1>1. ASSUME NEW m \in Messages, Deliver(m) PROVE HandInv'
  BY <1>1 DEF Deliver
<1>2. ASSUME NEW m \in Messages, VisibilityExpires(m) PROVE HandInv'
  BY <1>2 DEF VisibilityExpires
<1>3. ASSUME NEW m \in Messages, TooSlow(m) PROVE HandInv'
  BY <1>3 DEF TooSlow
<1>4. ASSUME NEW m \in Messages, MoveToDlq(m) PROVE HandInv'
  BY <1>4 DEF MoveToDlq
<1>5. ASSUME LocalStackRestart PROVE HandInv'
  BY <1>5 DEF LocalStackRestart
<1>6. ASSUME Bootstrap PROVE HandInv'
  BY <1>6 DEF Bootstrap
<1>7. ASSUME NEW c \in Consumers, Start(c) PROVE HandInv'
  BY <1>7 DEF Start
<1>8. ASSUME NEW c \in Consumers, ResolveQueue(c) PROVE HandInv'
  BY <1>8 DEF ResolveQueue
<1>9. ASSUME NEW c \in Consumers, Receive(c) PROVE HandInv'
  BY <1>9 DEF Receive, HandOut, Receivable
<1>10. ASSUME NEW c \in Consumers, ReceiveNoQueue(c) PROVE HandInv'
  BY <1>10 DEF ReceiveNoQueue
<1>11. ASSUME NEW c \in Consumers, Take(c) PROVE HandInv'
  BY <1>11 DEF Take, Continue
<1>12. ASSUME NEW c \in Consumers, Delete(c) PROVE HandInv'
  BY <1>12 DEF Delete, Deleted, Continue
<1>13. ASSUME NEW c \in Consumers, DeleteNoQueue(c) PROVE HandInv'
  BY <1>13 DEF DeleteNoQueue, Continue
<1>14. ASSUME NEW c \in Consumers, Stop(c) PROVE HandInv'
  BY <1>14 DEF Stop, Exit
<1>15. ASSUME NEW c \in Consumers, ReceiveLost(c) PROVE HandInv'
  BY <1>15 DEF ReceiveLost, HandOut, Receivable
<1>16. ASSUME NEW c \in Consumers, DeleteRaises(c) PROVE HandInv'
  BY <1>16 DEF DeleteRaises, Deleted, Continue
<1>17. ASSUME NEW c \in Consumers, HandleSignal(c) PROVE HandInv'
  BY <1>17 DEF HandleSignal
<1>18. ASSUME NEW c \in Consumers, Insert(c) PROVE HandInv'
  BY <1>18 DEF Insert
<1>19. ASSUME NEW c \in Consumers, PayloadRaises(c) PROVE HandInv'
  BY <1>19 DEF PayloadRaises, HandlerRaises, Continue
<1>20. ASSUME NEW c \in Consumers, Commit(c) PROVE HandInv'
  BY <1>20 DEF Commit, HandlerReturns
<1>21. ASSUME NEW c \in Consumers, InsertRaises(c) PROVE HandInv'
  BY <1>21 DEF InsertRaises, HandlerRaises, Continue
<1>22. ASSUME NEW c \in Consumers, CommitRaises(c) PROVE HandInv'
  BY <1>22 DEF CommitRaises, HandlerRaises, Continue
<1>23. ASSUME NEW c \in Consumers, CrashInHandler(c) PROVE HandInv'
  BY <1>23 DEF CrashInHandler, Crash, Exit
<1>24. CASE UNCHANGED vars
  BY <1>24 DEF vars
<1>. QED
  BY <1>1, <1>2, <1>3, <1>4, <1>5, <1>6, <1>7, <1>8, <1>9, <1>10, <1>11,
     <1>12, <1>13, <1>14, <1>15, <1>16, <1>17, <1>18, <1>19, <1>20, <1>21,
     <1>22, <1>23, <1>24
  DEF Next, ConsumerStep, LoopStep, LoopFault, QueueStep

LEMMA HandAlways == Spec => []HandInv
<1>1. Init => HandInv
  BY MessagesAssumption DEF Init, LoopInit, HandInv
<1>2. TypeOK /\ HandInv /\ [Next]_vars => HandInv'
  BY HandStep
<1>. QED BY TypeCorrect, <1>1, <1>2, PTL DEF Spec

Arrived == {"visible", "inFlight", "deleted", "dlq", "gone"}

\* A message that moves between two states the contract does not tell apart.
LEMMA SameOrders ==
    ASSUME NEW states, \A m \in Messages : state'[m] \in states <=> state[m] \in states
    PROVE  OrdersIn(states)' = OrdersIn(states)
BY DEF OrdersIn

\* One message that enters a set of states.
LEMMA OneMoreOrder ==
    ASSUME NEW states, NEW m \in Messages, state'[m] \in states,
           \A n \in Messages \ {m} : state'[n] \in states <=> state[n] \in states
    PROVE  OrdersIn(states)' = OrdersIn(states) \cup {Order[m]}
BY DEF OrdersIn

\* The step of a contract that sees none of it.
LEMMA Unseen ==
    ASSUME UNCHANGED records,
           \A m \in Messages :
              \/ state'[m] = state[m]
              \/ state[m] \in {"visible", "inFlight"} /\ state'[m] \in {"visible", "inFlight"}
    PROVE  UNCHANGED Contract!promise
<1>1. /\ OrdersIn(Arrived)' = OrdersIn(Arrived)
      /\ OrdersIn({"deleted"})' = OrdersIn({"deleted"})
      /\ OrdersIn({"dlq"})' = OrdersIn({"dlq"})
      /\ OrdersIn({"gone"})' = OrdersIn({"gone"})
  BY SameOrders DEF Arrived
<1>. QED BY <1>1 DEF Contract!promise, Arrived

LEMMA DeliverArrives ==
    ASSUME TypeOK, NEW m \in Messages, Deliver(m), UNCHANGED records
    PROVE  [Contract!Next]_(Contract!promise)
<1>1. state'[m] = "visible" /\ state[m] = "unsent" /\ \A n \in Messages \ {m} : state'[n] = state[n]
  BY DEF Deliver, TypeOK, LoopTypeOK
<1>2. OrdersIn(Arrived)' = OrdersIn(Arrived) \cup {Order[m]}
  BY <1>1, OneMoreOrder DEF Arrived
<1>3. /\ OrdersIn({"deleted"})' = OrdersIn({"deleted"})
      /\ OrdersIn({"dlq"})' = OrdersIn({"dlq"})
      /\ OrdersIn({"gone"})' = OrdersIn({"gone"})
  BY <1>1, SameOrders
<1>4. {Order[m]} \in SUBSET Orders
  BY OrderAssumption
<1>5. Contract!Arrive({Order[m]})
  BY <1>2, <1>3 DEF Contract!Arrive, Arrived
<1>. QED BY <1>4, <1>5 DEF Contract!Next

LEMMA DlqSetsAside ==
    ASSUME TypeOK, NEW m \in Messages, MoveToDlq(m), UNCHANGED records
    PROVE  [Contract!Next]_(Contract!promise)
<1>1. state'[m] = "dlq" /\ state[m] = "visible" /\ \A n \in Messages \ {m} : state'[n] = state[n]
  BY DEF MoveToDlq, TypeOK, LoopTypeOK
<1>2. OrdersIn({"dlq"})' = OrdersIn({"dlq"}) \cup {Order[m]}
  BY <1>1, OneMoreOrder
<1>3. /\ OrdersIn({"deleted"})' = OrdersIn({"deleted"})
      /\ OrdersIn(Arrived)' = OrdersIn(Arrived)
      /\ OrdersIn({"gone"})' = OrdersIn({"gone"})
  BY <1>1, SameOrders DEF Arrived
<1>4. Order[m] \in Orders /\ Order[m] \in OrdersIn(Arrived)
  BY <1>1, OrderAssumption DEF OrdersIn, Arrived
<1>5. Contract!SetAside(Order[m])
  BY <1>2, <1>3, <1>4 DEF Contract!SetAside, Arrived
<1>. QED BY <1>4, <1>5 DEF Contract!Next

LEMMA RestartForgets ==
    ASSUME TypeOK, LocalStackRestart, UNCHANGED records
    PROVE  [Contract!Next]_(Contract!promise)
<1>. DEFINE K == OrdersIn({"visible", "inFlight", "dlq"})
<1>1. \A m \in Messages :
         state'[m] = IF state[m] \in {"unsent", "deleted"} THEN state[m] ELSE "gone"
  BY DEF LocalStackRestart
<1>2. state \in [Messages -> {"unsent", "visible", "inFlight", "deleted", "dlq", "gone"}]
  BY DEF TypeOK, LoopTypeOK
<1>3. /\ OrdersIn(Arrived)' = OrdersIn(Arrived)
      /\ OrdersIn({"deleted"})' = OrdersIn({"deleted"})
  BY <1>1, <1>2, SameOrders DEF Arrived
<1>4. OrdersIn({"gone"})' = OrdersIn({"gone"}) \cup K /\ OrdersIn({"dlq"})' = {}
  BY <1>1, <1>2 DEF OrdersIn
<1>5. K \subseteq OrdersIn(Arrived) /\ K \in SUBSET Orders
  BY OrderAssumption DEF OrdersIn, Arrived
<1>. HIDE DEF K
<1>6. Contract!Forget(K)
  BY <1>3, <1>4, <1>5 DEF Contract!Forget, Arrived
<1>. QED BY <1>5, <1>6 DEF Contract!Next

LEMMA DeleteAcknowledges ==
    ASSUME IInv, NEW c \in Consumers, pc[c] = "delete", state' \in Deleted(c), UNCHANGED records
    PROVE  [Contract!Next]_(Contract!promise)
<1>1. CASE state' = state
  BY <1>1, Unseen
<1>2. CASE OnQueue(msg[c]) /\ state' = [state EXCEPT ![msg[c]] = "deleted"]
  <2>1. msg[c] \in Messages /\ records[OrderOf(c)] > 0
    BY DEF IInv, HandlerInv, MsgInv, DeleteInv
  <2>2. /\ state'[msg[c]] = "deleted" /\ state[msg[c]] \in {"visible", "inFlight"}
        /\ \A n \in Messages \ {msg[c]} : state'[n] = state[n]
    BY <1>2, <2>1 DEF OnQueue, IInv, TypeOK, LoopTypeOK
  <2>3. OrdersIn({"deleted"})' = OrdersIn({"deleted"}) \cup {Order[msg[c]]}
    BY <2>1, <2>2, OneMoreOrder
  <2>4. /\ OrdersIn({"dlq"})' = OrdersIn({"dlq"})
        /\ OrdersIn(Arrived)' = OrdersIn(Arrived)
        /\ OrdersIn({"gone"})' = OrdersIn({"gone"})
    BY <2>2, SameOrders DEF Arrived
  <2>5. Order[msg[c]] \in Orders /\ Order[msg[c]] \in OrdersIn(Arrived)
    BY <2>1, <2>2, OrderAssumption DEF OrdersIn, Arrived
  <2>6. Contract!Acknowledge(Order[msg[c]])
    BY <2>1, <2>3, <2>4, <2>5 DEF Contract!Acknowledge, Arrived, OrderOf
  <2>. QED BY <2>5, <2>6 DEF Contract!Next
<1>. QED BY <1>1, <1>2 DEF Deleted

LEMMA CommitTakesEffect ==
    ASSUME IInv, HandInv, NEW c \in Consumers, pc[c] = "handle",
           records' = Recorded(c), UNCHANGED state
    PROVE  [Contract!Next]_(Contract!promise)
<1>1. CASE txn[c] # "inserted"
  BY <1>1, Unseen DEF Recorded
<1>2. CASE txn[c] = "inserted"
  <2>1. msg[c] \in Messages /\ state[msg[c]] # "unsent" /\ records[OrderOf(c)] = 0
    BY <1>2 DEF IInv, HandlerInv, MsgInv, TxnInv, HandInv
  <2>2. OrderOf(c) \in Orders /\ OrderOf(c) \in OrdersIn(Arrived)
    BY <2>1, OrderAssumption DEF OrdersIn, Arrived, OrderOf, IInv, TypeOK, LoopTypeOK
  <2>3. records' = [records EXCEPT ![OrderOf(c)] = 1]
    BY <1>2, <2>1, <2>2 DEF Recorded, IInv, TypeOK
  <2>4. /\ OrdersIn(Arrived)' = OrdersIn(Arrived)
        /\ OrdersIn({"deleted"})' = OrdersIn({"deleted"})
        /\ OrdersIn({"dlq"})' = OrdersIn({"dlq"})
        /\ OrdersIn({"gone"})' = OrdersIn({"gone"})
    BY DEF OrdersIn
  <2>5. Contract!Effect(OrderOf(c))
    BY <2>1, <2>2, <2>3, <2>4 DEF Contract!Effect, Arrived
  <2>. QED BY <2>2, <2>5 DEF Contract!Next
<1>. QED BY <1>1, <1>2

\* Billing and Shipping implement the effect-once contract: however messages
\* are duplicated, reordered and lost, an effect is taken once, of an order
\* that arrived, and acknowledged after.
THEOREM ImplementsEffectOnce == Spec => EffectOnceSafe
<1>1. Init => Contract!Init
  <2>. SUFFICES ASSUME Init PROVE Contract!Init
    OBVIOUS
  <2>1. \A m \in Messages : state[m] = "unsent"
    BY DEF Init, LoopInit
  <2>2. OrdersIn(Arrived) = {} /\ OrdersIn({"deleted"}) = {} /\ OrdersIn({"dlq"}) = {}
        /\ OrdersIn({"gone"}) = {}
    BY <2>1 DEF OrdersIn, Arrived
  <2>. QED BY <2>2 DEF Init, Contract!Init, Arrived
<1>2. IInv /\ HandInv /\ [Next]_vars => [Contract!Next]_(Contract!promise)
  <2>. SUFFICES ASSUME IInv, HandInv, [Next]_vars PROVE [Contract!Next]_(Contract!promise)
    OBVIOUS
  <2>0. TypeOK
    BY DEF IInv
  <2>1. ASSUME NEW m \in Messages, Deliver(m) \/ MoveToDlq(m), UNCHANGED records
        PROVE  [Contract!Next]_(Contract!promise)
    BY <2>0, <2>1, DeliverArrives, DlqSetsAside
  <2>2. ASSUME NEW m \in Messages, VisibilityExpires(m) \/ TooSlow(m), UNCHANGED records
        PROVE  UNCHANGED Contract!promise
    <3>1. \A n \in Messages : \/ state'[n] = state[n]
                              \/ state[n] = "inFlight" /\ state'[n] = "visible"
      BY <2>0, <2>2 DEF VisibilityExpires, TooSlow, TypeOK, LoopTypeOK
    <3>. QED BY <2>2, <3>1, Unseen
  <2>3. ASSUME LocalStackRestart, UNCHANGED records PROVE [Contract!Next]_(Contract!promise)
    BY <2>0, <2>3, RestartForgets
  <2>4. ASSUME NEW c \in Consumers, Receive(c) \/ ReceiveLost(c), UNCHANGED records
        PROVE  UNCHANGED Contract!promise
    <3>1. \A n \in Messages : \/ state'[n] = state[n]
                              \/ state[n] = "visible" /\ state'[n] = "inFlight"
      BY <2>4 DEF Receive, ReceiveLost, HandOut, Receivable
    <3>. QED BY <2>4, <3>1, Unseen
  <2>5. ASSUME NEW c \in Consumers, Delete(c) \/ DeleteRaises(c), UNCHANGED records
        PROVE  [Contract!Next]_(Contract!promise)
    BY <2>5, DeleteAcknowledges DEF Delete, DeleteRaises
  <2>6. ASSUME NEW c \in Consumers, Commit(c) \/ CommitRaises(c)
        PROVE  [Contract!Next]_(Contract!promise)
    <3>1. pc[c] = "handle" /\ UNCHANGED state /\ records' \in {records, Recorded(c)}
      BY <2>6 DEF Commit, CommitRaises, queue
    <3>2. CASE records' = records
      BY <3>1, <3>2, Unseen
    <3>3. CASE records' = Recorded(c)
      BY <3>1, <3>3, CommitTakesEffect
    <3>. QED BY <3>1, <3>2, <3>3
  <2>7. ASSUME NEW c \in Consumers,
               \/ /\ \/ Start(c) \/ ResolveQueue(c) \/ ReceiveNoQueue(c) \/ Take(c)
                     \/ DeleteNoQueue(c) \/ Stop(c) \/ HandleSignal(c)
                  /\ UNCHANGED records
               \/ Insert(c) \/ PayloadRaises(c) \/ InsertRaises(c) \/ CrashInHandler(c)
        PROVE  UNCHANGED Contract!promise
    <3>1. UNCHANGED <<state, records>>
      BY <2>7 DEF Start, ResolveQueue, ReceiveNoQueue, Take, DeleteNoQueue, Stop, HandleSignal,
         Insert, PayloadRaises, InsertRaises, CrashInHandler, Crash, queue, loopVars
    <3>. QED BY <3>1, Unseen
  <2>8. CASE (Bootstrap /\ UNCHANGED records) \/ UNCHANGED vars
    <3>1. UNCHANGED <<state, records>>
      BY <2>8 DEF Bootstrap, vars, loopVars, queue
    <3>. QED BY <3>1, Unseen
  <2>. QED
    BY <2>1, <2>2, <2>3, <2>4, <2>5, <2>6, <2>7, <2>8
    DEF Next, ConsumerStep, LoopStep, LoopFault, QueueStep
<1>. QED BY Inductive, HandAlways, <1>1, <1>2, PTL DEF Spec, EffectOnceSafe, Contract!Spec

-----------------------------------------------------------------------------
(* The dead letter queue. *)

LEMMA DlqStep == IInv /\ DlqInv /\ [Next]_vars => DlqInv'
<1>. SUFFICES ASSUME IInv, DlqInv, [Next]_vars PROVE DlqInv'
  OBVIOUS
<1>0. /\ LoopTypeOK /\ BatchInv
      /\ \A c \in Consumers : pc[c] \in {"handle", "delete"} => msg[c] \in Messages
  BY DEF IInv, TypeOK, HandlerInv, MsgInv, DlqInv
<1>1. CASE QueueStep
  BY <1>0, <1>1, QueueKeepsBatch, QueueKeepsReceipts DEF DlqInv
<1>2. ASSUME NEW c \in Consumers, LoopStep(c) \/ LoopFault(c) PROVE DlqInv'
  BY <1>0, <1>2, LoopKeepsBatch, LoopKeepsReceipts DEF DlqInv
<1>3. ASSUME NEW c \in Consumers, CrashInHandler(c) PROVE DlqInv'
  BY <1>0, <1>3, LoopKeepsBatch, LoopKeepsReceipts DEF DlqInv, CrashInHandler
<1>4. ASSUME NEW c \in Consumers, Commit(c) PROVE DlqInv'
  BY <1>0, <1>4, LoopKeepsBatch, ReturnKeepsReceipts DEF DlqInv, Commit
<1>5. ASSUME NEW c \in Consumers, InsertRaises(c) \/ CommitRaises(c) PROVE DlqInv'
  <2>1. pc[c] = "handle" /\ Spend("dbError") /\ HandlerRaises(c) /\ UNCHANGED <<queue, shutdown>>
    BY <1>5 DEF InsertRaises, CommitRaises
  <2>2. Faults(Costly)' >= Faults(Costly) + 1
    BY <1>0, <2>1, CostlyKinds, FaultCosts
  <2>3. state[msg[c]] = "inFlight" /\ Body[msg[c]] = "order" => receives[msg[c]] <= Faults(Costly)'
    <3>1. receives[msg[c]] \in Nat
      BY <1>0, <2>1, CountsAssumption DEF LoopTypeOK
    <3>. QED BY <1>0, <2>1, <2>2, <3>1, FaultsType DEF DlqInv, ReceiveInv, InPlay
  <2>. QED
    BY <1>0, <2>1, <2>2, <2>3, FaultsType, LoopKeepsBatch, RaiseKeepsReceipts DEF DlqInv
<1>6. ASSUME NEW c \in Consumers, PayloadRaises(c) PROVE DlqInv'
  BY <1>0, <1>6, NoFault, FaultsType, LoopKeepsBatch, RaiseKeepsReceipts DEF DlqInv, PayloadRaises
<1>7. ASSUME NEW c \in Consumers, Insert(c) PROVE DlqInv'
  <2>1. UNCHANGED <<queue, process, spent>>
    BY <1>7 DEF Insert, loopVars
  <2>. QED
    BY <1>0, <2>1, NoFault, FaultsType, LoopKeepsBatch, InsideKeepsReceipts DEF DlqInv
<1>8. CASE UNCHANGED vars
  <2>1. UNCHANGED <<queue, process, spent>>
    BY <1>8 DEF vars, loopVars
  <2>2. BatchInv'
    BY <1>0, <2>1 DEF BatchInv, process
  <2>. QED BY <1>0, <2>1, <2>2, NoFault, FaultsType, InsideKeepsReceipts DEF DlqInv
<1>. QED
  BY <1>1, <1>2, <1>3, <1>4, <1>5, <1>6, <1>7, <1>8 DEF Next, ConsumerStep

\* No sound order is set aside by Billing or Shipping before
\* SQS_MAX_RECEIVE_COUNT faults, each of which cost it a receive.
THEOREM DeadLettersArePaidFor == Spec => []DlqIsPaidFor
<1>1. Init => DlqInv
  BY DlqInit DEF Init
<1>2. IInv /\ DlqInv => DlqIsPaidFor
  BY DlqInvMeans DEF IInv, TypeOK
<1>. QED BY Inductive, <1>1, DlqStep, <1>2, PTL DEF Spec

=============================================================================
