--------------------------- MODULE SqsConsumerProofs ---------------------------
(***************************************************************************)
(* What the proofs about both kinds of consumer share: how faults are      *)
(* counted, where the loop keeps a batch, and that, whatever the handler   *)
(* does, a sound message is set aside only after SQS_MAX_RECEIVE_COUNT     *)
(* receives that each came to nothing by a fault.                          *)
(***************************************************************************)
EXTENDS SqsConsumer, FiniteSetTheorems, TLAPS

-----------------------------------------------------------------------------
(* Counting faults. *)

\* The faults a receive can come to nothing by.
Costly == FaultKinds \ {"restart", "forgotten"}

LEMMA CostlyKinds ==
    {"crash", "sigterm", "slow", "noAnswer", "dbError", "redisError", "sendFails", "sendUnacked"}
        \subseteq Costly
BY DEF Costly, FaultKinds

\* The units counted by Faults.
Units(kinds) == {f \in kinds \X (1 .. MaxFaults) : f[2] <= spent[f[1]]}

LEMMA FaultKindsFinite == IsFiniteSet(FaultKinds) /\ IsFiniteSet(Costly)
<1>1. IsFiniteSet({"crash"} \cup {"sigterm"} \cup {"slow"} \cup {"noAnswer"} \cup {"restart"}
                    \cup {"dbError"} \cup {"redisError"} \cup {"sendFails"})
  BY FS_Singleton, FS_Union
<1>2. IsFiniteSet({"sendUnacked"} \cup {"forgotten"})
  BY FS_Singleton, FS_Union
<1>3. FaultKinds = ({"crash"} \cup {"sigterm"} \cup {"slow"} \cup {"noAnswer"} \cup {"restart"}
                      \cup {"dbError"} \cup {"redisError"} \cup {"sendFails"})
                   \cup ({"sendUnacked"} \cup {"forgotten"})
  BY DEF FaultKinds
<1>4. IsFiniteSet(FaultKinds)
  BY <1>1, <1>2, <1>3, FS_Union
<1>5. Costly \in SUBSET FaultKinds
  BY DEF Costly
<1>. QED BY <1>4, <1>5, FS_Subset

LEMMA UnitsFinite ==
    ASSUME NEW kinds, IsFiniteSet(kinds)
    PROVE  IsFiniteSet(Units(kinds)) /\ Cardinality(Units(kinds)) \in Nat
           /\ IsFiniteSet(Units(kinds)') /\ Cardinality(Units(kinds)') \in Nat
<1>1. IsFiniteSet(1 .. MaxFaults)
  BY FaultsAssumption, FS_Interval
<1>2. IsFiniteSet(kinds \X (1 .. MaxFaults))
  BY <1>1, FS_Product
<1>3. Units(kinds) \in SUBSET (kinds \X (1 .. MaxFaults))
      /\ Units(kinds)' \in SUBSET (kinds \X (1 .. MaxFaults))
  BY DEF Units
<1>. QED BY <1>2, <1>3, FS_Subset, FS_CardinalityType

LEMMA FaultsType == Faults(Costly) \in Nat /\ Faults(Costly)' \in Nat
BY FaultKindsFinite, UnitsFinite DEF Faults, Units

\* A fault counts: as long as there are fewer of all kinds than MaxFaults,
\* there are fewer of each.
LEMMA FaultCosts ==
    ASSUME LoopTypeOK, NEW kind \in Costly, Spend(kind)
    PROVE  Faults(Costly)' >= Faults(Costly) + 1
<1>. DEFINE n == spent[kind]
<1>1. n \in Nat /\ spent'[kind] = n + 1 /\ \A f \in FaultKinds \ {kind} : spent'[f] = spent[f]
  BY DEF LoopTypeOK, Spend, Costly
<1>2. n < MaxFaults
  <2>. SUFFICES ASSUME n >= MaxFaults PROVE FALSE
    BY <1>1, FaultsAssumption
  <2>1. IsFiniteSet(1 .. MaxFaults) /\ Cardinality(1 .. MaxFaults) = MaxFaults
    BY FaultsAssumption, FS_Interval
  <2>2. IsFiniteSet({kind}) /\ Cardinality({kind}) = 1
    BY FS_Singleton
  <2>3. Cardinality({kind} \X (1 .. MaxFaults)) = 1 * MaxFaults
    BY <2>1, <2>2, FS_Product
  <2>4. {kind} \X (1 .. MaxFaults) \in SUBSET Units(FaultKinds)
    BY <1>1, FaultsAssumption DEF Units, Costly
  <2>5. Cardinality({kind} \X (1 .. MaxFaults)) <= Cardinality(Units(FaultKinds))
    BY <2>4, FaultKindsFinite, UnitsFinite, FS_Subset
  <2>6. Cardinality(Units(FaultKinds)) < MaxFaults
    BY DEF Spend, Faults, Units
  <2>. QED BY <2>3, <2>5, <2>6, FaultKindsFinite, UnitsFinite, FaultsAssumption
<1>. DEFINE u == <<kind, n + 1>>
<1>3. u \notin Units(Costly)
  BY <1>1 DEF Units
<1>4. Units(Costly) \cup {u} \in SUBSET Units(Costly)'
  BY <1>1, <1>2, FaultsAssumption DEF Units, Costly
<1>5. Cardinality(Units(Costly) \cup {u}) = Cardinality(Units(Costly)) + 1
  BY <1>3, FaultKindsFinite, UnitsFinite, FS_AddElement
<1>6. Cardinality(Units(Costly) \cup {u}) <= Cardinality(Units(Costly)')
  BY <1>4, FaultKindsFinite, UnitsFinite, FS_Subset
<1>. QED BY <1>5, <1>6 DEF Faults, Units

\* The others do not.
LEMMA OthersAreFree ==
    ASSUME LoopTypeOK, NEW kind \in FaultKinds \ Costly, Spend(kind)
    PROVE  Faults(Costly)' = Faults(Costly)
<1>1. \A f \in Costly : spent'[f] = spent[f]
  BY DEF LoopTypeOK, Spend, Costly
<1>2. Units(Costly)' = Units(Costly)
  BY <1>1 DEF Units
<1>. QED BY <1>2 DEF Faults, Units

LEMMA NoFault == UNCHANGED spent => Faults(Costly)' = Faults(Costly)
BY DEF Faults

-----------------------------------------------------------------------------
(* The batch. *)

\* Nobody has anything in hand between two receives, and newest receipts are
\* of messages in hand.
BatchInv == \A c \in Consumers :
    /\ newest[c] \subseteq hand[c]
    /\ pc[c] \in {"down", "poll"} => hand[c] = {}

LEMMA BatchInit == LoopInit => BatchInv
BY DEF LoopInit, BatchInv

LEMMA QueueKeepsBatch ==
    ASSUME BatchInv, QueueStep PROVE BatchInv'
BY DEF BatchInv, process, QueueStep, Deliver, VisibilityExpires, TooSlow, MoveToDlq,
       LocalStackRestart, Bootstrap

\* A step of the loop or, while pc is "handle", of the handler.
LEMMA LoopKeepsBatch ==
    ASSUME LoopTypeOK, BatchInv, NEW c \in Consumers,
           \/ LoopStep(c) \/ LoopFault(c) \/ Crash(c)
           \/ pc[c] = "handle" /\ (HandlerReturns(c) \/ HandlerRaises(c))
           \/ UNCHANGED process
    PROVE  BatchInv'
<1>. USE DEF LoopTypeOK, BatchInv, queue, process
<1>1. CASE Start(c)
  BY <1>1 DEF Start
<1>2. CASE ResolveQueue(c)
  BY <1>2 DEF ResolveQueue
<1>3. CASE Receive(c)
  BY <1>3 DEF Receive, HandOut, Receivable
<1>4. CASE ReceiveNoQueue(c)
  BY <1>4 DEF ReceiveNoQueue
<1>5. CASE Take(c)
  BY <1>5 DEF Take, Continue
<1>6. CASE Delete(c)
  BY <1>6 DEF Delete, Continue
<1>7. CASE DeleteNoQueue(c)
  BY <1>7 DEF DeleteNoQueue, Continue
<1>8. CASE Stop(c)
  BY <1>8 DEF Stop, Exit
<1>9. CASE ReceiveLost(c)
  BY <1>9 DEF ReceiveLost, HandOut, Receivable
<1>10. CASE DeleteRaises(c)
  BY <1>10 DEF DeleteRaises, Continue
<1>11. CASE HandleSignal(c)
  BY <1>11 DEF HandleSignal
<1>12. CASE Crash(c)
  BY <1>12 DEF Crash, Exit
<1>13. CASE pc[c] = "handle" /\ HandlerReturns(c)
  BY <1>13 DEF HandlerReturns
<1>14. CASE pc[c] = "handle" /\ HandlerRaises(c)
  BY <1>14 DEF HandlerRaises, Continue
<1>15. CASE UNCHANGED process
  BY <1>15
<1>. QED
  BY <1>1, <1>2, <1>3, <1>4, <1>5, <1>6, <1>7, <1>8, <1>9, <1>10, <1>11, <1>12, <1>13, <1>14,
     <1>15
  DEF LoopStep, LoopFault

-----------------------------------------------------------------------------
(* Receives are paid for. *)

\* What a consumer has in hand was delivered, and is over if its URL is stale.
StaleInv == \A c \in Consumers : \A m \in newest[c] :
    /\ state[m] # "unsent"
    /\ url[c] = "stale" => state[m] \in {"deleted", "gone"}

\* A consumer that will go on has the message, and its newest receipt.
Pending(m) == state[m] = "inFlight" /\ \E c \in Consumers : m \in newest[c] /\ ~shutdown[c]

InPlay(m) == Body[m] = "order" /\ state[m] \in {"visible", "inFlight", "dlq"}

\* Each receive of a message in play was paid for, but for one that is pending.
ReceiveInv == \A m \in Messages :
    /\ state[m] = "unsent" => receives[m] = 0
    /\ state[m] = "dlq" => receives[m] >= SQS_MAX_RECEIVE_COUNT
    /\ InPlay(m) => IF Pending(m) THEN receives[m] <= Faults(Costly) + 1
                                  ELSE receives[m] <= Faults(Costly)

DlqInv == BatchInv /\ StaleInv /\ ReceiveInv

LEMMA DlqInit == LoopInit => DlqInv
BY BatchInit DEF LoopInit, DlqInv, StaleInv, ReceiveInv, InPlay

LEMMA DlqInvMeans == LoopTypeOK /\ DlqInv => DlqIsPaidFor
<1>. SUFFICES ASSUME LoopTypeOK, DlqInv, NEW m \in Messages, state[m] = "dlq", Body[m] = "order"
              PROVE  Faults(Costly) >= SQS_MAX_RECEIVE_COUNT
  BY DEF DlqIsPaidFor, Costly
<1>1. receives[m] >= SQS_MAX_RECEIVE_COUNT /\ receives[m] <= Faults(Costly)
  BY DEF DlqInv, ReceiveInv, InPlay, Pending
<1>2. receives[m] \in Nat
  BY CountsAssumption DEF LoopTypeOK
<1>. QED BY <1>1, <1>2, FaultsType, CountsAssumption

LEMMA QueueKeepsReceipts ==
    ASSUME LoopTypeOK, DlqInv, QueueStep
    PROVE  StaleInv' /\ ReceiveInv'
<1>. USE OrderAssumption, CountsAssumption, FaultsType
     DEF LoopTypeOK, DlqInv, StaleInv, ReceiveInv, Pending, InPlay, queue, process
<1>1. ASSUME NEW m \in Messages, Deliver(m) PROVE StaleInv' /\ ReceiveInv'
  BY <1>1, NoFault DEF Deliver
<1>2. ASSUME NEW m \in Messages, VisibilityExpires(m) PROVE StaleInv' /\ ReceiveInv'
  BY <1>2, NoFault DEF VisibilityExpires
<1>3. ASSUME NEW m \in Messages, TooSlow(m) PROVE StaleInv' /\ ReceiveInv'
  BY <1>3, CostlyKinds, FaultCosts DEF TooSlow
<1>4. ASSUME NEW m \in Messages, MoveToDlq(m) PROVE StaleInv' /\ ReceiveInv'
  BY <1>4, NoFault DEF MoveToDlq, Receivable
<1>5. CASE LocalStackRestart
  <2>1. "restart" \in FaultKinds \ Costly
    BY DEF FaultKinds, Costly
  <2>. QED BY <1>5, <2>1, OthersAreFree DEF LocalStackRestart
<1>6. CASE Bootstrap
  BY <1>6, NoFault DEF Bootstrap
<1>. QED BY <1>1, <1>2, <1>3, <1>4, <1>5, <1>6 DEF QueueStep

LEMMA LoopKeepsReceipts ==
    ASSUME LoopTypeOK, DlqInv, NEW c \in Consumers,
           pc[c] \in {"handle", "delete"} => msg[c] \in Messages,
           LoopStep(c) \/ LoopFault(c) \/ Crash(c)
    PROVE  StaleInv' /\ ReceiveInv'
<1>. USE OrderAssumption, CountsAssumption, FaultsType
     DEF LoopTypeOK, DlqInv, BatchInv, StaleInv, ReceiveInv, Pending, InPlay, queue, process
<1>1. CASE Start(c)
  BY <1>1, NoFault DEF Start
<1>2. CASE ResolveQueue(c)
  BY <1>2, NoFault DEF ResolveQueue
<1>3. CASE Receive(c)
  BY <1>3, NoFault DEF Receive, HandOut, Receivable
<1>4. CASE ReceiveNoQueue(c)
  BY <1>4, NoFault DEF ReceiveNoQueue
<1>5. CASE Take(c)
  BY <1>5, NoFault DEF Take, Continue
<1>6. CASE Delete(c)
  BY <1>6, NoFault DEF Delete, Deleted, OnQueue, Continue
<1>7. CASE DeleteNoQueue(c)
  BY <1>7, NoFault DEF DeleteNoQueue, Continue
<1>8. CASE Stop(c)
  BY <1>8, NoFault DEF Stop, Exit
<1>9. CASE ReceiveLost(c)
  BY <1>9, CostlyKinds, FaultCosts DEF ReceiveLost, HandOut, Receivable
<1>10. CASE DeleteRaises(c)
  BY <1>10, CostlyKinds, FaultCosts DEF DeleteRaises, Deleted, OnQueue, Continue
<1>11. CASE HandleSignal(c)
  BY <1>11, CostlyKinds, FaultCosts DEF HandleSignal
<1>12. CASE Crash(c)
  BY <1>12, CostlyKinds, FaultCosts DEF Crash, Exit
<1>. QED
  BY <1>1, <1>2, <1>3, <1>4, <1>5, <1>6, <1>7, <1>8, <1>9, <1>10, <1>11, <1>12
  DEF LoopStep, LoopFault

\* A handler that returns leaves its message pending.
LEMMA ReturnKeepsReceipts ==
    ASSUME LoopTypeOK, DlqInv, NEW c \in Consumers,
           HandlerReturns(c), UNCHANGED <<queue, shutdown, spent>>
    PROVE  StaleInv' /\ ReceiveInv'
BY NoFault DEF DlqInv, StaleInv, ReceiveInv, Pending, InPlay, HandlerReturns, queue

\* One that raises must have been paid for, if its message is sound.
LEMMA RaiseKeepsReceipts ==
    ASSUME LoopTypeOK, DlqInv, NEW c \in Consumers, msg[c] \in Messages,
           HandlerRaises(c), UNCHANGED <<queue, shutdown>>,
           Faults(Costly)' >= Faults(Costly),
           Body[msg[c]] = "order" /\ state[msg[c]] = "inFlight" /\ msg[c] \in newest[c]
               => receives[msg[c]] <= Faults(Costly)'
    PROVE  StaleInv' /\ ReceiveInv'
BY OrderAssumption, CountsAssumption, FaultsType
DEF LoopTypeOK, DlqInv, BatchInv, StaleInv, ReceiveInv, Pending, InPlay,
    HandlerRaises, Continue, queue

\* A step inside the handler.
LEMMA InsideKeepsReceipts ==
    ASSUME LoopTypeOK, DlqInv, UNCHANGED <<queue, process>>, Faults(Costly)' >= Faults(Costly)
    PROVE  StaleInv' /\ ReceiveInv'
BY CountsAssumption, FaultsType
DEF LoopTypeOK, DlqInv, StaleInv, ReceiveInv, Pending, InPlay, queue, process

=============================================================================
