--------------------------- MODULE PipelineProofs ---------------------------
(***************************************************************************)
(* The system end to end, for any number of orders, purchases, queues and  *)
(* faults: an order and its event exist together, an answer is true, what  *)
(* is settled reached every queue, only stored orders take effect, and the *)
(* whole is one queue that takes effect once, fed by the commits.          *)
(***************************************************************************)
EXTENDS Pipeline, FiniteSetTheorems, TLAPS

\* Until it commits a request has stored nothing; once it has, the order is
\* there; and only a request that is over has an answer.
RequestInv == \A o \in Orders :
    /\ pc[o] \in {"unsent", "insertOrder", "insertEvent", "commit"} => o \notin orders
    /\ pc[o] = "respond" => o \in orders
    /\ answer[o] # "none" => pc[o] = "done"

\* What arrived was stored, and what took effect arrived.
ArrivalInv == \A k \in Keys :
    /\ k \in arrived => k[2] \in outbox
    /\ effect[k] > 0 => k \in arrived

\* A relay that runs publishes to all queues, as long as LocalStack does not
\* restart; what it publishes arrives, and it settles what it published.
FanOutInv ==
    /\ relayUp => receiving = Queues \/ spent["restart"] > 0
    /\ \A o \in Orders :
         delivered[o] > 0 => Queues \X {o} \subseteq arrived \/ spent["restart"] > 0
    /\ \A o \in settled : delivered[o] > 0

Paying == {"impatient", "crash", "commitUnacked"}

\* A client's request that it still hopes for, and those that may have stored
\* an order although the client tries again.
Open(p) == {o \in RequestsFor(p) : pc[o] # "unsent" /\ o \notin gone /\ answer[o] # "503"}
Excused(p) == {o \in RequestsFor(p) : o \in gone \/ (answer[o] = "503" /\ o \in orders)}

OneOpen(p) == \A a, b \in Open(p) : a = b
Covered(p) == Cardinality(Excused(p)) <= Faults(Paying)

DuplicateInv == \A p \in Purchases : OneOpen(p) /\ Covered(p)

IInv ==
    /\ TypeOK /\ OrderHasItsEvent /\ RequestInv /\ AnswerTrue
    /\ ArrivalInv /\ FanOutInv /\ DuplicateInv

Api == ApiNext /\ UNCHANGED <<wiring, relay, consumers, relayUp>>

Flow ==
    \/ CreateTopic \/ StartRelay \/ LocalStackRestart
    \/ \E q \in Queues : Connect(q)
    \/ \E o \in Orders : Publish(o) \/ Settle(o) \/ Park(o)
    \/ \E k \in Keys : Consume(k) \/ Acknowledge(k) \/ SetAside(k)

-----------------------------------------------------------------------------
(* Two kinds of steps. *)

LEMMA SpendType ==
    ASSUME ApiTypeOK, NEW kind \in FaultKinds, Spend(kind)
    PROVE  /\ spent' \in [FaultKinds -> Nat]
           /\ \A f \in FaultKinds : spent'[f] >= spent[f]
BY DEF ApiTypeOK, Spend

LEMMA FlowKeepsOrders == Flow => UNCHANGED <<tables, requests>>
BY DEF Flow, CreateTopic, StartRelay, LocalStackRestart, Connect, Publish, Settle, Park,
       Consume, Acknowledge, SetAside, apiVars, tables, requests

LEMMA ApiTypeStep == ApiTypeOK /\ ApiNext => ApiTypeOK'
<1>. SUFFICES ASSUME ApiTypeOK, ApiNext PROVE ApiTypeOK'
  OBVIOUS
<1>. USE DEF ApiTypeOK, tables, requests, Statuses, Respond, Go
<1>1. ASSUME NEW o \in Orders, Post(o) PROVE ApiTypeOK'
  BY <1>1 DEF Post
<1>2. ASSUME NEW o \in Orders, RejectBody(o) PROVE ApiTypeOK'
  BY <1>2 DEF RejectBody
<1>3. ASSUME NEW o \in Orders, StopWaiting(o) PROVE ApiTypeOK'
  BY <1>3, SpendType DEF StopWaiting, FaultKinds
<1>4. ASSUME NEW o \in Orders, InsertOrder(o) PROVE ApiTypeOK'
  BY <1>4 DEF InsertOrder
<1>5. ASSUME NEW o \in Orders, InsertEvent(o) PROVE ApiTypeOK'
  BY <1>5 DEF InsertEvent
<1>6. ASSUME NEW o \in Orders, EventRejected(o) PROVE ApiTypeOK'
  BY <1>6 DEF EventRejected
<1>7. ASSUME NEW o \in Orders, Commit(o) PROVE ApiTypeOK'
  BY <1>7 DEF Commit, Store
<1>8. ASSUME NEW o \in Orders, Created(o) PROVE ApiTypeOK'
  BY <1>8 DEF Created
<1>9. ASSUME NEW o \in Orders, DatabaseRaises(o) PROVE ApiTypeOK'
  BY <1>9, SpendType DEF DatabaseRaises, FaultKinds
<1>10. ASSUME NEW o \in Orders, CommitUnacknowledged(o) PROVE ApiTypeOK'
  BY <1>10, SpendType DEF CommitUnacknowledged, Store, FaultKinds
<1>11. ASSUME Crash PROVE ApiTypeOK'
  BY <1>11, SpendType DEF Crash, FaultKinds
<1>. QED
  BY <1>1, <1>2, <1>3, <1>4, <1>5, <1>6, <1>7, <1>8, <1>9, <1>10, <1>11
  DEF ApiNext, ServiceStep

LEMMA FlowTypeStep == TypeOK /\ Flow => TypeOK'
<1>. SUFFICES ASSUME TypeOK, Flow PROVE TypeOK'
  OBVIOUS
<1>. USE DEF TypeOK, ApiTypeOK, Keys, apiVars, tables, requests, wiring, relay, consumers
<1>1. ASSUME CreateTopic PROVE TypeOK'
  BY <1>1 DEF CreateTopic, Wiring!CreateTopic
<1>2. ASSUME StartRelay PROVE TypeOK'
  BY <1>2 DEF StartRelay
<1>3. ASSUME LocalStackRestart PROVE TypeOK'
  BY <1>3, SpendType DEF LocalStackRestart, Wiring!Restart, Effects!Forget, FaultKinds
<1>4. ASSUME NEW q \in Queues, Connect(q) PROVE TypeOK'
  BY <1>4 DEF Connect, Wiring!Connect
<1>5. ASSUME NEW o \in Orders, Publish(o) PROVE TypeOK'
  BY <1>5, SpendType DEF Publish, Outbox!Deliver, Effects!Arrive, FaultKinds
<1>6. ASSUME NEW o \in Orders, Settle(o) PROVE TypeOK'
  BY <1>6 DEF Settle, Outbox!Settle
<1>7. ASSUME NEW o \in Orders, Park(o) PROVE TypeOK'
  BY <1>7, SpendType DEF Park, Outbox!GiveUp, FaultKinds
<1>8. ASSUME NEW k \in Keys, Consume(k) PROVE TypeOK'
  BY <1>8 DEF Consume, Effects!Effect
<1>9. ASSUME NEW k \in Keys, Acknowledge(k) PROVE TypeOK'
  BY <1>9 DEF Acknowledge, Effects!Acknowledge
<1>10. ASSUME NEW k \in Keys, SetAside(k) PROVE TypeOK'
  BY <1>10, SpendType DEF SetAside, Effects!SetAside, FaultKinds
<1>. QED
  BY <1>1, <1>2, <1>3, <1>4, <1>5, <1>6, <1>7, <1>8, <1>9, <1>10
  DEF Flow

LEMMA TypeStep == TypeOK /\ [Next]_vars => TypeOK'
<1>1. CASE Api
  BY <1>1, ApiTypeStep DEF Api, TypeOK, wiring, relay, consumers
<1>2. CASE Flow
  BY <1>2, FlowTypeStep
<1>3. CASE UNCHANGED vars
  BY <1>3 DEF vars, apiVars, tables, requests, wiring, relay, consumers, TypeOK, ApiTypeOK
<1>. QED BY <1>1, <1>2, <1>3 DEF Next, Api, Flow

-----------------------------------------------------------------------------
(* The Order Service. *)

ServiceInv == OrderHasItsEvent /\ RequestInv /\ AnswerTrue

LEMMA ServiceApiStep == ApiTypeOK /\ ServiceInv /\ ApiNext => ServiceInv'
<1>. SUFFICES ASSUME ApiTypeOK, ServiceInv, ApiNext PROVE ServiceInv'
  OBVIOUS
<1>. USE DEF ApiTypeOK, ServiceInv, OrderHasItsEvent, RequestInv, AnswerTrue,
             tables, requests, Respond, Go
<1>1. ASSUME NEW o \in Orders, Post(o) PROVE ServiceInv'
  BY <1>1 DEF Post, MaySend
<1>2. ASSUME NEW o \in Orders, RejectBody(o) PROVE ServiceInv'
  BY <1>2 DEF RejectBody, MaySend
<1>3. ASSUME NEW o \in Orders, StopWaiting(o) PROVE ServiceInv'
  BY <1>3 DEF StopWaiting
<1>4. ASSUME NEW o \in Orders, InsertOrder(o) PROVE ServiceInv'
  BY <1>4 DEF InsertOrder
<1>5. ASSUME NEW o \in Orders, InsertEvent(o) PROVE ServiceInv'
  BY <1>5 DEF InsertEvent
<1>6. ASSUME NEW o \in Orders, EventRejected(o) PROVE ServiceInv'
  BY <1>6 DEF EventRejected
<1>7. ASSUME NEW o \in Orders, Commit(o) PROVE ServiceInv'
  BY <1>7 DEF Commit, Store
<1>8. ASSUME NEW o \in Orders, Created(o) PROVE ServiceInv'
  BY <1>8 DEF Created
<1>9. ASSUME NEW o \in Orders, DatabaseRaises(o) PROVE ServiceInv'
  BY <1>9 DEF DatabaseRaises
<1>10. ASSUME NEW o \in Orders, CommitUnacknowledged(o) PROVE ServiceInv'
  BY <1>10 DEF CommitUnacknowledged, Store
<1>11. ASSUME Crash PROVE ServiceInv'
  BY <1>11 DEF Crash, InFlight
<1>. QED
  BY <1>1, <1>2, <1>3, <1>4, <1>5, <1>6, <1>7, <1>8, <1>9, <1>10, <1>11
  DEF ApiNext, ServiceStep

LEMMA ServiceStepInv == TypeOK /\ ServiceInv /\ [Next]_vars => ServiceInv'
<1>1. CASE TypeOK /\ ServiceInv /\ Api
  BY <1>1, ServiceApiStep DEF Api, TypeOK
<1>2. CASE ServiceInv /\ (Flow \/ UNCHANGED vars)
  BY <1>2, FlowKeepsOrders
  DEF vars, apiVars, tables, requests, ServiceInv, OrderHasItsEvent, RequestInv, AnswerTrue
<1>. QED BY <1>1, <1>2 DEF Next, Api, Flow

-----------------------------------------------------------------------------
(* What flows out of it. *)

FlowInv == ArrivalInv /\ FanOutInv

LEMMA FlowApiStep == TypeOK /\ FlowInv /\ Api => FlowInv'
<1>1. ApiTypeOK /\ ApiNext =>
        outbox \subseteq outbox' /\ (spent["restart"] > 0 => spent'["restart"] > 0)
  BY DEF ApiNext, ServiceStep, Post, RejectBody, StopWaiting, InsertOrder, InsertEvent,
     EventRejected, Commit, Created, DatabaseRaises, CommitUnacknowledged, Crash, Store,
     Spend, tables, requests, ApiTypeOK, FaultKinds
<1>. SUFFICES ASSUME TypeOK, FlowInv, Api PROVE FlowInv'
  OBVIOUS
<1>2. /\ UNCHANGED <<receiving, delivered, settled, arrived, effect, relayUp>>
      /\ outbox \subseteq outbox'
      /\ spent["restart"] > 0 => spent'["restart"] > 0
  BY <1>1 DEF Api, TypeOK, ApiTypeOK, FaultKinds, wiring, relay, consumers
<1>3. ArrivalInv'
  BY <1>2 DEF FlowInv, ArrivalInv
<1>4. FanOutInv'
  BY <1>2 DEF FlowInv, FanOutInv
<1>. QED BY <1>3, <1>4 DEF FlowInv

LEMMA FlowFlowStep == TypeOK /\ FlowInv /\ Flow => FlowInv'
<1>. SUFFICES ASSUME TypeOK, FlowInv, Flow PROVE FlowInv'
  OBVIOUS
<1>. USE FlowKeepsOrders DEF TypeOK, ApiTypeOK, Keys, FlowInv, ArrivalInv, FanOutInv,
             apiVars, tables, requests, wiring, relay, consumers
<1>1. ASSUME CreateTopic PROVE FlowInv'
  BY <1>1 DEF CreateTopic, Wiring!CreateTopic
<1>2. ASSUME StartRelay PROVE FlowInv'
  BY <1>2 DEF StartRelay
<1>3. ASSUME LocalStackRestart PROVE FlowInv'
  BY <1>3, SpendType DEF LocalStackRestart, Wiring!Restart, Effects!Forget, FaultKinds, Spend
<1>4. ASSUME NEW q \in Queues, Connect(q) PROVE FlowInv'
  BY <1>4 DEF Connect, Wiring!Connect
<1>5. ASSUME NEW o \in Orders, Publish(o) PROVE FlowInv'
  BY <1>5, SpendType DEF Publish, Outbox!Deliver, Effects!Arrive, FaultKinds
<1>6. ASSUME NEW o \in Orders, Settle(o) PROVE FlowInv'
  BY <1>6 DEF Settle, Outbox!Settle
<1>7. ASSUME NEW o \in Orders, Park(o) PROVE FlowInv'
  BY <1>7, SpendType DEF Park, Outbox!GiveUp, FaultKinds
<1>8. ASSUME NEW k \in Keys, Consume(k) PROVE FlowInv'
  BY <1>8 DEF Consume, Effects!Effect
<1>9. ASSUME NEW k \in Keys, Acknowledge(k) PROVE FlowInv'
  BY <1>9 DEF Acknowledge, Effects!Acknowledge
<1>10. ASSUME NEW k \in Keys, SetAside(k) PROVE FlowInv'
  BY <1>10, SpendType DEF SetAside, Effects!SetAside, FaultKinds
<1>. QED
  BY <1>1, <1>2, <1>3, <1>4, <1>5, <1>6, <1>7, <1>8, <1>9, <1>10
  DEF Flow

-----------------------------------------------------------------------------
(* What a duplicate costs. *)

\* The units counted by Faults.
Units(kinds) == {f \in kinds \X (1 .. MaxFaults) : f[2] <= spent[f[1]]}

LEMMA FaultKindsFinite == IsFiniteSet(FaultKinds) /\ IsFiniteSet(Paying)
<1>1. IsFiniteSet({"impatient"} \cup {"crash"} \cup {"commitUnacked"})
  BY FS_Singleton, FS_Union
<1>2. IsFiniteSet({"dbError"} \cup {"restart"} \cup {"duplicate"} \cup {"parked"} \cup {"aside"})
  BY FS_Singleton, FS_Union
<1>3. /\ Paying = {"impatient"} \cup {"crash"} \cup {"commitUnacked"}
      /\ FaultKinds = Paying \cup
            ({"dbError"} \cup {"restart"} \cup {"duplicate"} \cup {"parked"} \cup {"aside"})
  BY DEF FaultKinds, Paying
<1>. QED BY <1>1, <1>2, <1>3, FS_Union

LEMMA UnitsFinite ==
    ASSUME NEW kinds, IsFiniteSet(kinds)
    PROVE  IsFiniteSet(Units(kinds)) /\ Cardinality(Units(kinds)) \in Nat
           /\ IsFiniteSet(Units(kinds)') /\ Cardinality(Units(kinds)') \in Nat
<1>1. IsFiniteSet(1 .. MaxFaults)
  BY BudgetAssumption, FS_Interval
<1>2. IsFiniteSet(kinds \X (1 .. MaxFaults))
  BY <1>1, FS_Product
<1>3. Units(kinds) \in SUBSET (kinds \X (1 .. MaxFaults))
      /\ Units(kinds)' \in SUBSET (kinds \X (1 .. MaxFaults))
  BY DEF Units
<1>. QED BY <1>2, <1>3, FS_Subset, FS_CardinalityType

\* A fault of a counted kind counts: as long as there are fewer of all kinds
\* than MaxFaults, there are fewer of each.
LEMMA SpendCounts ==
    ASSUME ApiTypeOK, NEW kinds \in SUBSET FaultKinds, IsFiniteSet(kinds),
           NEW kind \in kinds, Spend(kind)
    PROVE  Faults(kinds)' >= Faults(kinds) + 1
<1>. DEFINE n == spent[kind]
<1>1. n \in Nat /\ spent'[kind] = n + 1 /\ \A f \in FaultKinds \ {kind} : spent'[f] = spent[f]
  BY DEF ApiTypeOK, Spend
<1>2. n < MaxFaults
  <2>. SUFFICES ASSUME n >= MaxFaults PROVE FALSE
    BY <1>1, BudgetAssumption
  <2>1. IsFiniteSet(1 .. MaxFaults) /\ Cardinality(1 .. MaxFaults) = MaxFaults
    BY BudgetAssumption, FS_Interval
  <2>2. IsFiniteSet({kind}) /\ Cardinality({kind}) = 1
    BY FS_Singleton
  <2>3. Cardinality({kind} \X (1 .. MaxFaults)) = 1 * MaxFaults
    BY <2>1, <2>2, FS_Product
  <2>4. {kind} \X (1 .. MaxFaults) \in SUBSET Units(FaultKinds)
    BY <1>1, BudgetAssumption DEF Units
  <2>5. Cardinality({kind} \X (1 .. MaxFaults)) <= Cardinality(Units(FaultKinds))
    BY <2>4, FaultKindsFinite, UnitsFinite, FS_Subset
  <2>6. Cardinality(Units(FaultKinds)) < MaxFaults
    BY DEF Spend, Faults, Units
  <2>. QED BY <2>3, <2>5, <2>6, FaultKindsFinite, UnitsFinite, BudgetAssumption
<1>. DEFINE u == <<kind, n + 1>>
<1>3. u \notin Units(kinds)
  BY <1>1 DEF Units
<1>4. Units(kinds) \cup {u} \in SUBSET Units(kinds)'
  BY <1>1, <1>2, BudgetAssumption DEF Units
<1>5. Cardinality(Units(kinds) \cup {u}) = Cardinality(Units(kinds)) + 1
  BY <1>3, UnitsFinite, FS_AddElement
<1>6. Cardinality(Units(kinds) \cup {u}) <= Cardinality(Units(kinds)')
  BY <1>4, UnitsFinite, FS_Subset
<1>. QED BY <1>5, <1>6 DEF Faults, Units

LEMMA SpendElsewhere ==
    ASSUME ApiTypeOK, NEW kinds \in SUBSET FaultKinds,
           NEW kind \in FaultKinds \ kinds, Spend(kind)
    PROVE  Faults(kinds)' = Faults(kinds)
<1>1. \A f \in kinds : spent'[f] = spent[f]
  BY DEF ApiTypeOK, Spend
<1>2. Units(kinds)' = Units(kinds)
  BY <1>1 DEF Units
<1>. QED BY <1>2 DEF Faults, Units

LEMMA PayingKinds ==
    /\ Paying \in SUBSET FaultKinds /\ IsFiniteSet(Paying)
    /\ Faults(Paying) \in Nat /\ Faults(Paying)' \in Nat
<1>1. Paying \in SUBSET FaultKinds
  BY DEF Paying, FaultKinds
<1>. QED BY <1>1, FaultKindsFinite, UnitsFinite DEF Faults, Units

LEMMA OneMore ==
    ASSUME NEW S, IsFiniteSet(S), NEW x
    PROVE  /\ IsFiniteSet(S \cup {x})
           /\ Cardinality(S \cup {x}) <= Cardinality(S) + 1
<1>1. Cardinality(S) \in Nat
  BY FS_CardinalityType
<1>. QED BY <1>1, FS_AddElement

LEMMA FiniteRequests ==
    ASSUME NEW p
    PROVE  /\ IsFiniteSet(Excused(p)) /\ Cardinality(Excused(p)) \in Nat
           /\ IsFiniteSet(Excused(p)') /\ Cardinality(Excused(p)') \in Nat
<1>1. Excused(p) \in SUBSET Orders /\ Excused(p)' \in SUBSET Orders
  BY DEF Excused, RequestsFor
<1>. QED BY <1>1, OrdersAssumption, FS_Subset, FS_CardinalityType

\* What keeps Covered: nothing new is excused, or one request that was paid for.
LEMMA NothingExcused ==
    ASSUME NEW p, Covered(p), Excused(p)' \subseteq Excused(p),
           Faults(Paying)' >= Faults(Paying)
    PROVE  Covered(p)'
<1>1. Cardinality(Excused(p)') <= Cardinality(Excused(p))
  BY FiniteRequests, FS_Subset
<1>. QED BY <1>1, FiniteRequests, PayingKinds DEF Covered

LEMMA OneExcused ==
    ASSUME NEW p, Covered(p), NEW x, Excused(p)' \subseteq Excused(p) \cup {x},
           Faults(Paying)' >= Faults(Paying) + 1
    PROVE  Covered(p)'
<1>1. /\ IsFiniteSet(Excused(p) \cup {x})
      /\ Cardinality(Excused(p) \cup {x}) <= Cardinality(Excused(p)) + 1
  BY FiniteRequests, OneMore
<1>2. Cardinality(Excused(p)') <= Cardinality(Excused(p) \cup {x})
  BY <1>1, FS_Subset
<1>3. Cardinality(Excused(p) \cup {x}) \in Nat
  BY <1>1, FS_CardinalityType
<1>. QED BY <1>1, <1>2, <1>3, FiniteRequests, PayingKinds DEF Covered

LEMMA DuplicateApiStep ==
    ASSUME ApiTypeOK, RequestInv, DuplicateInv, ApiNext
    PROVE  DuplicateInv'
<1>. SUFFICES ASSUME NEW p \in Purchases PROVE OneOpen(p)' /\ Covered(p)'
  BY DEF DuplicateInv
<1>. USE DEF ApiTypeOK, tables, requests, Respond, Go
<1>0. OneOpen(p) /\ Covered(p)
  BY DEF DuplicateInv
<1>1. ASSUME UNCHANGED spent, Excused(p)' \subseteq Excused(p) PROVE Covered(p)'
  BY <1>0, <1>1, NothingExcused, PayingKinds DEF Faults
<1>2. ASSUME Open(p)' \subseteq Open(p) PROVE OneOpen(p)'
  BY <1>0, <1>2 DEF OneOpen
<1>3. ASSUME NEW o \in Orders, Post(o) \/ RejectBody(o) PROVE OneOpen(p)' /\ Covered(p)'
  <2>1. OneOpen(p)'
    <3>1. CASE o \in RequestsFor(p)
      <4>1. Open(p)' \subseteq {o}
        BY <1>3, <3>1 DEF Post, RejectBody, MaySend, Open, RequestsFor
      <4>. QED BY <4>1 DEF OneOpen
    <3>2. CASE o \notin RequestsFor(p)
      BY <1>2, <1>3, <3>2 DEF Post, RejectBody, Open, RequestsFor
    <3>. QED BY <3>1, <3>2
  <2>2. Excused(p)' \subseteq Excused(p) /\ UNCHANGED spent
    BY <1>3 DEF Post, RejectBody, Excused, RequestsFor
  <2>. QED BY <1>1, <2>1, <2>2
<1>4. ASSUME NEW o \in Orders, StopWaiting(o) PROVE OneOpen(p)' /\ Covered(p)'
  <2>1. Open(p)' \subseteq Open(p) /\ Excused(p)' \subseteq Excused(p) \cup {o}
    BY <1>4 DEF StopWaiting, Open, Excused, RequestsFor
  <2>2. Faults(Paying)' >= Faults(Paying) + 1
    BY <1>4, SpendCounts, PayingKinds DEF StopWaiting, Paying
  <2>. QED BY <1>0, <1>2, <2>1, <2>2, OneExcused
<1>5. ASSUME NEW o \in Orders,
             InsertOrder(o) \/ InsertEvent(o) \/ EventRejected(o) \/ Commit(o) \/ Created(o)
      PROVE  OneOpen(p)' /\ Covered(p)'
  <2>1. Open(p)' \subseteq Open(p) /\ Excused(p)' \subseteq Excused(p) /\ UNCHANGED spent
    BY <1>5 DEF InsertOrder, InsertEvent, EventRejected, Commit, Created, Store,
       RequestInv, Open, Excused, RequestsFor
  <2>. QED BY <1>1, <1>2, <2>1
<1>6. ASSUME NEW o \in Orders, DatabaseRaises(o) PROVE OneOpen(p)' /\ Covered(p)'
  <2>1. Open(p)' \subseteq Open(p) /\ Excused(p)' \subseteq Excused(p)
    BY <1>6 DEF DatabaseRaises, RequestInv, Open, Excused, RequestsFor
  <2>2. Faults(Paying)' = Faults(Paying)
    BY <1>6, SpendElsewhere, PayingKinds DEF DatabaseRaises, Paying, FaultKinds
  <2>. QED BY <1>0, <1>2, <2>1, <2>2, NothingExcused, PayingKinds
<1>7. ASSUME NEW o \in Orders, CommitUnacknowledged(o) PROVE OneOpen(p)' /\ Covered(p)'
  <2>1. Open(p)' \subseteq Open(p) /\ Excused(p)' \subseteq Excused(p) \cup {o}
    BY <1>7 DEF CommitUnacknowledged, Store, RequestInv, Open, Excused, RequestsFor
  <2>2. Faults(Paying)' >= Faults(Paying) + 1
    BY <1>7, SpendCounts, PayingKinds DEF CommitUnacknowledged, Paying
  <2>. QED BY <1>0, <1>2, <2>1, <2>2, OneExcused
<1>8. ASSUME Crash PROVE OneOpen(p)' /\ Covered(p)'
  <2>1. Open(p)' \subseteq Open(p) /\ Excused(p)' \subseteq Excused(p) \cup Open(p)
    BY <1>8 DEF Crash, InFlight, RequestInv, Open, Excused, RequestsFor
  <2>2. Faults(Paying)' >= Faults(Paying) + 1
    BY <1>8, SpendCounts, PayingKinds DEF Crash, Paying
  <2>3. PICK x : Open(p) \subseteq {x}
    BY <1>0 DEF OneOpen
  <2>4. Excused(p)' \subseteq Excused(p) \cup {x}
    BY <2>1, <2>3
  <2>. QED BY <1>0, <1>2, <2>1, <2>2, <2>4, OneExcused
<1>. QED BY <1>3, <1>4, <1>5, <1>6, <1>7, <1>8 DEF ApiNext, ServiceStep

LEMMA DuplicateStep ==
    ASSUME TypeOK, RequestInv, DuplicateInv, [Next]_vars
    PROVE  DuplicateInv'
<1>1. CASE Api
  BY <1>1, DuplicateApiStep DEF Api, TypeOK
<1>2. CASE Flow \/ UNCHANGED vars
  <2>1. UNCHANGED <<tables, requests>>
    BY <1>2, FlowKeepsOrders DEF vars, apiVars
  <2>2. Faults(Paying)' = Faults(Paying)
    <3>1. CASE UNCHANGED spent
      BY <3>1 DEF Faults
    <3>2. CASE \E kind \in FaultKinds \ Paying : Spend(kind)
      BY <3>2, SpendElsewhere, PayingKinds DEF TypeOK
    <3>3. UNCHANGED spent \/ \E kind \in FaultKinds \ Paying : Spend(kind)
      BY <1>2 DEF Flow, CreateTopic, StartRelay, LocalStackRestart, Connect, Publish, Settle,
         Park, Consume, Acknowledge, SetAside, vars, apiVars, FaultKinds, Paying
    <3>. QED BY <3>1, <3>2, <3>3
  <2>3. ASSUME NEW p \in Purchases PROVE OneOpen(p)' /\ Covered(p)'
    <3>1. OneOpen(p) /\ Covered(p)
      BY DEF DuplicateInv
    <3>2. Open(p)' = Open(p) /\ Excused(p)' = Excused(p)
      BY <2>1 DEF Open, Excused, tables, requests
    <3>. QED BY <2>2, <3>1, <3>2 DEF OneOpen, Covered
  <2>. QED BY <2>3 DEF DuplicateInv
<1>. QED BY <1>1, <1>2 DEF Next, Api, Flow

LEMMA DuplicatesCovered ==
    ASSUME ApiTypeOK, RequestInv, DuplicateInv
    PROVE  DuplicatesArePaidFor
<1>. SUFFICES ASSUME NEW p \in Purchases
              PROVE  Cardinality(orders \cap RequestsFor(p)) <= 1 + Faults(Paying)
  BY DEF DuplicatesArePaidFor, Paying
<1>1. OneOpen(p) /\ Covered(p)
  BY DEF DuplicateInv
<1>2. PICK x : Open(p) \subseteq {x}
  BY <1>1 DEF OneOpen
<1>3. orders \cap RequestsFor(p) \in SUBSET (Excused(p) \cup {x})
  BY <1>2 DEF RequestInv, Open, Excused, RequestsFor
<1>4. /\ IsFiniteSet(Excused(p) \cup {x})
      /\ Cardinality(Excused(p) \cup {x}) <= Cardinality(Excused(p)) + 1
  BY FiniteRequests, OneMore
<1>5. Cardinality(orders \cap RequestsFor(p)) <= Cardinality(Excused(p) \cup {x})
  BY <1>3, <1>4, FS_Subset
<1>6. /\ Cardinality(Excused(p) \cup {x}) \in Nat
      /\ Cardinality(orders \cap RequestsFor(p)) \in Nat
  BY <1>3, <1>4, FS_Subset, FS_CardinalityType
<1>. QED BY <1>1, <1>4, <1>5, <1>6, FiniteRequests, PayingKinds DEF Covered

-----------------------------------------------------------------------------
(* The theorems. *)

LEMMA IInvInit == Init => IInv
<1>. SUFFICES ASSUME Init PROVE IInv
  OBVIOUS
<1>. USE DEF Init, ApiInit, Wiring!Init, Outbox!Init, Effects!Init
<1>1. TypeOK
  <2>1. ApiTypeOK
    BY DEF ApiTypeOK
  <2>2. /\ effect \in [Keys -> 0 .. 1] /\ delivered \in [Orders -> Nat]
        /\ arrived \subseteq Keys /\ acknowledged \subseteq Keys
        /\ aside \subseteq Keys /\ lost \subseteq Keys
    OBVIOUS
  <2>3. topic \in BOOLEAN /\ relayUp \in BOOLEAN
    OBVIOUS
  <2>4. receiving \subseteq Queues /\ settled \subseteq Orders /\ abandoned \subseteq Orders
    OBVIOUS
  <2>. QED BY <2>1, <2>2, <2>3, <2>4 DEF TypeOK
<1>2. ServiceInv
  BY DEF ServiceInv, OrderHasItsEvent, RequestInv, AnswerTrue
<1>3. FlowInv
  BY DEF FlowInv, ArrivalInv, FanOutInv, Keys
<1>4. DuplicateInv
  <2>. SUFFICES ASSUME NEW p \in Purchases PROVE OneOpen(p) /\ Covered(p)
    BY DEF DuplicateInv
  <2>1. Open(p) = {} /\ Excused(p) = {}
    BY DEF Open, Excused, RequestsFor
  <2>2. Cardinality(Excused(p)) = 0
    BY <2>1, FS_EmptySet
  <2>. QED BY <2>1, <2>2, PayingKinds DEF OneOpen, Covered
<1>. QED BY <1>1, <1>2, <1>3, <1>4 DEF IInv, ServiceInv, FlowInv

\* The inductive invariant of the system: order/routes.py and service.py over
\* the contracts of the relay, the bootstrap and the consumers.
THEOREM Inductive == Spec => []IInv
<1>1. IInv /\ [Next]_vars => IInv'
  <2>. SUFFICES ASSUME IInv, [Next]_vars PROVE IInv'
    OBVIOUS
  <2>1. FlowInv'
    <3>1. CASE Api
      BY <3>1, FlowApiStep DEF IInv, FlowInv
    <3>2. CASE Flow
      BY <3>2, FlowFlowStep DEF IInv, FlowInv
    <3>3. CASE UNCHANGED vars
      BY <3>3 DEF vars, apiVars, tables, wiring, relay, consumers, IInv,
         FlowInv, ArrivalInv, FanOutInv
    <3>. QED BY <3>1, <3>2, <3>3 DEF Next, Api, Flow
  <2>. QED
    BY <2>1, TypeStep, ServiceStepInv, DuplicateStep DEF IInv, ServiceInv, FlowInv
<1>. QED BY IInvInit, <1>1, PTL DEF Spec

\* Every variable keeps its type.
THEOREM TypeCorrect == Spec => []TypeOK
<1>1. IInv => TypeOK
  BY DEF IInv
<1>. QED BY Inductive, <1>1, PTL

\* An order is in the database exactly when its event is, whatever fails in
\* POST /orders and between its two inserts.
THEOREM Atomic == Spec => []OrderHasItsEvent
<1>1. IInv => OrderHasItsEvent
  BY DEF IInv
<1>. QED BY Inductive, <1>1, PTL

\* A client that reads 201 has its order, one that reads 422 has none.
THEOREM AnswersAreTrue == Spec => []AnswerTrue
<1>1. IInv => AnswerTrue
  BY DEF IInv
<1>. QED BY Inductive, <1>1, PTL

\* However often a client retries POST /orders, each order of its purchase
\* beyond the first cost a lost answer, a crash or an unacknowledged commit.
THEOREM DuplicatesHaveACause == Spec => []DuplicatesArePaidFor
<1>1. IInv => DuplicatesArePaidFor
  BY DuplicatesCovered DEF IInv, TypeOK
<1>. QED BY Inductive, <1>1, PTL

\* An event the relay marked published reached every queue, unless LocalStack
\* restarted: what the gate on the bootstrap is for.
THEOREM NobodyIsLeftOut == Spec => []FanOutComplete
<1>1. IInv => FanOutComplete
  BY DEF IInv, TypeOK, FanOutInv, FanOutComplete
<1>. QED BY Inductive, <1>1, PTL

\* No consumer bills, or ships, what the database does not have or what was
\* answered 422.
THEOREM NothingFromNothing == Spec => []OnlyStoredOrdersTakeEffect
<1>1. IInv => OnlyStoredOrdersTakeEffect
  BY DEF IInv, OrderHasItsEvent, ArrivalInv, AnswerTrue, OnlyStoredOrdersTakeEffect,
     Keys, TypeOK, ApiTypeOK
<1>. QED BY Inductive, <1>1, PTL

-----------------------------------------------------------------------------
(* The system implements the contract of one queue. *)

\* What the Order Service commits is what arrives at that queue.
LEMMA CommitArrives ==
    ASSUME TypeOK, Api
    PROVE  [EndToEnd!Next]_(EndToEnd!promise)
<1>. USE DEF Api, consumers, EndToEnd!promise
<1>1. ASSUME NEW o \in Orders, Store(o) PROVE EndToEnd!Next
  <2>1. Queues \X orders' = (Queues \X orders) \cup (Queues \X {o})
    BY <1>1 DEF Store
  <2>2. Queues \X {o} \in SUBSET Keys
    BY DEF Keys
  <2>3. EndToEnd!Arrive(Queues \X {o})
    BY <2>1 DEF EndToEnd!Arrive
  <2>. QED BY <2>2, <2>3 DEF EndToEnd!Next
<1>2. CASE UNCHANGED orders
  BY <1>2
<1>3. UNCHANGED orders \/ \E o \in Orders : Store(o)
  BY DEF ApiNext, ServiceStep, Post, RejectBody, StopWaiting, InsertOrder, InsertEvent,
     EventRejected, Commit, Created, DatabaseRaises, CommitUnacknowledged, Crash, tables
<1>. QED BY <1>1, <1>2, <1>3

\* What is on its way, at its consumers or lost was committed before.
LEMMA FlowDelivers ==
    ASSUME IInv, Flow
    PROVE  [EndToEnd!Next]_(EndToEnd!promise)
<1>0. UNCHANGED orders
  BY FlowKeepsOrders DEF tables
<1>1. arrived \subseteq Queues \X orders /\ arrived \subseteq Keys
  BY DEF IInv, ArrivalInv, OrderHasItsEvent, Keys, TypeOK
<1>. USE DEF EndToEnd!promise
<1>2. ASSUME LocalStackRestart PROVE EndToEnd!Next
  <2>1. EndToEnd!Forget(arrived \ acknowledged)
    BY <1>0, <1>1, <1>2 DEF LocalStackRestart, Effects!Forget, EndToEnd!Forget
  <2>2. arrived \ acknowledged \in SUBSET Keys
    BY <1>1
  <2>. QED BY <2>1, <2>2 DEF EndToEnd!Next
<1>3. ASSUME NEW k \in Keys, Consume(k) PROVE EndToEnd!Effect(k)
  BY <1>0, <1>1, <1>3 DEF Consume, Effects!Effect, EndToEnd!Effect
<1>4. ASSUME NEW k \in Keys, Acknowledge(k) PROVE EndToEnd!Acknowledge(k)
  BY <1>0, <1>1, <1>4 DEF Acknowledge, Effects!Acknowledge, EndToEnd!Acknowledge
<1>5. ASSUME NEW k \in Keys, SetAside(k) PROVE EndToEnd!SetAside(k)
  BY <1>0, <1>1, <1>5 DEF SetAside, Effects!SetAside, EndToEnd!SetAside
<1>6. ASSUME NEW o \in Orders, Publish(o) PROVE UNCHANGED EndToEnd!promise
  BY <1>0, <1>6 DEF Publish, Effects!Arrive
<1>7. CASE CreateTopic \/ StartRelay \/ (\E q \in Queues : Connect(q))
             \/ \E o \in Orders : Settle(o) \/ Park(o)
  BY <1>0, <1>7 DEF CreateTopic, StartRelay, Connect, Settle, Park, consumers
<1>. QED BY <1>2, <1>3, <1>4, <1>5, <1>6, <1>7 DEF Flow, EndToEnd!Next

\* From POST /orders on the system is one effect-once queue, whatever crashes,
\* restarts, is parked or is set aside inside it.
THEOREM ImplementsEffectOnce == Spec => EndToEndSafe
<1>1. Init => EndToEnd!Init
  BY DEF Init, ApiInit, Effects!Init, EndToEnd!Init
<1>2. IInv /\ [Next]_vars => [EndToEnd!Next]_(EndToEnd!promise)
  <2>1. ASSUME IInv, Api PROVE [EndToEnd!Next]_(EndToEnd!promise)
    BY <2>1, CommitArrives DEF IInv
  <2>2. CASE UNCHANGED vars
    BY <2>2 DEF vars, apiVars, tables, consumers, EndToEnd!promise
  <2>. QED BY <2>1, <2>2, FlowDelivers DEF Next, Api, Flow
<1>. QED BY Inductive, <1>1, <1>2, PTL DEF Spec, EndToEndSafe, EndToEnd!Spec

=============================================================================
