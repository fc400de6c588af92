---------------------------- MODULE OrderService ----------------------------
(***************************************************************************)
(* POST /orders: a request mints an order id, stages the order and its     *)
(* outbox event in one transaction, commits, and only then answers         *)
(* (src/order/routes.py, service.py, over shared/db.get_session).          *)
(*                                                                         *)
(* A request is named by the id it mints.  Its client wants to buy         *)
(* Purchase[o], and sends another request for it when this one failed or   *)
(* was not answered.  Clients are external.  Each fault costs one unit of  *)
(* its Budget; the modules that extend this one spend the rest of them.    *)
(***************************************************************************)
EXTENDS Naturals, FiniteSets

CONSTANTS
    Orders,
    Purchases, Purchase,
    Budget, MaxFaults

FaultKinds == {"crash", "dbError", "commitUnacked", "impatient",
               "restart", "duplicate", "parked", "aside"}
Statuses == {"201", "422", "503"}

ASSUME OrdersAssumption == IsFiniteSet(Orders) /\ Purchase \in [Orders -> Purchases]
ASSUME BudgetAssumption == Budget \in [FaultKinds -> Nat] /\ MaxFaults \in Nat

VARIABLES
    orders, outbox,     \* committed rows, by order id
    pc,                 \* each request: where the service is with it,
    answer,             \* the status it answered
    gone,               \* requests whose client will not hear the answer
    spent               \* faults so far

tables == <<orders, outbox>>
requests == <<pc, answer, gone>>
apiVars == <<tables, requests, spent>>

ApiInit ==
    /\ orders = {} /\ outbox = {}
    /\ pc = [o \in Orders |-> "unsent"]
    /\ answer = [o \in Orders |-> "none"]
    /\ gone = {}
    /\ spent = [k \in FaultKinds |-> 0]

\* How many faults of these kinds there were.
Faults(kinds) == Cardinality({f \in kinds \X (1 .. MaxFaults) : f[2] <= spent[f[1]]})

Spend(kind) ==
    /\ spent[kind] < Budget[kind] /\ Faults(FaultKinds) < MaxFaults
    /\ spent' = [spent EXCEPT ![kind] = @ + 1]

InFlight(o) == pc[o] \notin {"unsent", "done"}

Go(o, label) == pc' = [pc EXCEPT ![o] = label]

\* The end of a request, with its response.
Respond(o, status) ==
    /\ Go(o, "done")
    /\ answer' = [answer EXCEPT ![o] = status]

-----------------------------------------------------------------------------
(* The client. *)

RequestsFor(p) == {o \in Orders : Purchase[o] = p}

\* One request at a time, and another only if the last one failed.
MaySend(o) ==
    /\ pc[o] = "unsent"
    /\ \A u \in RequestsFor(Purchase[o]) : pc[u] # "unsent" => u \in gone \/ answer[u] = "503"

Post(o) ==
    /\ MaySend(o)
    /\ Go(o, "insertOrder")
    /\ UNCHANGED <<tables, answer, gone, spent>>

\* The client does not wait for the response, or it is lost on its way; the
\* service goes on.
StopWaiting(o) ==
    /\ InFlight(o) /\ o \notin gone
    /\ Spend("impatient")
    /\ gone' = gone \cup {o}
    /\ UNCHANGED <<tables, pc, answer>>

-----------------------------------------------------------------------------
(* The service. *)

\* A body that OrderCreate does not accept never reaches the endpoint.
RejectBody(o) ==
    /\ MaySend(o)
    /\ Respond(o, "422")
    /\ UNCHANGED <<tables, gone, spent>>

\* Mutant: the order is committed before its event is inserted.
InsertOrder_Commits(o) ==
    /\ pc[o] = "insertOrder"
    /\ orders' = orders \cup {o}
    /\ Go(o, "insertEvent")
    /\ UNCHANGED <<outbox, answer, gone, spent>>

\* The flush sends two INSERTs; the rows are seen by nobody else.
InsertOrder(o) ==
    /\ pc[o] = "insertOrder"
    /\ Go(o, "insertEvent")
    /\ UNCHANGED <<tables, answer, gone, spent>>

\* Mutant: the event is inserted in a transaction of its own.
InsertEvent_Commits(o) ==
    /\ pc[o] = "insertEvent"
    /\ outbox' = outbox \cup {o}
    /\ Go(o, "commit")
    /\ UNCHANGED <<orders, answer, gone, spent>>

InsertEvent(o) ==
    /\ pc[o] = "insertEvent"
    /\ Go(o, "commit")
    /\ UNCHANGED <<tables, answer, gone, spent>>

\* Mutant: the IntegrityError is not caught.
EventRejected_Escapes(o) ==
    /\ pc[o] = "insertEvent"
    /\ Respond(o, "500")
    /\ UNCHANGED <<tables, gone, spent>>

\* BREAK_OUTBOX_INSERT, or another violated constraint: the transaction is
\* discarded, with the order in it.
EventRejected(o) ==
    /\ pc[o] = "insertEvent"
    /\ Respond(o, "422")
    /\ UNCHANGED <<tables, gone, spent>>

\* Both rows, or neither.
Store(o) == orders' = orders \cup {o} /\ outbox' = outbox \cup {o}

Commit(o) ==
    /\ pc[o] = "commit"
    /\ Store(o)
    /\ Go(o, "respond")
    /\ UNCHANGED <<answer, gone, spent>>

\* Mutants: answered before the commit, which get_session's close undoes; the
\* committed order's attributes have expired, and reading them fails.
Created_BeforeCommit(o) ==
    /\ pc[o] = "commit"
    /\ Respond(o, "201")
    /\ UNCHANGED <<tables, gone, spent>>

Created_Expired(o) ==
    /\ pc[o] = "respond"
    /\ Respond(o, "503")
    /\ UNCHANGED <<tables, gone, spent>>

\* 201, once the transaction is committed.
Created(o) ==
    /\ pc[o] = "respond"
    /\ Respond(o, "201")
    /\ UNCHANGED <<tables, gone, spent>>

\* Postgres refuses a statement, or the commit, or cannot be reached.
DatabaseRaises(o) ==
    /\ pc[o] \in {"insertOrder", "insertEvent", "commit"}
    /\ Spend("dbError")
    /\ Respond(o, "503")
    /\ UNCHANGED <<tables, gone>>

\* The commit is applied, and raises because its acknowledgement is lost.
CommitUnacknowledged(o) ==
    /\ pc[o] = "commit"
    /\ Spend("commitUnacked")
    /\ Store(o)
    /\ Respond(o, "503")
    /\ UNCHANGED gone

\* The process dies: Postgres discards what it had not committed, and the
\* clients it was serving see their connection break.
Crash ==
    /\ \E o \in Orders : InFlight(o)
    /\ Spend("crash")
    /\ pc' = [o \in Orders |-> IF InFlight(o) THEN "done" ELSE pc[o]]
    /\ gone' = gone \cup {o \in Orders : InFlight(o)}
    /\ UNCHANGED <<tables, answer>>

\* What the service does with a request when nothing fails.
ServiceStep(o) == InsertOrder(o) \/ InsertEvent(o) \/ EventRejected(o) \/ Commit(o) \/ Created(o)

ApiNext ==
    \/ \E o \in Orders :
         \/ Post(o) \/ RejectBody(o) \/ StopWaiting(o)
         \/ ServiceStep(o) \/ DatabaseRaises(o) \/ CommitUnacknowledged(o)
    \/ Crash

-----------------------------------------------------------------------------
(* Properties. *)

\* Every variable has its type.
ApiTypeOK ==
    /\ orders \subseteq Orders /\ outbox \subseteq Orders
    /\ pc \in [Orders -> {"unsent", "insertOrder", "insertEvent", "commit", "respond", "done"}]
    /\ answer \in [Orders -> Statuses \cup {"none"}]
    /\ gone \subseteq Orders
    /\ spent \in [FaultKinds -> Nat]

\* The outbox pattern: at no moment, whatever fails in whichever request, does
\* an order exist without its event, or an event without its order.
OrderHasItsEvent == orders = outbox

\* A 201 means that the order is there, a 422 that it is not and will not be.
AnswerTrue ==
    \A o \in Orders :
        /\ answer[o] = "201" => o \in orders
        /\ answer[o] = "422" => o \notin orders

\* Each order of a purchase beyond the first was paid for by a client that
\* stopped waiting, a crash, or a commit that was applied and raised.
DuplicatesArePaidFor ==
    \A p \in Purchases :
        Cardinality(orders \cap RequestsFor(p))
            <= 1 + Faults({"impatient", "crash", "commitUnacked"})

\* "Database unavailable; nothing was saved."
NothingWasSaved == \A o \in Orders : answer[o] = "503" => o \notin orders

=============================================================================
