----------------------------- MODULE OutboxRelay -----------------------------
(***************************************************************************)
(* The relay: processes that poll the outbox table, publish each row to    *)
(* SNS inside the transaction that holds the row's lock, and mark it       *)
(* (src/relay/service.py, main.py, publisher.py, over shared/db.py).       *)
(*                                                                         *)
(* A row is named by the rank of its created_at, so "oldest first" is <.   *)
(* The stamp is taken before the order's transaction commits, hence rows   *)
(* may enter the outbox in any order.  A database transaction is the       *)
(* interval between taking and releasing a row's lock; a statement or a    *)
(* commit is one step.  SNS, LocalStack and the operator are external: a   *)
(* fault of theirs costs one unit of Budget.                               *)
(***************************************************************************)
EXTENDS Naturals, FiniteSets

CONSTANTS
    Rows,                   \* outbox rows, ranked by created_at
    Relays,                 \* relay processes
    NoRelay, NoRow,         \* "no lock holder", "no current row"
    Answer,                 \* what SNS says to each row's payload
    RELAY_BATCH_SIZE,
    OUTBOX_MAX_ATTEMPTS,
    SNS_MAX_ATTEMPTS,       \* boto3: transmissions of one publish call
    Budget                  \* how often each fault or intervention may occur

\* One unlisted code stands for every error code the relay does not know.
PermanentSnsErrors == {"InvalidParameter"}
Answers == {"ok", "InternalError"} \cup PermanentSnsErrors
Exceptions == (Answers \ {"ok"}) \cup {"NotFound", "Timeout", "OperationalError"}
FaultKinds == {"crash", "sigterm", "noAnswer", "ackLost", "dbError",
               "sessionLost", "restart", "clear"}

ASSUME RowsAssumption == Rows \subseteq Nat /\ IsFiniteSet(Rows) /\ NoRow \notin Rows
ASSUME RelaysAssumption == IsFiniteSet(Relays) /\ NoRelay \notin Relays
ASSUME AnswerAssumption == Answer \in [Rows -> Answers]
ASSUME LimitsAssumption ==
    /\ RELAY_BATCH_SIZE \in Nat \ {0}
    /\ OUTBOX_MAX_ATTEMPTS \in Nat \ {0}
    /\ SNS_MAX_ATTEMPTS \in Nat \ {0}
ASSUME BudgetAssumption == Budget \in [FaultKinds -> Nat]

VARIABLES
    outbox, published, failed_at, attempts,     \* committed table contents
    lock,                                       \* FOR UPDATE row locks
    topic, sent, reached,                       \* SNS; copies accepted per row,
                                                \* rows some queue was handed
    pc, batch, row, exc, copies, arn, shutdown, \* each relay's own state
    left                                        \* budget not yet spent

table == <<outbox, published, failed_at, attempts>>
sns == <<topic, sent, reached>>
process == <<pc, batch, row, exc, copies, arn, shutdown>>
vars == <<table, lock, sns, process, left>>

\* Mutant: the relay does not wait for the bootstrap.
TopicAtStart_Ungated == "absent"

\* Compose starts a relay only after the bootstrap has subscribed the queues.
TopicAtStart == "wired"

Init ==
    /\ outbox = {} /\ published = {} /\ failed_at = {}
    /\ attempts = [x \in Rows |-> 0]
    /\ lock = [x \in Rows |-> NoRelay]
    /\ topic = TopicAtStart
    /\ sent = [x \in Rows |-> 0]
    /\ reached = {}
    /\ pc = [r \in Relays |-> "down"]
    /\ batch = [r \in Relays |-> {}]
    /\ row = [r \in Relays |-> NoRow]
    /\ exc = [r \in Relays |-> "none"]
    /\ copies = [r \in Relays |-> 0]
    /\ arn = [r \in Relays |-> FALSE]
    /\ shutdown = [r \in Relays |-> FALSE]
    /\ left = Budget

Spend(kind) == left[kind] > 0 /\ left' = [left EXCEPT ![kind] = @ - 1]

-----------------------------------------------------------------------------
(* What the code's helpers compute. *)

\* Mutant: a list of what is worth retrying in the place of the other.
IsPermanent_Unlisted(e) == e # "InternalError"

IsPermanent(e) == e \in PermanentSnsErrors

\* Mutant: the poll does not look at attempts.
Pollable_AnyAttempts == outbox \ (published \cup failed_at)

\* The WHERE clause of the poll.
Pollable == {x \in outbox : /\ x \notin published
                            /\ x \notin failed_at
                            /\ attempts[x] < OUTBOX_MAX_ATTEMPTS}

\* Mutant: parked rows are left out after the LIMIT, not by the query.
PendingEventIds_LimitFirst ==
    {x \in Pollable : Cardinality({y \in outbox \ published : y < x}) < RELAY_BATCH_SIZE}

\* ORDER BY created_at LIMIT RELAY_BATCH_SIZE.
PendingEventIds ==
    {x \in Pollable : Cardinality({y \in Pollable : y < x}) < RELAY_BATCH_SIZE}

\* Mutants: no SKIP LOCKED; published not read again.
Claimable_Unlocked(x) == x \notin published
Claimable_Stale(x) == lock[x] = NoRelay

\* relay_one's SELECT reads published again, under the lock, but not failed_at.
Claimable(x) == x \notin published /\ lock[x] = NoRelay

\* Mutant: one UPDATE marks the batch.
WithRowPublished_Batch(r) == published \cup batch[r] \cup {row[r]}

\* The rows published once r's transaction commits: its one row.
WithRowPublished(r) == published \cup {row[r]}

\* The end of a transaction: every lock r holds is released.
Released(r) == [x \in Rows |-> IF lock[x] = r THEN NoRelay ELSE lock[x]]

\* The for loop of relay_batch: on to the next row, or out of the batch.
NextRow(r, rest) ==
    /\ batch' = [batch EXCEPT ![r] = rest]
    /\ row' = [row EXCEPT ![r] = NoRow]
    /\ exc' = [exc EXCEPT ![r] = "none"]
    /\ copies' = [copies EXCEPT ![r] = 0]
    /\ pc' = [pc EXCEPT ![r] = IF rest = {} THEN "idle" ELSE "claim"]

\* relay_one raises: session_scope rolls back, relay_batch catches.
Raise(r, e) ==
    /\ exc' = [exc EXCEPT ![r] = e]
    /\ pc' = [pc EXCEPT ![r] = "record"]
    /\ copies' = [copies EXCEPT ![r] = 0]
    /\ lock' = Released(r)
    /\ UNCHANGED batch

\* The process is gone, and with it its connection and its cached ARN.
Exit(r) ==
    /\ pc' = [pc EXCEPT ![r] = "down"]
    /\ batch' = [batch EXCEPT ![r] = {}]
    /\ row' = [row EXCEPT ![r] = NoRow]
    /\ exc' = [exc EXCEPT ![r] = "none"]
    /\ copies' = [copies EXCEPT ![r] = 0]
    /\ arn' = [arn EXCEPT ![r] = FALSE]
    /\ shutdown' = [shutdown EXCEPT ![r] = FALSE]
    /\ lock' = Released(r)

\* topic_arn() reached SNS: create_topic is idempotent, and creates a topic
\* that has no subscription.
Resolve(r) ==
    /\ arn' = [arn EXCEPT ![r] = TRUE]
    /\ topic' = IF topic = "absent" THEN "bare" ELSE topic

-----------------------------------------------------------------------------
(* The Order Service commits an order and its row. *)

InsertRow(x) ==
    /\ x \notin outbox
    /\ outbox' = outbox \cup {x}
    /\ UNCHANGED <<published, failed_at, attempts, lock, sns, process, left>>

-----------------------------------------------------------------------------
(* main(): start, poll loop, signal, stop. *)

\* The start resolves the topic; failing to is logged and not fatal.
Start(r) ==
    /\ pc[r] = "down"
    /\ pc' = [pc EXCEPT ![r] = "idle"]
    /\ \/ Resolve(r) /\ UNCHANGED left
       \/ Spend("noAnswer") /\ UNCHANGED <<arn, topic>>
    /\ UNCHANGED <<table, lock, sent, reached, batch, row, exc, copies, shutdown>>

\* pending_event_ids in its own lock-free transaction.  A poll that finds
\* nothing (or whose read fails) changes nothing; the loop sleeps and polls.
Poll(r) ==
    /\ pc[r] = "idle" /\ ~shutdown[r]
    /\ batch' = [batch EXCEPT ![r] = PendingEventIds]
    /\ pc' = [pc EXCEPT ![r] = IF PendingEventIds = {} THEN "idle" ELSE "claim"]
    /\ UNCHANGED <<table, lock, sns, row, exc, copies, arn, shutdown, left>>

\* SIGTERM or SIGINT only sets the event.
HandleSignal(r) ==
    /\ pc[r] # "down" /\ ~shutdown[r]
    /\ Spend("sigterm")
    /\ shutdown' = [shutdown EXCEPT ![r] = TRUE]
    /\ UNCHANGED <<table, lock, sns, pc, batch, row, exc, copies, arn>>

\* Mutant: the event is read between two rows only.
Stop_BetweenRows(r) ==
    /\ pc[r] = "claim" /\ shutdown[r]
    /\ Exit(r)
    /\ UNCHANGED <<table, sns, left>>

\* The while condition, the only place that reads the event.
Stop(r) ==
    /\ pc[r] = "idle" /\ shutdown[r]
    /\ Exit(r)
    /\ UNCHANGED <<table, sns, left>>

-----------------------------------------------------------------------------
(* relay_one: claim, publish, mark. *)

\* SELECT ... WHERE id AND published = false FOR UPDATE SKIP LOCKED.
Claim(r) ==
    /\ pc[r] = "claim"
    /\ \E x \in batch[r] :
         /\ \A y \in batch[r] : x <= y
         /\ \/ /\ ~Claimable(x)
               /\ NextRow(r, batch[r] \ {x})
               /\ UNCHANGED lock
            \/ /\ Claimable(x)
               /\ lock' = [lock EXCEPT ![x] = r]
               /\ row' = [row EXCEPT ![r] = x]
               /\ batch' = [batch EXCEPT ![r] = @ \ {x}]
               /\ pc' = [pc EXCEPT ![r] = "publish"]
               /\ UNCHANGED <<exc, copies>>
    /\ UNCHANGED <<table, sns, arn, shutdown, left>>

\* The SELECT itself fails: relay_batch treats it like a publish failure.
ClaimRaises(r) ==
    /\ pc[r] = "claim"
    /\ Spend("dbError")
    /\ \E x \in batch[r] :
         /\ \A y \in batch[r] : x <= y
         /\ row' = [row EXCEPT ![r] = x]
         /\ batch' = [batch EXCEPT ![r] = @ \ {x}]
    /\ exc' = [exc EXCEPT ![r] = "OperationalError"]
    /\ pc' = [pc EXCEPT ![r] = "record"]
    /\ UNCHANGED <<table, lock, sns, copies, arn, shutdown>>

\* publish() evaluates topic_arn() first; no cached ARN, so it asks SNS.
ResolveTopic(r) ==
    /\ pc[r] = "publish" /\ ~arn[r]
    /\ Resolve(r)
    /\ UNCHANGED <<table, lock, sent, reached, pc, batch, row, exc, copies, shutdown, left>>

\* SNS takes a copy.  A further one is boto3 transmitting again because the
\* acknowledgement of the one before was lost.
SnsAccept(r) ==
    /\ pc[r] = "publish" /\ arn[r] /\ topic # "absent"
    /\ Answer[row[r]] = "ok"
    /\ copies[r] < SNS_MAX_ATTEMPTS
    /\ IF copies[r] = 0 THEN UNCHANGED left ELSE Spend("ackLost")
    /\ copies' = [copies EXCEPT ![r] = @ + 1]
    /\ sent' = [sent EXCEPT ![row[r]] = @ + 1]
    /\ reached' = IF topic = "wired" THEN reached \cup {row[r]} ELSE reached
    /\ UNCHANGED <<table, lock, topic, pc, batch, row, exc, arn, shutdown>>

\* Mutant: publish() swallows its exception.
PublishReturns_Swallowed(r) ==
    /\ pc[r] = "publish"
    /\ pc' = [pc EXCEPT ![r] = "mark"]
    /\ UNCHANGED <<table, lock, sns, batch, row, exc, copies, arn, shutdown, left>>

\* The response arrives; published and published_at are set in the session.
PublishReturns(r) ==
    /\ pc[r] = "publish" /\ copies[r] > 0
    /\ pc' = [pc EXCEPT ![r] = "mark"]
    /\ UNCHANGED <<table, lock, sns, batch, row, exc, copies, arn, shutdown, left>>

\* SNS answers with an error code for this payload.
PublishRejected(r) ==
    /\ pc[r] = "publish" /\ arn[r] /\ topic # "absent"
    /\ Answer[row[r]] # "ok"
    /\ Raise(r, Answer[row[r]])
    /\ UNCHANGED <<table, sns, row, arn, shutdown, left>>

\* LocalStack restarted and forgot the topic: the cached ARN is dropped, and
\* the NotFound is raised all the same.
PublishNotFound(r) ==
    /\ pc[r] = "publish" /\ arn[r] /\ topic = "absent"
    /\ IF copies[r] = 0 THEN UNCHANGED left ELSE Spend("ackLost")
    /\ arn' = [arn EXCEPT ![r] = FALSE]
    /\ Raise(r, "NotFound")
    /\ UNCHANGED <<table, sns, row, shutdown>>

\* No transmission is answered in time; SNS may or may not have a copy.
PublishNoAnswer(r) ==
    /\ pc[r] = "publish"
    /\ Spend("noAnswer")
    /\ Raise(r, "Timeout")
    /\ UNCHANGED <<table, sns, row, arn, shutdown>>

\* session_scope commits on the way out of relay_one.
Commit(r) ==
    /\ pc[r] = "mark" /\ lock[row[r]] = r
    /\ published' = WithRowPublished(r)
    /\ lock' = Released(r)
    /\ NextRow(r, batch[r])
    /\ UNCHANGED <<outbox, failed_at, attempts, sns, arn, shutdown, left>>

\* The commit raises: it was rolled back, or it was applied and its
\* acknowledgement was lost.
CommitRaises(r) ==
    /\ pc[r] = "mark" /\ lock[row[r]] = r
    /\ Spend("dbError")
    /\ published' \in {published, WithRowPublished(r)}
    /\ Raise(r, "OperationalError")
    /\ UNCHANGED <<outbox, failed_at, attempts, sns, row, arn, shutdown>>

\* The session died under the publish and took the lock with it.
CommitOnLostSession(r) ==
    /\ pc[r] = "mark" /\ lock[row[r]] # r
    /\ Raise(r, "OperationalError")
    /\ UNCHANGED <<table, sns, row, arn, shutdown, left>>

-----------------------------------------------------------------------------
(* relay_batch's except clause and record_failure. *)

\* Mutants: the counter counts down; an exhausted row is not parked.
CountAndPark_Down(r) ==
    /\ attempts' = [attempts EXCEPT ![row[r]] = @ - 1]
    /\ UNCHANGED failed_at

CountAndPark_PermanentOnly(r) ==
    /\ attempts' = [attempts EXCEPT ![row[r]] = @ + 1]
    /\ failed_at' = IF IsPermanent(exc[r]) THEN failed_at \cup {row[r]} ELSE failed_at

\* The UPDATE of record_failure, by id alone, and the parking.
CountAndPark(r) ==
    /\ attempts' = [attempts EXCEPT ![row[r]] = @ + 1]
    /\ failed_at' = IF IsPermanent(exc[r]) \/ attempts[row[r]] + 1 >= OUTBOX_MAX_ATTEMPTS
                    THEN failed_at \cup {row[r]}
                    ELSE failed_at

\* The UPDATE waits while another relay's transaction holds the row.
RecordFailure(r) ==
    /\ pc[r] = "record" /\ lock[row[r]] = NoRelay
    /\ CountAndPark(r)
    /\ NextRow(r, IF IsPermanent(exc[r]) THEN batch[r] ELSE {})
    /\ UNCHANGED <<outbox, published, lock, sns, arn, shutdown, left>>

\* An exception out of record_failure escapes the batch; main() logs it.
RecordRaises(r) ==
    /\ pc[r] = "record"
    /\ Spend("dbError")
    /\ \/ UNCHANGED <<attempts, failed_at>>
       \/ lock[row[r]] = NoRelay /\ CountAndPark(r)
    /\ NextRow(r, {})
    /\ UNCHANGED <<outbox, published, lock, sns, arn, shutdown>>

-----------------------------------------------------------------------------
(* What happens to the relay rather than in it. *)

\* SIGKILL, CRASH_AFTER_PUBLISH, a power cut: no unwinding.
Crash(r) ==
    /\ pc[r] # "down"
    /\ Spend("crash")
    /\ Exit(r)
    /\ UNCHANGED <<table, sns>>

\* Postgres ends the session that holds r's lock; r finds out on its commit.
SessionLost(r) ==
    /\ pc[r] \in {"publish", "mark"} /\ lock[row[r]] = r
    /\ Spend("sessionLost")
    /\ lock' = Released(r)
    /\ UNCHANGED <<table, sns, process>>

\* LocalStack keeps nothing: topic, queues and subscriptions are gone.
LocalStackRestart ==
    /\ topic # "absent"
    /\ Spend("restart")
    /\ topic' = "absent"
    /\ UNCHANGED <<table, lock, sent, reached, process>>

\* The bootstrap job is run again.
Bootstrap ==
    /\ topic # "wired"
    /\ topic' = "wired"
    /\ UNCHANGED <<table, lock, sent, reached, process, left>>

\* The operator does what the log line of record_failure asks for.
ClearFailedAt(x) ==
    /\ x \in failed_at /\ lock[x] = NoRelay
    /\ Spend("clear")
    /\ failed_at' = failed_at \ {x}
    /\ UNCHANGED <<outbox, published, attempts, lock, sns, process>>

-----------------------------------------------------------------------------
\* What a running relay does when nothing goes wrong around it.
RelayStep(r) ==
    \/ Poll(r) \/ Stop(r) \/ Claim(r) \/ ResolveTopic(r) \/ SnsAccept(r)
    \/ PublishReturns(r) \/ PublishRejected(r) \/ PublishNotFound(r)
    \/ Commit(r) \/ CommitOnLostSession(r) \/ RecordFailure(r)

RelayFault(r) ==
    \/ HandleSignal(r) \/ ClaimRaises(r) \/ PublishNoAnswer(r) \/ CommitRaises(r)
    \/ RecordRaises(r) \/ Crash(r) \/ SessionLost(r)

Next ==
    \/ \E x \in Rows : InsertRow(x) \/ ClearFailedAt(x)
    \/ \E r \in Relays : Start(r) \/ RelayStep(r) \/ RelayFault(r)
    \/ LocalStackRestart
    \/ Bootstrap

Spec == Init /\ [][Next]_vars

\* A running relay keeps running, and someone starts a relay that is down.
FairSpec == Spec /\ \A r \in Relays : WF_vars(RelayStep(r)) /\ WF_vars(Start(r))

-----------------------------------------------------------------------------
(* Properties. *)

\* Every variable has its type.
TypeOK ==
    /\ outbox \subseteq Rows /\ published \subseteq Rows /\ failed_at \subseteq Rows
    /\ attempts \in [Rows -> Nat]
    /\ lock \in [Rows -> Relays \cup {NoRelay}]
    /\ topic \in {"absent", "bare", "wired"}
    /\ sent \in [Rows -> Nat]
    /\ reached \subseteq Rows
    /\ pc \in [Relays -> {"down", "idle", "claim", "publish", "mark", "record"}]
    /\ batch \in [Relays -> SUBSET Rows]
    /\ row \in [Relays -> Rows \cup {NoRow}]
    /\ exc \in [Relays -> Exceptions \cup {"none"}]
    /\ copies \in [Relays -> Nat]
    /\ arn \in [Relays -> BOOLEAN]
    /\ shutdown \in [Relays -> BOOLEAN]
    /\ left \in [FaultKinds -> Nat]

\* No event is lost silently: a row says published only if SNS has a copy of
\* it, whatever crashed, timed out or raised between the publish and the mark.
PublishedWasSent == \A x \in published : sent[x] > 0

Holding(r) == pc[r] \in {"publish", "mark"}

Spent(kind) == Budget[kind] - left[kind]

\* SELECT ... FOR UPDATE SKIP LOCKED, held across the publish: one relay works
\* on a row at a time, and each session Postgres drops lets in one more.
OnePublisherPerRow ==
    \A x \in Rows :
        Cardinality({r \in Relays : Holding(r) /\ row[r] = x}) <= 1 + Spent("sessionLost")

Lapses == Spent("crash") + Spent("noAnswer") + Spent("ackLost")
            + Spent("dbError") + Spent("sessionLost")

\* The copies SNS took, one by one.
Taken == UNION {{x} \X (1 .. sent[x]) : x \in Rows}

\* The blast radius of one lapse is one duplicate: every copy SNS took is the
\* copy of a published row, the copy of a call still in flight, or paid for by
\* one crash, unanswered call, lost acknowledgement, database error or session.
EveryCopyAccounted ==
    Cardinality(Taken)
        <= Cardinality(published) + Cardinality({r \in Relays : copies[r] > 0}) + Lapses

\* Without a lapse each row is published once at most: a copy of a row SNS has
\* had before costs one, whoever sends it and whatever became of the first.
EveryDuplicatePaidFor ==
    Cardinality(Taken) <= Cardinality({x \in Rows : sent[x] > 0}) + Lapses

\* The poison counter stops: relays that polled a row before it ran out of
\* attempts may each fail on it once more, and nothing else ever does.
AttemptsBounded ==
    \A x \in Rows : attempts[x] < OUTBOX_MAX_ATTEMPTS + Cardinality(Relays)

\* Rows that are neither published nor parked, and that no poll will select.
Limbo == outbox \ (published \cup failed_at \cup Pollable)

\* A row leaves the poll for good only by being published or parked, never by
\* running out of attempts alone (failed_at: NULL means "still being retried").
StillBeingRetried == Limbo = {}

\* No crash, database error or race of two relays drops a row out of the poll
\* unparked: that takes an operator who clears failed_at, once for each row.
LimboIsPaidFor == Cardinality(Limbo) <= Spent("clear")

\* A row no queue received is marked published only if LocalStack restarted.
VoidNeedsARestart == published \subseteq reached \/ Spent("restart") > 0

\* Parked rows are never marked published.
ParkedNeverPublished ==
    [][\A x \in Rows : x \in failed_at /\ x \notin published => x \notin published']_vars

\* The relay that drops a stale ARN recreates the topic on the next publish,
\* no action needed: a row whose first publish failed on it is received.
RecreatedTopicSuffices == \A x \in published : attempts[x] > 0 => x \in reached

\* Short of OUTBOX_MAX_ATTEMPTS failures of its own, which a network error, a
\* database error or a lost session may be one of, and a restart one at each
\* relay, no outage parks a row whose payload SNS accepts whenever it answers.
HealthyParkingIsPaidFor ==
    \A x \in failed_at : Answer[x] = "ok" =>
        Spent("noAnswer") + Spent("dbError") + Spent("sessionLost")
            + Cardinality(Relays) * Spent("restart") >= OUTBOX_MAX_ATTEMPTS

\* Head of line: rows SNS rejects, for good or each time, never keep a row it
\* accepts from being published.
HealthyRowsDrain ==
    \A x \in Rows : Answer[x] = "ok" => (x \in outbox ~> x \in published)

\* A signalled relay stops once its batch is done.
SignalledRelayStops == \A r \in Relays : shutdown[r] ~> pc[r] = "down"

-----------------------------------------------------------------------------
(* The contract the relay implements. *)

Handoff == INSTANCE AtLeastOnce
    WITH Messages <- Rows, handed <- outbox, delivered <- sent,
         settled <- published, abandoned <- failed_at

\* Every step of the relays is a step of the contract, or changes nothing of it.
HandoffSafe == Handoff!Spec

\* And every row is settled or given up.
HandoffResolves == Handoff!Fairness

=============================================================================
