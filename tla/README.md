# OutboxFanout, specified

TLA+ specifications of the transactional outbox in this repository: an Order
Service that writes an order and its event in one Postgres transaction, a relay
that publishes the events to SNS, SNS that fans them out to three SQS queues,
and three consumers that must absorb duplicates. TLC checks small instances;
TLAPS proves the safety properties for every value of the constants.

## 1. Inventory

| Component | State it keeps | Operations | What makes it correct |
|---|---|---|---|
| Order Service (`order/`) | `orders`, `outbox` | `POST /orders`: stage both rows, flush, commit; answers 201, 422 or 503 | an order exists exactly when its event does; an answer is true |
| Relay (`relay/service.py`, `main.py`) | `published`, `attempts`, `failed_at` of each row; a polled batch, a row lock, the exception in hand, the shutdown event | poll, claim, publish, mark, record a failure, park, stop | no event lost; each duplicate has a cause; poison rows block nobody; retries end |
| SNS publisher (`relay/publisher.py`, `shared/aws.py`) | cached topic ARN | resolve, publish, forget on NotFound | what is published is received |
| Transactions (`shared/db.py`) | a session and its locks | commit on exit, roll back on an exception | all or nothing, also when the commit raises |
| Consumer loop (`shared/consumer.py`, `messages.py`) | cached queue URL, batch in hand, shutdown event | receive, unwrap, handle, delete | a message is deleted only once handled |
| Billing, Shipping (`billing/`, `shipping/`) | one row per order | insert, or nothing on a conflict | exactly one effect per order |
| Notifications (`notifications/`) | a Redis key per order, 48 h | claim (`SET NX EX`), send, release | one notification per order, lost or repeated only for a fault of known kinds |
| Bootstrap (`bootstrap/main.py`) | topic, queues, DLQs, policies, subscriptions | create, configure, subscribe, verify | exit 0 only if every queue is subscribed and has its DLQ |
| Deployment (`docker-compose.yml`) | which containers run | start order, stop grace, no restart policy | the relay never runs before the queues are subscribed |
| Configuration, logging (`shared/config.py`, `log.py`) | none the properties need | | |

How they interact: the Order Service and the relay share the `outbox` table (no
call between them); relays exclude each other with row locks; the relay calls
SNS inside the row's transaction; SNS copies each message to the subscribed
queues; a consumer receives a copy, commits its effect and deletes the copy.
Every boundary is crossed at least once, never exactly once.

What is hard: crashes between two systems that no transaction spans, answers
lost after the effect took place, several relays over stale batches, LocalStack
forgetting everything, timers (visibility, TTL, retention) against slow work.
`PROJECT.json` lists each hazard with its line.

## 2. Modules

| Module | What it models | Proofs |
|---|---|---|
| `OutboxRelay` | any number of relays over the outbox, SNS and its failures | `OutboxRelayProofs`, `OutboxRelayCostProofs` |
| `AtLeastOnce` | the contract of an outbox; `OutboxRelay` implements it | |
| `SqsConsumer` | an SQS queue (visibility, receipts, receive count, DLQ) and the loop of `shared/consumer.run`; the handler is left open | `SqsConsumerProofs` |
| `PostgresConsumer` | extends it with the handler of Billing and Shipping | `PostgresConsumerProofs` |
| `NotifyConsumer` | extends it with the handler of Notifications | `NotifyConsumerProofs` |
| `EffectOnce` | the contract of a consumer behind a dead letter queue; `PostgresConsumer` implements it, and so does `Pipeline` as a whole | |
| `BootstrapJob` | the provisioning jobs, call by call, with their verification | `BootstrapJobProofs` |
| `FanOut` | the contract of a bootstrap; `BootstrapJob` implements it | |
| `OrderService` | POST /orders, its transaction, its status codes, and clients that try again | `PipelineProofs` |
| `Pipeline` | extends `OrderService` with the three contracts: the system end to end | `PipelineProofs` |

The detailed modules are checked and proved one by one, each against a contract
of a few lines; `Pipeline` composes the contracts. The detailed modules composed
would be beyond TLC.

## 3. The relay: `OutboxRelay`

State. `outbox`, `published`, `failed_at` (sets of rows) and `attempts` are the
committed columns of the table; `lock` the `FOR UPDATE` locks; `topic`, `sent`,
`reached` SNS: whether the topic exists (`absent`), exists without
subscriptions (`bare`) or with them (`wired`), the copies accepted of each row,
and the rows some queue was handed. Each relay has `pc` (where it is between two
steps that others can see), `batch` (polled ids not reached yet), `row`, `exc`,
`copies` (of the call in flight), `arn` (is one cached) and `shutdown`. `left`
is what remains of the fault budget.

| Code | Action |
|---|---|
| `order/service.create_order`, committed | `InsertRow` |
| `main()` before the loop | `Start` |
| `pending_event_ids`, in its own transaction | `Poll` |
| `SELECT ... FOR UPDATE SKIP LOCKED` of `relay_one` | `Claim`, `ClaimRaises` |
| `publisher.publish`: `topic_arn()`, then the call | `ResolveTopic`, `SnsAccept`, `PublishReturns`, `PublishRejected`, `PublishNotFound`, `PublishNoAnswer` |
| `session_scope`'s commit | `Commit`, `CommitRaises`, `CommitOnLostSession` |
| the `except` of `relay_batch` with `record_failure` | `RecordFailure`, `RecordRaises` |
| `_handle_signal`, the `while` condition | `HandleSignal`, `Stop` |
| `_crash_now`, SIGKILL, power cut | `Crash` |
| external: Postgres, LocalStack, the bootstrap job, an operator | `SessionLost`, `LocalStackRestart`, `Bootstrap`, `ClearFailedAt` |

A row is named by the rank of its `created_at`. Rows may be inserted in any
order because the stamp is taken before the commit. `Answer` fixes what SNS
says to each payload: accepted, a code of `_PERMANENT_SNS_ERRORS`, or another
code. An exception that carries no code (a timeout, a database error) is
transient, as in `is_permanent`. `pc = "publish"` lasts from the claim to the
response; everything that can happen in it may happen with or without the lock,
for Postgres may drop the session.

Abstractions. The payload, `last_error`, log lines and the poll interval are left
out. A poll that finds nothing, or whose read fails, changes nothing. Postgres
frees the locks of a crashed relay at once. Any of the eight listed SNS error
codes is "InvalidParameter", any other "InternalError". What SNS answers to a payload
never changes, so a listed code that comes and goes (an IAM or a KMS permission
taken away and given back) is outside the model: it parks rows at once, which
`HealthyParkingIsPaidFor` does not price.

### Properties

* `TypeOK`.
* `PublishedWasSent`: a row says published only if SNS has taken a copy.
* `EveryCopyAccounted`: copies taken, minus rows published, minus calls in
  flight, is at most the number of lapses: crashes, unanswered calls, lost
  acknowledgements, database errors and lost sessions.
* `EveryDuplicatePaidFor`: copies beyond the first of each row are at most the
  lapses. This is the README's "blast radius of exactly one duplicate", summed
  over all rows and relays, as a subscriber sees it.
* `OnePublisherPerRow`: at most one relay works on a row, and at most one more for
  each database session that was lost, whichever row that was.
* `AttemptsBounded`: `attempts` stays below `OUTBOX_MAX_ATTEMPTS` plus the number
  of relays, however often a human clears `failed_at`. The bound is tight: each
  relay may have the row in a batch it polled before.
* `LimboIsPaidFor`: a row that is neither published, nor parked, nor polled any
  more (`Limbo`) took an operator who cleared `failed_at`, once for each such row.
  `record_failure` counts and parks in one transaction, and relays with stale
  batches only ever park again.
* `VoidNeedsARestart`: a row no queue received is marked published only after a
  restart of LocalStack (the gate on the bootstrap does its work).
* `HealthyParkingIsPaidFor`: a row SNS would accept is parked only after
  `OUTBOX_MAX_ATTEMPTS` unanswered calls, database errors, lost sessions or, once
  per relay each, restarts of LocalStack. A row SNS would accept is one whose
  `Answer` is "ok", for good. The rows around it and the other relays never use up
  its attempts.
* `HandoffSafe`, `HandoffResolves`: the relay implements `AtLeastOnce`, its
  safety and its fairness: every row is settled or given up.
* `HealthyRowsDrain`: rows that SNS rejects, at the head of the line, never keep
  an accepted row from being published.
* `SignalledRelayStops`: a signal leads to a stop.

### Runs

| Run | Instance | Result |
|---|---|---|
| `relay_two` | 2 relays, 2 rows, one poisoned; batch 2, 2 attempts, 2 transmissions; each fault once, three of them in one behaviour | all safety properties hold |
| `relay_drain` | 2 relays, 3 rows, two poisoned before the healthy one; batch 1, 2 attempts; a crash, a signal, an unanswered call | all liveness properties hold |
| `relay_parked_by_other` | 2 relays, 2 unanswered calls | `ParkedNeverPublished` fails |
| `relay_cleared` | 1 relay, 2 unanswered calls, 1 clearing | `StillBeingRetried` fails |
| `relay_void` | 1 relay, 1 restart of LocalStack | `RecreatedTopicSuffices` fails |

Bounds. Two relays and two rows are enough for every race the code has: a lock
held by the other, a batch gone stale, a row parked or published since. A batch
of 2 lets a relay go on to a second row; a batch of 1 puts the poison rows
between the poll and the healthy row. Two attempts distinguish a row that is
retried from one that is exhausted. Three faults per behaviour suffice for the
chains a single row meets (an ambiguous commit, then a failed bookkeeping, then
a crash). The relays are symmetric in `relay_two`; the liveness run uses no
symmetry.

Fairness (`FairSpec`). A running relay takes its steps: its loop never blocks
for ever, since every call has a timeout. A relay that is down is started
again: there is no restart policy, so the liveness properties hold on condition
that somebody runs `docker compose up`. Nothing is assumed of the environment;
its budgets are finite. In `relay_drain` fewer publishes fail than
`OUTBOX_MAX_ATTEMPTS`, and nobody clears a row: `HealthyParkingIsPaidFor`
bounds, and `relay_cleared` shows, what happens otherwise.

### Where the documents and the code disagree

1. *Parked rows are never marked published* (README.md:336): with one relay,
   proved; with two, `relay_one` looks at `published` alone under the lock, and
   publishes a row another relay parked since the poll.
2. *Clear failed_at to retry* (the log line of `record_failure`): the poll also
   requires `attempts < OUTBOX_MAX_ATTEMPTS`. A row that ran out of attempts is
   not revived; one parked by a permanent error is, unless it has used them.
   Nothing else strands a row (`LimboIsPaidFor`).
3. *No action needed* after a LocalStack restart (VERIFY-PHASE-2): the topic is
   recreated without subscriptions; rows are marked published and reach nobody
   until the bootstrap runs again.

Two more sentences hold under a condition they do not state. An outage's backlog
"drains on the next poll" (VERIFY-PHASE-2) if the outage is shorter than
`OUTBOX_MAX_ATTEMPTS` polls of the oldest row; `HealthyParkingIsPaidFor` is the exact
statement. And "after the row it is currently working on" (`_handle_signal`)
means after the batch: the event is read between two batches only.

## 4. The consumers: `SqsConsumer`, `PostgresConsumer`, `NotifyConsumer`

`SqsConsumer` models one queue with its dead letter queue and the loop on it. A
message is one copy on the queue (the relay and SNS may put several there for
one order). `state` says where it is: `unsent`, `visible`, `inFlight`, `deleted`,
`dlq`, or `gone` with a LocalStack that restarted; `receives` is
`ApproximateReceiveCount`; `exists` whether there is a queue. Each consumer has
`pc`, `url` (its cached queue URL: `none`, `current` or `stale`), `hand` (what is left of its batch), `msg` (the
message it works on), `newest` (those in its hand whose newest receipt handle
it has; a later receive by another makes a handle stale) and `shutdown`. `spent`
counts the faults. While `pc` is `handle` the handler moves, and the modules that
extend this one say how; it ends in `HandlerReturns` or `HandlerRaises`.

| Code | Action |
|---|---|
| `main()` up to `run()` | `Start` |
| `aws.queue_url`, `_receive` and their `except` clauses | `ResolveQueue`, `Receive`, `ReceiveLost`, `ReceiveNoQueue` |
| the `for` loop, `unwrap` | `Take` |
| `delete_message`, or its exception | `Delete`, `DeleteRaises`, `DeleteNoQueue` |
| `_stop`, the two places that read the event | `HandleSignal`, `Stop` |
| external: SNS, SQS timers and redrive, LocalStack, the bootstrap job | `Deliver`, `VisibilityExpires`, `TooSlow`, `MoveToDlq`, `LocalStackRestart`, `Bootstrap` |
| Billing, Shipping: `session_scope` around the insert | `Insert`, `PayloadRaises`, `InsertRaises`, `Commit`, `CommitRaises`, `CrashInHandler` |
| Notifications: `SET NX EX` and `GET` | `Claim`, `Duplicate`, `ClaimRaises` |
| `_send_notification` and the `except` clause | `SendNotification`, `PayloadRaises`, `SendRaises`, `Release`, `ReleaseRaises` |
| `CRASH_AFTER_MARK`, SIGKILL; the TTL, or Redis losing its last second | `CrashInHandler`; `ClaimForgotten` |

`PostgresConsumer` adds `records` (committed rows per order) and `txn` (what the
open transaction's INSERT did). An INSERT waits while another transaction has an
uncommitted row of the same order, as Postgres does for a unique key.
`NotifyConsumer` adds `claimed` (keys in Redis), `notified` (sends per order) and
`stage` (a consumer between its claim and its send, or its send and its release).

Abstractions. A body is sound (`order`), lacks what the handler needs
(`incomplete`), or cannot be parsed; a body without an order id makes
Notifications raise before the claim, which comes to the same as the last. The order of a batch is any. A stale
receipt may or may not delete. An empty poll changes nothing, nor does a failed
`queue_url`. The value of a Redis key is only logged. Retention (4 days) is not
modelled; the expiry of a claim may come at any time, for it may come before
that of its message. A restart of LocalStack makes every cached queue URL stale;
the queue the bootstrap creates again has either the same URL, and the cached ones
work again, or another. The probe of Redis at the start changes nothing.

### Properties

* `TypeOK`, with `receives` within `SQS_MAX_RECEIVE_COUNT`.
* `OneRecordPerOrder`, `DeletedWasRecorded`: exactly one effect per order, and
  nothing deleted before it.
* `EffectOnceSafe`: Billing and Shipping implement `EffectOnce`, the contract
  `Pipeline` relies on.
* `DlqIsPaidFor`, for both handlers: the receive count counts deliveries, not
  failures. Yet each receive of a sound message that comes to nothing costs a
  fault of its own (a crash, a stop with the message in hand, a lost answer,
  slowness, an error of Postgres, Redis or the send), never the failure of another
  message in the batch, nor, at Notifications, a claim that another delivery
  holds. So below `SQS_MAX_RECEIVE_COUNT` faults no sound message is set aside. A
  restart of LocalStack and a forgotten claim pay for none.
* `EveryNotificationAccounted`: one notification per order, plus at most one for
  each claim forgotten and each send that worked and raised, although a claim is
  released by key, whoever holds it.
* `LossIsExplained`: a notification is lost only by a crash, by Redis failing,
  or by a failing send that outlasts the visibility timeout.
* `EveryMessageSettles`: a message is not redelivered for ever, nor left waiting by
  consumers that go on polling a URL a restart made stale.
* `SignalledConsumerStops`.

### Runs

| Run | Instance | Result |
|---|---|---|
| `postgres` | 2 consumers; 2 copies of one event and a malformed message; batch 2, 2 receives; each fault once, two in one behaviour | all properties hold |
| `notify` | the same for notifications, with the faults of the handler | all properties hold |
| `notify_settles` | 2 consumers, a sound and an unparsable message, any two faults, fairness | both properties hold |
| `notify_lost` | 1 consumer, 1 message, 1 Redis error | `LostOnlyByHardKill` fails |

Bounds. Two copies let two consumers meet on an order without any fault, and one
message does with a slow one. With two receives, two faults are what it takes to
set a sound message aside, so `DlqIsPaidFor` is met at its limit.
Two faults also reach the pairs the handler has: a forgotten claim and a failed
send, a slow delivery and a failed send. `notify` leaves out signals, lost
answers of SQS and restarts, which `postgres` and `notify_settles` exercise.
`MaxFaults` is a guard of each fault, not a constraint of the run, hence sound
for liveness. The consumers are symmetric in the safety runs.

Fairness (`FairSpec`): a running consumer takes its steps, its calls all having
timeouts; one that is down is started again, by hand; SQS keeps its visibility
timer and its redrive policy. No fault is ever required to happen.

Divergence. 4. *Only a hard kill can actually drop one*
(notifications/service.py:28): the claim is released when the send raises, but
not when the SET itself does, and Redis may have applied it. The redelivery is
then a duplicate, and is deleted.

## 5. The bootstrap: `BootstrapJob`, `FanOut`

State. `topic`, `queues`, `dlqs`, `redrive`, `allowed`, `subscribed` and `filtered`
are what LocalStack keeps: which of the resources of each queue exist. A job has
`pc` (the call it makes next), `queue` (the one it works on), `todo` (those that
follow), `arn` (whether LocalStack knows the subscription ARN it was given last),
`seen` (the queues `list_subscriptions_by_topic` returned) and `exit`. `fresh`,
`verified` and `blind` are history, read by the properties only: has LocalStack
restarted since the job started, since it verified, and which queues were
subscribed by a job it restarted under.

| Code | Action |
|---|---|
| `main()`, `aws.topic_arn` | `Start`, `CreateTopic` |
| `ensure_queue`, for the DLQ and for the queue | `CreateDlq`, `ConfigureDlq`, `CreateQueue`, `ConfigureQueue`, and `ReadArn` after each |
| `ensure_subscription` | `Allow`, `Subscribe`, `Filter` |
| the verification | `List`, `Compare`, `CheckRedrive`, `Succeed` |
| a call whose resource is not there | `CallRaises` |
| external: an unanswered call or a kill, LocalStack, a relay | `Abort`, `LocalStackRestart`, `RelayCreatesTopic` |

Jobs may overlap: Compose runs one, and a human may run another. A queue that
exists before the run is configured again, as the code does, rather than
created with its attributes. The order of the queues is any. Topic and queue ARNs
are made of names, so they outlive a restart; a subscription ARN does not, hence
`Filter` fails after one even if another job has subscribed the queue again. Each
call of the wiring is a step; the look-ups of one check (`Compare`, `CheckRedrive`)
are one step together.

Properties. `ExitZeroIsTrue`: exit 0 releases the relay and the consumers, and
means that every queue is there, subscribed, with its DLQ, whatever other jobs
did meanwhile; a restart between the verification and the exit is the only
exception. `FailsForAReason`: exit 1 (which keeps the relay and the consumers
down) needs a failed call or a restart during the job; another job beside it is
never the reason, because a job creates what it finds missing and configures
what it finds. `NoSilentDrop`: no queue is subscribed before SNS may write to it.
`RerunRepairs`: from whatever a job or a restart left behind, running the job
again completes it. `FanOutSafe`: the bootstrap implements `FanOut`; a queue that
receives goes on receiving until LocalStack restarts.

Run `bootstrap`: two jobs, two queues, one restart and one failed call. Two jobs
are one beside another, and one after another; with two queues, one is dealt
with while the other is half way. All properties hold. The third queue is
treated as the second. Fairness: somebody runs the job again until it succeeds,
which is what VERIFY-PHASE-3 tells the operator to do; restarts and failures are
finite. Deadlock cannot occur, for a job that is down can be started.

## 6. The system end to end: `OrderService`, `Pipeline`

`OrderService`. `orders` and `outbox` are the committed rows, by order id. A
request is named by the id it mints; `pc` is where the service is with it, `answer`
its status, `gone` the requests whose client will not hear it.

| Code | Action |
|---|---|
| a client, its retry, its timeout | `Post`, `StopWaiting` |
| `OrderCreate` refuses the body | `RejectBody` |
| `create_order`: the two INSERTs of the flush | `InsertOrder`, `InsertEvent` |
| `IntegrityError`, `BREAK_OUTBOX_INSERT` | `EventRejected` |
| `session.commit()`, and the 201 after it | `Commit`, `Created` |
| another `SQLAlchemyError`, before or after Postgres applied the commit | `DatabaseRaises`, `CommitUnacknowledged` |
| the process dies | `Crash` |

An API that only reads (`GET /orders/{order_id}`, `/outbox`, `/health`) has no action. A client
that was answered 201 or 422 sends nothing more for the same purchase.

`Pipeline` adds the contracts and what ties them together: `relayUp` (Compose
starts the relay when the bootstrap has exited 0), a publish that reaches the
queues that receive at that moment, and a restart of LocalStack that takes the
topic and the queues away at once. A second copy, a parked row and a message set
aside cost a fault each; that they do in the detailed modules is what
`EveryDuplicatePaidFor`, `HealthyParkingIsPaidFor` and `DlqIsPaidFor` show.
The queues are those of Billing and Shipping: Notifications may lose a message
(`LossIsExplained`), so it does not implement `EffectOnce`.

### Properties

* `OrderHasItsEvent`: the outbox pattern itself, at every moment.
* `AnswerTrue`: 201 means stored, 422 not stored.
* `DuplicatesArePaidFor`: orders of one purchase beyond the first need a client
  that stopped waiting, a crash, or a commit applied and not acknowledged.
* `FanOutComplete`: a settled event reached every queue, or LocalStack restarted.
* `OnlyStoredOrdersTakeEffect`: nothing is billed for a request that was refused.
* `EndToEndSafe`: seen from the `orders` table, the outbox, the relay, the fan-out
  and the consumers are together one effect-once queue: `EffectOnce` with every
  committed order as arrived at every queue. A consumer takes effect once, of
  committed orders only, before it acknowledges; what is lost or set aside never
  comes back.
* `OrderTakesEffect`: a committed order takes effect at every consumer without
  anybody doing anything more, but for a parked row, a message set aside, or a
  restart of LocalStack.

### Runs

| Run | Instance | Result |
|---|---|---|
| `pipeline` | two requests for one purchase (the second is a retry), two queues, each fault once, two in one behaviour | all properties hold |
| `order_saved` | one request, one unacknowledged commit | `NothingWasSaved` fails |

Bounds. Two requests are what a duplicate order takes. Two queues let an event
reach one and not the other. Two faults reach the pairs that matter: a lost
answer and a retry that fails too, a restart between a publish and a park.

Fairness (`FairSpec`): the bootstrap runs until it succeeds (`RerunRepairs`), the
relay publishes and settles what is neither settled nor parked (`HandoffResolves`
of `OutboxRelay`), and each consumer takes the effect of, and acknowledges, what
its queue still has (`EveryMessageSettles` of `SqsConsumer`). None is assumed of
clients or of the Order Service: an order counts once it is committed.

Divergence. 5. *Database unavailable; nothing was saved* (order/routes.py:57):
the commit may raise after Postgres applied it. The order exists, its event is
delivered, and a client that believes the answer orders twice.

## 7. What is proved

Every safety property of the passing runs is a theorem, for every value of the
constants. The assumptions are those the modules state: the sets of rows,
relays, messages, consumers and requests are finite where something is counted, the
limits are positive, budgets are natural numbers.

`OutboxRelayProofs`. `PublishedWasSent` alone is not inductive: the step that marks
a row must know that its call was answered (`SentInv`), for the row it still
names (`OutboxInv`), and that a lock and the work on a row go together
(`LockInv`). `TopicInv` does the same for `VoidNeedsARestart`. `AttemptsInv` counts:
for each row, `attempts` plus the relays that have it in their batch or in hand
stays below the bound, for a poll adds a relay only while attempts remain, and a
failure uses one up. `ImplementsHandoff` maps each step to one of `AtLeastOnce` or
to a stutter. `ParkedStaysUnpublished` needs the hypothesis that there is one
relay; with two it is false (`relay_parked_by_other`). `PollTakesTheOldest`
is about the operator `PendingEventIds`: the places of the pollable rows in the
line are the numbers below their count, each once (`PlacesInLine`), so a poll
returns the first `RELAY_BATCH_SIZE` of them, or all.

`OutboxRelayCostProofs`. What the relay owes, counted.

* `CopyInv` balances the copies SNS took, plus the relays that lost their session
  before they sent one (`Doomed`: their lapse is already counted), against the
  rows published, the relays whose copy will be marked (`Working`) and the lapses.
  `CopiesAreAccounted` follows, and `DuplicatesCostLapses` too, because a published
  row was sent (`PublishedWasSent`) and the rows that working relays hold locked
  are unpublished rows, one each, that were sent.
* `LocklessInv`: the relays that work on a row without its lock (`Lockless`) are
  at most the sessions lost; a lock has one holder, hence `MutualExclusion`. A
  relay leaves the set when it ends its row, and only `SessionLost` adds one.
* `ExhaustedInv`: the rows out of attempts that are not parked (`Exhausted`) are at
  most the clearings, since `record_failure` parks in the
  transaction that reaches the limit. `Limbo` is among them.
* `PriceInv` does for the attempts of a row what `CopyInv` does for copies: those
  counted, those a relay is about to count (`Failing`) and those a stale topic ARN
  will cause (`Stale`) never exceed the faults that pay for them.

`SqsConsumerProofs` is about the loop alone, whatever the handler: how the faults
are counted, and `DlqInv`. Its `ReceiveInv`: a sound message was received as often
as faults were spent, plus once if a consumer that will go on has its newest
receipt (`Pending`). Each message of a batch has its own receives to pay for,
hence the fault is the message's own and not its neighbour's. `StaleInv` is what
a delete with a stale URL needs: its message went with the queue. The steps of a handler come in three
lemmas: it returns, it raises (and must show that its receive is paid for), or it
moves inside.

`PostgresConsumerProofs`. That a commit keeps `OneRecordPerOrder` needs `TxnInv`: an
uncommitted row is the only one of its order, because an INSERT sees committed
rows and waits for uncommitted ones. That a delete keeps `DeletedWasRecorded`
needs `DeleteInv`: the handler returned, so its transaction inserted the row or
saw it. `ImplementsEffectOnce` needs in addition that what a consumer has in hand
had arrived (`HandInv`). `DeadLettersArePaidFor` is `DlqInv` with this handler: it
raises only for a database error or a message that is not sound.

`NotifyConsumerProofs`. `RightsInv` counts rights to notify: one was used, is held
between a claim and its end, or is the free key; only a forgotten claim and a
send that worked and raised make one more. `LossInv`: an order not notified of has
a message that is not deleted, a consumer holding its claim, or one of the listed
causes. It needs that, while nobody was slow, what a consumer has in hand is
hidden from the others (`HandInv`), and what a key in Redis stands for
(`ClaimInv`, `FailInv`). `DeadLettersArePaidFor` needs one thing more than at Billing,
because here the exception leaves the handler some steps after the fault: between
a failed send and the release, the receive about to be wasted is already paid for,
as long as the consumer still has the newest receipt (`FailedPaidInv`).

`BootstrapJobProofs`. `FreshInv` and `VerifyInv` say, call by call, what a job may
rely on although another one runs beside it: resources only ever grow between
two restarts. `NoSilentDrop` and `TopicInv` (a subscription belongs to a topic)
carry `ImplementsFanOut`. For `FailuresHaveAReason` the same `FreshInv` shows that no
verification of a fresh job can find anything missing (`NothingMissing`): what it
created is still there, what it listed holds every queue.

`PipelineProofs`. `RequestInv` says what a request at each point has stored,
`ArrivalInv` that effects come from arrivals and arrivals from the outbox,
`FanOutInv` that a running relay publishes to all queues while LocalStack has not
restarted. `DuplicateInv` counts, for each purchase, the requests that may have
stored an order although the client goes on: each cost a fault, and at most one
further request is open. `ImplementsEffectOnce` needs that arrivals and effects
come from the outbox (`ArrivalInv`) and that the outbox and the orders are the same
set (`OrderHasItsEvent`). That every step of `Pipeline` is one of each contract it is
composed of, or a stutter, is how its actions are written, and no theorem.

Only model-checked: liveness, which is beyond the prover (`HealthyRowsDrain`,
`SignalledRelayStops`, `HandoffResolves`, `EveryMessageSettles`,
`SignalledConsumerStops`, `RerunRepairs`, `OrderTakesEffect`).

## 8. Not modelled

* Log formatting, correlation ids, `sns_metadata`: no state depends on them.
* Configuration parsing: the values are CONSTANTS.
* The endpoints that only read, health checks, the probe of Redis at the start.
* Message retention (4 days): a message nobody consumes for so long is lost; the
  loss needs every consumer to be down for longer than any behaviour here lasts.
* The start order of Postgres, Redis and LocalStack, Dockerfiles, migrations.
