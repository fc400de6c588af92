----------------------------- MODULE SqsConsumer -----------------------------
(***************************************************************************)
(* One SQS queue with its dead letter queue, and the loop every consumer   *)
(* runs on it: receive, handle, delete (src/shared/consumer.py).  What it  *)
(* means to handle a message is left to the modules that extend this one;  *)
(* they own the steps taken while pc is "handle".                          *)
(*                                                                         *)
(* A message here is one copy SNS put on the queue: two of them may tell   *)
(* of the same order.  The queue is external; each fault costs one unit of *)
(* its Budget, and a behaviour has at most MaxFaults of them.              *)
(***************************************************************************)
EXTENDS Naturals, FiniteSets

CONSTANTS
    Messages, Orders, Consumers,
    NoMessage,
    Order,                      \* the order a message tells of
    Body,                       \* what its body looks like
    SQS_MAX_MESSAGES,           \* per receive
    SQS_MAX_RECEIVE_COUNT,      \* receives before the dead letter queue
    Budget, MaxFaults

Bodies == {"order", "incomplete", "unparsable"}
FaultKinds == {"crash", "sigterm", "slow", "noAnswer", "restart",
               "dbError", "redisError", "sendFails", "sendUnacked", "forgotten"}

ASSUME MessagesAssumption == IsFiniteSet(Messages) /\ NoMessage \notin Messages
ASSUME ConsumersAssumption == IsFiniteSet(Consumers)
ASSUME OrderAssumption == Order \in [Messages -> Orders] /\ Body \in [Messages -> Bodies]
ASSUME CountsAssumption == SQS_MAX_MESSAGES \in Nat \ {0} /\ SQS_MAX_RECEIVE_COUNT \in Nat \ {0}
ASSUME FaultsAssumption == Budget \in [FaultKinds -> Nat] /\ MaxFaults \in Nat

VARIABLES
    exists,         \* the queue does
    state,          \* where each message is
    receives,       \* ApproximateReceiveCount
    pc, url,        \* each consumer: where it is, its queue URL if it has one,
    hand, msg,      \* what is left of its batch, the message it works on,
    newest,         \* those in hand whose newest receipt handle it has,
    shutdown,       \* and its shutdown event
    spent           \* faults so far

queue == <<exists, state, receives>>
process == <<pc, url, hand, msg, newest, shutdown>>
loopVars == <<queue, process, spent>>

LoopInit ==
    /\ exists = TRUE
    /\ state = [m \in Messages |-> "unsent"]
    /\ receives = [m \in Messages |-> 0]
    /\ pc = [c \in Consumers |-> "down"]
    /\ url = [c \in Consumers |-> "none"]
    /\ hand = [c \in Consumers |-> {}]
    /\ msg = [c \in Consumers |-> NoMessage]
    /\ newest = [c \in Consumers |-> {}]
    /\ shutdown = [c \in Consumers |-> FALSE]
    /\ spent = [k \in FaultKinds |-> 0]

\* How many faults of these kinds there were.
Faults(kinds) == Cardinality({f \in kinds \X (1 .. MaxFaults) : f[2] <= spent[f[1]]})

Spend(kind) ==
    /\ spent[kind] < Budget[kind] /\ Faults(FaultKinds) < MaxFaults
    /\ spent' = [spent EXCEPT ![kind] = @ + 1]

OnQueue(m) == state[m] \in {"visible", "inFlight"}

-----------------------------------------------------------------------------
(* The queue. *)

\* SNS delivers a copy.
Deliver(m) ==
    /\ exists /\ state[m] = "unsent"
    /\ state' = [state EXCEPT ![m] = "visible"]
    /\ UNCHANGED <<exists, receives, process, spent>>

\* Mutant: one receive more than maxReceiveCount.
Receivable_OneMore == {m \in Messages : state[m] = "visible"
                                        /\ receives[m] <= SQS_MAX_RECEIVE_COUNT}

\* maxReceiveCount counts deliveries, not failures.
Receivable == {m \in Messages : state[m] = "visible"
                                /\ receives[m] < SQS_MAX_RECEIVE_COUNT}

\* The messages of S are handed out, and their earlier receipts are stale.
HandOut(S) ==
    /\ state' = [m \in Messages |-> IF m \in S THEN "inFlight" ELSE state[m]]
    /\ receives' = [m \in Messages |-> IF m \in S THEN receives[m] + 1 ELSE receives[m]]

\* The visibility timeout of a message nobody works on any more.
VisibilityExpires(m) ==
    /\ state[m] = "inFlight" /\ \A c \in Consumers : m \notin newest[c]
    /\ state' = [state EXCEPT ![m] = "visible"]
    /\ UNCHANGED <<exists, receives, process, spent>>

\* It expires although a consumer still has the message.
TooSlow(m) ==
    /\ state[m] = "inFlight" /\ \E c \in Consumers : m \in newest[c]
    /\ Spend("slow")
    /\ state' = [state EXCEPT ![m] = "visible"]
    /\ UNCHANGED <<exists, receives, process>>

\* A message that was received often enough is set aside.
MoveToDlq(m) ==
    /\ state[m] = "visible" /\ m \notin Receivable
    /\ state' = [state EXCEPT ![m] = "dlq"]
    /\ UNCHANGED <<exists, receives, process, spent>>

\* LocalStack forgets the queues and what is on them: their URLs are stale.
LocalStackRestart ==
    /\ exists
    /\ Spend("restart")
    /\ exists' = FALSE
    /\ state' = [m \in Messages |-> IF state[m] \in {"unsent", "deleted"}
                                    THEN state[m] ELSE "gone"]
    /\ url' = [c \in Consumers |-> IF url[c] = "none" THEN "none" ELSE "stale"]
    /\ UNCHANGED <<receives, pc, hand, msg, newest, shutdown>>

\* The bootstrap creates the queue again, empty and subscribed, under the URL
\* it had or under another one.
Bootstrap ==
    /\ ~exists
    /\ exists' = TRUE
    /\ \/ UNCHANGED url
       \/ url' = [c \in Consumers |-> IF url[c] = "none" THEN "none" ELSE "current"]
    /\ UNCHANGED <<state, receives, pc, hand, msg, newest, shutdown, spent>>

QueueStep == \/ \E m \in Messages : Deliver(m) \/ VisibilityExpires(m) \/ TooSlow(m) \/ MoveToDlq(m)
             \/ LocalStackRestart
             \/ Bootstrap

-----------------------------------------------------------------------------
(* run(): the loop. *)

Start(c) ==
    /\ pc[c] = "down"
    /\ pc' = [pc EXCEPT ![c] = "poll"]
    /\ UNCHANGED <<queue, url, hand, msg, newest, shutdown, spent>>

\* queue_url() never creates the queue; until it exists this fails and waits.
ResolveQueue(c) ==
    /\ pc[c] = "poll" /\ ~shutdown[c] /\ url[c] = "none" /\ exists
    /\ url' = [url EXCEPT ![c] = "current"]
    /\ UNCHANGED <<queue, pc, hand, msg, newest, shutdown, spent>>

\* A long poll; an empty one changes nothing.
Receive(c) ==
    /\ pc[c] = "poll" /\ ~shutdown[c] /\ url[c] = "current"
    /\ \E S \in SUBSET Receivable :
         /\ Cardinality(S) <= SQS_MAX_MESSAGES
         /\ HandOut(S)
         /\ hand' = [hand EXCEPT ![c] = S]
         /\ newest' = [d \in Consumers |-> IF d = c THEN S ELSE newest[d] \ S]
         /\ pc' = [pc EXCEPT ![c] = IF S = {} THEN "poll" ELSE "batch"]
    /\ UNCHANGED <<exists, url, msg, shutdown, spent>>

\* The response is lost: the messages are in flight, and nobody has them.
ReceiveLost(c) ==
    /\ pc[c] = "poll" /\ ~shutdown[c] /\ url[c] = "current"
    /\ Spend("noAnswer")
    /\ \E S \in SUBSET Receivable :
         /\ S # {} /\ Cardinality(S) <= SQS_MAX_MESSAGES
         /\ HandOut(S)
         /\ newest' = [d \in Consumers |-> newest[d] \ S]
    /\ UNCHANGED <<exists, pc, url, hand, msg, shutdown>>

\* Mutant: the receive is tried again with the URL it has.
ReceiveNoQueue_KeepsUrl(c) ==
    /\ pc[c] = "poll" /\ ~shutdown[c] /\ url[c] = "stale"
    /\ UNCHANGED loopVars

\* NonExistentQueue: the cached URL is dropped.
ReceiveNoQueue(c) ==
    /\ pc[c] = "poll" /\ ~shutdown[c] /\ url[c] = "stale"
    /\ url' = [url EXCEPT ![c] = "none"]
    /\ UNCHANGED <<queue, pc, hand, msg, newest, shutdown, spent>>

\* On to the rest of the batch, or to the next receive.
Continue(c, rest) ==
    /\ hand' = [hand EXCEPT ![c] = rest]
    /\ newest' = [newest EXCEPT ![c] = @ \cap rest]
    /\ msg' = [msg EXCEPT ![c] = NoMessage]
    /\ pc' = [pc EXCEPT ![c] = IF rest = {} THEN "poll" ELSE "batch"]

\* The next message of the batch, in the order SQS gave them, which is any.
\* One that cannot be parsed is neither handled nor deleted.
Take(c) ==
    /\ pc[c] = "batch" /\ ~shutdown[c]
    /\ \E m \in hand[c] :
         \/ Body[m] = "unparsable" /\ Continue(c, hand[c] \ {m})
         \/ /\ Body[m] # "unparsable"
            /\ msg' = [msg EXCEPT ![c] = m]
            /\ pc' = [pc EXCEPT ![c] = "handle"]
            /\ UNCHANGED <<hand, newest>>
    /\ UNCHANGED <<queue, url, shutdown, spent>>

\* The handler returned: now, and only now, the message may be deleted.
HandlerReturns(c) ==
    /\ pc' = [pc EXCEPT ![c] = "delete"]
    /\ UNCHANGED <<url, hand, msg, newest>>

\* Mutants: one failure ends the batch; the message is deleted all the same.
HandlerRaises_EndsBatch(c) == Continue(c, {}) /\ UNCHANGED url

HandlerRaises_Deletes(c) == HandlerReturns(c)

\* The handler raised: the message stays on the queue, the batch goes on.
HandlerRaises(c) == Continue(c, hand[c] \ {msg[c]}) /\ UNCHANGED url

\* A stale receipt may or may not delete the message.
Deleted(c) ==
    {state} \cup IF OnQueue(msg[c]) THEN {[state EXCEPT ![msg[c]] = "deleted"]} ELSE {}

\* delete_message with the newest receipt, or with a stale one.
Delete(c) ==
    /\ pc[c] = "delete" /\ url[c] = "current"
    /\ state' \in Deleted(c)
    /\ msg[c] \in newest[c] /\ OnQueue(msg[c]) => state' # state
    /\ Continue(c, hand[c] \ {msg[c]})
    /\ UNCHANGED <<exists, receives, url, shutdown, spent>>

\* It raises, applied or not.
DeleteRaises(c) ==
    /\ pc[c] = "delete" /\ url[c] = "current"
    /\ Spend("noAnswer")
    /\ state' \in Deleted(c)
    /\ Continue(c, hand[c] \ {msg[c]})
    /\ UNCHANGED <<exists, receives, url, shutdown>>

\* It raises because the queue is gone; the cached URL is not dropped here.
DeleteNoQueue(c) ==
    /\ pc[c] = "delete" /\ url[c] = "stale"
    /\ Continue(c, hand[c] \ {msg[c]})
    /\ UNCHANGED <<queue, url, shutdown, spent>>

HandleSignal(c) ==
    /\ pc[c] # "down" /\ ~shutdown[c]
    /\ Spend("sigterm")
    /\ shutdown' = [shutdown EXCEPT ![c] = TRUE]
    /\ UNCHANGED <<queue, pc, url, hand, msg, newest>>

Exit(c) ==
    /\ pc' = [pc EXCEPT ![c] = "down"]
    /\ url' = [url EXCEPT ![c] = "none"]
    /\ hand' = [hand EXCEPT ![c] = {}]
    /\ msg' = [msg EXCEPT ![c] = NoMessage]
    /\ newest' = [newest EXCEPT ![c] = {}]
    /\ shutdown' = [shutdown EXCEPT ![c] = FALSE]

\* Mutant: the batch loop does not break.
Stop_BetweenReceives(c) ==
    /\ pc[c] = "poll" /\ shutdown[c]
    /\ Exit(c)
    /\ UNCHANGED <<queue, spent>>

\* The event is read before a receive and before each message of a batch.
Stop(c) ==
    /\ pc[c] \in {"poll", "batch"} /\ shutdown[c]
    /\ Exit(c)
    /\ UNCHANGED <<queue, spent>>

Crash(c) ==
    /\ pc[c] # "down"
    /\ Spend("crash")
    /\ Exit(c)
    /\ UNCHANGED queue

\* What a consumer does outside its handler, when nothing fails around it.
LoopStep(c) ==
    \/ Start(c) \/ ResolveQueue(c) \/ Receive(c) \/ ReceiveNoQueue(c)
    \/ Take(c) \/ Delete(c) \/ DeleteNoQueue(c) \/ Stop(c)

LoopFault(c) == ReceiveLost(c) \/ DeleteRaises(c) \/ HandleSignal(c)

-----------------------------------------------------------------------------
(* Properties of the loop, whatever the handler does. *)

\* Every variable has its type.
LoopTypeOK ==
    /\ exists \in BOOLEAN
    /\ state \in [Messages -> {"unsent", "visible", "inFlight", "deleted", "dlq", "gone"}]
    /\ receives \in [Messages -> 0 .. SQS_MAX_RECEIVE_COUNT]
    /\ pc \in [Consumers -> {"down", "poll", "batch", "handle", "delete"}]
    /\ url \in [Consumers -> {"none", "current", "stale"}]
    /\ hand \in [Consumers -> SUBSET Messages]
    /\ msg \in [Consumers -> Messages \cup {NoMessage}]
    /\ newest \in [Consumers -> SUBSET Messages]
    /\ shutdown \in [Consumers -> BOOLEAN]
    /\ spent \in [FaultKinds -> Nat]

Settled(m) == state[m] \in {"deleted", "dlq", "gone"}

\* A message on the queue does not stay there: it is deleted, or it runs out
\* of receives and is set aside, never redelivered for ever; nor does it wait
\* for consumers that keep a queue URL from before a restart.
EveryMessageSettles == \A m \in Messages : OnQueue(m) ~> Settled(m)

\* "Finishing the current message, then stopping."
SignalledConsumerStops == \A c \in Consumers : shutdown[c] ~> pc[c] = "down"

\* A receive of a sound message comes to nothing only by a fault of its own:
\* short of SQS_MAX_RECEIVE_COUNT faults none ends in the dead letter queue,
\* whatever else was in the batches and whoever else received it.
DlqIsPaidFor ==
    \A m \in Messages :
        state[m] = "dlq" /\ Body[m] = "order"
            => Faults(FaultKinds \ {"restart", "forgotten"}) >= SQS_MAX_RECEIVE_COUNT

=============================================================================
