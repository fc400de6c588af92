---------------------------- MODULE BootstrapJob ----------------------------
(***************************************************************************)
(* The bootstrap: jobs that create the topic, give each queue its dead     *)
(* letter queue, its attributes, its policy and its subscription, verify   *)
(* what they did, and exit 0 or 1 (src/bootstrap/main.py).                 *)
(*                                                                         *)
(* A step is one call to SNS or SQS, or all the look-ups of one check.     *)
(* LocalStack may restart between any two steps and forget everything; a   *)
(* relay that has no ARN may then create the topic again, without          *)
(* subscriptions.  A job may be run again at any time, also beside another *)
(* one.                                                                    *)
(***************************************************************************)
EXTENDS Naturals, Sequences

CONSTANTS
    Queues,             \* QUEUE_NAMES
    Jobs, NoQueue,
    MaxRestarts, MaxFailures

ASSUME JobsAssumption == NoQueue \notin Queues /\ MaxRestarts \in Nat /\ MaxFailures \in Nat

VARIABLES
    topic,                  \* it exists
    queues, dlqs,           \* queues that exist, queues whose DLQ does,
    redrive, allowed,       \* that have a redrive policy to it, SNS's permission,
    subscribed, filtered,   \* a subscription, and its filter policy
    blind,                  \* subscribed by a job LocalStack restarted under
    pc, todo, queue, arn,   \* each job: its next call, the queues before it, the
    seen, exit,             \*   one it works on, whether the subscription ARN it was
                            \*   given is known, the queues listed, its exit code;
    fresh, verified,        \*   no restart since it started, verified
    restarts, failures      \* faults so far

resources == <<topic, queues, dlqs, redrive, allowed, subscribed, filtered, blind>>
job == <<pc, todo, queue, arn, seen, exit, fresh, verified>>
vars == <<resources, job, restarts, failures>>

Init ==
    /\ topic = FALSE
    /\ queues = {} /\ dlqs = {} /\ redrive = {} /\ allowed = {}
    /\ subscribed = {} /\ filtered = {} /\ blind = {}
    /\ pc = [j \in Jobs |-> "down"]
    /\ todo = [j \in Jobs |-> {}]
    /\ queue = [j \in Jobs |-> NoQueue]
    /\ arn = [j \in Jobs |-> FALSE]
    /\ seen = [j \in Jobs |-> {}]
    /\ exit = [j \in Jobs |-> "none"]
    /\ fresh = [j \in Jobs |-> FALSE]
    /\ verified = [j \in Jobs |-> FALSE]
    /\ restarts = 0 /\ failures = 0

\* Mutant: the subscription comes before the permission.
Calls_SubscribeFirst ==
    <<"createDlq", "configureDlq", "dlqArn", "createQueue", "configureQueue", "queueArn",
      "subscribe", "allow", "filter">>

\* What ensure_queue, twice, and ensure_subscription ask for, in their order.
Calls ==
    <<"createDlq", "configureDlq", "dlqArn", "createQueue", "configureQueue", "queueArn",
      "allow", "subscribe", "filter">>

Goto(j, label) == pc' = [pc EXCEPT ![j] = label]

\* Mutant: a queue that was dealt with is dealt with again.
NextQueue_Keeps(j, first, rest, after) ==
    IF rest = {}
    THEN Goto(j, after) /\ UNCHANGED <<todo, queue>>
    ELSE \E q \in rest :
            /\ queue' = [queue EXCEPT ![j] = q]
            /\ todo' = [todo EXCEPT ![j] = rest]
            /\ Goto(j, first)

\* The for loop over the queues, in any order, or what comes after it.
NextQueue(j, first, rest, after) ==
    IF rest = {}
    THEN Goto(j, after) /\ UNCHANGED <<todo, queue>>
    ELSE \E q \in rest :
            /\ queue' = [queue EXCEPT ![j] = q]
            /\ todo' = [todo EXCEPT ![j] = rest \ {q}]
            /\ Goto(j, first)

\* The call after this one.
Done(j) ==
    LET i == CHOOSE n \in 1 .. Len(Calls) : Calls[n] = pc[j]
    IN  IF i < Len(Calls)
        THEN Goto(j, Calls[i + 1]) /\ UNCHANGED <<todo, queue>>
        ELSE NextQueue(j, Calls[1], todo[j], "list")

\* The process ends, with all it had in its variables.
Exit(j, code) ==
    /\ Goto(j, "down")
    /\ exit' = [exit EXCEPT ![j] = code]
    /\ todo' = [todo EXCEPT ![j] = {}]
    /\ queue' = [queue EXCEPT ![j] = NoQueue]
    /\ arn' = [arn EXCEPT ![j] = FALSE]
    /\ seen' = [seen EXCEPT ![j] = {}]

-----------------------------------------------------------------------------
(* main(): the topic, then ensure_queue and ensure_subscription. *)

Start(j) ==
    /\ pc[j] = "down"
    /\ Goto(j, "topic")
    /\ exit' = [exit EXCEPT ![j] = "none"]
    /\ fresh' = [fresh EXCEPT ![j] = TRUE]
    /\ verified' = [verified EXCEPT ![j] = FALSE]
    /\ UNCHANGED <<resources, todo, queue, arn, seen, restarts, failures>>

\* create_topic returns the topic if there is one.
CreateTopic(j) ==
    /\ pc[j] = "topic"
    /\ topic' = TRUE
    /\ NextQueue(j, Calls[1], Queues, "list")
    /\ UNCHANGED <<queues, dlqs, redrive, allowed, subscribed, filtered, blind,
                   arn, seen, exit, fresh, verified, restarts, failures>>

CreateDlq(j) ==
    /\ pc[j] = "createDlq"
    /\ dlqs' = dlqs \cup {queue[j]}
    /\ Done(j)
    /\ UNCHANGED <<topic, queues, redrive, allowed, subscribed, filtered, blind,
                   arn, seen, exit, fresh, verified, restarts, failures>>

ConfigureDlq(j) ==
    /\ pc[j] = "configureDlq" /\ queue[j] \in dlqs
    /\ Done(j)
    /\ UNCHANGED <<resources, arn, seen, exit, fresh, verified, restarts, failures>>

\* queue_arn asks for an attribute, of the DLQ or of the queue.
ReadArn(j) ==
    /\ \/ pc[j] = "dlqArn" /\ queue[j] \in dlqs
       \/ pc[j] = "queueArn" /\ queue[j] \in queues
    /\ Done(j)
    /\ UNCHANGED <<resources, arn, seen, exit, fresh, verified, restarts, failures>>

\* Mutants: created with its attributes, which SQS refuses if there is a queue
\* with others; dropped first, so that it has the new ones.
CreateQueue_WithAttributes(j) ==
    /\ pc[j] = "createQueue" /\ queue[j] \notin queues
    /\ queues' = queues \cup {queue[j]}
    /\ Done(j)
    /\ UNCHANGED <<topic, dlqs, redrive, allowed, subscribed, filtered, blind,
                   arn, seen, exit, fresh, verified, restarts, failures>>

CreateQueue_Afresh(j) ==
    /\ pc[j] = "createQueue"
    /\ queues' = queues \cup {queue[j]}
    /\ redrive' = redrive \ {queue[j]} /\ allowed' = allowed \ {queue[j]}
    /\ Done(j)
    /\ UNCHANGED <<topic, dlqs, subscribed, filtered, blind,
                   arn, seen, exit, fresh, verified, restarts, failures>>

\* create_queue, bare, returns the queue if there is one.
CreateQueue(j) ==
    /\ pc[j] = "createQueue"
    /\ queues' = queues \cup {queue[j]}
    /\ Done(j)
    /\ UNCHANGED <<topic, dlqs, redrive, allowed, subscribed, filtered, blind,
                   arn, seen, exit, fresh, verified, restarts, failures>>

\* SQS takes the ARN of a DLQ that is not there, or refuses it.
ConfigureQueue(j) ==
    /\ pc[j] = "configureQueue" /\ queue[j] \in queues
    /\ redrive' = redrive \cup {queue[j]}
    /\ Done(j)
    /\ UNCHANGED <<topic, queues, dlqs, allowed, subscribed, filtered, blind,
                   arn, seen, exit, fresh, verified, restarts, failures>>

Allow(j) ==
    /\ pc[j] = "allow" /\ queue[j] \in queues
    /\ allowed' = allowed \cup {queue[j]}
    /\ Done(j)
    /\ UNCHANGED <<topic, queues, dlqs, redrive, subscribed, filtered, blind,
                   arn, seen, exit, fresh, verified, restarts, failures>>

\* SNS does not look whether the endpoint exists, and returns the ARN of the
\* subscription.
Subscribe(j) ==
    /\ pc[j] = "subscribe" /\ topic
    /\ subscribed' = subscribed \cup {queue[j]}
    /\ blind' = IF fresh[j] THEN blind ELSE blind \cup {queue[j]}
    /\ arn' = [arn EXCEPT ![j] = TRUE]
    /\ Done(j)
    /\ UNCHANGED <<topic, queues, dlqs, redrive, allowed, filtered,
                   seen, exit, fresh, verified, restarts, failures>>

\* By the ARN that subscribe returned: another job's subscription will not do.
Filter(j) ==
    /\ pc[j] = "filter" /\ arn[j]
    /\ filtered' = filtered \cup {queue[j]}
    /\ Done(j)
    /\ UNCHANGED <<topic, queues, dlqs, redrive, allowed, subscribed, blind,
                   arn, seen, exit, fresh, verified, restarts, failures>>

-----------------------------------------------------------------------------
(* Verify rather than assume. *)

List(j) ==
    /\ pc[j] = "list" /\ topic
    /\ seen' = [seen EXCEPT ![j] = subscribed]
    /\ verified' = [verified EXCEPT ![j] = TRUE]
    /\ Goto(j, "compare")
    /\ UNCHANGED <<resources, todo, queue, arn, exit, fresh, restarts, failures>>

\* queue_url raises for a queue that does not exist.
Compare(j) ==
    /\ pc[j] = "compare" /\ Queues \subseteq queues
    /\ \/ ~ Queues \subseteq seen[j] /\ Exit(j, "1")
       \/ /\ Queues \subseteq seen[j]
          /\ NextQueue(j, "redrive", Queues, "passed")
          /\ UNCHANGED <<arn, seen, exit>>
    /\ UNCHANGED <<resources, fresh, verified, restarts, failures>>

\* Mutant: the subscriptions are verified, the redrive policies are not.
CheckRedrive_Skipped(j) ==
    /\ pc[j] = "redrive"
    /\ NextQueue(j, "redrive", todo[j], "passed")
    /\ UNCHANGED <<resources, arn, seen, exit, fresh, verified, restarts, failures>>

\* The policy is there, and names a DLQ that queue_url finds.
CheckRedrive(j) ==
    /\ pc[j] = "redrive" /\ queue[j] \in queues
    /\ \/ queue[j] \notin redrive /\ Exit(j, "1")
       \/ /\ queue[j] \in redrive /\ queue[j] \in dlqs
          /\ NextQueue(j, "redrive", todo[j], "passed")
          /\ UNCHANGED <<arn, seen, exit>>
    /\ UNCHANGED <<resources, fresh, verified, restarts, failures>>

Succeed(j) ==
    /\ pc[j] = "passed"
    /\ Exit(j, "0")
    /\ UNCHANGED <<resources, fresh, verified, restarts, failures>>

-----------------------------------------------------------------------------
(* What goes wrong. *)

\* A call whose resource is missing raises: the traceback exits 1.
Missing(j) ==
    \/ pc[j] \in {"configureDlq", "dlqArn"} /\ queue[j] \notin dlqs
    \/ pc[j] \in {"configureQueue", "queueArn", "allow", "redrive"} /\ queue[j] \notin queues
    \/ pc[j] \in {"configureQueue", "redrive"} /\ queue[j] \notin dlqs
    \/ pc[j] \in {"subscribe", "list"} /\ ~topic
    \/ pc[j] = "filter" /\ ~arn[j]
    \/ pc[j] = "compare" /\ ~ Queues \subseteq queues

CallRaises(j) ==
    /\ Missing(j)
    /\ Exit(j, "1")
    /\ UNCHANGED <<resources, fresh, verified, restarts, failures>>

\* A call is not answered, or the job is killed.
Abort(j) ==
    /\ pc[j] # "down" /\ failures < MaxFailures
    /\ failures' = failures + 1
    /\ Exit(j, "1")
    /\ UNCHANGED <<resources, fresh, verified, restarts>>

LocalStackRestart ==
    /\ restarts < MaxRestarts
    /\ restarts' = restarts + 1
    /\ topic' = FALSE
    /\ queues' = {} /\ dlqs' = {} /\ redrive' = {} /\ allowed' = {}
    /\ subscribed' = {} /\ filtered' = {} /\ blind' = {}
    /\ arn' = [j \in Jobs |-> FALSE]
    /\ fresh' = [j \in Jobs |-> FALSE]
    /\ verified' = [j \in Jobs |-> FALSE]
    /\ UNCHANGED <<pc, todo, queue, seen, exit, failures>>

\* publisher.topic_arn creates the topic, and nothing else.
RelayCreatesTopic ==
    /\ ~topic /\ topic' = TRUE
    /\ UNCHANGED <<queues, dlqs, redrive, allowed, subscribed, filtered, blind,
                   job, restarts, failures>>

-----------------------------------------------------------------------------
JobStep(j) ==
    \/ Start(j) \/ CreateTopic(j) \/ CreateDlq(j) \/ ConfigureDlq(j) \/ ReadArn(j)
    \/ CreateQueue(j) \/ ConfigureQueue(j) \/ Allow(j) \/ Subscribe(j) \/ Filter(j)
    \/ List(j) \/ Compare(j) \/ CheckRedrive(j) \/ Succeed(j) \/ CallRaises(j)

Next ==
    \/ \E j \in Jobs : JobStep(j) \/ Abort(j)
    \/ LocalStackRestart
    \/ RelayCreatesTopic

Spec == Init /\ [][Next]_vars

\* Somebody runs the job again and again.
FairSpec == Spec /\ \A j \in Jobs : WF_vars(JobStep(j))

-----------------------------------------------------------------------------
(* Properties. *)

PerQueue == {"createDlq", "configureDlq", "dlqArn", "createQueue", "configureQueue",
             "queueArn", "allow", "subscribe", "filter", "redrive"}
Labels == PerQueue \cup {"down", "topic", "list", "compare", "passed"}

\* Every variable has its type, and a job that works on a queue has taken it
\* off its list.
TypeOK ==
    /\ topic \in BOOLEAN
    /\ queues \subseteq Queues /\ dlqs \subseteq Queues /\ redrive \subseteq Queues
    /\ allowed \subseteq Queues /\ subscribed \subseteq Queues /\ filtered \subseteq Queues
    /\ blind \subseteq Queues
    /\ pc \in [Jobs -> Labels]
    /\ todo \in [Jobs -> SUBSET Queues]
    /\ queue \in [Jobs -> Queues \cup {NoQueue}]
    /\ \A j \in Jobs : pc[j] \in PerQueue => queue[j] \in Queues \ todo[j]
    /\ arn \in [Jobs -> BOOLEAN]
    /\ seen \in [Jobs -> SUBSET Queues]
    /\ exit \in [Jobs -> {"none", "0", "1"}]
    /\ fresh \in [Jobs -> BOOLEAN] /\ verified \in [Jobs -> BOOLEAN]
    /\ restarts \in Nat /\ failures \in Nat

\* What the verification looks at, and all that a run does.
Verified == Queues \subseteq queues \cap subscribed \cap redrive \cap dlqs
Wired == topic /\ Verified /\ Queues \subseteq allowed \cap filtered

\* The exit code releases the relay and the consumers: whatever else ran at
\* the same time, 0 means that everything verified is there, unless LocalStack
\* restarted during the verification, and that everything is there, unless it
\* restarted during the run.
ExitZeroIsTrue ==
    \A j \in Jobs : exit[j] = "0" =>
        /\ verified[j] => Verified
        /\ fresh[j] => Wired

\* Policy first: no subscribed queue drops messages for want of permission, on
\* its way to the topic or ever, unless a job carried on through a restart.
NoSilentDrop == subscribed \subseteq allowed \cup blind

\* Jobs that overlap never make each other fail: 1 is the exit code of a job
\* that had a call unanswered, was killed, or had LocalStack restart under it.
FailsForAReason ==
    [][\A j \in Jobs :
         exit[j] # "1" /\ exit'[j] = "1" => ~fresh[j] \/ failures' > failures]_vars

\* From whatever a job that failed, or a restart, left behind, running the job
\* again completes it.
RerunRepairs == ~Wired ~> Wired

-----------------------------------------------------------------------------
(* The contract the bootstrap implements. *)

Wiring == INSTANCE FanOut
    WITH receiving <- IF topic THEN subscribed \cap queues \cap allowed ELSE {}

\* A job never disconnects a queue that receives, when it is run again neither.
FanOutSafe == Wiring!Spec

=============================================================================
