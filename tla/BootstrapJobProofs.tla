------------------------- MODULE BootstrapJobProofs -------------------------
(***************************************************************************)
(* The bootstrap, for any number of queues, of jobs that overlap, and of   *)
(* restarts and failures: what exit code 0 means and what 1 does, that no  *)
(* queue is subscribed before SNS may write to it, and the contract of the *)
(* fan-out.                                                                *)
(***************************************************************************)
EXTENDS BootstrapJob, TLAPS

Loop == PerQueue \ {"redrive"}

Complete(q) == q \in queues \cap dlqs \cap redrive \cap allowed \cap subscribed \cap filtered

\* Only a job that is over has an exit code.
ExitInv(j) == exit[j] # "none" => pc[j] = "down"

\* A job under which nothing restarted finds what it did: for the queues it has
\* dealt with, and, call by call, for the one it works on.
FreshInv(j) == fresh[j] =>
    /\ pc[j] \notin {"down", "topic"} \/ exit[j] = "0" => topic
    /\ pc[j] \in Loop => \A q \in Queues : q \in todo[j] \cup {queue[j]} \/ Complete(q)
    /\ pc[j] \in {"list", "compare", "redrive", "passed"} \/ exit[j] = "0" =>
         \A q \in Queues : Complete(q)
    /\ pc[j] \in Loop \ {"createDlq"} => queue[j] \in dlqs
    /\ pc[j] \in {"configureQueue", "queueArn", "allow", "subscribe", "filter"} =>
         queue[j] \in queues
    /\ pc[j] \in {"queueArn", "allow", "subscribe", "filter"} => queue[j] \in redrive
    /\ pc[j] \in {"subscribe", "filter"} => queue[j] \in allowed
    /\ pc[j] = "filter" => arn[j] /\ queue[j] \in subscribed
    /\ pc[j] = "compare" => Queues \subseteq seen[j]

\* What a job has verified since the last restart is so.
VerifyInv(j) == verified[j] =>
    /\ pc[j] = "compare" => seen[j] \subseteq subscribed
    /\ pc[j] \in {"redrive", "passed"} \/ exit[j] = "0" =>
         Queues \subseteq queues \cap subscribed
    /\ pc[j] = "redrive" =>
         \A q \in Queues : q \in todo[j] \cup {queue[j]} \/ q \in redrive \cap dlqs
    /\ pc[j] = "passed" \/ exit[j] = "0" => Queues \subseteq redrive \cap dlqs

JobInv(j) == ExitInv(j) /\ FreshInv(j) /\ VerifyInv(j)

\* A subscription belongs to a topic.
TopicInv == ~topic => subscribed = {}

IInv == TypeOK /\ (\A j \in Jobs : JobInv(j)) /\ TopicInv /\ NoSilentDrop

-----------------------------------------------------------------------------
(* The calls in their order. *)

LEMMA CallsInOrder ==
    /\ Len(Calls) = 9 /\ 1 .. Len(Calls) = 1 .. 9
    /\ Calls[1] = "createDlq" /\ Calls[2] = "configureDlq" /\ Calls[3] = "dlqArn"
    /\ Calls[4] = "createQueue" /\ Calls[5] = "configureQueue" /\ Calls[6] = "queueArn"
    /\ Calls[7] = "allow" /\ Calls[8] = "subscribe" /\ Calls[9] = "filter"
BY DEF Calls

LEMMA NextCall ==
    ASSUME NEW j \in Jobs, NEW i \in 1 .. 9, pc[j] = Calls[i], Done(j)
    PROVE  /\ i < 9 => Goto(j, Calls[i + 1]) /\ UNCHANGED <<todo, queue>>
           /\ i = 9 => NextQueue(j, "createDlq", todo[j], "list")
<1>. DEFINE n == CHOOSE n \in 1 .. Len(Calls) : Calls[n] = pc[j]
<1>1. n \in 1 .. 9 /\ Calls[n] = Calls[i]
  BY CallsInOrder
<1>2. n = i
  BY <1>1, CallsInOrder
<1>3. IF n < Len(Calls)
      THEN Goto(j, Calls[n + 1]) /\ UNCHANGED <<todo, queue>>
      ELSE NextQueue(j, Calls[1], todo[j], "list")
  BY DEF Done
<1>. HIDE DEF n
<1>. QED BY <1>2, <1>3, CallsInOrder


\* The same by name.
LEMMA CallAfter ==
    ASSUME NEW j \in Jobs, Done(j)
    PROVE
        /\ pc[j] = "createDlq" => Goto(j, "configureDlq") /\ UNCHANGED <<todo, queue>>
        /\ pc[j] = "configureDlq" => Goto(j, "dlqArn") /\ UNCHANGED <<todo, queue>>
        /\ pc[j] = "dlqArn" => Goto(j, "createQueue") /\ UNCHANGED <<todo, queue>>
        /\ pc[j] = "createQueue" => Goto(j, "configureQueue") /\ UNCHANGED <<todo, queue>>
        /\ pc[j] = "configureQueue" => Goto(j, "queueArn") /\ UNCHANGED <<todo, queue>>
        /\ pc[j] = "queueArn" => Goto(j, "allow") /\ UNCHANGED <<todo, queue>>
        /\ pc[j] = "allow" => Goto(j, "subscribe") /\ UNCHANGED <<todo, queue>>
        /\ pc[j] = "subscribe" => Goto(j, "filter") /\ UNCHANGED <<todo, queue>>
        /\ pc[j] = "filter" => NextQueue(j, "createDlq", todo[j], "list")
<1>1. 1 \in 1 .. 9 /\ 2 \in 1 .. 9 /\ 3 \in 1 .. 9 /\ 4 \in 1 .. 9 /\ 5 \in 1 .. 9
      /\ 6 \in 1 .. 9 /\ 7 \in 1 .. 9 /\ 8 \in 1 .. 9 /\ 9 \in 1 .. 9
  OBVIOUS
<1>2. pc[j] = "createDlq" => Goto(j, "configureDlq") /\ UNCHANGED <<todo, queue>>
  BY <1>1, NextCall, CallsInOrder
<1>3. pc[j] = "configureDlq" => Goto(j, "dlqArn") /\ UNCHANGED <<todo, queue>>
  BY <1>1, NextCall, CallsInOrder
<1>4. pc[j] = "dlqArn" => Goto(j, "createQueue") /\ UNCHANGED <<todo, queue>>
  BY <1>1, NextCall, CallsInOrder
<1>5. pc[j] = "createQueue" => Goto(j, "configureQueue") /\ UNCHANGED <<todo, queue>>
  BY <1>1, NextCall, CallsInOrder
<1>6. pc[j] = "configureQueue" => Goto(j, "queueArn") /\ UNCHANGED <<todo, queue>>
  BY <1>1, NextCall, CallsInOrder
<1>7. pc[j] = "queueArn" => Goto(j, "allow") /\ UNCHANGED <<todo, queue>>
  BY <1>1, NextCall, CallsInOrder
<1>8. pc[j] = "allow" => Goto(j, "subscribe") /\ UNCHANGED <<todo, queue>>
  BY <1>1, NextCall, CallsInOrder
<1>9. pc[j] = "subscribe" => Goto(j, "filter") /\ UNCHANGED <<todo, queue>>
  BY <1>1, NextCall, CallsInOrder
<1>10. pc[j] = "filter" => NextQueue(j, "createDlq", todo[j], "list")
  BY <1>1, NextCall, CallsInOrder
<1>. QED BY <1>2, <1>3, <1>4, <1>5, <1>6, <1>7, <1>8, <1>9, <1>10

-----------------------------------------------------------------------------
(* Type correctness. *)

\* Where a job goes: the part of the type invariant its moves may disturb.
MoveOK ==
    /\ pc \in [Jobs -> Labels]
    /\ todo \in [Jobs -> SUBSET Queues]
    /\ queue \in [Jobs -> Queues \cup {NoQueue}]
    /\ \A j \in Jobs : pc[j] \in PerQueue => queue[j] \in Queues \ todo[j]

LEMMA NextQueueType ==
    ASSUME MoveOK, NEW j \in Jobs, NEW first \in PerQueue, NEW rest \in SUBSET Queues,
           NEW after \in Labels \ PerQueue, NextQueue(j, first, rest, after)
    PROVE  MoveOK'
<1>1. CASE rest = {}
  BY <1>1 DEF NextQueue, Goto, MoveOK
<1>2. CASE rest # {}
  <2>1. PICK q \in rest : /\ queue' = [queue EXCEPT ![j] = q]
                          /\ todo' = [todo EXCEPT ![j] = rest \ {q}]
                          /\ pc' = [pc EXCEPT ![j] = first]
    BY <1>2 DEF NextQueue, Goto
  <2>. QED BY <2>1 DEF MoveOK, Labels
<1>. QED BY <1>1, <1>2

LEMMA DoneType ==
    ASSUME MoveOK, NEW j \in Jobs, pc[j] \in Loop, Done(j)
    PROVE  MoveOK'
<1>1. CASE pc[j] = "filter"
  <2>1. "createDlq" \in PerQueue /\ "list" \in Labels \ PerQueue /\ todo[j] \in SUBSET Queues
    BY DEF PerQueue, Labels, MoveOK
  <2>. QED BY <1>1, <2>1, CallAfter, NextQueueType
<1>2. CASE pc[j] # "filter"
  <2>1. \E l \in PerQueue : Goto(j, l) /\ UNCHANGED <<todo, queue>>
    BY <1>2, CallAfter DEF Loop, PerQueue
  <2>. QED BY <2>1 DEF Goto, MoveOK, Labels, Loop
<1>. QED BY <1>1, <1>2

LEMMA ExitType ==
    ASSUME TypeOK, NEW j \in Jobs, NEW code \in {"0", "1"}, Exit(j, code)
    PROVE  /\ MoveOK' /\ exit' \in [Jobs -> {"none", "0", "1"}]
           /\ arn' \in [Jobs -> BOOLEAN] /\ seen' \in [Jobs -> SUBSET Queues]
<1>1. "down" \in Labels \ PerQueue
  BY DEF Labels, PerQueue
<1>. QED BY <1>1 DEF Exit, Goto, TypeOK, MoveOK

LEMMA TypeStep == TypeOK /\ [Next]_vars => TypeOK'
<1>. SUFFICES ASSUME TypeOK, [Next]_vars PROVE TypeOK'
  OBVIOUS
<1>0. MoveOK
  BY DEF TypeOK, MoveOK
<1>. USE JobsAssumption DEF TypeOK, resources, job
<1>1. ASSUME NEW j \in Jobs, Start(j) PROVE TypeOK'
  BY <1>1 DEF Start, Goto, Labels, PerQueue
<1>2. ASSUME NEW j \in Jobs, CreateTopic(j) PROVE TypeOK'
  <2>1. MoveOK'
    BY <1>0, <1>2, CallsInOrder, NextQueueType DEF CreateTopic, Labels, PerQueue
  <2>. QED BY <1>2, <2>1 DEF CreateTopic, MoveOK
<1>3. ASSUME NEW j \in Jobs, CreateDlq(j) PROVE TypeOK'
  <2>1. MoveOK'
    BY <1>0, <1>3, DoneType DEF CreateDlq, Loop, PerQueue
  <2>. QED BY <1>3, <2>1 DEF CreateDlq, MoveOK, Loop, PerQueue
<1>4. ASSUME NEW j \in Jobs, ConfigureDlq(j) PROVE TypeOK'
  <2>1. MoveOK'
    BY <1>0, <1>4, DoneType DEF ConfigureDlq, Loop, PerQueue
  <2>. QED BY <1>4, <2>1 DEF ConfigureDlq, MoveOK, Loop, PerQueue
<1>5. ASSUME NEW j \in Jobs, CreateQueue(j) PROVE TypeOK'
  <2>1. MoveOK'
    BY <1>0, <1>5, DoneType DEF CreateQueue, Loop, PerQueue
  <2>. QED BY <1>5, <2>1 DEF CreateQueue, MoveOK, Loop, PerQueue
<1>6. ASSUME NEW j \in Jobs, ConfigureQueue(j) PROVE TypeOK'
  <2>1. MoveOK'
    BY <1>0, <1>6, DoneType DEF ConfigureQueue, Loop, PerQueue
  <2>. QED BY <1>6, <2>1 DEF ConfigureQueue, MoveOK, Loop, PerQueue
<1>7. ASSUME NEW j \in Jobs, Allow(j) PROVE TypeOK'
  <2>1. MoveOK'
    BY <1>0, <1>7, DoneType DEF Allow, Loop, PerQueue
  <2>. QED BY <1>7, <2>1 DEF Allow, MoveOK, Loop, PerQueue
<1>8. ASSUME NEW j \in Jobs, Subscribe(j) PROVE TypeOK'
  <2>1. MoveOK'
    BY <1>0, <1>8, DoneType DEF Subscribe, Loop, PerQueue
  <2>. QED BY <1>8, <2>1 DEF Subscribe, MoveOK, Loop, PerQueue
<1>9. ASSUME NEW j \in Jobs, Filter(j) PROVE TypeOK'
  <2>1. MoveOK'
    BY <1>0, <1>9, DoneType DEF Filter, Loop, PerQueue
  <2>. QED BY <1>9, <2>1 DEF Filter, MoveOK, Loop, PerQueue
<1>10. ASSUME NEW j \in Jobs, List(j) PROVE TypeOK'
  BY <1>10 DEF List, Goto, Labels, PerQueue
<1>11. ASSUME NEW j \in Jobs, Compare(j) PROVE TypeOK'
  <2>1. CASE Exit(j, "1")
    <3>1. /\ MoveOK' /\ exit' \in [Jobs -> {"none", "0", "1"}]
          /\ arn' \in [Jobs -> BOOLEAN] /\ seen' \in [Jobs -> SUBSET Queues]
      BY <2>1, ExitType
    <3>. QED BY <1>11, <3>1 DEF Compare, MoveOK
  <2>2. CASE NextQueue(j, "redrive", Queues, "passed") /\ UNCHANGED <<arn, seen, exit>>
    <3>1. MoveOK'
      BY <1>0, <2>2, NextQueueType DEF Labels, PerQueue
    <3>. QED BY <1>11, <2>2, <3>1 DEF Compare, MoveOK
  <2>. QED BY <1>11, <2>1, <2>2 DEF Compare
<1>12. ASSUME NEW j \in Jobs, CheckRedrive(j) PROVE TypeOK'
  <2>1. CASE Exit(j, "1")
    <3>1. /\ MoveOK' /\ exit' \in [Jobs -> {"none", "0", "1"}]
          /\ arn' \in [Jobs -> BOOLEAN] /\ seen' \in [Jobs -> SUBSET Queues]
      BY <2>1, ExitType
    <3>. QED BY <1>12, <3>1 DEF CheckRedrive, MoveOK
  <2>2. CASE NextQueue(j, "redrive", todo[j], "passed") /\ UNCHANGED <<arn, seen, exit>>
    <3>1. MoveOK'
      BY <1>0, <2>2, NextQueueType DEF Labels, PerQueue
    <3>. QED BY <1>12, <2>2, <3>1 DEF CheckRedrive, MoveOK
  <2>. QED BY <1>12, <2>1, <2>2 DEF CheckRedrive
<1>13. ASSUME NEW j \in Jobs, Succeed(j) PROVE TypeOK'
  <2>1. /\ MoveOK' /\ exit' \in [Jobs -> {"none", "0", "1"}]
        /\ arn' \in [Jobs -> BOOLEAN] /\ seen' \in [Jobs -> SUBSET Queues]
    BY <1>13, ExitType DEF Succeed
  <2>. QED BY <1>13, <2>1 DEF Succeed, MoveOK
<1>14. ASSUME NEW j \in Jobs, CallRaises(j) PROVE TypeOK'
  <2>1. /\ MoveOK' /\ exit' \in [Jobs -> {"none", "0", "1"}]
        /\ arn' \in [Jobs -> BOOLEAN] /\ seen' \in [Jobs -> SUBSET Queues]
    BY <1>14, ExitType DEF CallRaises
  <2>. QED BY <1>14, <2>1 DEF CallRaises, MoveOK
<1>19. ASSUME NEW j \in Jobs, ReadArn(j) PROVE TypeOK'
  <2>1. MoveOK'
    BY <1>0, <1>19, DoneType DEF ReadArn, Loop, PerQueue
  <2>. QED BY <1>19, <2>1 DEF ReadArn, MoveOK, Loop, PerQueue
<1>15. ASSUME NEW j \in Jobs, Abort(j) PROVE TypeOK'
  <2>1. /\ MoveOK' /\ exit' \in [Jobs -> {"none", "0", "1"}]
        /\ arn' \in [Jobs -> BOOLEAN] /\ seen' \in [Jobs -> SUBSET Queues]
    BY <1>15, ExitType DEF Abort
  <2>. QED BY <1>15, <2>1 DEF Abort, MoveOK
<1>16. ASSUME LocalStackRestart PROVE TypeOK'
  <2>1. /\ fresh' \in [Jobs -> BOOLEAN] /\ verified' \in [Jobs -> BOOLEAN]
        /\ arn' \in [Jobs -> BOOLEAN]
    BY <1>16 DEF LocalStackRestart
  <2>2. MoveOK'
    BY <1>0, <1>16 DEF LocalStackRestart, MoveOK
  <2>3. topic' \in BOOLEAN
    BY <1>16 DEF LocalStackRestart
  <2>. QED BY <1>16, <2>1, <2>2, <2>3 DEF LocalStackRestart, MoveOK
<1>17. ASSUME RelayCreatesTopic PROVE TypeOK'
  BY <1>17 DEF RelayCreatesTopic
<1>18. CASE UNCHANGED vars
  BY <1>18 DEF vars
<1>. QED
  BY <1>1, <1>2, <1>3, <1>4, <1>5, <1>6, <1>7, <1>8, <1>9,
     <1>10, <1>11, <1>12, <1>13, <1>14, <1>15, <1>16, <1>17, <1>18, <1>19
  DEF Next, JobStep
-----------------------------------------------------------------------------
(* What a job relies on. *)

\* Only a restart takes resources away.
Grows ==
    /\ topic => topic'
    /\ queues \subseteq queues' /\ dlqs \subseteq dlqs' /\ redrive \subseteq redrive'
    /\ allowed \subseteq allowed' /\ subscribed \subseteq subscribed'
    /\ filtered \subseteq filtered'

SameJob(i) ==
    /\ pc'[i] = pc[i] /\ todo'[i] = todo[i] /\ queue'[i] = queue[i]
    /\ arn'[i] = arn[i] /\ seen'[i] = seen[i]
    /\ exit'[i] = exit[i] /\ fresh'[i] = fresh[i] /\ verified'[i] = verified[i]

LEMMA OthersStay ==
    ASSUME NEW i \in Jobs, JobInv(i), Grows, SameJob(i)
    PROVE  JobInv(i)'
<1>1. ExitInv(i)'
  BY DEF JobInv, ExitInv, SameJob
<1>2. FreshInv(i)'
  <2>1. \A q : Complete(q) => Complete(q)'
    BY DEF Complete, Grows
  <2>. QED BY <2>1 DEF JobInv, FreshInv, SameJob, Grows
<1>3. VerifyInv(i)'
  BY DEF JobInv, VerifyInv, SameJob, Grows
<1>. QED BY <1>1, <1>2, <1>3 DEF JobInv

LEMMA Frame ==
    ASSUME TypeOK, NEW j \in Jobs, JobStep(j) \/ Abort(j)
    PROVE  Grows /\ \A i \in Jobs \ {j} : SameJob(i)
<1>. USE DEF TypeOK, resources, job, Grows, SameJob
<1>0. ASSUME NEW i \in Jobs \ {j} PROVE
        /\ Done(j) => pc'[i] = pc[i] /\ todo'[i] = todo[i] /\ queue'[i] = queue[i]
        /\ \A first, rest, after : NextQueue(j, first, rest, after) =>
             pc'[i] = pc[i] /\ todo'[i] = todo[i] /\ queue'[i] = queue[i]
        /\ \A code : Exit(j, code) =>
             /\ pc'[i] = pc[i] /\ todo'[i] = todo[i] /\ queue'[i] = queue[i]
             /\ arn'[i] = arn[i] /\ seen'[i] = seen[i] /\ exit'[i] = exit[i]
  <2>1. \A first, rest, after : NextQueue(j, first, rest, after) =>
             pc'[i] = pc[i] /\ todo'[i] = todo[i] /\ queue'[i] = queue[i]
    BY DEF NextQueue, Goto
  <2>2. Done(j) => \/ \E l : Goto(j, l) /\ UNCHANGED <<todo, queue>>
                   \/ NextQueue(j, Calls[1], todo[j], "list")
    BY DEF Done
  <2>3. Done(j) => pc'[i] = pc[i] /\ todo'[i] = todo[i] /\ queue'[i] = queue[i]
    BY <2>1, <2>2 DEF Goto
  <2>. QED BY <2>1, <2>3 DEF Exit, Goto
<1>1. ASSUME Start(j) PROVE Grows /\ \A i \in Jobs \ {j} : SameJob(i)
  BY <1>0, <1>1 DEF Start, Goto
<1>2. ASSUME CreateTopic(j) PROVE Grows /\ \A i \in Jobs \ {j} : SameJob(i)
  BY <1>0, <1>2 DEF CreateTopic
<1>3. ASSUME CreateDlq(j) PROVE Grows /\ \A i \in Jobs \ {j} : SameJob(i)
  BY <1>0, <1>3 DEF CreateDlq
<1>4. ASSUME ConfigureDlq(j) PROVE Grows /\ \A i \in Jobs \ {j} : SameJob(i)
  BY <1>0, <1>4 DEF ConfigureDlq
<1>5. ASSUME CreateQueue(j) PROVE Grows /\ \A i \in Jobs \ {j} : SameJob(i)
  BY <1>0, <1>5 DEF CreateQueue
<1>6. ASSUME ConfigureQueue(j) PROVE Grows /\ \A i \in Jobs \ {j} : SameJob(i)
  BY <1>0, <1>6 DEF ConfigureQueue
<1>7. ASSUME Allow(j) PROVE Grows /\ \A i \in Jobs \ {j} : SameJob(i)
  BY <1>0, <1>7 DEF Allow
<1>8. ASSUME Subscribe(j) PROVE Grows /\ \A i \in Jobs \ {j} : SameJob(i)
  BY <1>0, <1>8 DEF Subscribe
<1>9. ASSUME Filter(j) PROVE Grows /\ \A i \in Jobs \ {j} : SameJob(i)
  BY <1>0, <1>9 DEF Filter
<1>10. ASSUME List(j) PROVE Grows /\ \A i \in Jobs \ {j} : SameJob(i)
  BY <1>0, <1>10 DEF List, Goto
<1>11. ASSUME Compare(j) PROVE Grows /\ \A i \in Jobs \ {j} : SameJob(i)
  BY <1>0, <1>11 DEF Compare
<1>12. ASSUME CheckRedrive(j) PROVE Grows /\ \A i \in Jobs \ {j} : SameJob(i)
  BY <1>0, <1>12 DEF CheckRedrive
<1>13. ASSUME Succeed(j) PROVE Grows /\ \A i \in Jobs \ {j} : SameJob(i)
  BY <1>0, <1>13 DEF Succeed
<1>14. ASSUME CallRaises(j) PROVE Grows /\ \A i \in Jobs \ {j} : SameJob(i)
  BY <1>0, <1>14 DEF CallRaises
<1>15. ASSUME Abort(j) PROVE Grows /\ \A i \in Jobs \ {j} : SameJob(i)
  BY <1>0, <1>15 DEF Abort
<1>16. ASSUME ReadArn(j) PROVE Grows /\ \A i \in Jobs \ {j} : SameJob(i)
  BY <1>0, <1>16 DEF ReadArn
<1>. QED
  BY <1>1, <1>2, <1>3, <1>4, <1>5, <1>6, <1>7, <1>8, <1>9,
     <1>10, <1>11, <1>12, <1>13, <1>14, <1>15, <1>16
  DEF JobStep

LEMMA OwnStep ==
    ASSUME TypeOK, NEW j \in Jobs, JobInv(j), JobStep(j) \/ Abort(j)
    PROVE  JobInv(j)'
<1>. USE DEF TypeOK, resources, job, JobInv, ExitInv, FreshInv, VerifyInv, Complete,
             Loop, PerQueue
<1>1. ASSUME Start(j) PROVE JobInv(j)'
  BY <1>1 DEF Start, Goto
<1>2. ASSUME CreateTopic(j) PROVE JobInv(j)'
  BY <1>2, CallsInOrder DEF CreateTopic, Goto, NextQueue
<1>3. ASSUME CreateDlq(j) PROVE JobInv(j)'
  BY <1>3, CallAfter DEF CreateDlq, Goto, NextQueue
<1>4. ASSUME ConfigureDlq(j) PROVE JobInv(j)'
  BY <1>4, CallAfter DEF ConfigureDlq, Goto, NextQueue
<1>5. ASSUME CreateQueue(j) PROVE JobInv(j)'
  BY <1>5, CallAfter DEF CreateQueue, Goto, NextQueue
<1>6. ASSUME ConfigureQueue(j) PROVE JobInv(j)'
  BY <1>6, CallAfter DEF ConfigureQueue, Goto, NextQueue
<1>7. ASSUME Allow(j) PROVE JobInv(j)'
  BY <1>7, CallAfter DEF Allow, Goto, NextQueue
<1>8. ASSUME Subscribe(j) PROVE JobInv(j)'
  BY <1>8, CallAfter DEF Subscribe, Goto, NextQueue
<1>9. ASSUME Filter(j) PROVE JobInv(j)'
  BY <1>9, CallAfter DEF Filter, Goto, NextQueue
<1>10. ASSUME List(j) PROVE JobInv(j)'
  BY <1>10 DEF List, Goto
<1>11. ASSUME Compare(j) PROVE JobInv(j)'
  BY <1>11 DEF Compare, Exit, NextQueue, Goto
<1>12. ASSUME CheckRedrive(j) PROVE JobInv(j)'
  BY <1>12 DEF CheckRedrive, Exit, NextQueue, Goto
<1>13. ASSUME Succeed(j) PROVE JobInv(j)'
  BY <1>13 DEF Succeed, Exit, Goto
<1>14. ASSUME CallRaises(j) PROVE JobInv(j)'
  BY <1>14 DEF CallRaises, Exit, Goto
<1>15. ASSUME Abort(j) PROVE JobInv(j)'
  BY <1>15 DEF Abort, Exit, Goto
<1>16. ASSUME ReadArn(j) PROVE JobInv(j)'
  BY <1>16, CallAfter DEF ReadArn, Goto, NextQueue
<1>. QED
  BY <1>1, <1>2, <1>3, <1>4, <1>5, <1>6, <1>7, <1>8, <1>9,
     <1>10, <1>11, <1>12, <1>13, <1>14, <1>15, <1>16
  DEF JobStep
-----------------------------------------------------------------------------
(* The wiring. *)

WiringInv == TopicInv /\ NoSilentDrop

LEMMA WiringStep ==
    ASSUME TypeOK, \A j \in Jobs : JobInv(j), WiringInv, [Next]_vars
    PROVE  WiringInv'
<1>. USE DEF WiringInv, TopicInv, NoSilentDrop, resources
<1>1. ASSUME NEW j \in Jobs, Subscribe(j) PROVE WiringInv'
  <2>1. fresh[j] => queue[j] \in allowed
    BY <1>1 DEF Subscribe, JobInv, FreshInv
  <2>. QED BY <1>1, <2>1 DEF Subscribe
<1>2. ASSUME NEW j \in Jobs, JobStep(j) \/ Abort(j), ~Subscribe(j) PROVE WiringInv'
  BY <1>2 DEF JobStep, Start, CreateTopic, CreateDlq, ConfigureDlq, ReadArn, CreateQueue,
     ConfigureQueue, Allow, Filter, List, Compare, CheckRedrive, Succeed, CallRaises, Abort
<1>3. CASE LocalStackRestart \/ RelayCreatesTopic
  BY <1>3 DEF LocalStackRestart, RelayCreatesTopic
<1>4. CASE UNCHANGED vars
  BY <1>4 DEF vars
<1>. QED BY <1>1, <1>2, <1>3, <1>4 DEF Next, JobStep

LEMMA JobsStep ==
    ASSUME TypeOK, \A j \in Jobs : JobInv(j), [Next]_vars
    PROVE  \A j \in Jobs : JobInv(j)'
<1>. SUFFICES ASSUME NEW i \in Jobs PROVE JobInv(i)'
  OBVIOUS
<1>1. ASSUME NEW j \in Jobs, JobStep(j) \/ Abort(j) PROVE JobInv(i)'
  <2>1. CASE i = j
    BY <1>1, <2>1, OwnStep
  <2>2. CASE i # j
    BY <1>1, <2>2, Frame, OthersStay
  <2>. QED BY <2>1, <2>2
<1>2. CASE LocalStackRestart
  <2>1. ~fresh'[i] /\ ~verified'[i] /\ UNCHANGED <<exit, pc>>
    BY <1>2 DEF LocalStackRestart
  <2>. QED BY <2>1 DEF JobInv, ExitInv, FreshInv, VerifyInv
<1>3. CASE RelayCreatesTopic \/ UNCHANGED vars
  <2>1. Grows /\ SameJob(i)
    BY <1>3 DEF RelayCreatesTopic, vars, resources, job, Grows, SameJob
  <2>. QED BY <2>1, OthersStay
<1>. QED BY <1>1, <1>2, <1>3 DEF Next

-----------------------------------------------------------------------------
(* The theorems. *)

LEMMA IInvInit == Init => IInv
<1>. SUFFICES ASSUME Init PROVE IInv
  OBVIOUS
<1>. USE DEF Init
<1>1. TypeOK
  <2>1. /\ topic \in BOOLEAN /\ fresh \in [Jobs -> BOOLEAN] /\ verified \in [Jobs -> BOOLEAN]
        /\ arn \in [Jobs -> BOOLEAN]
    OBVIOUS
  <2>. QED BY <2>1 DEF TypeOK, Labels, PerQueue
<1>2. ASSUME NEW j \in Jobs PROVE JobInv(j)
  BY DEF JobInv, ExitInv, FreshInv, VerifyInv
<1>3. TopicInv /\ NoSilentDrop
  BY DEF TopicInv, NoSilentDrop
<1>. QED BY <1>1, <1>2, <1>3 DEF IInv

\* The inductive invariant of the bootstrap (bootstrap/main.py).
THEOREM Inductive == Spec => []IInv
<1>1. IInv /\ [Next]_vars => IInv'
  BY TypeStep, JobsStep, WiringStep DEF IInv, WiringInv
<1>. QED BY IInvInit, <1>1, PTL DEF Spec

\* Every variable keeps its type, and a job works on a queue it has taken off
\* its list.
THEOREM TypeCorrect == Spec => []TypeOK
<1>1. IInv => TypeOK
  BY DEF IInv
<1>. QED BY Inductive, <1>1, PTL

\* Exit code 0 of bootstrap/main.py, which releases the relay and the
\* consumers, is true, however many jobs run at once.
THEOREM ExitCodeIsTrue == Spec => []ExitZeroIsTrue
<1>1. IInv => ExitZeroIsTrue
  BY DEF IInv, JobInv, FreshInv, VerifyInv, Complete, ExitZeroIsTrue, Verified, Wired
<1>. QED BY Inductive, <1>1, PTL

\* ensure_subscription: no queue is subscribed that SNS may not write to.
THEOREM NothingDropsSilently == Spec => []NoSilentDrop
<1>1. IInv => NoSilentDrop
  BY DEF IInv
<1>. QED BY Inductive, <1>1, PTL

\* The calls of a job under which nothing restarted find what they need, and
\* its verification what it looks for.
LEMMA NothingMissing ==
    ASSUME IInv, NEW j \in Jobs, fresh[j]
    PROVE  /\ ~Missing(j)
           /\ pc[j] = "compare" => Queues \subseteq seen[j]
           /\ pc[j] = "redrive" => queue[j] \in redrive
<1>. USE DEF IInv, TypeOK, JobInv, FreshInv, Loop, PerQueue
<1>1. pc[j] \in {"list", "compare", "redrive", "passed"} => \A q \in Queues : Complete(q)
  OBVIOUS
<1>2. pc[j] \in PerQueue => queue[j] \in Queues
  OBVIOUS
<1>. QED BY <1>1, <1>2 DEF Missing, Complete

\* Exit code 1 tells of an unanswered call, a kill or a restart, and never of
\* another job that runs at the same time.
THEOREM FailuresHaveAReason == Spec => FailsForAReason
<1>. DEFINE Reason == \A j \in Jobs : exit[j] # "1" /\ exit'[j] = "1" => ~fresh[j] \/ failures' > failures
<1>1. IInv /\ [Next]_vars => Reason
  <2>. SUFFICES ASSUME IInv, [Next]_vars, NEW i \in Jobs,
                       exit[i] # "1", exit'[i] = "1", fresh[i]
                PROVE  failures' > failures
    OBVIOUS
  <2>0. TypeOK
    BY DEF IInv
  <2>1. ASSUME NEW j \in Jobs, JobStep(j) \/ Abort(j), i # j PROVE FALSE
    BY <2>0, <2>1, Frame DEF SameJob
  <2>2. ASSUME Abort(i) PROVE failures' > failures
    BY <2>0, <2>2 DEF Abort, TypeOK
  <2>3. ASSUME Compare(i) \/ CheckRedrive(i) \/ CallRaises(i) PROVE FALSE
    BY <2>3, NothingMissing DEF Compare, CheckRedrive, CallRaises
  <2>4. ASSUME JobStep(i), ~(Compare(i) \/ CheckRedrive(i) \/ CallRaises(i)) PROVE FALSE
    BY <2>0, <2>4 DEF JobStep, Start, CreateTopic, CreateDlq, ConfigureDlq, ReadArn, CreateQueue,
       ConfigureQueue, Allow, Subscribe, Filter, List, Succeed, Exit, Goto, TypeOK
  <2>5. CASE LocalStackRestart \/ RelayCreatesTopic \/ UNCHANGED vars
    BY <2>5 DEF LocalStackRestart, RelayCreatesTopic, vars, job
  <2>. QED BY <2>1, <2>2, <2>3, <2>4, <2>5 DEF Next
<1>2. IInv /\ [Next]_vars => [Reason]_vars
  BY <1>1
<1>. QED BY Inductive, <1>2, PTL DEF Spec, FailsForAReason

Receiving == IF topic THEN subscribed \cap queues \cap allowed ELSE {}

LEMMA WiringConnects ==
    ASSUME NEW q \in Queues, topic, UNCHANGED topic,
           Receiving' = Receiving \/ Receiving' = Receiving \cup {q}
    PROVE  [Wiring!Next]_(Wiring!wiring)
BY DEF Wiring!Next, Wiring!Connect, Wiring!wiring, Receiving

\* The job implements the fan-out contract: it connects queues one by one and
\* never disconnects one, when it is run again, or twice at once, neither.
THEOREM ImplementsFanOut == Spec => FanOutSafe
<1>1. Init => Wiring!Init
  BY DEF Init, Wiring!Init
<1>2. IInv /\ [Next]_vars => [Wiring!Next]_(Wiring!wiring)
  <2>. SUFFICES ASSUME IInv, [Next]_vars PROVE [Wiring!Next]_(Wiring!wiring)
    OBVIOUS
  <2>0. TypeOK /\ TopicInv
    BY DEF IInv
  <2>1. ASSUME NEW j \in Jobs, CreateTopic(j) PROVE [Wiring!Next]_(Wiring!wiring)
    BY <2>0, <2>1 DEF CreateTopic, TopicInv, Wiring!Next, Wiring!CreateTopic, Wiring!wiring
  <2>2. ASSUME RelayCreatesTopic PROVE [Wiring!Next]_(Wiring!wiring)
    BY <2>0, <2>2 DEF RelayCreatesTopic, TopicInv, Wiring!Next, Wiring!CreateTopic, Wiring!wiring
  <2>3. ASSUME NEW j \in Jobs, CreateQueue(j) \/ Allow(j) \/ Subscribe(j)
        PROVE  [Wiring!Next]_(Wiring!wiring)
    <3>1. queue[j] \in Queues /\ UNCHANGED topic
      BY <2>0, <2>3 DEF TypeOK, CreateQueue, Allow, Subscribe, PerQueue
    <3>2. CASE topic
      <4>1. Receiving' = Receiving \/ Receiving' = Receiving \cup {queue[j]}
        BY <2>3, <3>2 DEF CreateQueue, Allow, Subscribe, Receiving
      <4>. QED BY <3>1, <3>2, <4>1, WiringConnects
    <3>3. CASE ~topic
      BY <3>1, <3>3 DEF Wiring!wiring
    <3>. QED BY <3>2, <3>3
  <2>4. ASSUME NEW j \in Jobs, JobStep(j) \/ Abort(j),
               ~CreateTopic(j), ~CreateQueue(j), ~Allow(j), ~Subscribe(j)
        PROVE  UNCHANGED Wiring!wiring
    BY <2>4 DEF JobStep, Start, CreateDlq, ConfigureDlq, ReadArn, ConfigureQueue, Filter, List,
       Compare, CheckRedrive, Succeed, CallRaises, Abort, resources, Wiring!wiring
  <2>5. ASSUME LocalStackRestart PROVE [Wiring!Next]_(Wiring!wiring)
    BY <2>5 DEF LocalStackRestart, Wiring!Next, Wiring!Restart
  <2>6. CASE UNCHANGED vars
    BY <2>6 DEF vars, resources, Wiring!wiring
  <2>. QED BY <2>1, <2>2, <2>3, <2>4, <2>5, <2>6 DEF Next
<1>. QED BY Inductive, <1>1, <1>2, PTL DEF Spec, FanOutSafe, Wiring!Spec

=============================================================================
