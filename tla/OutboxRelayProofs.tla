-------------------------- MODULE OutboxRelayProofs --------------------------
(***************************************************************************)
(* The relay's safety, for every number of rows, relays and faults.  One   *)
(* inductive invariant, IInv, carries type correctness, the two facts on   *)
(* what "published" means, and the refinement of AtLeastOnce.  At the end, *)
(* what a poll returns.                                                    *)
(***************************************************************************)
EXTENDS OutboxRelay, FiniteSetTheorems, TLAPS

\* A lock is held by the relay that works on the row, and by no other.
LockInv == \A x \in Rows, r \in Relays :
    lock[x] = r => Holding(r) /\ row[r] = x

\* What a relay polled or works on was committed by the Order Service.
OutboxInv ==
    /\ published \subseteq outbox
    /\ \A r \in Relays : /\ batch[r] \subseteq outbox
                         /\ pc[r] \in {"publish", "mark", "record"} => row[r] \in outbox

\* A relay that counts a copy of its row, or is about to mark it, sent one.
SentInv ==
    /\ PublishedWasSent
    /\ \A r \in Relays :
         /\ copies[r] > 0 => Holding(r)
         /\ pc[r] = "mark" => copies[r] > 0
         /\ copies[r] > 0 => sent[row[r]] > 0

\* While LocalStack has not restarted, each copy reaches a queue.
TopicInv ==
    /\ left["restart"] <= Budget["restart"]
    /\ left["restart"] = Budget["restart"] =>
         /\ topic = "wired"
         /\ published \subseteq reached
         /\ \A r \in Relays : copies[r] > 0 => row[r] \in reached

IInv == TypeOK /\ LockInv /\ OutboxInv /\ SentInv /\ TopicInv

-----------------------------------------------------------------------------
(* Type correctness. *)

LEMMA SpendType ==
    ASSUME TypeOK, NEW kind \in FaultKinds, Spend(kind)
    PROVE  left' \in [FaultKinds -> Nat]
BY DEF TypeOK, Spend

LEMMA ExceptionsType ==
    /\ \A a \in Answers : a # "ok" => a \in Exceptions
    /\ {"NotFound", "Timeout", "OperationalError"} \subseteq Exceptions
BY DEF Exceptions

\* Ending a transaction, moving on, raising and exiting keep the types.
LEMMA HelpersType ==
    ASSUME TypeOK, NEW r \in Relays
    PROVE  /\ Released(r) \in [Rows -> Relays \cup {NoRelay}]
           /\ \A rest \in SUBSET Rows : NextRow(r, rest) =>
                /\ batch' \in [Relays -> SUBSET Rows]
                /\ row' \in [Relays -> Rows \cup {NoRow}]
                /\ exc' \in [Relays -> Exceptions \cup {"none"}]
                /\ copies' \in [Relays -> Nat]
                /\ pc' \in [Relays -> {"down", "idle", "claim", "publish", "mark", "record"}]
           /\ \A e \in Exceptions : Raise(r, e) =>
                /\ exc' \in [Relays -> Exceptions \cup {"none"}]
                /\ copies' \in [Relays -> Nat]
                /\ pc' \in [Relays -> {"down", "idle", "claim", "publish", "mark", "record"}]
                /\ lock' \in [Rows -> Relays \cup {NoRelay}]
                /\ batch' = batch
<1>1. Released(r) \in [Rows -> Relays \cup {NoRelay}]
  BY DEF TypeOK, Released
<1>2. ASSUME NEW rest \in SUBSET Rows, NextRow(r, rest)
      PROVE  /\ batch' \in [Relays -> SUBSET Rows]
             /\ row' \in [Relays -> Rows \cup {NoRow}]
             /\ exc' \in [Relays -> Exceptions \cup {"none"}]
             /\ copies' \in [Relays -> Nat]
             /\ pc' \in [Relays -> {"down", "idle", "claim", "publish", "mark", "record"}]
  BY <1>2 DEF TypeOK, NextRow
<1>3. ASSUME NEW e \in Exceptions, Raise(r, e)
      PROVE  /\ exc' \in [Relays -> Exceptions \cup {"none"}]
             /\ copies' \in [Relays -> Nat]
             /\ pc' \in [Relays -> {"down", "idle", "claim", "publish", "mark", "record"}]
             /\ lock' \in [Rows -> Relays \cup {NoRelay}]
             /\ batch' = batch
  BY <1>1, <1>3 DEF TypeOK, Raise
<1>. QED BY <1>1, <1>2, <1>3

LEMMA TypeInit == Init => TypeOK
BY BudgetAssumption DEF Init, TypeOK, TopicAtStart

LEMMA RecordType ==
    ASSUME TypeOK, OutboxInv, NEW r \in Relays, pc[r] = "record", CountAndPark(r)
    PROVE  attempts' \in [Rows -> Nat] /\ failed_at' \subseteq Rows
<1>1. row[r] \in Rows
  BY DEF TypeOK, OutboxInv
<1>. QED BY <1>1 DEF TypeOK, CountAndPark

LEMMA TypeStep == TypeOK /\ OutboxInv /\ [Next]_vars => TypeOK'
<1>. SUFFICES ASSUME TypeOK, OutboxInv, [Next]_vars PROVE TypeOK'
  OBVIOUS
<1>. USE DEF TypeOK, table, sns, process
<1>1. ASSUME NEW x \in Rows, InsertRow(x) PROVE TypeOK'
  BY <1>1 DEF InsertRow
<1>2. ASSUME NEW x \in Rows, ClearFailedAt(x) PROVE TypeOK'
  BY <1>2, SpendType DEF ClearFailedAt, FaultKinds
<1>3. ASSUME NEW r \in Relays, Start(r) PROVE TypeOK'
  BY <1>3, SpendType DEF Start, Resolve, FaultKinds
<1>4. ASSUME NEW r \in Relays, Poll(r) PROVE TypeOK'
  BY <1>4 DEF Poll, PendingEventIds, Pollable
<1>5. ASSUME NEW r \in Relays, Stop(r) PROVE TypeOK'
  BY <1>5, HelpersType DEF Stop, Exit
<1>6. ASSUME NEW r \in Relays, Claim(r) PROVE TypeOK'
  <2>1. PICK x \in batch[r] :
           \/ NextRow(r, batch[r] \ {x}) /\ UNCHANGED lock
           \/ /\ lock' = [lock EXCEPT ![x] = r]
              /\ row' = [row EXCEPT ![r] = x]
              /\ batch' = [batch EXCEPT ![r] = @ \ {x}]
              /\ pc' = [pc EXCEPT ![r] = "publish"]
              /\ UNCHANGED <<exc, copies>>
    BY <1>6 DEF Claim
  <2>2. x \in Rows /\ batch[r] \ {x} \in SUBSET Rows
    OBVIOUS
  <2>3. UNCHANGED <<table, sns, arn, shutdown, left>>
    BY <1>6 DEF Claim
  <2>4. CASE NextRow(r, batch[r] \ {x}) /\ UNCHANGED lock
    BY <2>2, <2>3, <2>4, HelpersType
  <2>5. CASE /\ lock' = [lock EXCEPT ![x] = r]
              /\ row' = [row EXCEPT ![r] = x]
              /\ batch' = [batch EXCEPT ![r] = @ \ {x}]
              /\ pc' = [pc EXCEPT ![r] = "publish"]
              /\ UNCHANGED <<exc, copies>>
    BY <2>2, <2>3, <2>5
  <2>. QED BY <2>1, <2>4, <2>5
<1>7. ASSUME NEW r \in Relays, ResolveTopic(r) PROVE TypeOK'
  BY <1>7 DEF ResolveTopic, Resolve
<1>8. ASSUME NEW r \in Relays, SnsAccept(r) PROVE TypeOK'
  BY <1>8, SpendType DEF SnsAccept, FaultKinds, OutboxInv
<1>9. ASSUME NEW r \in Relays, PublishReturns(r) PROVE TypeOK'
  BY <1>9 DEF PublishReturns
<1>10. ASSUME NEW r \in Relays, PublishRejected(r) PROVE TypeOK'
  BY <1>10, HelpersType, AnswerAssumption, ExceptionsType DEF PublishRejected, OutboxInv
<1>11. ASSUME NEW r \in Relays, PublishNotFound(r) PROVE TypeOK'
  BY <1>11, SpendType, HelpersType, ExceptionsType DEF PublishNotFound, FaultKinds
<1>12. ASSUME NEW r \in Relays, Commit(r) PROVE TypeOK'
  BY <1>12, HelpersType DEF Commit, WithRowPublished, OutboxInv
<1>13. ASSUME NEW r \in Relays, CommitOnLostSession(r) PROVE TypeOK'
  BY <1>13, HelpersType, ExceptionsType DEF CommitOnLostSession
<1>14. ASSUME NEW r \in Relays, RecordFailure(r) PROVE TypeOK'
  BY <1>14, HelpersType, RecordType DEF RecordFailure
<1>15. ASSUME NEW r \in Relays, HandleSignal(r) PROVE TypeOK'
  BY <1>15, SpendType DEF HandleSignal, FaultKinds
<1>16. ASSUME NEW r \in Relays, ClaimRaises(r) PROVE TypeOK'
  BY <1>16, SpendType DEF ClaimRaises, Exceptions, FaultKinds
<1>17. ASSUME NEW r \in Relays, PublishNoAnswer(r) PROVE TypeOK'
  BY <1>17, SpendType, HelpersType, ExceptionsType DEF PublishNoAnswer, FaultKinds
<1>18. ASSUME NEW r \in Relays, CommitRaises(r) PROVE TypeOK'
  BY <1>18, SpendType, HelpersType, ExceptionsType
  DEF CommitRaises, WithRowPublished, FaultKinds, OutboxInv
<1>19. ASSUME NEW r \in Relays, RecordRaises(r) PROVE TypeOK'
  BY <1>19, SpendType, HelpersType, RecordType DEF RecordRaises, FaultKinds
<1>20. ASSUME NEW r \in Relays, Crash(r) PROVE TypeOK'
  BY <1>20, SpendType, HelpersType DEF Crash, Exit, FaultKinds
<1>21. ASSUME NEW r \in Relays, SessionLost(r) PROVE TypeOK'
  BY <1>21, SpendType, HelpersType DEF SessionLost, FaultKinds
<1>22. CASE LocalStackRestart
  BY <1>22, SpendType DEF LocalStackRestart, FaultKinds
<1>23. CASE Bootstrap
  BY <1>23 DEF Bootstrap
<1>24. CASE UNCHANGED vars
  BY <1>24 DEF vars
<1>. QED
  BY <1>1, <1>2, <1>3, <1>4, <1>5, <1>6, <1>7, <1>8, <1>9, <1>10, <1>11, <1>12,
     <1>13, <1>14, <1>15, <1>16, <1>17, <1>18, <1>19, <1>20, <1>21, <1>22,
     <1>23, <1>24
  DEF Next, RelayStep, RelayFault

-----------------------------------------------------------------------------
(* Preservation of the other parts. *)

LEMMA LockStep ==
    ASSUME TypeOK, LockInv, [Next]_vars
    PROVE  LockInv'
<1>. USE DEF TypeOK, table, sns, process, LockInv, Holding
<1>1. ASSUME NEW x \in Rows, InsertRow(x) PROVE LockInv'
  BY <1>1 DEF InsertRow
<1>2. ASSUME NEW x \in Rows, ClearFailedAt(x) PROVE LockInv'
  BY <1>2 DEF ClearFailedAt
<1>3. ASSUME NEW r \in Relays, Start(r) PROVE LockInv'
  BY <1>3 DEF Start
<1>4. ASSUME NEW r \in Relays, Poll(r) PROVE LockInv'
  BY <1>4 DEF Poll
<1>5. ASSUME NEW r \in Relays, Stop(r) PROVE LockInv'
  BY <1>5 DEF Stop, Exit, Released
<1>6. ASSUME NEW r \in Relays, Claim(r) PROVE LockInv'
  BY <1>6 DEF Claim, NextRow
<1>7. ASSUME NEW r \in Relays, ResolveTopic(r) PROVE LockInv'
  BY <1>7 DEF ResolveTopic
<1>8. ASSUME NEW r \in Relays, SnsAccept(r) PROVE LockInv'
  BY <1>8 DEF SnsAccept
<1>9. ASSUME NEW r \in Relays, PublishReturns(r) PROVE LockInv'
  BY <1>9 DEF PublishReturns
<1>10. ASSUME NEW r \in Relays, PublishRejected(r) PROVE LockInv'
  BY <1>10, RelaysAssumption DEF PublishRejected, Raise, Released
<1>11. ASSUME NEW r \in Relays, PublishNotFound(r) PROVE LockInv'
  BY <1>11, RelaysAssumption DEF PublishNotFound, Raise, Released
<1>12. ASSUME NEW r \in Relays, Commit(r) PROVE LockInv'
  BY <1>12, RelaysAssumption DEF Commit, NextRow, Released
<1>13. ASSUME NEW r \in Relays, CommitOnLostSession(r) PROVE LockInv'
  BY <1>13 DEF CommitOnLostSession, Raise, Released
<1>14. ASSUME NEW r \in Relays, RecordFailure(r) PROVE LockInv'
  BY <1>14 DEF RecordFailure, NextRow
<1>15. ASSUME NEW r \in Relays, HandleSignal(r) PROVE LockInv'
  BY <1>15 DEF HandleSignal
<1>16. ASSUME NEW r \in Relays, ClaimRaises(r) PROVE LockInv'
  BY <1>16 DEF ClaimRaises
<1>17. ASSUME NEW r \in Relays, PublishNoAnswer(r) PROVE LockInv'
  BY <1>17, RelaysAssumption DEF PublishNoAnswer, Raise, Released
<1>18. ASSUME NEW r \in Relays, CommitRaises(r) PROVE LockInv'
  BY <1>18, RelaysAssumption DEF CommitRaises, Raise, Released
<1>19. ASSUME NEW r \in Relays, RecordRaises(r) PROVE LockInv'
  BY <1>19 DEF RecordRaises, NextRow
<1>20. ASSUME NEW r \in Relays, Crash(r) PROVE LockInv'
  BY <1>20, RelaysAssumption DEF Crash, Exit, Released
<1>21. ASSUME NEW r \in Relays, SessionLost(r) PROVE LockInv'
  BY <1>21, RelaysAssumption DEF SessionLost, Released
<1>22. CASE LocalStackRestart
  BY <1>22 DEF LocalStackRestart
<1>23. CASE Bootstrap
  BY <1>23 DEF Bootstrap
<1>24. CASE UNCHANGED vars
  BY <1>24 DEF vars
<1>. QED
  BY <1>1, <1>2, <1>3, <1>4, <1>5, <1>6, <1>7, <1>8, <1>9, <1>10, <1>11, <1>12,
     <1>13, <1>14, <1>15, <1>16, <1>17, <1>18, <1>19, <1>20, <1>21, <1>22,
     <1>23, <1>24
  DEF Next, RelayStep, RelayFault

LEMMA OutboxStep ==
    ASSUME TypeOK, OutboxInv, [Next]_vars
    PROVE  OutboxInv'
<1>. USE DEF TypeOK, table, sns, process, OutboxInv
<1>1. ASSUME NEW x \in Rows, InsertRow(x) PROVE OutboxInv'
  BY <1>1 DEF InsertRow
<1>2. ASSUME NEW x \in Rows, ClearFailedAt(x) PROVE OutboxInv'
  BY <1>2 DEF ClearFailedAt
<1>3. ASSUME NEW r \in Relays, Start(r) PROVE OutboxInv'
  BY <1>3 DEF Start
<1>4. ASSUME NEW r \in Relays, Poll(r) PROVE OutboxInv'
  BY <1>4 DEF Poll, PendingEventIds, Pollable
<1>5. ASSUME NEW r \in Relays, Stop(r) PROVE OutboxInv'
  BY <1>5 DEF Stop, Exit
<1>6. ASSUME NEW r \in Relays, Claim(r) PROVE OutboxInv'
  BY <1>6 DEF Claim, NextRow
<1>7. ASSUME NEW r \in Relays, ResolveTopic(r) PROVE OutboxInv'
  BY <1>7 DEF ResolveTopic
<1>8. ASSUME NEW r \in Relays, SnsAccept(r) PROVE OutboxInv'
  BY <1>8 DEF SnsAccept
<1>9. ASSUME NEW r \in Relays, PublishReturns(r) PROVE OutboxInv'
  BY <1>9 DEF PublishReturns
<1>10. ASSUME NEW r \in Relays, PublishRejected(r) PROVE OutboxInv'
  BY <1>10 DEF PublishRejected, Raise
<1>11. ASSUME NEW r \in Relays, PublishNotFound(r) PROVE OutboxInv'
  BY <1>11 DEF PublishNotFound, Raise
<1>12. ASSUME NEW r \in Relays, Commit(r) PROVE OutboxInv'
  BY <1>12 DEF Commit, NextRow, WithRowPublished
<1>13. ASSUME NEW r \in Relays, CommitOnLostSession(r) PROVE OutboxInv'
  BY <1>13 DEF CommitOnLostSession, Raise
<1>14. ASSUME NEW r \in Relays, RecordFailure(r) PROVE OutboxInv'
  BY <1>14 DEF RecordFailure, NextRow
<1>15. ASSUME NEW r \in Relays, HandleSignal(r) PROVE OutboxInv'
  BY <1>15 DEF HandleSignal
<1>16. ASSUME NEW r \in Relays, ClaimRaises(r) PROVE OutboxInv'
  BY <1>16 DEF ClaimRaises
<1>17. ASSUME NEW r \in Relays, PublishNoAnswer(r) PROVE OutboxInv'
  BY <1>17 DEF PublishNoAnswer, Raise
<1>18. ASSUME NEW r \in Relays, CommitRaises(r) PROVE OutboxInv'
  BY <1>18 DEF CommitRaises, Raise, WithRowPublished
<1>19. ASSUME NEW r \in Relays, RecordRaises(r) PROVE OutboxInv'
  BY <1>19 DEF RecordRaises, NextRow
<1>20. ASSUME NEW r \in Relays, Crash(r) PROVE OutboxInv'
  BY <1>20 DEF Crash, Exit
<1>21. ASSUME NEW r \in Relays, SessionLost(r) PROVE OutboxInv'
  BY <1>21 DEF SessionLost
<1>22. CASE LocalStackRestart
  BY <1>22 DEF LocalStackRestart
<1>23. CASE Bootstrap
  BY <1>23 DEF Bootstrap
<1>24. CASE UNCHANGED vars
  BY <1>24 DEF vars
<1>. QED
  BY <1>1, <1>2, <1>3, <1>4, <1>5, <1>6, <1>7, <1>8, <1>9, <1>10, <1>11, <1>12,
     <1>13, <1>14, <1>15, <1>16, <1>17, <1>18, <1>19, <1>20, <1>21, <1>22,
     <1>23, <1>24
  DEF Next, RelayStep, RelayFault

LEMMA SentStep ==
    ASSUME TypeOK, SentInv, OutboxInv, [Next]_vars
    PROVE  SentInv'
<1>. USE DEF TypeOK, table, sns, process, SentInv, PublishedWasSent, Holding
<1>1. ASSUME NEW x \in Rows, InsertRow(x) PROVE SentInv'
  BY <1>1 DEF InsertRow
<1>2. ASSUME NEW x \in Rows, ClearFailedAt(x) PROVE SentInv'
  BY <1>2 DEF ClearFailedAt
<1>3. ASSUME NEW r \in Relays, Start(r) PROVE SentInv'
  BY <1>3 DEF Start
<1>4. ASSUME NEW r \in Relays, Poll(r) PROVE SentInv'
  BY <1>4 DEF Poll
<1>5. ASSUME NEW r \in Relays, Stop(r) PROVE SentInv'
  BY <1>5 DEF Stop, Exit
<1>6. ASSUME NEW r \in Relays, Claim(r) PROVE SentInv'
  BY <1>6 DEF Claim, NextRow
<1>7. ASSUME NEW r \in Relays, ResolveTopic(r) PROVE SentInv'
  BY <1>7 DEF ResolveTopic
<1>8. ASSUME NEW r \in Relays, SnsAccept(r) PROVE SentInv'
  BY <1>8 DEF SnsAccept, OutboxInv
<1>9. ASSUME NEW r \in Relays, PublishReturns(r) PROVE SentInv'
  BY <1>9 DEF PublishReturns
<1>10. ASSUME NEW r \in Relays, PublishRejected(r) PROVE SentInv'
  BY <1>10 DEF PublishRejected, Raise
<1>11. ASSUME NEW r \in Relays, PublishNotFound(r) PROVE SentInv'
  BY <1>11 DEF PublishNotFound, Raise
<1>12. ASSUME NEW r \in Relays, Commit(r) PROVE SentInv'
  BY <1>12 DEF Commit, NextRow, WithRowPublished
<1>13. ASSUME NEW r \in Relays, CommitOnLostSession(r) PROVE SentInv'
  BY <1>13 DEF CommitOnLostSession, Raise
<1>14. ASSUME NEW r \in Relays, RecordFailure(r) PROVE SentInv'
  BY <1>14 DEF RecordFailure, NextRow
<1>15. ASSUME NEW r \in Relays, HandleSignal(r) PROVE SentInv'
  BY <1>15 DEF HandleSignal
<1>16. ASSUME NEW r \in Relays, ClaimRaises(r) PROVE SentInv'
  BY <1>16 DEF ClaimRaises
<1>17. ASSUME NEW r \in Relays, PublishNoAnswer(r) PROVE SentInv'
  BY <1>17 DEF PublishNoAnswer, Raise
<1>18. ASSUME NEW r \in Relays, CommitRaises(r) PROVE SentInv'
  BY <1>18 DEF CommitRaises, Raise, WithRowPublished
<1>19. ASSUME NEW r \in Relays, RecordRaises(r) PROVE SentInv'
  BY <1>19 DEF RecordRaises, NextRow
<1>20. ASSUME NEW r \in Relays, Crash(r) PROVE SentInv'
  BY <1>20 DEF Crash, Exit
<1>21. ASSUME NEW r \in Relays, SessionLost(r) PROVE SentInv'
  BY <1>21 DEF SessionLost
<1>22. CASE LocalStackRestart
  BY <1>22 DEF LocalStackRestart
<1>23. CASE Bootstrap
  BY <1>23 DEF Bootstrap
<1>24. CASE UNCHANGED vars
  BY <1>24 DEF vars
<1>. QED
  BY <1>1, <1>2, <1>3, <1>4, <1>5, <1>6, <1>7, <1>8, <1>9, <1>10, <1>11, <1>12,
     <1>13, <1>14, <1>15, <1>16, <1>17, <1>18, <1>19, <1>20, <1>21, <1>22,
     <1>23, <1>24
  DEF Next, RelayStep, RelayFault

LEMMA TopicStep ==
    ASSUME TypeOK, TopicInv, SentInv, [Next]_vars
    PROVE  TopicInv'
<1>. USE DEF TypeOK, table, sns, process, TopicInv, Holding
<1>1. ASSUME NEW x \in Rows, InsertRow(x) PROVE TopicInv'
  BY <1>1 DEF InsertRow
<1>2. ASSUME NEW x \in Rows, ClearFailedAt(x) PROVE TopicInv'
  BY <1>2 DEF ClearFailedAt, Spend
<1>3. ASSUME NEW r \in Relays, Start(r) PROVE TopicInv'
  BY <1>3 DEF Start, Resolve, Spend, FaultKinds
<1>4. ASSUME NEW r \in Relays, Poll(r) PROVE TopicInv'
  BY <1>4 DEF Poll
<1>5. ASSUME NEW r \in Relays, Stop(r) PROVE TopicInv'
  BY <1>5 DEF Stop, Exit
<1>6. ASSUME NEW r \in Relays, Claim(r) PROVE TopicInv'
  BY <1>6 DEF Claim, NextRow, SentInv
<1>7. ASSUME NEW r \in Relays, ResolveTopic(r) PROVE TopicInv'
  BY <1>7 DEF ResolveTopic, Resolve
<1>8. ASSUME NEW r \in Relays, SnsAccept(r) PROVE TopicInv'
  BY <1>8 DEF SnsAccept, Spend, FaultKinds
<1>9. ASSUME NEW r \in Relays, PublishReturns(r) PROVE TopicInv'
  BY <1>9 DEF PublishReturns
<1>10. ASSUME NEW r \in Relays, PublishRejected(r) PROVE TopicInv'
  BY <1>10 DEF PublishRejected, Raise
<1>11. ASSUME NEW r \in Relays, PublishNotFound(r) PROVE TopicInv'
  BY <1>11 DEF PublishNotFound, Spend, FaultKinds
<1>12. ASSUME NEW r \in Relays, Commit(r) PROVE TopicInv'
  BY <1>12 DEF Commit, NextRow, WithRowPublished, SentInv
<1>13. ASSUME NEW r \in Relays, CommitOnLostSession(r) PROVE TopicInv'
  BY <1>13 DEF CommitOnLostSession, Raise
<1>14. ASSUME NEW r \in Relays, RecordFailure(r) PROVE TopicInv'
  BY <1>14 DEF RecordFailure, NextRow
<1>15. ASSUME NEW r \in Relays, HandleSignal(r) PROVE TopicInv'
  BY <1>15 DEF HandleSignal, Spend
<1>16. ASSUME NEW r \in Relays, ClaimRaises(r) PROVE TopicInv'
  BY <1>16 DEF ClaimRaises, Spend, SentInv
<1>17. ASSUME NEW r \in Relays, PublishNoAnswer(r) PROVE TopicInv'
  BY <1>17 DEF PublishNoAnswer, Spend, Raise
<1>18. ASSUME NEW r \in Relays, CommitRaises(r) PROVE TopicInv'
  BY <1>18 DEF CommitRaises, Spend, Raise, WithRowPublished, SentInv
<1>19. ASSUME NEW r \in Relays, RecordRaises(r) PROVE TopicInv'
  BY <1>19 DEF RecordRaises, Spend, NextRow
<1>20. ASSUME NEW r \in Relays, Crash(r) PROVE TopicInv'
  BY <1>20 DEF Crash, Spend, Exit
<1>21. ASSUME NEW r \in Relays, SessionLost(r) PROVE TopicInv'
  BY <1>21 DEF SessionLost, Spend
<1>22. CASE LocalStackRestart
  BY <1>22, BudgetAssumption DEF LocalStackRestart, Spend, FaultKinds
<1>23. CASE Bootstrap
  BY <1>23 DEF Bootstrap
<1>24. CASE UNCHANGED vars
  BY <1>24 DEF vars
<1>. QED
  BY <1>1, <1>2, <1>3, <1>4, <1>5, <1>6, <1>7, <1>8, <1>9, <1>10, <1>11, <1>12,
     <1>13, <1>14, <1>15, <1>16, <1>17, <1>18, <1>19, <1>20, <1>21, <1>22,
     <1>23, <1>24
  DEF Next, RelayStep, RelayFault

-----------------------------------------------------------------------------
(* The invariant, and what follows from it. *)

LEMMA InvInit == Init => IInv
<1>. SUFFICES ASSUME Init PROVE IInv
  OBVIOUS
<1>1. TypeOK
  BY TypeInit
<1>2. LockInv /\ OutboxInv /\ SentInv
  BY RelaysAssumption
  DEF Init, LockInv, OutboxInv, SentInv, PublishedWasSent, Holding
<1>3. TopicInv
  BY BudgetAssumption
  DEF Init, TopicInv, TopicAtStart, Holding, FaultKinds
<1>. QED BY <1>1, <1>2, <1>3 DEF IInv

LEMMA InvStep == IInv /\ [Next]_vars => IInv'
BY TypeStep, LockStep, OutboxStep, SentStep, TopicStep DEF IInv

\* The inductive invariant of the relay.
THEOREM Inductive == Spec => []IInv
BY InvInit, InvStep, PTL DEF Spec

\* Every variable keeps its type, whatever fails and however often.
THEOREM TypeCorrect == Spec => []TypeOK
<1>1. IInv => TypeOK
  BY DEF IInv
<1>. QED BY <1>1, Inductive, PTL

\* No row says published without SNS having taken a copy of it.
THEOREM NothingLostSilently == Spec => []PublishedWasSent
<1>1. IInv => PublishedWasSent
  BY DEF IInv, SentInv
<1>. QED BY <1>1, Inductive, PTL

\* Gated on the bootstrap, relays publish to nobody only after a restart of
\* LocalStack.
THEOREM NoVoid == Spec => []VoidNeedsARestart
<1>1. IInv => VoidNeedsARestart
  BY BudgetAssumption
  DEF IInv, TypeOK, TopicInv, VoidNeedsARestart, Spent, FaultKinds
<1>. QED BY <1>1, Inductive, PTL

-----------------------------------------------------------------------------
(* The relay implements the hand-off contract. *)

LEMMA HandoffInit == Init => Handoff!Init
BY DEF Init, Handoff!Init

LEMMA HandoffStep == IInv /\ [Next]_vars => [Handoff!Next]_(Handoff!contract)
<1>. SUFFICES ASSUME IInv, [Next]_vars
              PROVE  [Handoff!Next]_(Handoff!contract)
  OBVIOUS
<1>. USE DEF Handoff!contract, table, sns, process
<1>. DEFINE Same == UNCHANGED <<outbox, sent, published, failed_at>>
<1>1. ASSUME NEW x \in Rows, InsertRow(x) PROVE Handoff!HandOver(x)
  BY <1>1 DEF InsertRow, Handoff!HandOver
<1>2. ASSUME NEW x \in Rows, ClearFailedAt(x) PROVE Handoff!Revive(x)
  BY <1>2 DEF ClearFailedAt, Handoff!Revive
<1>3. ASSUME NEW r \in Relays, SnsAccept(r)
      PROVE  row[r] \in Rows /\ Handoff!Deliver(row[r])
  BY <1>3 DEF SnsAccept, IInv, TypeOK, OutboxInv, Handoff!Deliver
<1>4. ASSUME NEW r \in Relays, Commit(r)
      PROVE  row[r] \in Rows /\ Handoff!Settle(row[r])
  BY <1>4 DEF Commit, WithRowPublished, IInv, TypeOK, OutboxInv, SentInv, Handoff!Settle
<1>5. ASSUME NEW r \in Relays, CommitRaises(r)
      PROVE  Same \/ (row[r] \in Rows /\ Handoff!Settle(row[r]))
  BY <1>5
  DEF CommitRaises, WithRowPublished, IInv, TypeOK, OutboxInv, SentInv, Handoff!Settle
<1>6. ASSUME NEW r \in Relays, pc[r] = "record", CountAndPark(r),
             UNCHANGED <<outbox, published, sns>>
      PROVE  Same \/ (row[r] \in Rows /\ Handoff!GiveUp(row[r]))
  BY <1>6 DEF CountAndPark, IInv, TypeOK, OutboxInv, Handoff!GiveUp
<1>7. ASSUME NEW r \in Relays, RecordFailure(r) \/ RecordRaises(r)
      PROVE  Same \/ (row[r] \in Rows /\ Handoff!GiveUp(row[r]))
  BY <1>6, <1>7 DEF RecordFailure, RecordRaises
<1>8. ASSUME NEW r \in Relays,
             \/ Start(r) \/ Poll(r) \/ Stop(r) \/ Claim(r) \/ ResolveTopic(r)
             \/ PublishReturns(r) \/ PublishRejected(r) \/ PublishNotFound(r)
             \/ CommitOnLostSession(r) \/ HandleSignal(r) \/ ClaimRaises(r)
             \/ PublishNoAnswer(r) \/ Crash(r) \/ SessionLost(r)
      PROVE  Same
  BY <1>8
  DEF Start, Poll, Stop, Claim, ResolveTopic, PublishReturns, PublishRejected,
      PublishNotFound, CommitOnLostSession, HandleSignal, ClaimRaises,
      PublishNoAnswer, Crash, SessionLost
<1>9. CASE LocalStackRestart \/ Bootstrap \/ UNCHANGED vars
  BY <1>9 DEF LocalStackRestart, Bootstrap, vars
<1>. QED
  BY <1>1, <1>2, <1>3, <1>4, <1>5, <1>7, <1>8, <1>9
  DEF Next, RelayStep, RelayFault, Handoff!Next

\* Every behaviour of the relays is one of the at-least-once contract: rows
\* are sent before they are settled, and given up on without being forgotten.
THEOREM ImplementsHandoff == Spec => HandoffSafe
BY Inductive, HandoffInit, HandoffStep, PTL DEF Spec, HandoffSafe, Handoff!Spec

-----------------------------------------------------------------------------
(* How stale a polled batch can get. *)

\* The row a relay works on has left its batch.
FreshInv == \A r \in Relays :
    /\ row[r] \notin batch[r]
    /\ pc[r] \in {"down", "idle", "claim"} => row[r] = NoRow

\* The relays that may still fail on x: they polled it, or work on it.
Users(x) == {r \in Relays : x \in batch[r] \/ row[r] = x}

\* Each failure on x uses up one of them, and none joins an exhausted row.
AttemptsInv == \A x \in Rows :
    attempts[x] + Cardinality(Users(x)) < OUTBOX_MAX_ATTEMPTS + Cardinality(Relays)

\* With one relay, nobody has a parked row in hand that is not published.
ParkedInv == \A x \in failed_at \ published, r \in Relays :
    x \notin batch[r] /\ (Holding(r) => row[r] # x)

OneRelay == \A r, s \in Relays : r = s

LEMMA FreshStep ==
    ASSUME TypeOK, FreshInv, [Next]_vars
    PROVE  FreshInv'
<1>. USE DEF TypeOK, table, sns, process, FreshInv
<1>1. ASSUME NEW x \in Rows, InsertRow(x) PROVE FreshInv'
  BY <1>1 DEF InsertRow
<1>2. ASSUME NEW x \in Rows, ClearFailedAt(x) PROVE FreshInv'
  BY <1>2 DEF ClearFailedAt
<1>3. ASSUME NEW r \in Relays, Start(r) PROVE FreshInv'
  BY <1>3 DEF Start
<1>4. ASSUME NEW r \in Relays, Poll(r) PROVE FreshInv'
  BY <1>4, RowsAssumption DEF Poll, PendingEventIds, Pollable
<1>5. ASSUME NEW r \in Relays, Stop(r) PROVE FreshInv'
  BY <1>5 DEF Stop, Exit
<1>6. ASSUME NEW r \in Relays, Claim(r) PROVE FreshInv'
  BY <1>6 DEF Claim, NextRow
<1>7. ASSUME NEW r \in Relays, ResolveTopic(r) PROVE FreshInv'
  BY <1>7 DEF ResolveTopic
<1>8. ASSUME NEW r \in Relays, SnsAccept(r) PROVE FreshInv'
  BY <1>8 DEF SnsAccept
<1>9. ASSUME NEW r \in Relays, PublishReturns(r) PROVE FreshInv'
  BY <1>9 DEF PublishReturns
<1>10. ASSUME NEW r \in Relays, PublishRejected(r) PROVE FreshInv'
  BY <1>10 DEF PublishRejected, Raise
<1>11. ASSUME NEW r \in Relays, PublishNotFound(r) PROVE FreshInv'
  BY <1>11 DEF PublishNotFound, Raise
<1>12. ASSUME NEW r \in Relays, Commit(r) PROVE FreshInv'
  BY <1>12, RowsAssumption DEF Commit, NextRow
<1>13. ASSUME NEW r \in Relays, CommitOnLostSession(r) PROVE FreshInv'
  BY <1>13 DEF CommitOnLostSession, Raise
<1>14. ASSUME NEW r \in Relays, RecordFailure(r) PROVE FreshInv'
  BY <1>14, RowsAssumption DEF RecordFailure, NextRow
<1>15. ASSUME NEW r \in Relays, HandleSignal(r) PROVE FreshInv'
  BY <1>15 DEF HandleSignal
<1>16. ASSUME NEW r \in Relays, ClaimRaises(r) PROVE FreshInv'
  BY <1>16 DEF ClaimRaises
<1>17. ASSUME NEW r \in Relays, PublishNoAnswer(r) PROVE FreshInv'
  BY <1>17 DEF PublishNoAnswer, Raise
<1>18. ASSUME NEW r \in Relays, CommitRaises(r) PROVE FreshInv'
  BY <1>18 DEF CommitRaises, Raise
<1>19. ASSUME NEW r \in Relays, RecordRaises(r) PROVE FreshInv'
  BY <1>19 DEF RecordRaises, NextRow
<1>20. ASSUME NEW r \in Relays, Crash(r) PROVE FreshInv'
  BY <1>20 DEF Crash, Exit
<1>21. ASSUME NEW r \in Relays, SessionLost(r) PROVE FreshInv'
  BY <1>21 DEF SessionLost
<1>22. CASE LocalStackRestart
  BY <1>22 DEF LocalStackRestart
<1>23. CASE Bootstrap
  BY <1>23 DEF Bootstrap
<1>24. CASE UNCHANGED vars
  BY <1>24 DEF vars
<1>. QED
  BY <1>1, <1>2, <1>3, <1>4, <1>5, <1>6, <1>7, <1>8, <1>9, <1>10, <1>11, <1>12,
     <1>13, <1>14, <1>15, <1>16, <1>17, <1>18, <1>19, <1>20, <1>21, <1>22,
     <1>23, <1>24
  DEF Next, RelayStep, RelayFault

LEMMA ParkedStep ==
    ASSUME TypeOK, OutboxInv, LockInv, FreshInv, ParkedInv, OneRelay, [Next]_vars
    PROVE  ParkedInv'
<1>. USE DEF TypeOK, table, sns, process, ParkedInv, FreshInv, OutboxInv, OneRelay, Holding
<1>1. ASSUME NEW x \in Rows, InsertRow(x) PROVE ParkedInv'
  BY <1>1 DEF InsertRow
<1>2. ASSUME NEW x \in Rows, ClearFailedAt(x) PROVE ParkedInv'
  BY <1>2 DEF ClearFailedAt
<1>3. ASSUME NEW r \in Relays, Start(r) PROVE ParkedInv'
  BY <1>3 DEF Start
<1>4. ASSUME NEW r \in Relays, Poll(r) PROVE ParkedInv'
  BY <1>4 DEF Poll, PendingEventIds, Pollable
<1>5. ASSUME NEW r \in Relays, Stop(r) PROVE ParkedInv'
  BY <1>5 DEF Stop, Exit
<1>6. ASSUME NEW r \in Relays, Claim(r) PROVE ParkedInv'
  <2>1. PICK x \in batch[r] :
           /\ batch' = [batch EXCEPT ![r] = @ \ {x}]
           /\ Holding(r)' => x \notin published /\ row' = [row EXCEPT ![r] = x]
    BY <1>6 DEF Claim, NextRow, Claimable
  <2>2. x \in published \/ x \notin failed_at
    OBVIOUS
  <2>3. UNCHANGED <<failed_at, published>>
    BY <1>6 DEF Claim
  <2>. QED BY <2>1, <2>2, <2>3
<1>7. ASSUME NEW r \in Relays, ResolveTopic(r) PROVE ParkedInv'
  BY <1>7 DEF ResolveTopic
<1>8. ASSUME NEW r \in Relays, SnsAccept(r) PROVE ParkedInv'
  BY <1>8 DEF SnsAccept
<1>9. ASSUME NEW r \in Relays, PublishReturns(r) PROVE ParkedInv'
  BY <1>9 DEF PublishReturns
<1>10. ASSUME NEW r \in Relays, PublishRejected(r) PROVE ParkedInv'
  BY <1>10 DEF PublishRejected, Raise
<1>11. ASSUME NEW r \in Relays, PublishNotFound(r) PROVE ParkedInv'
  BY <1>11 DEF PublishNotFound, Raise
<1>12. ASSUME NEW r \in Relays, Commit(r) PROVE ParkedInv'
  BY <1>12 DEF Commit, NextRow, WithRowPublished
<1>13. ASSUME NEW r \in Relays, CommitOnLostSession(r) PROVE ParkedInv'
  BY <1>13 DEF CommitOnLostSession, Raise
<1>14. ASSUME NEW r \in Relays, RecordFailure(r) PROVE ParkedInv'
  BY <1>14 DEF RecordFailure, NextRow, CountAndPark
<1>15. ASSUME NEW r \in Relays, HandleSignal(r) PROVE ParkedInv'
  BY <1>15 DEF HandleSignal
<1>16. ASSUME NEW r \in Relays, ClaimRaises(r) PROVE ParkedInv'
  <2>1. PICK x \in batch[r] :
           /\ batch' = [batch EXCEPT ![r] = @ \ {x}]
           /\ Holding(r)' => x \notin published /\ row' = [row EXCEPT ![r] = x]
    BY <1>16 DEF ClaimRaises
  <2>2. x \in published \/ x \notin failed_at
    OBVIOUS
  <2>3. UNCHANGED <<failed_at, published>>
    BY <1>16 DEF ClaimRaises
  <2>. QED BY <2>1, <2>2, <2>3
<1>17. ASSUME NEW r \in Relays, PublishNoAnswer(r) PROVE ParkedInv'
  BY <1>17 DEF PublishNoAnswer, Raise
<1>18. ASSUME NEW r \in Relays, CommitRaises(r) PROVE ParkedInv'
  BY <1>18 DEF CommitRaises, Raise, WithRowPublished
<1>19. ASSUME NEW r \in Relays, RecordRaises(r) PROVE ParkedInv'
  BY <1>19 DEF RecordRaises, NextRow
<1>20. ASSUME NEW r \in Relays, Crash(r) PROVE ParkedInv'
  BY <1>20 DEF Crash, Exit
<1>21. ASSUME NEW r \in Relays, SessionLost(r) PROVE ParkedInv'
  BY <1>21 DEF SessionLost
<1>22. CASE LocalStackRestart
  BY <1>22 DEF LocalStackRestart
<1>23. CASE Bootstrap
  BY <1>23 DEF Bootstrap
<1>24. CASE UNCHANGED vars
  BY <1>24 DEF vars
<1>. QED
  BY <1>1, <1>2, <1>3, <1>4, <1>5, <1>6, <1>7, <1>8, <1>9, <1>10, <1>11, <1>12,
     <1>13, <1>14, <1>15, <1>16, <1>17, <1>18, <1>19, <1>20, <1>21, <1>22,
     <1>23, <1>24
  DEF Next, RelayStep, RelayFault

LEMMA UsersFinite ==
    ASSUME NEW x
    PROVE  /\ IsFiniteSet(Users(x))
           /\ Cardinality(Users(x)) \in Nat
           /\ Cardinality(Users(x)) <= Cardinality(Relays)
           /\ Cardinality(Relays) \in Nat
<1>1. Users(x) \in SUBSET Relays
  BY DEF Users
<1>. QED BY <1>1, RelaysAssumption, FS_Subset, FS_CardinalityType

\* What a step does to the attempts and the users of one row.
NoNewUser(x) == attempts'[x] = attempts[x] /\ Users(x)' \subseteq Users(x)
PolledInTime(x) == attempts'[x] = attempts[x] /\ attempts[x] < OUTBOX_MAX_ATTEMPTS
OneFailure(x) == \E r \in Users(x) :
    attempts'[x] = attempts[x] + 1 /\ Users(x)' \subseteq Users(x) \ {r}

LEMMA CountedFailure ==
    ASSUME TypeOK, OutboxInv, FreshInv, NEW r \in Relays, NEW x \in Rows,
           pc[r] = "record", CountAndPark(r) \/ UNCHANGED attempts,
           NEW rest \in SUBSET batch[r], NextRow(r, rest)
    PROVE  NoNewUser(x) \/ OneFailure(x)
<1>1. Users(x)' \subseteq Users(x)
  BY RowsAssumption DEF TypeOK, NextRow, Users
<1>2. CASE UNCHANGED attempts \/ row[r] # x
  BY <1>1, <1>2 DEF TypeOK, CountAndPark, NoNewUser
<1>3. CASE row[r] = x /\ CountAndPark(r)
  <2>1. r \in Users(x) /\ r \notin Users(x)'
    BY <1>3, RowsAssumption DEF TypeOK, NextRow, FreshInv, Users
  <2>2. attempts'[x] = attempts[x] + 1
    BY <1>3 DEF TypeOK, CountAndPark
  <2>. QED BY <1>1, <2>1, <2>2 DEF OneFailure
<1>. QED BY <1>2, <1>3

LEMMA UsersStep ==
    ASSUME TypeOK, OutboxInv, FreshInv, [Next]_vars, NEW x \in Rows
    PROVE  NoNewUser(x) \/ PolledInTime(x) \/ OneFailure(x)
<1>. USE DEF TypeOK, table, sns, process
<1>1. ASSUME NEW r \in Relays, Poll(r) PROVE NoNewUser(x) \/ PolledInTime(x)
  BY <1>1 DEF Poll, PendingEventIds, Pollable, Users, NoNewUser, PolledInTime
<1>2. ASSUME NEW r \in Relays, RecordFailure(r) PROVE NoNewUser(x) \/ OneFailure(x)
  <2>1. PICK rest \in SUBSET batch[r] : NextRow(r, rest)
    BY <1>2 DEF RecordFailure
  <2>. QED BY <1>2, <2>1, CountedFailure DEF RecordFailure
<1>3. ASSUME NEW r \in Relays, RecordRaises(r) PROVE NoNewUser(x) \/ OneFailure(x)
  <2>1. {} \in SUBSET batch[r] /\ NextRow(r, {})
    BY <1>3 DEF RecordRaises
  <2>. QED BY <1>3, <2>1, CountedFailure DEF RecordRaises
<1>4. ASSUME NEW r \in Relays, Start(r) PROVE NoNewUser(x)
  BY <1>4 DEF Start, NoNewUser, Users
<1>5. ASSUME NEW r \in Relays, Stop(r) PROVE NoNewUser(x)
  BY <1>5, RowsAssumption DEF Stop, Exit, NoNewUser, Users
<1>6. ASSUME NEW r \in Relays, Claim(r) PROVE NoNewUser(x)
  BY <1>6, RowsAssumption DEF Claim, NextRow, NoNewUser, Users
<1>7. ASSUME NEW r \in Relays, ResolveTopic(r) PROVE NoNewUser(x)
  BY <1>7 DEF ResolveTopic, NoNewUser, Users
<1>8. ASSUME NEW r \in Relays, SnsAccept(r) PROVE NoNewUser(x)
  BY <1>8 DEF SnsAccept, NoNewUser, Users
<1>9. ASSUME NEW r \in Relays, PublishReturns(r) PROVE NoNewUser(x)
  BY <1>9 DEF PublishReturns, NoNewUser, Users
<1>10. ASSUME NEW r \in Relays, PublishRejected(r) PROVE NoNewUser(x)
  BY <1>10 DEF PublishRejected, Raise, NoNewUser, Users
<1>11. ASSUME NEW r \in Relays, PublishNotFound(r) PROVE NoNewUser(x)
  BY <1>11 DEF PublishNotFound, Raise, NoNewUser, Users
<1>12. ASSUME NEW r \in Relays, Commit(r) PROVE NoNewUser(x)
  BY <1>12, RowsAssumption DEF Commit, NextRow, NoNewUser, Users
<1>13. ASSUME NEW r \in Relays, CommitOnLostSession(r) PROVE NoNewUser(x)
  BY <1>13 DEF CommitOnLostSession, Raise, NoNewUser, Users
<1>14. ASSUME NEW r \in Relays, HandleSignal(r) PROVE NoNewUser(x)
  BY <1>14 DEF HandleSignal, NoNewUser, Users
<1>15. ASSUME NEW r \in Relays, ClaimRaises(r) PROVE NoNewUser(x)
  BY <1>15 DEF ClaimRaises, NoNewUser, Users
<1>16. ASSUME NEW r \in Relays, PublishNoAnswer(r) PROVE NoNewUser(x)
  BY <1>16 DEF PublishNoAnswer, Raise, NoNewUser, Users
<1>17. ASSUME NEW r \in Relays, CommitRaises(r) PROVE NoNewUser(x)
  BY <1>17 DEF CommitRaises, Raise, NoNewUser, Users
<1>18. ASSUME NEW r \in Relays, Crash(r) PROVE NoNewUser(x)
  BY <1>18, RowsAssumption DEF Crash, Exit, NoNewUser, Users
<1>19. ASSUME NEW r \in Relays, SessionLost(r) PROVE NoNewUser(x)
  BY <1>19 DEF SessionLost, NoNewUser, Users
<1>20. CASE \/ \E y \in Rows : InsertRow(y) \/ ClearFailedAt(y)
             \/ LocalStackRestart \/ Bootstrap \/ UNCHANGED vars
  BY <1>20
  DEF InsertRow, ClearFailedAt, LocalStackRestart, Bootstrap, vars, NoNewUser,
      Users
<1>. QED
  BY <1>1, <1>2, <1>3, <1>4, <1>5, <1>6, <1>7, <1>8, <1>9, <1>10, <1>11, <1>12,
     <1>13, <1>14, <1>15, <1>16, <1>17, <1>18, <1>19, <1>20
  DEF Next, RelayStep, RelayFault

LEMMA AttemptsStep ==
    ASSUME TypeOK, TypeOK', OutboxInv, FreshInv, AttemptsInv, [Next]_vars
    PROVE  AttemptsInv'
<1>. SUFFICES ASSUME NEW x \in Rows
              PROVE  attempts'[x] + Cardinality(Users(x)')
                         < OUTBOX_MAX_ATTEMPTS + Cardinality(Relays)
  BY DEF AttemptsInv
<1>. DEFINE U == Users(x)
            V == Users(x)'
<1>1. /\ IsFiniteSet(U) /\ Cardinality(U) \in Nat
      /\ IsFiniteSet(V) /\ Cardinality(V) \in Nat
      /\ Cardinality(V) <= Cardinality(Relays) /\ Cardinality(Relays) \in Nat
  <2>1. V \in SUBSET Relays
    BY DEF Users
  <2>. QED BY <2>1, UsersFinite, RelaysAssumption, FS_Subset, FS_CardinalityType
<1>2. attempts[x] \in Nat /\ attempts'[x] \in Nat /\ OUTBOX_MAX_ATTEMPTS \in Nat
  BY LimitsAssumption DEF TypeOK
<1>3. attempts[x] + Cardinality(U) < OUTBOX_MAX_ATTEMPTS + Cardinality(Relays)
  BY DEF AttemptsInv
<1>. HIDE DEF U, V
<1>4. CASE attempts'[x] = attempts[x] /\ V \subseteq U
  <2>1. Cardinality(V) <= Cardinality(U)
    BY <1>1, <1>4, FS_Subset
  <2>. QED BY <1>1, <1>2, <1>3, <1>4, <2>1 DEF V
<1>5. CASE attempts'[x] = attempts[x] /\ attempts[x] < OUTBOX_MAX_ATTEMPTS
  BY <1>1, <1>2, <1>5 DEF V
<1>6. ASSUME NEW r \in U, attempts'[x] = attempts[x] + 1, V \subseteq U \ {r}
      PROVE  attempts'[x] + Cardinality(V) < OUTBOX_MAX_ATTEMPTS + Cardinality(Relays)
  <2>1. /\ IsFiniteSet(U \ {r})
        /\ Cardinality(U \ {r}) = Cardinality(U) - 1
    BY <1>1, FS_RemoveElement
  <2>2. Cardinality(V) <= Cardinality(U \ {r})
    BY <1>6, <2>1, FS_Subset
  <2>. QED BY <1>1, <1>2, <1>3, <1>6, <2>1, <2>2
<1>. QED
  BY <1>4, <1>5, <1>6, UsersStep DEF NoNewUser, PolledInTime, OneFailure, U, V

StaleInv == IInv /\ FreshInv /\ AttemptsInv

LEMMA StaleInit == Init => StaleInv
<1>. SUFFICES ASSUME Init PROVE StaleInv
  OBVIOUS
<1>1. FreshInv
  BY RowsAssumption DEF Init, FreshInv
<1>2. ASSUME NEW x \in Rows
      PROVE  attempts[x] + Cardinality(Users(x)) < OUTBOX_MAX_ATTEMPTS + Cardinality(Relays)
  BY UsersFinite, LimitsAssumption DEF Init
<1>. QED BY <1>1, <1>2, InvInit DEF StaleInv, AttemptsInv

LEMMA StaleStep == StaleInv /\ [Next]_vars => StaleInv'
<1>. SUFFICES ASSUME StaleInv, [Next]_vars PROVE StaleInv'
  OBVIOUS
<1>1. IInv' /\ TypeOK'
  BY InvStep DEF StaleInv, IInv
<1>2. FreshInv' /\ AttemptsInv'
  BY <1>1, FreshStep, AttemptsStep DEF StaleInv, IInv
<1>. QED BY <1>1, <1>2 DEF StaleInv

\* However many relays hold a stale batch, and however often a human clears a
\* row, a row fails at most once per relay after it is exhausted.
THEOREM AttemptsAreBounded == Spec => []AttemptsBounded
<1>1. StaleInv => AttemptsBounded
  <2>. SUFFICES ASSUME StaleInv, NEW x \in Rows
                PROVE  attempts[x] < OUTBOX_MAX_ATTEMPTS + Cardinality(Relays)
    BY DEF AttemptsBounded
  <2>1. Cardinality(Users(x)) \in Nat /\ Cardinality(Relays) \in Nat
    BY UsersFinite
  <2>2. attempts[x] + Cardinality(Users(x)) < OUTBOX_MAX_ATTEMPTS + Cardinality(Relays)
    BY DEF StaleInv, AttemptsInv
  <2>3. attempts[x] \in Nat /\ OUTBOX_MAX_ATTEMPTS \in Nat
    BY LimitsAssumption DEF StaleInv, IInv, TypeOK
  <2>. QED BY <2>1, <2>2, <2>3
<1>. QED BY <1>1, StaleInit, StaleStep, PTL DEF Spec

\* One relay keeps the promise on parked rows that several can break.
THEOREM ParkedStaysUnpublished == OneRelay => (Spec => ParkedNeverPublished)
<1>. DEFINE Inv == StaleInv /\ ParkedInv
            Kept == \A x \in Rows : x \in failed_at /\ x \notin published => x \notin published'
<1>. SUFFICES ASSUME OneRelay PROVE Spec => ParkedNeverPublished
  OBVIOUS
<1>1. Init => Inv
  BY StaleInit DEF Init, ParkedInv
<1>2. Inv /\ [Next]_vars => Inv'
  BY StaleStep, ParkedStep DEF StaleInv, IInv
<1>3. Inv /\ [Next]_vars => [Kept]_vars
  <2>. SUFFICES ASSUME Inv, Next, NEW x \in Rows, x \in failed_at, x \notin published
                PROVE  x \notin published'
    OBVIOUS
  <2>1. ASSUME NEW r \in Relays, Commit(r) \/ CommitRaises(r) PROVE x \notin published'
    BY <2>1 DEF Commit, CommitRaises, WithRowPublished, ParkedInv, Holding
  <2>2. \/ UNCHANGED published
        \/ \E r \in Relays : Commit(r) \/ CommitRaises(r)
    BY DEF Next, RelayStep, RelayFault, InsertRow, ClearFailedAt, Start, Poll, Stop,
           Claim, ResolveTopic, SnsAccept, PublishReturns, PublishRejected,
           PublishNotFound, CommitOnLostSession, RecordFailure, HandleSignal,
           ClaimRaises, PublishNoAnswer, RecordRaises, Crash, SessionLost,
           LocalStackRestart, Bootstrap, table
  <2>. QED BY <2>1, <2>2
<1>. QED BY <1>1, <1>2, <1>3, PTL DEF Spec, ParkedNeverPublished

-----------------------------------------------------------------------------
(* The poll. *)

Older(x) == {y \in Pollable : y < x}

LEMMA OlderNested ==
    ASSUME Pollable \subseteq Nat, NEW x \in Pollable, NEW y \in Pollable, x <= y
    PROVE  Older(x) \subseteq Older(y)
<1>. SUFFICES ASSUME NEW z \in Older(x) PROVE z \in Older(y)
  OBVIOUS
<1>1. z \in Pollable /\ z < x
  BY DEF Older
<1>2. z \in Nat /\ x \in Nat /\ y \in Nat
  BY <1>1
<1>3. z < y
  BY <1>1, <1>2
<1>. QED BY <1>1, <1>3 DEF Older

\* Each pollable row has its place in the line, and each place its row.
LEMMA PlacesInLine ==
    ASSUME TypeOK
    PROVE  /\ IsFiniteSet(Pollable) /\ Cardinality(Pollable) \in Nat
           /\ [x \in Pollable |-> Cardinality(Older(x))]
                \in Bijection(Pollable, 0 .. (Cardinality(Pollable) - 1))
<1>. DEFINE n == Cardinality(Pollable)
            place == [x \in Pollable |-> Cardinality(Older(x))]
            Places == {place[x] : x \in Pollable}
<1>1. Pollable \in SUBSET Rows /\ Pollable \subseteq Nat
  BY RowsAssumption DEF Pollable, TypeOK
<1>2. IsFiniteSet(Pollable) /\ n \in Nat
  BY <1>1, RowsAssumption, FS_Subset, FS_CardinalityType
<1>3. ASSUME NEW x \in Pollable
      PROVE  IsFiniteSet(Older(x)) /\ place[x] \in 0 .. (n - 1)
  <2>1. Older(x) \in SUBSET Pollable /\ Older(x) # Pollable
    BY <1>1 DEF Older
  <2>2. IsFiniteSet(Older(x)) /\ Cardinality(Older(x)) <= n /\ Cardinality(Older(x)) # n
    BY <1>2, <2>1, FS_Subset
  <2>3. Cardinality(Older(x)) \in Nat
    BY <2>2, FS_CardinalityType
  <2>. QED BY <1>2, <2>2, <2>3
<1>4. ASSUME NEW x \in Pollable, NEW y \in Pollable, x < y PROVE place[x] # place[y]
  <2>1. x \in Older(y) /\ x \notin Older(x)
    BY <1>1, <1>4 DEF Older
  <2>2. Older(x) \subseteq Older(y)
    BY <1>1, <1>4, OlderNested
  <2>3. Older(x) \in SUBSET Older(y)
    BY <2>2
  <2>. QED BY <1>3, <2>1, <2>3, FS_Subset
<1>5. \A x, y \in Pollable : place[x] = place[y] => x = y
  BY <1>1, <1>4
<1>6. place \in Surjection(Pollable, Places) /\ place \in Injection(Pollable, Places)
  BY <1>5 DEF Surjection, Injection, IsInjective
<1>7. IsFiniteSet(Places) /\ Cardinality(Places) = n
  BY <1>2, <1>6, FS_Surjection
<1>8. IsFiniteSet(0 .. (n - 1)) /\ Cardinality(0 .. (n - 1)) = n
  BY <1>2, FS_Interval
<1>9. Places \in SUBSET (0 .. (n - 1))
  BY <1>3
<1>10. Places = 0 .. (n - 1)
  BY <1>7, <1>8, <1>9, FS_Subset
<1>. QED BY <1>2, <1>6, <1>10 DEF Bijection

\* pending_event_ids returns the oldest pollable rows, as many as there are or
\* RELAY_BATCH_SIZE of them: a full batch leaves only younger rows behind.
THEOREM PollTakesTheOldest ==
    ASSUME TypeOK
    PROVE  /\ \A x \in PendingEventIds, y \in Pollable \ PendingEventIds : x < y
           /\ Cardinality(PendingEventIds)
                = IF Cardinality(Pollable) <= RELAY_BATCH_SIZE THEN Cardinality(Pollable)
                                                               ELSE RELAY_BATCH_SIZE
<1>. DEFINE n == Cardinality(Pollable)
            k == IF n <= RELAY_BATCH_SIZE THEN n ELSE RELAY_BATCH_SIZE
            place == [x \in Pollable |-> Cardinality(Older(x))]
            first == [x \in PendingEventIds |-> place[x]]
<1>1. IsFiniteSet(Pollable) /\ n \in Nat /\ place \in Bijection(Pollable, 0 .. (n - 1))
  BY PlacesInLine
<1>2. Pollable \in SUBSET Rows /\ Pollable \subseteq Nat /\ RELAY_BATCH_SIZE \in Nat
  BY RowsAssumption, LimitsAssumption DEF Pollable, TypeOK
<1>3. PendingEventIds = {x \in Pollable : place[x] < RELAY_BATCH_SIZE}
  BY DEF PendingEventIds, Older
<1>4. ASSUME NEW x \in PendingEventIds, NEW y \in Pollable \ PendingEventIds PROVE x < y
  <2>. SUFFICES ASSUME y <= x PROVE FALSE
    BY <1>2, <1>3
  <2>1. Older(x) \in SUBSET Pollable /\ Older(y) \subseteq Older(x)
    BY <1>2, <1>3, OlderNested DEF Older
  <2>2. Cardinality(Older(y)) <= Cardinality(Older(x))
    BY <1>1, <2>1, FS_Subset
  <2>3. place[x] \in Nat /\ place[y] \in Nat
    BY <1>1, <1>3 DEF Bijection, Injection
  <2>. QED BY <1>2, <1>3, <2>2, <2>3
<1>5. first \in Surjection(PendingEventIds, 0 .. (k - 1))
  <2>1. ASSUME NEW x \in PendingEventIds PROVE first[x] \in 0 .. (k - 1)
    BY <1>1, <1>2, <1>3 DEF Bijection, Injection
  <2>2. ASSUME NEW i \in 0 .. (k - 1) PROVE \E x \in PendingEventIds : first[x] = i
    <3>1. i \in 0 .. (n - 1) /\ i < RELAY_BATCH_SIZE
      BY <1>1, <1>2
    <3>2. PICK x \in Pollable : place[x] = i
      BY <1>1, <3>1 DEF Bijection, Surjection
    <3>. QED BY <1>3, <3>1, <3>2
  <2>. QED BY <2>1, <2>2 DEF Surjection
<1>6. first \in Injection(PendingEventIds, 0 .. (k - 1))
  BY <1>1, <1>3, <1>5 DEF Bijection, Injection, Surjection, IsInjective
<1>7. IsFiniteSet(PendingEventIds)
  BY <1>1, <1>3, FS_Subset
<1>8. Cardinality(PendingEventIds) = Cardinality(0 .. (k - 1))
  BY <1>5, <1>6, <1>7, FS_Surjection
<1>9. Cardinality(0 .. (k - 1)) = k
  <2>1. k \in Nat /\ 0 \in Int /\ k - 1 \in Int
    BY <1>1, <1>2
  <2>. QED BY <2>1, FS_Interval
<1>. QED BY <1>4, <1>8, <1>9

=============================================================================
