------------------------ MODULE OutboxRelayCostProofs ------------------------
(***************************************************************************)
(* What the relay's failures cost, for every number of rows, relays and    *)
(* faults: one duplicate for each lapse at most, one more relay on a row   *)
(* for each session lost, an operator's clearing for each row in limbo,    *)
(* and OUTBOX_MAX_ATTEMPTS failures of its own before a row SNS would      *)
(* accept is parked.                                                       *)
(***************************************************************************)
EXTENDS OutboxRelayProofs

\* Relays that hold the lock of a row they sent a copy of: the copy will be
\* that of a published row, or the relay will lapse.
Working == {r \in Relays : copies[r] > 0 /\ lock[row[r]] = r}

\* Relays that lost their session before they sent a copy of their row: the
\* lapse that will pay for the copy is already counted.
Doomed == {r \in Relays : Holding(r) /\ copies[r] = 0 /\ lock[row[r]] # r}

CopyInv ==
    /\ IsFiniteSet(Taken)
    /\ \A r \in Relays : copies[r] > 0 => Answer[row[r]] = "ok"
    /\ \A x \in published : lock[x] = NoRelay
    /\ Cardinality(Taken) + Cardinality(Doomed)
         <= Cardinality(published) + Cardinality(Working) + Lapses

-----------------------------------------------------------------------------
(* Counting. *)

LEMMA SetsFinite ==
    /\ IsFiniteSet(Working) /\ Cardinality(Working) \in Nat
    /\ IsFiniteSet(Working') /\ Cardinality(Working') \in Nat
    /\ IsFiniteSet(Doomed) /\ Cardinality(Doomed) \in Nat
    /\ IsFiniteSet(Doomed') /\ Cardinality(Doomed') \in Nat
    /\ \A S \in SUBSET Rows : IsFiniteSet(S) /\ Cardinality(S) \in Nat
<1>1. Working \in SUBSET Relays /\ Working' \in SUBSET Relays
  BY DEF Working
<1>2. Doomed \in SUBSET Relays /\ Doomed' \in SUBSET Relays
  BY DEF Doomed
<1>. QED BY <1>1, <1>2, RelaysAssumption, RowsAssumption, FS_Subset, FS_CardinalityType

\* One element less, at most.
LEMMA AllButOne ==
    ASSUME NEW S, NEW T, NEW e, IsFiniteSet(S), IsFiniteSet(T), S \ {e} \subseteq T
    PROVE  Cardinality(S) <= Cardinality(T) + 1
<1>1. IsFiniteSet(T \cup {e}) /\ S \subseteq T \cup {e}
  BY FS_Union, FS_Singleton
<1>2. Cardinality(S) <= Cardinality(T \cup {e})
  BY <1>1, FS_Subset
<1>3. Cardinality(T \cup {e}) <= Cardinality(T) + 1
  <2>1. Cardinality(T) \in Nat
    BY FS_CardinalityType
  <2>2. CASE e \in T
    <3>1. T \cup {e} = T
      BY <2>2
    <3>. QED BY <2>1, <3>1
  <2>3. CASE e \notin T
    <3>1. Cardinality(T \cup {e}) = Cardinality(T) + 1
      BY <2>3, FS_AddElement
    <3>. QED BY <2>1, <3>1
  <2>. QED BY <2>2, <2>3
<1>. QED
  BY <1>1, <1>2, <1>3, FS_CardinalityType

LEMMA SpentType ==
    /\ TypeOK => \A k \in FaultKinds : Spent(k) \in Int
    /\ TypeOK' => \A k \in FaultKinds : Spent(k)' \in Int
BY BudgetAssumption DEF TypeOK, Spent

LEMMA SpentByOne ==
    ASSUME TypeOK, NEW kind \in FaultKinds, Spend(kind)
    PROVE  /\ Spent(kind)' = Spent(kind) + 1
           /\ \A k \in FaultKinds \ {kind} : Spent(k)' = Spent(k)
<1>1. /\ left'[kind] = left[kind] - 1
      /\ \A k \in FaultKinds \ {kind} : left'[k] = left[k]
  BY DEF TypeOK, Spend
<1>2. \A k \in FaultKinds : Budget[k] \in Nat /\ left[k] \in Nat
  BY BudgetAssumption DEF TypeOK
<1>. QED BY <1>1, <1>2 DEF Spent

LEMMA SpentOnOthers ==
    ASSUME TypeOK, NEW kind \in FaultKinds,
           UNCHANGED left \/ \E k \in FaultKinds \ {kind} : Spend(k)
    PROVE  Spent(kind)' = Spent(kind)
BY SpentByOne DEF Spent

Lapse == {"crash", "noAnswer", "ackLost", "dbError", "sessionLost"}

LEMMA LapseCounts ==
    ASSUME TypeOK, NEW kind \in Lapse, Spend(kind)
    PROVE  Lapses' = Lapses + 1
<1>1. /\ kind \in FaultKinds /\ left'[kind] = left[kind] - 1
      /\ \A k \in FaultKinds \ {kind} : left'[k] = left[k]
      /\ Lapse \subseteq FaultKinds
  BY DEF TypeOK, Spend, Lapse, FaultKinds
<1>2. \A k \in Lapse : Budget[k] \in Nat /\ left[k] \in Nat
  BY <1>1, BudgetAssumption DEF TypeOK
<1>3. /\ Spent(kind)' = Spent(kind) + 1
      /\ \A k \in Lapse \ {kind} : Spent(k)' = Spent(k)
      /\ \A k \in Lapse : Spent(k) \in Int
  BY <1>1, <1>2 DEF Spent
<1>4. CASE kind = "crash"
  BY <1>3, <1>4 DEF Lapses, Lapse
<1>5. CASE kind = "noAnswer"
  BY <1>3, <1>5 DEF Lapses, Lapse
<1>6. CASE kind = "ackLost"
  BY <1>3, <1>6 DEF Lapses, Lapse
<1>7. CASE kind = "dbError"
  BY <1>3, <1>7 DEF Lapses, Lapse
<1>8. CASE kind = "sessionLost"
  BY <1>3, <1>8 DEF Lapses, Lapse
<1>. QED BY <1>4, <1>5, <1>6, <1>7, <1>8 DEF Lapse

LEMMA OthersDoNot ==
    ASSUME TypeOK, UNCHANGED left \/ \E kind \in FaultKinds \ Lapse : Spend(kind)
    PROVE  Lapses' = Lapses
<1>1. \A k \in Lapse : left'[k] = left[k]
  BY DEF TypeOK, Spend, Lapse, FaultKinds
<1>. QED BY <1>1 DEF Lapses, Spent, Lapse

LEMMA LapsesType ==
    /\ TypeOK => Lapses \in Int
    /\ TypeOK' => Lapses' \in Int
<1>1. TypeOK => \A k \in Lapse : Budget[k] \in Nat /\ left[k] \in Nat
  BY BudgetAssumption DEF TypeOK, Lapse, FaultKinds
<1>2. TypeOK' => \A k \in Lapse : Budget[k] \in Nat /\ left'[k] \in Nat
  BY BudgetAssumption DEF TypeOK, Lapse, FaultKinds
<1>. QED BY <1>1, <1>2 DEF Lapses, Spent, Lapse

-----------------------------------------------------------------------------
(* Every copy is accounted for. *)

\* A step that sends nothing and owes nothing, and one that owes a lapse.
Calm ==
    /\ Taken' = Taken /\ published' = published
    /\ Doomed' \subseteq Doomed /\ Working \subseteq Working'
    /\ Lapses' >= Lapses

Lapsed(r) ==
    /\ Taken' = Taken /\ published \subseteq published'
    /\ Doomed' \subseteq Doomed /\ Working \ {r} \subseteq Working'
    /\ Lapses' = Lapses + 1

Balance ==
    Cardinality(Taken) + Cardinality(Doomed)
        <= Cardinality(published) + Cardinality(Working) + Lapses

LEMMA CalmBalance ==
    ASSUME TypeOK, TypeOK', CopyInv, Calm
    PROVE  IsFiniteSet(Taken') /\ Balance'
<1>1. IsFiniteSet(Taken) /\ Cardinality(Taken') = Cardinality(Taken) /\ Cardinality(Taken) \in Nat
  BY FS_CardinalityType DEF CopyInv, Calm
<1>2. Cardinality(Doomed') <= Cardinality(Doomed) /\ Cardinality(Working) <= Cardinality(Working')
  BY SetsFinite, FS_Subset DEF Calm
<1>3. Cardinality(published') = Cardinality(published) /\ Cardinality(published) \in Nat
  BY SetsFinite DEF Calm, TypeOK
<1>4. Lapses \in Int /\ Lapses' \in Int
  BY LapsesType
<1>. QED BY <1>1, <1>2, <1>3, <1>4, SetsFinite DEF CopyInv, Calm, Balance

LEMMA LapsedBalance ==
    ASSUME TypeOK, TypeOK', CopyInv, NEW r \in Relays, Lapsed(r)
    PROVE  IsFiniteSet(Taken') /\ Balance'
<1>1. IsFiniteSet(Taken) /\ Cardinality(Taken') = Cardinality(Taken) /\ Cardinality(Taken) \in Nat
  BY FS_CardinalityType DEF CopyInv, Lapsed
<1>2. Cardinality(Doomed') <= Cardinality(Doomed)
  BY SetsFinite, FS_Subset DEF Lapsed
<1>3. Cardinality(Working) <= Cardinality(Working') + 1
  BY SetsFinite, AllButOne DEF Lapsed
<1>4. /\ Cardinality(published) <= Cardinality(published')
      /\ Cardinality(published) \in Nat /\ Cardinality(published') \in Nat
  BY SetsFinite, FS_Subset DEF Lapsed, TypeOK
<1>5. Lapses \in Int /\ Lapses' \in Int
  BY LapsesType
<1>. QED BY <1>1, <1>2, <1>3, <1>4, <1>5, SetsFinite DEF CopyInv, Lapsed, Balance

LEMMA OneMoreNumber == \A k \in Nat : 1 .. (k + 1) = (1 .. k) \cup {k + 1}
OBVIOUS

LEMMA SameCopies == UNCHANGED sent => Taken' = Taken
BY DEF Taken

LEMMA CopyFacts ==
    IInv /\ CopyInv /\ [Next]_vars =>
        /\ \A r \in Relays : copies'[r] > 0 => Answer[row'[r]] = "ok"
        /\ \A x \in published' : lock'[x] = NoRelay
<1>. DEFINE Facts == /\ \A r \in Relays : copies[r] > 0 => Answer[row[r]] = "ok"
                     /\ \A x \in published : lock[x] = NoRelay
<1>. SUFFICES ASSUME IInv, CopyInv, [Next]_vars PROVE Facts'
  OBVIOUS
<1>. USE RelaysAssumption
     DEF IInv, TypeOK, LockInv, OutboxInv, SentInv, CopyInv, Holding, table, sns, process
<1>1. ASSUME NEW x \in Rows, InsertRow(x) PROVE Facts'
  BY <1>1 DEF InsertRow
<1>2. ASSUME NEW x \in Rows, ClearFailedAt(x) PROVE Facts'
  BY <1>2 DEF ClearFailedAt
<1>3. ASSUME NEW r \in Relays, Start(r) PROVE Facts'
  BY <1>3 DEF Start, Resolve
<1>4. ASSUME NEW r \in Relays, Poll(r) PROVE Facts'
  BY <1>4 DEF Poll
<1>5. ASSUME NEW r \in Relays, Stop(r) PROVE Facts'
  BY <1>5 DEF Stop, Exit, Released
<1>6. ASSUME NEW r \in Relays, Claim(r) PROVE Facts'
  BY <1>6 DEF Claim, Claimable, NextRow
<1>7. ASSUME NEW r \in Relays, ResolveTopic(r) PROVE Facts'
  BY <1>7 DEF ResolveTopic, Resolve
<1>8. ASSUME NEW r \in Relays, SnsAccept(r) PROVE Facts'
  BY <1>8 DEF SnsAccept
<1>9. ASSUME NEW r \in Relays, PublishReturns(r) PROVE Facts'
  BY <1>9 DEF PublishReturns
<1>10. ASSUME NEW r \in Relays, PublishRejected(r) PROVE Facts'
  BY <1>10 DEF PublishRejected, Raise, Released
<1>11. ASSUME NEW r \in Relays, PublishNotFound(r) PROVE Facts'
  BY <1>11 DEF PublishNotFound, Raise, Released
<1>12. ASSUME NEW r \in Relays, Commit(r) PROVE Facts'
  BY <1>12 DEF Commit, NextRow, Released, WithRowPublished
<1>13. ASSUME NEW r \in Relays, CommitOnLostSession(r) PROVE Facts'
  BY <1>13 DEF CommitOnLostSession, Raise, Released
<1>14. ASSUME NEW r \in Relays, RecordFailure(r) PROVE Facts'
  BY <1>14 DEF RecordFailure, NextRow
<1>15. ASSUME NEW r \in Relays, HandleSignal(r) PROVE Facts'
  BY <1>15 DEF HandleSignal
<1>16. ASSUME NEW r \in Relays, ClaimRaises(r) PROVE Facts'
  BY <1>16 DEF ClaimRaises
<1>17. ASSUME NEW r \in Relays, PublishNoAnswer(r) PROVE Facts'
  BY <1>17 DEF PublishNoAnswer, Raise, Released
<1>18. ASSUME NEW r \in Relays, CommitRaises(r) PROVE Facts'
  BY <1>18 DEF CommitRaises, Raise, Released, WithRowPublished
<1>19. ASSUME NEW r \in Relays, RecordRaises(r) PROVE Facts'
  BY <1>19 DEF RecordRaises, NextRow
<1>20. ASSUME NEW r \in Relays, Crash(r) PROVE Facts'
  BY <1>20 DEF Crash, Exit, Released
<1>21. ASSUME NEW r \in Relays, SessionLost(r) PROVE Facts'
  BY <1>21 DEF SessionLost, Released
<1>22. ASSUME LocalStackRestart PROVE Facts'
  BY <1>22 DEF LocalStackRestart
<1>23. ASSUME Bootstrap PROVE Facts'
  BY <1>23 DEF Bootstrap
<1>24. CASE UNCHANGED vars
  BY <1>24 DEF vars
<1>. QED
  BY <1>1, <1>2, <1>3, <1>4, <1>5, <1>6, <1>7, <1>8, <1>9, <1>10,
     <1>11, <1>12, <1>13, <1>14, <1>15, <1>16, <1>17, <1>18, <1>19,
     <1>20, <1>21, <1>22, <1>23, <1>24
  DEF Next, RelayStep, RelayFault

LEMMA CopyStep == IInv /\ CopyInv /\ TypeOK' /\ [Next]_vars => CopyInv'
<1>. SUFFICES ASSUME IInv, CopyInv, TypeOK', [Next]_vars PROVE CopyInv'
  OBVIOUS
<1>f. /\ \A r \in Relays : copies'[r] > 0 => Answer[row'[r]] = "ok"
      /\ \A x \in published' : lock'[x] = NoRelay
  BY CopyFacts
<1>. SUFFICES IsFiniteSet(Taken') /\ Balance'
  BY <1>f DEF CopyInv, Balance
<1>. USE RelaysAssumption
     DEF IInv, TypeOK, LockInv, OutboxInv, SentInv, Holding, table, sns, process
<1>1. ASSUME NEW x \in Rows, InsertRow(x) PROVE IsFiniteSet(Taken') /\ Balance'
  <2>1. Lapses' >= Lapses
    BY <1>1, OthersDoNot, LapseCounts, LapsesType DEF InsertRow, FaultKinds, Lapse
  <2>2. published' = published /\ Doomed' \subseteq Doomed /\ Working \subseteq Working'
    BY <1>1 DEF InsertRow, Doomed, Working, CopyInv
  <2>. QED BY <1>1, <2>1, <2>2, SameCopies, CalmBalance DEF Calm, InsertRow
<1>2. ASSUME NEW x \in Rows, ClearFailedAt(x) PROVE IsFiniteSet(Taken') /\ Balance'
  <2>1. Lapses' >= Lapses
    BY <1>2, OthersDoNot, LapseCounts, LapsesType DEF ClearFailedAt, FaultKinds, Lapse
  <2>2. published' = published /\ Doomed' \subseteq Doomed /\ Working \subseteq Working'
    BY <1>2 DEF ClearFailedAt, Doomed, Working, CopyInv
  <2>. QED BY <1>2, <2>1, <2>2, SameCopies, CalmBalance DEF Calm, ClearFailedAt
<1>3. ASSUME NEW r \in Relays, Start(r) PROVE IsFiniteSet(Taken') /\ Balance'
  <2>1. Lapses' >= Lapses
    BY <1>3, OthersDoNot, LapseCounts, LapsesType DEF Start, FaultKinds, Lapse
  <2>2. published' = published /\ Doomed' \subseteq Doomed /\ Working \subseteq Working'
    BY <1>3 DEF Start, Resolve, Doomed, Working, CopyInv
  <2>. QED BY <1>3, <2>1, <2>2, SameCopies, CalmBalance DEF Calm, Start
<1>4. ASSUME NEW r \in Relays, Poll(r) PROVE IsFiniteSet(Taken') /\ Balance'
  <2>1. Lapses' >= Lapses
    BY <1>4, OthersDoNot, LapseCounts, LapsesType DEF Poll, FaultKinds, Lapse
  <2>2. published' = published /\ Doomed' \subseteq Doomed /\ Working \subseteq Working'
    BY <1>4 DEF Poll, Doomed, Working, CopyInv
  <2>. QED BY <1>4, <2>1, <2>2, SameCopies, CalmBalance DEF Calm, Poll
<1>5. ASSUME NEW r \in Relays, Stop(r) PROVE IsFiniteSet(Taken') /\ Balance'
  <2>1. Lapses' >= Lapses
    BY <1>5, OthersDoNot, LapseCounts, LapsesType DEF Stop, FaultKinds, Lapse
  <2>2. published' = published /\ Doomed' \subseteq Doomed /\ Working \subseteq Working'
    BY <1>5 DEF Stop, Exit, Released, Doomed, Working, CopyInv
  <2>. QED BY <1>5, <2>1, <2>2, SameCopies, CalmBalance DEF Calm, Stop
<1>6. ASSUME NEW r \in Relays, Claim(r) PROVE IsFiniteSet(Taken') /\ Balance'
  <2>1. Lapses' >= Lapses
    BY <1>6, OthersDoNot, LapseCounts, LapsesType DEF Claim, FaultKinds, Lapse
  <2>2. published' = published /\ Doomed' \subseteq Doomed /\ Working \subseteq Working'
    BY <1>6 DEF Claim, Claimable, NextRow, Doomed, Working, CopyInv
  <2>. QED BY <1>6, <2>1, <2>2, SameCopies, CalmBalance DEF Calm, Claim
<1>7. ASSUME NEW r \in Relays, ResolveTopic(r) PROVE IsFiniteSet(Taken') /\ Balance'
  <2>1. Lapses' >= Lapses
    BY <1>7, OthersDoNot, LapseCounts, LapsesType DEF ResolveTopic, FaultKinds, Lapse
  <2>2. published' = published /\ Doomed' \subseteq Doomed /\ Working \subseteq Working'
    BY <1>7 DEF ResolveTopic, Resolve, Doomed, Working, CopyInv
  <2>. QED BY <1>7, <2>1, <2>2, SameCopies, CalmBalance DEF Calm, ResolveTopic
<1>8. ASSUME NEW r \in Relays, SnsAccept(r) PROVE IsFiniteSet(Taken') /\ Balance'
  <2>1. /\ Taken' = Taken \cup {<<row[r], sent[row[r]] + 1>>}
        /\ <<row[r], sent[row[r]] + 1>> \notin Taken
    <3>1. /\ row[r] \in Rows /\ sent'[row[r]] = sent[row[r]] + 1 /\ sent[row[r]] \in Nat
          /\ \A x \in Rows \ {row[r]} : sent'[x] = sent[x]
      BY <1>8 DEF SnsAccept
    <3>2. 1 .. sent'[row[r]] = (1 .. sent[row[r]]) \cup {sent[row[r]] + 1}
      BY <3>1, OneMoreNumber
    <3>3. ASSUME NEW c PROVE c \in Taken' <=> c \in Taken \cup {<<row[r], sent[row[r]] + 1>>}
      BY <3>1, <3>2 DEF Taken
    <3>4. <<row[r], sent[row[r]] + 1>> \notin Taken
      BY <3>1 DEF Taken
    <3>. QED BY <3>3, <3>4
  <2>2. /\ IsFiniteSet(Taken') /\ Cardinality(Taken') = Cardinality(Taken) + 1
        /\ Cardinality(Taken) \in Nat
    BY <2>1, FS_AddElement, FS_CardinalityType DEF CopyInv
  <2>3. published' = published /\ Cardinality(published) \in Nat
    BY <1>8, SetsFinite DEF SnsAccept
  <2>4. CASE copies[r] # 0
    <3>1. Lapses' = Lapses + 1
      BY <1>8, <2>4, LapseCounts DEF SnsAccept, Lapse
    <3>2. Doomed' = Doomed /\ Working' = Working
      BY <1>8, <2>4 DEF SnsAccept, Doomed, Working
    <3>. QED BY <2>2, <2>3, <3>1, <3>2, SetsFinite, LapsesType DEF CopyInv, Balance
  <2>5. CASE copies[r] = 0 /\ lock[row[r]] = r
    <3>1. Lapses' = Lapses
      BY <1>8, <2>5, OthersDoNot DEF SnsAccept
    <3>2. Doomed' = Doomed /\ Working' = Working \cup {r} /\ r \notin Working
      BY <1>8, <2>5 DEF SnsAccept, Doomed, Working
    <3>3. Cardinality(Working') = Cardinality(Working) + 1
      BY <3>2, SetsFinite, FS_AddElement
    <3>. QED BY <2>2, <2>3, <3>1, <3>2, <3>3, SetsFinite, LapsesType DEF CopyInv, Balance
  <2>6. CASE copies[r] = 0 /\ lock[row[r]] # r
    <3>1. Lapses' = Lapses
      BY <1>8, <2>6, OthersDoNot DEF SnsAccept
    <3>2. Doomed' = Doomed \ {r} /\ r \in Doomed /\ Working' = Working
      BY <1>8, <2>6 DEF SnsAccept, Doomed, Working
    <3>3. Cardinality(Doomed') = Cardinality(Doomed) - 1
      BY <3>2, SetsFinite, FS_RemoveElement
    <3>. QED BY <2>2, <2>3, <3>1, <3>2, <3>3, SetsFinite, LapsesType DEF CopyInv, Balance
  <2>. QED BY <2>4, <2>5, <2>6
<1>9. ASSUME NEW r \in Relays, PublishReturns(r) PROVE IsFiniteSet(Taken') /\ Balance'
  <2>1. Lapses' >= Lapses
    BY <1>9, OthersDoNot, LapseCounts, LapsesType DEF PublishReturns, FaultKinds, Lapse
  <2>2. published' = published /\ Doomed' \subseteq Doomed /\ Working \subseteq Working'
    BY <1>9 DEF PublishReturns, Doomed, Working, CopyInv
  <2>. QED BY <1>9, <2>1, <2>2, SameCopies, CalmBalance DEF Calm, PublishReturns
<1>10. ASSUME NEW r \in Relays, PublishRejected(r) PROVE IsFiniteSet(Taken') /\ Balance'
  <2>1. Lapses' >= Lapses
    BY <1>10, OthersDoNot, LapseCounts, LapsesType DEF PublishRejected, FaultKinds, Lapse
  <2>2. published' = published /\ Doomed' \subseteq Doomed /\ Working \subseteq Working'
    BY <1>10 DEF PublishRejected, Raise, Released, Doomed, Working, CopyInv
  <2>. QED BY <1>10, <2>1, <2>2, SameCopies, CalmBalance DEF Calm, PublishRejected
<1>11. ASSUME NEW r \in Relays, PublishNotFound(r) PROVE IsFiniteSet(Taken') /\ Balance'
  <2>1. CASE copies[r] = 0
    <3>1. Lapses' = Lapses
      BY <1>11, <2>1, OthersDoNot DEF PublishNotFound
    <3>2. published' = published /\ Doomed' \subseteq Doomed /\ Working \subseteq Working'
      BY <1>11, <2>1 DEF PublishNotFound, Raise, Released, Doomed, Working
    <3>. QED BY <1>11, <3>1, <3>2, SameCopies, CalmBalance, LapsesType DEF Calm, PublishNotFound
  <2>2. CASE copies[r] # 0
    <3>1. Lapses' = Lapses + 1
      BY <1>11, <2>2, LapseCounts DEF PublishNotFound, Lapse
    <3>2. published' = published /\ Doomed' \subseteq Doomed /\ Working \ {r} \subseteq Working'
      BY <1>11 DEF PublishNotFound, Raise, Released, Doomed, Working
    <3>. QED BY <1>11, <3>1, <3>2, SameCopies, LapsedBalance DEF Lapsed, PublishNotFound
  <2>. QED BY <2>1, <2>2
<1>12. ASSUME NEW r \in Relays, Commit(r) PROVE IsFiniteSet(Taken') /\ Balance'
  <2>1. /\ published' = published \cup {row[r]} /\ row[r] \notin published
        /\ Working' = Working \ {r} /\ Doomed' \subseteq Doomed
    BY <1>12 DEF Commit, NextRow, Released, WithRowPublished, Doomed, Working, CopyInv
  <2>2. /\ Cardinality(published') = Cardinality(published) + 1
        /\ Cardinality(published) \in Nat
    BY <2>1, SetsFinite, FS_AddElement
  <2>3. Cardinality(Working) <= Cardinality(Working') + 1
    BY <2>1, SetsFinite, AllButOne
  <2>4. Cardinality(Doomed') <= Cardinality(Doomed)
    BY <2>1, SetsFinite, FS_Subset
  <2>5. Lapses' = Lapses /\ Taken' = Taken /\ Cardinality(Taken) \in Nat
    BY <1>12, OthersDoNot, SameCopies, FS_CardinalityType DEF Commit, CopyInv
  <2>. QED BY <2>2, <2>3, <2>4, <2>5, SetsFinite, LapsesType DEF CopyInv, Balance
<1>13. ASSUME NEW r \in Relays, CommitOnLostSession(r) PROVE IsFiniteSet(Taken') /\ Balance'
  <2>1. Lapses' >= Lapses
    BY <1>13, OthersDoNot, LapseCounts, LapsesType DEF CommitOnLostSession, FaultKinds, Lapse
  <2>2. published' = published /\ Doomed' \subseteq Doomed /\ Working \subseteq Working'
    BY <1>13 DEF CommitOnLostSession, Raise, Released, Doomed, Working, CopyInv
  <2>. QED BY <1>13, <2>1, <2>2, SameCopies, CalmBalance DEF Calm, CommitOnLostSession
<1>14. ASSUME NEW r \in Relays, RecordFailure(r) PROVE IsFiniteSet(Taken') /\ Balance'
  <2>1. Lapses' >= Lapses
    BY <1>14, OthersDoNot, LapseCounts, LapsesType DEF RecordFailure, FaultKinds, Lapse
  <2>2. published' = published /\ Doomed' \subseteq Doomed /\ Working \subseteq Working'
    BY <1>14 DEF RecordFailure, NextRow, Doomed, Working, CopyInv
  <2>. QED BY <1>14, <2>1, <2>2, SameCopies, CalmBalance DEF Calm, RecordFailure
<1>15. ASSUME NEW r \in Relays, HandleSignal(r) PROVE IsFiniteSet(Taken') /\ Balance'
  <2>1. Lapses' >= Lapses
    BY <1>15, OthersDoNot, LapseCounts, LapsesType DEF HandleSignal, FaultKinds, Lapse
  <2>2. published' = published /\ Doomed' \subseteq Doomed /\ Working \subseteq Working'
    BY <1>15 DEF HandleSignal, Doomed, Working, CopyInv
  <2>. QED BY <1>15, <2>1, <2>2, SameCopies, CalmBalance DEF Calm, HandleSignal
<1>16. ASSUME NEW r \in Relays, ClaimRaises(r) PROVE IsFiniteSet(Taken') /\ Balance'
  <2>1. Lapses' >= Lapses
    BY <1>16, OthersDoNot, LapseCounts, LapsesType DEF ClaimRaises, FaultKinds, Lapse
  <2>2. published' = published /\ Doomed' \subseteq Doomed /\ Working \subseteq Working'
    BY <1>16 DEF ClaimRaises, Doomed, Working, CopyInv
  <2>. QED BY <1>16, <2>1, <2>2, SameCopies, CalmBalance DEF Calm, ClaimRaises
<1>17. ASSUME NEW r \in Relays, PublishNoAnswer(r) PROVE IsFiniteSet(Taken') /\ Balance'
  <2>1. Lapses' = Lapses + 1
    BY <1>17, LapseCounts DEF PublishNoAnswer, Lapse
  <2>2. published \subseteq published' /\ Doomed' \subseteq Doomed /\ Working \ {r} \subseteq Working'
    BY <1>17 DEF PublishNoAnswer, Raise, Released, Doomed, Working
  <2>. QED BY <1>17, <2>1, <2>2, SameCopies, LapsedBalance DEF Lapsed, PublishNoAnswer
<1>18. ASSUME NEW r \in Relays, CommitRaises(r) PROVE IsFiniteSet(Taken') /\ Balance'
  <2>1. Lapses' = Lapses + 1
    BY <1>18, LapseCounts DEF CommitRaises, Lapse
  <2>2. published \subseteq published' /\ Doomed' \subseteq Doomed /\ Working \ {r} \subseteq Working'
    BY <1>18 DEF CommitRaises, Raise, Released, WithRowPublished, Doomed, Working
  <2>. QED BY <1>18, <2>1, <2>2, SameCopies, LapsedBalance DEF Lapsed, CommitRaises
<1>19. ASSUME NEW r \in Relays, RecordRaises(r) PROVE IsFiniteSet(Taken') /\ Balance'
  <2>1. Lapses' >= Lapses
    BY <1>19, OthersDoNot, LapseCounts, LapsesType DEF RecordRaises, FaultKinds, Lapse
  <2>2. published' = published /\ Doomed' \subseteq Doomed /\ Working \subseteq Working'
    BY <1>19 DEF RecordRaises, NextRow, Doomed, Working, CopyInv
  <2>. QED BY <1>19, <2>1, <2>2, SameCopies, CalmBalance DEF Calm, RecordRaises
<1>20. ASSUME NEW r \in Relays, Crash(r) PROVE IsFiniteSet(Taken') /\ Balance'
  <2>1. Lapses' = Lapses + 1
    BY <1>20, LapseCounts DEF Crash, Lapse
  <2>2. published \subseteq published' /\ Doomed' \subseteq Doomed /\ Working \ {r} \subseteq Working'
    BY <1>20 DEF Crash, Exit, Released, Doomed, Working
  <2>. QED BY <1>20, <2>1, <2>2, SameCopies, LapsedBalance DEF Lapsed, Crash
<1>21. ASSUME NEW r \in Relays, SessionLost(r) PROVE IsFiniteSet(Taken') /\ Balance'
  <2>1. Lapses' = Lapses + 1
    BY <1>21, LapseCounts DEF SessionLost, Lapse
  <2>2. published' = published
    BY <1>21 DEF SessionLost
  <2>3. CASE copies[r] > 0
    <3>1. Doomed' \subseteq Doomed /\ Working \ {r} \subseteq Working'
      BY <1>21, <2>3 DEF SessionLost, Released, Doomed, Working
    <3>. QED BY <1>21, <2>1, <2>2, <3>1, SameCopies, LapsedBalance DEF Lapsed, SessionLost
  <2>4. CASE ~(copies[r] > 0)
    <3>1. Doomed' = Doomed \cup {r} /\ r \notin Doomed /\ Working' = Working
      BY <1>21, <2>4 DEF SessionLost, Released, Doomed, Working
    <3>2. Cardinality(Doomed') = Cardinality(Doomed) + 1
      BY <3>1, SetsFinite, FS_AddElement
    <3>3. Taken' = Taken /\ Cardinality(Taken) \in Nat /\ Cardinality(published) \in Nat
      BY <1>21, SameCopies, SetsFinite, FS_CardinalityType DEF SessionLost, CopyInv
    <3>. QED BY <2>1, <2>2, <3>1, <3>2, <3>3, SetsFinite, LapsesType DEF CopyInv, Balance
  <2>. QED BY <2>3, <2>4
<1>22. ASSUME LocalStackRestart PROVE IsFiniteSet(Taken') /\ Balance'
  <2>1. Lapses' >= Lapses
    BY <1>22, OthersDoNot, LapseCounts, LapsesType DEF LocalStackRestart, FaultKinds, Lapse
  <2>2. published' = published /\ Doomed' \subseteq Doomed /\ Working \subseteq Working'
    BY <1>22 DEF LocalStackRestart, Doomed, Working, CopyInv
  <2>. QED BY <1>22, <2>1, <2>2, SameCopies, CalmBalance DEF Calm, LocalStackRestart
<1>23. ASSUME Bootstrap PROVE IsFiniteSet(Taken') /\ Balance'
  <2>1. Lapses' >= Lapses
    BY <1>23, OthersDoNot, LapseCounts, LapsesType DEF Bootstrap, FaultKinds, Lapse
  <2>2. published' = published /\ Doomed' \subseteq Doomed /\ Working \subseteq Working'
    BY <1>23 DEF Bootstrap, Doomed, Working, CopyInv
  <2>. QED BY <1>23, <2>1, <2>2, SameCopies, CalmBalance DEF Calm, Bootstrap
<1>24. CASE UNCHANGED vars
  <2>1. Lapses' >= Lapses
    BY <1>24, OthersDoNot, LapseCounts, LapsesType DEF vars, FaultKinds, Lapse
  <2>2. published' = published /\ Doomed' \subseteq Doomed /\ Working \subseteq Working'
    BY <1>24 DEF vars, Doomed, Working, CopyInv
  <2>. QED BY <1>24, <2>1, <2>2, SameCopies, CalmBalance DEF Calm, vars
<1>. QED
  BY <1>1, <1>2, <1>3, <1>4, <1>5, <1>6, <1>7, <1>8, <1>9, <1>10,
     <1>11, <1>12, <1>13, <1>14, <1>15, <1>16, <1>17, <1>18, <1>19,
     <1>20, <1>21, <1>22, <1>23, <1>24
  DEF Next, RelayStep, RelayFault

LEMMA CopyInit == Init => CopyInv
<1>. SUFFICES ASSUME Init PROVE CopyInv
  OBVIOUS
<1>1. Taken = {} /\ Working = {} /\ Doomed = {}
  BY DEF Init, Taken, Working, Doomed, Holding
<1>2. published = {} /\ Lapses = 0
  BY BudgetAssumption DEF Init, Lapses, Spent, FaultKinds
<1>. QED BY <1>1, <1>2, FS_EmptySet DEF Init, CopyInv

\* The blast radius of one lapse of relay_one is one duplicate: every copy SNS
\* took is that of a published row or of a call in flight, or cost a crash, an
\* unanswered call, a lost acknowledgement, a database error or a session.
THEOREM CopiesAreAccounted == Spec => []EveryCopyAccounted
<1>1. IInv /\ CopyInv /\ [Next]_vars => CopyInv'
  BY InvStep, CopyStep DEF IInv
<1>2. IInv /\ CopyInv => EveryCopyAccounted
  <2>. SUFFICES ASSUME IInv, CopyInv PROVE EveryCopyAccounted
    OBVIOUS
  <2>. DEFINE InFlight == {r \in Relays : copies[r] > 0}
  <2>1. Working \subseteq InFlight /\ InFlight \subseteq Relays
    BY DEF Working
  <2>2. Cardinality(Working) <= Cardinality(InFlight) /\ Cardinality(InFlight) \in Nat
    BY <2>1, RelaysAssumption, FS_Subset, FS_CardinalityType
  <2>3. Cardinality(Taken) \in Nat /\ Cardinality(published) \in Nat /\ Lapses \in Int
    BY SetsFinite, LapsesType, FS_CardinalityType DEF IInv, TypeOK, CopyInv
  <2>. QED BY <2>2, <2>3, SetsFinite DEF CopyInv, EveryCopyAccounted
<1>. QED BY Inductive, CopyInit, <1>1, <1>2, PTL DEF Spec

\* The rows of Working are as many as its relays, each locked by its own.
LEMMA WorkingRows ==
    ASSUME IInv, CopyInv
    PROVE  Cardinality(published) + Cardinality(Working) <= Cardinality({x \in Rows : sent[x] > 0})
<1>. DEFINE Busy == {row[r] : r \in Working}
            f == [r \in Working |-> row[r]]
<1>1. f \in Surjection(Working, Busy) /\ f \in Injection(Working, Busy)
  BY DEF Surjection, Injection, IsInjective, Working
<1>2. IsFiniteSet(Busy) /\ Cardinality(Busy) = Cardinality(Working)
  BY <1>1, SetsFinite, FS_Surjection
<1>3. ASSUME NEW r \in Working
      PROVE  row[r] \in Rows /\ row[r] \notin published /\ sent[row[r]] > 0
  BY RelaysAssumption DEF Working, IInv, TypeOK, SentInv, OutboxInv, CopyInv, Holding
<1>4. published \cap Busy = {} /\ published \cup Busy \subseteq {x \in Rows : sent[x] > 0}
  BY <1>3 DEF IInv, TypeOK, SentInv, PublishedWasSent
<1>5. IsFiniteSet(published) /\ Cardinality(published) \in Nat
  BY SetsFinite DEF IInv, TypeOK
<1>6. Cardinality(published \cup Busy) = Cardinality(published) + Cardinality(Busy)
  <2>1. Cardinality(published \cup Busy)
          = Cardinality(published) + Cardinality(Busy) - Cardinality(published \cap Busy)
    BY <1>2, <1>5, FS_Union
  <2>. QED BY <1>2, <1>4, <1>5, <2>1, FS_EmptySet, SetsFinite
<1>. QED BY <1>2, <1>4, <1>6, SetsFinite, FS_Subset

\* Every copy of a row after its first costs a lapse, whoever sends it.
THEOREM DuplicatesCostLapses == Spec => []EveryDuplicatePaidFor
<1>1. IInv /\ CopyInv /\ [Next]_vars => CopyInv'
  BY InvStep, CopyStep DEF IInv
<1>2. IInv /\ CopyInv => EveryDuplicatePaidFor
  <2>. SUFFICES ASSUME IInv, CopyInv PROVE EveryDuplicatePaidFor
    OBVIOUS
  <2>1. /\ Cardinality(Taken) \in Nat /\ Cardinality(published) \in Nat /\ Lapses \in Int
        /\ Cardinality({x \in Rows : sent[x] > 0}) \in Nat
    BY SetsFinite, LapsesType, FS_CardinalityType DEF IInv, TypeOK, CopyInv
  <2>. QED BY <2>1, WorkingRows, SetsFinite DEF CopyInv, EveryDuplicatePaidFor
<1>. QED BY Inductive, CopyInit, <1>1, <1>2, PTL DEF Spec

-----------------------------------------------------------------------------
(* One relay works on a row at a time, but for the sessions lost. *)

\* Relays that work on a row they no longer hold the lock of.
Lockless == {r \in Relays : Holding(r) /\ lock[row[r]] # r}

LocklessInv == Cardinality(Lockless) <= Spent("sessionLost")

LEMMA LocklessFinite ==
    /\ IsFiniteSet(Lockless) /\ Cardinality(Lockless) \in Nat
    /\ IsFiniteSet(Lockless') /\ Cardinality(Lockless') \in Nat
<1>1. Lockless \in SUBSET Relays /\ Lockless' \in SUBSET Relays
  BY DEF Lockless
<1>. QED BY <1>1, RelaysAssumption, FS_Subset, FS_CardinalityType

\* Only the loss of a session takes a lock from a relay that works on its row.
LEMMA LocklessStep ==
    ASSUME IInv, [Next]_vars
    PROVE  \/ Lockless' \subseteq Lockless /\ Spent("sessionLost")' = Spent("sessionLost")
           \/ \E r \in Relays : /\ Lockless' \ {r} \subseteq Lockless
                               /\ Spent("sessionLost")' = Spent("sessionLost") + 1
<1>. DEFINE Kept == Lockless' \subseteq Lockless /\ Spent("sessionLost")' = Spent("sessionLost")
            Lost == \E r \in Relays : /\ Lockless' \ {r} \subseteq Lockless
                                     /\ Spent("sessionLost")' = Spent("sessionLost") + 1
<1>o. UNCHANGED left \/ (\E k \in FaultKinds \ {"sessionLost"} : Spend(k))
        => Spent("sessionLost")' = Spent("sessionLost")
  BY SpentOnOthers DEF IInv, FaultKinds
<1>. USE RelaysAssumption
     DEF IInv, TypeOK, LockInv, OutboxInv, SentInv, Holding, table, sns, process
<1>1. ASSUME NEW x \in Rows, InsertRow(x) PROVE Kept
  <2>1. Lockless' \subseteq Lockless
    BY <1>1 DEF InsertRow, Lockless
  <2>. QED BY <1>1, <1>o, <2>1 DEF InsertRow, FaultKinds
<1>2. ASSUME NEW x \in Rows, ClearFailedAt(x) PROVE Kept
  <2>1. Lockless' \subseteq Lockless
    BY <1>2 DEF ClearFailedAt, Lockless
  <2>. QED BY <1>2, <1>o, <2>1 DEF ClearFailedAt, FaultKinds
<1>3. ASSUME NEW r \in Relays, Start(r) PROVE Kept
  <2>1. Lockless' \subseteq Lockless
    BY <1>3 DEF Start, Resolve, Lockless
  <2>. QED BY <1>3, <1>o, <2>1 DEF Start, FaultKinds
<1>4. ASSUME NEW r \in Relays, Poll(r) PROVE Kept
  <2>1. Lockless' \subseteq Lockless
    BY <1>4 DEF Poll, Lockless
  <2>. QED BY <1>4, <1>o, <2>1 DEF Poll, FaultKinds
<1>5. ASSUME NEW r \in Relays, Stop(r) PROVE Kept
  <2>1. Lockless' \subseteq Lockless
    BY <1>5 DEF Stop, Exit, Released, Lockless
  <2>. QED BY <1>5, <1>o, <2>1 DEF Stop, FaultKinds
<1>6. ASSUME NEW r \in Relays, Claim(r) PROVE Kept
  <2>1. Lockless' \subseteq Lockless
    BY <1>6 DEF Claim, Claimable, NextRow, Lockless
  <2>. QED BY <1>6, <1>o, <2>1 DEF Claim, FaultKinds
<1>7. ASSUME NEW r \in Relays, ResolveTopic(r) PROVE Kept
  <2>1. Lockless' \subseteq Lockless
    BY <1>7 DEF ResolveTopic, Resolve, Lockless
  <2>. QED BY <1>7, <1>o, <2>1 DEF ResolveTopic, FaultKinds
<1>8. ASSUME NEW r \in Relays, SnsAccept(r) PROVE Kept
  <2>1. Lockless' \subseteq Lockless
    BY <1>8 DEF SnsAccept, Lockless
  <2>. QED BY <1>8, <1>o, <2>1 DEF SnsAccept, FaultKinds
<1>9. ASSUME NEW r \in Relays, PublishReturns(r) PROVE Kept
  <2>1. Lockless' \subseteq Lockless
    BY <1>9 DEF PublishReturns, Lockless
  <2>. QED BY <1>9, <1>o, <2>1 DEF PublishReturns, FaultKinds
<1>10. ASSUME NEW r \in Relays, PublishRejected(r) PROVE Kept
  <2>1. Lockless' \subseteq Lockless
    BY <1>10 DEF PublishRejected, Raise, Released, Lockless
  <2>. QED BY <1>10, <1>o, <2>1 DEF PublishRejected, FaultKinds
<1>11. ASSUME NEW r \in Relays, PublishNotFound(r) PROVE Kept
  <2>1. Lockless' \subseteq Lockless
    BY <1>11 DEF PublishNotFound, Raise, Released, Lockless
  <2>. QED BY <1>11, <1>o, <2>1 DEF PublishNotFound, FaultKinds
<1>12. ASSUME NEW r \in Relays, Commit(r) PROVE Kept
  <2>1. Lockless' \subseteq Lockless
    BY <1>12 DEF Commit, NextRow, Released, WithRowPublished, Lockless
  <2>. QED BY <1>12, <1>o, <2>1 DEF Commit, FaultKinds
<1>13. ASSUME NEW r \in Relays, CommitOnLostSession(r) PROVE Kept
  <2>1. Lockless' \subseteq Lockless
    BY <1>13 DEF CommitOnLostSession, Raise, Released, Lockless
  <2>. QED BY <1>13, <1>o, <2>1 DEF CommitOnLostSession, FaultKinds
<1>14. ASSUME NEW r \in Relays, RecordFailure(r) PROVE Kept
  <2>1. Lockless' \subseteq Lockless
    BY <1>14 DEF RecordFailure, NextRow, CountAndPark, Lockless
  <2>. QED BY <1>14, <1>o, <2>1 DEF RecordFailure, FaultKinds
<1>15. ASSUME NEW r \in Relays, HandleSignal(r) PROVE Kept
  <2>1. Lockless' \subseteq Lockless
    BY <1>15 DEF HandleSignal, Lockless
  <2>. QED BY <1>15, <1>o, <2>1 DEF HandleSignal, FaultKinds
<1>16. ASSUME NEW r \in Relays, ClaimRaises(r) PROVE Kept
  <2>1. Lockless' \subseteq Lockless
    BY <1>16 DEF ClaimRaises, Lockless
  <2>. QED BY <1>16, <1>o, <2>1 DEF ClaimRaises, FaultKinds
<1>17. ASSUME NEW r \in Relays, PublishNoAnswer(r) PROVE Kept
  <2>1. Lockless' \subseteq Lockless
    BY <1>17 DEF PublishNoAnswer, Raise, Released, Lockless
  <2>. QED BY <1>17, <1>o, <2>1 DEF PublishNoAnswer, FaultKinds
<1>18. ASSUME NEW r \in Relays, CommitRaises(r) PROVE Kept
  <2>1. Lockless' \subseteq Lockless
    BY <1>18 DEF CommitRaises, Raise, Released, WithRowPublished, Lockless
  <2>. QED BY <1>18, <1>o, <2>1 DEF CommitRaises, FaultKinds
<1>19. ASSUME NEW r \in Relays, RecordRaises(r) PROVE Kept
  <2>1. Lockless' \subseteq Lockless
    BY <1>19 DEF RecordRaises, NextRow, CountAndPark, Lockless
  <2>. QED BY <1>19, <1>o, <2>1 DEF RecordRaises, FaultKinds
<1>20. ASSUME NEW r \in Relays, Crash(r) PROVE Kept
  <2>1. Lockless' \subseteq Lockless
    BY <1>20 DEF Crash, Exit, Released, Lockless
  <2>. QED BY <1>20, <1>o, <2>1 DEF Crash, FaultKinds
<1>21. ASSUME NEW r \in Relays, SessionLost(r) PROVE Lost
  <2>1. Lockless' \ {r} \subseteq Lockless
    BY <1>21 DEF SessionLost, Released, Lockless
  <2>2. Spent("sessionLost")' = Spent("sessionLost") + 1
    BY <1>21, SpentByOne DEF SessionLost, FaultKinds
  <2>. QED BY <2>1, <2>2
<1>22. ASSUME LocalStackRestart PROVE Kept
  <2>1. Lockless' \subseteq Lockless
    BY <1>22 DEF LocalStackRestart, Lockless
  <2>. QED BY <1>22, <1>o, <2>1 DEF LocalStackRestart, FaultKinds
<1>23. ASSUME Bootstrap PROVE Kept
  <2>1. Lockless' \subseteq Lockless
    BY <1>23 DEF Bootstrap, Lockless
  <2>. QED BY <1>23, <1>o, <2>1 DEF Bootstrap, FaultKinds
<1>24. CASE UNCHANGED vars
  BY <1>24, <1>o DEF vars, Lockless
<1>. QED
  BY <1>1, <1>2, <1>3, <1>4, <1>5, <1>6, <1>7, <1>8, <1>9, <1>10,
     <1>11, <1>12, <1>13, <1>14, <1>15, <1>16, <1>17, <1>18, <1>19,
     <1>20, <1>21, <1>22, <1>23, <1>24
  DEF Next, RelayStep, RelayFault

\* SKIP LOCKED keeps relays off each other's rows, whatever their number: one
\* relay works on a row, and one more for each session Postgres dropped.
THEOREM MutualExclusion == Spec => []OnePublisherPerRow
<1>. USE LocklessFinite
<1>1. Init => LocklessInv
  <2>1. Init => Lockless = {} /\ Spent("sessionLost") = 0
    BY BudgetAssumption DEF Init, Lockless, Holding, Spent, FaultKinds
  <2>. QED BY <2>1, FS_EmptySet DEF LocklessInv
<1>2. IInv /\ LocklessInv /\ [Next]_vars => LocklessInv'
  <2>. SUFFICES ASSUME IInv, LocklessInv, [Next]_vars PROVE LocklessInv'
    OBVIOUS
  <2>0. Spent("sessionLost") \in Int
    BY SpentType DEF IInv, FaultKinds
  <2>1. CASE Lockless' \subseteq Lockless /\ Spent("sessionLost")' = Spent("sessionLost")
    BY <2>0, <2>1, FS_Subset DEF LocklessInv
  <2>2. ASSUME NEW r \in Relays, Lockless' \ {r} \subseteq Lockless,
               Spent("sessionLost")' = Spent("sessionLost") + 1
        PROVE  LocklessInv'
    BY <2>0, <2>2, AllButOne DEF LocklessInv
  <2>. QED BY <2>1, <2>2, LocklessStep
<1>3. IInv /\ LocklessInv => OnePublisherPerRow
  <2>. SUFFICES ASSUME IInv, LocklessInv, NEW x \in Rows
                PROVE  Cardinality({r \in Relays : Holding(r) /\ row[r] = x})
                         <= 1 + Spent("sessionLost")
    BY DEF OnePublisherPerRow
  <2>. DEFINE Holders == {r \in Relays : Holding(r) /\ row[r] = x}
  <2>1. IsFiniteSet(Holders) /\ Cardinality(Holders) \in Nat
    BY RelaysAssumption, FS_Subset, FS_CardinalityType
  <2>2. Holders \ {lock[x]} \subseteq Lockless
    BY DEF Lockless
  <2>3. Cardinality(Holders) <= Cardinality(Lockless) + 1
    BY <2>1, <2>2, AllButOne
  <2>4. Spent("sessionLost") \in Int
    BY SpentType DEF IInv, FaultKinds
  <2>. QED BY <2>1, <2>3, <2>4 DEF LocklessInv
<1>. QED BY Inductive, <1>1, <1>2, <1>3, PTL DEF Spec

-----------------------------------------------------------------------------
(* Only an operator puts a row in limbo. *)

\* Rows that used up their attempts and are not parked.
Exhausted == {x \in Rows : attempts[x] >= OUTBOX_MAX_ATTEMPTS /\ x \notin failed_at}

ExhaustedInv == Cardinality(Exhausted) <= Spent("clear")

\* The failure that uses up the attempts of a row parks it in the same update.
LEMMA ExhaustedStep ==
    ASSUME IInv, [Next]_vars
    PROVE  \/ Exhausted' \subseteq Exhausted /\ Spent("clear")' = Spent("clear")
           \/ \E x \in Rows : /\ Exhausted' \ {x} \subseteq Exhausted
                             /\ Spent("clear")' = Spent("clear") + 1
<1>. DEFINE Kept == Exhausted' \subseteq Exhausted /\ Spent("clear")' = Spent("clear")
            Cleared == \E x \in Rows : /\ Exhausted' \ {x} \subseteq Exhausted
                                      /\ Spent("clear")' = Spent("clear") + 1
<1>o. UNCHANGED left \/ (\E k \in FaultKinds \ {"clear"} : Spend(k))
        => Spent("clear")' = Spent("clear")
  BY SpentOnOthers DEF IInv, FaultKinds
<1>. USE LimitsAssumption DEF IInv, TypeOK, OutboxInv, table, sns, process
<1>1. ASSUME NEW x \in Rows, InsertRow(x) PROVE Kept
  <2>1. Exhausted' \subseteq Exhausted
    BY <1>1 DEF InsertRow, Exhausted
  <2>. QED BY <1>1, <1>o, <2>1 DEF InsertRow, FaultKinds
<1>2. ASSUME NEW x \in Rows, ClearFailedAt(x) PROVE Cleared
  <2>1. Exhausted' \ {x} \subseteq Exhausted
    BY <1>2 DEF ClearFailedAt, Exhausted
  <2>2. Spent("clear")' = Spent("clear") + 1
    BY <1>2, SpentByOne DEF ClearFailedAt, FaultKinds
  <2>. QED BY <2>1, <2>2
<1>3. ASSUME NEW r \in Relays, Start(r) PROVE Kept
  <2>1. Exhausted' \subseteq Exhausted
    BY <1>3 DEF Start, Resolve, Exhausted
  <2>. QED BY <1>3, <1>o, <2>1 DEF Start, FaultKinds
<1>4. ASSUME NEW r \in Relays, Poll(r) PROVE Kept
  <2>1. Exhausted' \subseteq Exhausted
    BY <1>4 DEF Poll, Exhausted
  <2>. QED BY <1>4, <1>o, <2>1 DEF Poll, FaultKinds
<1>5. ASSUME NEW r \in Relays, Stop(r) PROVE Kept
  <2>1. Exhausted' \subseteq Exhausted
    BY <1>5 DEF Stop, Exit, Released, Exhausted
  <2>. QED BY <1>5, <1>o, <2>1 DEF Stop, FaultKinds
<1>6. ASSUME NEW r \in Relays, Claim(r) PROVE Kept
  <2>1. Exhausted' \subseteq Exhausted
    BY <1>6 DEF Claim, Claimable, NextRow, Exhausted
  <2>. QED BY <1>6, <1>o, <2>1 DEF Claim, FaultKinds
<1>7. ASSUME NEW r \in Relays, ResolveTopic(r) PROVE Kept
  <2>1. Exhausted' \subseteq Exhausted
    BY <1>7 DEF ResolveTopic, Resolve, Exhausted
  <2>. QED BY <1>7, <1>o, <2>1 DEF ResolveTopic, FaultKinds
<1>8. ASSUME NEW r \in Relays, SnsAccept(r) PROVE Kept
  <2>1. Exhausted' \subseteq Exhausted
    BY <1>8 DEF SnsAccept, Exhausted
  <2>. QED BY <1>8, <1>o, <2>1 DEF SnsAccept, FaultKinds
<1>9. ASSUME NEW r \in Relays, PublishReturns(r) PROVE Kept
  <2>1. Exhausted' \subseteq Exhausted
    BY <1>9 DEF PublishReturns, Exhausted
  <2>. QED BY <1>9, <1>o, <2>1 DEF PublishReturns, FaultKinds
<1>10. ASSUME NEW r \in Relays, PublishRejected(r) PROVE Kept
  <2>1. Exhausted' \subseteq Exhausted
    BY <1>10 DEF PublishRejected, Raise, Released, Exhausted
  <2>. QED BY <1>10, <1>o, <2>1 DEF PublishRejected, FaultKinds
<1>11. ASSUME NEW r \in Relays, PublishNotFound(r) PROVE Kept
  <2>1. Exhausted' \subseteq Exhausted
    BY <1>11 DEF PublishNotFound, Raise, Released, Exhausted
  <2>. QED BY <1>11, <1>o, <2>1 DEF PublishNotFound, FaultKinds
<1>12. ASSUME NEW r \in Relays, Commit(r) PROVE Kept
  <2>1. Exhausted' \subseteq Exhausted
    BY <1>12 DEF Commit, NextRow, Released, WithRowPublished, Exhausted
  <2>. QED BY <1>12, <1>o, <2>1 DEF Commit, FaultKinds
<1>13. ASSUME NEW r \in Relays, CommitOnLostSession(r) PROVE Kept
  <2>1. Exhausted' \subseteq Exhausted
    BY <1>13 DEF CommitOnLostSession, Raise, Released, Exhausted
  <2>. QED BY <1>13, <1>o, <2>1 DEF CommitOnLostSession, FaultKinds
<1>14. ASSUME NEW r \in Relays, RecordFailure(r) PROVE Kept
  <2>1. Exhausted' \subseteq Exhausted
    BY <1>14 DEF RecordFailure, NextRow, CountAndPark, Exhausted
  <2>. QED BY <1>14, <1>o, <2>1 DEF RecordFailure, FaultKinds
<1>15. ASSUME NEW r \in Relays, HandleSignal(r) PROVE Kept
  <2>1. Exhausted' \subseteq Exhausted
    BY <1>15 DEF HandleSignal, Exhausted
  <2>. QED BY <1>15, <1>o, <2>1 DEF HandleSignal, FaultKinds
<1>16. ASSUME NEW r \in Relays, ClaimRaises(r) PROVE Kept
  <2>1. Exhausted' \subseteq Exhausted
    BY <1>16 DEF ClaimRaises, Exhausted
  <2>. QED BY <1>16, <1>o, <2>1 DEF ClaimRaises, FaultKinds
<1>17. ASSUME NEW r \in Relays, PublishNoAnswer(r) PROVE Kept
  <2>1. Exhausted' \subseteq Exhausted
    BY <1>17 DEF PublishNoAnswer, Raise, Released, Exhausted
  <2>. QED BY <1>17, <1>o, <2>1 DEF PublishNoAnswer, FaultKinds
<1>18. ASSUME NEW r \in Relays, CommitRaises(r) PROVE Kept
  <2>1. Exhausted' \subseteq Exhausted
    BY <1>18 DEF CommitRaises, Raise, Released, WithRowPublished, Exhausted
  <2>. QED BY <1>18, <1>o, <2>1 DEF CommitRaises, FaultKinds
<1>19. ASSUME NEW r \in Relays, RecordRaises(r) PROVE Kept
  <2>1. Exhausted' \subseteq Exhausted
    BY <1>19 DEF RecordRaises, NextRow, CountAndPark, Exhausted
  <2>. QED BY <1>19, <1>o, <2>1 DEF RecordRaises, FaultKinds
<1>20. ASSUME NEW r \in Relays, Crash(r) PROVE Kept
  <2>1. Exhausted' \subseteq Exhausted
    BY <1>20 DEF Crash, Exit, Released, Exhausted
  <2>. QED BY <1>20, <1>o, <2>1 DEF Crash, FaultKinds
<1>21. ASSUME NEW r \in Relays, SessionLost(r) PROVE Kept
  <2>1. Exhausted' \subseteq Exhausted
    BY <1>21 DEF SessionLost, Released, Exhausted
  <2>. QED BY <1>21, <1>o, <2>1 DEF SessionLost, FaultKinds
<1>22. ASSUME LocalStackRestart PROVE Kept
  <2>1. Exhausted' \subseteq Exhausted
    BY <1>22 DEF LocalStackRestart, Exhausted
  <2>. QED BY <1>22, <1>o, <2>1 DEF LocalStackRestart, FaultKinds
<1>23. ASSUME Bootstrap PROVE Kept
  <2>1. Exhausted' \subseteq Exhausted
    BY <1>23 DEF Bootstrap, Exhausted
  <2>. QED BY <1>23, <1>o, <2>1 DEF Bootstrap, FaultKinds
<1>24. CASE UNCHANGED vars
  BY <1>24, <1>o DEF vars, Exhausted
<1>. QED
  BY <1>1, <1>2, <1>3, <1>4, <1>5, <1>6, <1>7, <1>8, <1>9, <1>10,
     <1>11, <1>12, <1>13, <1>14, <1>15, <1>16, <1>17, <1>18, <1>19,
     <1>20, <1>21, <1>22, <1>23, <1>24
  DEF Next, RelayStep, RelayFault

\* No row drops out of the poll unparked unless an operator clears its
\* failed_at, and then that row alone.
THEOREM LimboNeedsAnOperator == Spec => []LimboIsPaidFor
<1>f. /\ IsFiniteSet(Exhausted) /\ Cardinality(Exhausted) \in Nat
      /\ IsFiniteSet(Exhausted') /\ Cardinality(Exhausted') \in Nat
  BY SetsFinite DEF Exhausted
<1>1. Init => ExhaustedInv
  <2>1. Init => Exhausted = {} /\ Spent("clear") = 0
    BY BudgetAssumption, LimitsAssumption DEF Init, Exhausted, Spent, FaultKinds
  <2>. QED BY <2>1, FS_EmptySet DEF ExhaustedInv
<1>2. IInv /\ ExhaustedInv /\ [Next]_vars => ExhaustedInv'
  <2>. SUFFICES ASSUME IInv, ExhaustedInv, [Next]_vars PROVE ExhaustedInv'
    OBVIOUS
  <2>0. Spent("clear") \in Int
    BY SpentType DEF IInv, FaultKinds
  <2>1. CASE Exhausted' \subseteq Exhausted /\ Spent("clear")' = Spent("clear")
    BY <1>f, <2>0, <2>1, FS_Subset DEF ExhaustedInv
  <2>2. ASSUME NEW x \in Rows, Exhausted' \ {x} \subseteq Exhausted,
               Spent("clear")' = Spent("clear") + 1
        PROVE  ExhaustedInv'
    BY <1>f, <2>0, <2>2, AllButOne DEF ExhaustedInv
  <2>. QED BY <2>1, <2>2, ExhaustedStep
<1>3. IInv /\ ExhaustedInv => LimboIsPaidFor
  <2>. SUFFICES ASSUME IInv, ExhaustedInv PROVE LimboIsPaidFor
    OBVIOUS
  <2>1. Limbo \subseteq Exhausted
    BY LimitsAssumption DEF Limbo, Pollable, Exhausted, IInv, TypeOK
  <2>2. IsFiniteSet(Limbo) /\ Cardinality(Limbo) \in Nat /\ Cardinality(Limbo) <= Cardinality(Exhausted)
    BY <1>f, <2>1, FS_Subset, FS_CardinalityType
  <2>3. Spent("clear") \in Int
    BY SpentType DEF IInv, FaultKinds
  <2>. QED BY <1>f, <2>2, <2>3 DEF ExhaustedInv, LimboIsPaidFor
<1>. QED BY Inductive, <1>1, <1>2, <1>3, PTL DEF Spec

-----------------------------------------------------------------------------
(* What it takes to park a row SNS would accept. *)

\* Relays that failed on x and have not counted it yet, or will fail, for
\* their session is lost.
Failing(x) ==
    {r \in Relays : row[r] = x /\ (pc[r] = "record" \/ (Holding(r) /\ lock[x] # r))}

\* Relays whose cached ARN names a topic that is gone.
Stale == {r \in Relays : arn[r] /\ topic = "absent"}

Price ==
    Spent("noAnswer") + Spent("dbError") + Spent("sessionLost")
        + Cardinality(Relays) * Spent("restart")

\* Each failure on a row SNS accepts has its price, and is never permanent.
PriceInv ==
    /\ \A r \in Relays : pc[r] = "record" /\ Answer[row[r]] = "ok" => ~IsPermanent(exc[r])
    /\ \A x \in failed_at : Answer[x] = "ok" => attempts[x] >= OUTBOX_MAX_ATTEMPTS
    /\ \A x \in Rows : Answer[x] = "ok" =>
         attempts[x] + Cardinality(Failing(x)) + Cardinality(Stale) <= Price

LEMMA FailersFinite ==
    ASSUME NEW x
    PROVE  /\ IsFiniteSet(Failing(x)) /\ Cardinality(Failing(x)) \in Nat
           /\ IsFiniteSet(Failing(x)') /\ Cardinality(Failing(x)') \in Nat
           /\ IsFiniteSet(Stale) /\ Cardinality(Stale) \in Nat
           /\ IsFiniteSet(Stale') /\ Cardinality(Stale') \in Nat
           /\ Stale' \subseteq Relays /\ Cardinality(Stale') <= Cardinality(Relays)
           /\ Cardinality(Relays) \in Nat
<1>1. Failing(x) \in SUBSET Relays /\ Failing(x)' \in SUBSET Relays
  BY DEF Failing
<1>2. Stale \in SUBSET Relays /\ Stale' \in SUBSET Relays
  BY DEF Stale
<1>. QED BY <1>1, <1>2, RelaysAssumption, FS_Subset, FS_CardinalityType

Priced == {"noAnswer", "dbError", "sessionLost"}

LEMMA PriceType ==
    /\ TypeOK => Price \in Int
    /\ TypeOK' => Price' \in Int
<1>1. Cardinality(Relays) \in Int
  BY RelaysAssumption, FS_CardinalityType
<1>2. TypeOK => Spent("restart") \in Int /\ \A k \in Priced : Spent(k) \in Int
  BY SpentType DEF Priced, FaultKinds
<1>3. TypeOK' => Spent("restart")' \in Int /\ \A k \in Priced : Spent(k)' \in Int
  BY SpentType DEF Priced, FaultKinds
<1>. QED BY <1>1, <1>2, <1>3 DEF Price, Priced

LEMMA PriceOfFault ==
    ASSUME TypeOK, NEW kind \in Priced, Spend(kind)
    PROVE  Price' = Price + 1
<1>1. kind \in FaultKinds /\ Priced \subseteq FaultKinds /\ "restart" \in FaultKinds \ {kind}
  BY DEF Priced, FaultKinds
<1>2. /\ Spent(kind)' = Spent(kind) + 1 /\ Spent("restart")' = Spent("restart")
      /\ \A k \in Priced \ {kind} : Spent(k)' = Spent(k)
      /\ \A k \in Priced : Spent(k) \in Int
  BY <1>1, SpentByOne, SpentType
<1>3. Cardinality(Relays) * Spent("restart") \in Int
  BY <1>1, SpentType, RelaysAssumption, FS_CardinalityType
<1>4. CASE kind = "noAnswer"
  BY <1>2, <1>3, <1>4 DEF Price, Priced
<1>5. CASE kind = "dbError"
  BY <1>2, <1>3, <1>5 DEF Price, Priced
<1>6. CASE kind = "sessionLost"
  BY <1>2, <1>3, <1>6 DEF Price, Priced
<1>. QED BY <1>4, <1>5, <1>6 DEF Priced

LEMMA PriceOfRestart ==
    ASSUME TypeOK, Spend("restart")
    PROVE  Price' = Price + Cardinality(Relays)
<1>1. Priced \subseteq FaultKinds \ {"restart"} /\ "restart" \in FaultKinds
  BY DEF Priced, FaultKinds
<1>2. /\ Spent("restart")' = Spent("restart") + 1 /\ Spent("restart") \in Int
      /\ \A k \in Priced : Spent(k)' = Spent(k) /\ Spent(k) \in Int
  BY <1>1, SpentByOne, SpentType
<1>3. Cardinality(Relays) \in Int
  BY RelaysAssumption, FS_CardinalityType
<1>4. \A a, b \in Int : a * (b + 1) = a * b + a
  OBVIOUS
<1>5. Cardinality(Relays) * Spent("restart")'
        = Cardinality(Relays) * Spent("restart") + Cardinality(Relays)
  BY <1>2, <1>3, <1>4
<1>6. Cardinality(Relays) * Spent("restart") \in Int
  BY <1>2, <1>3
<1>. QED BY <1>2, <1>3, <1>5, <1>6 DEF Price, Priced

LEMMA NoPrice ==
    ASSUME TypeOK, UNCHANGED left \/ \E kind \in FaultKinds \ (Priced \cup {"restart"}) : Spend(kind)
    PROVE  Price' = Price
<1>1. \A k \in Priced \cup {"restart"} : left'[k] = left[k]
  BY DEF TypeOK, Spend, Priced, FaultKinds
<1>. QED BY <1>1 DEF Price, Spent, Priced

\* A step after which no more relays fail on x, one that pays for a relay that
\* does, and one that counts a failure.
Quiet(x) ==
    /\ attempts'[x] = attempts[x] /\ Failing(x)' \subseteq Failing(x)
    /\ Stale' \subseteq Stale /\ Price' >= Price

Fails(x, r) ==
    /\ attempts'[x] = attempts[x] /\ Failing(x)' \ {r} \subseteq Failing(x)
    /\ Stale' \subseteq Stale /\ Price' >= Price + 1

Counts(x, r) ==
    /\ attempts'[x] = attempts[x] + 1 /\ r \in Failing(x) /\ Failing(x)' \subseteq Failing(x) \ {r}
    /\ Stale' \subseteq Stale /\ Price' >= Price

Due(x) == attempts[x] + Cardinality(Failing(x)) + Cardinality(Stale) <= Price

LEMMA DueKept ==
    ASSUME TypeOK, TypeOK', NEW x \in Rows, Due(x),
           Quiet(x) \/ \E r \in Relays : Fails(x, r) \/ Counts(x, r)
    PROVE  Due(x)'
<1>. USE FailersFinite
<1>1. attempts[x] \in Nat /\ attempts'[x] \in Nat /\ Price \in Int /\ Price' \in Int
  BY PriceType DEF TypeOK
<1>2. Stale' \subseteq Stale
  BY DEF Quiet, Fails, Counts
<1>3. Cardinality(Stale') <= Cardinality(Stale)
  BY <1>2, FS_Subset
<1>4. CASE Quiet(x)
  <2>1. Cardinality(Failing(x)') <= Cardinality(Failing(x))
    BY <1>4, FS_Subset DEF Quiet
  <2>. QED BY <1>1, <1>3, <1>4, <2>1 DEF Quiet, Due
<1>5. ASSUME NEW r \in Relays, Fails(x, r) PROVE Due(x)'
  <2>1. Cardinality(Failing(x)') <= Cardinality(Failing(x)) + 1
    BY <1>5, AllButOne DEF Fails
  <2>. QED BY <1>1, <1>3, <1>5, <2>1 DEF Fails, Due
<1>6. ASSUME NEW r \in Relays, Counts(x, r) PROVE Due(x)'
  <2>1. IsFiniteSet(Failing(x) \ {r}) /\ Cardinality(Failing(x) \ {r}) = Cardinality(Failing(x)) - 1
    BY <1>6, FS_RemoveElement DEF Counts
  <2>2. Cardinality(Failing(x)') <= Cardinality(Failing(x) \ {r})
    BY <1>6, <2>1, FS_Subset DEF Counts
  <2>. QED BY <1>1, <1>3, <1>6, <2>1, <2>2 DEF Counts, Due
<1>. QED BY <1>4, <1>5, <1>6

LEMMA DueStep == IInv /\ PriceInv /\ TypeOK' /\ [Next]_vars =>
    \A y \in Rows : Answer[y] = "ok" => Due(y)'
<1>. SUFFICES ASSUME IInv, PriceInv, TypeOK', [Next]_vars, NEW y \in Rows, Answer[y] = "ok"
              PROVE  Due(y)'
  OBVIOUS
<1>d. Due(y)
  BY DEF PriceInv, Due
<1>. USE <1>d, RelaysAssumption
     DEF IInv, TypeOK, LockInv, OutboxInv, SentInv, Holding, table, sns, process
<1>1. ASSUME NEW x \in Rows, InsertRow(x) PROVE Due(y)'
  <2>1. Price' >= Price
    BY <1>1, NoPrice, PriceOfFault, PriceType DEF InsertRow, FaultKinds, Priced
  <2>2. attempts'[y] = attempts[y] /\ Failing(y)' \subseteq Failing(y) /\ Stale' \subseteq Stale
    BY <1>1 DEF InsertRow, Failing, Stale
  <2>. QED BY <2>1, <2>2, DueKept DEF Quiet
<1>2. ASSUME NEW x \in Rows, ClearFailedAt(x) PROVE Due(y)'
  <2>1. Price' >= Price
    BY <1>2, NoPrice, PriceOfFault, PriceType DEF ClearFailedAt, FaultKinds, Priced
  <2>2. attempts'[y] = attempts[y] /\ Failing(y)' \subseteq Failing(y) /\ Stale' \subseteq Stale
    BY <1>2 DEF ClearFailedAt, Failing, Stale
  <2>. QED BY <2>1, <2>2, DueKept DEF Quiet
<1>3. ASSUME NEW r \in Relays, Start(r) PROVE Due(y)'
  <2>1. Price' >= Price
    BY <1>3, NoPrice, PriceOfFault, PriceType DEF Start, FaultKinds, Priced
  <2>2. attempts'[y] = attempts[y] /\ Failing(y)' \subseteq Failing(y) /\ Stale' \subseteq Stale
    BY <1>3 DEF Start, Resolve, Failing, Stale
  <2>. QED BY <2>1, <2>2, DueKept DEF Quiet
<1>4. ASSUME NEW r \in Relays, Poll(r) PROVE Due(y)'
  <2>1. Price' >= Price
    BY <1>4, NoPrice, PriceOfFault, PriceType DEF Poll, FaultKinds, Priced
  <2>2. attempts'[y] = attempts[y] /\ Failing(y)' \subseteq Failing(y) /\ Stale' \subseteq Stale
    BY <1>4 DEF Poll, Failing, Stale
  <2>. QED BY <2>1, <2>2, DueKept DEF Quiet
<1>5. ASSUME NEW r \in Relays, Stop(r) PROVE Due(y)'
  <2>1. Price' >= Price
    BY <1>5, NoPrice, PriceOfFault, PriceType DEF Stop, FaultKinds, Priced
  <2>2. attempts'[y] = attempts[y] /\ Failing(y)' \subseteq Failing(y) /\ Stale' \subseteq Stale
    BY <1>5 DEF Stop, Exit, Released, Failing, Stale
  <2>. QED BY <2>1, <2>2, DueKept DEF Quiet
<1>6. ASSUME NEW r \in Relays, Claim(r) PROVE Due(y)'
  <2>1. Price' >= Price
    BY <1>6, NoPrice, PriceOfFault, PriceType DEF Claim, FaultKinds, Priced
  <2>2. attempts'[y] = attempts[y] /\ Failing(y)' \subseteq Failing(y) /\ Stale' \subseteq Stale
    BY <1>6 DEF Claim, Claimable, NextRow, Failing, Stale
  <2>. QED BY <2>1, <2>2, DueKept DEF Quiet
<1>7. ASSUME NEW r \in Relays, ResolveTopic(r) PROVE Due(y)'
  <2>1. Price' >= Price
    BY <1>7, NoPrice, PriceOfFault, PriceType DEF ResolveTopic, FaultKinds, Priced
  <2>2. attempts'[y] = attempts[y] /\ Failing(y)' \subseteq Failing(y) /\ Stale' \subseteq Stale
    BY <1>7 DEF ResolveTopic, Resolve, Failing, Stale
  <2>. QED BY <2>1, <2>2, DueKept DEF Quiet
<1>8. ASSUME NEW r \in Relays, SnsAccept(r) PROVE Due(y)'
  <2>1. Price' >= Price
    BY <1>8, NoPrice, PriceOfFault, PriceType DEF SnsAccept, FaultKinds, Priced
  <2>2. attempts'[y] = attempts[y] /\ Failing(y)' \subseteq Failing(y) /\ Stale' \subseteq Stale
    BY <1>8 DEF SnsAccept, Failing, Stale
  <2>. QED BY <2>1, <2>2, DueKept DEF Quiet
<1>9. ASSUME NEW r \in Relays, PublishReturns(r) PROVE Due(y)'
  <2>1. Price' >= Price
    BY <1>9, NoPrice, PriceOfFault, PriceType DEF PublishReturns, FaultKinds, Priced
  <2>2. attempts'[y] = attempts[y] /\ Failing(y)' \subseteq Failing(y) /\ Stale' \subseteq Stale
    BY <1>9 DEF PublishReturns, Failing, Stale
  <2>. QED BY <2>1, <2>2, DueKept DEF Quiet
<1>10. ASSUME NEW r \in Relays, PublishRejected(r) PROVE Due(y)'
  <2>1. Price' >= Price
    BY <1>10, NoPrice, PriceOfFault, PriceType DEF PublishRejected, FaultKinds, Priced
  <2>2. attempts'[y] = attempts[y] /\ Failing(y)' \subseteq Failing(y) /\ Stale' \subseteq Stale
    BY <1>10 DEF PublishRejected, Raise, Released, Failing, Stale
  <2>. QED BY <2>1, <2>2, DueKept DEF Quiet
<1>11. ASSUME NEW r \in Relays, PublishNotFound(r) PROVE Due(y)'
  <2>1. Price' = Price
    BY <1>11, NoPrice DEF PublishNotFound, FaultKinds, Priced
  <2>2. /\ attempts'[y] = attempts[y] /\ Failing(y)' \ {r} \subseteq Failing(y)
        /\ r \in Stale /\ Stale' = Stale \ {r}
    BY <1>11 DEF PublishNotFound, Raise, Released, Failing, Stale
  <2>3. Cardinality(Failing(y)') <= Cardinality(Failing(y)) + 1
    BY <2>2, FailersFinite, AllButOne
  <2>4. Cardinality(Stale') = Cardinality(Stale) - 1
    BY <2>2, FailersFinite, FS_RemoveElement
  <2>5. attempts[y] \in Nat /\ Price \in Int
    BY PriceType
  <2>. QED BY <2>1, <2>2, <2>3, <2>4, <2>5, FailersFinite DEF Due
<1>12. ASSUME NEW r \in Relays, Commit(r) PROVE Due(y)'
  <2>1. Price' >= Price
    BY <1>12, NoPrice, PriceOfFault, PriceType DEF Commit, FaultKinds, Priced
  <2>2. attempts'[y] = attempts[y] /\ Failing(y)' \subseteq Failing(y) /\ Stale' \subseteq Stale
    BY <1>12 DEF Commit, NextRow, Released, WithRowPublished, Failing, Stale
  <2>. QED BY <2>1, <2>2, DueKept DEF Quiet
<1>13. ASSUME NEW r \in Relays, CommitOnLostSession(r) PROVE Due(y)'
  <2>1. Price' >= Price
    BY <1>13, NoPrice, PriceOfFault, PriceType DEF CommitOnLostSession, FaultKinds, Priced
  <2>2. attempts'[y] = attempts[y] /\ Failing(y)' \subseteq Failing(y) /\ Stale' \subseteq Stale
    BY <1>13 DEF CommitOnLostSession, Raise, Released, Failing, Stale
  <2>. QED BY <2>1, <2>2, DueKept DEF Quiet
<1>14. ASSUME NEW r \in Relays, RecordFailure(r) PROVE Due(y)'
  <2>1. Price' >= Price
    BY <1>14, NoPrice, PriceOfFault, PriceType DEF RecordFailure, Priced
  <2>2. Failing(y)' = Failing(y) \ {r} /\ Stale' = Stale /\ row[r] \in Rows
    BY <1>14 DEF RecordFailure, NextRow, Failing, Stale
  <2>3. CASE attempts'[y] = attempts[y]
    BY <2>1, <2>2, <2>3, DueKept DEF Quiet
  <2>4. CASE attempts'[y] = attempts[y] + 1 /\ row[r] = y
    <3>1. r \in Failing(y)
      BY <1>14, <2>4 DEF RecordFailure, Failing
    <3>. QED BY <2>1, <2>2, <2>4, <3>1, DueKept DEF Counts
  <2>5. attempts' = attempts \/ attempts' = [attempts EXCEPT ![row[r]] = @ + 1]
    BY <1>14 DEF RecordFailure, CountAndPark
  <2>. QED BY <2>2, <2>3, <2>4, <2>5
<1>15. ASSUME NEW r \in Relays, HandleSignal(r) PROVE Due(y)'
  <2>1. Price' >= Price
    BY <1>15, NoPrice, PriceOfFault, PriceType DEF HandleSignal, FaultKinds, Priced
  <2>2. attempts'[y] = attempts[y] /\ Failing(y)' \subseteq Failing(y) /\ Stale' \subseteq Stale
    BY <1>15 DEF HandleSignal, Failing, Stale
  <2>. QED BY <2>1, <2>2, DueKept DEF Quiet
<1>16. ASSUME NEW r \in Relays, ClaimRaises(r) PROVE Due(y)'
  <2>1. Price' >= Price + 1
    BY <1>16, PriceOfFault, PriceType DEF ClaimRaises, Priced
  <2>2. attempts'[y] = attempts[y] /\ Failing(y)' \ {r} \subseteq Failing(y) /\ Stale' \subseteq Stale
    BY <1>16 DEF ClaimRaises, Failing, Stale
  <2>. QED BY <2>1, <2>2, DueKept DEF Fails
<1>17. ASSUME NEW r \in Relays, PublishNoAnswer(r) PROVE Due(y)'
  <2>1. Price' >= Price + 1
    BY <1>17, PriceOfFault, PriceType DEF PublishNoAnswer, Priced
  <2>2. attempts'[y] = attempts[y] /\ Failing(y)' \ {r} \subseteq Failing(y) /\ Stale' \subseteq Stale
    BY <1>17 DEF PublishNoAnswer, Raise, Released, Failing, Stale
  <2>. QED BY <2>1, <2>2, DueKept DEF Fails
<1>18. ASSUME NEW r \in Relays, CommitRaises(r) PROVE Due(y)'
  <2>1. Price' >= Price + 1
    BY <1>18, PriceOfFault, PriceType DEF CommitRaises, Priced
  <2>2. attempts'[y] = attempts[y] /\ Failing(y)' \ {r} \subseteq Failing(y) /\ Stale' \subseteq Stale
    BY <1>18 DEF CommitRaises, Raise, Released, WithRowPublished, Failing, Stale
  <2>. QED BY <2>1, <2>2, DueKept DEF Fails
<1>19. ASSUME NEW r \in Relays, RecordRaises(r) PROVE Due(y)'
  <2>1. Price' >= Price
    BY <1>19, NoPrice, PriceOfFault, PriceType DEF RecordRaises, Priced
  <2>2. Failing(y)' = Failing(y) \ {r} /\ Stale' = Stale /\ row[r] \in Rows
    BY <1>19 DEF RecordRaises, NextRow, Failing, Stale
  <2>3. CASE attempts'[y] = attempts[y]
    BY <2>1, <2>2, <2>3, DueKept DEF Quiet
  <2>4. CASE attempts'[y] = attempts[y] + 1 /\ row[r] = y
    <3>1. r \in Failing(y)
      BY <1>19, <2>4 DEF RecordRaises, Failing
    <3>. QED BY <2>1, <2>2, <2>4, <3>1, DueKept DEF Counts
  <2>5. attempts' = attempts \/ attempts' = [attempts EXCEPT ![row[r]] = @ + 1]
    BY <1>19 DEF RecordRaises, CountAndPark
  <2>. QED BY <2>2, <2>3, <2>4, <2>5
<1>20. ASSUME NEW r \in Relays, Crash(r) PROVE Due(y)'
  <2>1. Price' >= Price
    BY <1>20, NoPrice, PriceOfFault, PriceType DEF Crash, FaultKinds, Priced
  <2>2. attempts'[y] = attempts[y] /\ Failing(y)' \subseteq Failing(y) /\ Stale' \subseteq Stale
    BY <1>20 DEF Crash, Exit, Released, Failing, Stale
  <2>. QED BY <2>1, <2>2, DueKept DEF Quiet
<1>21. ASSUME NEW r \in Relays, SessionLost(r) PROVE Due(y)'
  <2>1. Price' >= Price + 1
    BY <1>21, PriceOfFault, PriceType DEF SessionLost, Priced
  <2>2. attempts'[y] = attempts[y] /\ Failing(y)' \ {r} \subseteq Failing(y) /\ Stale' \subseteq Stale
    BY <1>21 DEF SessionLost, Released, Failing, Stale
  <2>. QED BY <2>1, <2>2, DueKept DEF Fails
<1>22. ASSUME LocalStackRestart PROVE Due(y)'
  <2>1. Price' = Price + Cardinality(Relays)
    BY <1>22, PriceOfRestart DEF LocalStackRestart
  <2>2. attempts'[y] = attempts[y] /\ Failing(y)' = Failing(y) /\ Stale = {}
    BY <1>22 DEF LocalStackRestart, Failing, Stale
  <2>3. Cardinality(Stale) = 0 /\ Cardinality(Stale') <= Cardinality(Relays)
    BY <2>2, FS_EmptySet, FailersFinite
  <2>4. attempts[y] \in Nat /\ Price \in Int
    BY PriceType
  <2>. QED BY <2>1, <2>2, <2>3, <2>4, FailersFinite DEF Due
<1>23. ASSUME Bootstrap PROVE Due(y)'
  <2>1. Price' >= Price
    BY <1>23, NoPrice, PriceOfFault, PriceType DEF Bootstrap, FaultKinds, Priced
  <2>2. attempts'[y] = attempts[y] /\ Failing(y)' \subseteq Failing(y) /\ Stale' \subseteq Stale
    BY <1>23 DEF Bootstrap, Failing, Stale
  <2>. QED BY <2>1, <2>2, DueKept DEF Quiet
<1>24. CASE UNCHANGED vars
  <2>1. Price' >= Price
    BY <1>24, NoPrice, PriceOfFault, PriceType DEF vars, FaultKinds, Priced
  <2>2. attempts'[y] = attempts[y] /\ Failing(y)' \subseteq Failing(y) /\ Stale' \subseteq Stale
    BY <1>24 DEF vars, Failing, Stale
  <2>. QED BY <2>1, <2>2, DueKept DEF Quiet
<1>. QED
  BY <1>1, <1>2, <1>3, <1>4, <1>5, <1>6, <1>7, <1>8, <1>9, <1>10,
     <1>11, <1>12, <1>13, <1>14, <1>15, <1>16, <1>17, <1>18, <1>19,
     <1>20, <1>21, <1>22, <1>23, <1>24
  DEF Next, RelayStep, RelayFault

LEMMA ParkFacts ==
    IInv /\ PriceInv /\ [Next]_vars =>
        /\ \A r \in Relays : pc'[r] = "record" /\ Answer[row'[r]] = "ok" => ~IsPermanent(exc'[r])
        /\ \A x \in failed_at' : Answer[x] = "ok" => attempts'[x] >= OUTBOX_MAX_ATTEMPTS
<1>. DEFINE
       Facts ==
         /\ \A r \in Relays : pc[r] = "record" /\ Answer[row[r]] = "ok" => ~IsPermanent(exc[r])
         /\ \A x \in failed_at : Answer[x] = "ok" => attempts[x] >= OUTBOX_MAX_ATTEMPTS
<1>. SUFFICES ASSUME IInv, PriceInv, [Next]_vars PROVE Facts'
  OBVIOUS
<1>. USE LimitsAssumption
     DEF IInv, TypeOK, OutboxInv, PriceInv, Holding, table, sns, process
<1>1. ASSUME NEW x \in Rows, InsertRow(x) PROVE Facts'
  BY <1>1 DEF InsertRow, IsPermanent, PermanentSnsErrors
<1>2. ASSUME NEW x \in Rows, ClearFailedAt(x) PROVE Facts'
  BY <1>2 DEF ClearFailedAt, IsPermanent, PermanentSnsErrors
<1>3. ASSUME NEW r \in Relays, Start(r) PROVE Facts'
  BY <1>3 DEF Start, Resolve, IsPermanent, PermanentSnsErrors
<1>4. ASSUME NEW r \in Relays, Poll(r) PROVE Facts'
  BY <1>4 DEF Poll, IsPermanent, PermanentSnsErrors
<1>5. ASSUME NEW r \in Relays, Stop(r) PROVE Facts'
  BY <1>5 DEF Stop, Exit, Released, IsPermanent, PermanentSnsErrors
<1>6. ASSUME NEW r \in Relays, Claim(r) PROVE Facts'
  BY <1>6 DEF Claim, Claimable, NextRow, IsPermanent, PermanentSnsErrors
<1>7. ASSUME NEW r \in Relays, ResolveTopic(r) PROVE Facts'
  BY <1>7 DEF ResolveTopic, Resolve, IsPermanent, PermanentSnsErrors
<1>8. ASSUME NEW r \in Relays, SnsAccept(r) PROVE Facts'
  BY <1>8 DEF SnsAccept, IsPermanent, PermanentSnsErrors
<1>9. ASSUME NEW r \in Relays, PublishReturns(r) PROVE Facts'
  BY <1>9 DEF PublishReturns, IsPermanent, PermanentSnsErrors
<1>10. ASSUME NEW r \in Relays, PublishRejected(r) PROVE Facts'
  BY <1>10 DEF PublishRejected, Raise, Released, IsPermanent, PermanentSnsErrors
<1>11. ASSUME NEW r \in Relays, PublishNotFound(r) PROVE Facts'
  BY <1>11 DEF PublishNotFound, Raise, Released, IsPermanent, PermanentSnsErrors
<1>12. ASSUME NEW r \in Relays, Commit(r) PROVE Facts'
  BY <1>12 DEF Commit, NextRow, Released, WithRowPublished, IsPermanent, PermanentSnsErrors
<1>13. ASSUME NEW r \in Relays, CommitOnLostSession(r) PROVE Facts'
  BY <1>13 DEF CommitOnLostSession, Raise, Released, IsPermanent, PermanentSnsErrors
<1>14. ASSUME NEW r \in Relays, RecordFailure(r) PROVE Facts'
  BY <1>14 DEF RecordFailure, NextRow, CountAndPark, IsPermanent, PermanentSnsErrors
<1>15. ASSUME NEW r \in Relays, HandleSignal(r) PROVE Facts'
  BY <1>15 DEF HandleSignal, IsPermanent, PermanentSnsErrors
<1>16. ASSUME NEW r \in Relays, ClaimRaises(r) PROVE Facts'
  BY <1>16 DEF ClaimRaises, IsPermanent, PermanentSnsErrors
<1>17. ASSUME NEW r \in Relays, PublishNoAnswer(r) PROVE Facts'
  BY <1>17 DEF PublishNoAnswer, Raise, Released, IsPermanent, PermanentSnsErrors
<1>18. ASSUME NEW r \in Relays, CommitRaises(r) PROVE Facts'
  BY <1>18 DEF CommitRaises, Raise, Released, WithRowPublished, IsPermanent, PermanentSnsErrors
<1>19. ASSUME NEW r \in Relays, RecordRaises(r) PROVE Facts'
  BY <1>19 DEF RecordRaises, NextRow, CountAndPark, IsPermanent, PermanentSnsErrors
<1>20. ASSUME NEW r \in Relays, Crash(r) PROVE Facts'
  BY <1>20 DEF Crash, Exit, Released, IsPermanent, PermanentSnsErrors
<1>21. ASSUME NEW r \in Relays, SessionLost(r) PROVE Facts'
  BY <1>21 DEF SessionLost, Released, IsPermanent, PermanentSnsErrors
<1>22. ASSUME LocalStackRestart PROVE Facts'
  BY <1>22 DEF LocalStackRestart, IsPermanent, PermanentSnsErrors
<1>23. ASSUME Bootstrap PROVE Facts'
  BY <1>23 DEF Bootstrap, IsPermanent, PermanentSnsErrors
<1>24. CASE UNCHANGED vars
  BY <1>24 DEF vars, IsPermanent, PermanentSnsErrors
<1>. QED
  BY <1>1, <1>2, <1>3, <1>4, <1>5, <1>6, <1>7, <1>8, <1>9, <1>10,
     <1>11, <1>12, <1>13, <1>14, <1>15, <1>16, <1>17, <1>18, <1>19,
     <1>20, <1>21, <1>22, <1>23, <1>24
  DEF Next, RelayStep, RelayFault

LEMMA PriceInit == Init => PriceInv
<1>. SUFFICES ASSUME Init PROVE PriceInv
  OBVIOUS
<1>1. Stale = {} /\ \A x \in Rows : Failing(x) = {}
  BY DEF Init, Stale, Failing, Holding
<1>2. \A k \in FaultKinds : Spent(k) = 0
  BY BudgetAssumption DEF Init, Spent
<1>3. Cardinality(Relays) * 0 = 0
  BY RelaysAssumption, FS_CardinalityType
<1>4. Price = 0
  BY <1>2, <1>3 DEF Price, FaultKinds
<1>. QED BY <1>1, <1>4, FS_EmptySet DEF Init, PriceInv

\* A row SNS would accept is parked by record_failure only after
\* OUTBOX_MAX_ATTEMPTS failures of its own, each of which was a network error,
\* a database error, a lost session, or a relay's share of a restart.
THEOREM ParkingIsPaidFor == Spec => []HealthyParkingIsPaidFor
<1>1. IInv /\ PriceInv /\ [Next]_vars => PriceInv'
  BY InvStep, DueStep, ParkFacts DEF IInv, PriceInv, Due
<1>2. IInv /\ PriceInv => HealthyParkingIsPaidFor
  <2>. SUFFICES ASSUME IInv, PriceInv, NEW x \in failed_at, Answer[x] = "ok"
                PROVE  Price >= OUTBOX_MAX_ATTEMPTS
    BY DEF HealthyParkingIsPaidFor, Price
  <2>1. x \in Rows /\ attempts[x] \in Nat /\ Price \in Int
    BY PriceType DEF IInv, TypeOK
  <2>. QED BY <2>1, FailersFinite, LimitsAssumption DEF PriceInv
<1>. QED BY Inductive, PriceInit, <1>1, <1>2, PTL DEF Spec

=============================================================================
