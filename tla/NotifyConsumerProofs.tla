------------------------ MODULE NotifyConsumerProofs ------------------------
(***************************************************************************)
(* Notifications, for any number of messages, orders, consumers and        *)
(* faults: an order is notified once, and once more only for each claim    *)
(* that Redis forgot and each send that worked and raised; never, only by  *)
(* a crash, by Redis, or by a send that failed too slowly; and a sound     *)
(* message is set aside only for SQS_MAX_RECEIVE_COUNT faults.             *)
(***************************************************************************)
EXTENDS NotifyConsumer, SqsConsumerProofs

\* A consumer in its handler, or about to delete, works on a message, and it
\* holds a claim in its handler only.
MsgInv == \A c \in Consumers :
    /\ pc[c] \in {"handle", "delete"} => msg[c] \in Messages
    /\ stage[c] # "none" => pc[c] = "handle"

\* The consumers that claimed o, and have neither sent nor given back.
Holders(o) == {c \in Consumers : stage[c] # "none" /\ OrderOf(c) = o}

Free(o) == IF o \in claimed THEN 0 ELSE 1

\* The rights to notify of o: one was used, or a consumer holds it, or the key
\* is free to be set.  Only a fault makes one more.
Rights(o) == notified[o] + Cardinality(Holders(o)) + Free(o)
                 <= 1 + spent["forgotten"] + spent["sendUnacked"]

RightsInv == \A o \in Orders : Rights(o)

IInv == TypeOK /\ MsgInv /\ RightsInv

-----------------------------------------------------------------------------
(* Type correctness. *)

LEMMA SpendType ==
    ASSUME TypeOK, NEW kind \in FaultKinds, Spend(kind)
    PROVE  spent' \in [FaultKinds -> Nat]
BY DEF TypeOK, LoopTypeOK, Spend

LEMMA TypeInit == Init => TypeOK
BY CountsAssumption DEF Init, LoopInit, TypeOK, LoopTypeOK

LEMMA TypeStep == TypeOK /\ MsgInv /\ [Next]_vars => TypeOK'
<1>. SUFFICES ASSUME TypeOK, MsgInv, [Next]_vars PROVE TypeOK'
  OBVIOUS
<1>. USE CountsAssumption, OrderAssumption
     DEF TypeOK, LoopTypeOK, MsgInv, OrderOf, queue, process, loopVars, handler
<1>1. ASSUME NEW m \in Messages, Deliver(m), UNCHANGED handler PROVE TypeOK'
  BY <1>1 DEF Deliver
<1>2. ASSUME NEW m \in Messages, VisibilityExpires(m), UNCHANGED handler PROVE TypeOK'
  BY <1>2 DEF VisibilityExpires
<1>3. ASSUME NEW m \in Messages, TooSlow(m), UNCHANGED handler PROVE TypeOK'
  BY <1>3, SpendType DEF TooSlow, FaultKinds
<1>4. ASSUME NEW m \in Messages, MoveToDlq(m), UNCHANGED handler PROVE TypeOK'
  BY <1>4 DEF MoveToDlq
<1>5. ASSUME LocalStackRestart, UNCHANGED handler PROVE TypeOK'
  BY <1>5, SpendType DEF LocalStackRestart, FaultKinds
<1>6. ASSUME Bootstrap, UNCHANGED handler PROVE TypeOK'
  BY <1>6 DEF Bootstrap
<1>7. ASSUME NEW c \in Consumers, Start(c), UNCHANGED handler PROVE TypeOK'
  BY <1>7 DEF Start
<1>8. ASSUME NEW c \in Consumers, ResolveQueue(c), UNCHANGED handler PROVE TypeOK'
  BY <1>8 DEF ResolveQueue
<1>9. ASSUME NEW c \in Consumers, Receive(c), UNCHANGED handler PROVE TypeOK'
  BY <1>9 DEF Receive, HandOut, Receivable
<1>10. ASSUME NEW c \in Consumers, ReceiveNoQueue(c), UNCHANGED handler PROVE TypeOK'
  BY <1>10 DEF ReceiveNoQueue
<1>11. ASSUME NEW c \in Consumers, Take(c), UNCHANGED handler PROVE TypeOK'
  BY <1>11 DEF Take, Continue
<1>12. ASSUME NEW c \in Consumers, Delete(c), UNCHANGED handler PROVE TypeOK'
  BY <1>12 DEF Delete, Deleted, OnQueue, Continue
<1>13. ASSUME NEW c \in Consumers, DeleteNoQueue(c), UNCHANGED handler PROVE TypeOK'
  BY <1>13 DEF DeleteNoQueue, Continue
<1>14. ASSUME NEW c \in Consumers, Stop(c), UNCHANGED handler PROVE TypeOK'
  BY <1>14 DEF Stop, Exit
<1>15. ASSUME NEW c \in Consumers, ReceiveLost(c), UNCHANGED handler PROVE TypeOK'
  BY <1>15, SpendType DEF ReceiveLost, HandOut, Receivable, FaultKinds
<1>16. ASSUME NEW c \in Consumers, DeleteRaises(c), UNCHANGED handler PROVE TypeOK'
  BY <1>16, SpendType DEF DeleteRaises, Deleted, OnQueue, Continue, FaultKinds
<1>17. ASSUME NEW c \in Consumers, HandleSignal(c), UNCHANGED handler PROVE TypeOK'
  BY <1>17, SpendType DEF HandleSignal, FaultKinds
<1>18. ASSUME NEW c \in Consumers, Claim(c) PROVE TypeOK'
  BY <1>18 DEF Claim, Enter
<1>19. ASSUME NEW c \in Consumers, Duplicate(c) PROVE TypeOK'
  BY <1>19 DEF Duplicate, HandlerReturns
<1>20. ASSUME NEW c \in Consumers, ClaimRaises(c) PROVE TypeOK'
  BY <1>20, SpendType DEF ClaimRaises, HandlerRaises, Continue, FaultKinds
<1>21. ASSUME NEW c \in Consumers, SendNotification(c) PROVE TypeOK'
  BY <1>21 DEF SendNotification, Enter, HandlerReturns
<1>22. ASSUME NEW c \in Consumers, PayloadRaises(c) PROVE TypeOK'
  BY <1>22 DEF PayloadRaises, Enter
<1>23. ASSUME NEW c \in Consumers, SendRaises(c) PROVE TypeOK'
  BY <1>23, SpendType DEF SendRaises, Enter, FaultKinds
<1>24. ASSUME NEW c \in Consumers, Release(c) PROVE TypeOK'
  BY <1>24 DEF Release, Enter, WithoutClaim, HandlerRaises, Continue
<1>25. ASSUME NEW c \in Consumers, ReleaseRaises(c) PROVE TypeOK'
  BY <1>25, SpendType DEF ReleaseRaises, Enter, WithoutClaim, HandlerRaises, Continue, FaultKinds
<1>26. ASSUME NEW c \in Consumers, CrashInHandler(c) PROVE TypeOK'
  BY <1>26, SpendType DEF CrashInHandler, Enter, Crash, Exit, FaultKinds
<1>27. ASSUME NEW o \in Orders, ClaimForgotten(o) PROVE TypeOK'
  BY <1>27, SpendType DEF ClaimForgotten, FaultKinds
<1>28. CASE UNCHANGED vars
  BY <1>28 DEF vars
<1>. QED
  BY <1>1, <1>2, <1>3, <1>4, <1>5, <1>6, <1>7, <1>8, <1>9, <1>10,
     <1>11, <1>12, <1>13, <1>14, <1>15, <1>16, <1>17, <1>18, <1>19,
     <1>20, <1>21, <1>22, <1>23, <1>24, <1>25, <1>26, <1>27, <1>28
  DEF Next, ConsumerStep, LoopStep, LoopFault, QueueStep

LEMMA MsgStep == TypeOK /\ MsgInv /\ [Next]_vars => MsgInv'
<1>. SUFFICES ASSUME TypeOK, MsgInv, [Next]_vars PROVE MsgInv'
  OBVIOUS
<1>. USE DEF TypeOK, LoopTypeOK, MsgInv, queue, process, loopVars, handler
<1>1. ASSUME NEW m \in Messages, Deliver(m), UNCHANGED handler PROVE MsgInv'
  BY <1>1 DEF Deliver
<1>2. ASSUME NEW m \in Messages, VisibilityExpires(m), UNCHANGED handler PROVE MsgInv'
  BY <1>2 DEF VisibilityExpires
<1>3. ASSUME NEW m \in Messages, TooSlow(m), UNCHANGED handler PROVE MsgInv'
  BY <1>3 DEF TooSlow
<1>4. ASSUME NEW m \in Messages, MoveToDlq(m), UNCHANGED handler PROVE MsgInv'
  BY <1>4 DEF MoveToDlq
<1>5. ASSUME LocalStackRestart, UNCHANGED handler PROVE MsgInv'
  BY <1>5 DEF LocalStackRestart
<1>6. ASSUME Bootstrap, UNCHANGED handler PROVE MsgInv'
  BY <1>6 DEF Bootstrap
<1>7. ASSUME NEW c \in Consumers, Start(c), UNCHANGED handler PROVE MsgInv'
  BY <1>7 DEF Start
<1>8. ASSUME NEW c \in Consumers, ResolveQueue(c), UNCHANGED handler PROVE MsgInv'
  BY <1>8 DEF ResolveQueue
<1>9. ASSUME NEW c \in Consumers, Receive(c), UNCHANGED handler PROVE MsgInv'
  BY <1>9 DEF Receive, HandOut, Receivable
<1>10. ASSUME NEW c \in Consumers, ReceiveNoQueue(c), UNCHANGED handler PROVE MsgInv'
  BY <1>10 DEF ReceiveNoQueue
<1>11. ASSUME NEW c \in Consumers, Take(c), UNCHANGED handler PROVE MsgInv'
  BY <1>11 DEF Take, Continue
<1>12. ASSUME NEW c \in Consumers, Delete(c), UNCHANGED handler PROVE MsgInv'
  BY <1>12 DEF Delete, Deleted, OnQueue, Continue
<1>13. ASSUME NEW c \in Consumers, DeleteNoQueue(c), UNCHANGED handler PROVE MsgInv'
  BY <1>13 DEF DeleteNoQueue, Continue
<1>14. ASSUME NEW c \in Consumers, Stop(c), UNCHANGED handler PROVE MsgInv'
  BY <1>14 DEF Stop, Exit
<1>15. ASSUME NEW c \in Consumers, ReceiveLost(c), UNCHANGED handler PROVE MsgInv'
  BY <1>15 DEF ReceiveLost, HandOut, Receivable
<1>16. ASSUME NEW c \in Consumers, DeleteRaises(c), UNCHANGED handler PROVE MsgInv'
  BY <1>16 DEF DeleteRaises, Deleted, OnQueue, Continue
<1>17. ASSUME NEW c \in Consumers, HandleSignal(c), UNCHANGED handler PROVE MsgInv'
  BY <1>17 DEF HandleSignal
<1>18. ASSUME NEW c \in Consumers, Claim(c) PROVE MsgInv'
  BY <1>18 DEF Claim, Enter
<1>19. ASSUME NEW c \in Consumers, Duplicate(c) PROVE MsgInv'
  BY <1>19 DEF Duplicate, HandlerReturns
<1>20. ASSUME NEW c \in Consumers, ClaimRaises(c) PROVE MsgInv'
  BY <1>20 DEF ClaimRaises, HandlerRaises, Continue
<1>21. ASSUME NEW c \in Consumers, SendNotification(c) PROVE MsgInv'
  BY <1>21 DEF SendNotification, Enter, HandlerReturns
<1>22. ASSUME NEW c \in Consumers, PayloadRaises(c) PROVE MsgInv'
  BY <1>22 DEF PayloadRaises, Enter
<1>23. ASSUME NEW c \in Consumers, SendRaises(c) PROVE MsgInv'
  BY <1>23 DEF SendRaises, Enter
<1>24. ASSUME NEW c \in Consumers, Release(c) PROVE MsgInv'
  BY <1>24 DEF Release, Enter, WithoutClaim, HandlerRaises, Continue
<1>25. ASSUME NEW c \in Consumers, ReleaseRaises(c) PROVE MsgInv'
  BY <1>25 DEF ReleaseRaises, Enter, WithoutClaim, HandlerRaises, Continue
<1>26. ASSUME NEW c \in Consumers, CrashInHandler(c) PROVE MsgInv'
  BY <1>26 DEF CrashInHandler, Enter, Crash, Exit
<1>27. ASSUME NEW o \in Orders, ClaimForgotten(o) PROVE MsgInv'
  BY <1>27 DEF ClaimForgotten
<1>28. CASE UNCHANGED vars
  BY <1>28 DEF vars
<1>. QED
  BY <1>1, <1>2, <1>3, <1>4, <1>5, <1>6, <1>7, <1>8, <1>9, <1>10,
     <1>11, <1>12, <1>13, <1>14, <1>15, <1>16, <1>17, <1>18, <1>19,
     <1>20, <1>21, <1>22, <1>23, <1>24, <1>25, <1>26, <1>27, <1>28
  DEF Next, ConsumerStep, LoopStep, LoopFault, QueueStep

-----------------------------------------------------------------------------
(* The rights to notify. *)

\* A step that makes no right and moves none: claims are only set, holders
\* only fewer, each still at its message.
Calm ==
    /\ notified' = notified /\ claimed \subseteq claimed'
    /\ \A c \in Consumers : stage'[c] # "none" => stage[c] # "none" /\ msg'[c] = msg[c]
    /\ \A k \in FaultKinds : spent'[k] >= spent[k]

LEMMA SpendMore ==
    ASSUME TypeOK, NEW kind \in FaultKinds, Spend(kind)
    PROVE  /\ \A k \in FaultKinds : spent'[k] >= spent[k]
           /\ spent'[kind] = spent[kind] + 1
BY DEF TypeOK, LoopTypeOK, Spend

LEMMA HoldersFinite ==
    ASSUME NEW o
    PROVE  IsFiniteSet(Holders(o)) /\ Cardinality(Holders(o)) \in Nat
BY ConsumersAssumption, FS_Subset, FS_CardinalityType DEF Holders

LEMMA HoldersFinitePrime ==
    ASSUME NEW o
    PROVE  IsFiniteSet(Holders(o)') /\ Cardinality(Holders(o)') \in Nat
BY ConsumersAssumption, FS_Subset, FS_CardinalityType DEF Holders

LEMMA CalmKeeps ==
    ASSUME TypeOK, TypeOK', RightsInv, Calm, NEW o \in Orders
    PROVE  Rights(o)'
<1>1. Holders(o)' \subseteq Holders(o)
  BY DEF Calm, Holders, OrderOf
<1>2. Cardinality(Holders(o)') <= Cardinality(Holders(o))
  BY <1>1, HoldersFinite, FS_Subset
<1>3. Free(o)' <= Free(o)
  BY DEF Calm, Free
<1>4. /\ notified'[o] = notified[o] /\ notified[o] \in Nat
      /\ spent'["forgotten"] >= spent["forgotten"]
      /\ spent'["sendUnacked"] >= spent["sendUnacked"]
      /\ \A k \in {"forgotten", "sendUnacked"} : spent[k] \in Nat /\ spent'[k] \in Nat
  BY DEF Calm, TypeOK, LoopTypeOK, FaultKinds
<1>5. Free(o) \in Nat /\ Free(o)' \in Nat
  BY DEF Free
<1>. QED
  BY <1>2, <1>3, <1>4, <1>5, HoldersFinite, HoldersFinitePrime DEF RightsInv, Rights

\* A consumer that stops holding o leaves one holder fewer.
LEMMA HolderLeaves ==
    ASSUME TypeOK, NEW c \in Consumers, stage[c] # "none",
           stage' = [stage EXCEPT ![c] = "none"],
           \A d \in Consumers \ {c} : msg'[d] = msg[d],
           NEW o \in Orders
    PROVE  Cardinality(Holders(o)')
             = IF o = OrderOf(c) THEN Cardinality(Holders(o)) - 1 ELSE Cardinality(Holders(o))
<1>1. CASE o = OrderOf(c)
  <2>1. c \in Holders(o) /\ Holders(o)' = Holders(o) \ {c}
    BY <1>1 DEF Holders, OrderOf, TypeOK
  <2>. QED BY <1>1, <2>1, HoldersFinite, FS_RemoveElement
<1>2. CASE o # OrderOf(c)
  <2>1. Holders(o)' = Holders(o)
    BY <1>2 DEF Holders, OrderOf, TypeOK
  <2>. QED BY <1>2, <2>1
<1>. QED BY <1>1, <1>2

LEMMA CalmStep ==
    ASSUME TypeOK, MsgInv,
           \/ QueueStep /\ UNCHANGED handler
           \/ \E c \in Consumers :
                \/ (LoopStep(c) \/ LoopFault(c)) /\ UNCHANGED handler
                \/ Duplicate(c) \/ ClaimRaises(c) \/ PayloadRaises(c) \/ CrashInHandler(c)
           \/ UNCHANGED vars
    PROVE  Calm
<1>. USE DEF Calm, TypeOK, LoopTypeOK, MsgInv, queue, process, loopVars, handler
<1>1. ASSUME NEW m \in Messages, Deliver(m), UNCHANGED handler PROVE Calm
  BY <1>1 DEF Deliver
<1>2. ASSUME NEW m \in Messages, VisibilityExpires(m), UNCHANGED handler PROVE Calm
  BY <1>2 DEF VisibilityExpires
<1>3. ASSUME NEW m \in Messages, TooSlow(m), UNCHANGED handler PROVE Calm
  BY <1>3, SpendMore DEF TooSlow, FaultKinds
<1>4. ASSUME NEW m \in Messages, MoveToDlq(m), UNCHANGED handler PROVE Calm
  BY <1>4 DEF MoveToDlq
<1>5. ASSUME LocalStackRestart, UNCHANGED handler PROVE Calm
  BY <1>5, SpendMore DEF LocalStackRestart, FaultKinds
<1>6. ASSUME Bootstrap, UNCHANGED handler PROVE Calm
  BY <1>6 DEF Bootstrap
<1>7. ASSUME NEW c \in Consumers, Start(c), UNCHANGED handler PROVE Calm
  BY <1>7 DEF Start
<1>8. ASSUME NEW c \in Consumers, ResolveQueue(c), UNCHANGED handler PROVE Calm
  BY <1>8 DEF ResolveQueue
<1>9. ASSUME NEW c \in Consumers, Receive(c), UNCHANGED handler PROVE Calm
  BY <1>9 DEF Receive
<1>10. ASSUME NEW c \in Consumers, ReceiveNoQueue(c), UNCHANGED handler PROVE Calm
  BY <1>10 DEF ReceiveNoQueue
<1>11. ASSUME NEW c \in Consumers, Take(c), UNCHANGED handler PROVE Calm
  BY <1>11 DEF Take, Continue
<1>12. ASSUME NEW c \in Consumers, Delete(c), UNCHANGED handler PROVE Calm
  BY <1>12 DEF Delete, Continue
<1>13. ASSUME NEW c \in Consumers, DeleteNoQueue(c), UNCHANGED handler PROVE Calm
  BY <1>13 DEF DeleteNoQueue, Continue
<1>14. ASSUME NEW c \in Consumers, Stop(c), UNCHANGED handler PROVE Calm
  BY <1>14 DEF Stop, Exit
<1>15. ASSUME NEW c \in Consumers, ReceiveLost(c), UNCHANGED handler PROVE Calm
  BY <1>15, SpendMore DEF ReceiveLost, FaultKinds
<1>16. ASSUME NEW c \in Consumers, DeleteRaises(c), UNCHANGED handler PROVE Calm
  BY <1>16, SpendMore DEF DeleteRaises, Continue, FaultKinds
<1>17. ASSUME NEW c \in Consumers, HandleSignal(c), UNCHANGED handler PROVE Calm
  BY <1>17, SpendMore DEF HandleSignal, FaultKinds
<1>18. ASSUME NEW c \in Consumers, Duplicate(c) PROVE Calm
  BY <1>18 DEF Duplicate, HandlerReturns
<1>19. ASSUME NEW c \in Consumers, ClaimRaises(c) PROVE Calm
  BY <1>19, SpendMore DEF ClaimRaises, HandlerRaises, Continue, FaultKinds
<1>20. ASSUME NEW c \in Consumers, PayloadRaises(c) PROVE Calm
  BY <1>20 DEF PayloadRaises, Enter
<1>21. ASSUME NEW c \in Consumers, CrashInHandler(c) PROVE Calm
  BY <1>21, SpendMore DEF CrashInHandler, Enter, Crash, Exit, FaultKinds
<1>22. CASE UNCHANGED vars
  BY <1>22 DEF vars
<1>. QED
  BY <1>1, <1>2, <1>3, <1>4, <1>5, <1>6, <1>7, <1>8, <1>9, <1>10,
     <1>11, <1>12, <1>13, <1>14, <1>15, <1>16, <1>17, <1>18, <1>19,
     <1>20, <1>21, <1>22
  DEF LoopStep, LoopFault, QueueStep

LEMMA RightsStep == IInv /\ TypeOK' /\ [Next]_vars => RightsInv'
<1>. SUFFICES ASSUME IInv, TypeOK', [Next]_vars, NEW o \in Orders PROVE Rights(o)'
  BY DEF RightsInv
<1>. USE HoldersFinite, HoldersFinitePrime DEF IInv, RightsInv, Rights
<1>t. /\ notified[o] \in Nat /\ notified'[o] \in Nat
      /\ \A k \in {"forgotten", "sendUnacked"} : spent[k] \in Nat /\ spent'[k] \in Nat
  BY DEF TypeOK, LoopTypeOK, FaultKinds
<1>1. ASSUME NEW c \in Consumers, Claim(c) PROVE Rights(o)'
  <2>. /\ stage[c] = "none" /\ stage' = [stage EXCEPT ![c] = "sending"]
       /\ msg' = msg /\ notified' = notified /\ spent' = spent
       /\ OrderOf(c) \notin claimed /\ claimed' = claimed \cup {OrderOf(c)}
    BY <1>1 DEF Claim, Enter, loopVars, process
  <2>1. CASE o = OrderOf(c)
    <3>1. c \notin Holders(o) /\ Holders(o)' = Holders(o) \cup {c}
      BY <2>1 DEF Holders, OrderOf, TypeOK
    <3>2. Cardinality(Holders(o)') = Cardinality(Holders(o)) + 1
      BY <3>1, FS_AddElement
    <3>3. Free(o) = 1 /\ Free(o)' = 0
      BY <2>1 DEF Free
    <3>. QED BY <1>t, <3>2, <3>3
  <2>2. CASE o # OrderOf(c)
    <3>1. Holders(o)' = Holders(o) /\ Free(o)' = Free(o)
      BY <2>2 DEF Holders, OrderOf, TypeOK, Free
    <3>. QED BY <3>1
  <2>. QED BY <2>1, <2>2
<1>2. ASSUME NEW c \in Consumers, SendNotification(c) PROVE Rights(o)'
  <2>1. /\ stage[c] # "none" /\ stage' = [stage EXCEPT ![c] = "none"] /\ msg' = msg
        /\ spent' = spent /\ Free(o)' = Free(o) /\ Free(o) \in Nat
        /\ notified'[o] = IF o = OrderOf(c) THEN notified[o] + 1 ELSE notified[o]
    BY <1>2 DEF SendNotification, Enter, HandlerReturns, Free, TypeOK
  <2>2. Cardinality(Holders(o)')
          = IF o = OrderOf(c) THEN Cardinality(Holders(o)) - 1 ELSE Cardinality(Holders(o))
    BY <2>1, HolderLeaves
  <2>. QED BY <1>t, <2>1, <2>2
<1>3. ASSUME NEW c \in Consumers, SendRaises(c) PROVE Rights(o)'
  <2>1. Holders(o)' = Holders(o) /\ Free(o)' = Free(o) /\ Free(o) \in Nat
    BY <1>3 DEF SendRaises, Enter, process, Holders, OrderOf, Free, TypeOK
  <2>2. CASE Spend("sendFails") /\ UNCHANGED notified
    BY <1>t, <2>1, <2>2, SpendMore DEF FaultKinds
  <2>3. CASE Spend("sendUnacked") /\ notified' = [notified EXCEPT ![OrderOf(c)] = @ + 1]
    <3>1. notified'[o] <= notified[o] + 1
      BY <1>t, <2>3 DEF TypeOK
    <3>2. /\ spent'["sendUnacked"] = spent["sendUnacked"] + 1
          /\ spent'["forgotten"] >= spent["forgotten"]
      BY <2>3, SpendMore DEF FaultKinds
    <3>. QED BY <1>t, <2>1, <3>1, <3>2
  <2>. QED BY <1>3, <2>2, <2>3 DEF SendRaises
<1>4. ASSUME NEW c \in Consumers, Release(c) \/ ReleaseRaises(c) PROVE Rights(o)'
  <2>1. /\ stage[c] # "none" /\ stage' = [stage EXCEPT ![c] = "none"]
        /\ \A d \in Consumers \ {c} : msg'[d] = msg[d]
        /\ notified' = notified
        /\ claimed' \in {claimed, claimed \ {OrderOf(c)}}
    BY <1>4
    DEF Release, ReleaseRaises, WithoutClaim, Enter, HandlerRaises, Continue, TypeOK, LoopTypeOK
  <2>2. \A k \in {"forgotten", "sendUnacked"} : spent'[k] >= spent[k]
    BY <1>4, <1>t, SpendMore DEF Release, ReleaseRaises, FaultKinds
  <2>3. Cardinality(Holders(o)')
          = IF o = OrderOf(c) THEN Cardinality(Holders(o)) - 1 ELSE Cardinality(Holders(o))
    BY <2>1, HolderLeaves
  <2>4. /\ Free(o) \in Nat /\ Free(o)' \in Nat
        /\ Free(o)' <= IF o = OrderOf(c) THEN Free(o) + 1 ELSE Free(o)
    BY <2>1 DEF Free
  <2>. QED BY <1>t, <2>1, <2>2, <2>3, <2>4
<1>5. ASSUME NEW p \in Orders, ClaimForgotten(p) PROVE Rights(o)'
  <2>1. Holders(o)' = Holders(o) /\ notified' = notified
    BY <1>5 DEF ClaimForgotten, process, Holders, OrderOf
  <2>2. /\ spent'["forgotten"] = spent["forgotten"] + 1
        /\ spent'["sendUnacked"] >= spent["sendUnacked"]
    BY <1>5, SpendMore DEF ClaimForgotten, FaultKinds
  <2>3. Free(o) \in Nat /\ Free(o)' \in Nat /\ Free(o)' <= Free(o) + 1
    BY DEF Free
  <2>. QED BY <1>t, <2>1, <2>2, <2>3
<1>6. ASSUME Calm PROVE Rights(o)'
  BY <1>6, CalmKeeps
<1>. QED
  BY <1>1, <1>2, <1>3, <1>4, <1>5, <1>6, CalmStep DEF Next, ConsumerStep

-----------------------------------------------------------------------------
(* The theorems. *)

LEMMA IInvInit == Init => IInv
<1>. SUFFICES ASSUME Init PROVE IInv
  OBVIOUS
<1>1. MsgInv
  BY DEF Init, LoopInit, MsgInv
<1>2. ASSUME NEW o \in Orders PROVE Rights(o)
  <2>1. Holders(o) = {}
    BY DEF Init, Holders
  <2>2. Cardinality(Holders(o)) = 0
    BY <2>1, FS_EmptySet
  <2>. QED BY <2>2 DEF Init, LoopInit, Rights, Free, FaultKinds
<1>. QED BY <1>1, <1>2, TypeInit DEF IInv, RightsInv

\* The inductive invariant: shared/consumer.py's loop around the claim and the
\* send of notifications/service.py.
THEOREM Inductive == Spec => []IInv
<1>1. IInv /\ [Next]_vars => IInv'
  BY TypeStep, MsgStep, RightsStep DEF IInv
<1>. QED BY IInvInit, <1>1, PTL DEF Spec

\* Every variable keeps its type.
THEOREM TypeCorrect == Spec => []TypeOK
<1>1. IInv => TypeOK
  BY DEF IInv
<1>. QED BY Inductive, <1>1, PTL

\* However often its event is delivered, an order is notified once, and once
\* more only for each claim Redis forgot and each send that worked and raised.
THEOREM NotifiedOnceButForFaults == Spec => []EveryNotificationAccounted
<1>1. ASSUME IInv, NEW o \in Orders
      PROVE notified[o] <= 1 + spent["forgotten"] + spent["sendUnacked"]
  <2>1. /\ notified[o] \in Nat /\ Free(o) \in Nat
        /\ spent["forgotten"] \in Nat /\ spent["sendUnacked"] \in Nat
    BY <1>1 DEF IInv, TypeOK, LoopTypeOK, FaultKinds, Free
  <2>. QED BY <1>1, <2>1, HoldersFinite DEF IInv, RightsInv, Rights
<1>2. IInv => EveryNotificationAccounted
  BY <1>1 DEF EveryNotificationAccounted
<1>. QED BY Inductive, <1>2, PTL

-----------------------------------------------------------------------------
(* How a notification is lost. *)

\* A consumer works on a message of its batch.  While none was slow, what one
\* has in hand is hidden from the others, and stays on the queue.
HandInv ==
    /\ \A c \in Consumers : pc[c] \in {"handle", "delete"} => msg[c] \in hand[c]
    /\ spent["slow"] = 0 =>
         \A c \in Consumers : \A m \in hand[c] :
             /\ m \in newest[c] /\ state[m] \in {"inFlight", "gone"}
             /\ \A d \in Consumers \ {c} : m \notin hand[d]

\* A send that raised and was not paid for, of a sound message, had worked.
FailInv == \A c \in Consumers : stage[c] = "failed" =>
    spent["sendFails"] > 0 \/ Body[msg[c]] # "order" \/ notified[OrderOf(c)] > 0

\* A key in Redis stands for a notification, or for a consumer about to send
\* or to give it back, unless one crashed or Redis did not answer.
ClaimInv == \A o \in claimed :
    spent["crash"] > 0 \/ spent["redisError"] > 0 \/ notified[o] > 0 \/ Holders(o) # {}

\* Neither deleted nor about to be.
Unfinished(m) ==
    /\ state[m] # "deleted"
    /\ \A c \in Consumers : ~ (pc[c] = "delete" /\ msg[c] = m)

Explained(o) ==
    \/ spent["crash"] > 0
    \/ spent["redisError"] > 0
    \/ spent["slow"] > 0 /\ spent["sendFails"] > 0
    \/ \E m \in MessagesOf(o) : Body[m] # "order"

\* An order that was not notified of, nor will be by a holder, has a message left.
LossInv == \A o \in Orders :
    \/ Explained(o) \/ notified[o] > 0 \/ Holders(o) # {}
    \/ MessagesOf(o) = {} \/ \E m \in MessagesOf(o) : Unfinished(m)

LInv == IInv /\ HandInv /\ FailInv /\ ClaimInv /\ LossInv

LEMMA PaidFor ==
    ASSUME TypeOK, NEW kind \in FaultKinds, Spend(kind)
    PROVE  spent'[kind] > 0
BY SpendMore DEF TypeOK, LoopTypeOK

\* A step costs one fault at most.
OneFault == UNCHANGED spent \/ \E kind \in FaultKinds : Spend(kind)

\* What was spent stays spent.
LEMMA FaultsLast ==
    ASSUME IInv, [Next]_vars,
           NEW k \in {"crash", "redisError", "slow", "sendFails"}, spent[k] > 0
    PROVE  spent'[k] > 0
<1>1. CASE UNCHANGED spent
  BY <1>1
<1>2. CASE \E kind \in FaultKinds : Spend(kind)
  <2>1. k \in FaultKinds /\ spent'[k] >= spent[k]
    BY <1>2, SpendMore DEF IInv, FaultKinds
  <2>2. spent[k] \in Nat /\ spent'[k] \in Nat
    BY <1>2, <2>1, SpendType DEF IInv, TypeOK, LoopTypeOK
  <2>. QED BY <2>1, <2>2
<1>3. OneFault
  <2>. USE DEF OneFault, FaultKinds, vars, loopVars, queue, process, handler
  <2>1. ASSUME NEW m \in Messages, Deliver(m) PROVE OneFault
    BY <2>1 DEF Deliver
  <2>2. ASSUME NEW m \in Messages, VisibilityExpires(m) PROVE OneFault
    BY <2>2 DEF VisibilityExpires
  <2>3. ASSUME NEW m \in Messages, TooSlow(m) PROVE OneFault
    BY <2>3 DEF TooSlow
  <2>4. ASSUME NEW m \in Messages, MoveToDlq(m) PROVE OneFault
    BY <2>4 DEF MoveToDlq
  <2>5. ASSUME LocalStackRestart PROVE OneFault
    BY <2>5 DEF LocalStackRestart
  <2>6. ASSUME Bootstrap PROVE OneFault
    BY <2>6 DEF Bootstrap
  <2>7. ASSUME NEW c \in Consumers, Start(c) PROVE OneFault
    BY <2>7 DEF Start
  <2>8. ASSUME NEW c \in Consumers, ResolveQueue(c) PROVE OneFault
    BY <2>8 DEF ResolveQueue
  <2>9. ASSUME NEW c \in Consumers, Receive(c) PROVE OneFault
    BY <2>9 DEF Receive
  <2>10. ASSUME NEW c \in Consumers, ReceiveNoQueue(c) PROVE OneFault
    BY <2>10 DEF ReceiveNoQueue
  <2>11. ASSUME NEW c \in Consumers, Take(c) PROVE OneFault
    BY <2>11 DEF Take
  <2>12. ASSUME NEW c \in Consumers, Delete(c) PROVE OneFault
    BY <2>12 DEF Delete
  <2>13. ASSUME NEW c \in Consumers, DeleteNoQueue(c) PROVE OneFault
    BY <2>13 DEF DeleteNoQueue
  <2>14. ASSUME NEW c \in Consumers, Stop(c) PROVE OneFault
    BY <2>14 DEF Stop
  <2>15. ASSUME NEW c \in Consumers, ReceiveLost(c) PROVE OneFault
    BY <2>15 DEF ReceiveLost
  <2>16. ASSUME NEW c \in Consumers, DeleteRaises(c) PROVE OneFault
    BY <2>16 DEF DeleteRaises
  <2>17. ASSUME NEW c \in Consumers, HandleSignal(c) PROVE OneFault
    BY <2>17 DEF HandleSignal
  <2>18. ASSUME NEW c \in Consumers, Claim(c) PROVE OneFault
    BY <2>18 DEF Claim
  <2>19. ASSUME NEW c \in Consumers, Duplicate(c) PROVE OneFault
    BY <2>19 DEF Duplicate
  <2>20. ASSUME NEW c \in Consumers, ClaimRaises(c) PROVE OneFault
    BY <2>20 DEF ClaimRaises
  <2>21. ASSUME NEW c \in Consumers, SendNotification(c) PROVE OneFault
    BY <2>21 DEF SendNotification
  <2>22. ASSUME NEW c \in Consumers, PayloadRaises(c) PROVE OneFault
    BY <2>22 DEF PayloadRaises
  <2>23. ASSUME NEW c \in Consumers, SendRaises(c) PROVE OneFault
    BY <2>23 DEF SendRaises
  <2>24. ASSUME NEW c \in Consumers, Release(c) PROVE OneFault
    BY <2>24 DEF Release
  <2>25. ASSUME NEW c \in Consumers, ReleaseRaises(c) PROVE OneFault
    BY <2>25 DEF ReleaseRaises
  <2>26. ASSUME NEW c \in Consumers, CrashInHandler(c) PROVE OneFault
    BY <2>26 DEF CrashInHandler, Crash
  <2>27. ASSUME NEW p \in Orders, ClaimForgotten(p) PROVE OneFault
    BY <2>27 DEF ClaimForgotten
  <2>28. CASE UNCHANGED vars
    BY <2>28
  <2>. QED
    BY <2>1, <2>2, <2>3, <2>4, <2>5, <2>6, <2>7, <2>8, <2>9, <2>10,
       <2>11, <2>12, <2>13, <2>14, <2>15, <2>16, <2>17, <2>18, <2>19,
       <2>20, <2>21, <2>22, <2>23, <2>24, <2>25, <2>26, <2>27, <2>28
    DEF Next, ConsumerStep, LoopStep, LoopFault, QueueStep
<1>. QED BY <1>1, <1>2, <1>3 DEF OneFault

LEMMA HandStep == IInv /\ HandInv /\ [Next]_vars => HandInv'
<1>. SUFFICES ASSUME IInv, HandInv, [Next]_vars PROVE HandInv'
  OBVIOUS
<1>. USE DEF IInv, HandInv, TypeOK, LoopTypeOK, queue, process, loopVars, handler
<1>1. ASSUME NEW m \in Messages, Deliver(m), UNCHANGED handler PROVE HandInv'
  BY <1>1 DEF Deliver
<1>2. ASSUME NEW m \in Messages, VisibilityExpires(m), UNCHANGED handler PROVE HandInv'
  BY <1>2 DEF VisibilityExpires
<1>3. ASSUME NEW m \in Messages, TooSlow(m), UNCHANGED handler PROVE HandInv'
  BY <1>3, SpendMore DEF TooSlow, FaultKinds
<1>4. ASSUME NEW m \in Messages, MoveToDlq(m), UNCHANGED handler PROVE HandInv'
  BY <1>4 DEF MoveToDlq
<1>5. ASSUME LocalStackRestart, UNCHANGED handler PROVE HandInv'
  BY <1>5, SpendMore DEF LocalStackRestart, FaultKinds
<1>6. ASSUME Bootstrap, UNCHANGED handler PROVE HandInv'
  BY <1>6 DEF Bootstrap
<1>7. ASSUME NEW c \in Consumers, Start(c), UNCHANGED handler PROVE HandInv'
  BY <1>7 DEF Start
<1>8. ASSUME NEW c \in Consumers, ResolveQueue(c), UNCHANGED handler PROVE HandInv'
  BY <1>8 DEF ResolveQueue
<1>9. ASSUME NEW c \in Consumers, Receive(c), UNCHANGED handler PROVE HandInv'
  BY <1>9 DEF Receive, HandOut, Receivable
<1>10. ASSUME NEW c \in Consumers, ReceiveNoQueue(c), UNCHANGED handler PROVE HandInv'
  BY <1>10 DEF ReceiveNoQueue
<1>11. ASSUME NEW c \in Consumers, Take(c), UNCHANGED handler PROVE HandInv'
  <2>. PICK m \in hand[c] :
         \/ Continue(c, hand[c] \ {m})
         \/ /\ msg' = [msg EXCEPT ![c] = m]
            /\ pc' = [pc EXCEPT ![c] = "handle"]
            /\ UNCHANGED <<hand, newest>>
    BY <1>11 DEF Take
  <2>1. CASE Continue(c, hand[c] \ {m})
    BY <1>11, <2>1 DEF Take, Continue
  <2>2. CASE /\ msg' = [msg EXCEPT ![c] = m]
             /\ pc' = [pc EXCEPT ![c] = "handle"]
             /\ UNCHANGED <<hand, newest>>
    BY <1>11, <2>2 DEF Take
  <2>. QED BY <2>1, <2>2
<1>12. ASSUME NEW c \in Consumers, Delete(c), UNCHANGED handler PROVE HandInv'
  BY <1>12 DEF Delete, Deleted, Continue
<1>13. ASSUME NEW c \in Consumers, DeleteNoQueue(c), UNCHANGED handler PROVE HandInv'
  BY <1>13 DEF DeleteNoQueue, Continue
<1>14. ASSUME NEW c \in Consumers, Stop(c), UNCHANGED handler PROVE HandInv'
  BY <1>14 DEF Stop, Exit
<1>15. ASSUME NEW c \in Consumers, ReceiveLost(c), UNCHANGED handler PROVE HandInv'
  BY <1>15, SpendMore DEF ReceiveLost, HandOut, Receivable, FaultKinds
<1>16. ASSUME NEW c \in Consumers, DeleteRaises(c), UNCHANGED handler PROVE HandInv'
  BY <1>16, SpendMore DEF DeleteRaises, Deleted, Continue, FaultKinds
<1>17. ASSUME NEW c \in Consumers, HandleSignal(c), UNCHANGED handler PROVE HandInv'
  BY <1>17, SpendMore DEF HandleSignal, FaultKinds
<1>18. ASSUME NEW c \in Consumers, Claim(c) PROVE HandInv'
  BY <1>18 DEF Claim, Enter
<1>19. ASSUME NEW c \in Consumers, Duplicate(c) PROVE HandInv'
  BY <1>19 DEF Duplicate, HandlerReturns
<1>20. ASSUME NEW c \in Consumers, ClaimRaises(c) PROVE HandInv'
  BY <1>20, SpendMore DEF ClaimRaises, HandlerRaises, Continue, FaultKinds
<1>21. ASSUME NEW c \in Consumers, SendNotification(c) PROVE HandInv'
  BY <1>21 DEF SendNotification, Enter, HandlerReturns
<1>22. ASSUME NEW c \in Consumers, PayloadRaises(c) PROVE HandInv'
  BY <1>22 DEF PayloadRaises, Enter
<1>23. ASSUME NEW c \in Consumers, SendRaises(c) PROVE HandInv'
  BY <1>23, SpendMore DEF SendRaises, Enter, FaultKinds
<1>24. ASSUME NEW c \in Consumers, Release(c) PROVE HandInv'
  BY <1>24 DEF Release, Enter, WithoutClaim, HandlerRaises, Continue
<1>25. ASSUME NEW c \in Consumers, ReleaseRaises(c) PROVE HandInv'
  BY <1>25, SpendMore DEF ReleaseRaises, Enter, WithoutClaim, HandlerRaises, Continue, FaultKinds
<1>26. ASSUME NEW c \in Consumers, CrashInHandler(c) PROVE HandInv'
  BY <1>26, SpendMore DEF CrashInHandler, Enter, Crash, Exit, FaultKinds
<1>27. ASSUME NEW p \in Orders, ClaimForgotten(p) PROVE HandInv'
  BY <1>27, SpendMore DEF ClaimForgotten, FaultKinds
<1>28. CASE UNCHANGED vars
  BY <1>28 DEF vars
<1>. QED
  BY <1>1, <1>2, <1>3, <1>4, <1>5, <1>6, <1>7, <1>8, <1>9, <1>10,
     <1>11, <1>12, <1>13, <1>14, <1>15, <1>16, <1>17, <1>18, <1>19,
     <1>20, <1>21, <1>22, <1>23, <1>24, <1>25, <1>26, <1>27, <1>28
  DEF Next, ConsumerStep, LoopStep, LoopFault, QueueStep

LEMMA FailStep == IInv /\ FailInv /\ [Next]_vars => FailInv'
<1>. SUFFICES ASSUME IInv, FailInv, [Next]_vars PROVE FailInv'
  OBVIOUS
<1>. USE OrderAssumption
     DEF IInv, MsgInv, FailInv, OrderOf, TypeOK, LoopTypeOK,
         queue, process, loopVars, handler
<1>g. \A k \in {"crash", "redisError", "slow", "sendFails"} : spent[k] > 0 => spent'[k] > 0
  BY FaultsLast DEF LInv
<1>1. ASSUME NEW m \in Messages, Deliver(m), UNCHANGED handler PROVE FailInv'
  BY <1>1, <1>g DEF Deliver
<1>2. ASSUME NEW m \in Messages, VisibilityExpires(m), UNCHANGED handler PROVE FailInv'
  BY <1>2, <1>g DEF VisibilityExpires
<1>3. ASSUME NEW m \in Messages, TooSlow(m), UNCHANGED handler PROVE FailInv'
  BY <1>3, <1>g DEF TooSlow, FaultKinds
<1>4. ASSUME NEW m \in Messages, MoveToDlq(m), UNCHANGED handler PROVE FailInv'
  BY <1>4, <1>g DEF MoveToDlq
<1>5. ASSUME LocalStackRestart, UNCHANGED handler PROVE FailInv'
  BY <1>5, <1>g DEF LocalStackRestart, FaultKinds
<1>6. ASSUME Bootstrap, UNCHANGED handler PROVE FailInv'
  BY <1>6, <1>g DEF Bootstrap
<1>7. ASSUME NEW c \in Consumers, Start(c), UNCHANGED handler PROVE FailInv'
  BY <1>7, <1>g DEF Start
<1>8. ASSUME NEW c \in Consumers, ResolveQueue(c), UNCHANGED handler PROVE FailInv'
  BY <1>8, <1>g DEF ResolveQueue
<1>9. ASSUME NEW c \in Consumers, Receive(c), UNCHANGED handler PROVE FailInv'
  BY <1>9, <1>g DEF Receive
<1>10. ASSUME NEW c \in Consumers, ReceiveNoQueue(c), UNCHANGED handler PROVE FailInv'
  BY <1>10, <1>g DEF ReceiveNoQueue
<1>11. ASSUME NEW c \in Consumers, Take(c), UNCHANGED handler PROVE FailInv'
  BY <1>11, <1>g DEF Take, Continue
<1>12. ASSUME NEW c \in Consumers, Delete(c), UNCHANGED handler PROVE FailInv'
  BY <1>12, <1>g DEF Delete, Continue
<1>13. ASSUME NEW c \in Consumers, DeleteNoQueue(c), UNCHANGED handler PROVE FailInv'
  BY <1>13, <1>g DEF DeleteNoQueue, Continue
<1>14. ASSUME NEW c \in Consumers, Stop(c), UNCHANGED handler PROVE FailInv'
  BY <1>14, <1>g DEF Stop, Exit
<1>15. ASSUME NEW c \in Consumers, ReceiveLost(c), UNCHANGED handler PROVE FailInv'
  BY <1>15, <1>g DEF ReceiveLost, FaultKinds
<1>16. ASSUME NEW c \in Consumers, DeleteRaises(c), UNCHANGED handler PROVE FailInv'
  BY <1>16, <1>g DEF DeleteRaises, Continue, FaultKinds
<1>17. ASSUME NEW c \in Consumers, HandleSignal(c), UNCHANGED handler PROVE FailInv'
  BY <1>17, <1>g DEF HandleSignal, FaultKinds
<1>18. ASSUME NEW c \in Consumers, Claim(c) PROVE FailInv'
  BY <1>18, <1>g DEF Claim, Enter
<1>19. ASSUME NEW c \in Consumers, Duplicate(c) PROVE FailInv'
  BY <1>19, <1>g DEF Duplicate, HandlerReturns
<1>20. ASSUME NEW c \in Consumers, ClaimRaises(c) PROVE FailInv'
  BY <1>20, <1>g, PaidFor DEF ClaimRaises, HandlerRaises, Continue, FaultKinds
<1>21. ASSUME NEW c \in Consumers, SendNotification(c) PROVE FailInv'
  BY <1>21, <1>g DEF SendNotification, Enter, HandlerReturns
<1>22. ASSUME NEW c \in Consumers, PayloadRaises(c) PROVE FailInv'
  BY <1>22, <1>g DEF PayloadRaises, Enter
<1>23. ASSUME NEW c \in Consumers, SendRaises(c) PROVE FailInv'
  BY <1>23, <1>g, PaidFor DEF SendRaises, Enter, FaultKinds
<1>24. ASSUME NEW c \in Consumers, Release(c) PROVE FailInv'
  BY <1>24, <1>g DEF Release, Enter, WithoutClaim, HandlerRaises, Continue
<1>25. ASSUME NEW c \in Consumers, ReleaseRaises(c) PROVE FailInv'
  BY <1>25, <1>g, PaidFor DEF ReleaseRaises, Enter, WithoutClaim, HandlerRaises, Continue, FaultKinds
<1>26. ASSUME NEW c \in Consumers, CrashInHandler(c) PROVE FailInv'
  BY <1>26, <1>g, PaidFor DEF CrashInHandler, Enter, Crash, Exit, FaultKinds
<1>27. ASSUME NEW p \in Orders, ClaimForgotten(p) PROVE FailInv'
  BY <1>27, <1>g DEF ClaimForgotten, FaultKinds
<1>28. CASE UNCHANGED vars
  BY <1>28 DEF vars
<1>. QED
  BY <1>1, <1>2, <1>3, <1>4, <1>5, <1>6, <1>7, <1>8, <1>9, <1>10,
     <1>11, <1>12, <1>13, <1>14, <1>15, <1>16, <1>17, <1>18, <1>19,
     <1>20, <1>21, <1>22, <1>23, <1>24, <1>25, <1>26, <1>27, <1>28
  DEF Next, ConsumerStep, LoopStep, LoopFault, QueueStep

LEMMA ClaimStep == IInv /\ ClaimInv /\ [Next]_vars => ClaimInv'
<1>. SUFFICES ASSUME IInv, ClaimInv, [Next]_vars PROVE ClaimInv'
  OBVIOUS
<1>. USE OrderAssumption
     DEF IInv, MsgInv, ClaimInv, Holders, OrderOf, TypeOK, LoopTypeOK,
         queue, process, loopVars, handler
<1>g. \A k \in {"crash", "redisError", "slow", "sendFails"} : spent[k] > 0 => spent'[k] > 0
  BY FaultsLast DEF LInv
<1>1. ASSUME NEW m \in Messages, Deliver(m), UNCHANGED handler PROVE ClaimInv'
  BY <1>1, <1>g DEF Deliver
<1>2. ASSUME NEW m \in Messages, VisibilityExpires(m), UNCHANGED handler PROVE ClaimInv'
  BY <1>2, <1>g DEF VisibilityExpires
<1>3. ASSUME NEW m \in Messages, TooSlow(m), UNCHANGED handler PROVE ClaimInv'
  BY <1>3, <1>g DEF TooSlow, FaultKinds
<1>4. ASSUME NEW m \in Messages, MoveToDlq(m), UNCHANGED handler PROVE ClaimInv'
  BY <1>4, <1>g DEF MoveToDlq
<1>5. ASSUME LocalStackRestart, UNCHANGED handler PROVE ClaimInv'
  BY <1>5, <1>g DEF LocalStackRestart, FaultKinds
<1>6. ASSUME Bootstrap, UNCHANGED handler PROVE ClaimInv'
  BY <1>6, <1>g DEF Bootstrap
<1>7. ASSUME NEW c \in Consumers, Start(c), UNCHANGED handler PROVE ClaimInv'
  BY <1>7, <1>g DEF Start
<1>8. ASSUME NEW c \in Consumers, ResolveQueue(c), UNCHANGED handler PROVE ClaimInv'
  BY <1>8, <1>g DEF ResolveQueue
<1>9. ASSUME NEW c \in Consumers, Receive(c), UNCHANGED handler PROVE ClaimInv'
  BY <1>9, <1>g DEF Receive
<1>10. ASSUME NEW c \in Consumers, ReceiveNoQueue(c), UNCHANGED handler PROVE ClaimInv'
  BY <1>10, <1>g DEF ReceiveNoQueue
<1>11. ASSUME NEW c \in Consumers, Take(c), UNCHANGED handler PROVE ClaimInv'
  BY <1>11, <1>g DEF Take, Continue
<1>12. ASSUME NEW c \in Consumers, Delete(c), UNCHANGED handler PROVE ClaimInv'
  BY <1>12, <1>g DEF Delete, Continue
<1>13. ASSUME NEW c \in Consumers, DeleteNoQueue(c), UNCHANGED handler PROVE ClaimInv'
  BY <1>13, <1>g DEF DeleteNoQueue, Continue
<1>14. ASSUME NEW c \in Consumers, Stop(c), UNCHANGED handler PROVE ClaimInv'
  BY <1>14, <1>g DEF Stop, Exit
<1>15. ASSUME NEW c \in Consumers, ReceiveLost(c), UNCHANGED handler PROVE ClaimInv'
  BY <1>15, <1>g DEF ReceiveLost, FaultKinds
<1>16. ASSUME NEW c \in Consumers, DeleteRaises(c), UNCHANGED handler PROVE ClaimInv'
  BY <1>16, <1>g DEF DeleteRaises, Continue, FaultKinds
<1>17. ASSUME NEW c \in Consumers, HandleSignal(c), UNCHANGED handler PROVE ClaimInv'
  BY <1>17, <1>g DEF HandleSignal, FaultKinds
<1>18. ASSUME NEW c \in Consumers, Claim(c) PROVE ClaimInv'
  BY <1>18, <1>g DEF Claim, Enter
<1>19. ASSUME NEW c \in Consumers, Duplicate(c) PROVE ClaimInv'
  BY <1>19, <1>g DEF Duplicate, HandlerReturns
<1>20. ASSUME NEW c \in Consumers, ClaimRaises(c) PROVE ClaimInv'
  BY <1>20, <1>g, PaidFor DEF ClaimRaises, HandlerRaises, Continue, FaultKinds
<1>21. ASSUME NEW c \in Consumers, SendNotification(c) PROVE ClaimInv'
  BY <1>21, <1>g DEF SendNotification, Enter, HandlerReturns
<1>22. ASSUME NEW c \in Consumers, PayloadRaises(c) PROVE ClaimInv'
  BY <1>22, <1>g DEF PayloadRaises, Enter
<1>23. ASSUME NEW c \in Consumers, SendRaises(c) PROVE ClaimInv'
  BY <1>23, <1>g, PaidFor DEF SendRaises, Enter, FaultKinds
<1>24. ASSUME NEW c \in Consumers, Release(c) PROVE ClaimInv'
  BY <1>24, <1>g DEF Release, Enter, WithoutClaim, HandlerRaises, Continue
<1>25. ASSUME NEW c \in Consumers, ReleaseRaises(c) PROVE ClaimInv'
  BY <1>25, <1>g, PaidFor DEF ReleaseRaises, Enter, WithoutClaim, HandlerRaises, Continue, FaultKinds
<1>26. ASSUME NEW c \in Consumers, CrashInHandler(c) PROVE ClaimInv'
  BY <1>26, <1>g, PaidFor DEF CrashInHandler, Enter, Crash, Exit, FaultKinds
<1>27. ASSUME NEW p \in Orders, ClaimForgotten(p) PROVE ClaimInv'
  BY <1>27, <1>g DEF ClaimForgotten, FaultKinds
<1>28. CASE UNCHANGED vars
  BY <1>28 DEF vars
<1>. QED
  BY <1>1, <1>2, <1>3, <1>4, <1>5, <1>6, <1>7, <1>8, <1>9, <1>10,
     <1>11, <1>12, <1>13, <1>14, <1>15, <1>16, <1>17, <1>18, <1>19,
     <1>20, <1>21, <1>22, <1>23, <1>24, <1>25, <1>26, <1>27, <1>28
  DEF Next, ConsumerStep, LoopStep, LoopFault, QueueStep

LEMMA LossStep == LInv /\ [Next]_vars => LossInv'
<1>. SUFFICES ASSUME LInv, [Next]_vars PROVE LossInv'
  OBVIOUS
<1>. USE OrderAssumption
     DEF LInv, IInv, MsgInv, LossInv, Explained, MessagesOf, Unfinished, Holders, OrderOf,
         TypeOK, LoopTypeOK, queue, process, loopVars, handler
<1>g. \A k \in {"crash", "redisError", "slow", "sendFails"} : spent[k] > 0 => spent'[k] > 0
  BY FaultsLast DEF LInv
<1>1. ASSUME NEW m \in Messages, Deliver(m), UNCHANGED handler PROVE LossInv'
  BY <1>1, <1>g DEF Deliver
<1>2. ASSUME NEW m \in Messages, VisibilityExpires(m), UNCHANGED handler PROVE LossInv'
  BY <1>2, <1>g DEF VisibilityExpires
<1>3. ASSUME NEW m \in Messages, TooSlow(m), UNCHANGED handler PROVE LossInv'
  BY <1>3, <1>g DEF TooSlow, FaultKinds
<1>4. ASSUME NEW m \in Messages, MoveToDlq(m), UNCHANGED handler PROVE LossInv'
  BY <1>4, <1>g DEF MoveToDlq
<1>5. ASSUME LocalStackRestart, UNCHANGED handler PROVE LossInv'
  BY <1>5, <1>g DEF LocalStackRestart, FaultKinds
<1>6. ASSUME Bootstrap, UNCHANGED handler PROVE LossInv'
  BY <1>6, <1>g DEF Bootstrap
<1>7. ASSUME NEW c \in Consumers, Start(c), UNCHANGED handler PROVE LossInv'
  BY <1>7, <1>g DEF Start
<1>8. ASSUME NEW c \in Consumers, ResolveQueue(c), UNCHANGED handler PROVE LossInv'
  BY <1>8, <1>g DEF ResolveQueue
<1>9. ASSUME NEW c \in Consumers, Receive(c), UNCHANGED handler PROVE LossInv'
  BY <1>9, <1>g DEF Receive, HandOut, Receivable
<1>10. ASSUME NEW c \in Consumers, ReceiveNoQueue(c), UNCHANGED handler PROVE LossInv'
  BY <1>10, <1>g DEF ReceiveNoQueue
<1>11. ASSUME NEW c \in Consumers, Take(c), UNCHANGED handler PROVE LossInv'
  BY <1>11, <1>g DEF Take, Continue
<1>12. ASSUME NEW c \in Consumers, Delete(c), UNCHANGED handler PROVE LossInv'
  BY <1>12, <1>g DEF Delete, Deleted, Continue
<1>13. ASSUME NEW c \in Consumers, DeleteNoQueue(c), UNCHANGED handler PROVE LossInv'
  BY <1>13, <1>g DEF DeleteNoQueue, Continue
<1>14. ASSUME NEW c \in Consumers, Stop(c), UNCHANGED handler PROVE LossInv'
  BY <1>14, <1>g DEF Stop, Exit
<1>15. ASSUME NEW c \in Consumers, ReceiveLost(c), UNCHANGED handler PROVE LossInv'
  BY <1>15, <1>g DEF ReceiveLost, HandOut, Receivable, FaultKinds
<1>16. ASSUME NEW c \in Consumers, DeleteRaises(c), UNCHANGED handler PROVE LossInv'
  BY <1>16, <1>g DEF DeleteRaises, Deleted, Continue, FaultKinds
<1>17. ASSUME NEW c \in Consumers, HandleSignal(c), UNCHANGED handler PROVE LossInv'
  BY <1>17, <1>g DEF HandleSignal, FaultKinds
<1>18. ASSUME NEW c \in Consumers, Claim(c) PROVE LossInv'
  BY <1>18, <1>g DEF Claim, Enter
<1>19. ASSUME NEW c \in Consumers, Duplicate(c) PROVE LossInv'
  <2>. SUFFICES ASSUME NEW o \in Orders
                PROVE  \/ Explained(o)' \/ notified'[o] > 0 \/ Holders(o)' # {}
                       \/ MessagesOf(o) = {} \/ \E m \in MessagesOf(o) : Unfinished(m)'
    OBVIOUS
  <2>1. /\ UNCHANGED <<queue, msg, spent, claimed, notified, stage>>
        /\ pc' = [pc EXCEPT ![c] = "delete"] /\ OrderOf(c) \in claimed
    BY <1>19 DEF Duplicate, HandlerReturns
  <2>2. CASE o = OrderOf(c)
    BY <2>1, <2>2 DEF ClaimInv
  <2>3. CASE o # OrderOf(c)
    BY <2>1, <2>3
  <2>. QED BY <2>2, <2>3
<1>20. ASSUME NEW c \in Consumers, ClaimRaises(c) PROVE LossInv'
  BY <1>20, <1>g, PaidFor DEF ClaimRaises, HandlerRaises, Continue, FaultKinds
<1>21. ASSUME NEW c \in Consumers, SendNotification(c) PROVE LossInv'
  BY <1>21, <1>g DEF SendNotification, Enter, HandlerReturns
<1>22. ASSUME NEW c \in Consumers, PayloadRaises(c) PROVE LossInv'
  BY <1>22, <1>g DEF PayloadRaises, Enter
<1>23. ASSUME NEW c \in Consumers, SendRaises(c) PROVE LossInv'
  BY <1>23, <1>g, PaidFor DEF SendRaises, Enter, FaultKinds
<1>24. ASSUME NEW c \in Consumers, Release(c) PROVE LossInv'
  <2>. SUFFICES ASSUME NEW o \in Orders
                PROVE  \/ Explained(o)' \/ notified'[o] > 0 \/ Holders(o)' # {}
                       \/ MessagesOf(o) = {} \/ \E m \in MessagesOf(o) : Unfinished(m)'
    OBVIOUS
  <2>1. /\ UNCHANGED <<queue, spent, notified>>
        /\ stage[c] = "failed" /\ stage' = [stage EXCEPT ![c] = "none"]
        /\ pc[c] = "handle" /\ pc'[c] # "delete" /\ \A d \in Consumers \ {c} : pc'[d] = pc[d]
        /\ \A d \in Consumers \ {c} : msg'[d] = msg[d]
    BY <1>24 DEF Release, Enter, HandlerRaises, Continue
  <2>2. CASE o = OrderOf(c)
    <3>1. PICK m \in MessagesOf(o) : m = msg[c]
      BY <2>1, <2>2
    <3>2. CASE spent["sendFails"] > 0 /\ spent["slow"] = 0
      <4>1. m \in hand[c] /\ state[m] # "deleted"
        BY <2>1, <3>1, <3>2 DEF HandInv
      <4>2. \A d \in Consumers \ {c} : pc[d] = "delete" => msg[d] # m
        BY <3>2, <4>1 DEF HandInv
      <4>3. Unfinished(m)'
        BY <2>1, <4>1, <4>2
      <4>. QED BY <4>3
    <3>3. CASE spent["sendFails"] > 0 /\ spent["slow"] > 0
      BY <2>1, <3>3
    <3>4. CASE Body[msg[c]] # "order" \/ notified[o] > 0
      BY <2>1, <3>1, <3>4
    <3>5. spent["slow"] = 0 \/ spent["slow"] > 0
      BY DEF FaultKinds
    <3>. QED BY <2>1, <2>2, <3>2, <3>3, <3>4, <3>5 DEF FailInv
  <2>3. CASE o # OrderOf(c)
    <3>1. Holders(o)' = Holders(o)
      BY <2>1, <2>3
    <3>2. \A m \in Messages : Unfinished(m) => Unfinished(m)'
      BY <2>1
    <3>. QED BY <2>1, <3>1, <3>2
  <2>. QED BY <2>2, <2>3
<1>25. ASSUME NEW c \in Consumers, ReleaseRaises(c) PROVE LossInv'
  BY <1>25, <1>g, PaidFor DEF ReleaseRaises, Enter, WithoutClaim, HandlerRaises, Continue, FaultKinds
<1>26. ASSUME NEW c \in Consumers, CrashInHandler(c) PROVE LossInv'
  BY <1>26, <1>g, PaidFor DEF CrashInHandler, Enter, Crash, Exit, FaultKinds
<1>27. ASSUME NEW p \in Orders, ClaimForgotten(p) PROVE LossInv'
  BY <1>27, <1>g DEF ClaimForgotten, FaultKinds
<1>28. CASE UNCHANGED vars
  BY <1>28 DEF vars
<1>. QED
  BY <1>1, <1>2, <1>3, <1>4, <1>5, <1>6, <1>7, <1>8, <1>9, <1>10,
     <1>11, <1>12, <1>13, <1>14, <1>15, <1>16, <1>17, <1>18, <1>19,
     <1>20, <1>21, <1>22, <1>23, <1>24, <1>25, <1>26, <1>27, <1>28
  DEF Next, ConsumerStep, LoopStep, LoopFault, QueueStep

LEMMA LInvInit == Init => LInv
<1>. SUFFICES ASSUME Init PROVE LInv
  OBVIOUS
<1>1. HandInv /\ FailInv /\ ClaimInv
  BY DEF Init, LoopInit, HandInv, FailInv, ClaimInv
<1>2. LossInv
  BY DEF Init, LoopInit, LossInv, MessagesOf, Unfinished
<1>. QED BY <1>1, <1>2, IInvInit DEF LInv

\* A notification is lost only by a crash, by Redis not answering, by a send
\* that fails so slowly that its redelivery is taken for a duplicate, or for an
\* event that lacks what the notification is made of.
THEOREM LossHasACause == Spec => []LossIsExplained
<1>1. LInv /\ [Next]_vars => LInv'
  BY TypeStep, MsgStep, RightsStep, HandStep, FailStep, ClaimStep, LossStep DEF LInv, IInv
<1>2. LInv => LossIsExplained
  <2>. SUFFICES ASSUME LInv, NEW o \in Orders, Lost(o) PROVE Explained(o)
    BY DEF LossIsExplained, Explained
  <2>1. Holders(o) = {}
    BY DEF LInv, IInv, MsgInv, Lost, Holders, OrderOf, MessagesOf
  <2>2. notified[o] = 0 /\ MessagesOf(o) # {} /\ \A m \in MessagesOf(o) : ~Unfinished(m)
    BY DEF Lost, Unfinished
  <2>. QED BY <2>1, <2>2 DEF LInv, LossInv
<1>. QED BY LInvInit, <1>1, <1>2, PTL DEF Spec

-----------------------------------------------------------------------------
(* The dead letter queue. *)

\* A send that failed has paid for the receive its release is about to waste.
FailedPaidInv == \A c \in Consumers :
    /\ stage[c] = "failed" /\ Body[msg[c]] = "order"
    /\ state[msg[c]] = "inFlight" /\ msg[c] \in newest[c]
    => receives[msg[c]] <= Faults(Costly)

DInv == DlqInv /\ FailedPaidInv

\* What every step from a state of the invariants has at its disposal.
LEMMA LoopFacts ==
    ASSUME IInv, DInv
    PROVE  /\ LoopTypeOK /\ BatchInv /\ DlqInv /\ FailedPaidInv
           /\ \A c \in Consumers : pc[c] \in {"handle", "delete"} => msg[c] \in Messages
BY DEF IInv, TypeOK, MsgInv, DInv, DlqInv

\* A message in flight was received once more than there were faults, at most.
LEMMA OneUnpaid ==
    ASSUME LoopTypeOK, DlqInv, NEW m \in Messages, Body[m] = "order", state[m] = "inFlight"
    PROVE  receives[m] \in Nat /\ receives[m] <= Faults(Costly) + 1
<1>1. receives[m] \in Nat
  BY CountsAssumption DEF LoopTypeOK
<1>. QED BY <1>1, FaultsType DEF DlqInv, ReceiveInv, InPlay

LEMMA DlqStep == IInv /\ DInv /\ [Next]_vars => DlqInv'
<1>. SUFFICES ASSUME IInv, DInv, [Next]_vars PROVE DlqInv'
  OBVIOUS
<1>0. /\ LoopTypeOK /\ BatchInv /\ DlqInv /\ FailedPaidInv
      /\ \A c \in Consumers : pc[c] \in {"handle", "delete"} => msg[c] \in Messages
  BY LoopFacts
<1>1. CASE QueueStep
  BY <1>0, <1>1, QueueKeepsBatch, QueueKeepsReceipts DEF DlqInv
<1>2. ASSUME NEW c \in Consumers, LoopStep(c) \/ LoopFault(c) PROVE DlqInv'
  BY <1>0, <1>2, LoopKeepsBatch, LoopKeepsReceipts DEF DlqInv
<1>3. ASSUME NEW c \in Consumers, CrashInHandler(c) PROVE DlqInv'
  BY <1>0, <1>3, LoopKeepsBatch, LoopKeepsReceipts DEF DlqInv, CrashInHandler
<1>4. ASSUME NEW c \in Consumers, Duplicate(c) \/ SendNotification(c) PROVE DlqInv'
  <2>1. pc[c] = "handle" /\ HandlerReturns(c) /\ UNCHANGED <<queue, shutdown, spent>>
    BY <1>4 DEF Duplicate, SendNotification
  <2>. QED BY <1>0, <2>1, LoopKeepsBatch, ReturnKeepsReceipts DEF DlqInv
<1>5. ASSUME NEW c \in Consumers, ClaimRaises(c) \/ ReleaseRaises(c) PROVE DlqInv'
  <2>1. pc[c] = "handle" /\ Spend("redisError") /\ HandlerRaises(c)
        /\ UNCHANGED <<queue, shutdown>>
    BY <1>5 DEF ClaimRaises, ReleaseRaises
  <2>2. Faults(Costly)' >= Faults(Costly) + 1
    BY <1>0, <2>1, CostlyKinds, FaultCosts
  <2>3. Body[msg[c]] = "order" /\ state[msg[c]] = "inFlight" => receives[msg[c]] <= Faults(Costly)'
    BY <1>0, <2>1, <2>2, OneUnpaid, FaultsType
  <2>. QED
    BY <1>0, <2>1, <2>2, <2>3, FaultsType, LoopKeepsBatch, RaiseKeepsReceipts DEF DlqInv
<1>6. ASSUME NEW c \in Consumers, Release(c) PROVE DlqInv'
  BY <1>0, <1>6, NoFault, FaultsType, LoopKeepsBatch, RaiseKeepsReceipts
  DEF DlqInv, FailedPaidInv, Release
<1>7. ASSUME NEW c \in Consumers, Claim(c) \/ PayloadRaises(c) PROVE DlqInv'
  <2>1. UNCHANGED <<queue, process, spent>>
    BY <1>7 DEF Claim, PayloadRaises, loopVars
  <2>. QED
    BY <1>0, <2>1, NoFault, FaultsType, LoopKeepsBatch, InsideKeepsReceipts DEF DlqInv
<1>8. ASSUME NEW c \in Consumers, SendRaises(c) PROVE DlqInv'
  <2>1. UNCHANGED <<queue, process>> /\ (Spend("sendFails") \/ Spend("sendUnacked"))
    BY <1>8 DEF SendRaises
  <2>2. Faults(Costly)' >= Faults(Costly) + 1
    BY <1>0, <2>1, CostlyKinds, FaultCosts
  <2>. QED
    BY <1>0, <2>1, <2>2, FaultsType, LoopKeepsBatch, InsideKeepsReceipts DEF DlqInv
<1>9. ASSUME NEW o \in Orders, ClaimForgotten(o) PROVE DlqInv'
  <2>1. UNCHANGED <<queue, process>> /\ Spend("forgotten")
    BY <1>9 DEF ClaimForgotten
  <2>2. Faults(Costly)' = Faults(Costly)
    <3>1. "forgotten" \in FaultKinds \ Costly
      BY DEF FaultKinds, Costly
    <3>. QED BY <1>0, <2>1, <3>1, OthersAreFree
  <2>3. BatchInv'
    BY <1>0, <2>1 DEF BatchInv, process
  <2>. QED BY <1>0, <2>1, <2>2, <2>3, FaultsType, InsideKeepsReceipts DEF DlqInv
<1>10. CASE UNCHANGED vars
  <2>1. UNCHANGED <<queue, process, spent>>
    BY <1>10 DEF vars, loopVars
  <2>2. BatchInv'
    BY <1>0, <2>1 DEF BatchInv, process
  <2>. QED BY <1>0, <2>1, <2>2, NoFault, FaultsType, InsideKeepsReceipts DEF DlqInv
<1>. QED
  BY <1>1, <1>2, <1>3, <1>4, <1>5, <1>6, <1>7, <1>8, <1>9, <1>10 DEF Next, ConsumerStep

\* A consumer whose send has failed stays where it is until it releases; in
\* the meantime its message may come back to the queue, but a new receive of
\* it takes its receipt away.
LEMMA FailedPaidStep == IInv /\ DInv /\ [Next]_vars => FailedPaidInv'
<1>. SUFFICES ASSUME IInv, DInv, [Next]_vars PROVE FailedPaidInv'
  OBVIOUS
<1>0. /\ LoopTypeOK /\ BatchInv /\ DlqInv /\ FailedPaidInv
      /\ \A c \in Consumers : pc[c] \in {"handle", "delete"} => msg[c] \in Messages
      /\ \A c \in Consumers : stage[c] # "none" => pc[c] = "handle"
  BY LoopFacts DEF IInv, MsgInv
<1>. USE CountsAssumption, FaultsType
     DEF FailedPaidInv, LoopTypeOK, IInv, TypeOK, queue, process, loopVars, handler
<1>1. ASSUME NEW m \in Messages, Deliver(m), UNCHANGED handler PROVE FailedPaidInv'
  BY <1>0, <1>1, NoFault DEF Deliver
<1>2. ASSUME NEW m \in Messages, VisibilityExpires(m), UNCHANGED handler PROVE FailedPaidInv'
  BY <1>0, <1>2, NoFault DEF VisibilityExpires
<1>3. ASSUME NEW m \in Messages, TooSlow(m), UNCHANGED handler PROVE FailedPaidInv'
  BY <1>0, <1>3, CostlyKinds, FaultCosts DEF TooSlow
<1>4. ASSUME NEW m \in Messages, MoveToDlq(m), UNCHANGED handler PROVE FailedPaidInv'
  BY <1>0, <1>4, NoFault DEF MoveToDlq
<1>5. ASSUME LocalStackRestart, UNCHANGED handler PROVE FailedPaidInv'
  BY <1>0, <1>5 DEF LocalStackRestart
<1>6. ASSUME Bootstrap, UNCHANGED handler PROVE FailedPaidInv'
  BY <1>0, <1>6, NoFault DEF Bootstrap
<1>7. ASSUME NEW c \in Consumers, Receive(c), UNCHANGED handler PROVE FailedPaidInv'
  BY <1>0, <1>7, NoFault DEF Receive, HandOut, Receivable
<1>8. ASSUME NEW c \in Consumers, ReceiveLost(c), UNCHANGED handler PROVE FailedPaidInv'
  BY <1>0, <1>8, CostlyKinds, FaultCosts DEF ReceiveLost, HandOut, Receivable
<1>9. ASSUME NEW c \in Consumers, UNCHANGED handler,
             Start(c) \/ ResolveQueue(c) \/ ReceiveNoQueue(c) \/ Take(c) \/ Stop(c)
      PROVE  FailedPaidInv'
  BY <1>0, <1>9, NoFault
  DEF Start, ResolveQueue, ReceiveNoQueue, Take, Continue, Stop, Exit
<1>10. ASSUME NEW c \in Consumers, Delete(c) \/ DeleteNoQueue(c), UNCHANGED handler
       PROVE  FailedPaidInv'
  BY <1>0, <1>10, NoFault DEF Delete, Deleted, OnQueue, DeleteNoQueue, Continue
<1>11. ASSUME NEW c \in Consumers, DeleteRaises(c), UNCHANGED handler PROVE FailedPaidInv'
  BY <1>0, <1>11, CostlyKinds, FaultCosts DEF DeleteRaises, Deleted, OnQueue, Continue
<1>12. ASSUME NEW c \in Consumers, HandleSignal(c), UNCHANGED handler PROVE FailedPaidInv'
  BY <1>0, <1>12, CostlyKinds, FaultCosts DEF HandleSignal
<1>13. ASSUME NEW c \in Consumers, Claim(c) PROVE FailedPaidInv'
  BY <1>0, <1>13, NoFault DEF Claim, Enter
<1>14. ASSUME NEW c \in Consumers, Duplicate(c) \/ SendNotification(c) PROVE FailedPaidInv'
  BY <1>0, <1>14, NoFault DEF Duplicate, SendNotification, Enter, HandlerReturns
<1>15. ASSUME NEW c \in Consumers, ClaimRaises(c) \/ ReleaseRaises(c) PROVE FailedPaidInv'
  BY <1>0, <1>15, CostlyKinds, FaultCosts DEF ClaimRaises, ReleaseRaises, Enter, HandlerRaises, Continue
<1>16. ASSUME NEW c \in Consumers, PayloadRaises(c) PROVE FailedPaidInv'
  BY <1>0, <1>16, NoFault DEF PayloadRaises, Enter
<1>17. ASSUME NEW c \in Consumers, SendRaises(c) PROVE FailedPaidInv'
  <2>1. /\ UNCHANGED <<queue, process>> /\ pc[c] = "handle"
        /\ stage' = [stage EXCEPT ![c] = "failed"]
        /\ Spend("sendFails") \/ Spend("sendUnacked")
    BY <1>17 DEF SendRaises, Enter
  <2>2. Faults(Costly)' >= Faults(Costly) + 1
    BY <1>0, <2>1, CostlyKinds, FaultCosts
  <2>3. Body[msg[c]] = "order" /\ state[msg[c]] = "inFlight" => receives[msg[c]] <= Faults(Costly)'
    BY <1>0, <2>1, <2>2, OneUnpaid
  <2>. QED BY <1>0, <2>1, <2>2, <2>3
<1>18. ASSUME NEW c \in Consumers, Release(c) PROVE FailedPaidInv'
  BY <1>0, <1>18, NoFault DEF Release, Enter, HandlerRaises, Continue
<1>19. ASSUME NEW c \in Consumers, CrashInHandler(c) PROVE FailedPaidInv'
  BY <1>0, <1>19, CostlyKinds, FaultCosts DEF CrashInHandler, Enter, Crash, Exit
<1>20. ASSUME NEW o \in Orders, ClaimForgotten(o) PROVE FailedPaidInv'
  <2>1. "forgotten" \in FaultKinds \ Costly
    BY DEF FaultKinds, Costly
  <2>. QED BY <1>0, <1>20, <2>1, OthersAreFree DEF ClaimForgotten
<1>21. CASE UNCHANGED vars
  BY <1>0, <1>21, NoFault DEF vars
<1>. QED
  BY <1>1, <1>2, <1>3, <1>4, <1>5, <1>6, <1>7, <1>8, <1>9, <1>10, <1>11, <1>12, <1>13, <1>14,
     <1>15, <1>16, <1>17, <1>18, <1>19, <1>20, <1>21
  DEF Next, ConsumerStep, LoopStep, LoopFault, QueueStep

\* No sound event is set aside by Notifications before SQS_MAX_RECEIVE_COUNT
\* faults: a claim held elsewhere, or given back, costs it no receive.
THEOREM DeadLettersArePaidFor == Spec => []DlqIsPaidFor
<1>1. Init => DInv
  BY DlqInit DEF Init, DInv, FailedPaidInv
<1>2. IInv /\ DInv /\ [Next]_vars => DInv'
  BY DlqStep, FailedPaidStep DEF DInv
<1>3. IInv /\ DInv => DlqIsPaidFor
  BY DlqInvMeans DEF IInv, TypeOK, DInv
<1>. QED BY Inductive, <1>1, <1>2, <1>3, PTL DEF Spec

=============================================================================
