--------------------------- MODULE NotifyConsumer ---------------------------
(***************************************************************************)
(* Notifications: handle() claims the order in Redis, then sends           *)
(* (src/notifications/service.py).  The claim and the send are in two      *)
(* systems; the claim comes first, and is given back when the send raises. *)
(***************************************************************************)
EXTENDS SqsConsumer

VARIABLES
    claimed,    \* orders whose key exists in Redis
    notified,   \* notifications sent of each order
    stage       \* each consumer: none, sending (it claimed), failed (the send did)

vars == <<loopVars, claimed, notified, stage>>
handler == <<claimed, notified, stage>>

Init ==
    /\ LoopInit
    /\ claimed = {}
    /\ notified = [o \in Orders |-> 0]
    /\ stage = [c \in Consumers |-> "none"]

OrderOf(c) == Order[msg[c]]

Enter(c, s) == stage' = [stage EXCEPT ![c] = s]

\* Mutants: a key per message, not per order; SET without NX.
Claim_PerMessage(c) ==
    /\ pc[c] = "handle" /\ stage[c] = "none"
    /\ msg[c] \notin claimed
    /\ claimed' = claimed \cup {msg[c]}
    /\ Enter(c, "sending")
    /\ UNCHANGED <<loopVars, notified>>

Claim_Overwrites(c) ==
    /\ pc[c] = "handle" /\ stage[c] = "none"
    /\ claimed' = claimed \cup {OrderOf(c)}
    /\ Enter(c, "sending")
    /\ UNCHANGED <<loopVars, notified>>

\* SET key NX EX: the check and the claim are one command.
Claim(c) ==
    /\ pc[c] = "handle" /\ stage[c] = "none"
    /\ OrderOf(c) \notin claimed
    /\ claimed' = claimed \cup {OrderOf(c)}
    /\ Enter(c, "sending")
    /\ UNCHANGED <<loopVars, notified>>

\* Mutant: a duplicate is left for later, in case the holder of the key fails.
Duplicate_Raises(c) ==
    /\ pc[c] = "handle" /\ stage[c] = "none"
    /\ OrderOf(c) \in claimed
    /\ HandlerRaises(c)
    /\ UNCHANGED <<queue, shutdown, spent, handler>>

\* The key is there: a duplicate, which is done with.
Duplicate(c) ==
    /\ pc[c] = "handle" /\ stage[c] = "none"
    /\ OrderOf(c) \in claimed
    /\ HandlerReturns(c)
    /\ UNCHANGED <<queue, shutdown, spent, handler>>

\* Redis does not answer the SET (or the GET of a duplicate); it may have
\* applied it.
ClaimRaises(c) ==
    /\ pc[c] = "handle" /\ stage[c] = "none"
    /\ Spend("redisError")
    /\ claimed' \in {claimed, claimed \cup {OrderOf(c)}}
    /\ HandlerRaises(c)
    /\ UNCHANGED <<queue, shutdown, notified, stage>>

\* The side effect; no transaction can take it back.
SendNotification(c) ==
    /\ pc[c] = "handle" /\ stage[c] = "sending" /\ Body[msg[c]] = "order"
    /\ notified' = [notified EXCEPT ![OrderOf(c)] = @ + 1]
    /\ Enter(c, "none")
    /\ HandlerReturns(c)
    /\ UNCHANGED <<queue, shutdown, spent, claimed>>

\* The payload lacks what the notification is made of.
PayloadRaises(c) ==
    /\ pc[c] = "handle" /\ stage[c] = "sending" /\ Body[msg[c]] # "order"
    /\ Enter(c, "failed")
    /\ UNCHANGED <<loopVars, claimed, notified>>

\* The send fails, or it worked and only its acknowledgement failed.
SendRaises(c) ==
    /\ pc[c] = "handle" /\ stage[c] = "sending"
    /\ \/ Spend("sendFails") /\ UNCHANGED notified
       \/ /\ Body[msg[c]] = "order" /\ Spend("sendUnacked")
          /\ notified' = [notified EXCEPT ![OrderOf(c)] = @ + 1]
    /\ Enter(c, "failed")
    /\ UNCHANGED <<queue, process, claimed>>

\* Mutant: the key stays until it expires.
WithoutClaim_Kept(c) == claimed

\* DEL key, whoever set it.
WithoutClaim(c) == claimed \ {OrderOf(c)}

\* The claim is released, and the exception goes on.
Release(c) ==
    /\ pc[c] = "handle" /\ stage[c] = "failed"
    /\ claimed' = WithoutClaim(c)
    /\ Enter(c, "none")
    /\ HandlerRaises(c)
    /\ UNCHANGED <<queue, shutdown, spent, notified>>

\* Redis does not answer the DEL; its exception takes the place of the send's.
ReleaseRaises(c) ==
    /\ pc[c] = "handle" /\ stage[c] = "failed"
    /\ Spend("redisError")
    /\ claimed' \in {claimed, WithoutClaim(c)}
    /\ Enter(c, "none")
    /\ HandlerRaises(c)
    /\ UNCHANGED <<queue, shutdown, notified>>

\* CRASH_AFTER_MARK, SIGKILL: the key survives.
CrashInHandler(c) ==
    /\ Crash(c)
    /\ Enter(c, "none")
    /\ UNCHANGED <<claimed, notified>>

\* The key's time to live is over, or Redis lost it in a crash of its own.
ClaimForgotten(o) ==
    /\ o \in claimed
    /\ Spend("forgotten")
    /\ claimed' = claimed \ {o}
    /\ UNCHANGED <<queue, process, notified, stage>>

\* What a consumer does when nothing fails around it.
ConsumerStep(c) ==
    \/ LoopStep(c) /\ UNCHANGED handler
    \/ Claim(c) \/ Duplicate(c) \/ SendNotification(c) \/ PayloadRaises(c) \/ Release(c)

Next ==
    \/ QueueStep /\ UNCHANGED handler
    \/ \E c \in Consumers :
         \/ ConsumerStep(c)
         \/ LoopFault(c) /\ UNCHANGED handler
         \/ ClaimRaises(c) \/ SendRaises(c) \/ ReleaseRaises(c) \/ CrashInHandler(c)
    \/ \E o \in Orders : ClaimForgotten(o)

Spec == Init /\ [][Next]_vars

\* As for the other consumers.
FairSpec ==
    /\ Spec
    /\ \A c \in Consumers : WF_vars(ConsumerStep(c))
    /\ \A m \in Messages : WF_vars((VisibilityExpires(m) \/ MoveToDlq(m)) /\ UNCHANGED handler)

-----------------------------------------------------------------------------
(* Properties. *)

\* Every variable has its type.
TypeOK ==
    /\ LoopTypeOK
    /\ claimed \subseteq Orders
    /\ notified \in [Orders -> Nat]
    /\ stage \in [Consumers -> {"none", "sending", "failed"}]

\* An order is notified once, and once more only for each claim that expired
\* or was lost, and each send that worked and raised: never for a redelivery,
\* a crash, a slow consumer, or a claim released that was another delivery's.
EveryNotificationAccounted ==
    \A o \in Orders :
        notified[o] <= 1 + spent["forgotten"] + spent["sendUnacked"]

MessagesOf(o) == {m \in Messages : Order[m] = o}

\* Every delivery of o was acknowledged, nobody works on it, and no notification left.
Lost(o) ==
    /\ MessagesOf(o) # {} /\ \A m \in MessagesOf(o) : state[m] = "deleted"
    /\ \A c \in Consumers : msg[c] \notin MessagesOf(o)
    /\ notified[o] = 0

\* Releasing the key narrows the loss window: a notification is lost by a
\* crash, by Redis, or by a send that fails so slowly that the redelivery was
\* already taken for a duplicate; a failed send alone loses nothing.
LossIsExplained ==
    \A o \in Orders : Lost(o) =>
        \/ spent["crash"] > 0
        \/ spent["redisError"] > 0
        \/ spent["slow"] > 0 /\ spent["sendFails"] > 0
        \/ \E m \in MessagesOf(o) : Body[m] # "order"

\* "Only a hard kill (SIGKILL, power cut) can actually drop one."
LostOnlyByHardKill == \A o \in Orders : Lost(o) => spent["crash"] > 0

=============================================================================
