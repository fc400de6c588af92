----------------------------- MODULE AtLeastOnce -----------------------------
(***************************************************************************)
(* What an outbox promises: a message handed over is delivered one or more *)
(* times and then settled, or is given up on and kept for a human.  It is  *)
(* never settled without having been delivered, and never forgotten.       *)
(***************************************************************************)
EXTENDS Naturals

CONSTANT Messages

VARIABLES
    handed,         \* messages the application committed
    delivered,      \* copies the topic has taken of each
    settled,        \* messages the outbox needs not deliver any more
    abandoned       \* messages set aside for a human

contract == <<handed, delivered, settled, abandoned>>

Init ==
    /\ handed = {}
    /\ delivered = [m \in Messages |-> 0]
    /\ settled = {}
    /\ abandoned = {}

HandOver(m) ==
    /\ handed' = handed \cup {m}
    /\ UNCHANGED <<delivered, settled, abandoned>>

Deliver(m) ==
    /\ m \in handed
    /\ delivered' = [delivered EXCEPT ![m] = @ + 1]
    /\ UNCHANGED <<handed, settled, abandoned>>

Settle(m) ==
    /\ m \in handed /\ delivered[m] > 0
    /\ settled' = settled \cup {m}
    /\ UNCHANGED <<handed, delivered, abandoned>>

GiveUp(m) ==
    /\ m \in handed
    /\ abandoned' = abandoned \cup {m}
    /\ UNCHANGED <<handed, delivered, settled>>

Revive(m) ==
    /\ abandoned' = abandoned \ {m}
    /\ UNCHANGED <<handed, delivered, settled>>

Next == \E m \in Messages :
    HandOver(m) \/ Deliver(m) \/ Settle(m) \/ GiveUp(m) \/ Revive(m)

Spec == Init /\ [][Next]_contract

\* A message that is neither settled nor abandoned does not stay so.
Resolve(m) == m \notin settled \cup abandoned /\ (Settle(m) \/ GiveUp(m))

Fairness == \A m \in Messages : WF_contract(Resolve(m))

=============================================================================
