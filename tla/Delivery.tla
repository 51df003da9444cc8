------------------------------ MODULE Delivery ------------------------------
(***************************************************************************)
(* What the outbox, the relay, the topic and the consumer group promise    *)
(* together: a command whose transaction has committed is handled by the   *)
(* worker, at least once; no other command ever is.                        *)
(***************************************************************************)

CONSTANT Commands

VARIABLES
    accepted,    \* the commands whose transaction has committed
    delivered    \* the commands the worker has handled, once or more

Init == accepted = {} /\ delivered = {}

Accept(c) == accepted' = accepted \cup {c} /\ UNCHANGED delivered

Deliver(c) ==
    /\ c \in accepted \ delivered
    /\ delivered' = delivered \cup {c}
    /\ UNCHANGED accepted

Next == \E c \in Commands : Accept(c) \/ Deliver(c)

Fairness == \A c \in Commands : WF_<<accepted, delivered>>(Deliver(c))

Spec == Init /\ [][Next]_<<accepted, delivered>> /\ Fairness
=============================================================================
