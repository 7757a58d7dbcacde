--------------------------- MODULE OutboxDelivery ---------------------------
(***************************************************************************)
(* What the outbox promises to the code that emits events, without leases, *)
(* attempts, processes or queues' internals: an event that was committed   *)
(* is never lost; its job is given to queues it is routed to and to no     *)
(* other; it is reported published only after all of them got it; giving   *)
(* it up is final.  A report may be withdrawn (the processor did not learn *)
(* that its commit succeeded), so that the job may be given again.         *)
(***************************************************************************)
CONSTANTS Events, Queues, Routes

VARIABLES
    state,      \* [Events -> States]
    given       \* [Events -> the queues the event's job was given to]

vars == <<state, given>>

States == {"none", "open", "published", "failed"}

Init ==
    /\ state = [e \in Events |-> "none"]
    /\ given = [e \in Events |-> {}]

Record(e) ==
    /\ state[e] = "none"
    /\ state' = [state EXCEPT ![e] = "open"]
    /\ UNCHANGED given

Give(e, q) ==
    /\ state[e] # "none"
    /\ q \in Routes[e] \ given[e]
    /\ given' = [given EXCEPT ![e] = @ \cup {q}]
    /\ UNCHANGED state

Publish(e) ==
    /\ state[e] = "open"
    /\ given[e] = Routes[e]
    /\ state' = [state EXCEPT ![e] = "published"]
    /\ UNCHANGED given

GiveUp(e) ==
    /\ state[e] \in {"open", "published"}
    /\ state' = [state EXCEPT ![e] = "failed"]
    /\ UNCHANGED given

Withdraw(e) ==
    /\ state[e] = "published"
    /\ state' = [state EXCEPT ![e] = "open"]
    /\ UNCHANGED given

Next ==
    \E e \in Events :
        \/ Record(e)
        \/ Publish(e)
        \/ GiveUp(e)
        \/ Withdraw(e)
        \/ \E q \in Queues : Give(e, q)

Spec == Init /\ [][Next]_vars

=============================================================================
