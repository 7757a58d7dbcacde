--------------------------- MODULE IdempotentKey ----------------------------
(***************************************************************************)
(* What an idempotency key promises to its clients, without stores, steps  *)
(* or failures: from the moment a request has taken the key until the      *)
(* key's life is over, no other request takes it unless the first one gave *)
(* it back without a verdict; and whoever is told a verdict hears the one  *)
(* on record, for the body it sent.                                        *)
(***************************************************************************)
EXTENDS Integers

CONSTANTS Requests, NoRequest, Body, Ttl

VARIABLES
    state,      \* "free", "busy", or the verdict: "completed", "failed"
    by,         \* the request that took the key, NoRequest when free
    left,       \* what remains of the key's life, 0 or less when it is over
    told        \* [Requests -> Told], what a client heard about the key

vars == <<state, by, left, told>>

Verdicts == {"completed", "failed"}
Told     == {"nothing", "busy", "mismatch"} \cup Verdicts

Init ==
    /\ state = "free" /\ by = NoRequest /\ left = 0
    /\ told = [r \in Requests |-> "nothing"]

Take(r) ==
    /\ state = "free" /\ told[r] = "nothing"
    /\ state' = "busy" /\ by' = r /\ left' = Ttl
    /\ UNCHANGED told

\* The key's life goes on, or starts anew with the verdict.
Settle(v) ==
    /\ state = "busy"
    /\ state' = v
    /\ left' \in {left, Ttl}
    /\ UNCHANGED <<by, told>>

\* Given back without a verdict, or forgotten at the end of its life.
Free ==
    /\ state = "busy" \/ (state \in Verdicts /\ left <= 0)
    /\ state' = "free" /\ by' = NoRequest /\ left' = 0
    /\ UNCHANGED told

Tell(r, t) ==
    /\ told[r] = "nothing"
    /\ state # "free" /\ left > 0
    /\ IF Body[r] # Body[by] THEN t = "mismatch" ELSE t = state
    /\ told' = [told EXCEPT ![r] = t]
    /\ UNCHANGED <<state, by, left>>

Pass ==
    /\ state # "free"
    /\ left' = left - 1
    /\ UNCHANGED <<state, by, told>>

Next ==
    \/ \E r \in Requests : Take(r) \/ \E t \in Told : Tell(r, t)
    \/ \E v \in Verdicts : Settle(v)
    \/ Free
    \/ Pass

\* A verdict taken back, though others may have heard it: only a key whose
\* requests may fail after they settled it has this step (DurableIdempotency).
Withdraw ==
    /\ state = "completed" /\ told[by] = "nothing"
    /\ state' = "free" /\ by' = NoRequest /\ left' = 0
    /\ UNCHANGED told

Spec == Init /\ [][Next]_vars

=============================================================================
