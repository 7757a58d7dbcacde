--------------------------- MODULE TokenRegister ---------------------------
(***************************************************************************)
(* What action tokens promise to those who issue, revoke and present them, *)
(* without transactions, versions or copies: revoking and using are one    *)
(* step each, and issuing is one step after it was asked for.  It          *)
(* supersedes, in that step, whatever is open for the user and purpose     *)
(* when their policy allows one active token; only of two issues that were *)
(* under way at the same time may neither supersede the other.  No         *)
(* operation touches another user's tokens.  A token is used once at most, *)
(* though perhaps after it ran out or without its user hearing of it; used *)
(* or revoked it stays so until it is forgotten, and open it is not        *)
(* forgotten.                                                              *)
(***************************************************************************)
EXTENDS Naturals

CONSTANTS Tokens, Users, UserOf, PurposeOf, SingleActive

VARIABLES
    state,      \* [Tokens -> States]
    uses,       \* [Tokens -> Nat]: times that a token was granted
    overlapping \* pairs of tokens whose issues were under way at the same time

vars == <<state, uses, overlapping>>

States == {"unissued", "asked", "open", "expired", "used", "revoked", "gone"}

Init ==
    /\ state = [t \in Tokens |-> "unissued"]
    /\ uses = [t \in Tokens |-> 0]
    /\ overlapping = {}

In(states) == {t \in Tokens : state[t] \in states}

Beside(t) == {x \in Tokens : UserOf[x] = UserOf[t] /\ PurposeOf[x] = PurposeOf[t]}

Ask(t) ==
    /\ state[t] = "unissued"
    /\ state' = [state EXCEPT ![t] = "asked"]
    /\ overlapping' = overlapping \cup {{t, x} : x \in In({"asked"}) \cap Beside(t)}
    /\ UNCHANGED uses

Drop(t) ==
    /\ state[t] = "asked"
    /\ state' = [state EXCEPT ![t] = "unissued"]
    /\ overlapping' = {pair \in overlapping : t \notin pair}
    /\ UNCHANGED uses

\* What is superseded may have run out meanwhile.
Issue(t) ==
    /\ state[t] = "asked"
    /\ \E closed \in SUBSET (In({"open", "expired"}) \cap Beside(t)) :
        /\ IF PurposeOf[t] \in SingleActive
           THEN \A x \in In({"open"}) \cap Beside(t) : x \in closed \/ {t, x} \in overlapping
           ELSE closed = {}
        /\ state' = [x \in Tokens |-> IF x = t THEN "open"
                                      ELSE IF x \in closed THEN "revoked" ELSE state[x]]
    /\ UNCHANGED <<uses, overlapping>>

Use(t) ==
    /\ state[t] \in {"open", "expired"}
    /\ state' = [state EXCEPT ![t] = "used"]
    /\ uses' \in {uses, [uses EXCEPT ![t] = @ + 1]}
    /\ UNCHANGED overlapping

Become(S, s) ==
    /\ S # {}
    /\ state' = [t \in Tokens |-> IF t \in S THEN s ELSE state[t]]
    /\ UNCHANGED <<uses, overlapping>>

Revoke(S) ==
    /\ \E u \in Users : \A t \in S : UserOf[t] = u
    /\ Become(S, "revoked")

Next ==
    \/ \E t \in Tokens : Ask(t) \/ Drop(t) \/ Issue(t) \/ Use(t)
    \/ \E S \in SUBSET In({"open", "expired"}) : Revoke(S)
    \/ \E S \in SUBSET In({"open"}) : Become(S, "expired")
    \/ \E S \in SUBSET In({"expired", "used", "revoked"}) : Become(S, "gone")

Spec == Init /\ [][Next]_vars

=============================================================================
