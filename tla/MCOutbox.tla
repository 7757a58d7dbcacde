------------------------------ MODULE MCOutbox ------------------------------
(* Small instances of Outbox for TLC. *)
EXTENDS Outbox, TLC

CONSTANTS p1, p2, e1, e2, email, audit, nobody

\* One event with two routes, one with none or one.
OneRoute == e1 :> {email}
OneEvent == {e1}
TwoEvents == {e1, e2}
FanOut == e1 :> {email, audit}
TwoRoutes == e1 :> {email} @@ e2 :> {}
OldestFirst == e1 :> 1 @@ e2 :> 2
AtOnce == e1 :> 1

ProcessorSymmetry == Permutations({p1, p2})
QueueSymmetry == Permutations({p1, p2}) \cup Permutations({email, audit})
=============================================================================
