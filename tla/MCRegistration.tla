--------------------------- MODULE MCRegistration ---------------------------
(* Instances of Registration for TLC. *)
EXTENDS Registration, TLC

CONSTANTS c1, c2, c3

ClientSymmetry == Permutations(Clients)
=============================================================================
