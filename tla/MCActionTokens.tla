--------------------------- MODULE MCActionTokens ---------------------------
(***************************************************************************)
(* ActionTokens for TLC: which user and purpose the small instance's       *)
(* tokens belong to.                                                       *)
(***************************************************************************)
EXTENDS ActionTokens, TLC

CONSTANTS u1, verify, login, t1, t2, t3, c1, c2, c3

OneUser == [t \in Tokens |-> u1]

\* Two tokens of one purpose and one of another.
TwoPurposes == [t \in Tokens |-> IF t = t3 THEN login ELSE verify]

\* Transactions are interchangeable, and the two tokens of one purpose are.
TokenClientSymmetry == Permutations(Clients) \cup Permutations({t1, t2})

=============================================================================
