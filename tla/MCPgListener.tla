---------------------------- MODULE MCPgListener ----------------------------
(* Instances of PgListener for TLC. *)
EXTENDS PgListener

CONSTANTS orders, invoices, h1, h2, k1, k2

=============================================================================
