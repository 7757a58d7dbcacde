------------------------- MODULE MCRedisIdempotency -------------------------
(* Instances of RedisIdempotency for TLC. *)
EXTENDS RedisIdempotency

CONSTANTS r1, r2, r3, b1, b2

\* Two retries of one request, and a request that reuses its key.
Bodies == [r \in Requests |-> IF r = r3 THEN b2 ELSE b1]
=============================================================================
