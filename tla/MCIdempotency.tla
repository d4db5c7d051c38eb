--------------------------- MODULE MCIdempotency ---------------------------
(***************************************************************************)
(* Instances of Idempotency for TLC: three requests that carry one command *)
(* or of which the last reuses the key for another command.                *)
(***************************************************************************)
EXTENDS Idempotency

CONSTANTS q1, q2, q3, a, b

MCRequests == {q1, q2, q3}
MCPayloads == {a, b}
MCCarried == {[r \in MCRequests |-> a],
              [r \in MCRequests |-> IF r = q3 THEN b ELSE a]}
=============================================================================
