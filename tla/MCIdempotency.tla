--------------------------- MODULE MCIdempotency ---------------------------
(* Three requests with two keys and two bodies, so that a retry meets a row *)
(* in every state and one of them may carry another body.                   *)
EXTENDS Idempotency
=============================================================================
