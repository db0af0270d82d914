------------------------- MODULE MCExecIdempotency -------------------------
(* ExecIdempotency for TLC: requests and keys are model values of the cfg. *)
EXTENDS ExecIdempotency
=============================================================================
