-------------------------- MODULE MCBoundedRuntime --------------------------
(* BoundedRuntime for TLC; the constants are in the configuration. *)
EXTENDS BoundedRuntime
=============================================================================
