---------------------------- MODULE MCLifecycle ----------------------------
(* Lifecycle for TLC: the requests are model values given in the cfg. *)
EXTENDS Lifecycle
=============================================================================
