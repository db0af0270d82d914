--------------------------- MODULE MCSessionState ---------------------------
(* SessionState for TLC: the requests are model values given in the cfg. *)
EXTENDS SessionState
=============================================================================
