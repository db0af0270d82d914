----------------------------- MODULE MCExecTurn -----------------------------
(* ExecTurn for TLC; the constants are in the configurations. *)
EXTENDS ExecTurn
=============================================================================
