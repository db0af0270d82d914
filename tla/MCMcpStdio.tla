---------------------------- MODULE MCMcpStdio -----------------------------
(* McpStdio for TLC: two of the three list methods. *)
EXTENDS McpStdio
=============================================================================
