----------------------------- MODULE MCMcpHttp -----------------------------
(* McpHttp for TLC; the constants are in the configuration. *)
EXTENDS McpHttp
=============================================================================
