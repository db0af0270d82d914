-------------------------- MODULE MCSessionManager --------------------------
(* SessionManager for TLC: the requests are model values given in the cfg. *)
EXTENDS SessionManager, TLC

\* Requests of one route, and MCP servers, are interchangeable.
Symmetry == Permutations(Resumers) \cup Permutations(Users) \cup Permutations(Servers)
=============================================================================
