--------------------------- MODULE MCAgentGateway ---------------------------
(* Two owner processes, one app and one or two clients. *)
EXTENDS AgentGateway, TLC

Symmetry == Permutations(Owners)
=============================================================================
