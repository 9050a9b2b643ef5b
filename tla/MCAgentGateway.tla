--------------------------- MODULE MCAgentGateway ---------------------------
(* Small instances of AgentGateway for TLC. *)
EXTENDS AgentGateway, TLC

CONSTANTS v1, s1, s2, p1, p2, p3, k1, k2
MCVps == {v1}
MCSocket == {s1, s2}
MCUnSocket == {s1}
MCPeticion == {p1, p2, p3}
MCDosPeticiones == {p1, p2}
MCClave == {k1, k2}
Simetria == Permutations(MCSocket) \cup Permutations(MCPeticion) \cup Permutations(MCClave)
==============================================================================
