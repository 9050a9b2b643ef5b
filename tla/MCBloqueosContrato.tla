------------------------- MODULE MCBloqueosContrato -------------------------
(* Small instances of BloqueosContrato for TLC: one VPS and one address, since
   maps, queries and orders never relate two of them. *)
EXTENDS BloqueosContrato, TLC

CONSTANTS v1, s1, s2, p1, p2, p3, k1, k2, i1, u1
MCVps == {v1}
MCUnSocket == {s1}
MCSocket == {s1, s2}
MCPeticion == {p1, p2, p3}
MCDosPeticiones == {p1, p2}
MCClave == {k1, k2}
MCUnaClave == {k1}
MCIp == {i1}
MCUsuario == {u1}
MCDuenio == [v \in MCVps |-> u1]

\* What each run lets happen beside the calls themselves.
MCEntornoFallos == {"error", "reinicio", "auditoria"}
MCEntornoNada == {}
MCEntornoDatos == {"error", "borrado", "blanca", "largo"}
Simetria == Permutations(MCPeticion) \cup Permutations(MCClave)
SimetriaSockets == Simetria \cup Permutations(MCSocket)
==============================================================================
