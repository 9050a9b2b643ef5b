------------------------ MODULE MCControlBloqueos -------------------------
(* A small instance of ControlBloqueos for TLC: one VPS and one address, since
   maps, queries and orders never relate two of them; two calls, a block and what
   follows it. *)
EXTENDS ControlBloqueos

CONSTANTS v1, s1, p1, p2, k1, k2, i1, u1
MCVps == {v1}
MCUnSocket == {s1}
MCDosPeticiones == {p1, p2}
MCClave == {k1, k2}
MCIp == {i1}
MCUsuario == {u1}
MCDuenio == [v \in MCVps |-> u1]

\* Nothing happens beside the calls themselves.
MCEntornoNada == {}
==============================================================================
