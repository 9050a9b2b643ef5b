---------------------------- MODULE MCUfwManager ----------------------------
(* A small instance of UfwManager for TLC. *)
EXTENDS UfwManager, TLC

CONSTANTS c1, c2, a, b, p
MCLlamada == {c1, c2}
MCRed == {a, b, p}
MCProtegida == {p}

Simetria == Permutations(MCLlamada) \cup Permutations({a, b})
==============================================================================
