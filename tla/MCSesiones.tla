----------------------------- MODULE MCSesiones -----------------------------
(* A small instance of Sesiones for TLC: one account, so that every request meets
   every other one; one browser, of which the tabs share a cookie, next to copies of
   tokens that are used elsewhere. *)
EXTENDS Sesiones, TLC

CONSTANTS c1, c2, c3, u1, n1, e1, w1, w2
MCLlamada == {c1, c2, c3}
MCUsuario == {u1}
MCNavegador == {n1}
MCToken == 1..4
MCPrevia == (n1 :> 1)
MCEnlace == {e1}
MCContrasena == {w1, w2}
\* The browser and the tokens are tied by Previa and by the choice of fresh ones.
Simetria == Permutations(MCLlamada) \cup Permutations(MCContrasena)
==============================================================================
