---------------------------- MODULE MCGestionVps ----------------------------
(* A small instance of GestionVps for TLC: two owners, two ids and one address, so that
   every two requests are about the same things. *)
EXTENDS GestionVps, TLC

CONSTANTS c1, c2, u1, u2, v1, v2, i1
MCLlamada == {c1, c2}
MCUsuario == {u1, u2}
MCVps == {v1, v2}
MCAgente == {v1}
MCIp == {i1}
\* Nobody has a VPS, or one owner has.
MCInicios == {(v1 :> Nada) @@ (v2 :> Nada), (v1 :> u1) @@ (v2 :> Nada)}
\* The first request is one that the second can meet: what it reads or writes changes.
MCOperaciones == (c1 :> {"crear", "borrar", "regenerar", "anadir", "alerta"})
                 @@ (c2 :> DelUsuario \cup DelAgente)
==============================================================================
