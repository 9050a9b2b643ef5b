---------------------------- MODULE MCAplicacion ----------------------------
(* A small instance of Aplicacion for TLC.  An entorno is what one window sees: the pages
   that have something to do with each other, and what can go wrong there. *)
EXTENDS Aplicacion

CONSTANTS a1, a2, f1, f2, e1, e2, s1, s2, s3, c1, c2
MCAlerta == {a1, a2}
MCFiltros == {{}, {a1}}
MCFila == {f1, f2}
MCEntrada == {e1, e2}
MCServidor == {s1, s2, s3}
MCNuevos == {s1, s2}
MCCampo == {c1, c2}
MCDefecto == [c \in MCCampo |-> 0]

Entorno(rutas, previas, cosas) == [rutas |-> rutas, previas |-> previas, cosas |-> cosas]

EntornosDelCanal ==
  {Entorno({"login", "nosotros"}, {a1}, {"alerta", "corte", "salir"}),
   Entorno({"login", "panel"}, {a1, a2}, {"alerta", "salir"}),
   Entorno({"panel", "nosotros"}, {a1}, {"alerta", "corte"})}

EntornosDelPanel ==
  {Entorno({"panel", "nosotros"}, {a1}, {"alerta", "bloquear"}),
   Entorno({"panel"}, {a1}, {"alerta", "bloquear", "filtro"}),
   Entorno({"panel"}, {a1}, {"alerta", "falso"})}

EntornosDeTablas ==
  {Entorno({"alertas"}, {}, {"llegada"}),
   Entorno({"bloqueos"}, {}, {"llegada"}),
   Entorno(Historiales, {}, {}),
   Entorno({"blanca", "nosotros"}, {}, {})}

MCEntornos ==
  EntornosDelCanal \cup EntornosDelPanel \cup EntornosDeTablas \cup
  {Entorno({"login", "register", "nosotros"}, {}, {"salir"}),
   Entorno(Publicas, {}, {}),
   Entorno({"servidores", "nosotros"}, {}, {"crear"}),
   Entorno({"servidores", "detalle"}, {}, {"guardar"}),
   Entorno({"servidores", "detalle"}, {}, {"regenerar"}),
   Entorno({"servidores", "detalle"}, {}, {"eliminar", "salir"})}
==============================================================================
