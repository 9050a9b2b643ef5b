----------------------------- MODULE Cortafuegos -----------------------------
(***************************************************************************)
(* What the agent's firewall manager promises its callers, with no lock,   *)
(* no quota and no subprocess: every call of bloquear / desbloquear looks  *)
(* as if it touched the rule table in ONE step, between its invocation and *)
(* its answer, and its answer is about the table of that step.             *)
(* UfwManager is shown to implement this module, and the modules above it  *)
(* (WebSocketClient, ControlBloqueos) use the firewall at this level.      *)
(***************************************************************************)
EXTENDS Naturals, FiniteSets

CONSTANTS
  Llamada,     \* the threads that call the manager
  Red,         \* the networks an order can name
  Protegida,   \* the networks that must never be denied
  Invalida,    \* an address that names no network
  MaxReglas    \* how many networks may be denied at once

VARIABLES
  reglas,      \* the rule table: a set of Regla
  fase,        \* fase[c]: where call c is
  orden,       \* orden[c]: what call c asks for
  resultado    \* resultado[c]: what call c answered

varsCortafuegos == <<reglas, fase, orden, resultado>>

\* A rule denies a network altogether, or one port of it only.
Regla == [red : Red, tipo : {"total", "puerto"}]

ReglaTotal(r) == [red |-> r, tipo |-> "total"]

\* The networks some rule of the table names.
Redes(tabla) == {regla.red : regla \in tabla}

\* The rule tables that a manager may be started on.
TablaInicial(tabla) ==
  /\ tabla \subseteq Regla
  /\ Redes(tabla) \cap Protegida = {}
  /\ Cardinality(Redes(tabla)) <= MaxReglas

\* A call: only desbloquear takes the argument verificar.
Orden ==
  [op : {"bloquear"}, red : Red \cup {Invalida}, verificar : {FALSE}] \cup
  [op : {"desbloquear"}, red : Red \cup {Invalida}, verificar : BOOLEAN]

SinOrden == [op |-> "desbloquear", red |-> Invalida, verificar |-> FALSE]

\* Orders that are answered with an error before anything is looked at.
Rechazable(o) ==
  o.red = Invalida \/ (o.op = "bloquear" /\ o.red \in Protegida)

Init ==
  /\ reglas \in SUBSET Regla
  /\ TablaInicial(reglas)
  /\ fase = [c \in Llamada |-> "libre"]
  /\ orden = [c \in Llamada |-> SinOrden]
  /\ resultado = [c \in Llamada |-> "error"]

Rechazar(c, o) ==
  /\ fase[c] \in {"libre", "hecha"}
  /\ Rechazable(o)
  /\ fase' = [fase EXCEPT ![c] = "hecha"]
  /\ orden' = [orden EXCEPT ![c] = o]
  /\ resultado' = [resultado EXCEPT ![c] = "error"]
  /\ UNCHANGED reglas

Invocar(c, o) ==
  /\ fase[c] \in {"libre", "hecha"}
  /\ ~Rechazable(o)
  /\ fase' = [fase EXCEPT ![c] = "curso"]
  /\ orden' = [orden EXCEPT ![c] = o]
  /\ UNCHANGED <<reglas, resultado>>

Responder(c, r) ==
  /\ fase' = [fase EXCEPT ![c] = "hecha"]
  /\ resultado' = [resultado EXCEPT ![c] = r]
  /\ UNCHANGED orden

\* An error answer: the table is as it was, or the command took effect although
\* it was reported as failed.
Fallar(c) ==
  /\ fase[c] = "curso"
  /\ Responder(c, "error")
  /\ \/ UNCHANGED reglas
     \/ /\ orden[c].op = "bloquear"
        /\ orden[c].red \notin Redes(reglas)
        /\ Cardinality(Redes(reglas)) < MaxReglas
        /\ reglas' = reglas \cup {ReglaTotal(orden[c].red)}
     \/ /\ orden[c].op = "desbloquear"
        /\ reglas' = reglas \ {ReglaTotal(orden[c].red)}

\* bloquear: the network is already denied, or the rule appears.
Bloquear(c) ==
  /\ fase[c] = "curso"
  /\ orden[c].op = "bloquear"
  /\ \/ /\ orden[c].red \in Redes(reglas)
        /\ Responder(c, "ya_bloqueada")
        /\ UNCHANGED reglas
     \/ /\ orden[c].red \notin Redes(reglas)
        /\ Cardinality(Redes(reglas)) < MaxReglas
        /\ reglas' = reglas \cup {ReglaTotal(orden[c].red)}
        /\ Responder(c, "bloqueada")

\* desbloquear: nothing to revoke, or the rule disappears.  A verified call
\* answers "desbloqueada" only if no rule at all is left for the network.
Desbloquear(c) ==
  /\ fase[c] = "curso"
  /\ orden[c].op = "desbloquear"
  /\ \/ /\ orden[c].red \notin Redes(reglas)
        /\ Responder(c, "no_existia")
        /\ UNCHANGED reglas
     \/ /\ orden[c].red \in Redes(reglas)
        /\ ~orden[c].verificar
        /\ reglas' = reglas \ {ReglaTotal(orden[c].red)}
        /\ Responder(c, "desbloqueada")

\* The effect of a verified unblock, whose answer comes in a later step.
Revocar(c) ==
  /\ fase[c] = "curso"
  /\ orden[c].op = "desbloquear"
  /\ orden[c].verificar
  /\ orden[c].red \in Redes(reglas)
  /\ reglas' = reglas \ {ReglaTotal(orden[c].red)}
  /\ fase' = [fase EXCEPT ![c] = "revocada"]
  /\ UNCHANGED <<orden, resultado>>

Comprobar(c) ==
  /\ fase[c] = "revocada"
  /\ \/ orden[c].red \notin Redes(reglas) /\ Responder(c, "desbloqueada")
     \/ Responder(c, "error")
  /\ UNCHANGED reglas

Next ==
  \E c \in Llamada :
    \/ \E o \in Orden : Rechazar(c, o) \/ Invocar(c, o)
    \/ Fallar(c)
    \/ Bloquear(c)
    \/ Desbloquear(c)
    \/ Revocar(c)
    \/ Comprobar(c)

Spec == Init /\ [][Next]_varsCortafuegos
==============================================================================
