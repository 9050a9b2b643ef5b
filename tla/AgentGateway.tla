---------------------------- MODULE AgentGateway ----------------------------
(***************************************************************************)
(* server/src/agent/agent.gateway.ts: the /agents namespace.  It keeps the *)
(* socket of the agent of every VPS (conexiones) and the orders that wait  *)
(* for an answer (pendientes), each with a timer of 5 s.  The process is   *)
(* single threaded: an action is what runs between two awaits.             *)
(*                                                                         *)
(* A Peticion is one call of enviarOrden, a Clave is a bloqueoId: several  *)
(* calls may carry the same one.  A Socket is one connection of socket.io  *)
(* (a reconnection is another socket).  The network loses what is in       *)
(* flight on a socket when the socket dies, and keeps no order among the   *)
(* messages (the agent answers each order from a thread of its own).       *)
(* Abstracted: the token, by the outcome of bcrypt.compare, and the text   *)
(* of an answer.                                                           *)
(***************************************************************************)
EXTENDS Naturals, FiniteSets

CONSTANTS
  Vps,        \* the VPS rows
  Socket,     \* the connections that are ever opened
  Peticion,   \* the calls of enviarOrden
  Clave,      \* the bloqueoIds
  Nada,       \* a missing map entry, a null answer
  Entorno     \* BOUND: the events of the environment that an instance considers

Eventos == {"corte", "cierre", "rechazo", "borrado", "reinicio", "blanca",
            "largo", "auditoria", "error", "caida"}

ASSUME GatewayConstantes ==
  /\ Nada \notin Socket \cup Peticion \cup Clave \cup Vps
  /\ Entorno \subseteq Eventos

VARIABLES
  vivas,           \* the VPS with deletedAt = null
  enlace,          \* enlace[s]: the connection as the server's transport sees it
  cabecera,        \* cabecera[s]: its x-lumi-vps-id header
  admision,        \* admision[s]: where handleConnection(s) is
  conexiones,      \* conexiones[v]: the socket registered for v
  pendientes,      \* pendientes[k]: the call registered under bloqueoId k
  temporizadores,  \* the calls whose timer is armed
  promesa,         \* promesa[p]: the promise enviarOrden returned
  respuesta,       \* respuesta[p]: the estado it was resolved with, or Nada
  clave,           \* clave[p]: its payload.bloqueoId
  tipo,            \* tipo[p]: its event
  ida,             \* orders on their way to an agent
  vuelta,          \* answers on their way to the server
  atendidas        \* the calls whose own answer came while they waited (history)

varsConexion == <<enlace, cabecera, admision, conexiones>>
varsOrden == <<pendientes, temporizadores, promesa, respuesta, clave, tipo, atendidas>>
varsRed == <<ida, vuelta>>
varsGateway == <<vivas, varsConexion, varsOrden, varsRed>>

Evento == {"bloquear-ip", "desbloquear-ip"}

\* What an answer carries in its field estado: EstadoAgente, or nothing.
EstadoAgente == {"bloqueada", "ya_bloqueada", "desbloqueada", "no_existia", "error"}
EstadoRespuesta == EstadoAgente \cup {"undefined"}
ASSUME NadaNoEsRespuesta == Nada \notin EstadoRespuesta

\* An order knows its call, an answer the call it answers: the server does not
\* see that, it only sees the bloqueoId, clave[peticion].
Ida == [socket : Socket, peticion : Peticion]
Vuelta == [socket : Socket, peticion : Peticion, estado : EstadoRespuesta]

TypeOKGateway ==
  /\ vivas \subseteq Vps
  /\ enlace \in [Socket -> {"nuevo", "abierto", "caido", "cerrado"}]
  /\ cabecera \in [Socket -> Vps \cup {Nada}]
  /\ admision \in [Socket -> {"no", "consulta", "comparacion", "fin"}]
  /\ conexiones \in [Vps -> Socket \cup {Nada}]
  /\ pendientes \in [Clave -> Peticion \cup {Nada}]
  /\ temporizadores \subseteq Peticion
  /\ promesa \in [Peticion -> {"libre", "espera", "resuelta", "perdida"}]
  /\ respuesta \in [Peticion -> EstadoRespuesta \cup {Nada}]
  /\ clave \in [Peticion -> Clave \cup {Nada}]
  /\ tipo \in [Peticion -> Evento]
  /\ ida \subseteq Ida
  /\ vuelta \subseteq Vuelta
  /\ atendidas \subseteq Peticion

InitGateway ==
  /\ vivas = Vps
  /\ enlace = [s \in Socket |-> "nuevo"]
  /\ cabecera = [s \in Socket |-> Nada]
  /\ admision = [s \in Socket |-> "no"]
  /\ conexiones = [v \in Vps |-> Nada]
  /\ pendientes = [k \in Clave |-> Nada]
  /\ temporizadores = {}
  /\ promesa = [p \in Peticion |-> "libre"]
  /\ respuesta = [p \in Peticion |-> Nada]
  /\ clave = [p \in Peticion |-> Nada]
  /\ tipo = [p \in Peticion |-> "bloquear-ip"]
  /\ ida = {}
  /\ vuelta = {}
  /\ atendidas = {}
------------------------------------------------------------------------------
(* Connections *)

\* The agent of v opens a connection; handleConnection runs up to its query.
\* One agent process has one connection at a time.
Conectar(s, v) ==
  /\ enlace[s] = "nuevo"
  /\ \A x \in Socket : ~(enlace[x] = "abierto" /\ cabecera[x] = v)
  /\ enlace' = [enlace EXCEPT ![s] = "abierto"]
  /\ cabecera' = [cabecera EXCEPT ![s] = v]
  /\ admision' = [admision EXCEPT ![s] = "consulta"]
  /\ UNCHANGED <<vivas, conexiones, varsOrden, varsRed>>

\* Mutant: the entry is deleted by vpsId, without comparing socket ids.
Cerrar_porVps(s) ==
  /\ enlace' = [enlace EXCEPT ![s] = "cerrado"]
  /\ conexiones' = [v \in Vps |-> IF v = cabecera[s] THEN Nada ELSE conexiones[v]]
  /\ ida' = {m \in ida : m.socket # s}
  /\ vuelta' = {m \in vuelta : m.socket # s}

\* The transport of s is closed for the server: handleDisconnect removes the
\* entry that holds s itself, and what s had in flight is gone.
Cerrar(s) ==
  /\ enlace' = [enlace EXCEPT ![s] = "cerrado"]
  /\ conexiones' = [v \in Vps |-> IF conexiones[v] = s THEN Nada ELSE conexiones[v]]
  /\ ida' = {m \in ida : m.socket # s}
  /\ vuelta' = {m \in vuelta : m.socket # s}

\* `await findFirst({ id, deletedAt: null })` returns: no row, no connection.
ConsultarVps(s) ==
  /\ admision[s] = "consulta"
  /\ IF cabecera[s] \in vivas
     THEN /\ admision' = [admision EXCEPT ![s] = "comparacion"]
          /\ UNCHANGED <<enlace, conexiones, varsRed>>
     ELSE /\ admision' = [admision EXCEPT ![s] = "fin"]
          /\ Cerrar(s)
  /\ UNCHANGED <<vivas, cabecera, varsOrden>>

\* `await bcrypt.compare` returns: s becomes the connection of its VPS,
\* whatever became of s, of the VPS or of its other connections meanwhile.
CompararToken(s) ==
  /\ admision[s] = "comparacion"
  /\ admision' = [admision EXCEPT ![s] = "fin"]
  /\ \/ /\ conexiones' = [conexiones EXCEPT ![cabecera[s]] = s]
        /\ UNCHANGED <<enlace, varsRed>>
     \/ "rechazo" \in Entorno /\ Cerrar(s)
  /\ UNCHANGED <<vivas, cabecera, varsOrden>>

\* The network fails: the agent sees it at once and opens another connection,
\* the server notices it later (or has not yet).
Cortar(s) ==
  /\ "corte" \in Entorno
  /\ enlace[s] = "abierto"
  /\ enlace' = [enlace EXCEPT ![s] = "caido"]
  /\ ida' = {m \in ida : m.socket # s}
  /\ vuelta' = {m \in vuelta : m.socket # s}
  /\ UNCHANGED <<vivas, cabecera, admision, conexiones, varsOrden>>

handleDisconnect(s) ==
  /\ "cierre" \in Entorno
  /\ enlace[s] \in {"abierto", "caido"}
  /\ Cerrar(s)
  /\ UNCHANGED <<vivas, cabecera, admision, varsOrden>>

\* vps.service.ts softDelete, the part the gateway reads.
SoftDelete(v) ==
  /\ "borrado" \in Entorno
  /\ v \in vivas
  /\ vivas' = vivas \ {v}
  /\ UNCHANGED <<varsConexion, varsOrden, varsRed>>
------------------------------------------------------------------------------
(* Orders *)

\* Mutant: the call is not registered in pendientes.
enviarOrden_sinRegistrar(p, v, k, evento) ==
  /\ promesa[p] = "libre"
  /\ conexiones[v] # Nada
  /\ clave' = [clave EXCEPT ![p] = k]
  /\ tipo' = [tipo EXCEPT ![p] = evento]
  /\ promesa' = [promesa EXCEPT ![p] = "espera"]
  /\ temporizadores' = temporizadores \cup {p}
  /\ ida' = ida \cup {[socket |-> conexiones[v], peticion |-> p]}
  /\ UNCHANGED <<pendientes, vivas, varsConexion, respuesta, vuelta, atendidas>>

\* Mutant: the timer of the call that is replaced in pendientes is cleared.
enviarOrden_limpiaAnterior(p, v, k, evento) ==
  /\ promesa[p] = "libre"
  /\ conexiones[v] # Nada
  /\ clave' = [clave EXCEPT ![p] = k]
  /\ tipo' = [tipo EXCEPT ![p] = evento]
  /\ promesa' = [promesa EXCEPT ![p] = "espera"]
  /\ temporizadores' = (temporizadores \cup {p}) \ {pendientes[k]}
  /\ pendientes' = [pendientes EXCEPT ![k] = p]
  /\ ida' = ida \cup {[socket |-> conexiones[v], peticion |-> p]}
  /\ UNCHANGED <<vivas, varsConexion, respuesta, vuelta, atendidas>>

\* enviarOrden: null at once if no socket is registered; else the timer is
\* armed, the call is registered under its bloqueoId in place of whoever was
\* there, and the order is emitted (into the void if the socket is dead).
enviarOrden(p, v, k, evento) ==
  /\ promesa[p] = "libre"
  /\ clave' = [clave EXCEPT ![p] = k]
  /\ tipo' = [tipo EXCEPT ![p] = evento]
  /\ IF conexiones[v] = Nada
     THEN /\ promesa' = [promesa EXCEPT ![p] = "resuelta"]
          /\ UNCHANGED <<pendientes, temporizadores, ida>>
     ELSE /\ promesa' = [promesa EXCEPT ![p] = "espera"]
          /\ temporizadores' = temporizadores \cup {p}
          /\ pendientes' = [pendientes EXCEPT ![k] = p]
          /\ ida' = IF enlace[conexiones[v]] = "abierto"
                    THEN ida \cup {[socket |-> conexiones[v], peticion |-> p]}
                    ELSE ida
  /\ UNCHANGED <<vivas, varsConexion, respuesta, vuelta, atendidas>>

Resolver(p, r) ==
  /\ promesa' = [promesa EXCEPT ![p] = "resuelta"]
  /\ respuesta' = [respuesta EXCEPT ![p] = r]

\* Mutant: the expired call is not resolved.
VencerPlazo_sinResolver(p) ==
  /\ p \in temporizadores
  /\ temporizadores' = temporizadores \ {p}
  /\ pendientes' = [pendientes EXCEPT ![clave[p]] = Nada]
  /\ UNCHANGED <<vivas, varsConexion, varsRed, clave, tipo, atendidas, promesa, respuesta>>

\* The timer of p fires: it deletes the entry of the bloqueoId, whosever it is.
VencerPlazo(p) ==
  /\ p \in temporizadores
  /\ temporizadores' = temporizadores \ {p}
  /\ pendientes' = [pendientes EXCEPT ![clave[p]] = Nada]
  /\ Resolver(p, Nada)
  /\ UNCHANGED <<vivas, varsConexion, varsRed, clave, tipo, atendidas>>

\* Mutants: the timer is left armed; the entry is left in pendientes.
resolverPendiente_sinClearTimeout(m) ==
  LET k == clave[m.peticion]
      p == pendientes[k]
  IN
  /\ m \in vuelta
  /\ vuelta' = vuelta \ {m}
  /\ p # Nada
  /\ Resolver(p, m.estado)
  /\ pendientes' = [pendientes EXCEPT ![k] = Nada]
  /\ UNCHANGED <<vivas, varsConexion, temporizadores, clave, tipo, ida, atendidas>>

resolverPendiente_sinDelete(m) ==
  LET p == pendientes[clave[m.peticion]] IN
  /\ m \in vuelta
  /\ vuelta' = vuelta \ {m}
  /\ p # Nada
  /\ temporizadores' = temporizadores \ {p}
  /\ Resolver(p, m.estado)
  /\ UNCHANGED <<vivas, varsConexion, pendientes, clave, tipo, ida, atendidas>>

\* handleBloqueoResultado and handleDesbloqueoResultado: both look up the
\* bloqueoId and nothing else; an answer nobody waits for is dropped.
resolverPendiente(m) ==
  LET k == clave[m.peticion]
      p == pendientes[k]
  IN
  /\ m \in vuelta
  /\ vuelta' = vuelta \ {m}
  /\ atendidas' = IF promesa[m.peticion] = "espera"
                  THEN atendidas \cup {m.peticion} ELSE atendidas
  /\ IF p = Nada
     THEN UNCHANGED <<temporizadores, pendientes, promesa, respuesta>>
     ELSE /\ temporizadores' = temporizadores \ {p}
          /\ Resolver(p, m.estado)
          /\ pendientes' = [pendientes EXCEPT ![k] = Nada]
  /\ UNCHANGED <<vivas, varsConexion, clave, tipo, ida>>

\* The process dies and starts again: sockets, maps, timers and promises are
\* gone, the database is not.
ReiniciarServidor ==
  /\ "reinicio" \in Entorno
  /\ enlace' = [s \in Socket |->
                  IF enlace[s] \in {"abierto", "caido"} THEN "cerrado" ELSE enlace[s]]
  /\ admision' = [s \in Socket |-> IF enlace[s] = "nuevo" THEN "no" ELSE "fin"]
  /\ conexiones' = [v \in Vps |-> Nada]
  /\ pendientes' = [k \in Clave |-> Nada]
  /\ temporizadores' = {}
  /\ promesa' = [p \in Peticion |->
                   IF promesa[p] = "espera" THEN "perdida" ELSE promesa[p]]
  /\ ida' = {}
  /\ vuelta' = {}
  /\ UNCHANGED <<vivas, cabecera, respuesta, clave, tipo, atendidas>>

\* External: the agent answers an order it received, over the connection it has
\* by then.  What it answers is up to the agent.
Contestar(m, s, e) ==
  /\ m \in ida
  /\ enlace[m.socket] = "abierto"
  /\ enlace[s] = "abierto"
  /\ cabecera[s] = cabecera[m.socket]
  /\ ida' = ida \ {m}
  /\ vuelta' = vuelta \cup {[socket |-> s, peticion |-> m.peticion, estado |-> e]}
  /\ UNCHANGED <<vivas, varsConexion, varsOrden>>

PasoConexion ==
  \/ \E s \in Socket :
       \/ \E v \in Vps : Conectar(s, v)
       \/ ConsultarVps(s)
       \/ CompararToken(s)
       \/ Cortar(s)
       \/ handleDisconnect(s)
  \/ \E v \in Vps : SoftDelete(v)

PasoOrden ==
  \/ \E p \in Peticion : VencerPlazo(p)
  \/ \E m \in vuelta : resolverPendiente(m)

\* The gateway by itself: any caller, any agent.
NextGateway ==
  \/ PasoConexion
  \/ PasoOrden
  \/ \E p \in Peticion, v \in Vps, k \in Clave, e \in Evento : enviarOrden(p, v, k, e)
  \/ \E m \in ida, s \in Socket, e \in {"error", "undefined"} : Contestar(m, s, e)
  \/ ReiniciarServidor

SpecGateway == InitGateway /\ [][NextGateway]_varsGateway

\* The event loop runs what is due: timers fire, received answers are handled.
SpecGatewayJusta == SpecGateway /\ \A p \in Peticion : WF_varsGateway(VencerPlazo(p))
------------------------------------------------------------------------------
(* Properties *)

\* A call waits exactly as long as its timer is armed: no promise can be left
\* unresolved for ever, and no timer outlives its call, also when several calls
\* share a bloqueoId and when an answer and a timer race.
EsperaConTemporizador ==
  \A p \in Peticion : promesa[p] = "espera" <=> p \in temporizadores

\* pendientes leaks nothing: an entry belongs to a call that still waits, under
\* that call's own bloqueoId.
PendienteVivo ==
  \A k \in Clave : pendientes[k] # Nada =>
    /\ promesa[pendientes[k]] = "espera"
    /\ clave[pendientes[k]] = k

\* A call that is alone on its bloqueoId (every block order: its UUID is fresh)
\* gets the answer if it comes while the call waits, and null only if not.
OrdenUnicaConservaRespuesta ==
  \A p \in Peticion :
    /\ promesa[p] = "resuelta" /\ p \in atendidas
    /\ \A q \in Peticion \ {p} : clave[q] # clave[p]
    => respuesta[p] # Nada

\* The end of a connection never unregisters another one: a VPS loses its entry
\* only in the step in which that very socket closes.
DesconexionPropia ==
  [][\A v \in Vps :
       conexiones[v] # Nada /\ conexiones'[v] = Nada
         => enlace'[conexiones[v]] = "cerrado"]_varsGateway

\* Every call of enviarOrden ends: with an answer or with null after the timer,
\* or with the process.
TodaOrdenSeResuelve ==
  \A p \in Peticion : promesa[p] = "espera" ~> promesa[p] \in {"resuelta", "perdida"}
==============================================================================
