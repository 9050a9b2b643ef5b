--------------------------- MODULE ControlBloqueos ---------------------------
(***************************************************************************)
(* The whole path of a block: the service and the gateway of the server    *)
(* (BloqueosService), the network, and the agent of this repository        *)
(* (WebSocketClient) with its firewall.                                    *)
(***************************************************************************)
EXTENDS BloqueosService

CONSTANT MaxProcesados   \* see WebSocketClient

VARIABLES tarea, encargo, resultado, procesados, vida, admitida, firewall

Agente == INSTANCE WebSocketClient WITH Agente <- Vps, Tarea <- Peticion, Id <- Clave

varsAgente == <<tarea, encargo, resultado, procesados, vida, admitida, firewall>>
varsControl == <<varsBloqueos, varsAgente>>

Init == InitBloqueos /\ Agente!InitCliente

\* The payload that enviarOrden emitted for p.
Carga(p, v) ==
  [agente |-> v, evento |-> tipo[p], id |-> clave[p],
   ip |-> IF llamada[p].op = "bloqueo" THEN llamada[p].ip ELSE filas[clave[p]].ip]

\* An order arrives: socketio starts a thread for it.
AgenteRecibe(m) ==
  /\ m \in ida
  /\ enlace[m.socket] = "abierto"
  /\ ida' = ida \ {m}
  /\ Agente!Recibir(m.peticion, Carga(m.peticion, cabecera[m.socket]))
  /\ UNCHANGED <<vivas, varsConexion, varsOrden, vuelta, varsServicio>>

AgenteTrabaja(t) ==
  /\ Agente!RechazarIncompleta(t) \/ Agente!ya_procesado(t) \/ Agente!Operar(t)
  /\ UNCHANGED varsBloqueos

\* _responder: bloqueoId, exito and mensaje, over the connection the client has
\* now (emit raises if it has none).  There is no field estado.
AgenteResponde(t) ==
  LET abiertos == {s \in Socket : enlace[s] = "abierto" /\ cabecera[s] = encargo[t].agente}
  IN
  /\ Agente!responder(t)
  /\ \/ /\ abiertos = {}
        /\ UNCHANGED vuelta
     \/ \E s \in abiertos :
          vuelta' = vuelta \cup {[socket |-> s, peticion |-> t, estado |-> "undefined"]}
  /\ UNCHANGED <<vivas, varsConexion, varsOrden, ida, varsServicio>>

\* The agent process ends; its connection goes with it.  BOUND: once per agent.
AgenteCae(v) ==
  /\ "caida" \in Entorno
  /\ vida[v] = 0
  /\ Agente!Caer(v)
  /\ LET suyos == {s \in Socket : enlace[s] = "abierto" /\ cabecera[s] = v} IN
     /\ enlace' = [s \in Socket |-> IF s \in suyos THEN "caido" ELSE enlace[s]]
     /\ ida' = {m \in ida : m.socket \notin suyos}
     /\ vuelta' = {m \in vuelta : m.socket \notin suyos}
  /\ UNCHANGED <<vivas, cabecera, admision, conexiones, varsOrden, varsServicio>>

Next ==
  \/ PasoServidor /\ UNCHANGED varsAgente
  \/ \E m \in ida : AgenteRecibe(m)
  \/ \E t \in Peticion : AgenteTrabaja(t) \/ AgenteResponde(t)
  \/ \E v \in Vps : AgenteCae(v)
  \/ TodoTerminado /\ UNCHANGED varsControl

Spec == Init /\ [][Next]_varsControl
------------------------------------------------------------------------------
(* Properties *)

TypeOK == TypeOKGateway /\ TypeOKServicio /\ Agente!TypeOKCliente

\* MAPA_ESTADO_BLOQUEO, `error` to FALLIDO: an active row is true at the firewall
\* until an unblock is ordered.
BloqueadoVeraz == BloqueadoTieneRegla(firewall)

\* The agent is asked to unblock an address when that is called for: once it reports
\* the order as carried out, the address is denied only for the sake of another block.
DesbloqueoCumplido ==
  \A t \in Peticion :
    /\ tarea[t] = "fin" /\ encargo[t].evento = "desbloquear-ip"
    /\ Agente!exito(t)
    /\ encargo[t].ip \in firewall[encargo[t].agente]
    => \E u \in Peticion :
         /\ encargo[u] # Nada /\ encargo[u].evento = "bloquear-ip"
         /\ encargo[u].agente = encargo[t].agente /\ encargo[u].ip = encargo[t].ip
         /\ encargo[u].id # encargo[t].id
==============================================================================
