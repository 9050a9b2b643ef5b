-------------------------- MODULE BloqueosContrato --------------------------
(***************************************************************************)
(* BloqueosService with the agent that the server is written for: one that *)
(* answers every order with the estado RespuestaAgente declares            *)
(* (agent.gateway.ts) and whose firewall keeps the promise of Cortafuegos. *)
(* External: it stands for any conforming agent.  The agent of the         *)
(* repository is in ControlBloqueos.                                       *)
(***************************************************************************)
EXTENDS BloqueosService

VARIABLES
  firewall,   \* firewall[v]: the addresses the agent of v denies
  revocadas   \* the bloqueoIds an unblock order of which the agent confirmed (history)

varsContrato == <<varsBloqueos, firewall, revocadas>>

Init ==
  /\ InitBloqueos
  /\ firewall = [v \in Vps |-> {}]
  /\ revocadas = {}

\* The agent handles one order and answers it over the connection it has.
Atender(m, s) ==
  LET v == cabecera[m.socket]
      p == m.peticion
      ip == IF tipo[p] = "bloquear-ip" THEN llamada[p].ip ELSE filas[clave[p]].ip
      efecto == IF tipo[p] = "bloquear-ip" THEN firewall[v] \cup {ip}
                                           ELSE firewall[v] \ {ip}
      exito == IF tipo[p] = "bloquear-ip"
               THEN IF ip \in firewall[v] THEN "ya_bloqueada" ELSE "bloqueada"
               ELSE IF ip \in firewall[v] THEN "desbloqueada" ELSE "no_existia"
  IN
  /\ \/ /\ Contestar(m, s, exito)
        /\ firewall' = [firewall EXCEPT ![v] = efecto]
        /\ revocadas' = IF tipo[p] = "desbloquear-ip" THEN revocadas \cup {clave[p]}
                                                     ELSE revocadas
     \/ /\ "error" \in Entorno
        /\ Contestar(m, s, "error")
        /\ firewall' \in {firewall, [firewall EXCEPT ![v] = efecto]}
        /\ UNCHANGED revocadas
  /\ UNCHANGED varsServicio

Next ==
  \/ PasoServidor /\ UNCHANGED <<firewall, revocadas>>
  \/ \E m \in ida, s \in Socket : Atender(m, s)
  \/ TodoTerminado /\ UNCHANGED varsContrato

Spec == Init /\ [][Next]_varsContrato
SpecJusta == Spec /\ JusticiaServidor
------------------------------------------------------------------------------
TypeOK ==
  /\ TypeOKGateway
  /\ TypeOKServicio
  /\ firewall \in [Vps -> SUBSET Ip]
  /\ revocadas \subseteq Clave

\* A row that says BLOQUEADO is true at the firewall until an unblock is ordered.
BloqueadoVeraz == BloqueadoTieneRegla(firewall)

\* A row only becomes DESBLOQUEADO after the agent confirmed an unblock order with
\* that row's id, whatever was lost, late or repeated in between.
DesbloqueadoConfirmado ==
  \A k \in Clave : filas[k] # Nada /\ filas[k].estado = "DESBLOQUEADO" => k \in revocadas

\* The audit log and the table tell the same story, and a true one: an applied block
\* is not a FALLIDO row, and its address is denied unless its unblock was ordered; a
\* failed block is a FALLIDO row; an applied unblock was confirmed by the agent.
AuditoriaVeraz ==
  \A e \in auditoria : LET p == e.peticion IN
    /\ e.accion = "bloqueo_aplicado" =>
         /\ filas[clave[p]].estado # "FALLIDO"
         /\ \/ llamada[p].ip \in firewall[llamada[p].vps]
            \/ \E q \in Emitidas("desbloquear-ip") :
                 filas[clave[q]].vps = llamada[p].vps /\ filas[clave[q]].ip = llamada[p].ip
    /\ e.accion = "bloqueo_fallido" => filas[clave[p]].estado = "FALLIDO"
    /\ e.accion = "desbloqueo_aplicado" => clave[p] \in revocadas
==============================================================================
