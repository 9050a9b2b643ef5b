------------------------ MODULE AgentGateway_proofs ------------------------
(***************************************************************************)
(* The gateway's invariants, for any number of agents, connections, calls  *)
(* and bloqueoIds.  None of them is inductive by itself: who waits, whose  *)
(* timer is armed and who is registered under a bloqueoId keep each other  *)
(* true, together with the fact that only calls that were made have a      *)
(* bloqueoId, a message or an answer.                                      *)
(***************************************************************************)
EXTENDS AgentGateway, TLAPS

\* Only a call that was made has a bloqueoId.
ClaveDeLlamada ==
  \A p \in Peticion : promesa[p] = "libre" <=> clave[p] = Nada

\* Messages and answers belong to calls that were made.
MensajeDeLlamada ==
  /\ \A m \in ida \cup vuelta : promesa[m.peticion] # "libre"
  /\ \A p \in atendidas : promesa[p] # "libre"

Sola(p) == \A q \in Peticion \ {p} : clave[q] # clave[p]

\* A call alone on its bloqueoId is the one registered under it while it waits,
\* and no longer waits once it was answered.
SolaRegistrada ==
  \A p \in Peticion : Sola(p) =>
    /\ promesa[p] = "espera" => pendientes[clave[p]] = p
    /\ p \in atendidas => promesa[p] # "espera"

\* A registered connection, or one being admitted, was opened.
ConexionAbierta ==
  /\ \A s \in Socket : admision[s] # "no" => enlace[s] # "nuevo"
  /\ \A v \in Vps : conexiones[v] # Nada => enlace[conexiones[v]] # "nuevo"

InvOrden ==
  /\ EsperaConTemporizador
  /\ PendienteVivo
  /\ ClaveDeLlamada
  /\ MensajeDeLlamada
  /\ SolaRegistrada
  /\ OrdenUnicaConservaRespuesta

IInv == TypeOKGateway /\ InvOrden /\ ConexionAbierta
------------------------------------------------------------------------------
\* The empty gateway satisfies the invariant.
LEMMA Inicio == InitGateway => IInv
BY GatewayConstantes
   DEF InitGateway, IInv, InvOrden, TypeOKGateway, EsperaConTemporizador,
       PendienteVivo, ClaveDeLlamada, MensajeDeLlamada, SolaRegistrada, Sola,
       OrdenUnicaConservaRespuesta, ConexionAbierta, Evento

\* A step that leaves the orders alone, but for messages it loses, keeps InvOrden.
LEMMA OrdenIntacta ==
  ASSUME InvOrden, UNCHANGED varsOrden, ida' \subseteq ida, vuelta' \subseteq vuelta
  PROVE  InvOrden'
BY DEF InvOrden, varsOrden, EsperaConTemporizador, PendienteVivo, ClaveDeLlamada,
       MensajeDeLlamada, SolaRegistrada, Sola, OrdenUnicaConservaRespuesta

\* A step that leaves the connections alone keeps ConexionAbierta.
LEMMA ConexionIntacta ==
  ASSUME ConexionAbierta, UNCHANGED varsConexion
  PROVE  ConexionAbierta'
BY DEF ConexionAbierta, varsConexion

\* What the end of a connection does to the types and to ConexionAbierta.
LEMMA CerrarConserva ==
  ASSUME TypeOKGateway, ConexionAbierta, NEW s \in Socket, Cerrar(s)
  PROVE  /\ enlace' \in [Socket -> {"nuevo", "abierto", "caido", "cerrado"}]
         /\ conexiones' \in [Vps -> Socket \cup {Nada}]
         /\ ida' \subseteq ida /\ vuelta' \subseteq vuelta
         /\ \A x \in Socket : enlace[x] # "nuevo" => enlace'[x] # "nuevo"
         /\ \A v \in Vps : conexiones'[v] # Nada => enlace'[conexiones'[v]] # "nuevo"
BY GatewayConstantes DEF Cerrar, TypeOKGateway, ConexionAbierta

\* Opening, admitting, cutting and closing connections keeps the invariant.
LEMMA PasoDeConexion == IInv /\ PasoConexion => IInv'
<1> SUFFICES ASSUME IInv, PasoConexion PROVE IInv'
  OBVIOUS
<1> USE GatewayConstantes DEF IInv
<1>1. ASSUME NEW s \in Socket, NEW v \in Vps, Conectar(s, v) PROVE IInv'
  <2>1. TypeOKGateway'
    BY <1>1 DEF Conectar, TypeOKGateway, varsOrden, varsRed
  <2>2. InvOrden'
    BY <1>1, OrdenIntacta DEF Conectar, varsRed
  <2>3. ConexionAbierta'
    BY <1>1 DEF Conectar, TypeOKGateway, ConexionAbierta
  <2> QED BY <2>1, <2>2, <2>3
<1>2. ASSUME NEW s \in Socket, ConsultarVps(s) PROVE IInv'
  <2>1. CASE cabecera[s] \in vivas
    <3>1. TypeOKGateway'
      BY <1>2, <2>1 DEF ConsultarVps, TypeOKGateway, varsOrden, varsRed
    <3>2. InvOrden'
      BY <1>2, <2>1, OrdenIntacta DEF ConsultarVps, varsRed
    <3>3. ConexionAbierta'
      BY <1>2, <2>1 DEF ConsultarVps, TypeOKGateway, ConexionAbierta
    <3> QED BY <3>1, <3>2, <3>3
  <2>2. CASE cabecera[s] \notin vivas
    <3>1. Cerrar(s)
      BY <1>2, <2>2 DEF ConsultarVps
    <3>2. TypeOKGateway'
      BY <1>2, <2>2, <3>1, CerrarConserva DEF ConsultarVps, TypeOKGateway, varsOrden
    <3>3. InvOrden'
      BY <1>2, <3>1, CerrarConserva, OrdenIntacta DEF ConsultarVps
    <3>4. ConexionAbierta'
      BY <1>2, <2>2, <3>1, CerrarConserva DEF ConsultarVps, TypeOKGateway, ConexionAbierta
    <3> QED BY <3>2, <3>3, <3>4
  <2> QED BY <2>1, <2>2
<1>3. ASSUME NEW s \in Socket, CompararToken(s) PROVE IInv'
  <2>1. CASE /\ conexiones' = [conexiones EXCEPT ![cabecera[s]] = s]
             /\ UNCHANGED <<enlace, varsRed>>
    <3>1. TypeOKGateway'
      BY <1>3, <2>1 DEF CompararToken, TypeOKGateway, varsOrden, varsRed
    <3>2. InvOrden'
      BY <1>3, <2>1, OrdenIntacta DEF CompararToken, varsRed
    <3>3. ConexionAbierta'
      BY <1>3, <2>1 DEF CompararToken, TypeOKGateway, ConexionAbierta
    <3> QED BY <3>1, <3>2, <3>3
  <2>2. CASE Cerrar(s)
    <3>1. TypeOKGateway'
      BY <1>3, <2>2, CerrarConserva DEF CompararToken, TypeOKGateway, varsOrden
    <3>2. InvOrden'
      BY <1>3, <2>2, CerrarConserva, OrdenIntacta DEF CompararToken
    <3>3. ConexionAbierta'
      BY <1>3, <2>2, CerrarConserva DEF CompararToken, TypeOKGateway, ConexionAbierta
    <3> QED BY <3>1, <3>2, <3>3
  <2> QED BY <1>3, <2>1, <2>2 DEF CompararToken
<1>4. ASSUME NEW s \in Socket, Cortar(s) PROVE IInv'
  <2>1. TypeOKGateway'
    BY <1>4 DEF Cortar, TypeOKGateway, varsOrden
  <2>2. InvOrden'
    BY <1>4, OrdenIntacta DEF Cortar
  <2>3. ConexionAbierta'
    BY <1>4 DEF Cortar, TypeOKGateway, ConexionAbierta
  <2> QED BY <2>1, <2>2, <2>3
<1>5. ASSUME NEW s \in Socket, handleDisconnect(s) PROVE IInv'
  <2>1. TypeOKGateway'
    BY <1>5, CerrarConserva DEF handleDisconnect, TypeOKGateway, varsOrden
  <2>2. InvOrden'
    BY <1>5, CerrarConserva, OrdenIntacta DEF handleDisconnect
  <2>3. ConexionAbierta'
    BY <1>5, CerrarConserva DEF handleDisconnect, TypeOKGateway, ConexionAbierta
  <2> QED BY <2>1, <2>2, <2>3
<1>6. ASSUME NEW v \in Vps, SoftDelete(v) PROVE IInv'
  <2>1. TypeOKGateway'
    BY <1>6 DEF SoftDelete, TypeOKGateway, varsConexion, varsOrden, varsRed
  <2>2. InvOrden'
    BY <1>6, OrdenIntacta DEF SoftDelete, varsRed
  <2>3. ConexionAbierta'
    BY <1>6, ConexionIntacta DEF SoftDelete
  <2> QED BY <2>1, <2>2, <2>3
<1> QED BY <1>1, <1>2, <1>3, <1>4, <1>5, <1>6 DEF PasoConexion

\* A call is made.  Its promise was free, so no entry and no message was its own,
\* and whoever had its bloqueoId is no longer alone.
LEMMA EnviarConserva ==
  ASSUME IInv, NEW p \in Peticion, NEW v \in Vps, NEW k \in Clave, NEW e \in Evento,
         enviarOrden(p, v, k, e)
  PROVE  IInv'
<1> USE GatewayConstantes DEF IInv, InvOrden, TypeOKGateway, enviarOrden
<1>1. TypeOKGateway'
  BY DEF varsConexion, Ida
<1>2. EsperaConTemporizador'
  BY DEF EsperaConTemporizador
<1>3. PendienteVivo'
  BY DEF PendienteVivo
<1>4. ClaveDeLlamada'
  BY DEF ClaveDeLlamada
<1>5. MensajeDeLlamada'
  BY DEF MensajeDeLlamada, Ida, Vuelta
<1>6. SolaRegistrada'
  BY DEF SolaRegistrada, Sola, ClaveDeLlamada, MensajeDeLlamada
<1>7. OrdenUnicaConservaRespuesta'
  BY DEF OrdenUnicaConservaRespuesta, ClaveDeLlamada, MensajeDeLlamada
<1>8. ConexionAbierta'
  BY ConexionIntacta
<1> QED BY <1>1, <1>2, <1>3, <1>4, <1>5, <1>6, <1>7, <1>8

\* A timer fires.  Its call waited; the entry that it deletes can be another
\* call's only if they share the bloqueoId.
LEMMA VencerConserva ==
  ASSUME IInv, NEW p \in Peticion, VencerPlazo(p)
  PROVE  IInv'
<1> USE GatewayConstantes DEF IInv, InvOrden, TypeOKGateway, VencerPlazo, Resolver
<1>1. TypeOKGateway'
  BY DEF varsConexion, varsRed
<1>2. EsperaConTemporizador'
  BY DEF EsperaConTemporizador
<1>3. PendienteVivo'
  BY DEF PendienteVivo, EsperaConTemporizador
<1>4. ClaveDeLlamada'
  BY DEF ClaveDeLlamada, EsperaConTemporizador
<1>5. MensajeDeLlamada'
  BY DEF MensajeDeLlamada, varsRed, Ida, Vuelta
<1>6. SolaRegistrada'
  BY DEF SolaRegistrada, Sola
<1>7. OrdenUnicaConservaRespuesta'
  BY DEF OrdenUnicaConservaRespuesta, SolaRegistrada, Sola, EsperaConTemporizador
<1>8. ConexionAbierta'
  BY ConexionIntacta
<1> QED BY <1>1, <1>2, <1>3, <1>4, <1>5, <1>6, <1>7, <1>8

\* An answer arrives.  It resolves whoever is registered under its bloqueoId: the
\* call it answers, if that one waits alone.
LEMMA ResolverConserva ==
  ASSUME IInv, NEW m \in vuelta, resolverPendiente(m)
  PROVE  IInv'
<1> DEFINE p == m.peticion
           q == pendientes[clave[p]]
<1> USE GatewayConstantes DEF IInv, InvOrden, TypeOKGateway, resolverPendiente, Resolver
<1>0. /\ p \in Peticion /\ m.estado \in EstadoRespuesta \ {Nada}
      /\ clave[p] \in Clave
      /\ q # Nada => q \in Peticion /\ promesa[q] = "espera" /\ clave[q] = clave[p]
  BY NadaNoEsRespuesta DEF MensajeDeLlamada, ClaveDeLlamada, PendienteVivo, Vuelta
<1>1. TypeOKGateway'
  BY <1>0 DEF varsConexion
<1>2. EsperaConTemporizador'
  BY <1>0 DEF EsperaConTemporizador
<1>3. PendienteVivo'
  BY <1>0 DEF PendienteVivo
<1>4. ClaveDeLlamada'
  BY <1>0 DEF ClaveDeLlamada
<1>5. MensajeDeLlamada'
  BY <1>0 DEF MensajeDeLlamada, Ida, Vuelta
<1>6. SolaRegistrada'
  BY <1>0 DEF SolaRegistrada, Sola, ClaveDeLlamada
<1>7. OrdenUnicaConservaRespuesta'
  BY <1>0 DEF OrdenUnicaConservaRespuesta, SolaRegistrada, Sola
<1>8. ConexionAbierta'
  BY ConexionIntacta
<1> QED BY <1>1, <1>2, <1>3, <1>4, <1>5, <1>6, <1>7, <1>8

\* The process restarts: who waited is lost, and so are its timer and its entry.
LEMMA ReiniciarConserva == IInv /\ ReiniciarServidor => IInv'
<1> SUFFICES ASSUME IInv, ReiniciarServidor PROVE IInv'
  OBVIOUS
<1> USE GatewayConstantes DEF IInv, InvOrden, TypeOKGateway, ReiniciarServidor
<1>1. TypeOKGateway'
  OBVIOUS
<1>2. EsperaConTemporizador'
  BY DEF EsperaConTemporizador
<1>3. PendienteVivo'
  BY DEF PendienteVivo
<1>4. ClaveDeLlamada'
  BY DEF ClaveDeLlamada
<1>5. MensajeDeLlamada'
  BY DEF MensajeDeLlamada
<1>6. SolaRegistrada'
  BY DEF SolaRegistrada
<1>7. OrdenUnicaConservaRespuesta'
  BY DEF OrdenUnicaConservaRespuesta
<1>8. ConexionAbierta'
  BY DEF ConexionAbierta
<1> QED BY <1>1, <1>2, <1>3, <1>4, <1>5, <1>6, <1>7, <1>8

\* The agent answers: a message takes the place of another one.
LEMMA ContestarConserva ==
  ASSUME IInv, NEW m \in ida, NEW s \in Socket, NEW e \in EstadoRespuesta,
         Contestar(m, s, e)
  PROVE  IInv'
<1> USE DEF IInv, InvOrden, TypeOKGateway, Contestar
<1>1. TypeOKGateway'
  BY DEF varsConexion, varsOrden, Ida, Vuelta
<1>2. MensajeDeLlamada'
  BY DEF MensajeDeLlamada, varsOrden, Ida, Vuelta
<1>3. /\ EsperaConTemporizador' /\ PendienteVivo' /\ ClaveDeLlamada'
      /\ SolaRegistrada' /\ OrdenUnicaConservaRespuesta'
  BY DEF varsOrden, EsperaConTemporizador, PendienteVivo, ClaveDeLlamada,
         SolaRegistrada, Sola, OrdenUnicaConservaRespuesta
<1>4. ConexionAbierta'
  BY ConexionIntacta
<1> QED BY <1>1, <1>2, <1>3, <1>4

\* Every step of the gateway keeps the invariant.
LEMMA Induccion == IInv /\ [NextGateway]_varsGateway => IInv'
<1> SUFFICES ASSUME IInv, [NextGateway]_varsGateway PROVE IInv'
  OBVIOUS
<1>1. CASE PasoConexion
  BY <1>1, PasoDeConexion
<1>2. CASE PasoOrden
  BY <1>2, VencerConserva, ResolverConserva DEF PasoOrden
<1>3. CASE \E p \in Peticion, v \in Vps, k \in Clave, e \in Evento : enviarOrden(p, v, k, e)
  BY <1>3, EnviarConserva
<1>4. CASE \E m \in ida, s \in Socket, e \in {"error", "undefined"} : Contestar(m, s, e)
  BY <1>4, ContestarConserva DEF EstadoRespuesta, EstadoAgente
<1>5. CASE ReiniciarServidor
  BY <1>5, ReiniciarConserva
<1>6. CASE UNCHANGED varsGateway
  <2>1. TypeOKGateway'
    BY <1>6 DEF IInv, TypeOKGateway, varsGateway, varsConexion, varsOrden, varsRed
  <2>2. InvOrden'
    BY <1>6, OrdenIntacta DEF IInv, varsGateway, varsRed
  <2>3. ConexionAbierta'
    BY <1>6, ConexionIntacta DEF IInv, varsGateway
  <2> QED BY <2>1, <2>2, <2>3 DEF IInv
<1> QED BY <1>1, <1>2, <1>3, <1>4, <1>5, <1>6 DEF NextGateway

\* The inductive invariant of AgentGateway: types, timers, the table of waiting
\* calls, bloqueoIds and messages keep one another true.
THEOREM InvarianteGateway == SpecGateway => []IInv
BY Inicio, Induccion, PTL DEF SpecGateway
------------------------------------------------------------------------------
\* The maps of the gateway keep their types: every field of an answer, every
\* registered socket and every registered call is one there is.
THEOREM TiposGateway == SpecGateway => []TypeOKGateway
<1>1. IInv => TypeOKGateway
  BY DEF IInv
<1> QED BY InvarianteGateway, <1>1, PTL

\* enviarOrden: a promise is pending exactly while its setTimeout is, so that none
\* is left pending for ever.
THEOREM NadieEsperaSinTemporizador == SpecGateway => []EsperaConTemporizador
<1>1. IInv => EsperaConTemporizador
  BY DEF IInv, InvOrden
<1> QED BY InvarianteGateway, <1>1, PTL

\* resolverPendiente and the timers leave no entry of an ended call in pendientes.
THEOREM PendientesSinFugas == SpecGateway => []PendienteVivo
<1>1. IInv => PendienteVivo
  BY DEF IInv, InvOrden
<1> QED BY InvarianteGateway, <1>1, PTL

\* A call alone on its bloqueoId is never resolved with null once its answer came.
THEOREM RespuestaNoSePierde == SpecGateway => []OrdenUnicaConservaRespuesta
<1>1. IInv => OrdenUnicaConservaRespuesta
  BY DEF IInv, InvOrden
<1> QED BY InvarianteGateway, <1>1, PTL

\* handleDisconnect compares socket ids: the end of an old connection of a VPS never
\* unregisters the new one.
THEOREM NadieDesconectaAOtro == SpecGateway => DesconexionPropia
<1>1. ASSUME IInv, [NextGateway]_varsGateway, NEW v \in Vps,
             conexiones[v] # Nada, conexiones'[v] = Nada
      PROVE  enlace'[conexiones[v]] = "cerrado"
  <2> USE GatewayConstantes DEF IInv, TypeOKGateway
  <2>1. ASSUME NEW s \in Socket, Cerrar(s) PROVE enlace'[conexiones[v]] = "cerrado"
    BY <1>1, <2>1 DEF Cerrar
  <2>2. CASE PasoConexion
    <3>1. ASSUME NEW s \in Socket, ConsultarVps(s) \/ handleDisconnect(s)
          PROVE  Cerrar(s) \/ UNCHANGED conexiones
      BY <3>1 DEF ConsultarVps, handleDisconnect
    <3>2. ASSUME NEW s \in Socket, CompararToken(s) PROVE Cerrar(s)
      BY <1>1, <3>2 DEF CompararToken
    <3>3. ASSUME NEW s \in Socket, NEW w \in Vps,
                 Conectar(s, w) \/ Cortar(s) \/ SoftDelete(w)
          PROVE  UNCHANGED conexiones
      BY <3>3 DEF Conectar, Cortar, SoftDelete, varsConexion
    <3> QED BY <1>1, <2>1, <2>2, <3>1, <3>2, <3>3 DEF PasoConexion
  <2>3. CASE ReiniciarServidor
    BY <1>1, <2>3 DEF ReiniciarServidor, ConexionAbierta
  <2>4. CASE UNCHANGED conexiones
    BY <1>1, <2>4
  <2> QED BY <1>1, <2>2, <2>3, <2>4
          DEF NextGateway, PasoOrden, VencerPlazo, resolverPendiente, enviarOrden,
              Contestar, varsGateway, varsConexion
<1>2. IInv /\ [NextGateway]_varsGateway =>
        [\A v \in Vps :
           conexiones[v] # Nada /\ conexiones'[v] = Nada
             => enlace'[conexiones[v]] = "cerrado"]_varsGateway
  BY <1>1
<1> QED BY InvarianteGateway, <1>2, PTL DEF SpecGateway, DesconexionPropia
==============================================================================
