----------------------- MODULE BloqueosContrato_proofs -----------------------
(***************************************************************************)
(* What the block service promises over an agent that keeps the contract   *)
(* of the control channel, for any number of VPS, addresses, users,        *)
(* connections and calls.  The invariants of the gateway are taken from    *)
(* AgentGateway_proofs; those of this module say how far a call has come   *)
(* when it has a bloqueoId, whose row that id is, which order every        *)
(* message on the wire belongs to, and what the answers that came are      *)
(* worth.  An answer can only be of the right kind because the block of a  *)
(* row that can be unblocked was answered, and each order only once.       *)
(***************************************************************************)
EXTENDS BloqueosContrato, AgentGateway_proofs

Bloqueo(p) == llamada[p].op = "bloqueo"

\* How far a call has come, and its arguments.
FasesDeLlamada ==
  \A p \in Peticion :
    /\ paso[p] \in {"libre", "propiedad", "blanca", "existente", "buscar", "emitir"}
         => clave[p] = Nada
    /\ promesa[p] = "espera" => paso[p] = "respuesta"
    /\ paso[p] = "auditar" => promesa[p] = "resuelta"
    /\ paso[p] \in {"propiedad", "blanca", "existente"} => Bloqueo(p)
    /\ paso[p] = "buscar" => ~Bloqueo(p)
    /\ Bloqueo(p) /\ paso[p] # "libre" => llamada[p].vps \in Vps /\ llamada[p].ip \in Ip
    /\ ~Bloqueo(p) => llamada[p].objetivo \in Clave /\ paso[p] # "libre"

\* An order carries the kind of its call; an unblock the id of the row it is for.
OrdenDeLlamada ==
  \A p \in Peticion : clave[p] # Nada =>
    /\ tipo[p] = IF Bloqueo(p) THEN "bloquear-ip" ELSE "desbloquear-ip"
    /\ ~Bloqueo(p) => clave[p] = llamada[p].objetivo

\* An unblock is ordered for a row whose block was applied.
ObjetivoAplicado ==
  \A p \in Peticion : ~Bloqueo(p) /\ (clave[p] # Nada \/ paso[p] = "emitir") =>
    /\ filas[llamada[p].objetivo] # Nada
    /\ filas[llamada[p].objetivo].estado # "FALLIDO"

\* The bloqueoId of a block is its own among the blocks.
ClavesNuevas ==
  \A p, q \in Peticion :
    p # q /\ Bloqueo(p) /\ Bloqueo(q) /\ clave[p] # Nada => clave[p] # clave[q]

\* A row has the id of a call, and the row of a block the address of its call; it
\* is FALLIDO if the block was not answered.
FilaPropia ==
  /\ \A k \in Clave : filas[k] # Nada => \E p \in Peticion : clave[p] = k
  /\ \A p \in Peticion : Bloqueo(p) /\ clave[p] # Nada /\ filas[clave[p]] # Nada =>
       /\ paso[p] \in {"auditar", "fin", "caida"}
       /\ filas[clave[p]].vps = llamada[p].vps
       /\ filas[clave[p]].ip = llamada[p].ip
       /\ filas[clave[p]].estado # "FALLIDO" => respuesta[p] # Nada

\* An order is on the wire once, on its way out or back.
UnMensaje ==
  /\ \A m, n \in ida : m.peticion = n.peticion => m = n
  /\ \A m, n \in vuelta : m.peticion = n.peticion => m = n
  /\ \A m \in ida, n \in vuelta : m.peticion # n.peticion

\* A block that was answered has no message left on the wire.
AtendidaSinMensaje ==
  \A p \in Peticion :
    /\ respuesta[p] # Nada => promesa[p] = "resuelta"
    /\ tipo[p] = "bloquear-ip" /\ respuesta[p] # Nada =>
         \A m \in ida \cup vuelta : m.peticion # p

\* The VPS an order is for.
Destino(p) == IF tipo[p] = "bloquear-ip" THEN llamada[p].vps ELSE filas[clave[p]].vps

\* A VPS is registered with a socket of its own, and orders travel on those.
RutaPropia ==
  /\ \A v \in Vps : conexiones[v] # Nada => cabecera[conexiones[v]] = v
  /\ \A m \in ida : enlace[m.socket] # "nuevo" /\ cabecera[m.socket] = Destino(m.peticion)

\* The address is denied, or its unblock was ordered.
Hecha(v, ip) ==
  \/ ip \in firewall[v]
  \/ \E q \in Emitidas("desbloquear-ip") :
       filas[clave[q]].vps = v /\ filas[clave[q]].ip = ip

\* An answer e to the order of p is of its kind, and true.
Veraz(p, e) ==
  /\ e \in {"error"} \cup IF tipo[p] = "bloquear-ip" THEN {"bloqueada", "ya_bloqueada"}
                                                      ELSE {"desbloqueada", "no_existia"}
  /\ e \in {"bloqueada", "ya_bloqueada"} => Hecha(llamada[p].vps, llamada[p].ip)
  /\ e \in {"desbloqueada", "no_existia"} => clave[p] \in revocadas

RespuestasVeraces ==
  /\ \A m \in vuelta : Veraz(m.peticion, m.estado)
  /\ \A p \in Peticion : respuesta[p] # Nada => Veraz(p, respuesta[p])

\* A block whose address has been whitelisted since it began has not come past the
\* whitelist, where an entry for it is found.
BlancaVista ==
  /\ \A p \in cubiertas :
       /\ paso[p] \in {"propiedad", "blanca", "fin", "caida"}
       /\ clave[p] = Nada
       /\ \E e \in blanca : Corresponde(e, llamada[p].vps, llamada[p].ip)
  /\ \A p \in Peticion :
       paso[p] = "blanca" => llamada[p].usuario \in {Nada, Duenio[llamada[p].vps]}

\* A block that comes past the existing rows found none of an earlier call active.
SinRepetir ==
  /\ \A q \in Peticion : \A p \in previas[q] : Terminada(p) /\ paso[q] # "libre"
  /\ \A p, q \in Peticion :
       /\ p \in previas[q] /\ Bloqueo(p) /\ Bloqueo(q) /\ clave[p] # Nada
       /\ clave[q] # Nada \/ paso[q] = "emitir"
       => clave[p] \notin Activas(llamada[q].vps, llamada[q].ip)

\* What an audit entry needs to be true, and to stay true.
Asentada(e) == LET p == e.peticion IN
  /\ paso[p] = "fin"
  /\ e.accion \in {"bloqueo_aplicado", "bloqueo_fallido"} =>
       Bloqueo(p) /\ clave[p] \in Clave /\ filas[clave[p]] # Nada
  /\ e.accion = "bloqueo_aplicado" =>
       filas[clave[p]].estado # "FALLIDO" /\ Hecha(llamada[p].vps, llamada[p].ip)
  /\ e.accion = "bloqueo_fallido" => filas[clave[p]].estado = "FALLIDO"
  /\ e.accion = "desbloqueo_aplicado" => clave[p] \in revocadas

\* A block about to be audited has the row that its entry will tell of.
PorAsentar(p) ==
  /\ clave[p] \in Clave /\ filas[clave[p]] # Nada
  /\ filas[clave[p]].estado = "FALLIDO" <=> estadoFinal(p) # "BLOQUEADO"

Bitacora ==
  /\ \A e \in auditoria : Asentada(e)
  /\ \A p \in Peticion : paso[p] = "auditar" /\ Bloqueo(p) => PorAsentar(p)

Tipos == TypeOKServicio /\ firewall \in [Vps -> SUBSET Ip] /\ revocadas \subseteq Clave

Llamadas == FasesDeLlamada /\ OrdenDeLlamada /\ ObjetivoAplicado /\ ClavesNuevas
            /\ FilaPropia
Mensajes == UnMensaje /\ AtendidaSinMensaje /\ RutaPropia /\ RespuestasVeraces
Historia == BlancaVista /\ SinRepetir /\ Bitacora
Filas == BloqueadoVeraz /\ DesbloqueadoConfirmado

IInvContrato == IInv /\ Tipos /\ Llamadas /\ Mensajes /\ Historia /\ Filas
------------------------------------------------------------------------------
\* A step of the gateway by itself.
ServicioIgual == UNCHANGED varsServicio /\ UNCHANGED <<firewall, revocadas>>

\* The empty server satisfies the invariant.
LEMMA InicioContrato == Init => IInvContrato
<1> SUFFICES ASSUME Init PROVE IInvContrato
  OBVIOUS
<1> USE GatewayConstantes, BloqueosConstantes DEF Init, InitBloqueos
<1>1. IInv
  BY Inicio
<1>2. Tipos
  BY DEF Tipos, InitServicio, TypeOKServicio, SinLlamada, Llamada, Salida
<1>3. Llamadas
  BY DEF Llamadas, FasesDeLlamada, OrdenDeLlamada, ObjetivoAplicado, ClavesNuevas, FilaPropia,
         InitServicio, InitGateway, SinLlamada, Bloqueo
<1>4. Mensajes
  BY DEF Mensajes, UnMensaje, AtendidaSinMensaje, RutaPropia, RespuestasVeraces, InitGateway
<1>5. Historia
  BY DEF Historia, BlancaVista, SinRepetir, Bitacora, InitServicio, InitGateway
<1>6. Filas
  BY DEF Filas, BloqueadoVeraz, BloqueadoTieneRegla, DesbloqueadoConfirmado, InitServicio
<1> QED BY <1>1, <1>2, <1>3, <1>4, <1>5, <1>6 DEF IInvContrato

\* The audit entries stay true in a step that keeps what they tell of, makes no
\* other block ready to be audited than one whose row agrees, and adds none but
\* true ones.
LEMMA BitacoraConserva ==
  ASSUME IInvContrato,
         \A e \in auditoria' \ auditoria : Asentada(e)',
         \A k \in Clave : filas[k] # Nada =>
           filas'[k] # Nada /\ (filas'[k].estado = "FALLIDO" <=> filas[k].estado = "FALLIDO"),
         \A q \in Peticion : paso[q] = "fin" => paso'[q] = "fin",
         \A q \in Peticion : paso[q] # "libre" => llamada'[q] = llamada[q],
         \A q \in Peticion : clave[q] # Nada => clave'[q] = clave[q],
         \A q \in Peticion : paso'[q] = "auditar" /\ Bloqueo(q)' =>
           PorAsentar(q)' \/ (paso[q] = "auditar" /\ respuesta'[q] = respuesta[q]),
         revocadas \subseteq revocadas',
         \A v \in Vps, ip \in Ip : Hecha(v, ip) => Hecha(v, ip)'
  PROVE  Bitacora'
<1> USE GatewayConstantes
<1>1. ASSUME NEW e \in auditoria PROVE Asentada(e)'
  <2> DEFINE p == e.peticion
  <2>1. p \in Peticion /\ Asentada(e)
    BY DEF IInvContrato, Tipos, TypeOKServicio, Historia, Bitacora
  <2>2. paso[p] = "fin" /\ paso'[p] = "fin" /\ llamada'[p] = llamada[p]
    BY <2>1 DEF Asentada
  <2>3. clave[p] \in Clave => clave'[p] = clave[p]
    BY <2>1
  <2>4. CASE e.accion = "bloqueo_aplicado"
    <3>1. llamada[p].vps \in Vps /\ llamada[p].ip \in Ip
      BY <2>1, <2>2, <2>4 DEF Asentada, IInvContrato, Llamadas, FasesDeLlamada
    <3>2. Hecha(llamada[p].vps, llamada[p].ip)'
      <4>1. \A x, y : x = llamada[p].vps /\ y = llamada[p].ip /\ Hecha(x, y)' =>
              Hecha(llamada[p].vps, llamada[p].ip)'
        BY <2>2 DEF Hecha
      <4>2. Hecha(llamada[p].vps, llamada[p].ip)
        BY <2>1, <2>4 DEF Asentada
      <4>3. \E x \in Vps, y \in Ip :
              x = llamada[p].vps /\ y = llamada[p].ip /\ Hecha(x, y)'
        BY <3>1, <4>2
      <4> QED BY <4>1, <4>3
    <3> QED BY <2>1, <2>2, <2>3, <2>4, <3>2 DEF Asentada, Bloqueo
  <2>5. CASE e.accion = "bloqueo_fallido"
    BY <2>1, <2>2, <2>3, <2>5 DEF Asentada, Bloqueo
  <2>6. CASE e.accion = "desbloqueo_aplicado"
    <3>1. clave'[p] = clave[p] /\ clave[p] \in revocadas
      BY <2>1, <2>3, <2>6 DEF Asentada, IInvContrato, Tipos
    <3> QED BY <2>2, <2>6, <3>1 DEF Asentada
  <2>7. CASE e.accion \notin {"bloqueo_aplicado", "bloqueo_fallido", "desbloqueo_aplicado"}
    BY <2>2, <2>7 DEF Asentada
  <2> QED BY <2>4, <2>5, <2>6, <2>7
<1>2. ASSUME NEW q \in Peticion, paso'[q] = "auditar", Bloqueo(q)' PROVE PorAsentar(q)'
  <2>1. SUFFICES ASSUME paso[q] = "auditar", respuesta'[q] = respuesta[q]
                 PROVE  PorAsentar(q)'
    BY <1>2
  <2>2. PorAsentar(q) /\ llamada'[q] = llamada[q]
    BY <1>2, <2>1 DEF IInvContrato, Historia, Bitacora, Bloqueo
  <2> QED BY <2>1, <2>2 DEF PorAsentar, estadoFinal
<1> QED BY <1>1, <1>2 DEF Bitacora

\* A step that does not touch the calls, the rows or the audit log.
LEMMA BitacoraIgual ==
  ASSUME IInvContrato, UNCHANGED <<auditoria, filas, llamada, clave, tipo, firewall, revocadas>>,
         \A q \in Peticion : paso[q] = "fin" => paso'[q] = "fin",
         \A q \in Peticion :
           paso'[q] = "auditar" => paso[q] = "auditar" /\ respuesta'[q] = respuesta[q]
  PROVE  Bitacora'
BY BitacoraConserva DEF Hecha, Emitidas

\* A step of the connections only loses messages, and registers a socket for the VPS
\* of its own header.
LEMMA ConexionConserva ==
  ASSUME IInvContrato, PasoConexion, ServicioIgual
  PROVE  IInvContrato'
<1> USE GatewayConstantes
<1>1. IInv'
  BY PasoDeConexion DEF IInvContrato
<1>2. UNCHANGED varsOrden /\ ida' \subseteq ida /\ vuelta' \subseteq vuelta
  BY DEF PasoConexion, Conectar, ConsultarVps, CompararToken, Cortar, handleDisconnect,
         SoftDelete, Cerrar, varsConexion, varsRed
<1>3. \A s \in Socket : enlace[s] # "nuevo" => enlace'[s] # "nuevo" /\ cabecera'[s] = cabecera[s]
  BY DEF PasoConexion, Conectar, ConsultarVps, CompararToken, Cortar, handleDisconnect,
         SoftDelete, Cerrar, varsConexion, IInvContrato, IInv, TypeOKGateway
<1>4. \A v \in Vps : conexiones'[v] # Nada => cabecera'[conexiones'[v]] = v
  <2>0. \A v \in Vps : conexiones[v] # Nada =>
          /\ conexiones[v] \in Socket
          /\ enlace[conexiones[v]] # "nuevo"
          /\ cabecera[conexiones[v]] = v
    BY DEF IInvContrato, IInv, TypeOKGateway, ConexionAbierta, Mensajes, RutaPropia
  <2>1. ASSUME NEW v \in Vps, conexiones'[v] = conexiones[v], conexiones'[v] # Nada
        PROVE  cabecera'[conexiones'[v]] = v
    BY <1>3, <2>0, <2>1
  <2>2. ASSUME NEW s \in Socket, Cerrar(s), NEW v \in Vps, conexiones'[v] # Nada
        PROVE  conexiones'[v] = conexiones[v]
    BY <2>2 DEF Cerrar
  <2>3. ASSUME NEW s \in Socket, CompararToken(s), NEW v \in Vps, conexiones'[v] # Nada
        PROVE  cabecera'[conexiones'[v]] = v
    <3>1. CASE Cerrar(s)
      BY <3>1, <2>1, <2>2, <2>3
    <3>2. CASE conexiones' = [conexiones EXCEPT ![cabecera[s]] = s]
      BY <3>2, <2>1, <2>3 DEF CompararToken, IInvContrato, IInv, TypeOKGateway
    <3> QED BY <2>3, <3>1, <3>2 DEF CompararToken
  <2>4. ASSUME NEW s \in Socket, NEW w \in Vps, NEW v \in Vps, conexiones'[v] # Nada,
               Conectar(s, w) \/ ConsultarVps(s) \/ Cortar(s) \/ handleDisconnect(s)
        PROVE  conexiones'[v] = conexiones[v]
    BY <2>2, <2>4 DEF Conectar, ConsultarVps, Cortar, handleDisconnect
  <2>5. ASSUME NEW w \in Vps, SoftDelete(w) PROVE conexiones' = conexiones
    BY <2>5 DEF SoftDelete, varsConexion
  <2>6. ASSUME NEW v \in Vps, conexiones'[v] # Nada
        PROVE  cabecera'[conexiones'[v]] = v
    BY <2>1, <2>3, <2>4, <2>5, <2>6 DEF PasoConexion
  <2> QED BY <2>6
<1>5. Tipos'
  BY DEF IInvContrato, Tipos, ServicioIgual, varsServicio, TypeOKServicio
<1>6. Llamadas'
  BY <1>2 DEF IInvContrato, Llamadas, FasesDeLlamada, OrdenDeLlamada, ObjetivoAplicado,
              ClavesNuevas, FilaPropia, Bloqueo, ServicioIgual, varsServicio, varsOrden
<1>7. Mensajes'
  <2>1. UnMensaje' /\ AtendidaSinMensaje'
    BY <1>2 DEF IInvContrato, Mensajes, UnMensaje, AtendidaSinMensaje, varsOrden
  <2>2. RutaPropia'
    BY <1>2, <1>3, <1>4
       DEF IInvContrato, IInv, TypeOKGateway, Ida, Mensajes, RutaPropia, Destino,
           ServicioIgual, varsServicio, varsOrden
  <2>3. RespuestasVeraces'
    BY <1>2 DEF IInvContrato, Mensajes, RespuestasVeraces, Veraz, Hecha, Emitidas,
                ServicioIgual, varsServicio, varsOrden
  <2> QED BY <2>1, <2>2, <2>3 DEF Mensajes
<1>8. Historia'
  <2>1. Bitacora'
    BY <1>2, BitacoraIgual DEF ServicioIgual, varsServicio, varsOrden
  <2> QED BY <1>2, <2>1
          DEF IInvContrato, Historia, BlancaVista, SinRepetir, Corresponde, Activas, Terminada,
              Bloqueo, ServicioIgual, varsServicio, varsOrden
<1>9. Filas'
  BY <1>2 DEF IInvContrato, Filas, BloqueadoVeraz, BloqueadoTieneRegla,
              DesbloqueadoConfirmado, Emitidas, ServicioIgual, varsServicio, varsOrden
<1> QED BY <1>1, <1>5, <1>6, <1>7, <1>8, <1>9 DEF IInvContrato

\* A timer fires: the call that waited goes on without an answer.
LEMMA VencerConservaContrato ==
  ASSUME IInvContrato, NEW p \in Peticion, VencerPlazo(p), ServicioIgual
  PROVE  IInvContrato'
<1> USE GatewayConstantes
<1>1. IInv'
  BY VencerConserva DEF IInvContrato
<1>2. /\ UNCHANGED <<conexiones, cabecera, enlace, ida, vuelta, clave, tipo>>
      /\ promesa[p] = "espera"
      /\ promesa' = [promesa EXCEPT ![p] = "resuelta"]
      /\ respuesta' = respuesta
  BY DEF VencerPlazo, Resolver, varsConexion, varsRed, IInvContrato, IInv, TypeOKGateway,
         InvOrden, EsperaConTemporizador, Mensajes, AtendidaSinMensaje
<1>3. Tipos'
  BY DEF IInvContrato, Tipos, ServicioIgual, varsServicio, TypeOKServicio
<1>4. Llamadas'
  <2>1. FasesDeLlamada'
    BY <1>2 DEF IInvContrato, IInv, TypeOKGateway, Llamadas, FasesDeLlamada, Bloqueo,
                ServicioIgual, varsServicio
  <2> QED BY <1>2, <2>1
          DEF IInvContrato, Llamadas, OrdenDeLlamada, ObjetivoAplicado, ClavesNuevas,
              FilaPropia, Bloqueo, ServicioIgual, varsServicio
<1>5. Mensajes'
  <2>1. UnMensaje' /\ AtendidaSinMensaje'
    BY <1>2 DEF IInvContrato, IInv, TypeOKGateway, Mensajes, UnMensaje, AtendidaSinMensaje
  <2>2. RutaPropia' /\ RespuestasVeraces'
    BY <1>2 DEF IInvContrato, Mensajes, RutaPropia, RespuestasVeraces, Destino, Veraz, Hecha,
                Emitidas, ServicioIgual, varsServicio
  <2> QED BY <2>1, <2>2 DEF Mensajes
<1>6. Historia' /\ Filas'
  <2>1. Bitacora'
    BY <1>2, BitacoraIgual DEF ServicioIgual, varsServicio
  <2> QED BY <1>2, <2>1
          DEF IInvContrato, Historia, BlancaVista, SinRepetir, Corresponde, Activas, Emitidas,
              Terminada, Bloqueo, Filas, BloqueadoVeraz, BloqueadoTieneRegla,
              DesbloqueadoConfirmado, ServicioIgual, varsServicio
<1> QED BY <1>1, <1>3, <1>4, <1>5, <1>6 DEF IInvContrato

\* Who waits under the bloqueoId of an answer that comes in asked for an order of the
\* same kind; and a block is answered by the answer to its own order.  A block waits
\* alone on its bloqueoId, for there is no row yet; if an unblock waits, the row is
\* of a block that was answered, and its only message is gone.
LEMMA MismoTipo ==
  ASSUME IInvContrato, NEW m \in vuelta, NEW q \in Peticion,
         pendientes[clave[m.peticion]] = q
  PROVE  /\ m.peticion \in Peticion
         /\ clave[m.peticion] \in Clave /\ clave[q] = clave[m.peticion]
         /\ promesa[q] = "espera"
         /\ tipo[q] = tipo[m.peticion]
         /\ tipo[q] = "bloquear-ip" => m.peticion = q
<1> USE GatewayConstantes
<1> DEFINE p == m.peticion
<1>1. /\ p \in Peticion /\ clave[p] \in Clave
      /\ clave[q] = clave[p] /\ promesa[q] = "espera"
  BY DEF IInvContrato, IInv, TypeOKGateway, InvOrden, MensajeDeLlamada, ClaveDeLlamada,
         PendienteVivo, Vuelta
<1> HIDE DEF p
<1>2. p = m.peticion
  BY DEF p
<1>3. CASE Bloqueo(q)
  <2>1. filas[clave[q]] = Nada
    BY <1>1, <1>3 DEF IInvContrato, Llamadas, FasesDeLlamada, FilaPropia
  <2>2. Bloqueo(p)
    BY <1>1, <2>1 DEF IInvContrato, Llamadas, OrdenDeLlamada, ObjetivoAplicado
  <2>3. p = q
    BY <1>1, <1>3, <2>2 DEF IInvContrato, Llamadas, ClavesNuevas
  <2> QED BY <1>1, <1>2, <2>3
<1>4. CASE ~Bloqueo(q)
  <2>1. /\ filas[clave[q]] # Nada /\ filas[clave[q]].estado # "FALLIDO"
        /\ tipo[q] = "desbloquear-ip"
    BY <1>1, <1>4 DEF IInvContrato, Llamadas, OrdenDeLlamada, ObjetivoAplicado
  <2>2. ~Bloqueo(p)
    <3>1. ASSUME Bloqueo(p) PROVE FALSE
      <4>1. respuesta[p] # Nada /\ tipo[p] = "bloquear-ip"
        BY <1>1, <2>1, <3>1 DEF IInvContrato, Llamadas, OrdenDeLlamada, FilaPropia
      <4> QED BY <1>1, <1>2, <4>1 DEF IInvContrato, Mensajes, AtendidaSinMensaje
    <3> QED BY <3>1
  <2>3. tipo[p] = "desbloquear-ip"
    BY <1>1, <2>2 DEF IInvContrato, Llamadas, OrdenDeLlamada
  <2> QED BY <1>1, <1>2, <2>1, <2>3
<1> QED BY <1>3, <1>4

\* An answer comes in, and resolves the call that waits under its bloqueoId, if any.
LEMMA ResolverConservaContrato ==
  ASSUME IInvContrato, NEW m \in vuelta, resolverPendiente(m), ServicioIgual
  PROVE  IInvContrato'
<1> USE GatewayConstantes
<1>1. IInv'
  BY ResolverConserva DEF IInvContrato
<1>2. /\ UNCHANGED <<conexiones, cabecera, enlace, ida, clave, tipo>>
      /\ vuelta' = vuelta \ {m}
  BY DEF resolverPendiente, varsConexion
<1>3. Tipos'
  BY DEF IInvContrato, Tipos, ServicioIgual, varsServicio, TypeOKServicio
<1>4. CASE pendientes[clave[m.peticion]] = Nada
  <2>1. UNCHANGED <<promesa, respuesta>>
    BY <1>4 DEF resolverPendiente
  <2>2. Llamadas'
    BY <1>2, <2>1 DEF IInvContrato, Llamadas, FasesDeLlamada, OrdenDeLlamada, ObjetivoAplicado,
              ClavesNuevas, FilaPropia, Bloqueo, ServicioIgual, varsServicio
  <2>3. Mensajes'
    BY <1>2, <2>1 DEF IInvContrato, Mensajes, UnMensaje, AtendidaSinMensaje, RutaPropia,
                RespuestasVeraces, Destino, Veraz, Hecha, Emitidas, ServicioIgual, varsServicio
  <2>4. Historia' /\ Filas'
    <3>1. Bitacora'
      BY <1>2, <2>1, BitacoraIgual DEF ServicioIgual, varsServicio
    <3> QED BY <1>2, <2>1, <3>1
            DEF IInvContrato, Historia, BlancaVista, SinRepetir, Corresponde, Activas, Emitidas,
                Terminada, Bloqueo, Filas, BloqueadoVeraz, BloqueadoTieneRegla,
                DesbloqueadoConfirmado, ServicioIgual, varsServicio
  <2> QED BY <1>1, <1>3, <2>2, <2>3, <2>4 DEF IInvContrato
<1>5. CASE pendientes[clave[m.peticion]] # Nada
  <2>1. PICK q \in Peticion : q = pendientes[clave[m.peticion]]
    BY <1>5 DEF IInvContrato, IInv, TypeOKGateway, InvOrden, MensajeDeLlamada, ClaveDeLlamada,
                Vuelta
  <2>2. /\ m.peticion \in Peticion
        /\ clave[m.peticion] \in Clave /\ clave[q] = clave[m.peticion]
        /\ promesa[q] = "espera"
        /\ tipo[q] = tipo[m.peticion]
        /\ tipo[q] = "bloquear-ip" => m.peticion = q
    BY <2>1, MismoTipo
  <2>3. /\ promesa' = [promesa EXCEPT ![q] = "resuelta"]
        /\ respuesta' = [respuesta EXCEPT ![q] = m.estado]
    BY <1>5, <2>1 DEF resolverPendiente, Resolver
  <2>4. /\ promesa \in [Peticion -> {"libre", "espera", "resuelta", "perdida"}]
        /\ respuesta \in [Peticion -> EstadoRespuesta \cup {Nada}]
    BY DEF IInvContrato, IInv, TypeOKGateway
  <2>5. Veraz(m.peticion, m.estado)
    BY DEF IInvContrato, Mensajes, RespuestasVeraces
  <2>6. Llamadas'
    <3>1. FasesDeLlamada'
      BY <1>2, <2>2, <2>3, <2>4
         DEF IInvContrato, Llamadas, FasesDeLlamada, Bloqueo, ServicioIgual, varsServicio
    <3>2. FilaPropia'
      BY <1>2, <2>2, <2>3, <2>4
         DEF IInvContrato, Llamadas, FilaPropia, FasesDeLlamada, Bloqueo, ServicioIgual,
             varsServicio
    <3> QED BY <1>2, <3>1, <3>2
            DEF IInvContrato, Llamadas, OrdenDeLlamada, ObjetivoAplicado, ClavesNuevas,
                Bloqueo, ServicioIgual, varsServicio
  <2>7. UnMensaje' /\ AtendidaSinMensaje'
    <3>1. UnMensaje'
      BY <1>2 DEF IInvContrato, Mensajes, UnMensaje
    <3>2. AtendidaSinMensaje'
      BY <1>2, <2>2, <2>3, <2>4 DEF IInvContrato, Mensajes, UnMensaje, AtendidaSinMensaje
    <3> QED BY <3>1, <3>2
  <2>8. RutaPropia'
    BY <1>2 DEF IInvContrato, Mensajes, RutaPropia, Destino, ServicioIgual, varsServicio
  <2>9. RespuestasVeraces'
    <3>1. \A p \in Peticion, e \in EstadoRespuesta : Veraz(p, e) => Veraz(p, e)'
      BY <1>2 DEF Veraz, Hecha, Emitidas, ServicioIgual, varsServicio
    <3>2. Veraz(q, m.estado)
      BY <2>2, <2>5 DEF Veraz
    <3>3. \A n \in vuelta : n.peticion \in Peticion /\ n.estado \in EstadoRespuesta
      BY DEF IInvContrato, IInv, TypeOKGateway, Vuelta
    <3>4. \A p \in Peticion : respuesta'[p] # Nada => Veraz(p, respuesta'[p])
      BY <2>3, <2>4, <3>2 DEF IInvContrato, Mensajes, RespuestasVeraces
    <3>5. \A p \in Peticion : respuesta'[p] # Nada => respuesta'[p] \in EstadoRespuesta
      BY <2>3, <2>4, <3>3
    <3>6. \A n \in vuelta' : Veraz(n.peticion, n.estado)'
      BY <1>2, <3>1, <3>3 DEF IInvContrato, Mensajes, RespuestasVeraces
    <3>7. \A p \in Peticion : respuesta'[p] # Nada => Veraz(p, respuesta[p])'
      BY <1>2, <3>4 DEF Veraz, Hecha, Emitidas, ServicioIgual, varsServicio
    <3> QED BY <3>6, <3>7 DEF RespuestasVeraces
  <2>10. Historia' /\ Filas'
    <3>1. paso[q] = "respuesta"
      BY <2>2 DEF IInvContrato, Llamadas, FasesDeLlamada
    <3>2. \A p \in Peticion : paso[p] = "auditar" => respuesta'[p] = respuesta[p]
      BY <2>3, <2>4, <3>1
    <3>3. Bitacora'
      BY <1>2, <3>2, BitacoraIgual DEF ServicioIgual, varsServicio
    <3> QED BY <1>2, <3>3
            DEF IInvContrato, Historia, BlancaVista, SinRepetir, Corresponde, Activas, Emitidas,
                Terminada, Bloqueo, Filas, BloqueadoVeraz, BloqueadoTieneRegla,
                DesbloqueadoConfirmado, ServicioIgual, varsServicio
  <2> QED BY <1>1, <1>3, <2>6, <2>7, <2>8, <2>9, <2>10 DEF IInvContrato, Mensajes
<1> QED BY <1>4, <1>5

\* The process dies: nobody waits any more, and nothing is on the wire.
LEMMA ReiniciarConservaContrato ==
  ASSUME IInvContrato, Reiniciar, UNCHANGED <<firewall, revocadas>>
  PROVE  IInvContrato'
<1> USE GatewayConstantes
<1>1. IInv'
  BY ReiniciarConserva DEF IInvContrato, Reiniciar
<1>2. /\ UNCHANGED <<llamada, salida, filas, auditoria, blanca, previas, cubiertas, cabecera,
                     clave, tipo, respuesta>>
      /\ ida' = {} /\ vuelta' = {}
      /\ conexiones' = [v \in Vps |-> Nada]
      /\ \A p \in Peticion :
           /\ promesa'[p] = IF promesa[p] = "espera" THEN "perdida" ELSE promesa[p]
           /\ paso'[p] = IF paso[p] \in {"libre", "fin"} THEN paso[p] ELSE "caida"
  BY DEF Reiniciar, ReiniciarServidor
<1>3. Tipos'
  BY <1>2 DEF IInvContrato, Tipos, TypeOKServicio, Reiniciar
<1>4. Llamadas'
  <2>1. FasesDeLlamada' /\ FilaPropia'
    BY <1>2 DEF IInvContrato, Llamadas, FasesDeLlamada, FilaPropia, Bloqueo
  <2> QED BY <1>2, <2>1
          DEF IInvContrato, Llamadas, OrdenDeLlamada, ObjetivoAplicado, ClavesNuevas, Bloqueo
<1>5. Mensajes'
  <2>1. RespuestasVeraces'
    BY <1>2 DEF IInvContrato, Mensajes, RespuestasVeraces, Veraz, Hecha, Emitidas
  <2> QED BY <1>2, <2>1 DEF IInvContrato, Mensajes, UnMensaje, AtendidaSinMensaje, RutaPropia
<1>6. Historia'
  <2>1. Bitacora'
    BY <1>2, BitacoraIgual DEF Reiniciar
  <2>2. BlancaVista'
    BY <1>2 DEF IInvContrato, Historia, BlancaVista, Corresponde, Tipos, TypeOKServicio
  <2>3. SinRepetir'
    BY <1>2 DEF IInvContrato, Historia, SinRepetir, Bloqueo, Terminada, Activas, Tipos,
                TypeOKServicio
  <2> QED BY <2>1, <2>2, <2>3 DEF Historia
<1>7. Filas'
  BY <1>2 DEF IInvContrato, Filas, BloqueadoVeraz, BloqueadoTieneRegla,
              DesbloqueadoConfirmado, Emitidas
<1> QED BY <1>1, <1>3, <1>4, <1>5, <1>6, <1>7 DEF IInvContrato

\* The agent handles an order and answers it: it denies the address of a block, and
\* ceases to deny one only because its unblock was ordered.
LEMMA AtenderConserva ==
  ASSUME IInvContrato, NEW m \in ida, NEW s \in Socket, Atender(m, s)
  PROVE  IInvContrato'
<1> USE GatewayConstantes, NadaNoEsRespuesta
<1> DEFINE p == m.peticion
           v == cabecera[m.socket]
           dir == IF tipo[p] = "bloquear-ip" THEN llamada[p].ip ELSE filas[clave[p]].ip
           tabla == IF tipo[p] = "bloquear-ip" THEN firewall[v] \cup {dir}
                                              ELSE firewall[v] \ {dir}
<1>0. PICK e \in EstadoAgente :
        /\ Contestar(m, s, e)
        /\ firewall' \in {firewall, [firewall EXCEPT ![v] = tabla]}
        /\ e # "error" => firewall' = [firewall EXCEPT ![v] = tabla]
        /\ revocadas' = IF tipo[p] # "bloquear-ip" /\ e # "error" THEN revocadas \cup {clave[p]}
                                                                 ELSE revocadas
        /\ e \in {"error"} \cup IF tipo[p] = "bloquear-ip" THEN {"bloqueada", "ya_bloqueada"}
                                                           ELSE {"desbloqueada", "no_existia"}
  <2>1. /\ p \in Peticion /\ tipo[p] \in Evento
    BY DEF IInvContrato, IInv, TypeOKGateway, Ida
  <2> QED BY <2>1 DEF Atender, EstadoAgente, Evento
<1>1. IInv'
  BY <1>0, ContestarConserva DEF IInvContrato, EstadoRespuesta
<1>2. /\ UNCHANGED <<vivas, conexiones, cabecera, enlace, promesa, respuesta, clave, tipo>>
      /\ ida' = ida \ {m}
      /\ vuelta' = vuelta \cup {[socket |-> s, peticion |-> p, estado |-> e]}
  BY <1>0 DEF Contestar, varsConexion, varsOrden
<1>3. UNCHANGED <<paso, llamada, salida, filas, auditoria, blanca, previas, cubiertas>>
  BY DEF Atender, varsServicio
<1>4. /\ p \in Peticion /\ clave[p] \in Clave
      /\ v = Destino(p)
      /\ tipo[p] \in Evento
  BY DEF IInvContrato, IInv, TypeOKGateway, InvOrden, MensajeDeLlamada, ClaveDeLlamada,
         Mensajes, RutaPropia, Ida
<1>5. tipo[p] = "bloquear-ip" => v = llamada[p].vps /\ dir = llamada[p].ip
  BY <1>4 DEF Destino
<1>6. tipo[p] # "bloquear-ip" =>
        /\ p \in Emitidas("desbloquear-ip")
        /\ v = filas[clave[p]].vps /\ dir = filas[clave[p]].ip
  BY <1>4 DEF Destino, Emitidas, Evento
<1>7. v \in Vps /\ dir \in Ip
  <2>1. CASE Bloqueo(p)
    BY <1>4, <1>5, <2>1 DEF IInvContrato, Llamadas, OrdenDeLlamada, FasesDeLlamada
  <2>2. CASE ~Bloqueo(p)
    <3>1. filas[clave[p]] \in Fila
      BY <1>4, <2>2
         DEF IInvContrato, Llamadas, OrdenDeLlamada, ObjetivoAplicado, Tipos, TypeOKServicio
    <3> QED BY <1>4, <1>6, <2>2, <3>1 DEF IInvContrato, Llamadas, OrdenDeLlamada, Fila
  <2> QED BY <2>1, <2>2
<1>8. /\ firewall \in [Vps -> SUBSET Ip]
      /\ revocadas \subseteq Clave
  BY DEF IInvContrato, Tipos
<1>9. \A x \in Vps : firewall'[x] = firewall[x] \/ (x = v /\ firewall'[x] = tabla)
  BY <1>0, <1>7, <1>8
<1>10. e # "error" => firewall'[v] = tabla
  BY <1>0, <1>7, <1>8
<1> HIDE DEF p, v, dir, tabla
<1>11. p = m.peticion
  BY DEF p
<1>12. Tipos'
  <2>1. firewall' \in [Vps -> SUBSET Ip]
    <3>1. tabla \subseteq Ip
      BY <1>7, <1>8 DEF tabla
    <3> QED BY <1>0, <1>8, <3>1
  <2>2. revocadas' \subseteq Clave
    BY <1>0, <1>4, <1>8
  <2> QED BY <1>3, <2>1, <2>2 DEF IInvContrato, Tipos, TypeOKServicio
<1>13. Llamadas'
  BY <1>2, <1>3 DEF IInvContrato, Llamadas, FasesDeLlamada, OrdenDeLlamada, ObjetivoAplicado,
                    ClavesNuevas, FilaPropia, Bloqueo
<1>14. ASSUME NEW x \in Vps, NEW ip \in Ip, Hecha(x, ip) PROVE Hecha(x, ip)'
  <2>1. CASE ip \in firewall[x] /\ ip \notin firewall'[x]
    <3>1. x = v /\ tipo[p] # "bloquear-ip" /\ ip = dir
      BY <1>9, <2>1 DEF tabla
    <3> QED BY <1>2, <1>3, <1>6, <3>1 DEF Hecha, Emitidas
  <2>2. CASE ip \in firewall'[x]
    BY <2>2 DEF Hecha
  <2>3. CASE ip \notin firewall[x]
    BY <1>2, <1>3, <1>14, <2>3 DEF Hecha, Emitidas
  <2> QED BY <2>1, <2>2, <2>3
<1>15. ASSUME NEW q \in Peticion, NEW r \in EstadoRespuesta, clave[q] # Nada, Veraz(q, r)
       PROVE  Veraz(q, r)'
  <2>1. revocadas \subseteq revocadas'
    BY <1>0
  <2>2. ASSUME Hecha(llamada[q].vps, llamada[q].ip), r \in {"bloqueada", "ya_bloqueada"}
        PROVE  Hecha(llamada[q].vps, llamada[q].ip)'
    <3>1. tipo[q] = "bloquear-ip"
      BY <1>15, <2>2 DEF Veraz
    <3>2. Bloqueo(q) /\ paso[q] # "libre"
      BY <1>15, <3>1 DEF IInvContrato, Llamadas, OrdenDeLlamada, FasesDeLlamada
    <3>3. llamada[q].vps \in Vps /\ llamada[q].ip \in Ip
      BY <3>2 DEF IInvContrato, Llamadas, FasesDeLlamada
    <3>4. Hecha(llamada[q].vps, llamada[q].ip)' <=> \E x, y : x = llamada[q].vps /\ y = llamada[q].ip /\ Hecha(x, y)'
      BY <1>3 DEF Hecha
    <3> QED BY <1>14, <2>2, <3>3, <3>4
  <2> QED BY <1>2, <1>15, <2>1, <2>2 DEF Veraz
<1>16. Mensajes'
  <2>1. UnMensaje'
    BY <1>2, <1>11 DEF IInvContrato, Mensajes, UnMensaje
  <2>2. AtendidaSinMensaje'
    BY <1>2, <1>11 DEF IInvContrato, Mensajes, AtendidaSinMensaje
  <2>3. RutaPropia'
    BY <1>2, <1>3 DEF IInvContrato, Mensajes, RutaPropia, Destino
  <2>4. Veraz(p, e)'
    <3>1. tipo[p] = "bloquear-ip" /\ e # "error" => dir \in firewall'[v]
      BY <1>10 DEF tabla
    <3>2. tipo[p] # "bloquear-ip" /\ e # "error" => clave[p] \in revocadas'
      BY <1>0
    <3> QED BY <1>0, <1>2, <1>3, <1>5, <3>1, <3>2 DEF Veraz, Hecha
  <2>5. RespuestasVeraces'
    <3>1. \A n \in vuelta : /\ n.peticion \in Peticion /\ n.estado \in EstadoRespuesta
                            /\ clave[n.peticion] # Nada
      BY DEF IInvContrato, IInv, TypeOKGateway, InvOrden, MensajeDeLlamada, ClaveDeLlamada, Vuelta
    <3>2. \A q \in Peticion : respuesta[q] # Nada => clave[q] # Nada
      BY DEF IInvContrato, IInv, TypeOKGateway, InvOrden, ClaveDeLlamada, Mensajes,
             AtendidaSinMensaje
    <3>3. \A q \in Peticion : respuesta[q] # Nada => respuesta[q] \in EstadoRespuesta
      BY DEF IInvContrato, IInv, TypeOKGateway
    <3>4. \A n \in vuelta : Veraz(n.peticion, n.estado)'
      BY <1>15, <3>1 DEF IInvContrato, Mensajes, RespuestasVeraces
    <3>5. \A q \in Peticion : respuesta[q] # Nada => Veraz(q, respuesta[q])'
      BY <1>2, <1>15, <3>2, <3>3 DEF IInvContrato, Mensajes, RespuestasVeraces, Veraz
    <3> QED BY <1>2, <2>4, <3>4, <3>5 DEF RespuestasVeraces
  <2> QED BY <2>1, <2>2, <2>3, <2>5 DEF Mensajes
<1>17. Historia'
  <2>1. revocadas \subseteq revocadas'
    BY <1>0
  <2>2. Bitacora'
    BY <1>2, <1>3, <1>14, <2>1, BitacoraConserva
  <2> QED BY <1>2, <1>3, <2>2
          DEF IInvContrato, Historia, BlancaVista, SinRepetir, Corresponde, Activas, Terminada,
              Bloqueo
<1>18. Filas'
  <2>1. DesbloqueadoConfirmado'
    BY <1>0, <1>3 DEF IInvContrato, Filas, DesbloqueadoConfirmado
  <2>2. \A k \in Clave : filas[k] # Nada /\ filas[k].estado = "BLOQUEADO" =>
          Hecha(filas[k].vps, filas[k].ip)
    BY DEF IInvContrato, Filas, BloqueadoVeraz, BloqueadoTieneRegla, Hecha
  <2>3. \A k \in Clave : filas[k] # Nada => filas[k].vps \in Vps /\ filas[k].ip \in Ip
    BY DEF IInvContrato, Tipos, TypeOKServicio, Fila
  <2>4. ASSUME NEW k \in Clave, filas[k] # Nada, filas[k].estado = "BLOQUEADO"
        PROVE  Hecha(filas[k].vps, filas[k].ip)'
    <3>1. Hecha(filas[k].vps, filas[k].ip)' <=>
            \E x, y : x = filas[k].vps /\ y = filas[k].ip /\ Hecha(x, y)'
      BY <1>3 DEF Hecha
    <3> QED BY <1>14, <2>2, <2>3, <2>4, <3>1
  <2> QED BY <1>3, <2>1, <2>4 DEF Filas, BloqueadoVeraz, BloqueadoTieneRegla, Hecha
<1> QED BY <1>1, <1>12, <1>13, <1>16, <1>17, <1>18 DEF IInvContrato

\* A step of the service by itself.  Rows are not removed and stay those of their
\* address, and the arguments of a call that has given its order stay what they are.
SoloServicio ==
  /\ UNCHANGED <<varsGateway, firewall, revocadas>>
  /\ \A k \in Clave : filas[k] # Nada =>
       filas'[k] # Nada /\ filas'[k].vps = filas[k].vps /\ filas'[k].ip = filas[k].ip
  /\ \A p \in Peticion : clave[p] # Nada => llamada'[p] = llamada[p]

\* Such a step leaves the gateway and the messages as they were, and what was done
\* at the firewall done.
LEMMA ServicioConservaRed ==
  ASSUME IInvContrato, SoloServicio
  PROVE  /\ IInv' /\ Mensajes'
         /\ \A k \in Clave : filas[k] # Nada /\ Hecha(filas[k].vps, filas[k].ip) =>
              Hecha(filas[k].vps, filas[k].ip)'
         /\ \A v, ip : Hecha(v, ip) => Hecha(v, ip)'
<1>1. /\ UNCHANGED <<vivas, enlace, cabecera, admision, conexiones, pendientes, temporizadores,
                     promesa, respuesta, clave, tipo, ida, vuelta, atendidas>>
      /\ UNCHANGED <<firewall, revocadas>>
  BY DEF SoloServicio, varsGateway, varsConexion, varsOrden, varsRed
<1>2. IInv'
  <2>1. UNCHANGED varsGateway
    BY DEF SoloServicio
  <2> QED BY <2>1, Induccion DEF IInvContrato
<1>3. UnMensaje' /\ AtendidaSinMensaje'
  BY <1>1 DEF IInvContrato, Mensajes, UnMensaje, AtendidaSinMensaje
<1>4. \A q \in Peticion : clave[q] # Nada =>
        /\ clave[q] \in Clave /\ llamada'[q] = llamada[q]
        /\ tipo[q] # "bloquear-ip" =>
             /\ filas[clave[q]] # Nada
             /\ filas'[clave[q]].vps = filas[clave[q]].vps
             /\ filas'[clave[q]].ip = filas[clave[q]].ip
  BY DEF IInvContrato, IInv, TypeOKGateway, Llamadas, OrdenDeLlamada, ObjetivoAplicado,
         SoloServicio
<1>5. RutaPropia'
  <2>1. \A m \in ida : m.peticion \in Peticion /\ clave[m.peticion] # Nada
    BY DEF IInvContrato, IInv, TypeOKGateway, InvOrden, MensajeDeLlamada, ClaveDeLlamada, Ida
  <2>2. \A m \in ida : Destino(m.peticion)' = Destino(m.peticion)
    BY <1>1, <1>4, <2>1 DEF Destino
  <2> QED BY <1>1, <2>2 DEF IInvContrato, Mensajes, RutaPropia
<1>6. \A v, ip : Hecha(v, ip) => Hecha(v, ip)'
  <2>1. ASSUME NEW v, NEW ip, NEW q \in Emitidas("desbloquear-ip"),
               filas[clave[q]].vps = v, filas[clave[q]].ip = ip
        PROVE  Hecha(v, ip)'
    <3>1. q \in Emitidas("desbloquear-ip")'
      BY <1>1, <2>1 DEF Emitidas
    <3>2. filas'[clave'[q]].vps = v /\ filas'[clave'[q]].ip = ip
      BY <1>1, <1>4, <2>1 DEF Emitidas
    <3> QED BY <3>1, <3>2 DEF Hecha
  <2> QED BY <1>1, <2>1 DEF Hecha
<1>7. RespuestasVeraces'
  <2>1. \A n \in vuelta : n.peticion \in Peticion /\ clave[n.peticion] # Nada
    BY DEF IInvContrato, IInv, TypeOKGateway, InvOrden, MensajeDeLlamada, ClaveDeLlamada, Vuelta
  <2>2. \A q \in Peticion : respuesta[q] # Nada => clave[q] # Nada
    BY DEF IInvContrato, IInv, TypeOKGateway, InvOrden, ClaveDeLlamada, Mensajes,
           AtendidaSinMensaje
  <2>3. ASSUME NEW q \in Peticion, NEW e, clave[q] # Nada, Veraz(q, e) PROVE Veraz(q, e)'
    <3>1. Hecha(llamada[q].vps, llamada[q].ip) => Hecha(llamada[q].vps, llamada[q].ip)'
      <4>1. Hecha(llamada[q].vps, llamada[q].ip)' <=>
              \E x, y : x = llamada[q].vps /\ y = llamada[q].ip /\ Hecha(x, y)'
        BY <1>4, <2>3 DEF Hecha
      <4> QED BY <1>6, <4>1
    <3> QED BY <1>1, <2>3, <3>1 DEF Veraz
  <2>4. \A n \in vuelta : Veraz(n.peticion, n.estado)'
    <3>1. ASSUME NEW n \in vuelta PROVE Veraz(n.peticion, n.estado)'
      BY <2>1, <2>3 DEF IInvContrato, Mensajes, RespuestasVeraces
    <3> QED BY <3>1
  <2>5. ASSUME NEW q \in Peticion, respuesta[q] # Nada PROVE Veraz(q, respuesta[q])'
    <3>1. \A e : e = respuesta[q] => Veraz(q, e)'
      BY <2>2, <2>3, <2>5 DEF IInvContrato, Mensajes, RespuestasVeraces
    <3> QED BY <1>1, <3>1 DEF Veraz
  <2> QED BY <1>1, <2>4, <2>5 DEF RespuestasVeraces
<1>8. ASSUME NEW k \in Clave, filas[k] # Nada, Hecha(filas[k].vps, filas[k].ip)
      PROVE  Hecha(filas[k].vps, filas[k].ip)'
  <2>1. Hecha(filas[k].vps, filas[k].ip)' <=>
          \E x, y : x = filas[k].vps /\ y = filas[k].ip /\ Hecha(x, y)'
    BY <1>8 DEF Hecha, SoloServicio
  <2> QED BY <1>6, <1>8, <2>1
<1> QED BY <1>2, <1>3, <1>5, <1>6, <1>7, <1>8 DEF Mensajes

\* A call begins.
LEMMA ComenzarConserva ==
  ASSUME IInvContrato, NEW p \in Peticion, NEW l \in Llamada, NEW n,
         Comenzar(p, l, n), UNCHANGED <<firewall, revocadas>>,
         cubiertas' \subseteq cubiertas \cup {p},
         \/ /\ l.op = "bloqueo" /\ l.vps \in Vps /\ l.ip \in Ip
            /\ n = IF l.usuario = Nada THEN "blanca" ELSE "propiedad"
            /\ p \in cubiertas' \ cubiertas =>
                 \E e \in blanca : Corresponde(e, l.vps, l.ip)
         \/ /\ l.op = "desbloqueo" /\ l.objetivo \in Clave
            /\ n = "buscar"
            /\ cubiertas' = cubiertas
  PROVE  IInvContrato'
<1>1. /\ UNCHANGED <<salida, filas, auditoria, blanca, varsGateway>>
      /\ UNCHANGED <<promesa, respuesta, clave, tipo>>
      /\ paso[p] = "libre"
      /\ paso' = [paso EXCEPT ![p] = n]
      /\ llamada' = [llamada EXCEPT ![p] = l]
      /\ previas' = [previas EXCEPT ![p] = {q \in Peticion : Terminada(q)}]
  BY DEF Comenzar, varsGateway, varsOrden
<1>2. clave[p] = Nada
  BY <1>1 DEF IInvContrato, Llamadas, FasesDeLlamada
<1>3. /\ paso \in [Peticion -> {"libre", "propiedad", "blanca", "existente", "buscar",
                                "emitir", "respuesta", "auditar", "fin", "caida"}]
      /\ llamada \in [Peticion -> Llamada]
      /\ previas \in [Peticion -> SUBSET Peticion]
      /\ cubiertas \subseteq Peticion
  BY DEF IInvContrato, Tipos, TypeOKServicio
<1>4. n \in {"propiedad", "blanca", "buscar"}
  OBVIOUS
<1>5. \A q \in Peticion \ {p} :
        llamada'[q] = llamada[q] /\ paso'[q] = paso[q] /\ previas'[q] = previas[q]
  BY <1>1, <1>3
<1>6. llamada'[p] = l /\ paso'[p] = n /\ previas'[p] = {q \in Peticion : Terminada(q)}
  BY <1>1, <1>3
<1>7. SoloServicio
  BY <1>1, <1>2, <1>5 DEF SoloServicio
<1>8. Tipos'
  BY <1>1, <1>3, <1>4 DEF IInvContrato, Tipos, TypeOKServicio
<1>9. Llamadas'
  <2>1. FasesDeLlamada'
    BY <1>1, <1>2, <1>5, <1>6 DEF IInvContrato, Llamadas, FasesDeLlamada, Bloqueo, IInv,
       InvOrden, ClaveDeLlamada
  <2>2. OrdenDeLlamada' /\ ClavesNuevas'
    BY <1>1, <1>2, <1>5 DEF IInvContrato, Llamadas, OrdenDeLlamada, ClavesNuevas, Bloqueo
  <2>3. ObjetivoAplicado' /\ FilaPropia'
    BY <1>1, <1>2, <1>5, <1>6 DEF IInvContrato, Llamadas, ObjetivoAplicado, FilaPropia, Bloqueo
  <2> QED BY <2>1, <2>2, <2>3 DEF Llamadas
<1>10. Bitacora'
  <2>1. \A q \in Peticion : paso'[q] = "auditar" => paso[q] = "auditar"
    BY <1>4, <1>5, <1>6
  <2>2. \A q \in Peticion : paso[q] # "libre" => paso'[q] = paso[q] /\ llamada'[q] = llamada[q]
    BY <1>1, <1>5
  <2> QED BY <1>1, <1>7, <2>1, <2>2, BitacoraConserva, ServicioConservaRed
<1>11. BlancaVista'
  <2>1. p \notin cubiertas
    BY <1>1 DEF IInvContrato, Historia, BlancaVista
  <2>2. \A q \in cubiertas :
          /\ paso'[q] \in {"propiedad", "blanca", "fin", "caida"}
          /\ clave'[q] = Nada
          /\ \E e \in blanca' : Corresponde(e, llamada'[q].vps, llamada'[q].ip)
    BY <1>1, <1>3, <1>5, <2>1 DEF IInvContrato, Historia, BlancaVista
  <2>3. p \in cubiertas' =>
          /\ paso'[p] \in {"propiedad", "blanca", "fin", "caida"}
          /\ clave'[p] = Nada
          /\ \E e \in blanca' : Corresponde(e, llamada'[p].vps, llamada'[p].ip)
    BY <1>1, <1>2, <1>6, <2>1
  <2>4. \A q \in Peticion :
          paso'[q] = "blanca" => llamada'[q].usuario \in {Nada, Duenio[llamada'[q].vps]}
    BY <1>5, <1>6 DEF IInvContrato, Historia, BlancaVista
  <2> QED BY <2>2, <2>3, <2>4 DEF BlancaVista, Corresponde
<1>12. SinRepetir'
  <2>1. \A q \in Peticion : \A x \in previas'[q] : Terminada(x)' /\ paso'[q] # "libre"
    BY <1>1, <1>3, <1>4, <1>5, <1>6 DEF IInvContrato, Historia, SinRepetir, Terminada
  <2>2. ASSUME NEW x \in Peticion, NEW q \in Peticion, x \in previas'[q], Bloqueo(x)', Bloqueo(q)',
               clave[x] # Nada, clave[q] # Nada \/ paso'[q] = "emitir"
        PROVE  clave[x] \notin Activas(llamada'[q].vps, llamada'[q].ip)
    <3>1. x # p /\ q # p
      BY <1>2, <1>4, <1>6, <2>2
    <3> QED BY <1>5, <2>2, <3>1 DEF IInvContrato, Historia, SinRepetir, Bloqueo
  <2> QED BY <1>1, <2>1, <2>2 DEF SinRepetir, Activas
<1>13. Filas'
  BY <1>1 DEF IInvContrato, Filas, BloqueadoVeraz, BloqueadoTieneRegla, DesbloqueadoConfirmado,
              Emitidas
<1> QED BY <1>7, <1>8, <1>9, <1>10, <1>11, <1>12, <1>13, ServicioConservaRed
        DEF IInvContrato, Historia

\* The audit entry a call may write: of a block, by its estadoFinal once it has its
\* row; of an unblock, by the answer.
Merece(p, a) ==
  \/ a \in {"bloqueo_omitido_whitelist", "desbloqueo_fallido"}
  \/ /\ paso[p] = "auditar" /\ Bloqueo(p)
     /\ a = IF estadoFinal(p) = "BLOQUEADO" THEN "bloqueo_aplicado" ELSE "bloqueo_fallido"
  \/ /\ paso[p] = "auditar" /\ a = "desbloqueo_aplicado"
     /\ respuesta[p] \in {"desbloqueada", "no_existia"}

\* A call goes on without touching the rows, or ends.
Avance(p, n) ==
  /\ UNCHANGED <<varsGateway, firewall, revocadas, llamada, filas, blanca, previas, cubiertas>>
  /\ auditoria' \subseteq [peticion : Peticion, accion : Accion]
  /\ \A e \in auditoria' \ auditoria : e.peticion = p /\ n = "fin" /\ Merece(p, e.accion)
  /\ salida' \in [Peticion -> Salida]
  /\ \A q \in Peticion \ {p} : salida'[q] = salida[q]
  /\ paso' = [paso EXCEPT ![p] = n]
  /\ \/ n = "blanca" /\ paso[p] = "propiedad" /\ llamada[p].usuario = Duenio[llamada[p].vps]
     \/ n = "existente" /\ paso[p] = "blanca" /\ EnBlanca(llamada[p]) = {}
     \/ n = "emitir" /\ paso[p] = "existente" /\ Activas(llamada[p].vps, llamada[p].ip) = {}
     \/ /\ n = "emitir" /\ paso[p] = "buscar"
        /\ filas[llamada[p].objetivo] # Nada
        /\ filas[llamada[p].objetivo].estado = "BLOQUEADO"
     \/ n = "auditar" /\ paso[p] = "respuesta" /\ promesa[p] = "resuelta" /\ ~Bloqueo(p)
     \/ n = "fin" /\ paso[p] \in {"propiedad", "blanca", "existente", "buscar", "auditar"}
     \/ n = "fin" /\ paso[p] = "respuesta" /\ promesa[p] = "resuelta"

\* A call that goes on keeps the invariant.  What a block whose address was
\* whitelisted finds at the whitelist is the entry that was there when it began.
LEMMA AvanceConserva ==
  ASSUME IInvContrato, NEW p \in Peticion, NEW n, Avance(p, n)
  PROVE  IInvContrato'
<1>1. /\ UNCHANGED <<firewall, revocadas, llamada, filas, blanca, previas, cubiertas>>
      /\ UNCHANGED <<promesa, respuesta, clave, tipo>>
      /\ paso' = [paso EXCEPT ![p] = n]
      /\ salida' \in [Peticion -> Salida]
      /\ \A q \in Peticion \ {p} : salida'[q] = salida[q]
  BY DEF Avance, varsGateway, varsOrden
<1>2. /\ paso \in [Peticion -> {"libre", "propiedad", "blanca", "existente", "buscar",
                                "emitir", "respuesta", "auditar", "fin", "caida"}]
      /\ previas \in [Peticion -> SUBSET Peticion]
      /\ cubiertas \subseteq Peticion
  BY DEF IInvContrato, Tipos, TypeOKServicio
<1>3. /\ \A q \in Peticion \ {p} : paso'[q] = paso[q]
      /\ paso'[p] = n
  BY <1>1, <1>2
<1>4. /\ n \in {"blanca", "existente", "emitir", "auditar", "fin"}
      /\ paso[p] \notin {"libre", "fin", "caida", "emitir"}
  BY DEF Avance
<1>5. SoloServicio
  BY <1>1 DEF SoloServicio, Avance
<1>6. Tipos'
  BY <1>1, <1>2, <1>4 DEF IInvContrato, Tipos, TypeOKServicio, Avance
<1>7. Llamadas'
  <2>1. FasesDeLlamada'
    BY <1>1, <1>3 DEF IInvContrato, Llamadas, FasesDeLlamada, Bloqueo, Avance
  <2>2. OrdenDeLlamada' /\ ClavesNuevas'
    BY <1>1 DEF IInvContrato, Llamadas, OrdenDeLlamada, ClavesNuevas, Bloqueo
  <2>3. ObjetivoAplicado'
    BY <1>1, <1>3 DEF IInvContrato, Llamadas, FasesDeLlamada, ObjetivoAplicado, Bloqueo, Avance
  <2>4. FilaPropia'
    <3>1. Bloqueo(p) /\ clave[p] # Nada /\ filas[clave[p]] # Nada => n = "fin"
      BY DEF IInvContrato, Llamadas, FilaPropia, FasesDeLlamada, Avance
    <3> QED BY <1>1, <1>3, <3>1 DEF IInvContrato, Llamadas, FilaPropia, Bloqueo
  <2> QED BY <2>1, <2>2, <2>3, <2>4 DEF Llamadas
<1>8. Bitacora'
  <2>1. ASSUME NEW e \in auditoria' \ auditoria PROVE Asentada(e)'
    <3>1. e.peticion = p /\ n = "fin" /\ Merece(p, e.accion)
      BY DEF Avance
    <3>2. ASSUME e.accion \in {"bloqueo_aplicado", "bloqueo_fallido"}
          PROVE  PorAsentar(p) /\ Bloqueo(p)
      BY <3>1, <3>2 DEF Merece, IInvContrato, Historia, Bitacora
    <3>3. ASSUME e.accion = "bloqueo_aplicado"
          PROVE  Hecha(llamada[p].vps, llamada[p].ip)'
      <4>1. Hecha(llamada[p].vps, llamada[p].ip)
        BY <3>1, <3>3 DEF Merece, estadoFinal, IInvContrato, Mensajes, RespuestasVeraces, Veraz,
                          EstadoRespuesta, EstadoAgente
      <4> QED BY <1>1, <4>1 DEF Hecha, Emitidas
    <3>4. ASSUME e.accion = "desbloqueo_aplicado" PROVE clave[p] \in revocadas
      BY <3>1, <3>4, NadaNoEsRespuesta
         DEF Merece, IInvContrato, Mensajes, RespuestasVeraces, Veraz, EstadoRespuesta,
             EstadoAgente
    <3>5. e.accion \in {"bloqueo_aplicado", "bloqueo_fallido"} =>
            (e.accion = "bloqueo_aplicado" <=> estadoFinal(p) = "BLOQUEADO")
      BY <3>1 DEF Merece
    <3> QED BY <1>1, <1>3, <3>1, <3>2, <3>3, <3>4, <3>5 DEF Asentada, PorAsentar, Bloqueo
  <2>2. \A q \in Peticion : paso'[q] = "auditar" /\ Bloqueo(q)' => paso[q] = "auditar"
    BY <1>1, <1>3 DEF Avance, Bloqueo
  <2>3. \A q \in Peticion : paso[q] = "fin" => paso'[q] = "fin"
    BY <1>3, <1>4
  <2> QED BY <1>1, <1>5, <2>1, <2>2, <2>3, BitacoraConserva, ServicioConservaRed
<1>9. BlancaVista'
  <2>1. CASE p \in cubiertas
    <3>1. n \in {"blanca", "fin"}
      <4>1. SUFFICES ASSUME paso[p] = "blanca" PROVE EnBlanca(llamada[p]) # {}
        BY <1>4, <2>1 DEF IInvContrato, Historia, BlancaVista, Avance
      <4>2. PICK e \in blanca : Corresponde(e, llamada[p].vps, llamada[p].ip)
        BY <2>1 DEF IInvContrato, Historia, BlancaVista
      <4>3. llamada[p].usuario \in {Nada, Duenio[llamada[p].vps]}
        BY <4>1 DEF IInvContrato, Historia, BlancaVista
      <4>4. e \in EnBlanca(llamada[p])
        BY <4>2, <4>3 DEF Corresponde, EnBlanca
      <4> QED BY <4>4
    <3>2. \A q \in Peticion : paso'[q] = "blanca" =>
            llamada[q].usuario \in {Nada, Duenio[llamada[q].vps]}
      BY <1>3 DEF IInvContrato, Historia, BlancaVista, Avance
    <3> QED BY <1>1, <1>2, <1>3, <3>1, <3>2
            DEF IInvContrato, Historia, BlancaVista, Corresponde
  <2>2. CASE p \notin cubiertas
    <3>1. \A q \in Peticion : paso'[q] = "blanca" =>
            llamada[q].usuario \in {Nada, Duenio[llamada[q].vps]}
      BY <1>3 DEF IInvContrato, Historia, BlancaVista, Avance
    <3> QED BY <1>1, <1>2, <1>3, <2>2, <3>1
            DEF IInvContrato, Historia, BlancaVista, Corresponde
  <2> QED BY <2>1, <2>2
<1>10. SinRepetir'
  <2>1. \A q \in Peticion : \A x \in previas[q] : Terminada(x)' /\ paso'[q] # "libre"
    <3>1. ~Terminada(p)
      BY <1>4 DEF Terminada
    <3> QED BY <1>2, <1>3, <1>4, <3>1 DEF IInvContrato, Historia, SinRepetir, Terminada
  <2>2. ASSUME NEW x \in Peticion, NEW q \in Peticion, x \in previas[q], Bloqueo(x), Bloqueo(q),
               clave[x] # Nada, clave[q] # Nada \/ paso'[q] = "emitir"
        PROVE  clave[x] \notin Activas(llamada[q].vps, llamada[q].ip)
    <3>1. CASE q = p /\ n = "emitir"
      <4>1. paso[p] = "existente"
        BY <2>2, <3>1 DEF Avance, IInvContrato, Llamadas, FasesDeLlamada
      <4>2. Activas(llamada[p].vps, llamada[p].ip) = {}
        BY <3>1, <4>1 DEF Avance
      <4> QED BY <3>1, <4>2
    <3>2. CASE ~(q = p /\ n = "emitir")
      BY <1>3, <2>2, <3>2 DEF IInvContrato, Historia, SinRepetir
    <3> QED BY <3>1, <3>2
  <2> QED BY <1>1, <2>1, <2>2 DEF SinRepetir, Activas, Bloqueo
<1>11. Filas'
  BY <1>1 DEF IInvContrato, Filas, BloqueadoVeraz, BloqueadoTieneRegla, DesbloqueadoConfirmado,
              Emitidas
<1> QED BY <1>5, <1>6, <1>7, <1>8, <1>9, <1>10, <1>11, ServicioConservaRed
        DEF IInvContrato, Historia

\* The row of a block is created: under its bloqueoId there was none, and it says
\* BLOQUEADO only if the agent answered that the address is denied.
LEMMA CrearFilaConserva ==
  ASSUME IInvContrato, NEW p \in Peticion, CrearFila(p), UNCHANGED <<firewall, revocadas>>,
         ~(llamada[p].largo /\ respuesta[p] \in {"error", Nada})
  PROVE  IInvContrato'
<1> USE NadaNoEsFila, NadaNoEsRespuesta
<1> DEFINE fila == [vps |-> llamada[p].vps, ip |-> llamada[p].ip, estado |-> EstadoCreado(p)]
           k == clave[p]
<1>1. /\ UNCHANGED <<salida, auditoria, varsGateway, llamada, previas, cubiertas, blanca>>
      /\ UNCHANGED <<promesa, respuesta, clave, tipo>>
      /\ paso[p] = "respuesta" /\ promesa[p] = "resuelta" /\ Bloqueo(p)
      /\ paso' = [paso EXCEPT ![p] = "auditar"]
      /\ filas' = [filas EXCEPT ![k] = fila]
  BY DEF CrearFila, Ir, Bloqueo, varsGateway, varsOrden
<1>2. /\ paso \in [Peticion -> {"libre", "propiedad", "blanca", "existente", "buscar",
                                "emitir", "respuesta", "auditar", "fin", "caida"}]
      /\ filas \in [Clave -> Fila \cup {Nada}]
      /\ previas \in [Peticion -> SUBSET Peticion]
      /\ cubiertas \subseteq Peticion
  BY DEF IInvContrato, Tipos, TypeOKServicio
<1>3. k \in Clave /\ tipo[p] = "bloquear-ip" /\ filas[k] = Nada
  BY <1>1 DEF IInvContrato, IInv, TypeOKGateway, InvOrden, ClaveDeLlamada, Llamadas,
              OrdenDeLlamada, FilaPropia
<1>4. /\ \A q \in Peticion \ {p} : paso'[q] = paso[q]
      /\ paso'[p] = "auditar"
  BY <1>1, <1>2
<1>5. respuesta[p] # Nada => Veraz(p, respuesta[p])
  BY DEF IInvContrato, Mensajes, RespuestasVeraces
<1>6. /\ EstadoCreado(p) \in {"BLOQUEADO", "FALLIDO"}
      /\ EstadoCreado(p) = "BLOQUEADO" =>
           respuesta[p] # Nada /\ Hecha(llamada[p].vps, llamada[p].ip)
  <2>1. CASE respuesta[p] = Nada
    BY <2>1 DEF EstadoCreado, estadoFinal, EstadoRespuesta, EstadoAgente
  <2>2. CASE respuesta[p] # Nada
    BY <1>3, <1>5, <2>2 DEF EstadoCreado, estadoFinal, Veraz
  <2> QED BY <2>1, <2>2
<1>7. llamada[p].vps \in Vps /\ llamada[p].ip \in Ip
  BY <1>1 DEF IInvContrato, Llamadas, FasesDeLlamada
<1>8. fila \in Fila
  BY <1>6, <1>7 DEF Fila
<1>9. /\ filas'[k] = fila /\ fila # Nada
      /\ \A x \in Clave \ {k} : filas'[x] = filas[x]
  BY <1>1, <1>2, <1>3, <1>8
<1>10. fila.vps = llamada[p].vps /\ fila.ip = llamada[p].ip /\ fila.estado = EstadoCreado(p)
  OBVIOUS
<1>11. filas' \in [Clave -> Fila \cup {Nada}]
  BY <1>1, <1>2, <1>8
<1>12. \A q \in Peticion \ {p} : Bloqueo(q) => clave[q] # k
  BY <1>1, <1>3 DEF IInvContrato, Llamadas, ClavesNuevas, IInv, TypeOKGateway, InvOrden,
                    ClaveDeLlamada
<1> HIDE DEF fila, k
<1>13. k = clave[p]
  BY DEF k
<1>14. SoloServicio
  BY <1>1, <1>3, <1>9 DEF SoloServicio
<1>15. Tipos'
  BY <1>1, <1>2, <1>11 DEF IInvContrato, Tipos, TypeOKServicio
<1>16. Llamadas'
  <2>1. FasesDeLlamada'
    BY <1>1, <1>4 DEF IInvContrato, Llamadas, FasesDeLlamada, Bloqueo
  <2>2. OrdenDeLlamada' /\ ClavesNuevas'
    BY <1>1 DEF IInvContrato, Llamadas, OrdenDeLlamada, ClavesNuevas, Bloqueo
  <2>3. ObjetivoAplicado'
    BY <1>1, <1>3, <1>4, <1>9
       DEF IInvContrato, Llamadas, FasesDeLlamada, ObjetivoAplicado, Bloqueo
  <2>4. FilaPropia'
    <3>1. \A x \in Clave : filas'[x] # Nada => \E q \in Peticion : clave'[q] = x
      BY <1>1, <1>9, <1>13 DEF IInvContrato, Llamadas, FilaPropia
    <3>2. ASSUME NEW q \in Peticion, Bloqueo(q), clave[q] # Nada, filas'[clave[q]] # Nada
          PROVE  /\ paso'[q] \in {"auditar", "fin", "caida"}
                 /\ filas'[clave[q]].vps = llamada[q].vps
                 /\ filas'[clave[q]].ip = llamada[q].ip
                 /\ filas'[clave[q]].estado # "FALLIDO" => respuesta[q] # Nada
      <4>1. CASE q = p
        BY <1>4, <1>6, <1>9, <1>10, <1>13, <4>1
      <4>2. CASE q # p
        <5>1. clave[q] \in Clave \ {k}
          BY <1>12, <3>2, <4>2 DEF IInvContrato, IInv, TypeOKGateway
        <5> QED BY <1>4, <1>9, <3>2, <4>2, <5>1 DEF IInvContrato, Llamadas, FilaPropia
      <4> QED BY <4>1, <4>2
    <3> QED BY <1>1, <3>1, <3>2 DEF FilaPropia, Bloqueo
  <2> QED BY <2>1, <2>2, <2>3, <2>4 DEF Llamadas
<1>17. Bitacora'
  <2>1. PorAsentar(p)'
    <3>1. EstadoCreado(p) = "FALLIDO" <=> estadoFinal(p) # "BLOQUEADO"
      <4>1. CASE respuesta[p] = Nada
        BY <4>1 DEF EstadoCreado, estadoFinal, EstadoRespuesta, EstadoAgente
      <4>2. CASE respuesta[p] # Nada
        BY <1>3, <1>5, <4>2 DEF EstadoCreado, estadoFinal, Veraz
      <4> QED BY <4>1, <4>2
    <3> QED BY <1>1, <1>3, <1>9, <1>10, <1>13, <3>1 DEF PorAsentar, estadoFinal
  <2>2. \A q \in Peticion : paso[q] = "fin" => paso'[q] = "fin"
    BY <1>1, <1>4
  <2>3. \A q \in Peticion : paso'[q] = "auditar" => q = p \/ paso[q] = "auditar"
    BY <1>4
  <2>4. \A x \in Clave : filas[x] # Nada => filas'[x] = filas[x]
    BY <1>3, <1>9
  <2> QED BY <1>1, <1>14, <2>1, <2>2, <2>3, <2>4, BitacoraConserva, ServicioConservaRed
<1>18. BlancaVista'
  BY <1>1, <1>2, <1>4 DEF IInvContrato, Historia, BlancaVista, Corresponde
<1>19. SinRepetir'
  <2>1. \A q \in Peticion : \A x \in previas[q] : Terminada(x)' /\ paso'[q] # "libre"
    BY <1>1, <1>2, <1>4 DEF IInvContrato, Historia, SinRepetir, Terminada
  <2>2. ASSUME NEW x \in Peticion, NEW q \in Peticion, x \in previas[q], Bloqueo(x), Bloqueo(q),
               clave[x] # Nada, clave[q] # Nada \/ paso'[q] = "emitir"
        PROVE  clave[x] \notin Activas(llamada[q].vps, llamada[q].ip)'
    <3>1. x # p
      BY <1>1, <2>2 DEF IInvContrato, Historia, SinRepetir, Terminada
    <3>2. clave[x] \in Clave \ {k}
      BY <1>12, <2>2, <3>1 DEF IInvContrato, IInv, TypeOKGateway
    <3>3. clave[q] # Nada \/ paso[q] = "emitir"
      BY <1>4, <2>2
    <3>4. clave[x] \notin Activas(llamada[q].vps, llamada[q].ip)
      BY <2>2, <3>3 DEF IInvContrato, Historia, SinRepetir
    <3> QED BY <1>1, <1>9, <3>2, <3>4 DEF Activas
  <2> QED BY <1>1, <2>1, <2>2 DEF SinRepetir, Activas, Bloqueo
<1>20. Filas'
  <2>1. DesbloqueadoConfirmado'
    BY <1>1, <1>6, <1>9, <1>10, <1>3 DEF IInvContrato, Filas, DesbloqueadoConfirmado
  <2>2. ASSUME NEW x \in Clave, filas'[x] # Nada, filas'[x].estado = "BLOQUEADO"
        PROVE  Hecha(filas[x].vps, filas[x].ip)'
    <3>1. CASE x = k
      <4>1. Hecha(filas[x].vps, filas[x].ip)' <=>
              \E a, b : a = llamada[p].vps /\ b = llamada[p].ip /\ Hecha(a, b)'
        BY <1>9, <1>10, <3>1 DEF Hecha
      <4>2. Hecha(llamada[p].vps, llamada[p].ip)
        BY <1>6, <1>9, <1>10, <2>2, <3>1
      <4>3. \A q \in Emitidas("desbloquear-ip") : clave[q] \in Clave \ {k}
        BY <1>3, <1>9 DEF Emitidas, IInvContrato, IInv, TypeOKGateway, Llamadas, OrdenDeLlamada,
                          ObjetivoAplicado
      <4>4. \A a, b : Hecha(a, b) => Hecha(a, b)'
        BY <1>1, <1>9, <4>3 DEF Hecha, Emitidas
      <4> QED BY <4>1, <4>2, <4>4
    <3>2. CASE x # k
      <4>1. filas[x] # Nada /\ Hecha(filas[x].vps, filas[x].ip)
        BY <1>9, <2>2, <3>2
           DEF IInvContrato, Filas, BloqueadoVeraz, BloqueadoTieneRegla, Hecha
      <4> QED BY <1>14, <4>1, ServicioConservaRed
    <3> QED BY <3>1, <3>2
  <2> QED BY <2>1, <2>2 DEF Filas, BloqueadoVeraz, BloqueadoTieneRegla, Hecha
<1> QED BY <1>14, <1>15, <1>16, <1>17, <1>18, <1>19, <1>20, ServicioConservaRed
        DEF IInvContrato, Historia

\* An unblock changes the row it is for once the agent confirmed it.
LEMMA ConcluirConserva ==
  ASSUME IInvContrato, NEW p \in Peticion, ConcluirDesbloqueo(p),
         UNCHANGED <<firewall, revocadas>>,
         respuesta[p] \in {"desbloqueada", "no_existia"}
  PROVE  IInvContrato'
<1> USE NadaNoEsFila, NadaNoEsRespuesta
<1> DEFINE k == llamada[p].objetivo
<1>1. /\ UNCHANGED <<salida, auditoria, varsGateway, llamada, previas, cubiertas, blanca>>
      /\ UNCHANGED <<promesa, respuesta, clave, tipo>>
      /\ paso[p] = "respuesta" /\ promesa[p] = "resuelta" /\ llamada[p].op = "desbloqueo"
      /\ paso' = [paso EXCEPT ![p] = "auditar"]
      /\ filas' = [filas EXCEPT ![k].estado = "DESBLOQUEADO"]
  BY DEF ConcluirDesbloqueo, Ir, varsGateway, varsOrden
<1>2. /\ paso \in [Peticion -> {"libre", "propiedad", "blanca", "existente", "buscar",
                                "emitir", "respuesta", "auditar", "fin", "caida"}]
      /\ filas \in [Clave -> Fila \cup {Nada}]
      /\ previas \in [Peticion -> SUBSET Peticion]
      /\ cubiertas \subseteq Peticion
  BY DEF IInvContrato, Tipos, TypeOKServicio
<1>3. /\ k \in Clave /\ clave[p] = k /\ ~Bloqueo(p)
      /\ filas[k] \in Fila /\ filas[k].estado # "FALLIDO"
  BY <1>1, <1>2 DEF IInvContrato, IInv, TypeOKGateway, InvOrden, ClaveDeLlamada, Llamadas,
                    OrdenDeLlamada, ObjetivoAplicado, Bloqueo
<1>4. k \in revocadas
  BY <1>3 DEF IInvContrato, Mensajes, RespuestasVeraces, Veraz, EstadoRespuesta, EstadoAgente
<1>5. /\ \A q \in Peticion \ {p} : paso'[q] = paso[q]
      /\ paso'[p] = "auditar"
  BY <1>1, <1>2
<1>6. /\ filas'[k] \in Fila
      /\ filas'[k].vps = filas[k].vps /\ filas'[k].ip = filas[k].ip
      /\ filas'[k].estado = "DESBLOQUEADO"
      /\ \A x \in Clave \ {k} : filas'[x] = filas[x]
  BY <1>1, <1>2, <1>3 DEF Fila
<1>7. filas' \in [Clave -> Fila \cup {Nada}]
  BY <1>1, <1>2, <1>6
<1> HIDE DEF k
<1>8. SoloServicio
  BY <1>1, <1>3, <1>6 DEF SoloServicio
<1>9. Tipos'
  BY <1>1, <1>2, <1>7 DEF IInvContrato, Tipos, TypeOKServicio
<1>10. Llamadas'
  <2>1. FasesDeLlamada'
    BY <1>1, <1>3, <1>5 DEF IInvContrato, Llamadas, FasesDeLlamada, Bloqueo
  <2>2. OrdenDeLlamada' /\ ClavesNuevas'
    BY <1>1 DEF IInvContrato, Llamadas, OrdenDeLlamada, ClavesNuevas, Bloqueo
  <2>3. ObjetivoAplicado'
    BY <1>1, <1>5, <1>6 DEF IInvContrato, Llamadas, FasesDeLlamada, ObjetivoAplicado, Bloqueo
  <2>4. FilaPropia'
    <3>1. \A x \in Clave : filas'[x] # Nada => filas[x] # Nada
      BY <1>3, <1>6
    <3>2. \A x \in Clave : filas[x] # Nada =>
            /\ filas'[x].vps = filas[x].vps /\ filas'[x].ip = filas[x].ip
            /\ filas'[x].estado # "FALLIDO" => filas[x].estado # "FALLIDO"
      BY <1>3, <1>6
    <3>3. \A q \in Peticion : clave[q] # Nada => clave[q] \in Clave
      BY DEF IInvContrato, IInv, TypeOKGateway
    <3> QED BY <1>1, <1>3, <1>5, <3>1, <3>2, <3>3 DEF IInvContrato, Llamadas, FilaPropia, Bloqueo
  <2> QED BY <2>1, <2>2, <2>3, <2>4 DEF Llamadas
<1>11. Bitacora'
  <2>1. \A q \in Peticion : paso[q] = "fin" => paso'[q] = "fin"
    BY <1>1, <1>5
  <2>2. \A q \in Peticion : paso'[q] = "auditar" /\ Bloqueo(q)' => paso[q] = "auditar"
    BY <1>1, <1>3, <1>5 DEF Bloqueo
  <2>3. \A x \in Clave : filas[x] # Nada =>
          filas'[x] # Nada /\ (filas'[x].estado = "FALLIDO" <=> filas[x].estado = "FALLIDO")
    BY <1>3, <1>6
  <2> QED BY <1>1, <1>8, <2>1, <2>2, <2>3, BitacoraConserva, ServicioConservaRed
<1>12. BlancaVista'
  BY <1>1, <1>2, <1>5 DEF IInvContrato, Historia, BlancaVista, Corresponde
<1>13. SinRepetir'
  <2>1. \A q \in Peticion : \A x \in previas[q] : Terminada(x)' /\ paso'[q] # "libre"
    BY <1>1, <1>2, <1>5 DEF IInvContrato, Historia, SinRepetir, Terminada
  <2>2. \A v, ip : Activas(v, ip)' \subseteq Activas(v, ip)
    BY <1>6 DEF Activas
  <2>3. ASSUME NEW x \in Peticion, NEW q \in Peticion, x \in previas[q], Bloqueo(x), Bloqueo(q),
               clave[x] # Nada, clave[q] # Nada \/ paso'[q] = "emitir"
        PROVE  clave[x] \notin Activas(llamada[q].vps, llamada[q].ip)'
    <3>1. clave[q] # Nada \/ paso[q] = "emitir"
      BY <1>5, <2>3
    <3>2. clave[x] \notin Activas(llamada[q].vps, llamada[q].ip)
      BY <2>3, <3>1 DEF IInvContrato, Historia, SinRepetir
    <3>3. \A v, ip : v = llamada[q].vps /\ ip = llamada[q].ip => clave[x] \notin Activas(v, ip)'
      BY <2>2, <3>2
    <3> QED BY <1>1, <3>3 DEF Activas
  <2> QED BY <1>1, <2>1, <2>3 DEF SinRepetir, Activas, Bloqueo
<1>14. Filas'
  <2>1. DesbloqueadoConfirmado'
    BY <1>1, <1>4, <1>6 DEF IInvContrato, Filas, DesbloqueadoConfirmado
  <2>2. ASSUME NEW x \in Clave, filas'[x] # Nada, filas'[x].estado = "BLOQUEADO"
        PROVE  Hecha(filas[x].vps, filas[x].ip)'
    <3>1. filas[x] # Nada /\ Hecha(filas[x].vps, filas[x].ip)
      BY <1>6, <2>2 DEF IInvContrato, Filas, BloqueadoVeraz, BloqueadoTieneRegla, Hecha
    <3> QED BY <1>8, <3>1, ServicioConservaRed
  <2> QED BY <2>1, <2>2 DEF Filas, BloqueadoVeraz, BloqueadoTieneRegla, Hecha
<1> QED BY <1>8, <1>9, <1>10, <1>11, <1>12, <1>13, <1>14, ServicioConservaRed
        DEF IInvContrato, Historia

\* An order is given: of a block, under a bloqueoId nobody has; of an unblock, under
\* the id of the row it is for and to the VPS of that row.
LEMMA EmitirConserva ==
  ASSUME IInvContrato, NEW p \in Peticion, NEW v \in Vps, NEW k \in Clave, NEW e \in Evento,
         enviarOrden(p, v, k, e), Ir(p, "respuesta"), paso[p] = "emitir",
         UNCHANGED <<salida, filas, auditoria, firewall, revocadas>>,
         \/ /\ Bloqueo(p) /\ e = "bloquear-ip" /\ v = llamada[p].vps
            /\ \A q \in Peticion : clave[q] # k
         \/ ~Bloqueo(p) /\ e = "desbloquear-ip" /\ k = llamada[p].objetivo /\ v = filas[k].vps
  PROVE  IInvContrato'
<1> USE GatewayConstantes
<1>1. IInv'
  BY EnviarConserva DEF IInvContrato
<1>2. /\ UNCHANGED <<llamada, salida, filas, blanca, previas, cubiertas, firewall, revocadas>>
      /\ UNCHANGED <<conexiones, cabecera, enlace, respuesta, vuelta>>
      /\ promesa[p] = "libre"
  BY DEF enviarOrden, Ir, varsConexion
<1>3. /\ paso \in [Peticion -> {"libre", "propiedad", "blanca", "existente", "buscar",
                                "emitir", "respuesta", "auditar", "fin", "caida"}]
      /\ previas \in [Peticion -> SUBSET Peticion]
      /\ cubiertas \subseteq Peticion
      /\ clave \in [Peticion -> Clave \cup {Nada}]
      /\ tipo \in [Peticion -> Evento]
      /\ promesa \in [Peticion -> {"libre", "espera", "resuelta", "perdida"}]
  BY DEF IInvContrato, Tipos, TypeOKServicio, IInv, TypeOKGateway
<1>4. /\ clave[p] = Nada /\ respuesta[p] = Nada
      /\ \A m \in ida \cup vuelta : m.peticion # p
  BY <1>2 DEF IInvContrato, IInv, InvOrden, ClaveDeLlamada, MensajeDeLlamada, Mensajes,
              AtendidaSinMensaje
<1>5. /\ paso'[p] = "respuesta" /\ clave'[p] = k /\ tipo'[p] = e
      /\ promesa'[p] \in {"espera", "resuelta"}
      /\ \A q \in Peticion \ {p} :
           /\ paso'[q] = paso[q] /\ clave'[q] = clave[q] /\ tipo'[q] = tipo[q]
           /\ promesa'[q] = promesa[q]
  BY <1>3 DEF enviarOrden, Ir
<1>6. /\ ida \subseteq ida'
      /\ \A m \in ida' \ ida :
           m.peticion = p /\ m.socket = conexiones[v] /\ conexiones[v] # Nada
           /\ enlace[m.socket] = "abierto"
      /\ \A m, n \in ida' \ ida : m = n
  BY DEF enviarOrden
<1>7. k # Nada /\ filas[k] # Nada => ~Bloqueo(p)
  BY DEF IInvContrato, Llamadas, FilaPropia
<1>8. ~Bloqueo(p) => filas[k] # Nada /\ filas[k].estado # "FALLIDO"
  BY DEF IInvContrato, Llamadas, ObjetivoAplicado
<1>9. Tipos'
  BY <1>2, <1>3 DEF IInvContrato, Tipos, TypeOKServicio, Ir
<1>10. Llamadas'
  <2>1. FasesDeLlamada'
    BY <1>2, <1>5 DEF IInvContrato, Llamadas, FasesDeLlamada, Bloqueo
  <2>2. OrdenDeLlamada'
    BY <1>2, <1>5 DEF IInvContrato, Llamadas, OrdenDeLlamada, Bloqueo
  <2>3. ClavesNuevas'
    BY <1>2, <1>5 DEF IInvContrato, Llamadas, ClavesNuevas, Bloqueo
  <2>4. ObjetivoAplicado'
    BY <1>2, <1>5 DEF IInvContrato, Llamadas, ObjetivoAplicado, Bloqueo
  <2>5. FilaPropia'
    <3>1. \A x \in Clave : filas[x] # Nada => \E q \in Peticion : clave'[q] = x
      BY <1>4, <1>5 DEF IInvContrato, Llamadas, FilaPropia
    <3> QED BY <1>2, <1>5, <1>7, <3>1 DEF IInvContrato, Llamadas, FilaPropia, Bloqueo
  <2> QED BY <2>1, <2>2, <2>3, <2>4, <2>5 DEF Llamadas
<1>11. Mensajes'
  <2>1. UnMensaje'
    BY <1>2, <1>4, <1>6 DEF IInvContrato, Mensajes, UnMensaje
  <2>2. AtendidaSinMensaje'
    BY <1>2, <1>4, <1>5, <1>6 DEF IInvContrato, Mensajes, AtendidaSinMensaje
  <2>3. \A q \in Peticion \ {p} : Destino(q)' = Destino(q)
    BY <1>2, <1>5 DEF Destino
  <2>4. Destino(p)' = v
    BY <1>2, <1>5 DEF Destino
  <2>5. RutaPropia'
    <3>1. \A m \in ida : m.peticion \in Peticion \ {p}
      BY <1>4 DEF IInvContrato, IInv, TypeOKGateway, Ida
    <3>2. ASSUME NEW m \in ida'
          PROVE  enlace'[m.socket] # "nuevo" /\ cabecera'[m.socket] = Destino(m.peticion)'
      <4>1. CASE m \in ida
        BY <1>2, <2>3, <3>1, <4>1 DEF IInvContrato, Mensajes, RutaPropia
      <4>2. CASE m \notin ida
        BY <1>2, <1>6, <2>4, <3>2, <4>2 DEF IInvContrato, Mensajes, RutaPropia
      <4> QED BY <4>1, <4>2
    <3> QED BY <1>2, <3>2 DEF IInvContrato, Mensajes, RutaPropia
  <2>6. RespuestasVeraces'
    <3>1. \A n \in vuelta : n.peticion \in Peticion \ {p}
      BY <1>4 DEF IInvContrato, IInv, TypeOKGateway, Vuelta
    <3>2. \A a, b : Hecha(a, b) => Hecha(a, b)'
      BY <1>2, <1>4, <1>5 DEF Hecha, Emitidas
    <3>3. ASSUME NEW q \in Peticion \ {p}, NEW r, Veraz(q, r) PROVE Veraz(q, r)'
      <4>1. Hecha(llamada[q].vps, llamada[q].ip) => Hecha(llamada[q].vps, llamada[q].ip)'
        <5>1. Hecha(llamada[q].vps, llamada[q].ip)' <=>
                \E x, y : x = llamada[q].vps /\ y = llamada[q].ip /\ Hecha(x, y)'
          BY <1>2 DEF Hecha
        <5> QED BY <3>2, <5>1
      <4> QED BY <1>2, <1>5, <3>3, <4>1 DEF Veraz
    <3>4. ASSUME NEW n \in vuelta PROVE Veraz(n.peticion, n.estado)'
      BY <3>1, <3>3 DEF IInvContrato, Mensajes, RespuestasVeraces
    <3>5. ASSUME NEW q \in Peticion, respuesta[q] # Nada PROVE Veraz(q, respuesta[q])'
      <4>1. \A r : r = respuesta[q] => Veraz(q, r)'
        BY <1>4, <3>3, <3>5 DEF IInvContrato, Mensajes, RespuestasVeraces
      <4> QED BY <1>2, <4>1 DEF Veraz
    <3> QED BY <1>2, <3>4, <3>5 DEF RespuestasVeraces
  <2> QED BY <2>1, <2>2, <2>5, <2>6 DEF Mensajes
<1>12. Bitacora'
  <2>1. \A a, b : Hecha(a, b) => Hecha(a, b)'
    BY <1>2, <1>4, <1>5 DEF Hecha, Emitidas
  <2>2. \A q \in Peticion : paso[q] = "fin" => paso'[q] = "fin"
    BY <1>5
  <2>3. \A q \in Peticion : paso'[q] = "auditar" => paso[q] = "auditar"
    BY <1>5
  <2>4. \A q \in Peticion : clave[q] # Nada => clave'[q] = clave[q]
    BY <1>4, <1>5
  <2> QED BY <1>2, <2>1, <2>2, <2>3, <2>4, BitacoraConserva
<1>13. BlancaVista'
  <2>1. p \notin cubiertas
    BY DEF IInvContrato, Historia, BlancaVista
  <2> QED BY <1>2, <1>3, <1>5, <2>1 DEF IInvContrato, Historia, BlancaVista, Corresponde
<1>14. SinRepetir'
  <2>1. \A q \in Peticion : \A x \in previas[q] : Terminada(x)' /\ paso'[q] # "libre"
    BY <1>2, <1>3, <1>5 DEF IInvContrato, Historia, SinRepetir, Terminada
  <2>2. ASSUME NEW x \in Peticion, NEW q \in Peticion, x \in previas[q], Bloqueo(x), Bloqueo(q),
               clave'[x] # Nada, clave'[q] # Nada \/ paso'[q] = "emitir"
        PROVE  clave'[x] \notin Activas(llamada[q].vps, llamada[q].ip)
    <3>1. x # p
      BY <2>2 DEF IInvContrato, Historia, SinRepetir, Terminada
    <3>2. clave[q] # Nada \/ paso[q] = "emitir"
      BY <1>5, <2>2
    <3> QED BY <1>5, <2>2, <3>1, <3>2 DEF IInvContrato, Historia, SinRepetir
  <2> QED BY <1>2, <2>1, <2>2 DEF SinRepetir, Activas, Bloqueo
<1>15. Filas'
  <2>1. \A a, b : Hecha(a, b) => Hecha(a, b)'
    BY <1>2, <1>4, <1>5 DEF Hecha, Emitidas
  <2>2. DesbloqueadoConfirmado'
    BY <1>2 DEF IInvContrato, Filas, DesbloqueadoConfirmado
  <2>3. ASSUME NEW x \in Clave, filas[x] # Nada, filas[x].estado = "BLOQUEADO"
        PROVE  Hecha(filas[x].vps, filas[x].ip)'
    <3>1. Hecha(filas[x].vps, filas[x].ip)' <=>
            \E a, b : a = filas[x].vps /\ b = filas[x].ip /\ Hecha(a, b)'
      BY <1>2 DEF Hecha
    <3> QED BY <2>1, <2>3, <3>1
            DEF IInvContrato, Filas, BloqueadoVeraz, BloqueadoTieneRegla, Hecha
  <2> QED BY <1>2, <2>2, <2>3 DEF Filas, BloqueadoVeraz, BloqueadoTieneRegla, Hecha
<1> QED BY <1>1, <1>9, <1>10, <1>11, <1>12, <1>13, <1>14, <1>15 DEF IInvContrato, Historia

\* An address is whitelisted, or an entry removed: a call whose address is no longer
\* covered is not counted any more.
LEMMA BlancaConserva ==
  ASSUME IInvContrato, NEW e \in Entrada, AgregarBlanca(e) \/ QuitarBlanca(e),
         UNCHANGED <<firewall, revocadas>>
  PROVE  IInvContrato'
<1>1. /\ UNCHANGED <<paso, llamada, salida, filas, auditoria, previas, varsGateway>>
      /\ UNCHANGED <<promesa, respuesta, clave, tipo, firewall, revocadas>>
      /\ blanca' \subseteq blanca \cup {e}
      /\ cubiertas' \subseteq cubiertas
      /\ \/ blanca \subseteq blanca'
         \/ \A p \in cubiertas' :
              \E f \in blanca' : Corresponde(f, llamada[p].vps, llamada[p].ip)
  BY DEF AgregarBlanca, QuitarBlanca, varsGateway, varsOrden
<1>2. SoloServicio
  BY <1>1 DEF SoloServicio
<1>3. Tipos'
  BY <1>1 DEF IInvContrato, Tipos, TypeOKServicio
<1>4. Llamadas'
  BY <1>1 DEF IInvContrato, Llamadas, FasesDeLlamada, OrdenDeLlamada, ObjetivoAplicado,
              ClavesNuevas, FilaPropia, Bloqueo
<1>5. Historia'
  <2>1. SinRepetir'
    BY <1>1 DEF IInvContrato, Historia, SinRepetir, Terminada, Bloqueo, Activas
  <2>2. Bitacora'
    BY <1>1, BitacoraIgual
  <2>3. BlancaVista'
    BY <1>1 DEF IInvContrato, Historia, BlancaVista, Corresponde
  <2> QED BY <2>1, <2>2, <2>3 DEF Historia
<1>6. Filas'
  BY <1>1 DEF IInvContrato, Filas, BloqueadoVeraz, BloqueadoTieneRegla, DesbloqueadoConfirmado,
              Emitidas
<1> QED BY <1>2, <1>3, <1>4, <1>5, <1>6, ServicioConservaRed DEF IInvContrato

\* The steps of a call.
LEMMA PasoLlamadaConserva ==
  ASSUME IInvContrato, NEW p \in Peticion, PasoLlamada(p), UNCHANGED <<firewall, revocadas>>
  PROVE  IInvContrato'
<1>0. /\ salida \in [Peticion -> Salida]
      /\ auditoria \subseteq [peticion : Peticion, accion : Accion]
      /\ filas \in [Clave -> Fila \cup {Nada}]
  BY DEF IInvContrato, Tipos, TypeOKServicio
<1>1. ASSUME NEW a \in Accion, Registrar(p, a)
      PROVE  /\ auditoria' \subseteq [peticion : Peticion, accion : Accion]
             /\ \A e \in auditoria' \ auditoria : e.peticion = p /\ e.accion = a
  BY <1>0, <1>1 DEF Registrar
<1>2. ASSUME NEW x \in Salida, Acabar(p, x)
      PROVE  /\ salida' \in [Peticion -> Salida] /\ salida'[p] = x
             /\ \A q \in Peticion \ {p} : salida'[q] = salida[q]
             /\ paso' = [paso EXCEPT ![p] = "fin"]
             /\ UNCHANGED <<llamada, previas, cubiertas, blanca>>
  BY <1>0, <1>2 DEF Acabar, Ir
<1>3. CASE ComprobarPropiedad(p)
  <2>1. Avance(p, "blanca") \/ Avance(p, "fin")
    BY <1>0, <1>2, <1>3 DEF ComprobarPropiedad, Avance, Ir, Salida
  <2> QED BY <2>1, AvanceConserva
<1>4. CASE ConsultarBlanca(p)
  <2>1. Avance(p, "existente") \/ Avance(p, "fin")
    BY <1>0, <1>1, <1>2, <1>4 DEF ConsultarBlanca, Avance, Merece, Ir, Salida, Accion
  <2> QED BY <2>1, AvanceConserva
<1>5. CASE ConsultarExistente(p)
  <2>1. Avance(p, "emitir") \/ Avance(p, "fin")
    BY <1>0, <1>2, <1>5 DEF ConsultarExistente, Avance, Ir, Salida
  <2> QED BY <2>1, AvanceConserva
<1>6. ASSUME NEW k \in Clave, EmitirBloqueo(p, k) PROVE IInvContrato'
  <2>1. llamada[p].vps \in Vps
    BY <1>6 DEF EmitirBloqueo, IInvContrato, Llamadas, FasesDeLlamada, Bloqueo
  <2> QED BY <1>6, <2>1, EmitirConserva DEF EmitirBloqueo, Evento, Bloqueo
<1>7. CASE CrearFila(p)
  <2>1. CASE llamada[p].largo /\ respuesta[p] \in {"error", Nada}
    <3>1. Avance(p, "fin")
      BY <1>0, <1>2, <1>7, <2>1 DEF CrearFila, Avance, Salida
    <3> QED BY <3>1, AvanceConserva
  <2>2. CASE ~(llamada[p].largo /\ respuesta[p] \in {"error", Nada})
    BY <1>7, <2>2, CrearFilaConserva
  <2> QED BY <2>1, <2>2
<1>8. CASE AuditarBloqueo(p) \/ AuditarDesbloqueo(p)
  <2>1. Avance(p, "fin")
    <3>1. CASE AuditarBloqueo(p)
      BY <1>1, <1>2, <3>1 DEF AuditarBloqueo, Avance, Merece, Bloqueo, Salida, Accion
    <3>2. CASE AuditarDesbloqueo(p)
      BY <1>1, <1>2, <3>2 DEF AuditarDesbloqueo, Avance, Merece, Salida, Accion
    <3> QED BY <1>8, <3>1, <3>2
  <2> QED BY <2>1, AvanceConserva
<1>9. CASE BuscarBloqueo(p)
  <2>1. Avance(p, "emitir") \/ Avance(p, "fin")
    BY <1>0, <1>2, <1>9 DEF BuscarBloqueo, Avance, Ir, Salida
  <2> QED BY <2>1, AvanceConserva
<1>10. CASE EmitirDesbloqueo(p)
  <2>1. /\ ~Bloqueo(p) /\ llamada[p].objetivo \in Clave
        /\ filas[llamada[p].objetivo] \in Fila
    BY <1>0, <1>10
       DEF EmitirDesbloqueo, IInvContrato, Llamadas, FasesDeLlamada, ObjetivoAplicado, Bloqueo
  <2>2. filas[llamada[p].objetivo].vps \in Vps
    BY <2>1 DEF Fila
  <2> QED BY <1>10, <2>1, <2>2, EmitirConserva DEF EmitirDesbloqueo, Evento
<1>11. CASE ConcluirDesbloqueo(p)
  <2>1. CASE respuesta[p] \in {"desbloqueada", "no_existia"}
    BY <1>11, <2>1, ConcluirConserva
  <2>2. CASE respuesta[p] \notin {"desbloqueada", "no_existia"}
    <3>1. Avance(p, "auditar")
      BY <1>0, <1>11, <2>2 DEF ConcluirDesbloqueo, Avance, Ir, Bloqueo
    <3> QED BY <3>1, AvanceConserva
  <2> QED BY <2>1, <2>2
<1> QED BY <1>3, <1>4, <1>5, <1>6, <1>7, <1>8, <1>9, <1>10, <1>11 DEF PasoLlamada

\* A request comes in, of a user or of an alert.
LEMMA LlegadaConserva ==
  ASSUME IInvContrato, Llegada, UNCHANGED <<firewall, revocadas>>
  PROVE  IInvContrato'
<1> USE BloqueosConstantes, GatewayConstantes
<1>1. ASSUME NEW p \in Peticion, NEW v \in Vps, NEW ip \in Ip, NEW u \in Usuario \cup {Nada},
             NEW largo \in BOOLEAN, LlamarBloqueo(p, v, ip, u, largo)
      PROVE  IInvContrato'
  <2> DEFINE l == [SinLlamada EXCEPT !.vps = v, !.ip = ip, !.usuario = u, !.largo = largo]
             n == IF u = Nada THEN "blanca" ELSE "propiedad"
  <2>1. /\ l \in Llamada /\ l.op = "bloqueo" /\ l.vps = v /\ l.ip = ip /\ l.usuario = u
    BY DEF SinLlamada, Llamada
  <2>2. /\ Comenzar(p, l, n)
        /\ cubiertas' = IF \E e \in blanca : Corresponde(e, v, ip)
                          THEN cubiertas \cup {p} ELSE cubiertas
    BY <1>1 DEF LlamarBloqueo
  <2> HIDE DEF l
  <2>3. n = IF l.usuario = Nada THEN "blanca" ELSE "propiedad"
    BY <2>1
  <2> HIDE DEF n
  <2>4. p \in cubiertas' \ cubiertas => \E e \in blanca : Corresponde(e, l.vps, l.ip)
    BY <2>1, <2>2
  <2> QED BY <2>1, <2>2, <2>3, <2>4, ComenzarConserva
<1>2. ASSUME NEW p \in Peticion, NEW k \in Clave, NEW u \in Usuario, LlamarDesbloqueo(p, k, u)
      PROVE  IInvContrato'
  <2> DEFINE l == [SinLlamada EXCEPT !.op = "desbloqueo", !.objetivo = k, !.usuario = u]
  <2>1. l \in Llamada /\ l.op = "desbloqueo" /\ l.objetivo = k
    BY DEF SinLlamada, Llamada
  <2>2. Comenzar(p, l, "buscar") /\ cubiertas' = cubiertas
    BY <1>2 DEF LlamarDesbloqueo
  <2> HIDE DEF l
  <2> QED BY <2>1, <2>2, ComenzarConserva
<1> QED BY <1>1, <1>2 DEF Llegada

\* Every step of the server and of the agent keeps the invariant.
LEMMA InduccionContrato == IInvContrato /\ [Next]_varsContrato => IInvContrato'
<1> SUFFICES ASSUME IInvContrato, [Next]_varsContrato PROVE IInvContrato'
  OBVIOUS
<1>1. CASE PasoServidor /\ UNCHANGED <<firewall, revocadas>>
  <2>1. CASE Llegada
    BY <1>1, <2>1, LlegadaConserva
  <2>2. CASE \E p \in Peticion : PasoLlamada(p)
    BY <1>1, <2>2, PasoLlamadaConserva
  <2>3. CASE \E e \in Entrada : AgregarBlanca(e) \/ QuitarBlanca(e)
    BY <1>1, <2>3, BlancaConserva
  <2>4. CASE PasoConexion /\ UNCHANGED varsServicio
    BY <1>1, <2>4, ConexionConserva DEF ServicioIgual
  <2>5. CASE PasoOrden /\ UNCHANGED varsServicio
    BY <1>1, <2>5, VencerConservaContrato, ResolverConservaContrato DEF ServicioIgual, PasoOrden
  <2>6. CASE Reiniciar
    BY <1>1, <2>6, ReiniciarConservaContrato
  <2> QED BY <1>1, <2>1, <2>2, <2>3, <2>4, <2>5, <2>6 DEF PasoServidor
<1>2. CASE \E m \in ida, s \in Socket : Atender(m, s)
  BY <1>2, AtenderConserva
<1>3. CASE UNCHANGED varsContrato
  <2>1. UNCHANGED <<varsGateway, varsServicio, firewall, revocadas>>
    BY <1>3 DEF varsContrato, varsBloqueos
  <2>2. /\ UNCHANGED <<paso, llamada, salida, filas, auditoria, blanca, previas, cubiertas>>
        /\ UNCHANGED <<promesa, respuesta, clave, tipo, firewall, revocadas>>
    BY <2>1 DEF varsServicio, varsGateway, varsOrden
  <2>3. SoloServicio
    BY <2>1, <2>2 DEF SoloServicio
  <2>4. Tipos'
    BY <2>2 DEF IInvContrato, Tipos, TypeOKServicio
  <2>5. Llamadas'
    BY <2>2 DEF IInvContrato, Llamadas, FasesDeLlamada, OrdenDeLlamada, ObjetivoAplicado,
                ClavesNuevas, FilaPropia, Bloqueo
  <2>6. Historia'
    <3>1. Bitacora'
      BY <2>2, BitacoraIgual
    <3> QED BY <2>2, <3>1 DEF IInvContrato, Historia, SinRepetir, BlancaVista, Corresponde,
                              Terminada, Bloqueo, Activas
  <2>7. Filas'
    BY <2>2 DEF IInvContrato, Filas, BloqueadoVeraz, BloqueadoTieneRegla,
                DesbloqueadoConfirmado, Emitidas
  <2> QED BY <2>3, <2>4, <2>5, <2>6, <2>7, ServicioConservaRed DEF IInvContrato
<1> QED BY <1>1, <1>2, <1>3 DEF Next

\* The inductive invariant of the block service over a conforming agent: the phases
\* and bloqueoIds of the calls, the rows, the messages and the firewall keep one
\* another true.
THEOREM InvarianteContrato == Spec => []IInvContrato
BY InicioContrato, InduccionContrato, PTL DEF Spec

\* Tables, calls, messages and the firewall keep their types.
THEOREM TiposContrato == Spec => []TypeOK
<1>1. IInvContrato => TypeOK
  BY DEF IInvContrato, IInv, Tipos, TypeOK
<1> QED BY InvarianteContrato, <1>1, PTL
------------------------------------------------------------------------------
\* An active row is true: until an unblock of its address is ordered, the agent's
\* firewall denies it.
THEOREM BloqueadoVerazSiempre == Spec => []BloqueadoVeraz
<1>1. IInvContrato => BloqueadoVeraz
  BY DEF IInvContrato, Filas
<1> QED BY InvarianteContrato, <1>1, PTL

\* A row only becomes DESBLOQUEADO after the agent confirmed an unblock order with
\* that row's id.
THEOREM DesbloqueadoConfirmadoSiempre == Spec => []DesbloqueadoConfirmado
<1>1. IInvContrato => DesbloqueadoConfirmado
  BY DEF IInvContrato, Filas
<1> QED BY InvarianteContrato, <1>1, PTL

\* Although block and unblock orders share bloqueoIds and the table of waiting calls,
\* a call is never resolved with the answer to an order of the other kind.
THEOREM RespuestaDelMismoTipoSiempre == Spec => []RespuestaDelMismoTipo
<1>1. ASSUME IInvContrato PROVE RespuestaDelMismoTipo
  <2>1. ASSUME NEW p \in Peticion, respuesta[p] # Nada
        PROVE  respuesta[p] \in {"error"} \cup
                 (IF tipo[p] = "bloquear-ip" THEN {"bloqueada", "ya_bloqueada"}
                                             ELSE {"desbloqueada", "no_existia"})
    BY <1>1, <2>1 DEF IInvContrato, Mensajes, RespuestasVeraces, Veraz
  <2> QED BY <2>1 DEF RespuestaDelMismoTipo
<1> QED BY InvarianteContrato, <1>1, PTL

\* Block calls of which one ended before the other began never leave two active rows
\* for their address.
THEOREM IdempotenciaSecuencialSiempre == Spec => []IdempotenciaSecuencial
<1>1. ASSUME IInvContrato PROVE IdempotenciaSecuencial
  <2>1. ASSUME NEW p \in Peticion, NEW q \in Peticion, Bloqueo(p), Bloqueo(q),
               clave[p] # Nada, clave[q] # Nada, clave[p] # clave[q],
               {clave[p], clave[q]} \subseteq Activas(llamada[p].vps, llamada[p].ip),
               p \in previas[q]
        PROVE  FALSE
    <3>1. /\ filas[clave[q]] # Nada
          /\ filas[clave[q]].vps = llamada[p].vps /\ filas[clave[q]].ip = llamada[p].ip
      BY <2>1 DEF Activas
    <3>2. llamada[q].vps = llamada[p].vps /\ llamada[q].ip = llamada[p].ip
      BY <1>1, <2>1, <3>1 DEF IInvContrato, Llamadas, FilaPropia
    <3>3. clave[p] \notin Activas(llamada[q].vps, llamada[q].ip)
      BY <1>1, <2>1 DEF IInvContrato, Historia, SinRepetir
    <3> QED BY <2>1, <3>2, <3>3
  <2> QED BY <2>1 DEF IdempotenciaSecuencial, Bloqueo
<1> QED BY InvarianteContrato, <1>1, PTL

\* No block call whose address has been whitelisted ever since it began orders the
\* block, whatever entries are added and removed meanwhile.
THEOREM BlancaRespetadaSiempre == Spec => []BlancaRespetada
<1>1. IInvContrato => BlancaRespetada
  BY DEF IInvContrato, Historia, BlancaVista, BlancaRespetada
<1> QED BY InvarianteContrato, <1>1, PTL

\* The audit log never contradicts the table: an applied block is no FALLIDO row and
\* its address is denied unless its unblock was ordered, a failed block is one, and
\* an applied unblock was confirmed by the agent.
THEOREM AuditoriaVerazSiempre == Spec => []AuditoriaVeraz
<1>1. IInvContrato => AuditoriaVeraz
  BY DEF IInvContrato, Historia, Bitacora, Asentada, AuditoriaVeraz, Hecha
<1> QED BY InvarianteContrato, <1>1, PTL
==============================================================================
