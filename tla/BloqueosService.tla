--------------------------- MODULE BloqueosService ---------------------------
(***************************************************************************)
(* server/src/bloqueos/bloqueos.service.ts over the gateway: what a call   *)
(* of ejecutarBloqueo (manual, or automatic from agent.service.ts          *)
(* createAlerta) and of ejecutarDesbloqueo does between one await and the  *)
(* next, any number of calls interleaved.  A Peticion is one such call     *)
(* and, when it gets that far, its only call of enviarOrden.               *)
(*                                                                         *)
(* The agent is not in this module: BloqueosContrato puts the agent that   *)
(* the server's types describe at the other end, ControlBloqueos the agent *)
(* of this repository.  Abstracted: the audit entry's contents, and        *)
(* `motivo`, of which only matters whether it still fits its VarChar(500)  *)
(* column after a suffix is appended to it.                                *)
(***************************************************************************)
EXTENDS AgentGateway

CONSTANTS
  Ip,         \* the addresses that are blocked
  Usuario,    \* the users
  Duenio      \* Duenio[v]: the user that owns v (vps.userId)

ASSUME BloqueosConstantes ==
  /\ Duenio \in [Vps -> Usuario]
  /\ Nada \notin Usuario \cup Ip

VARIABLES
  paso,        \* paso[p]: where the call is
  llamada,     \* llamada[p]: its arguments
  salida,      \* salida[p]: what it returned or threw
  filas,       \* filas[k]: the row of table bloqueos with id k
  auditoria,   \* the entries of the audit log about blocks
  blanca,      \* the rows of the table of whitelisted addresses
  previas,     \* previas[p]: the calls that had ended when p began (history)
  cubiertas    \* the calls whose address has been whitelisted ever since they began
               \* (history)

varsServicio == <<paso, llamada, salida, filas, auditoria, blanca, previas, cubiertas>>
varsBloqueos == <<varsGateway, varsServicio>>

Llamada == [op : {"bloqueo", "desbloqueo"}, vps : Vps \cup {Nada}, ip : Ip \cup {Nada},
            usuario : Usuario \cup {Nada}, largo : BOOLEAN, objetivo : Clave \cup {Nada}]
SinLlamada == [op |-> "bloqueo", vps |-> Nada, ip |-> Nada, usuario |-> Nada,
               largo |-> FALSE, objetivo |-> Nada]

Fila == [vps : Vps, ip : Ip, estado : {"BLOQUEADO", "DESBLOQUEADO", "FALLIDO"}]
ASSUME NadaNoEsFila == Nada \notin Fila
Entrada == [ip : Ip, vps : Vps \cup {Nada}, usuario : Usuario]
Accion == {"bloqueo_omitido_whitelist", "bloqueo_aplicado", "bloqueo_fallido",
           "desbloqueo_aplicado", "desbloqueo_fallido"}
Salida == {"ninguna", "fila", "existente", "omitido", "noEncontrado", "errorInterno"}

TypeOKServicio ==
  /\ paso \in [Peticion -> {"libre", "propiedad", "blanca", "existente", "buscar",
                            "emitir", "respuesta", "auditar", "fin", "caida"}]
  /\ llamada \in [Peticion -> Llamada]
  /\ salida \in [Peticion -> Salida]
  /\ filas \in [Clave -> Fila \cup {Nada}]
  /\ auditoria \subseteq [peticion : Peticion, accion : Accion]
  /\ blanca \subseteq Entrada
  /\ previas \in [Peticion -> SUBSET Peticion]
  /\ cubiertas \subseteq Peticion

InitServicio ==
  /\ paso = [p \in Peticion |-> "libre"]
  /\ llamada = [p \in Peticion |-> SinLlamada]
  /\ salida = [p \in Peticion |-> "ninguna"]
  /\ filas = [k \in Clave |-> Nada]
  /\ auditoria = {}
  /\ blanca = {}
  /\ previas = [p \in Peticion |-> {}]
  /\ cubiertas = {}

InitBloqueos == InitGateway /\ InitServicio
------------------------------------------------------------------------------
\* Mutant: global entries are not looked for.
EnBlanca_soloDelVps(l) == {e \in blanca : e.ip = l.ip /\ e.vps = l.vps}

\* The whitelist entries findFirst matches: those of this VPS, and the global
\* ones of the calling user; an automatic block passes userId undefined, which
\* Prisma takes as no condition at all.
EnBlanca(l) ==
  {e \in blanca : /\ e.ip = l.ip
                  /\ \/ e.vps = l.vps
                     \/ e.vps = Nada /\ (l.usuario = Nada \/ e.usuario = l.usuario)}

\* The entries that are meant for an address on a VPS: a null vpsId covers all
\* the VPS of the entry's user.
Corresponde(e, v, ip) ==
  /\ e.ip = ip
  /\ e.vps = v \/ (e.vps = Nada /\ e.usuario = Duenio[v])

Terminada(p) == paso[p] \in {"fin", "caida"}

Ir(p, siguiente) ==
  /\ paso' = [paso EXCEPT ![p] = siguiente]
  /\ UNCHANGED <<llamada, previas, cubiertas, blanca>>

Acabar(p, s) ==
  /\ Ir(p, "fin")
  /\ salida' = [salida EXCEPT ![p] = s]

\* auditLog.registrar: writes the entry, or fails and swallows the error.
Registrar(p, a) ==
  \/ auditoria' = auditoria \cup {[peticion |-> p, accion |-> a]}
  \/ "auditoria" \in Entorno /\ UNCHANGED auditoria

Comenzar(p, l, primero) ==
  /\ paso[p] = "libre"
  /\ paso' = [paso EXCEPT ![p] = primero]
  /\ llamada' = [llamada EXCEPT ![p] = l]
  /\ previas' = [previas EXCEPT ![p] = {q \in Peticion : Terminada(q)}]
  /\ UNCHANGED <<salida, filas, auditoria, blanca, varsGateway>>

\* POST /bloqueos (u is the user), or createAlerta under GUARDIAN_TOTAL (u = Nada).
\* Only a user's motivo may be as long as its column.  BOUND: an instance starts as
\* many block calls as it has bloqueoIds to give them.
LlamarBloqueo(p, v, ip, u, largo) ==
  LET l == [SinLlamada EXCEPT !.vps = v, !.ip = ip, !.usuario = u, !.largo = largo]
  IN
  /\ Cardinality({q \in Peticion : llamada[q].op = "bloqueo" /\ paso[q] # "libre"})
       < Cardinality(Clave)
  /\ largo => u # Nada /\ "largo" \in Entorno
  /\ Comenzar(p, l, IF u = Nada THEN "blanca" ELSE "propiedad")
  /\ cubiertas' = IF \E e \in blanca : Corresponde(e, v, ip)
                    THEN cubiertas \cup {p} ELSE cubiertas

\* DELETE /bloqueos/:id
LlamarDesbloqueo(p, k, u) ==
  /\ Comenzar(p, [SinLlamada EXCEPT !.op = "desbloqueo", !.objetivo = k, !.usuario = u],
              "buscar")
  /\ UNCHANGED cubiertas

\* 0. The VPS belongs to the user and is not deleted.
ComprobarPropiedad(p) ==
  /\ paso[p] = "propiedad"
  /\ IF llamada[p].vps \in vivas /\ Duenio[llamada[p].vps] = llamada[p].usuario
     THEN Ir(p, "blanca") /\ UNCHANGED salida
     ELSE Acabar(p, "noEncontrado")
  /\ UNCHANGED <<filas, auditoria, varsGateway>>

\* 1. Whitelist.
ConsultarBlanca(p) ==
  /\ paso[p] = "blanca"
  /\ IF EnBlanca(llamada[p]) # {}
     THEN Acabar(p, "omitido") /\ Registrar(p, "bloqueo_omitido_whitelist")
     ELSE Ir(p, "existente") /\ UNCHANGED <<salida, auditoria>>
  /\ UNCHANGED <<filas, varsGateway>>

Activas(v, ip) ==
  {k \in Clave : filas[k] # Nada /\ filas[k].estado = "BLOQUEADO"
                 /\ filas[k].vps = v /\ filas[k].ip = ip}

\* Mutant: the existing block is not looked for.
ConsultarExistente_nunca(p) ==
  /\ paso[p] = "existente"
  /\ Ir(p, "emitir")
  /\ UNCHANGED <<salida, filas, auditoria, varsGateway>>

\* 2. An active block of this address is returned as it is.
ConsultarExistente(p) ==
  /\ paso[p] = "existente"
  /\ IF Activas(llamada[p].vps, llamada[p].ip) # {}
     THEN Acabar(p, "existente")
     ELSE Ir(p, "emitir") /\ UNCHANGED salida
  /\ UNCHANGED <<filas, auditoria, varsGateway>>

\* 3-4. A fresh UUID, and the order.
EmitirBloqueo(p, k) ==
  /\ paso[p] = "emitir"
  /\ llamada[p].op = "bloqueo"
  /\ \A q \in Peticion : clave[q] # k
  /\ enviarOrden(p, llamada[p].vps, k, "bloquear-ip")
  /\ Ir(p, "respuesta")
  /\ UNCHANGED <<salida, filas, auditoria>>

\* Mutant: an error of the agent counts as an applied block.
estadoFinal_errorAplicado(p) ==
  CASE respuesta[p] \in {"bloqueada", "ya_bloqueada", "error"} -> "BLOQUEADO"
    [] respuesta[p] \in {"desbloqueada", "no_existia"} -> "DESBLOQUEADO"
    [] OTHER -> "FALLIDO"

\* MAPA_ESTADO_BLOQUEO over the answer of p; FALLIDO without one.  An answer
\* without the field estado maps to undefined.
estadoFinal(p) ==
  CASE respuesta[p] \in {"bloqueada", "ya_bloqueada"} -> "BLOQUEADO"
    [] respuesta[p] \in {"desbloqueada", "no_existia"} -> "DESBLOQUEADO"
    [] respuesta[p] \in {"error", Nada} -> "FALLIDO"
    [] OTHER -> "undefined"

\* The estado of the created row: undefined leaves it to @default(BLOQUEADO).
EstadoCreado(p) == IF estadoFinal(p) = "undefined" THEN "BLOQUEADO" ELSE estadoFinal(p)

\* 5. create: it throws when a motivo that already fills its column gets the
\* suffix of a missing or failed answer.
CrearFila(p) ==
  /\ paso[p] = "respuesta"
  /\ llamada[p].op = "bloqueo"
  /\ promesa[p] = "resuelta"
  /\ IF llamada[p].largo /\ respuesta[p] \in {"error", Nada}
     THEN Acabar(p, "errorInterno") /\ UNCHANGED filas
     ELSE /\ filas' = [filas EXCEPT ![clave[p]] =
                         [vps |-> llamada[p].vps, ip |-> llamada[p].ip,
                          estado |-> EstadoCreado(p)]]
          /\ Ir(p, "auditar")
          /\ UNCHANGED salida
  /\ UNCHANGED <<auditoria, varsGateway>>

\* Mutant: any answer counts as an applied block.
AuditarBloqueo_conRespuesta(p) ==
  /\ paso[p] = "auditar"
  /\ llamada[p].op = "bloqueo"
  /\ Registrar(p, IF respuesta[p] # Nada THEN "bloqueo_aplicado" ELSE "bloqueo_fallido")
  /\ Acabar(p, "fila")
  /\ UNCHANGED <<filas, varsGateway>>

\* 6. The audit entry is chosen by estadoFinal, not by the row.
AuditarBloqueo(p) ==
  /\ paso[p] = "auditar"
  /\ llamada[p].op = "bloqueo"
  /\ Registrar(p, IF estadoFinal(p) = "BLOQUEADO" THEN "bloqueo_aplicado"
                                                  ELSE "bloqueo_fallido")
  /\ Acabar(p, "fila")
  /\ UNCHANGED <<filas, varsGateway>>

\* Mutant: the row is found in any estado.
BuscarBloqueo_cualquierEstado(p) ==
  LET fila == filas[llamada[p].objetivo] IN
  /\ paso[p] = "buscar"
  /\ IF fila # Nada /\ fila.vps \in vivas /\ Duenio[fila.vps] = llamada[p].usuario
     THEN Ir(p, "emitir") /\ UNCHANGED salida
     ELSE Acabar(p, "noEncontrado")
  /\ UNCHANGED <<filas, auditoria, varsGateway>>

\* ejecutarDesbloqueo: the row is active and its VPS is the user's, not deleted.
BuscarBloqueo(p) ==
  LET fila == filas[llamada[p].objetivo] IN
  /\ paso[p] = "buscar"
  /\ IF fila # Nada /\ fila.estado = "BLOQUEADO"
        /\ fila.vps \in vivas /\ Duenio[fila.vps] = llamada[p].usuario
     THEN Ir(p, "emitir") /\ UNCHANGED salida
     ELSE Acabar(p, "noEncontrado")
  /\ UNCHANGED <<filas, auditoria, varsGateway>>

\* The order carries the id of the row, which was the bloqueoId of the block.
EmitirDesbloqueo(p) ==
  /\ paso[p] = "emitir"
  /\ llamada[p].op = "desbloqueo"
  /\ enviarOrden(p, filas[llamada[p].objetivo].vps, llamada[p].objetivo, "desbloquear-ip")
  /\ Ir(p, "respuesta")
  /\ UNCHANGED <<salida, filas, auditoria>>

\* Mutant: anything but an error counts as confirmed.
ConcluirDesbloqueo_sinConfirmar(p) ==
  /\ paso[p] = "respuesta"
  /\ llamada[p].op = "desbloqueo"
  /\ promesa[p] = "resuelta"
  /\ IF respuesta[p] # "error"
     THEN filas' = [filas EXCEPT ![llamada[p].objetivo].estado = "DESBLOQUEADO"]
     ELSE UNCHANGED filas
  /\ Ir(p, "auditar")
  /\ UNCHANGED <<salida, auditoria, varsGateway>>

\* Only a confirmed answer changes the row.
ConcluirDesbloqueo(p) ==
  /\ paso[p] = "respuesta"
  /\ llamada[p].op = "desbloqueo"
  /\ promesa[p] = "resuelta"
  /\ IF respuesta[p] \in {"desbloqueada", "no_existia"}
     THEN filas' = [filas EXCEPT ![llamada[p].objetivo].estado = "DESBLOQUEADO"]
     ELSE UNCHANGED filas
  /\ Ir(p, "auditar")
  /\ UNCHANGED <<salida, auditoria, varsGateway>>

AuditarDesbloqueo(p) ==
  /\ paso[p] = "auditar"
  /\ llamada[p].op = "desbloqueo"
  /\ IF respuesta[p] \in {"desbloqueada", "no_existia"}
     THEN Registrar(p, "desbloqueo_aplicado") /\ Acabar(p, "fila")
     ELSE Registrar(p, "desbloqueo_fallido") /\ Acabar(p, "noEncontrado")
  /\ UNCHANGED <<filas, varsGateway>>

\* whitelist.service.ts create
AgregarBlanca(e) ==
  /\ "blanca" \in Entorno
  /\ e \notin blanca
  /\ blanca' = blanca \cup {e}
  /\ UNCHANGED <<paso, llamada, salida, filas, auditoria, previas, cubiertas, varsGateway>>

\* whitelist.service.ts remove: of its owner's entries, whatever calls are under way.
QuitarBlanca(e) ==
  /\ "blanca" \in Entorno
  /\ e \in blanca
  /\ blanca' = blanca \ {e}
  /\ cubiertas' = {p \in cubiertas :
                     \E f \in blanca' : Corresponde(f, llamada[p].vps, llamada[p].ip)}
  /\ UNCHANGED <<paso, llamada, salida, filas, auditoria, previas, varsGateway>>

\* The process dies: the calls die with it.
Reiniciar ==
  /\ ReiniciarServidor
  /\ paso' = [p \in Peticion |->
                IF paso[p] \in {"libre", "fin"} THEN paso[p] ELSE "caida"]
  /\ UNCHANGED <<llamada, salida, filas, auditoria, blanca, previas, cubiertas>>

Llegada ==
  \E p \in Peticion :
    \/ \E v \in Vps, ip \in Ip, u \in Usuario \cup {Nada}, largo \in BOOLEAN :
         LlamarBloqueo(p, v, ip, u, largo)
    \/ \E k \in Clave, u \in Usuario : LlamarDesbloqueo(p, k, u)

PasoLlamada(p) ==
  \/ ComprobarPropiedad(p)
  \/ ConsultarBlanca(p)
  \/ ConsultarExistente(p)
  \/ \E k \in Clave : EmitirBloqueo(p, k)
  \/ CrearFila(p)
  \/ AuditarBloqueo(p)
  \/ BuscarBloqueo(p)
  \/ EmitirDesbloqueo(p)
  \/ ConcluirDesbloqueo(p)
  \/ AuditarDesbloqueo(p)

\* Every call an instance has is over: the only place where it may come to rest.
TodoTerminado == \A p \in Peticion : Terminada(p)

\* Everything the server does, and its environment but for the agent.
PasoServidor ==
  \/ Llegada
  \/ \E p \in Peticion : PasoLlamada(p)
  \/ \E e \in Entrada : AgregarBlanca(e) \/ QuitarBlanca(e)
  \/ (PasoConexion \/ PasoOrden) /\ UNCHANGED varsServicio
  \/ Reiniciar

\* Received requests, resolved promises and due timers are run by the event loop.
JusticiaServidor ==
  \A p \in Peticion : WF_varsBloqueos(PasoLlamada(p))
                      /\ WF_varsBloqueos(VencerPlazo(p) /\ UNCHANGED varsServicio)
------------------------------------------------------------------------------
(* Properties, over the firewall fw[v] that the agents keep *)

Emitidas(evento) == {p \in Peticion : clave[p] # Nada /\ tipo[p] = evento}

\* An answer is never taken for the answer of another kind of order, although
\* both kinds share bloqueoIds, the table of waiting calls and its lookup.
RespuestaDelMismoTipo ==
  \A p \in Peticion : promesa[p] = "resuelta" =>
    respuesta[p] \in {"error", "undefined", Nada} \cup
      (IF tipo[p] = "bloquear-ip" THEN {"bloqueada", "ya_bloqueada"}
                                  ELSE {"desbloqueada", "no_existia"})

\* A row that says BLOQUEADO is true: until somebody asks for an unblock of that
\* address on that VPS, the agent's firewall denies it.
BloqueadoTieneRegla(fw) ==
  \A k \in Clave : filas[k] # Nada /\ filas[k].estado = "BLOQUEADO" =>
    \/ filas[k].ip \in fw[filas[k].vps]
    \/ \E p \in Emitidas("desbloquear-ip") :
         filas[clave[p]].vps = filas[k].vps /\ filas[clave[p]].ip = filas[k].ip

\* Calls that follow one another leave at most one active row for an address: two
\* active rows of the same address come from calls that overlapped in time.
IdempotenciaSecuencial ==
  \A p, q \in Peticion :
    /\ llamada[p].op = "bloqueo" /\ llamada[q].op = "bloqueo"
    /\ clave[p] # Nada /\ clave[q] # Nada
    /\ clave[p] # clave[q]
    /\ {clave[p], clave[q]} \subseteq Activas(llamada[p].vps, llamada[p].ip)
    => p \notin previas[q]

\* A block is never ordered for an address that was whitelisted all the time from
\* the beginning of the call on, though the entry that covers it was exchanged for
\* another one meanwhile.  (An entry that goes before the call reads the whitelist
\* covers it no more.)
BlancaRespetada ==
  \A p \in cubiertas : clave[p] = Nada

\* Every call returns or throws, or dies with the process.
TodaLlamadaTermina ==
  \A p \in Peticion : paso[p] # "libre" ~> Terminada(p)

\* At most one active row per address and VPS.
UnaFilaActiva ==
  \A v \in Vps, ip \in Ip : Cardinality(Activas(v, ip)) <= 1
==============================================================================
