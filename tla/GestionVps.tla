----------------------------- MODULE GestionVps -----------------------------
(***************************************************************************)
(* server/src/vps, agent, configuracion, alertas, whitelist and cron: the  *)
(* life of a VPS, from its creation to its soft delete, with what its      *)
(* owner and its agent do meanwhile.                                       *)
(*                                                                         *)
(* A Llamada is one HTTP request; the heartbeats of the agent of VPS v are *)
(* a thread named v that never ends.  A handler looks a row up, and later, *)
(* with all the others in between, writes it by its id alone.  Two awaits  *)
(* are no step of their own: bcrypt.compare, of what was read already, and *)
(* AuditLogService.registrar, which swallows its errors and writes a table *)
(* that nothing reads.                                                     *)
(*                                                                         *)
(* Abstracted: hashes (a token is the call that created it, or its VPS     *)
(* when it was there before), texts, thresholds and severities, what       *)
(* createAlerta hands on (live notification, mail, automatic block: Panel  *)
(* and BloqueosService), and the clock: a heartbeat is recent or old.      *)
(***************************************************************************)
EXTENDS Naturals, FiniteSets

CONSTANTS
  Llamada,   \* the requests
  Usuario,   \* the accounts
  Vps,       \* the ids a VPS may get
  Agente,    \* BOUND: the VPS on which an agent is ever installed
  Ip,        \* the addresses
  Operaciones,  \* BOUND: Operaciones[c]: what call c may ask for
  Inicios,   \* BOUND: the owners of the VPS (Nada: not created) a run begins with
  Nada       \* no value

ASSUME GestionConstantes ==
  /\ Llamada \cap Vps = {} /\ Agente \subseteq Vps
  /\ Inicios \subseteq [Vps -> Usuario \cup {Nada}]
  /\ \A d \in Inicios : \A v, w \in Vps : d[v] = d[w] /\ d[v] # Nada => v = w
  /\ Nada \notin Llamada \cup Usuario \cup Vps \cup Ip

VARIABLES
  filas,       \* filas[v]: the row of table vps with its configuracion
  alertas,     \* alertas[c]: the alert that call c created
  blanca,      \* blanca[c]: the whitelist entry that call c created
  metricas,    \* the calls whose row of table metricas is still there
  credencial,  \* credencial[v]: the token the agent of v is configured with
  marcados,    \* what the job detectarVpsDesconectados has read, Nada when idle
  paso,        \* paso[h]: where the handler of h is
  llamada,     \* llamada[h]: the request
  leido,       \* leido[h]: what the handler of h read
  salida,      \* salida[h]: what h is answered
  gastados,    \* gastados[v]: the tokens of v that were replaced (history)
  previas      \* previas[h]: the calls that had ended when h began (history)

varsTablas == <<filas, alertas, blanca, metricas>>
varsHilo == <<paso, llamada, leido, salida, previas>>
varsGestion == <<varsTablas, credencial, marcados, varsHilo, gastados>>

Hilo == Llamada \cup Agente
Token == Llamada \cup Vps
Nivel == {"SOLO_ALERTAR", "SUGERIR", "GUARDIAN_TOTAL"}
Accion == {"NOTIFICADO", "SUGERENCIA_ENVIADA", "BLOQUEADO_AUTOMATICAMENTE"}
EstadoVps == {"PENDIENTE_INSTALACION", "ACTIVO", "DESCONECTADO", "ELIMINADO"}
Fila == [duenio : Usuario, ip : Ip, estado : EstadoVps, borrado : BOOLEAN, token : Token,
         pulso : {"nunca", "reciente", "viejo"}, nivel : Nivel]
Alerta == [vps : Vps, accion : Accion, revisada : BOOLEAN]
Entrada == [usuario : Usuario, vps : Vps \cup {Nada}, ip : Ip]
DelUsuario == {"crear", "borrar", "regenerar", "configurar", "consultar", "metricas",
               "anadir", "quitar", "listar", "revisar"}
DelAgente == {"latido", "metrica", "alerta"}
Peticion == [op : DelUsuario \cup DelAgente, usuario : Usuario \cup {Nada},
             vps : Vps \cup {Nada}, ip : Ip \cup {Nada}, token : Token \cup {Nada},
             objeto : Llamada \cup {Nada}, nivel : Nivel, obsoleta : BOOLEAN]
SinPeticion == [op |-> "consultar", usuario |-> Nada, vps |-> Nada, ip |-> Nada,
                token |-> Nada, objeto |-> Nada, nivel |-> "SOLO_ALERTAR",
                obsoleta |-> FALSE]
Salida == {"ninguna", "ok", "noEncontrado", "conflicto", "noAutorizado", "errorInterno"}

ASSUME NadaNoEsDato ==
  Nada \notin Fila \cup Alerta \cup Entrada /\ \A s \in SUBSET Vps : s # Nada

TypeOK ==
  /\ filas \in [Vps -> Fila \cup {Nada}]
  /\ alertas \in [Llamada -> Alerta \cup {Nada}]
  /\ blanca \in [Llamada -> Entrada \cup {Nada}]
  /\ metricas \subseteq Llamada
  /\ credencial \in [Agente -> Token \cup {Nada}]
  /\ marcados \in (SUBSET Vps) \cup {Nada}
  /\ paso \in [Hilo -> {"libre", "buscar", "guardia", "leer", "escribir", "fin"}]
  /\ llamada \in [Hilo -> Peticion]
  /\ leido \in [Hilo -> Fila \cup {Nada}]
  /\ salida \in [Hilo -> Salida]
  /\ gastados \in [Vps -> SUBSET Token]
  /\ previas \in [Hilo -> SUBSET Llamada]

Existe(v) == filas[v] # Nada
Vigente(v) == Existe(v) /\ ~filas[v].borrado
\* The partial unique index vps_userId_ip_active_key.
Ocupada(u, ip) == \E v \in Vps : Vigente(v) /\ filas[v].duenio = u /\ filas[v].ip = ip

FilaNueva(u, ip, t) ==
  [duenio |-> u, ip |-> ip, estado |-> "PENDIENTE_INSTALACION", borrado |-> FALSE,
   token |-> t, pulso |-> "nunca", nivel |-> "SOLO_ALERTAR"]

\* The server starts on the database it finds: VPS that are there already, at one
\* address, and running if they have an agent.
Init ==
  /\ \E duenio \in Inicios, ip \in Ip :
       /\ filas = [v \in Vps |->
            IF duenio[v] = Nada THEN Nada
            ELSE IF v \in Agente
                 THEN [FilaNueva(duenio[v], ip, v) EXCEPT !.estado = "ACTIVO",
                                                          !.pulso = "reciente"]
                 ELSE FilaNueva(duenio[v], ip, v)]
       /\ credencial = [v \in Agente |-> IF duenio[v] = Nada THEN Nada ELSE v]
  /\ alertas = [c \in Llamada |-> Nada]
  /\ blanca = [c \in Llamada |-> Nada]
  /\ metricas = {}
  /\ marcados = Nada
  /\ paso = [h \in Hilo |-> "libre"]
  /\ llamada = [h \in Hilo |-> SinPeticion]
  /\ leido = [h \in Hilo |-> Nada]
  /\ salida = [h \in Hilo |-> "ninguna"]
  /\ gastados = [v \in Vps |-> {}]
  /\ previas = [h \in Hilo |-> {}]
------------------------------------------------------------------------------
(* A handler begins, goes from await to await, and answers. *)

Empezar(h, peticion, primero) ==
  /\ paso[h] \in IF h \in Agente THEN {"libre", "fin"} ELSE {"libre"}
  /\ paso' = [paso EXCEPT ![h] = primero]
  /\ llamada' = [llamada EXCEPT ![h] = peticion]
  /\ leido' = [leido EXCEPT ![h] = Nada]
  /\ salida' = [salida EXCEPT ![h] = "ninguna"]
  /\ previas' = [previas EXCEPT ![h] = {c \in Llamada : paso[c] = "fin"}]
  /\ UNCHANGED <<varsTablas, credencial, marcados, gastados>>

En(h, op, donde) == paso[h] = donde /\ llamada[h].op = op

Ir(h, donde) ==
  /\ paso' = [paso EXCEPT ![h] = donde]
  /\ UNCHANGED <<llamada, salida, previas>>

Leer(h, donde, valor) == Ir(h, donde) /\ leido' = [leido EXCEPT ![h] = valor]
Seguir(h, donde) == Ir(h, donde) /\ UNCHANGED leido

Acabar(h, s) ==
  /\ paso' = [paso EXCEPT ![h] = "fin"]
  /\ salida' = [salida EXCEPT ![h] = s]
  /\ leido' = [leido EXCEPT ![h] = Nada]
  /\ UNCHANGED <<llamada, previas>>

SinTablas == UNCHANGED <<varsTablas, credencial, marcados, gastados>>
SoloFilas == UNCHANGED <<alertas, blanca, metricas, credencial, marcados>>

\* Mutant: the look-up leaves the owner out.
Propia_sinDuenio(c) == Vigente(llamada[c].vps)

\* findFirst with id, userId and deletedAt null, the first line of every operation.
Propia(c) == LET v == llamada[c].vps IN Vigente(v) /\ filas[v].duenio = llamada[c].usuario

Buscar(c, op, donde) ==
  /\ En(c, op, "buscar")
  /\ IF Propia(c) THEN Leer(c, donde, filas[llamada[c].vps]) ELSE Acabar(c, "noEncontrado")
  /\ SinTablas
------------------------------------------------------------------------------
(* VpsService *)

\* Mutant: no unique index behind the look-up.
create_sinIndice(c) ==
  \/ /\ En(c, "crear", "buscar")
     /\ IF Ocupada(llamada[c].usuario, llamada[c].ip)
        THEN Acabar(c, "conflicto") ELSE Seguir(c, "escribir")
     /\ SinTablas
  \/ /\ En(c, "crear", "escribir")
     /\ \E v \in Vps :
          /\ ~Existe(v)
          /\ filas' = [filas EXCEPT ![v] = FilaNueva(llamada[c].usuario, llamada[c].ip, c)]
     /\ Acabar(c, "ok")
     /\ SoloFilas /\ UNCHANGED gastados

\* Looks for an active row, hashes, and inserts: only the index decides, and its error
\* is not turned into a 409.
create(c) ==
  LET u == llamada[c].usuario
      ip == llamada[c].ip
  IN
  \/ /\ En(c, "crear", "buscar")
     /\ IF Ocupada(u, ip) THEN Acabar(c, "conflicto") ELSE Seguir(c, "escribir")
     /\ SinTablas
  \/ /\ En(c, "crear", "escribir")
     /\ IF Ocupada(u, ip)
        THEN Acabar(c, "errorInterno") /\ UNCHANGED filas
        ELSE \E v \in Vps : /\ ~Existe(v)
                            /\ filas' = [filas EXCEPT ![v] = FilaNueva(u, ip, c)]
                            /\ Acabar(c, "ok")
     /\ SoloFilas /\ UNCHANGED gastados

\* findOneByUser, ConfiguracionService.findByVps: one read.
findOneByUser(c) ==
  /\ En(c, "consultar", "buscar")
  /\ Acabar(c, IF Propia(c) THEN "ok" ELSE "noEncontrado")
  /\ SinTablas

softDelete(c) ==
  \/ Buscar(c, "borrar", "escribir")
  \/ /\ En(c, "borrar", "escribir")
     /\ filas' = [filas EXCEPT ![llamada[c].vps].borrado = TRUE,
                               ![llamada[c].vps].estado = "ELIMINADO"]
     /\ Acabar(c, "ok")
     /\ SoloFilas /\ UNCHANGED gastados

\* Mutant: the new token is returned and its hash not stored.
regenerateToken_sinGuardar(c) ==
  \/ Buscar(c, "regenerar", "escribir")
  \/ /\ En(c, "regenerar", "escribir")
     /\ gastados' = [gastados EXCEPT ![llamada[c].vps] = @ \cup {filas[llamada[c].vps].token}]
     /\ Acabar(c, "ok")
     /\ SoloFilas /\ UNCHANGED filas

regenerateToken(c) ==
  LET v == llamada[c].vps IN
  \/ Buscar(c, "regenerar", "escribir")
  \/ /\ En(c, "regenerar", "escribir")
     /\ filas' = [filas EXCEPT ![v].token = c]
     /\ gastados' = [gastados EXCEPT ![v] = @ \cup {filas[v].token}]
     /\ Acabar(c, "ok")
     /\ SoloFilas

\* The last 1000 rows and three counts, once the VPS is known to be the user's.
getMetricas(c) ==
  \/ Buscar(c, "metricas", "leer")
  \/ /\ En(c, "metricas", "leer")
     /\ Acabar(c, "ok")
     /\ SinTablas
------------------------------------------------------------------------------
(* ConfiguracionService, AlertasService, WhitelistService *)

\* The configuracion was created with its VPS and is never deleted.
update(c) ==
  \/ Buscar(c, "configurar", "escribir")
  \/ /\ En(c, "configurar", "escribir")
     /\ filas' = [filas EXCEPT ![llamada[c].vps].nivel = llamada[c].nivel]
     /\ Acabar(c, "ok")
     /\ SoloFilas /\ UNCHANGED gastados

updateEstado(c) ==
  LET a == llamada[c].objeto IN
  \/ /\ En(c, "revisar", "buscar")
     /\ IF /\ alertas[a] # Nada
           /\ Vigente(alertas[a].vps)
           /\ filas[alertas[a].vps].duenio = llamada[c].usuario
        THEN Seguir(c, "escribir")
        ELSE Acabar(c, "noEncontrado")
     /\ SinTablas
  \/ /\ En(c, "revisar", "escribir")
     /\ alertas' = [alertas EXCEPT ![a].revisada = TRUE]
     /\ Acabar(c, "ok")
     /\ UNCHANGED <<filas, blanca, metricas, credencial, marcados, gastados>>

\* The index on (userId, vpsId, ip) knows no two equal NULLs: only entries of one VPS
\* are ever in conflict.
createEntrada(c) ==
  LET entrada == [usuario |-> llamada[c].usuario, vps |-> llamada[c].vps,
                  ip |-> llamada[c].ip]
  IN
  \/ Buscar(c, "anadir", "escribir")
  \/ /\ En(c, "anadir", "escribir")
     /\ IF entrada.vps # Nada /\ \E d \in Llamada : blanca[d] = entrada
        THEN Acabar(c, "conflicto") /\ UNCHANGED blanca
        ELSE Acabar(c, "ok") /\ blanca' = [blanca EXCEPT ![c] = entrada]
     /\ UNCHANGED <<filas, alertas, metricas, credencial, marcados, gastados>>

\* An entry that another request deleted meanwhile makes delete throw.
remove(c) ==
  LET d == llamada[c].objeto IN
  \/ /\ En(c, "quitar", "buscar")
     /\ IF blanca[d] # Nada /\ blanca[d].usuario = llamada[c].usuario
        THEN Seguir(c, "escribir")
        ELSE Acabar(c, "noEncontrado")
     /\ SinTablas
  \/ /\ En(c, "quitar", "escribir")
     /\ IF blanca[d] # Nada
        THEN Acabar(c, "ok") /\ blanca' = [blanca EXCEPT ![d] = Nada]
        ELSE Acabar(c, "errorInterno") /\ UNCHANGED blanca
     /\ UNCHANGED <<filas, alertas, metricas, credencial, marcados, gastados>>

\* The entries of the user, of one VPS or all: no row of table vps is looked at.
findAll(c) ==
  /\ En(c, "listar", "buscar")
  /\ Acabar(c, "ok")
  /\ SinTablas
------------------------------------------------------------------------------
(* AgentTokenGuard and AgentService *)

\* Mutant: the guard does not look at deletedAt.
canActivate_borrado(h) ==
  LET v == llamada[h].vps IN
  /\ paso[h] = "guardia"
  /\ IF Existe(v) /\ filas[v].token = llamada[h].token
     THEN Leer(h, IF llamada[h].op = "alerta" THEN "leer" ELSE "escribir", filas[v])
     ELSE Acabar(h, "noAutorizado")
  /\ SinTablas

\* The hash of the row that was read decides, and the request carries that row on.
canActivate(h) ==
  LET v == llamada[h].vps IN
  /\ paso[h] = "guardia"
  /\ IF Vigente(v) /\ filas[v].token = llamada[h].token
     THEN Leer(h, IF llamada[h].op = "alerta" THEN "leer" ELSE "escribir", filas[v])
     ELSE Acabar(h, "noAutorizado")
  /\ SinTablas

\* Mutant: only the first heartbeat makes a VPS active.
heartbeat_soloPendiente(h) ==
  LET v == llamada[h].vps IN
  /\ En(h, "latido", "escribir")
  /\ filas' = [filas EXCEPT ![v].pulso = "reciente",
                 ![v].estado = IF leido[h].estado = "PENDIENTE_INSTALACION" THEN "ACTIVO" ELSE @]
  /\ Acabar(h, "ok")
  /\ SoloFilas /\ UNCHANGED gastados

\* Decides from the row of the guard, and writes by id.
heartbeat(h) ==
  LET v == llamada[h].vps IN
  /\ En(h, "latido", "escribir")
  /\ filas' = [filas EXCEPT ![v].pulso = "reciente",
                 ![v].estado = IF leido[h].estado \in {"PENDIENTE_INSTALACION", "DESCONECTADO"}
                               THEN "ACTIVO" ELSE @]
  /\ Acabar(h, "ok")
  /\ SoloFilas /\ UNCHANGED gastados

createMetrica(c) ==
  /\ En(c, "metrica", "escribir")
  /\ metricas' = metricas \cup {c}
  /\ Acabar(c, "ok")
  /\ UNCHANGED <<filas, alertas, blanca, credencial, marcados, gastados>>

\* The autonomy that decides what an alert says it did.
AccionDe == [SOLO_ALERTAR |-> "NOTIFICADO", SUGERIR |-> "SUGERENCIA_ENVIADA",
             GUARDIAN_TOTAL |-> "BLOQUEADO_AUTOMATICAMENTE"]

createAlerta(c) ==
  LET v == llamada[c].vps IN
  \/ /\ En(c, "alerta", "leer")
     /\ Leer(c, "escribir", filas[v])
     /\ SinTablas
  \/ /\ En(c, "alerta", "escribir")
     /\ alertas' = [alertas EXCEPT ![c] =
                      [vps |-> v, accion |-> AccionDe[leido[c].nivel], revisada |-> FALSE]]
     /\ Acabar(c, "ok")
     /\ UNCHANGED <<filas, blanca, metricas, credencial, marcados, gastados>>
------------------------------------------------------------------------------
(* CronService *)

\* Every minute: the silent ones are read, then all of them are written by id.
detectarVpsDesconectados ==
  \/ /\ marcados = Nada
     /\ LET silenciosos == {v \in Vps : Vigente(v) /\ filas[v].estado = "ACTIVO"
                                        /\ filas[v].pulso = "viejo"} IN
        /\ silenciosos # {}
        /\ marcados' = silenciosos
     /\ UNCHANGED filas
  \/ /\ marcados # Nada
     /\ filas' = [v \in Vps |-> IF v \in marcados
                                THEN [filas[v] EXCEPT !.estado = "DESCONECTADO"]
                                ELSE filas[v]]
     /\ marcados' = Nada

PasoCron ==
  /\ detectarVpsDesconectados
  /\ UNCHANGED <<alertas, blanca, metricas, credencial, varsHilo, gastados>>

aplicarRetencionMetricas ==
  /\ metricas # {}
  /\ metricas' \in SUBSET metricas \ {metricas}
  /\ UNCHANGED <<filas, alertas, blanca, credencial, marcados, varsHilo, gastados>>

\* Two minutes pass since the last heartbeat of v.
Envejecer(v) ==
  /\ Existe(v) /\ filas[v].pulso = "reciente"
  /\ filas' = [filas EXCEPT ![v].pulso = "viejo"]
  /\ UNCHANGED <<alertas, blanca, metricas, credencial, marcados, varsHilo, gastados>>
------------------------------------------------------------------------------
(* Who calls *)

\* What each endpoint takes.
Pide(p, op, v, ip) == [p EXCEPT !.op = op, !.vps = v, !.ip = ip]
PideDe(p, op, o) == [p EXCEPT !.op = op, !.objeto = o]
VpsController(p) ==
  {Pide(p, "crear", Nada, ip) : ip \in Ip}
  \cup {Pide(p, op, v, Nada) : op \in {"borrar", "regenerar", "consultar", "metricas"}, v \in Vps}
ConfiguracionController(p) ==
  {[Pide(p, "configurar", v, Nada) EXCEPT !.nivel = "GUARDIAN_TOTAL"] : v \in Vps}
WhitelistController(p) ==
  {Pide(p, "anadir", v, ip) : v \in Vps \cup {Nada}, ip \in Ip}
  \cup {Pide(p, "listar", v, Nada) : v \in Vps \cup {Nada}}
  \cup {PideDe(p, "quitar", d) : d \in {d \in Llamada : blanca[d] # Nada}}
AlertasController(p) ==
  {PideDe(p, "revisar", a) : a \in {a \in Llamada : alertas[a] # Nada}}

\* The owner is the one of the access token.  A global whitelist entry is inserted with no
\* look at any VPS.
LlegaUsuario(c) ==
  \E u \in Usuario :
  LET p0 == [SinPeticion EXCEPT !.usuario = u] IN
  \E p \in VpsController(p0) \cup ConfiguracionController(p0) \cup WhitelistController(p0)
           \cup AlertasController(p0) :
    /\ p.op \in Operaciones[c]
    /\ Empezar(c, p, IF p.op = "anadir" /\ p.vps = Nada THEN "escribir" ELSE "buscar")

DeAgente(op, v, t) == [SinPeticion EXCEPT !.op = op, !.vps = v, !.token = t,
                                          !.obsoleta = t \in gastados[v]]

LlegaAgente(c) ==
  \E op \in {"metrica", "alerta"} \cap Operaciones[c], v \in Vps :
    /\ Existe(v)
    /\ \E t \in gastados[v] \cup {filas[v].token} : Empezar(c, DeAgente(op, v, t), "guardia")

\* The agent of v: a heartbeat as long as it runs, with the token it has.
Latir(v) == credencial[v] # Nada /\ Empezar(v, DeAgente("latido", v, credencial[v]), "guardia")

\* The owner gives the agent the token of an answer.
Instalar(v) ==
  /\ \E c \in Llamada :
       /\ salida[c] = "ok" /\ filas[v] # Nada
       /\ \/ llamada[c].op = "regenerar" /\ llamada[c].vps = v
          \/ llamada[c].op = "crear" /\ filas[v].token = c
       /\ credencial[v] # c
       /\ credencial' = [credencial EXCEPT ![v] = c]
  /\ UNCHANGED <<varsTablas, marcados, varsHilo, gastados>>

PasoLlamada(c) ==
  \/ create(c) \/ findOneByUser(c) \/ softDelete(c) \/ regenerateToken(c) \/ getMetricas(c)
  \/ update(c) \/ updateEstado(c) \/ createEntrada(c) \/ findAll(c) \/ remove(c)
  \/ canActivate(c) \/ createMetrica(c) \/ createAlerta(c)

PasoLatido(v) == canActivate(v) \/ heartbeat(v)

Next ==
  \/ \E c \in Llamada : LlegaUsuario(c) \/ LlegaAgente(c) \/ PasoLlamada(c)
  \/ \E v \in Agente : Latir(v) \/ PasoLatido(v) \/ Instalar(v)
  \/ \E v \in Vps : Envejecer(v)
  \/ PasoCron
  \/ aplicarRetencionMetricas
  \/ (\A c \in Llamada : paso[c] = "fin") /\ UNCHANGED varsGestion

\* The agent's consumer goes on (main.py:43) and sends its heartbeats, and the server
\* answers what it receives.
\* No other step is fair: a call that never moves died with the process.
Spec == Init /\ [][Next]_varsGestion
SpecJusta == Spec /\ \A v \in Agente : WF_varsGestion(Latir(v)) /\ WF_varsGestion(PasoLatido(v))
------------------------------------------------------------------------------
(* Properties *)

\* An owner has one active VPS per address, however the look-up, the hashing and the
\* insertion of several creations and deletions are interleaved.
UnVpsActivoPorIp ==
  \A v, w \in Vps :
    v # w /\ Vigente(v) /\ Vigente(w)
    => <<filas[v].duenio, filas[v].ip>> # <<filas[w].duenio, filas[w].ip>>

\* The requests that look for a VPS with deletedAt null: all but two of the whitelist, whose
\* findAll and remove look for entries of the user only.
MiraBorrado == (DelUsuario \ {"listar", "quitar"}) \cup DelAgente

\* The VPS such a request is about.
Objeto(h) == IF llamada[h].op = "revisar" THEN alertas[llamada[h].objeto].vps ELSE llamada[h].vps

\* Once the deletion of a VPS was answered, no request that looks for the VPS and begins
\* later is served: not its owner's, not its agent's.  (Its whitelist entries are still
\* listed and removed, and a request that was past its look-up goes on.)
TrasBorrarRechazado ==
  \A h \in Hilo : \A d \in previas[h] :
    /\ llamada[d].op = "borrar" /\ salida[d] = "ok"
    /\ llamada[h].op \in MiraBorrado /\ Objeto(h) = llamada[d].vps
    => salida[h] # "ok"

\* POST :id/regenerate-token, `invalida el anterior`: a request of the agent with a token
\* that had been replaced when it began is not served, whatever regenerations overlap.
TokenReemplazadoNoSirve ==
  \A h \in Hilo : llamada[h].op \in DelAgente /\ llamada[h].obsoleta => salida[h] # "ok"

\* No request of a user changes what is another user's: the row is looked up with its
\* owner and written later without.
PropiedadRespetada ==
  [][\A c \in Llamada :
       paso[c] # "libre" /\ paso'[c] # paso[c] /\ llamada[c].op \in DelUsuario =>
         LET u == llamada[c].usuario IN
         /\ \A v \in Vps : filas[v] # filas'[v] /\ filas[v] # Nada => filas[v].duenio = u
         /\ \A a \in Llamada : alertas[a] # alertas'[a] => filas[alertas[a].vps].duenio = u
         /\ \A d \in Llamada : blanca[d] # blanca'[d] /\ blanca[d] # Nada
                               => blanca[d].usuario = u]_varsGestion

\* A VPS that was marked as disconnected does not stay so while its agent has its token
\* and keeps sending, also when the job wrote after a heartbeat had arrived.
LatidoReactiva ==
  \A v \in Agente :
    []<>~(Vigente(v) /\ filas[v].estado = "DESCONECTADO" /\ filas[v].token = credencial[v])
==============================================================================
