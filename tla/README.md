# Lumi Guardian IA: TLA+ verification

Lumi Guardian watches the VPSs of its users. An **agent** (Python) on each VPS reads
logs and counters, sends what it finds to a **server** (NestJS, Prisma/PostgreSQL) and
turns the server's orders into UFW rules. The server keeps alerts, blocks, whitelists
and sessions, orders blocks by itself when the autonomy mode says so, and pushes news
to a **client** (Angular) over a WebSocket. This directory models the parts in which
several actors meet, checks them with TLC and proves the central theorems with TLAPS.

`PROJECT.json` lists components, runs, mutants, findings, hazards and theorems, and maps
every definition to the lines it translates. Names of definitions are those of the code
where TLA+ allows it.

## Inventory

| Component | State | Operations | What makes it hard | What makes it correct |
|---|---|---|---|---|
| Firewall manager, `agent/.../ufw_manager.py` | UFW's rules, list of recent operations, two locks | `bloquear`, `desbloquear` | orders run in threads; a command can time out after it took effect; the quota's limit is computed outside its lock | decisions still true when the command runs; limit of rules and protected networks under any sequence; quota in every window; each call looks atomic |
| Control client, `agent/.../websocket_client.py` | memory of processed ids, a thread per order | connect, two handlers, answer | duplicate deliveries, the memory is cleared at 1000 ids, the process restarts | an order runs once while the memory holds its id, and an order that is called for is carried out |
| Agent gateway, `server/src/agent/agent.gateway.ts` | connected agents, waiting orders with promise and 5 s timer | connection, disconnection, order, answer | awaits during admission; two sockets of one VPS; timer against answer; several calls with one id; restart | every wait has a timer and an entry; answers reach the order they are for; an old disconnect does not remove a new connection; every order resolves |
| Block service, `server/src/bloqueos/` | rows of `bloqueos`, audit log | block (user or automatic), unblock | four awaits between check and row; effect elsewhere; lost answers | rows and audit entries say what the firewall does; whitelist respected; idempotence; every call ends |
| Authentication, `server/src/auth/` | users, refresh tokens, reset links; cookie of the browser | register, login, refresh, logout, forgot, reset | requests interleave at every await; tabs share one cookie; responses are lost; nightly cleaning | a spent token is spent; reuse ends every session; no false alarm; a link works once |
| VPS management, whitelist, configuration, alerts, jobs: `server/src/vps/`, `whitelist/`, `configuracion/`, `alertas/`, `cron/` | rows of `vps` with state and token, and what hangs on them | create, delete, new token, configure, add, remove, review; minute job, retention | every handler looks up first, with owner or token, and writes later by id; bcrypt in between; the job works on rows it read before | one active VPS per owner and address; who looks for a deleted VPS does not find it; a replaced token is worthless; nobody changes another's rows; a live VPS is not left disconnected |
| Event pipeline of the agent, `agent/main.py`, `core/`, `senders/` | queue, buffer, SQLite | monitor, consumer, sender, shutdown | full queue, retries, crash, late POST | stored before sent; what the queue holds at the signal is stored; nothing sent again once confirmed |
| Monitors, `agent/.../monitors/` | file positions, windows of attempts | poll, rotate | rotation and truncation, window arithmetic | every line read once; one alert per window |
| Agent endpoints, `server/src/agent/agent.service.ts` and its guard | last heartbeat, metrics, alerts | heartbeat, metric, alert | stale row of the guard; retried POST, automatic block | as above, for the agent |
| Dashboard gateway, `server/src/dashboard-gateway/`, and `RealtimeService` | connections per user; one socket per window | connect, reconnect, broadcast, logout | the end of a connection is noticed late; `conectar` looks only at `connected` | whoever is connected gets the news |
| Pages of the client, `client/src/app/features/` | signals of the component on the screen, window of confirmation, session token | load, live event, filter, page, add, remove, block, save, renew token, navigate (the code of a page is fetched) | answers arrive late, out of order, after the page was left or the session ended; nothing is loaded again after a change | the last live alert is shown; a table shows what the server has; a save changes what was edited; nobody enters without a session; every button gets its answer |
| Generated API client, `client/.../core/api-client/` | none | request | security schemes, query strings, how an answer is read, errors that do not throw | an answer becomes data or error as the pages expect |
| Mail, schema, deployment | rows, or none | | (read by the services above) | |

How they interact: the client calls the REST services; `agent.service` and
`bloqueos.service` call `ejecutarBloqueo` in process; that emits an order through the
gateway and awaits a promise that the agent's answer, or a 5 s timer, resolves; at the
agent the order is a thread in the control client, which calls the firewall manager.
The only state shared across processes is in the database and in UFW.

## Modules

    Cortafuegos            what the firewall promises to its callers (abstract)
      ^ implemented by
    UfwManager             ufw_manager.py, thread by thread         UfwManager_proofs
    AgentGateway           agent.gateway.ts                         AgentGateway_proofs
      ^ extended by
    BloqueosService        bloqueos.service.ts over the gateway
      ^ extended by                        ^ extended by
    BloqueosContrato                       ControlBloqueos
      the server with an agent that          the server with the agent as it is,
      answers as the server expects          which instantiates WebSocketClient
      BloqueosContrato_proofs                ControlBloqueos_proofs
    WebSocketClient        websocket_client.py
    Sesiones               auth/ with the browser's cookie, and     Sesiones_proofs
                           the nightly job
    EntregaEventos         what the agent promises of an event (abstract)
      ^ implemented by
    TuberiaEventos         the agent's monitors, queue, consumer,   TuberiaEventos_proofs
                           storage and sender
    GestionVps             vps/, configuracion/, whitelist/,        GestionVps_proofs
                           alertas/, cron/, agent endpoints
    ClienteApi             the generated client: one request as a function of its options
      ^ extended by
    CanalVivo              auth and realtime services, dashboard.gateway.ts
      ^ extended by
    Panel    Historial    ListaBlanca    Servidores    DetalleVps
      dashboard  the two    whitelist      list and      vps-detail
                 histories                 creation
      (the first three extend Listas: filter)
      ^ composed by
    Aplicacion             app.routes.ts, authGuard, login to       Aplicacion_proofs
                           logout: one browser window

An action is the code between two awaits (server), between two acquisitions or
commands (threads of the agent), or one event of the environment. A variable is a
table, a map or a local that outlives an await. `MC*.tla` give small instances.

* **Cortafuegos** - a call begins, may change one rule at one moment, and ends with the
  result that fits that moment. A verified unblock may be noticed as failed.
* **UfwManager** - `ConsumirCuota` is `_consumir_cuota` under `_rate_lock` with the limit
  computed earlier by `Comenzar`; `TomarCandado`, `Consultar` (`_snapshot` and the
  decision), `Ejecutar`, `Verificar` are the steps under `_ufw_lock`. UFW is external:
  it obeys, refuses, or times out with or without effect. Rules for single ports that
  somebody else made are in the initial table.
* **AgentGateway** - the gateway's maps (`conexiones`, `pendientes`), the promises, the
  timers, the two directions of the network. `handleConnection` is three steps, the
  awaits in between. A socket of which the client side closed may still be in use by
  the server until the disconnect is handled.
* **BloqueosService** - `ejecutarBloqueo` and `ejecutarDesbloqueo` step by step: whitelist,
  idempotence, order, row, audit entry, including the width of the column `motivo`, the
  column default `BLOQUEADO` and errors thrown half way. Whitelist entries appear and disappear
  (`AgregarBlanca`, `QuitarBlanca`) between any two steps of its calls.
* **BloqueosContrato / ControlBloqueos** - the same server with two agents. In the first the
  answer has the field `estado` the server reads; that is the interface the server was
  written for. In the second the agent is translated from `websocket_client.py`. The
  split tells what the server's logic guarantees from what the program as a whole does.
* **WebSocketClient** - a thread per order, `ya_procesado`, execution, `_responder`; the
  memory dies with the process. `SpecCliente` is the client by itself: any order may come any
  number of times. ControlBloqueos implements it.
* **Sesiones** - every request of `auth.service.ts` step by step over the three tables, the
  cookie a request leaves with and the cookie a response brings. A crash needs no
  action: the service keeps nothing in memory, and without fairness a request may
  stop anywhere for good; a response that is never delivered is a lost one.
* **TuberiaEventos** - `run_forever` of every monitor, `consumidor` phase by phase, one step
  per POST, `guardar_eventos` as the transaction it is, the signal, and a main thread of
  which the joins may end before the threads do. Time is not counted: what an interval or a
  timeout allows may happen at any moment the code admits.
* **EntregaEventos** - the same events without threads, phases or signals: one line of events
  that are to be put on record, a batch from its head at a time, and one of those that may
  still be sent. Once the database is closed, what stands in the first line is lost (`Perder`).
* **GestionVps** - a request of a user or of an agent is a record (`llamada`) and a program
  counter (`paso`); `create` is look-up, bcrypt with insertion, ..., each handler an action
  with one disjunct per await, beside the heartbeats of each agent and the cron job,
  itself in steps. The partial unique index is `Ocupada`.
* **ClienteApi** - operators: `beforeRequest` puts security, query, body and headers
  together, `interceptor` the stored token, `request` turns the answer into data or error.
  Pages use `createQuerySerializer` (an empty filter is left out) and `Desenlaces` (what a
  promise of a page may end with: data, error, or a body that cannot be read).
* **CanalVivo** - a window's sockets (`canal`), the server's connections, who is registered,
  the session token, the signal `nuevaAlerta`. A cut and the moment the server notices are
  two actions; a browser reconnects on a new connection.
* **Listas** - `filter`: the elements of a list that pass, in their order.
* **Panel** - the list, the load under way, the effect that reacts to `nuevaAlerta` and to the
  list (Angular runs it after the event that changed a signal), the promises that put the
  VPS's name on an alert, the cards, and their two buttons.
* **Historial** - both history tables: the filter, the page, the lists in flight, the detail
  row, the unblock with its window, over the server's table that grows and changes.
* **ListaBlanca, Servidores, DetalleVps** - load, form, window of confirmation and
  requests of the other pages, over the rows of the server they are about. A page that is left
  cancels nothing: the requests it made (`propia` FALSE from then on) are still carried out, and
  what its handlers do afterwards concerns a component that is gone. What the detail removes
  leaves `servidores`, of which the list shows the rows.
* **Aplicacion** - which page is on the screen. Leaving a page destroys it (what its
  promises end with is lost, except where they navigate), entering runs its `ngOnInit`.
  A navigation is the guard (`navigate`), then the code of the page, which comes later or
  never (`Llegar`, `NoLlegar`); in between everything else goes on, and another navigation
  replaces it. The guard belongs to the parent of the private routes and is not asked again
  from one of them to another. A logout clears the session and only then begins to navigate.

## Runs

Each run names its bounds here and in its `.cfg`. `Entorno` is the set of environment
events an instance considers; an event that is left out of one run is in another.

| Run | What it checks | Instance |
|---|---|---|
| `ufw` | `DecisionVigente`, `CupoDeReglas`, `NuncaProtegida`, `VentanaDeCuota`, `CumplePromesa` (refinement of Cortafuegos) | 2 threads that call any number of times, 2 networks and a protected one, limit 1 rule, 1 operation per window of 1, clock up to 2 |
| `gateway` | `EsperaConTemporizador`, `PendienteVivo`, `OrdenUnicaConservaRespuesta`, `DesconexionPropia`, liveness `TodaOrdenSeResuelve` | 2 orders, 2 sockets of one VPS, 2 ids, all events |
| `contrato` | `BloqueadoVeraz`, `DesbloqueadoConfirmado`, `IdempotenciaSecuencial`, `RespuestaDelMismoTipo`, `AuditoriaVeraz` | 3 calls, 2 sockets, errors of the agent, restarts of the server, failing audit log |
| `contrato_datos` | `BlancaRespetada`, liveness `TodaLlamadaTermina` | 2 calls, errors, deletion of the VPS, whitelist entries that come and go, long motivos |
| `tuberia` | `VaciadoATiempo`, `EnviadoEstaGuardado`, `SinReenvio`, `CumpleEntrega` (refinement of EntregaEventos), liveness `ApagadoTermina` | 2 monitors, 3 events, up to 2 per cycle, queue of 1, batch of 2, 2 attempts, 1 restart, failing inserts and posts, maintenance, kills, impatient joins |
| `sesiones` | `TokenGastadoNoSirve`, `ReusoCierraSesiones`, `SinFalsaAlarma`, `CuentaDeQuienRegistro`, `EnlaceGastadoNoSirve` | 3 requests of one account and one browser, copies of tokens, expiry, cleaning |
| `gestion` | `UnVpsActivoPorIp`, `TrasBorrarRechazado`, `TokenReemplazadoNoSirve`, action property `PropiedadRespetada`, liveness `LatidoReactiva` | 2 requests (the first one that changes something the second can meet), 2 owners, 2 ids for one address, one agent with its heartbeats, the job, the retention, expiry of the last heartbeat |
| `web` | `RegistroCompleto`, `UltimaEnVivoVisible`, `PaginasFieles`, `BlancaFiel`, `NoPisaConfiguracion`, action property `SinSesionNoSeEntra`, liveness `BotonResponde` | one window in 16 surroundings (below), 2 alerts, 2 sockets, 2 connections, pages of 1 row over 2 rows, 2 entries, 3 servers of which 2 are made, 2 fields with 2 values, 2 tokens |

What some of them say, and what they leave out:

* `AuditoriaVeraz` relates the audit log, the rows and the firewall: what is written is true. It
  does not say that everything is written: see the calls that leave no trace, below.
* `BlancaRespetada`: no block is ordered for an address that was covered by the whitelist all the
  time since the call began. An entry that is removed before the call reads the list covers
  nothing, and the code orders the block.
* `VaciadoATiempo`: if the consumer ends before the database is closed, what was in the queue or
  in its buffer when the signal came is on record, or its insert failed. What a monitor puts
  afterwards is the violation run `tuberia_apagado`.
* `TrasBorrarRechazado` is about the requests that look for a VPS with `deletedAt` null, the
  agent's among them, and begin after the deletion was answered. The whitelist entries of a
  deleted VPS are still listed and removed (`whitelist.service.ts:61-89`), and a request that was
  past its look-up goes on.
* `UltimaEnVivoVisible` excepts an alert that its owner dismissed and one whose enrichment threw:
  that one is on no list until the page is entered again.
* `BlancaFiel`, `ServidoresFiel`: pages that are kept up to date by hand. Excepted is a page that
  was told less than what was done: an answer was lost, an entry was added before the first list
  came, or the request of a page that was left was carried out after the list was read.
* `SinSesionNoSeEntra`: from outside of the dashboard nobody gets into it without a session,
  though the guard is asked before the code of the page is fetched and a logout may be answered
  in between. It does not say that a page is left when the session ends.

Every module has a type predicate (`TypeOK...`), which is a theorem; `ufw` also
checks its own, the others follow from inductive invariants that were checked whole.

The `web` run starts in one of the surroundings of `MCEntornos`: which routes the window
visits, which alerts exist before, and what happens there (cuts, blocks, filters,
creations, saves, ...). Pages that share no state are explored apart, since nothing of one
can be seen in the other; each page is also left and entered again, and the panel, the
detail and the public forms are explored together with login and logout. Two of everything
is what it takes for an answer to be older than what it replaces, three lists in flight
(`Listados`) for an old one to come between two new ones.

Why these bounds are enough to be interesting: all races here are between two calls and
one event of the environment (a timer, a cut, a second socket, an expiry), and three
calls let a third one observe what two left behind. One VPS and one address suffice
for the order path because the maps are indexed by VPS and no query relates two addresses;
two ids are needed because maps are also indexed by id. `MaxReglas` and
`RateLimitOps` are 1 so that the limit is met by the second operation: the code only
compares with them. `MaxReloj` is 2 so that a window can end and a second one begin.
A call of a user takes a fresh id in every attempt; unblocks may share the id of a
block. The process of the event pipeline restarts once at most; the server's any number of times.
Symmetry is used in the runs without liveness properties, over values that no
definition chooses among.

Fairness: `gateway` assumes only that a started timer eventually fires (`setTimeout` in a
live process; a restart ends the call). `tuberia` assumes that every thread that can move
eventually does: each blocking call of the agent has a timeout (1 s, 2 s, 10 s). `contrato_datos`
assumes the steps of a call that are due are eventually taken: the event loop serves every ready continuation. Nothing
is assumed of the agent or the network. `gestion` assumes that the agent goes on sending
heartbeats and that these are answered: the consumer's loop comes round (each of its calls
has a timeout, and the sender catches its errors) and the service unit restarts it after a failure;
a user's request may stop anywhere. `web` assumes that a
request to block is answered, well or badly: the gateway gives up on an agent after 5 s, and
a browser on a server. Loads, other answers and clicks are not fair. All other runs assume
nothing.

### Findings

Runs with `expect: violation` show where the program does not do what its own documents,
comments or declarations say.

| Run | Property | Trace |
|---|---|---|
| `control_veraz` | `BloqueadoVeraz` | the agent's answer has no `estado`; the lookup gives `undefined`, Prisma takes the default: a failed block is stored as BLOQUEADO |
| `contrato_duplicado` | `UnaFilaActiva` | two overlapping calls for one address both pass the idempotence check and both create an active row |
| `control_desbloqueo` | `DesbloqueoCumplido` | an unblock carries the id of its block, which the agent remembers: it answers `orden ya procesada` with exito and leaves the rule. Only an agent that forgot the block (restart, clearing of the memory) can unblock |
| `tuberia_apagado` | `ApagadoSinPerdida` | the signal comes while a monitor collects; the consumer sees an empty queue and ends; the monitor puts its event, which nobody takes |

Met on the way, without a run of their own. On the order path: not every block is audited, as
`src/README.md:62` says it is. A call that the process's end cuts short after the order, and one
of which `create` fails (a motivo of 500 characters plus the suffix the service appends does not
fit its column), leave a denied address with neither row nor entry; an audit entry that fails is
only logged. An automatic block has no user, so its look-up of global whitelist entries is for any
user (`bloqueos.service.ts:55`), though `create-whitelist.dto.ts:9` says `todos los VPS del
usuario`: one user's entry stops the automatic blocks of another's VPS. As no answer has the
field `estado`, the user is told 404 even of an unblock that was carried out, and the
audit log says `bloqueo_fallido` of a row that says BLOQUEADO. A socket that closes while
`handleConnection` awaits is registered afterwards and stays until the agent connects again, so
`isConnected` says true of it. Two unblocks that wait under one id cannot be told apart, one of
them gets no answer.

In the agent: besides `tuberia_apagado`, the database may be closed under a consumer that is
still in the retries of a batch it began to send before the signal (`main.py:53-55` wants to rule
that out and does at the beginning of a batch only); what it takes from the queue afterwards is
stored nowhere (`~tarde` in `VaciadoATiempo`, `Perder` in EntregaEventos). A batch of which
the insert fails is logged, sent and forgotten; a failed send is not repeated later; a POST that
timed out but was processed is repeated and counts twice.

In the sessions: a password reset leaves the open sessions of the user open; two refreshes
that overlap both succeed and leave two live successors of one token, which is why
`TokenGastadoNoSirve` speaks of requests that begin after the first has ended, and
`ReusoCierraSesiones` excepts sessions of requests still under way at the detection; two resets
that overlap both succeed, and a crash before `usedAt` is written leaves the link usable.

In the services: the loser of two creations of one address gets the unique index's error,
which `create` does not turn into the 409 of its own check; global whitelist entries
(`vpsId` null) are never equal for their unique index and can be there twice; a heartbeat or the
job that decided from an old row takes a deleted VPS out of `ELIMINADO` (its `deletedAt` stays, and
every look-up goes by that).

In the client: errors of the server carry `statusCode`, and the pages look at `status`, so the
texts for 409 in `whitelist.component.ts:312`, `create-vps-modal.component.ts:306` and the
registration never appear; the duplicate check of `dashboard.component.ts:327` precedes an
await, so an alert can be twice on the panel (ten steps: alert, page left and entered while
its load runs), and a block is then answered at the first of the two cards, which is why
`BotonResponde` excepts them; a false positive of the last live alert, which line 405 means to
remove, is put back by the effect (322-331, which depends on the list);
`nuevaAlerta` outlives the logout and shows in the next session; a second socket opened while the
first is connecting outlives it too, against `realtime.service.ts:10-12`; after a logout the private
page stays on the screen until the code of the login came, for good if that import fails, and
links from one private page to another still work, since the guard is the parent's and is not
asked again; a list of VPSs that was read while a removal was under way still shows the removed
one; the access token is never renewed,
since nothing calls `AuthService.refresh`; lists are applied in the order their answers
come, and a filter keeps the page number, so a table may be empty though rows match; a
detail may open under another row; `desbloqueandoId` knows one request only; the names of
the VPSs are loaded once per window; a creation window that is closed too early loses the
token it would have shown; two renewals of a token can leave the older on the screen (why
`TokenFiel` excepts them); two windows overwrite each other's configuration;
forgot-password says that mail was sent even if the request failed.

## Proofs

`tlapm` checks every leaf; the theorems hold for every value of the constants that satisfies
the `ASSUME`s. Those ask only what a reader would take for granted: limits and counts are
natural numbers (a queue, a batch or a page holds at least one), the sets of calls, VPSs and
tokens are disjoint and `Nada` ("no value": `null`, an empty signal) is in none of them, every
VPS of the block service has an owner, no two of the VPSs that exist at the start have one
owner, and there are finitely many alerts, servers, whitelist entries and rows of a history. The
one other hypothesis is of `EjecucionUnicaSiempre`: the size of the memory is a natural number.

**UfwManager_proofs.** The inductive invariant has three parts. *Lock*: exactly the thread
in `consulta`, `ejecutar` or `verificar` holds `_ufw_lock`; this is what makes
`DecisionVigente` inductive, since any other change of the rules would need the lock.
*Admission*: a thread past the first check has an order that is not `Rechazable`, so no
protected network is ever written. *Quota*: `recientes` contains every accepted operation
of the window that ends now; a thread that computed its limit earlier prunes less, never
more, so counting `recientes` counts the window. `CupoDeReglas` follows from
`DecisionVigente` when the rule is inserted. The refinement `Spec => Promesa!Spec` maps the
intermediate phases to "in progress" and needs `DecisionVigente` for the step that ends a
call with a result.

**AgentGateway_proofs.** Waiting calls, timers, the table and the ids keep one another true:
a call waits iff its promise is pending, iff it has a timer; every entry of the table
belongs to a waiting call with that id; a waiting call that is alone with its id has the
entry. None of the three is inductive without the others. `EsperaConTemporizador`,
`PendienteVivo`, `OrdenUnicaConservaRespuesta` follow, and `DesconexionPropia` as an action
property.

**BloqueosContrato_proofs.** What makes `RespuestaDelMismoTipo` true is a chain through
every table: an unblock is ordered only for a row that is not FALLIDO; such a row exists only
because its block was answered; an order is on the wire at most once, so a block that was
answered has no message left; hence an answer with that id is the unblock's (`MismoTipo`). The
invariant (`IInvContrato`) is that of the gateway and five groups: how far a call is and with
which arguments, what each message on the wire belongs to and which socket it travels on,
that the answers are true of the firewall, what an order leaves behind, and what the rows
claim. `BloqueadoVeraz`, `DesbloqueadoConfirmado`, `BlancaRespetada` (a call whose address has
been covered since it began finds an entry when it looks, though not always the same one:
`BlancaVista`), `AuditoriaVeraz` (a row is not changed any more by the call that is about to tell
of it: `Bitacora`)
and `IdempotenciaSecuencial` (of two blocks of one address, one after the other, the second
finds what the first wrote) follow. Steps that touch no row are first reduced to one relation,
`Avance`, so that the claims about rows are proved for it once.

**ControlBloqueos_proofs.** The path with the agent of this repository: every variable keeps its
type, a thread of the agent belongs to a call that was made, and what reaches the firewall is a
complete order (`InvarianteControl`). From that, `ControlEsCliente`: every step of server,
network and agent together is a step of `SpecCliente` or leaves the client alone, so whatever
is proved of the client under any deliveries holds here. And that is `EjecucionUnicaSiempre`: the
memory of the running process is exactly the ids it let through, or these are more than fit
(`MemoriaCompleta`); so the same order reaches the firewall twice in one life of the process only
if that life let through more different ids than the memory holds. The size is counted, so the
claim covers the clearing too. What the memory costs, the unblock it swallows, is the run
`control_desbloqueo`.

**Sesiones_proofs.** Every step, of a handler, the browser or the nightly job, is an instance
of `Cambio`, six forms that say who moves and what the tables may do; the invariant is proved
for them. `Base` says where a handler is, what it knows and that a token is created once and
is in a cookie only after the answer that brought it. On it rest: what was spent stays spent
and who began later cannot renew it (`GastoFirme`, `EnlaceFirme`); after a mass revocation an
open session belongs to a request that was under way (`MasivaFirme`); a revoked row has
somebody who revoked it (`RevocadaPorAlguien`) and a browser never presents again what it
knows to be spent (`GalletaFirme`), so whoever is accused of reuse is accused with reason.
`CuentaDeQuienRegistro` follows from `CuentaFirme`: who registered keeps the password until a
request resets it. A fresh token is the least that was not issued, which exists because the
order of the naturals is well-founded.

**TuberiaEventos_proofs.** An event is in one place of the pipeline, once (`UnLugar`); what the
threads hold in each phase (`Marcha`); an event that is still to be sent has arrived as often
as it was tried and was not confirmed (`PorEnviar`); what was accepted is in the database, the
queue or the buffer, unless the database was closed under the consumer (`Cierre`, `Custodia`).
`VaciadoATiempo` and `EnviadoEstaGuardado` need them all,
`SinReenvio` is an action property. The lemmas on sequences (append, tail, prefix) are stated
once, in terms of the set of elements and the absence of repetitions.

The refinement `Spec => Entrega!Spec` reads two lines off the threads: an event waits while it is
in the queue or in a buffer that is not stored (the buffer is the head of that line), and may
still be sent once its buffer is. So taking from the queue is a stutter, storing a batch moves the
head from one line to the other, a POST concerns the first of the second line, the retries
that a shutdown cuts short are a line that is given up, and an insert into a closed database loses
the head of the first line. That an event a monitor holds is in
neither line, and that a monitor gives up only what it holds, needs `UnLugar` and `Marcha`.

**GestionVps_proofs.** Each handler looks something up and writes later by an id. `Conforme(h)`
says what it may rely on in between: the row it found exists and is its owner's
(`Encontrada`), a token that was replaced does not pass the guard (`Obsoleta`), who came after
a deletion does not pass a look-up for `deletedAt` null (`Tardia`). `Perdura` says what no step may do to a row:
remove it, change its owner or its address, bring it back from deletion. `TrasBorrarRechazado`,
`TokenReemplazadoNoSirve` and, as an action property, `PropiedadRespetada` follow;
`UnVpsActivoPorIp` is kept by the partial unique index of the migrations.

**Aplicacion_proofs.** The components share the session and the last live alert, so each has
invariants of its own and a lemma that says what a step of the window is for it (`Casos*`): the
session, the route and the channel (`RegistroCompleto`; `SinSesionNoSeEntra`: whoever is on the way into the dashboard from outside
has a session until he arrives, because a logout that is answered meanwhile replaces the
navigation, `DeLaGuarda`); the panel
(`UltimaEnVivoVisible`: whatever the load was doing when it came); the list of servers (what a
screen lacks is a request under way, removals included: `ServidoresFiel`; a creation is of a server that is in no
list: `NingunServidorDosVeces`); the detail of a VPS (a form that is saved has been read:
`NoPisaConfiguracion`; `TokenFiel`); the histories (`FilasDelServidor`).

Three of them are about lists. The *whitelist* (`IInvBlanca`): the server's list and the page's
have the same elements in the same order but for what this page asked for, is done and not yet answered;
what pages that were left still have in flight comes to both or marks the page as told too little;
equality at rest follows because a list with one of each is determined by its elements and their order
(`MismaLista`). The *rows that were unblocked* (`IInvLiberadas`): they are closed in the table
and in what the newest request brings, whatever older ones bring. The *cards of the panel*
(`IInvPanel`): a card that says `Bloqueando...` is on the screen and has its request in flight,
or its alert has a card before it, which is where the request went; a reload keeps only first
cards, so none is left without either (`BotonConPeticion`). What `filter` keeps (`FiltroConserva`)
is proved without induction: the positions of a filter are those of a finite set of numbers in
ascending order, and if some finite set could not be enumerated there would be a least one.
With these, `BlancaFiel` and the parts of `PaginasFieles` are theorems.

**Only model-checked**, because this prover cannot reach it: liveness. `TodaOrdenSeResuelve`,
`TodaLlamadaTermina`, `ApagadoTermina`, `LatidoReactiva` and `BotonResponde` say that every
order is settled, every call and the shutdown end, the agent becomes active again and every
button answers. Of two of them the safety half is proved: who waits for an order has a timer
(`EsperaConTemporizador`), a button that waits has its request (`BotonConPeticion`).

## Not modelled, and why

* The monitors of the agent (log positions, windows of attempts): planned, below.
* Parsing and formatting, hashes and signatures (values); mail (fire and forget, no state);
  health check; access tokens (stateless); `User.activo` (nothing clears it); `RevokedToken` and
  `Aislamiento` (no code writes them); deployment.
* Connections without headers, which are refused at once and leave no state.
* Of the client: the header of the dashboard (agent state and counters, read on entry),
  toasts, the clipboard, styles, the static page `nosotros`, a reload of the window (it is
  the initial state with a token). Of the generated code: server-sent events (never
  called), path and body serializers, merging of headers, the declarations of types.
* The first connection of `run_forever` in the control client: a thread that returns.
* Of a history's list, that the service reads the page and the count in two queries: `findAll`
  answers with both as of one moment, so a page count that is one behind is not seen.

## Plan

Done, in this order, because an error there blocks the wrong address or leaves one open: the
order path from the block service to UFW; sessions and the agent's pipeline; the VPSs
with everything that hangs on them; the client over all of it. Next:

1. `LectorLog` - the monitors' position in a log that rotates or is truncated between any
   two of `stat`, `open` and `read`, and the windows of attempts: no line lost or read twice
   but for the rotations that hit a cycle, one alert per minute, every burst reported.
2. Theorems: the invariants of `LectorLog`; `LectorLog` with TuberiaEventos in the place of the
   events that a monitor finds.
3. The live list of the panel as a function of the server's alerts, as an abstract
   specification. It holds only once the duplicate check is made after the await.

A run of the client against a modelled VPS service adds nothing: what the pages see of it
are the rows each of them already has.
