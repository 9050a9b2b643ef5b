-------------------------------- MODULE Panel --------------------------------
(***************************************************************************)
(* client dashboard.component.ts, alert-card.component.ts and              *)
(* dashboard.service.ts: the list of pending alerts, which is loaded once, *)
(* grows by the live channel and shrinks by what its owner decides.        *)
(*                                                                         *)
(* The effect of the constructor reads the signals nuevaAlerta and         *)
(* alertas, so a change of either makes it run again, some time later.  A  *)
(* card is an instance of AlertCardComponent: an alert that is in the list *)
(* twice has two, and ngFor keeps a card as long as its alert is there.    *)
(*                                                                         *)
(* Abstracted: what a card says, the counts, the text search (a filter     *)
(* hides a set of alerts), the flash of new cards and the header.          *)
(***************************************************************************)
EXTENDS CanalVivo, Listas, SequencesExt

CONSTANTS
  Copias,   \* BOUND: how often an alert may be in the list
  Filtros   \* BOUND: the sets of alerts that a filter hides

ASSUME PanelConstantes ==
  IsFiniteSet(Alerta) /\ Copias \in Nat \ {0} /\ Filtros \subseteq SUBSET Alerta

VARIABLES
  montado,       \* the component exists
  lista,         \* the signal alertas, as cards
  oculta,        \* the alerts that the filter hides
  carga,         \* getAlertasPendientes: whether the map and the list have come
  foto,          \* what the list in flight contains
  mapa,          \* DashboardService.vpsMap is cached, for good: with names, or empty
  huerfana,      \* a load of the map outlives the component that asked for it
  efecto,        \* the effect is to run
  enriqueciendo, \* how many enriquecerConVps of an alert await the map
  perdidas,      \* the alerts whose enriquecerConVps threw
  bloqueo,       \* bloqueo[t]: bloqueoEstado of card t
  falso,         \* falso[t]: fpEstado of card t
  pedidos,       \* the block and false positive requests, with the card they found
  descartadas    \* the alerts the server has as false positives

varsPanel == <<montado, lista, oculta, carga, foto, mapa, huerfana, efecto, enriqueciendo,
               perdidas, bloqueo, falso, pedidos, descartadas>>
varsTarjetas == <<bloqueo, falso, pedidos, descartadas>>

Tarjeta == Alerta \X (1 .. Copias)
Paso == {"no", "pedido", "atendido", "listo"}
Pedido == [clase : {"bloquear", "falso"}, alerta : Alerta, tarjeta : Tarjeta \cup {Nada},
           vigente : BOOLEAN]

ASSUME NadaNoEsTarjeta == Nada \notin Tarjeta

TypeOKPanel ==
  /\ montado \in BOOLEAN
  /\ lista \in Seq(Tarjeta) /\ IsInjective(lista)
  /\ oculta \in SUBSET Alerta
  /\ carga \in [mapa : Paso, alertas : Paso]
  /\ foto \in Seq(Alerta)
  /\ mapa \in BOOLEAN
  /\ huerfana \in BOOLEAN /\ efecto \in BOOLEAN
  /\ enriqueciendo \in [Alerta -> 0 .. Copias]
  /\ perdidas \subseteq Alerta /\ descartadas \subseteq Alerta
  /\ bloqueo \in [Tarjeta -> {"idle", "loading", "bloqueada", "fallido"}]
  /\ falso \in [Tarjeta -> {"idle", "loading"}]
  /\ pedidos \subseteq Pedido

EnLista(a) == \E i \in DOMAIN lista : lista[i][1] = a
Visible(t) == (\E i \in DOMAIN lista : lista[i] = t) /\ t[1] \notin oculta
SinCarga == [mapa |-> "no", alertas |-> "no"]

InitPanel ==
  /\ montado = FALSE
  /\ lista = <<>> /\ oculta = {} /\ foto = <<>>
  /\ carga = SinCarga
  /\ mapa = FALSE
  /\ huerfana = FALSE /\ efecto = FALSE
  /\ enriqueciendo = [a \in Alerta |-> 0]
  /\ perdidas = {} /\ descartadas = {}
  /\ bloqueo = [t \in Tarjeta |-> "idle"]
  /\ falso = [t \in Tarjeta |-> "idle"]
  /\ pedidos = {}
------------------------------------------------------------------------------
(* The list *)

\* A card that is no longer shown is destroyed: its buttons are forgotten, and an answer
\* that comes for it changes nothing.
Destruir(quedan) ==
  /\ bloqueo' = [t \in Tarjeta |-> IF t \in quedan THEN bloqueo[t] ELSE "idle"]
  /\ falso' = [t \in Tarjeta |-> IF t \in quedan THEN falso[t] ELSE "idle"]

Soltar(conjunto, quedan) ==
  {[p EXCEPT !.tarjeta = IF @ \in quedan THEN @ ELSE Nada] : p \in conjunto}
Abandonar(conjunto) == {[p EXCEPT !.tarjeta = Nada, !.vigente = FALSE] : p \in conjunto}

\* Mutant: the effect depends on the live alert alone.
ponerLista_sinDependencia(l) ==
  /\ lista' = l
  /\ UNCHANGED efecto

\* alertas.set and alertas.update.
ponerLista(l) ==
  /\ lista' = l
  /\ efecto' = TRUE

\* A copy of alert a that is not in the list.
Copia(a) == CHOOSE n \in 1 .. Copias + 1 :
              /\ \A i \in DOMAIN lista : lista[i] # <<a, n>>
              /\ \A m \in 1 .. n - 1 : \E i \in DOMAIN lista : lista[i] = <<a, m>>
CabeOtra(a) == Copia(a) <= Copias

\* ngFor tracks cards by the id of their alert and keeps them in their order: the cards that
\* alert a had take its first places, and the new one the last.
Anteponer(a) ==
  LET con == <<<<a, Copia(a)>>>> \o lista
      Tras(i) == {j \in DOMAIN con : j > i /\ con[j][1] = a}
  IN ponerLista([i \in DOMAIN con |->
                   CASE con[i][1] # a -> con[i]
                     [] con[i][1] = a /\ Tras(i) # {} -> con[Min(Tras(i))]
                     [] OTHER -> con[1]])

\* cargarVpsMap: with a map at hand it is no request.
Montar ==
  /\ ~montado
  /\ montado' = TRUE
  /\ carga' = [mapa |-> IF mapa THEN "listo" ELSE "pedido", alertas |-> "pedido"]
  /\ efecto' = TRUE
  /\ UNCHANGED <<lista, oculta, foto, mapa, huerfana, enriqueciendo, perdidas, varsTarjetas>>

\* Answers that come later find signals that nobody reads; the service keeps the map.
Desmontar ==
  /\ montado
  /\ montado' = FALSE
  /\ lista' = <<>> /\ oculta' = {} /\ foto' = <<>>
  /\ carga' = SinCarga
  /\ huerfana' = (huerfana \/ carga.mapa = "pedido" \/ \E a \in Alerta : enriqueciendo[a] > 0)
  /\ efecto' = FALSE
  /\ enriqueciendo' = [a \in Alerta |-> 0]
  /\ perdidas' = {}
  /\ Destruir({})
  /\ pedidos' = Abandonar(pedidos)
  /\ UNCHANGED <<mapa, descartadas>>

MapaHuerfano ==
  /\ huerfana
  /\ huerfana' = FALSE
  /\ mapa' \in {mapa, TRUE}
  /\ UNCHANGED <<montado, lista, oculta, carga, foto, efecto, enriqueciendo, perdidas,
                 varsTarjetas>>

\* AlertasService.findAll: what is DETECTADA now; the order is of no consequence.
AtenderLista ==
  /\ carga.alertas = "pedido"
  /\ carga' = [carga EXCEPT !.alertas = "atendido"]
  /\ foto' = SetToSeq(emitidas \ descartadas)
  /\ UNCHANGED <<montado, lista, oculta, mapa, huerfana, efecto, enriqueciendo, perdidas,
                 varsTarjetas>>

\* alertCards.find: the first card of that alert, which need not be the one clicked.
Encontrada(a) ==
  lista[CHOOSE i \in DOMAIN lista : lista[i][1] = a /\ \A j \in 1 .. i - 1 : lista[j][1] # a]

\* The cards of a loaded list: ngFor keeps the first of each alert that stays.
TarjetasDe(alertas) ==
  [i \in DOMAIN alertas |->
     IF EnLista(alertas[i]) THEN Encontrada(alertas[i])
     ELSE <<alertas[i], 1>>]

\* Promise.all: the last answer sets the list, the first that fails empties it.
Cargar(c) ==
  /\ carga' = IF c.mapa = "listo" /\ c.alertas = "listo" THEN SinCarga ELSE c
  /\ IF c.mapa = "listo" /\ c.alertas = "listo"
     THEN LET nueva == TarjetasDe(foto) IN
          /\ ponerLista(nueva)
          /\ Destruir(ToSet(nueva))
          /\ pedidos' = Soltar(pedidos, ToSet(nueva))
          /\ foto' = <<>>
     ELSE UNCHANGED <<lista, efecto, foto, bloqueo, falso, pedidos>>
  /\ UNCHANGED <<montado, oculta, huerfana, enriqueciendo, perdidas, descartadas>>

CargaFallida ==
  /\ carga' = SinCarga
  /\ ponerLista(<<>>)
  /\ Destruir({})
  /\ pedidos' = Soltar(pedidos, {})
  /\ foto' = <<>>
  /\ UNCHANGED <<montado, oculta, enriqueciendo, perdidas, descartadas>>

ListaRecibida ==
  /\ carga.alertas \in {"pedido", "atendido"}
  /\ \/ /\ carga.alertas = "atendido"
        /\ Cargar([carga EXCEPT !.alertas = "listo"])
        /\ UNCHANGED mapa
     \/ /\ CargaFallida
        /\ huerfana' = (huerfana \/ carga.mapa = "pedido")
        /\ UNCHANGED mapa

\* An error caches an empty map; only a body that cannot be read throws.
MapaRecibido ==
  /\ carga.mapa = "pedido"
  /\ \/ Cargar([carga EXCEPT !.mapa = "listo"]) /\ mapa' = TRUE
     \/ CargaFallida /\ UNCHANGED <<mapa, huerfana>>
------------------------------------------------------------------------------
(* The effect *)

\* Nothing live, or it is in the list already: done.
EfectoNada ==
  /\ efecto
  /\ nuevaAlerta = Nada \/ EnLista(nuevaAlerta)
  /\ efecto' = FALSE
  /\ UNCHANGED <<montado, lista, oculta, carga, foto, mapa, huerfana, enriqueciendo, perdidas,
                 varsTarjetas>>

\* With a map the alert is prepended before anything else can happen.
EfectoAntepone ==
  /\ efecto /\ nuevaAlerta # Nada /\ ~EnLista(nuevaAlerta)
  /\ mapa
  /\ Anteponer(nuevaAlerta)
  /\ UNCHANGED <<montado, oculta, carga, foto, mapa, huerfana, enriqueciendo, perdidas,
                 varsTarjetas>>

EfectoEnriquece ==
  /\ efecto /\ nuevaAlerta # Nada /\ ~EnLista(nuevaAlerta)
  /\ ~mapa /\ enriqueciendo[nuevaAlerta] < Copias
  /\ enriqueciendo' = [enriqueciendo EXCEPT ![nuevaAlerta] = @ + 1]
  /\ efecto' = FALSE
  /\ UNCHANGED <<montado, lista, oculta, carga, foto, mapa, huerfana, perdidas, varsTarjetas>>

\* enriquecerConVps ends: nobody looks at the list again before it is prepended.
Enriquecida(a) ==
  /\ enriqueciendo[a] > 0 /\ CabeOtra(a)
  /\ enriqueciendo' = [enriqueciendo EXCEPT ![a] = @ - 1]
  /\ \/ /\ mapa' = TRUE
        /\ Anteponer(a)
        /\ UNCHANGED perdidas
     \/ /\ perdidas' = perdidas \cup {a}
        /\ UNCHANGED <<mapa, lista, efecto>>
  /\ UNCHANGED <<montado, oculta, carga, foto, huerfana, varsTarjetas>>

\* The event of the channel.
RecibirViva(k) ==
  /\ Recibir(k)
  /\ efecto' = montado
  /\ UNCHANGED <<montado, lista, oculta, carga, foto, mapa, huerfana, enriqueciendo, perdidas,
                 varsTarjetas>>
------------------------------------------------------------------------------
(* What the owner does.  Two equal requests in flight are one. *)

Pedir(clase, t) ==
  pedidos' = pedidos \cup {[clase |-> clase, alerta |-> t[1], tarjeta |-> Encontrada(t[1]),
                            vigente |-> TRUE]}

\* filtroSeveridad and searchText.
Filtrar(s) ==
  LET quedan == {t \in Tarjeta : Visible(t) /\ t[1] \notin s} IN
  /\ montado /\ oculta # s
  /\ oculta' = s
  /\ Destruir(quedan)
  /\ pedidos' = Soltar(pedidos, quedan)
  /\ UNCHANGED <<montado, lista, carga, foto, mapa, huerfana, efecto, enriqueciendo, perdidas,
                 descartadas>>

onBloquear(t) ==
  /\ Visible(t) /\ bloqueo[t] \notin {"loading", "bloqueada"}
  /\ bloqueo' = [bloqueo EXCEPT ![t] = "loading"]
  /\ Pedir("bloquear", t)
  /\ UNCHANGED <<montado, lista, oculta, carga, foto, mapa, huerfana, efecto, enriqueciendo,
                 perdidas, falso, descartadas>>

onMarcarFalsoPositivo(t) ==
  /\ Visible(t) /\ falso[t] = "idle"
  /\ falso' = [falso EXCEPT ![t] = "loading"]
  /\ Pedir("falso", t)
  /\ UNCHANGED <<montado, lista, oculta, carga, foto, mapa, huerfana, efecto, enriqueciendo,
                 perdidas, bloqueo, descartadas>>

\* Mutant: a failed request leaves the card as it is.
setBloqueoResultado_sinCatch(p, estado) ==
  bloqueo' = IF p.tarjeta = Nada \/ estado = "fallido" THEN bloqueo
             ELSE [bloqueo EXCEPT ![p.tarjeta] = estado]

setBloqueoResultado(p, estado) ==
  bloqueo' = IF p.tarjeta = Nada THEN bloqueo ELSE [bloqueo EXCEPT ![p.tarjeta] = estado]

\* A 201 with BLOQUEADO; a 201 with FALLIDO, or no answer of use.
BloqueoRespondido(p) ==
  /\ p \in pedidos /\ p.clase = "bloquear"
  /\ pedidos' = pedidos \ {p}
  /\ \E estado \in {"bloqueada", "fallido"} : setBloqueoResultado(p, estado)
  /\ UNCHANGED <<montado, lista, oculta, carga, foto, mapa, huerfana, efecto, enriqueciendo,
                 perdidas, falso, descartadas>>

\* updateEstado takes effect in the server before, and perhaps without, its answer.
FalsoEnServidor(p) ==
  /\ p \in pedidos /\ p.clase = "falso" /\ p.alerta \notin descartadas
  /\ descartadas' = descartadas \cup {p.alerta}
  /\ UNCHANGED <<montado, lista, oculta, carga, foto, mapa, huerfana, efecto, enriqueciendo,
                 perdidas, bloqueo, falso, pedidos>>

FalsoRespondido(p) ==
  /\ p \in pedidos /\ p.clase = "falso"
  /\ \/ LET quedan == {t \in Tarjeta : Visible(t) /\ t[1] # p.alerta} IN
        /\ p.vigente /\ p.alerta \in descartadas
        /\ ponerLista(filter(lista, {t \in Tarjeta : t[1] # p.alerta}))
        /\ Destruir(quedan)
        /\ pedidos' = Soltar(pedidos \ {p}, quedan)
     \/ /\ falso' = IF p.tarjeta = Nada THEN falso ELSE [falso EXCEPT ![p.tarjeta] = "idle"]
        /\ pedidos' = pedidos \ {p}
        /\ UNCHANGED <<lista, efecto, bloqueo>>
  /\ UNCHANGED <<montado, oculta, carga, foto, mapa, huerfana, enriqueciendo, perdidas,
                 descartadas>>
------------------------------------------------------------------------------
Respuestas ==
  \/ ListaRecibida \/ MapaRecibido
  \/ \E a \in Alerta : Enriquecida(a)
  \/ \E p \in pedidos : BloqueoRespondido(p) \/ FalsoRespondido(p)
------------------------------------------------------------------------------
(* Properties *)

\* The last alert that came live, and was not dismissed, is on the panel once everything is
\* at rest, though the list that was being loaded when it came was older and replaced it.
\* Excepted is the alert whose enrichment threw: nothing puts that one on the panel.
UltimaEnVivoVisible ==
  /\ montado /\ ~efecto /\ carga = SinCarga
  /\ nuevaAlerta \notin perdidas \cup descartadas \cup {Nada}
  /\ enriqueciendo[nuevaAlerta] = 0
  => EnLista(nuevaAlerta)

\* A button that says `Bloqueando...` is answered, whatever became of the list meanwhile,
\* unless its alert has another card: then the answer goes to the first of them.
BotonResponde ==
  \A t \in Tarjeta :
    []<>(bloqueo[t] # "loading" \/ \E u \in Tarjeta \ {t} : u[1] = t[1] /\ Visible(u))
==============================================================================
