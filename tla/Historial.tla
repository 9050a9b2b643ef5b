------------------------------ MODULE Historial ------------------------------
(***************************************************************************)
(* client alertas-historial.component.ts and bloqueos-historial.component  *)
(* .ts, with findAll of the server's alertas.service.ts and                *)
(* bloqueos.service.ts: a table of rows by pages, with a filter.           *)
(*                                                                         *)
(* The two pages are the same but for what a row does: an alert unfolds,   *)
(* a block can be undone.  Nothing waits for the list that is being        *)
(* loaded: the filters and the pages can be used meanwhile, and every      *)
(* answer is applied as it comes, whatever was asked since.                *)
(*                                                                         *)
(* Abstracted: the select boxes (one stands for all: the state of a row)   *)
(* with the list of VPS that fills one of them, the cells, and that the    *)
(* rows of a page and their number are two queries (Promise.all), between  *)
(* which a row may change: the number is then one of another moment.       *)
(***************************************************************************)
EXTENDS ClienteApi, Listas, SequencesExt

CONSTANTS
  Fila,       \* alerts, or blocks
  limit,      \* the rows of a page
  Listados    \* BOUND: how often the page may ask for the list

ASSUME HistorialConstantes ==
  limit \in Nat \ {0} /\ Listados \in Nat \ {0} /\ IsFiniteSet(Fila) /\ Nada \notin Nat

VARIABLES
  clase,        \* "alertas" or "bloqueos": the page on the screen, Nada for none
  hist,         \* the signals of the component
  tabla,        \* the rows of the server, newest first
  listados,     \* the requests for the list that are not answered
  detallando,   \* the alerts whose detail was asked for
  desbloqueos,  \* the unblockings that are not answered
  liberadas     \* history: the rows whose unblocking was confirmed to the page

varsHistorial == <<clase, hist, tabla, listados, detallando, desbloqueos, liberadas>>

\* DETECTADA and BLOQUEADO are "activa"; the states that follow them "cerrada".
EstadoFila == {"activa", "cerrada"}
Renglon == [id : Fila, estado : EstadoFila]

\* pedidas, aplicada and vieja are history: how many lists were asked for, which of them the
\* rows are of, and whether the table changed since that one was read.
HistNuevo ==
  [filas |-> <<>>, totalPages |-> 1, page |-> 1, filtro |-> Nada, isLoading |-> TRUE,
   expandedId |-> Nada, expandedDetail |-> Nada, objetivo |-> Nada, desbloqueandoId |-> Nada,
   pedidas |-> 0, aplicada |-> 0, vieja |-> FALSE]

TypeOKHistorial ==
  /\ clase \in {"alertas", "bloqueos", Nada}
  /\ hist.filas \in Seq(Renglon) /\ tabla \in Seq(Renglon)
  /\ hist.totalPages \in Nat /\ hist.page \in Nat \ {0}
  /\ hist.filtro \in EstadoFila \cup {Nada}
  /\ hist.isLoading \in BOOLEAN /\ hist.vieja \in BOOLEAN
  /\ {hist.expandedId, hist.expandedDetail, hist.objetivo, hist.desbloqueandoId} \cup detallando
       \cup liberadas \subseteq Fila \cup {Nada}
  /\ hist.pedidas \in 0 .. Listados /\ hist.aplicada \in 0 .. hist.pedidas
  /\ desbloqueos \subseteq [id : Fila, hecho : BOOLEAN]
  /\ {l.n : l \in listados} \subseteq 1 .. hist.pedidas

InitHistorial ==
  /\ clase = Nada /\ hist = HistNuevo
  /\ \E n \in 0 .. Cardinality(Fila) : \E orden \in SetToSeqs(Fila) :
       \E estado \in [1 .. n -> EstadoFila] :
         tabla = [i \in 1 .. n |-> [id |-> orden[i], estado |-> estado[i]]]
  /\ listados = {} /\ detallando = {} /\ desbloqueos = {} /\ liberadas = {}
------------------------------------------------------------------------------
(* The server *)

\* findAll: the page and how many there are, of the rows that the query lets through.
findAll(query, filas) ==
  LET where == filter(filas, {r \in Renglon : "estado" \in DOMAIN query => r.estado = query.estado})
      skip == (query.page - 1) * query.limit IN
  [data |-> SubSeq(where, skip + 1, IF skip + query.limit < Len(where) THEN skip + query.limit
                                    ELSE Len(where)),
   totalPages |-> (Len(where) + query.limit - 1) \div query.limit]

AtenderListado(l) ==
  /\ l \in listados /\ l.respuesta = Nada
  /\ listados' = (listados \ {l})
                 \cup {[l EXCEPT !.respuesta = findAll(l.peticion.url.query, tabla)]}
  /\ UNCHANGED <<clase, hist, tabla, detallando, desbloqueos, liberadas>>

\* What was read before is older than the table.
CambiaTabla(filas) ==
  /\ tabla' = filas
  /\ hist' = [hist EXCEPT !.vieja = TRUE]
  /\ listados' = {[l EXCEPT !.vieja = l.respuesta # Nada] : l \in listados}

Cerrar(id) == [i \in DOMAIN tabla |-> IF tabla[i].id = id THEN [tabla[i] EXCEPT !.estado = "cerrada"]
                                      ELSE tabla[i]]

\* The agent reports another alert, or blocks another address.
Llegada(f) ==
  /\ \A i \in DOMAIN tabla : tabla[i].id # f
  /\ CambiaTabla(<<[id |-> f, estado |-> "activa"]>> \o tabla)
  /\ UNCHANGED <<clase, detallando, desbloqueos, liberadas>>

\* bloqueosControllerRemove, when the agent obeys.
Desbloquear(d) ==
  /\ d \in desbloqueos /\ ~d.hecho
  /\ CambiaTabla(Cerrar(d.id))
  /\ desbloqueos' = (desbloqueos \ {d}) \cup {[d EXCEPT !.hecho = TRUE]}
  /\ UNCHANGED <<clase, detallando, liberadas>>
------------------------------------------------------------------------------
(* The list *)

\* loadAlertas and loadBloqueos: the empty filter is left out.
Listar(c, h, otros) ==
  LET o == [op |-> c \o ".findAll", path |-> Nada, body |-> Nada,
            query |-> [page |-> h.page, limit |-> limit, estado |-> h.filtro]] IN
  /\ h.pedidas < Listados
  /\ hist' = [h EXCEPT !.isLoading = TRUE, !.expandedId = Nada, !.expandedDetail = Nada,
                       !.pedidas = @ + 1]
  /\ listados' = otros \cup {[n |-> h.pedidas + 1, peticion |-> Peticion(o, TRUE),
                                 respuesta |-> Nada, vieja |-> FALSE]}

\* ngOnInit, perhaps in the place of the other page, whose rows were others: tabla starts
\* with any rows.
MontarHistorial(c) ==
  /\ clase # c
  /\ clase' = c
  /\ Listar(c, HistNuevo, {})
  /\ detallando' = {} /\ desbloqueos' = {} /\ liberadas' = {}
  /\ UNCHANGED tabla

\* Answers that come later find nobody.
DesmontarHistorial ==
  /\ clase # Nada
  /\ clase' = Nada /\ hist' = HistNuevo
  /\ listados' = {} /\ detallando' = {} /\ desbloqueos' = {} /\ liberadas' = {}
  /\ UNCHANGED tabla

ListadoRespondido(l) ==
  /\ l \in listados
  /\ listados' = listados \ {l}
  /\ \E d \in Desenlaces(l.peticion, l.respuesta # Nada) :
       hist' = CASE d = "datos" ->
                      [hist EXCEPT !.filas = l.respuesta.data,
                                   !.totalPages = l.respuesta.totalPages,
                                   !.isLoading = FALSE, !.aplicada = l.n, !.vieja = l.vieja]
                 [] d = "error" -> [hist EXCEPT !.isLoading = FALSE]
                 [] d = "excepcion" ->
                      [hist EXCEPT !.filas = <<>>, !.isLoading = FALSE, !.aplicada = 0]
  /\ UNCHANGED <<clase, tabla, detallando, desbloqueos, liberadas>>

\* ngModelChange of a select: the page number stays.
filtrarHistorial(f) ==
  /\ clase # Nada /\ f # hist.filtro
  /\ Listar(clase, [hist EXCEPT !.filtro = f], listados)
  /\ UNCHANGED <<clase, tabla, detallando, desbloqueos, liberadas>>

\* The numbers that are shown: the ends and the neighbours.
delta == 2
pagesArray == {p \in 1 .. hist.totalPages : \/ p \in {1, hist.totalPages}
                                            \/ p >= hist.page - delta /\ p <= hist.page + delta}

\* Mutant: the number changes, the rows do not.
goToPage_sinRecargar(p) ==
  /\ clase # Nada /\ hist.totalPages > 1
  /\ p \in pagesArray \cup {hist.page - 1, hist.page + 1} /\ p \in 1 .. hist.totalPages
  /\ hist' = [hist EXCEPT !.page = p]
  /\ UNCHANGED <<clase, tabla, listados, detallando, desbloqueos, liberadas>>

\* The numbers, `Anterior` and `Siguiente`, which a single page does not have.
goToPage(p) ==
  /\ clase # Nada /\ hist.totalPages > 1
  /\ p \in pagesArray \cup {hist.page - 1, hist.page + 1} /\ p \in 1 .. hist.totalPages
  /\ Listar(clase, [hist EXCEPT !.page = p], listados)
  /\ UNCHANGED <<clase, tabla, detallando, desbloqueos, liberadas>>
------------------------------------------------------------------------------
(* The rows.  The table is hidden while a list is being loaded. *)

Mostrada(id) == ~hist.isLoading /\ \E i \in DOMAIN hist.filas : hist.filas[i].id = id

\* A row unfolds before its detail comes, with the one it has until then.
toggleExpand(id) ==
  /\ clase = "alertas" /\ Mostrada(id)
  /\ IF hist.expandedId = id
     THEN /\ hist' = [hist EXCEPT !.expandedId = Nada, !.expandedDetail = Nada]
          /\ UNCHANGED detallando
     ELSE /\ hist' = [hist EXCEPT !.expandedId = id]
          /\ detallando' = detallando \cup {id}
  /\ UNCHANGED <<clase, tabla, listados, desbloqueos, liberadas>>

DetalleRespondido(id) ==
  /\ id \in detallando
  /\ detallando' = detallando \ {id}
  /\ \E d \in {id, hist.expandedDetail, Nada} : hist' = [hist EXCEPT !.expandedDetail = d]
  /\ UNCHANGED <<clase, tabla, listados, desbloqueos, liberadas>>

\* The button of a row that says BLOQUEADO, unless that row is the last one being unblocked.
confirmarDesbloqueo(id) ==
  /\ clase = "bloqueos" /\ Mostrada(id) /\ hist.objetivo = Nada
  /\ \E i \in DOMAIN hist.filas : hist.filas[i] = [id |-> id, estado |-> "activa"]
  /\ hist.desbloqueandoId # id
  /\ hist' = [hist EXCEPT !.objetivo = id]
  /\ UNCHANGED <<clase, tabla, listados, detallando, desbloqueos, liberadas>>

CancelarDesbloqueo ==
  /\ hist.objetivo # Nada
  /\ hist' = [hist EXCEPT !.objetivo = Nada]
  /\ UNCHANGED <<clase, tabla, listados, detallando, desbloqueos, liberadas>>

doDesbloqueo ==
  /\ hist.objetivo # Nada
  /\ hist' = [hist EXCEPT !.objetivo = Nada, !.desbloqueandoId = hist.objetivo]
  /\ desbloqueos' = desbloqueos \cup {[id |-> hist.objetivo, hecho |-> FALSE]}
  /\ UNCHANGED <<clase, tabla, listados, detallando, liberadas>>

\* Confirmed: the list again.  The first answer clears the mark of whichever is marked.
DesbloqueoRespondido(d) ==
  /\ d \in desbloqueos
  /\ desbloqueos' = desbloqueos \ {d}
  /\ \/ /\ d.hecho
        /\ Listar(clase, [hist EXCEPT !.desbloqueandoId = Nada], listados)
        /\ liberadas' = liberadas \cup {d.id}
        /\ UNCHANGED clase
     \/ /\ hist' = [hist EXCEPT !.desbloqueandoId = Nada]
        /\ UNCHANGED <<clase, listados, liberadas>>
  /\ UNCHANGED <<tabla, detallando>>
------------------------------------------------------------------------------
\* All but what arrives.
PasoHistorial ==
  \/ \E l \in listados : AtenderListado(l) \/ ListadoRespondido(l)
  \/ \E f \in EstadoFila \cup {Nada} : filtrarHistorial(f)
  \/ \E p \in 1 .. hist.totalPages : goToPage(p)
  \/ \E f \in Fila : toggleExpand(f) \/ confirmarDesbloqueo(f)
  \/ \E id \in detallando : DetalleRespondido(id)
  \/ CancelarDesbloqueo \/ doDesbloqueo
  \/ \E d \in desbloqueos : Desbloquear(d) \/ DesbloqueoRespondido(d)
------------------------------------------------------------------------------
(* Properties *)

\* What the page shows is what its filter and its page number select: once the newest list
\* is the one applied, the rows are the server's, unless those changed since,
FilasDelServidor ==
  clase # Nada /\ listados = {} /\ hist.aplicada = hist.pedidas /\ ~hist.vieja
  => LET query == [page |-> hist.page, limit |-> limit, estado |-> hist.filtro] IN
     [data |-> hist.filas, totalPages |-> hist.totalPages]
       = findAll(createQuerySerializer(query), tabla)

\* and none of them still says BLOQUEADO after the page was told that it was unblocked.
LiberadasCerradas ==
  clase # Nada /\ listados = {} /\ hist.aplicada = hist.pedidas
  => \A i \in DOMAIN hist.filas :
       hist.filas[i].id \in liberadas => hist.filas[i].estado = "cerrada"

HistorialFiel == FilasDelServidor /\ LiberadasCerradas
==============================================================================
