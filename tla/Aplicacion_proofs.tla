------------------------- MODULE Aplicacion_proofs -------------------------
(***************************************************************************)
(* The window of the client, for any number of sockets, connections,       *)
(* alerts, servers and fields.  The components share no state but the      *)
(* session and the last live alert, so each has invariants of its own:     *)
(*   IInvCanal       the session, the route and the live channel           *)
(*   IInvVivo        the panel and the last live alert                     *)
(*   IInvPanel       the cards of the panel and their buttons              *)
(*   IInvServidores  the list of servers and the window that makes one     *)
(*   SinRepetidos    no list with one server twice                         *)
(*   IInvDetalle     the configuration and the token of one VPS            *)
(*   IInvHistorial   the histories: what was asked for and what came       *)
(*   IInvLiberadas   the histories: the rows that were unblocked           *)
(*   IInvBlanca      the whitelist                                         *)
(* and a lemma that says what a step of the window is for it.              *)
(***************************************************************************)
EXTENDS Aplicacion, FiniteSetTheorems, SequenceTheorems, WellFoundedInduction, NaturalsInduction,
        TLAPS

\* Who is on the way into the dashboard from outside of it has a session.
DeLaGuarda == navegando \in Privadas /\ ruta \notin Privadas => token
IInvCanal == TypeOKCanal /\ RegistroCompleto /\ DeLaGuarda

\* The last live alert is on the panel, on its way to it, known to be lost, or the effect
\* has yet to run.
EnVivo ==
  montado /\ ~efecto /\ nuevaAlerta # Nada =>
    EnLista(nuevaAlerta) \/ enriqueciendo[nuevaAlerta] > 0 \/ nuevaAlerta \in perdidas
TiposVivo == montado \in BOOLEAN /\ efecto \in BOOLEAN /\ enriqueciendo \in [Alerta -> Nat]
IInvVivo == TiposVivo /\ EnVivo

\* Something is known that will make the page load its list again, or be told.
Deuda ==
  \/ \E c \in creaciones : c.propia /\ c.hecho
  \/ ventana # Nada /\ ventana.step = 2
TiposServidores ==
  /\ pagina \in Pagina \cup {Nada} /\ ventana \in Ventana \cup {Nada}
  /\ servidores \in Seq(Servidor)
  /\ consulta \in Consulta \cup {Nada}
  /\ creaciones \subseteq [id : Servidor, hecho : BOOLEAN, propia : BOOLEAN]
  /\ omitida \in BOOLEAN
\* A window is of a page, and what is said to be of this window has one.
DeLaVentana ==
  /\ ventana # Nada \/ consulta # Nada => pagina # Nada
  /\ \A c \in creaciones : c.propia => ventana # Nada
AlDia ==
  ~omitida /\ ~Deuda =>
    /\ pagina # Nada /\ consulta = Nada => pagina.vpsList = servidores
    /\ consulta # Nada => (consulta.leida => consulta.filas = servidores)
IInvServidores == TiposServidores /\ DeLaVentana /\ AlDia
\* One of each server, wherever they are listed; a creation in flight is of a new one.
SinRepetidos ==
  /\ IsInjective(servidores)
  /\ pagina # Nada => IsInjective(pagina.vpsList)
  /\ consulta # Nada => IsInjective(consulta.filas)
  /\ \A c \in creaciones : ~c.hecho => c.id \notin ToSet(servidores)
  /\ \A c, d \in creaciones : c.id = d.id => c = d

\* What the detail keeps or has in flight is of the page that is open.
DeLaPagina ==
  detalle = Nada =>
    /\ lecturas = Nada
    /\ \A g \in guardados : ~g.propio
    /\ \A g \in regeneraciones : ~g.propia
\* Whatever may reach the server differs from what it had in touched fields only.
Difiere(f) == {c \in Campo : f[c] # original[c]}
Tocado ==
  detalle # Nada =>
    /\ Difiere(configuracion) \subseteq editados
    /\ detalle.vps => Difiere(detalle.form) \subseteq editados
    /\ \A g \in guardados : Difiere(g.body) \subseteq editados
    /\ lecturas # Nada => lecturas.config = Nada \/ Difiere(lecturas.config) \subseteq editados
\* Without overlaps there is one replacement at most, and nothing of an earlier one.
UnaSola ==
  detalle # Nada /\ ~solapadas =>
    /\ \A g, h \in regeneraciones : g = h
    /\ \A g \in regeneraciones : detalle.token = 0 /\ g.token \in {0, tokenVps}
    /\ regeneraciones = {} /\ detalle.token # 0 => detalle.token = tokenVps
IInvDetalle == TypeOKDetalle /\ DeLaPagina /\ Tocado /\ UnaSola

Query(h) == createQuerySerializer([page |-> h.page, limit |-> limit, estado |-> h.filtro])
CamposDeHist ==
  {"filas", "totalPages", "page", "filtro", "isLoading", "expandedId", "expandedDetail",
   "objetivo", "desbloqueandoId", "pedidas", "aplicada", "vieja"}
FormaHistorial ==
  /\ DOMAIN hist = CamposDeHist
  /\ hist.pedidas \in Nat /\ hist.aplicada \in 0 .. hist.pedidas
  /\ clase # Nada => hist.pedidas > 0
  /\ \A l \in listados :
       DOMAIN l = {"n", "peticion", "respuesta", "vieja"} /\ l.n \in 1 .. hist.pedidas
\* The newest request is for what is selected now, an answer that is not old is what the
\* table has, and so are the rows of the newest one.
AlDiaHistorial ==
  /\ \A l \in listados :
       /\ l.n = hist.pedidas => l.peticion.url.query = Query(hist)
       /\ l.respuesta # Nada /\ ~l.vieja => l.respuesta = findAll(l.peticion.url.query, tabla)
  /\ clase # Nada /\ hist.aplicada = hist.pedidas /\ ~hist.vieja =>
       [data |-> hist.filas, totalPages |-> hist.totalPages] = findAll(Query(hist), tabla)
IInvHistorial == FormaHistorial /\ AlDiaHistorial

IdsDe(filas) == {filas[i].id : i \in DOMAIN filas}
SinAbiertas(filas, ids) ==
  \A i \in DOMAIN filas : filas[i].id \in ids => filas[i].estado = "cerrada"
Hechos == {d.id : d \in {e \in desbloqueos : e.hecho}}
Contestados == {l \in listados : l.respuesta # Nada}
TiposDeHist(h) ==
  /\ DOMAIN h = CamposDeHist
  /\ h.filas \in Seq(Renglon) /\ h.totalPages \in Nat /\ h.page \in Nat \ {0}
  /\ h.filtro \in EstadoFila \cup {Nada} /\ h.isLoading \in BOOLEAN /\ h.vieja \in BOOLEAN
  /\ {h.expandedId, h.expandedDetail, h.objetivo, h.desbloqueandoId} \subseteq Fila \cup {Nada}
  /\ h.pedidas \in 0 .. Listados /\ h.aplicada \in 0 .. h.pedidas
TiposDeListado(l) ==
  /\ DOMAIN l = {"n", "peticion", "respuesta", "vieja"}
  /\ l.peticion.url.query.page \in Nat \ {0} /\ l.peticion.url.query.limit = limit
  /\ l.respuesta # Nada => l.respuesta.data \in Seq(Renglon) /\ l.respuesta.totalPages \in Nat
  /\ l.vieja \in BOOLEAN
TiposHistorial ==
  /\ clase \in Historiales \cup {Nada} /\ TiposDeHist(hist) /\ tabla \in Seq(Renglon)
  /\ \A l \in listados : TiposDeListado(l) /\ l.n \in 1 .. hist.pedidas
  /\ detallando \subseteq Fila /\ liberadas \subseteq Fila
  /\ desbloqueos \subseteq [id : Fila, hecho : BOOLEAN]
\* The rows that the page knows of are in the table, and do not arrive again.
Conocidas ==
  /\ liberadas \cup {d.id : d \in desbloqueos} \cup ({hist.objetivo} \ {Nada}) \cup IdsDe(hist.filas)
       \subseteq IdsDe(tabla)
  /\ \A l \in Contestados : IdsDe(l.respuesta.data) \subseteq IdsDe(tabla)
\* What was unblocked is closed in the table and in what the newest request brings.
Liberacion ==
  /\ SinAbiertas(tabla, liberadas \cup Hechos)
  /\ hist.aplicada = hist.pedidas => SinAbiertas(hist.filas, liberadas)
  /\ \A l \in Contestados : l.n = hist.pedidas => SinAbiertas(l.respuesta.data, liberadas)
\* Nothing is awaited without a page.
EnPagina == clase = Nada => listados = {} /\ desbloqueos = {} /\ hist.objetivo = Nada
InvFilas == TiposHistorial /\ Conocidas /\ Liberacion
IInvLiberadas == InvFilas /\ EnPagina

\* Which elements of a list come before which.
Precede(s, x, y) == \E i, j \in DOMAIN s : i < j /\ s[i] = x /\ s[j] = y

\* What is done in the server and not yet told to the page that asked for it, if it is there.
Nuevas == {a.id : a \in {c \in altas : c.propia /\ c.hecho}}
Quitadas == {b.id : b \in {c \in bajas : c.propia /\ c.hecho}}

\* No request is of a page that is not there, none is a removal before the list has come,
\* and one at most is an addition; what is not yet made is not there, and is made once.
DeLaTabla ==
  /\ blanca = Nada => lectura = Nada /\ \A x \in altas \cup bajas : ~x.propia
  /\ lectura # Nada => blanca.isLoading /\ \A b \in bajas : ~b.propia
  /\ blanca # Nada /\ blanca.isLoading => blanca.deleteTarget = Nada
  /\ \A a \in altas : a.propia => blanca.isAdding
  /\ \A a, c \in altas : a.id = c.id \/ (a.propia /\ c.propia) => a = c
  /\ \A a \in altas : ~a.hecho => a.id \notin ToSet(entradas)
\* The server's list is the page's, with what the page does not know yet.
AlDiaBlanca ==
  blanca # Nada /\ ~desfasada =>
    /\ lectura # Nada =>
         (\A a \in altas : ~a.propia) /\ (lectura.leida => lectura.filas = entradas)
    /\ lectura = Nada =>
         /\ IsInjective(blanca.entries)
         /\ \A a \in altas : a.propia =>
              a.id \notin ToSet(blanca.entries) \cup Ids(bajas) \cup {blanca.deleteTarget}
         /\ \A x \in Entrada :
              x \in ToSet(entradas)
              <=> x \in Nuevas \/ (x \in ToSet(blanca.entries) /\ x \notin Quitadas)
         /\ \A x, y \in Entrada :
              Precede(entradas, x, y)
              <=> /\ y \in ToSet(blanca.entries) /\ y \notin Quitadas
                  /\ x \in Nuevas \/ (Precede(blanca.entries, x, y) /\ x \notin Quitadas)
IInvBlanca == TypeOKBlanca /\ DeLaTabla /\ AlDiaBlanca

\* A card that waits for its block is shown, and has its request in flight or another card
\* of its alert before it.
Esperada(t) ==
  /\ t \in ToSet(lista) /\ t[1] \notin oculta
  /\ \/ \E p \in pedidos : p.clase = "bloquear" /\ p.tarjeta = t
     \/ \E u \in Tarjeta \ {t} : u[1] = t[1] /\ Precede(lista, u, t)
IInvPanel ==
  TypeOKPanel /\ IsInjective(foto) /\ \A t \in Tarjeta : bloqueo[t] = "loading" => Esperada(t)
------------------------------------------------------------------------------
(* What a step of the window is for each component *)

PasoCanal ==
  \/ UNCHANGED varsCanal
  \/ PedirEntrar \/ Entrado \/ EntradaRechazada \/ PedirSalir \/ Salido
  \/ \E k \in K : handleConnection(k) \/ Cortar(k) \/ Recibir(k)
  \/ \E c \in C : handleDisconnect(c)
  \/ \E a \in Alerta : emitirAUsuario(a)

PasoPanel ==
  \/ UNCHANGED varsPanel
  \/ Montar \/ Desmontar \/ MapaHuerfano \/ AtenderLista
  \/ EfectoNada \/ EfectoAntepone \/ EfectoEnriquece
  \/ \E s \in Filtros : Filtrar(s)
  \/ \E t \in Tarjeta : onBloquear(t) \/ onMarcarFalsoPositivo(t)
  \/ \E p \in pedidos : FalsoEnServidor(p)
  \/ Respuestas

PasoVivo == (nuevaAlerta' = nuevaAlerta /\ PasoPanel) \/ \E k \in K : RecibirViva(k)

PasoServ ==
  UNCHANGED varsServidores \/ MontarServidores \/ DesmontarServidores \/ PasoServidores
    \/ AbrirVentana \/ Eliminar

PasoBlan == UNCHANGED varsBlanca \/ MontarBlanca \/ DesmontarBlanca \/ PasoBlanca

PasoDet ==
  \/ UNCHANGED varsDetalle \/ MontarDetalle \/ DesmontarDetalle \/ PasoDetalle \/ guardarCambios
  \/ \E que \in {"regenerar", "eliminar"} : Preguntar(que)
  \/ Eliminar \/ \E bien \in BOOLEAN : EliminacionRespondida(bien)

PasoHist ==
  UNCHANGED varsHistorial \/ (\E c \in Historiales : MontarHistorial(c)) \/ DesmontarHistorial
    \/ PasoHistorial \/ \E f \in Fila : Llegada(f)

\* What an arrival does to the page that is left and to the one that is entered.
LEMMA Mudanza ==
  ASSUME Llegar
  PROVE  /\ UNCHANGED varsPanel \/ Montar \/ Desmontar
         /\ UNCHANGED varsBlanca \/ MontarBlanca \/ DesmontarBlanca
         /\ UNCHANGED varsServidores \/ MontarServidores \/ DesmontarServidores
         /\ UNCHANGED varsDetalle \/ MontarDetalle \/ DesmontarDetalle
         /\ UNCHANGED varsHistorial \/ (\E c \in Historiales : MontarHistorial(c))
              \/ DesmontarHistorial
<1>1. /\ Mudar("panel", navegando, Montar, Desmontar, UNCHANGED varsPanel)
      /\ Mudar("blanca", navegando, MontarBlanca, DesmontarBlanca, UNCHANGED varsBlanca)
      /\ Mudar("servidores", navegando, MontarServidores, DesmontarServidores,
               UNCHANGED varsServidores)
      /\ Mudar("detalle", navegando, MontarDetalle, DesmontarDetalle, UNCHANGED varsDetalle)
  BY DEF Llegar
<1>2. UNCHANGED varsPanel \/ Montar \/ Desmontar
  BY <1>1 DEF Mudar
<1>3. UNCHANGED varsServidores \/ MontarServidores \/ DesmontarServidores
  BY <1>1 DEF Mudar
<1>4. UNCHANGED varsDetalle \/ MontarDetalle \/ DesmontarDetalle
  BY <1>1 DEF Mudar
<1>5. UNCHANGED varsBlanca \/ MontarBlanca \/ DesmontarBlanca
  BY <1>1 DEF Mudar
<1>6. UNCHANGED varsHistorial \/ (\E c \in Historiales : MontarHistorial(c)) \/ DesmontarHistorial
  <2>1. (CASE navegando \in Historiales \ {ruta} -> MontarHistorial(navegando)
           [] ruta \in Historiales /\ navegando \notin Historiales -> DesmontarHistorial
           [] OTHER -> UNCHANGED varsHistorial)
    BY DEF Llegar
  <2> QED BY <2>1
<1> QED
  BY <1>2, <1>3, <1>4, <1>5, <1>6

\* What only decides where to go next leaves the pages.
LEMMA SinMudanza ==
  ASSUME \/ EnviarEntrada \/ EntradaAceptada \/ EntradaDenegada \/ onLogout \/ SalidaRespondida
         \/ NoLlegar \/ \E r \in entorno.rutas : Ir(r)
  PROVE  UNCHANGED varsPaginas
BY DEF EnviarEntrada, EntradaAceptada, EntradaDenegada, onLogout, SalidaRespondida, NoLlegar, Ir,
       SinMoverse

\* The session and the channel change by their own operations alone.
LEMMA CasosCanal == [Next]_varsWeb => PasoCanal
<1> SUFFICES ASSUME [Next]_varsWeb PROVE PasoCanal
  OBVIOUS
<1>1. CASE UNCHANGED varsWeb
  BY <1>1 DEF varsWeb, PasoCanal
<1>2. CASE PasoDeRed
  BY <1>2 DEF PasoDeRed, PasoCanal
<1>3. CASE PasoDePanel
  BY <1>3 DEF PasoDePanel, PasoCanal, SoloPanel, RecibirViva
<1>4. CASE PasoDeTablas
  BY <1>4 DEF PasoDeTablas, PasoCanal
<1>5. CASE \E r \in entorno.rutas : Ir(r)
  BY <1>5 DEF Ir, PasoCanal
<1>6. CASE EnviarEntrada \/ EntradaAceptada \/ EntradaDenegada \/ onLogout \/ SalidaRespondida
  BY <1>6 DEF EnviarEntrada, EntradaAceptada, EntradaDenegada, onLogout, SalidaRespondida,
              PasoCanal
<1>7. CASE EnviarFormulario \/ FormularioRespondido \/ EliminarRespondido \/ Llegar \/ NoLlegar
  BY <1>7 DEF EnviarFormulario, FormularioRespondido, EliminarRespondido, Llegar, NoLlegar,
              PasoCanal
<1> QED
  BY <1>1, <1>2, <1>3, <1>4, <1>5, <1>6, <1>7 DEF Next

\* The panel changes by its operations, and the last live alert only by its arrival.
LEMMA CasosVivo == [Next]_varsWeb => PasoVivo
<1> SUFFICES ASSUME [Next]_varsWeb PROVE PasoVivo
  OBVIOUS
<1>1. CASE UNCHANGED varsWeb
  BY <1>1 DEF varsWeb, varsPaginas, varsCanal, PasoVivo, PasoPanel
<1>2. CASE PasoDeRed
  <2>1. nuevaAlerta' = nuevaAlerta
    BY <1>2 DEF PasoDeRed, handleConnection, Cortar, handleDisconnect, emitirAUsuario
  <2> QED BY <1>2, <2>1 DEF PasoDeRed, SinMoverse, varsPaginas, PasoVivo, PasoPanel
<1>3. CASE PasoDePanel
  BY <1>3 DEF PasoDePanel, PasoVivo, PasoPanel, SoloPanel, varsCanal
<1>4. CASE PasoDeTablas
  BY <1>4 DEF PasoDeTablas, PasoVivo, PasoPanel, varsCanal
<1>5. CASE (\E r \in entorno.rutas : Ir(r)) \/ NoLlegar
  BY <1>5 DEF Ir, NoLlegar, varsPaginas, PasoVivo, PasoPanel, varsCanal
<1>6. CASE EntradaAceptada \/ SalidaRespondida
  BY <1>6 DEF EntradaAceptada, Entrado, SalidaRespondida, Salido, varsPaginas, PasoVivo, PasoPanel
<1>7. CASE EnviarEntrada \/ EntradaDenegada \/ onLogout
  BY <1>7 DEF EnviarEntrada, EntradaDenegada, onLogout, PedirEntrar, EntradaRechazada, PedirSalir,
              SinMoverse, varsPaginas, PasoVivo, PasoPanel
<1>8. CASE Llegar
  BY <1>8, Mudanza DEF Llegar, PasoVivo, PasoPanel, varsCanal
<1>9. CASE EnviarFormulario \/ FormularioRespondido \/ EliminarRespondido
  BY <1>9 DEF EnviarFormulario, FormularioRespondido, EliminarRespondido, PasoVivo, PasoPanel,
              varsCanal
<1> QED
  BY <1>1, <1>2, <1>3, <1>4, <1>5, <1>6, <1>7, <1>8, <1>9 DEF Next

\* The list of servers and its window change by their operations.
LEMMA CasosServidores == [Next]_varsWeb => PasoServ
<1> SUFFICES ASSUME [Next]_varsWeb PROVE PasoServ
  OBVIOUS
<1>1. CASE UNCHANGED varsWeb
  BY <1>1 DEF varsWeb, varsPaginas, PasoServ
<1>2. CASE PasoDeRed
  BY <1>2 DEF PasoDeRed, SinMoverse, varsPaginas, PasoServ
<1>3. CASE PasoDePanel \/ PasoDeTablas
  BY <1>3 DEF PasoDePanel, PasoDeTablas, PasoServ, SoloPanel
<1>4. CASE \/ EnviarEntrada \/ EntradaAceptada \/ EntradaDenegada \/ onLogout \/ SalidaRespondida
           \/ NoLlegar \/ \E r \in entorno.rutas : Ir(r)
  BY <1>4, SinMudanza DEF varsPaginas, PasoServ
<1>5. CASE EnviarFormulario \/ FormularioRespondido \/ EliminarRespondido
  BY <1>5 DEF EnviarFormulario, FormularioRespondido, EliminarRespondido, PasoServ
<1>6. CASE Llegar
  BY <1>6, Mudanza DEF PasoServ
<1> QED
  BY <1>1, <1>2, <1>3, <1>4, <1>5, <1>6 DEF Next

\* The whitelist changes by its operations.
LEMMA CasosBlanca == [Next]_varsWeb => PasoBlan
<1> SUFFICES ASSUME [Next]_varsWeb PROVE PasoBlan
  OBVIOUS
<1>1. CASE UNCHANGED varsWeb
  BY <1>1 DEF varsWeb, varsPaginas, PasoBlan
<1>2. CASE PasoDeRed
  BY <1>2 DEF PasoDeRed, SinMoverse, varsPaginas, PasoBlan
<1>3. CASE PasoDePanel \/ PasoDeTablas
  BY <1>3 DEF PasoDePanel, PasoDeTablas, PasoBlan, SoloPanel
<1>4. CASE \/ EnviarEntrada \/ EntradaAceptada \/ EntradaDenegada \/ onLogout \/ SalidaRespondida
           \/ NoLlegar \/ \E r \in entorno.rutas : Ir(r)
  BY <1>4, SinMudanza DEF varsPaginas, PasoBlan
<1>5. CASE EnviarFormulario \/ FormularioRespondido \/ EliminarRespondido
  BY <1>5 DEF EnviarFormulario, FormularioRespondido, EliminarRespondido, PasoBlan
<1>6. CASE Llegar
  BY <1>6, Mudanza DEF PasoBlan
<1> QED
  BY <1>1, <1>2, <1>3, <1>4, <1>5, <1>6 DEF Next

\* The detail of a VPS changes by its operations.
LEMMA CasosDetalle == [Next]_varsWeb => PasoDet
<1> SUFFICES ASSUME [Next]_varsWeb PROVE PasoDet
  OBVIOUS
<1>1. CASE UNCHANGED varsWeb
  BY <1>1 DEF varsWeb, varsPaginas, PasoDet
<1>2. CASE PasoDeRed
  BY <1>2 DEF PasoDeRed, SinMoverse, varsPaginas, PasoDet
<1>3. CASE PasoDePanel \/ PasoDeTablas
  BY <1>3 DEF PasoDePanel, PasoDeTablas, PasoDet, SoloPanel
<1>4. CASE \/ EnviarEntrada \/ EntradaAceptada \/ EntradaDenegada \/ onLogout \/ SalidaRespondida
           \/ NoLlegar \/ \E r \in entorno.rutas : Ir(r)
  BY <1>4, SinMudanza DEF varsPaginas, PasoDet
<1>5. CASE EnviarFormulario \/ FormularioRespondido \/ EliminarRespondido
  BY <1>5 DEF EnviarFormulario, FormularioRespondido, EliminarRespondido, PasoDet
<1>6. CASE Llegar
  BY <1>6, Mudanza DEF PasoDet
<1> QED
  BY <1>1, <1>2, <1>3, <1>4, <1>5, <1>6 DEF Next

\* The histories change by their operations.
LEMMA CasosHistorial == [Next]_varsWeb => PasoHist
<1> SUFFICES ASSUME [Next]_varsWeb PROVE PasoHist
  OBVIOUS
<1>1. CASE UNCHANGED varsWeb
  BY <1>1 DEF varsWeb, varsPaginas, PasoHist
<1>2. CASE PasoDeRed
  BY <1>2 DEF PasoDeRed, SinMoverse, varsPaginas, PasoHist
<1>3. CASE PasoDePanel \/ PasoDeTablas
  BY <1>3 DEF PasoDePanel, PasoDeTablas, PasoHist, SoloPanel
<1>4. CASE \/ EnviarEntrada \/ EntradaAceptada \/ EntradaDenegada \/ onLogout \/ SalidaRespondida
           \/ NoLlegar \/ \E r \in entorno.rutas : Ir(r)
  BY <1>4, SinMudanza DEF varsPaginas, PasoHist
<1>5. CASE EnviarFormulario \/ FormularioRespondido \/ EliminarRespondido
  BY <1>5 DEF EnviarFormulario, FormularioRespondido, EliminarRespondido, PasoHist
<1>6. CASE Llegar
  BY <1>6, Mudanza DEF PasoHist
<1> QED
  BY <1>1, <1>2, <1>3, <1>4, <1>5, <1>6 DEF Next
------------------------------------------------------------------------------
(* The session and the channel *)

\* A window that was not opened shows no page, and no socket is open.
LEMMA InicioCanal == InitAplicacion => IInvCanal
<1> SUFFICES ASSUME InitAplicacion PROVE IInvCanal
  OBVIOUS
<1> USE CanalConstantes
<1>1. InitCanal /\ ruta = Nada
  BY DEF InitAplicacion
<1>2. 1 \in K
  BY DEF K
<1>3. TypeOKCanal
  <2>1. <<>> \in Seq(Alerta)
    OBVIOUS
  <2>2. enCamino \in [C -> Seq(Alerta)]
    BY <1>1, <2>1 DEF InitCanal
  <2>3. canal \in [K -> EstadoCanal] /\ via \in [K -> C \cup {0}] /\ socket \in K \cup {0}
    BY <1>1, <1>2 DEF InitCanal, EstadoCanal
  <2>4. usadas \in 0 .. Conexiones
    BY <1>1 DEF InitCanal
  <2> QED BY <1>1, <2>2, <2>3, <2>4 DEF InitCanal, TypeOKCanal
<1>4. RegistroCompleto
  BY <1>1 DEF InitCanal, RegistroCompleto
<1>5. DeLaGuarda
  <2>1. ruta = Nada /\ navegando = Nada
    BY DEF InitAplicacion
  <2> QED BY <2>1, NadaNoEsRuta DEF DeLaGuarda
<1> QED BY <1>3, <1>4, <1>5 DEF IInvCanal

\* Where the guard lets a window go that is outside of the dashboard.
LEMMA Guardada ==
  ASSUME NEW r, NEW hay \in BOOLEAN, authGuard(r, hay) \in Privadas, ruta \notin Privadas
  PROVE  hay
BY DEF authGuard, Privadas

\* A navigation stays where it is, and is on its way where the guard lets it go.
LEMMA Navegacion ==
  ASSUME DeLaGuarda, NEW r, NEW hay \in BOOLEAN, navigate(r, hay), token' = hay
  PROVE  DeLaGuarda'
<1>1. ruta' = ruta /\ navegando' \in {Nada, authGuard(r, hay)}
  BY DEF navigate
<1>2. ASSUME navegando' \in Privadas, ruta \notin Privadas PROVE hay
  BY <1>1, <1>2, Guardada, NadaNoEsRuta
<1> QED BY <1>1, <1>2 DEF DeLaGuarda

\* No step lets a window be on its way into the dashboard without a session.
LEMMA GuardaSeConserva ==
  ASSUME IInvCanal, [Next]_varsWeb
  PROVE  DeLaGuarda'
<1>0. DeLaGuarda /\ token \in BOOLEAN
  BY DEF IInvCanal, TypeOKCanal
<1>1. CASE UNCHANGED varsWeb
  BY <1>0, <1>1 DEF varsWeb, varsRuta, varsCanal, varsSesion, DeLaGuarda
<1>2. CASE PasoDeRed
  <2>1. ruta' = ruta /\ navegando' = navegando
    BY <1>2 DEF PasoDeRed, SinMoverse, varsRuta
  <2>2. token' = token
    BY <1>2 DEF PasoDeRed, handleConnection, Cortar, handleDisconnect, emitirAUsuario, varsSesion
  <2> QED BY <1>0, <2>1, <2>2 DEF DeLaGuarda
<1>3. CASE PasoDePanel
  BY <1>0, <1>3 DEF PasoDePanel, SoloPanel, varsRuta, varsCanal, varsSesion, RecibirViva, Recibir,
                    DeLaGuarda
<1>4. CASE PasoDeTablas
  BY <1>0, <1>4 DEF PasoDeTablas, varsRuta, varsCanal, varsSesion, DeLaGuarda
<1>5. ASSUME NEW r \in entorno.rutas, Ir(r) PROVE DeLaGuarda'
  <2>1. navigate(r, token) /\ token' = token
    BY <1>5 DEF Ir, varsCanal, varsSesion
  <2> QED BY <1>0, <2>1, Navegacion
<1>6. CASE EntradaAceptada
  <2>1. navigate("panel", TRUE) /\ token' = TRUE
    BY <1>6 DEF EntradaAceptada, Entrado
  <2> QED BY <1>0, <2>1, Navegacion
<1>7. CASE SalidaRespondida
  <2>1. navigate("login", FALSE) /\ token' = FALSE
    BY <1>7 DEF SalidaRespondida, Salido
  <2> QED BY <1>0, <2>1, Navegacion
<1>8. CASE EliminarRespondido
  <2>1. token' = token
    BY <1>8 DEF EliminarRespondido, varsCanal, varsSesion
  <2>2. navigate("servidores", token) \/ UNCHANGED <<ruta, navegando>>
    BY <1>8 DEF EliminarRespondido
  <2> QED BY <1>0, <2>1, <2>2, Navegacion DEF DeLaGuarda
<1>9. CASE Llegar \/ NoLlegar
  <2>1. token' = token /\ navegando' = Nada /\ ruta' \in {ruta, navegando}
    BY <1>9 DEF Llegar, NoLlegar, varsCanal, varsSesion
  <2> QED BY <1>0, <2>1, NadaNoEsRuta DEF DeLaGuarda
<1>10. CASE EnviarEntrada \/ EntradaDenegada \/ onLogout
  BY <1>0, <1>10 DEF EnviarEntrada, EntradaDenegada, onLogout, PedirEntrar, EntradaRechazada,
                     PedirSalir, SinMoverse, varsRuta, DeLaGuarda
<1>11. CASE EnviarFormulario \/ FormularioRespondido
  BY <1>0, <1>11 DEF EnviarFormulario, FormularioRespondido, varsRuta, varsCanal, varsSesion,
                     DeLaGuarda
<1> QED
  BY <1>1, <1>2, <1>3, <1>4, <1>5, <1>6, <1>7, <1>8, <1>9, <1>10, <1>11 DEF Next

\* Each operation of the channel keeps the types.
LEMMA TiposDelCanal == ASSUME TypeOKCanal, PasoCanal PROVE TypeOKCanal'
<1> USE DEF TypeOKCanal
<1>1. CASE UNCHANGED varsCanal
  BY <1>1 DEF varsCanal, varsSesion, varsRed
<1>2. CASE PedirEntrar \/ EntradaRechazada \/ PedirSalir
  BY <1>2 DEF PedirEntrar, EntradaRechazada, PedirSalir, varsRed
<1>3. CASE Entrado
  <2>1. socket' \in K \cup {0} /\ canal' \in [K -> EstadoCanal]
    BY <1>3 DEF Entrado, conectar, Libres, EstadoCanal
  <2> QED BY <1>3, <2>1 DEF Entrado
<1>4. CASE Salido
  <2>1. canal' \in [K -> EstadoCanal] /\ via' \in [K -> C \cup {0}] /\ socket' \in K \cup {0}
    BY <1>4 DEF Salido, desconectar, EstadoCanal
  <2>2. enCamino' \in [C -> Seq(Alerta)]
    <3>1. enCamino' = enCamino \/ \E c : enCamino' = [enCamino EXCEPT ![c] = <<>>]
      <4>1. desconectar
        BY <1>4 DEF Salido
      <4>2. CASE socket = 0
        BY <4>1, <4>2 DEF desconectar
      <4>3. CASE socket # 0
        BY <4>1, <4>3 DEF desconectar
      <4> QED BY <4>2, <4>3
    <3>2. <<>> \in Seq(Alerta)
      OBVIOUS
    <3> QED BY <3>1, <3>2
  <2> QED BY <1>4, <2>1, <2>2 DEF Salido
<1>5. ASSUME NEW k \in K, handleConnection(k) PROVE TypeOKCanal'
  <2>1. usadas < Conexiones => usadas + 1 \in C /\ usadas + 1 \in 0 .. Conexiones
    BY CanalConstantes DEF C
  <2>2. canal' \in [K -> EstadoCanal]
    BY <1>5 DEF handleConnection, EstadoCanal
  <2>3. via' \in [K -> C \cup {0}] /\ vivas' \subseteq C /\ conexiones' \subseteq C
        /\ usadas' \in 0 .. Conexiones
    BY <1>5, <2>1 DEF handleConnection
  <2> QED BY <1>5, <2>2, <2>3 DEF handleConnection, varsSesion
<1>6. ASSUME NEW k \in K, Cortar(k) PROVE TypeOKCanal'
  <2>1. enCamino' \in [C -> Seq(Alerta)]
    <3>1. <<>> \in Seq(Alerta)
      OBVIOUS
    <3> QED BY <1>6, <3>1 DEF Cortar
  <2>2. canal' \in [K -> EstadoCanal] /\ via' \in [K -> C \cup {0}]
    BY <1>6 DEF Cortar, EstadoCanal
  <2> QED BY <1>6, <2>1, <2>2 DEF Cortar, varsSesion
<1>7. ASSUME NEW k \in K, Recibir(k) PROVE TypeOKCanal'
  <2>1. via[k] \in C
    BY <1>7 DEF Recibir
  <2>2. enCamino[via[k]] \in Seq(Alerta) /\ enCamino[via[k]] # <<>>
    BY <1>7, <2>1 DEF Recibir
  <2>3. Head(enCamino[via[k]]) \in Alerta /\ Tail(enCamino[via[k]]) \in Seq(Alerta)
    BY <2>2
  <2>4. enCamino' \in [C -> Seq(Alerta)] /\ nuevaAlerta' \in Alerta
    BY <1>7, <2>1, <2>3 DEF Recibir
  <2> QED BY <1>7, <2>4 DEF Recibir, varsSesion
<1>8. ASSUME NEW c \in C, handleDisconnect(c) PROVE TypeOKCanal'
  BY <1>8 DEF handleDisconnect, varsSesion
<1>9. ASSUME NEW a \in Alerta, emitirAUsuario(a) PROVE TypeOKCanal'
  <2>1. enCamino' \in [C -> Seq(Alerta)]
    BY <1>9 DEF emitirAUsuario
  <2> QED BY <1>9, <2>1 DEF emitirAUsuario, varsSesion
<1> QED
  BY <1>1, <1>2, <1>3, <1>4, <1>5, <1>6, <1>7, <1>8, <1>9 DEF PasoCanal

\* An open socket stays registered: what the server ends is a connection no socket goes
\* through.
LEMMA RegistroSeConserva ==
  ASSUME TypeOKCanal, RegistroCompleto, PasoCanal
  PROVE  RegistroCompleto'
<1> USE DEF RegistroCompleto
<1>0. canal \in [K -> EstadoCanal] /\ via \in [K -> C \cup {0}] /\ socket \in K \cup {0}
  BY DEF TypeOKCanal
<1>1. CASE UNCHANGED varsCanal
  BY <1>1 DEF varsCanal, varsRed
<1>2. CASE PedirEntrar \/ EntradaRechazada \/ PedirSalir
  BY <1>2 DEF PedirEntrar, EntradaRechazada, PedirSalir, varsRed
<1>3. CASE Entrado
  BY <1>0, <1>3 DEF Entrado, conectar, Libres
<1>4. CASE Salido
  BY <1>0, <1>4 DEF Salido, desconectar
<1>5. ASSUME NEW k \in K, handleConnection(k) PROVE RegistroCompleto'
  BY <1>0, <1>5 DEF handleConnection
<1>6. ASSUME NEW k \in K, Cortar(k) PROVE RegistroCompleto'
  BY <1>0, <1>6 DEF Cortar
<1>7. ASSUME NEW k \in K, Recibir(k) PROVE RegistroCompleto'
  BY <1>7 DEF Recibir
<1>8. ASSUME NEW c \in C, handleDisconnect(c) PROVE RegistroCompleto'
  BY <1>8 DEF handleDisconnect
<1>9. ASSUME NEW a \in Alerta, emitirAUsuario(a) PROVE RegistroCompleto'
  BY <1>9 DEF emitirAUsuario
<1> QED
  BY <1>1, <1>2, <1>3, <1>4, <1>5, <1>6, <1>7, <1>8, <1>9 DEF PasoCanal

\* Every step keeps the invariant of the session and the channel.
LEMMA InduccionCanal == IInvCanal /\ [Next]_varsWeb => IInvCanal'
<1> SUFFICES ASSUME IInvCanal, [Next]_varsWeb PROVE IInvCanal'
  OBVIOUS
<1>1. PasoCanal
  BY CasosCanal
<1>2. TypeOKCanal' /\ RegistroCompleto'
  BY <1>1, TiposDelCanal, RegistroSeConserva DEF IInvCanal
<1>3. DeLaGuarda'
  BY GuardaSeConserva
<1> QED BY <1>2, <1>3 DEF IInvCanal

\* The sockets, the session and the route of the window are what they should be, however
\* many sockets it opens and whenever the server notices that they ended.
THEOREM InvarianteCanal == Spec => []IInvCanal
<1> QED BY InicioCanal, InduccionCanal, PTL DEF Spec

\* Whoever is connected is told of the next alert: handleDisconnect forgets a connection
\* that ended and no other, however late it runs.
THEOREM RegistroCompletoSiempre == Spec => []RegistroCompleto
<1>1. IInvCanal => RegistroCompleto
  BY DEF IInvCanal
<1> QED BY InvarianteCanal, <1>1, PTL

\* Only the code of a page that comes changes the page.
LEMMA SoloLlegarMuda == ASSUME [Next]_varsWeb, ruta' # ruta PROVE Llegar
<1>1. CASE UNCHANGED varsWeb
  BY <1>1 DEF varsWeb, varsRuta
<1>2. CASE PasoDeRed \/ PasoDePanel \/ PasoDeTablas
  BY <1>2 DEF PasoDeRed, SinMoverse, PasoDePanel, SoloPanel, PasoDeTablas, varsRuta
<1>3. CASE \/ EnviarEntrada \/ EntradaAceptada \/ EntradaDenegada \/ onLogout \/ SalidaRespondida
           \/ NoLlegar \/ \E r \in entorno.rutas : Ir(r)
  BY <1>3 DEF EnviarEntrada, EntradaAceptada, EntradaDenegada, onLogout, SalidaRespondida, NoLlegar,
              Ir, SinMoverse, varsRuta, navigate
<1>4. CASE EnviarFormulario \/ FormularioRespondido \/ EliminarRespondido
  BY <1>4 DEF EnviarFormulario, FormularioRespondido, EliminarRespondido, varsRuta, navigate
<1> QED
  BY <1>1, <1>2, <1>3, <1>4 DEF Next

\* Nobody gets into the dashboard from outside of it without a session: the guard is asked
\* before the code of the page is fetched, and whatever ends the session meanwhile gives up
\* that navigation.
THEOREM SinSesionNoSeEntraSiempre == Spec => SinSesionNoSeEntra
<1>1. ASSUME IInvCanal, [Next]_varsWeb
      PROVE  [ruta \notin Privadas /\ ruta' \in Privadas => token]_varsWeb
  <2>1. ASSUME ruta \notin Privadas, ruta' \in Privadas PROVE token
    <3>1. Llegar
      BY <1>1, <2>1, SoloLlegarMuda
    <3>2. navegando \in Privadas
      BY <2>1, <3>1 DEF Llegar
    <3> QED BY <1>1, <2>1, <3>2 DEF IInvCanal, DeLaGuarda
  <2> QED BY <2>1
<1> QED BY InvarianteCanal, <1>1, PTL DEF Spec, SinSesionNoSeEntra
------------------------------------------------------------------------------
(* The panel and the last live alert *)

\* The panel does not exist when the window opens.
LEMMA InicioVivo == InitAplicacion => IInvVivo
<1> SUFFICES ASSUME InitPanel PROVE IInvVivo
  BY DEF InitAplicacion
<1>1. TiposVivo
  BY DEF InitPanel, TiposVivo
<1>2. EnVivo
  BY DEF InitPanel, EnVivo
<1> QED BY <1>1, <1>2 DEF IInvVivo

\* An alert that awaits the map is prepended, and the effect is to run again, or lost.
LEMMA UnaMenos ==
  ASSUME TiposVivo, EnVivo, nuevaAlerta' = nuevaAlerta, NEW a \in Alerta, Enriquecida(a)
  PROVE  IInvVivo'
<1> USE DEF TiposVivo
<1>1. enriqueciendo' = [enriqueciendo EXCEPT ![a] = enriqueciendo[a] - 1] /\ enriqueciendo[a] > 0
      /\ montado' = montado
  BY DEF Enriquecida
<1>2. enriqueciendo' \in [Alerta -> Nat]
  BY <1>1
<1>3. CASE efecto' = TRUE
  BY <1>1, <1>2, <1>3 DEF IInvVivo, EnVivo
<1>4. CASE perdidas' = perdidas \cup {a} /\ lista' = lista /\ efecto' = efecto
  <2>1. EnLista(nuevaAlerta)' <=> EnLista(nuevaAlerta)
    BY <1>4 DEF EnLista
  <2>2. nuevaAlerta # a /\ nuevaAlerta \in Alerta
          => enriqueciendo'[nuevaAlerta] = enriqueciendo[nuevaAlerta]
    BY <1>1
  <2>3. enriqueciendo[nuevaAlerta] > 0 /\ nuevaAlerta \notin Alerta
          => enriqueciendo'[nuevaAlerta] > 0
    BY <1>1
  <2>4. EnVivo'
    BY <1>1, <1>4, <2>1, <2>2, <2>3 DEF EnVivo
  <2> QED BY <1>1, <1>2, <1>4, <2>4 DEF IInvVivo
<1> QED BY <1>3, <1>4 DEF Enriquecida, Anteponer, ponerLista

\* What leaves the list, the effect, the alerts on their way and those that are lost, or
\* puts another list and so makes the effect run, keeps the invariant.
Sosegado ==
  /\ montado' = montado /\ enriqueciendo' = enriqueciendo /\ perdidas' = perdidas
  /\ (lista' = lista /\ efecto' = efecto) \/ efecto' = TRUE

LEMMA SosegadoConserva ==
  ASSUME IInvVivo, nuevaAlerta' = nuevaAlerta, Sosegado
  PROVE  IInvVivo'
<1>1. TiposVivo'
  BY DEF IInvVivo, TiposVivo, Sosegado
<1>2. lista' = lista => (EnLista(nuevaAlerta)' <=> EnLista(nuevaAlerta))
  BY DEF EnLista
<1>3. EnVivo'
  BY <1>2 DEF IInvVivo, TiposVivo, EnVivo, Sosegado
<1> QED BY <1>1, <1>3 DEF IInvVivo

\* An answer of the list or of the map.
LEMMA CargarSosegado ==
  ASSUME ListaRecibida \/ MapaRecibido
  PROVE  Sosegado
<1>1. ASSUME NEW c, Cargar(c) PROVE Sosegado
  BY <1>1 DEF Cargar, Sosegado, ponerLista
<1>2. ASSUME CargaFallida PROVE Sosegado
  BY <1>2 DEF CargaFallida, Sosegado, ponerLista
<1> QED BY <1>1, <1>2 DEF ListaRecibida, MapaRecibido

\* Every operation of the panel keeps the invariant.
LEMMA PasoDelPanel ==
  ASSUME IInvVivo, nuevaAlerta' = nuevaAlerta, nuevaAlerta \in Alerta \cup {Nada}, PasoPanel
  PROVE  IInvVivo'
<1>0. TiposVivo /\ EnVivo
  BY DEF IInvVivo
<1>1. CASE UNCHANGED varsPanel \/ MapaHuerfano \/ AtenderLista \/ EfectoAntepone
  BY <1>1, SosegadoConserva
     DEF varsPanel, MapaHuerfano, AtenderLista, EfectoAntepone, Anteponer, ponerLista, Sosegado
<1>2. CASE Montar
  BY <1>0, <1>2 DEF Montar, IInvVivo, TiposVivo, EnVivo
<1>3. CASE Desmontar
  BY <1>0, <1>3 DEF Desmontar, IInvVivo, TiposVivo, EnVivo
<1>4. CASE EfectoNada
  <2>1. nuevaAlerta = Nada \/ EnLista(nuevaAlerta)'
    BY <1>4 DEF EfectoNada, EnLista
  <2> QED BY <1>0, <1>4, <2>1 DEF EfectoNada, IInvVivo, TiposVivo, EnVivo
<1>5. CASE EfectoEnriquece
  <2>1. nuevaAlerta \in Alerta
        /\ enriqueciendo' = [enriqueciendo EXCEPT ![nuevaAlerta] = enriqueciendo[nuevaAlerta] + 1]
    BY <1>5 DEF EfectoEnriquece
  <2>2. enriqueciendo' \in [Alerta -> Nat] /\ enriqueciendo'[nuevaAlerta] > 0
    BY <1>0, <2>1 DEF TiposVivo
  <2> QED BY <1>0, <1>5, <2>2 DEF EfectoEnriquece, IInvVivo, TiposVivo, EnVivo
<1>6. CASE \E s \in Filtros : Filtrar(s)
  BY <1>6, SosegadoConserva DEF Filtrar, Sosegado
<1>7. CASE \E t \in Tarjeta : onBloquear(t) \/ onMarcarFalsoPositivo(t)
  BY <1>7, SosegadoConserva DEF onBloquear, onMarcarFalsoPositivo, Sosegado
<1>8. CASE \E p \in pedidos : FalsoEnServidor(p)
  BY <1>8, SosegadoConserva DEF FalsoEnServidor, Sosegado
<1>9. CASE ListaRecibida \/ MapaRecibido
  BY <1>9, CargarSosegado, SosegadoConserva
<1>10. CASE \E a \in Alerta : Enriquecida(a)
  BY <1>0, <1>10, UnaMenos
<1>11. CASE \E p \in pedidos : BloqueoRespondido(p) \/ FalsoRespondido(p)
  <2>1. ASSUME NEW p \in pedidos, BloqueoRespondido(p) PROVE Sosegado
    BY <2>1 DEF BloqueoRespondido, Sosegado
  <2>2. ASSUME NEW p \in pedidos, FalsoRespondido(p) PROVE Sosegado
    BY <2>2 DEF FalsoRespondido, ponerLista, Sosegado
  <2> QED BY <1>11, <2>1, <2>2, SosegadoConserva
<1> QED
  BY <1>1, <1>2, <1>3, <1>4, <1>5, <1>6, <1>7, <1>8, <1>9, <1>10, <1>11 DEF PasoPanel, Respuestas

\* Every step keeps it: with the panel on the screen a live alert makes the effect run.
LEMMA InduccionVivo == TypeOKCanal /\ IInvVivo /\ [Next]_varsWeb => IInvVivo'
<1> SUFFICES ASSUME TypeOKCanal, IInvVivo, [Next]_varsWeb PROVE IInvVivo'
  OBVIOUS
<1>1. ASSUME NEW k \in K, RecibirViva(k) PROVE IInvVivo'
  BY <1>1 DEF RecibirViva, IInvVivo, TiposVivo, EnVivo
<1>2. nuevaAlerta \in Alerta \cup {Nada}
  BY DEF TypeOKCanal
<1> QED BY <1>1, <1>2, CasosVivo, PasoDelPanel DEF PasoVivo

\* The last live alert is never forgotten by a panel that is on the screen.
THEOREM InvarianteVivo == Spec => []IInvVivo
<1>1. IInvCanal => TypeOKCanal
  BY DEF IInvCanal
<1> QED BY InicioVivo, InduccionVivo, InvarianteCanal, <1>1, PTL DEF Spec

\* Once the panel is at rest the last live alert, if its owner did not dismiss it and its
\* enrichment did not throw, is in the list, though a list that was asked for before and
\* came later replaced the one it had been put in.
THEOREM UltimaEnVivoVisibleSiempre == Spec => []UltimaEnVivoVisible
<1>1. IInvVivo => UltimaEnVivoVisible
  BY DEF IInvVivo, TiposVivo, EnVivo, UltimaEnVivoVisible
<1> QED BY InvarianteVivo, <1>1, PTL
------------------------------------------------------------------------------
(* Lists with one of each *)

\* There is a least one of any natural numbers.
LEMMA ElMenor ==
  ASSUME NEW S, S \subseteq Nat, S # {}
  PROVE  \E x \in S : \A y \in S : x <= y
<1>1. PICK x \in S : \A y \in S : <<y, x>> \notin OpToRel(<, Nat)
  BY NatLessThanWellFounded, WFMin, Zenon
<1>2. \A y \in S : ~(y < x)
  <2>1. SUFFICES ASSUME NEW y \in S, y < x
                 PROVE  FALSE
    OBVIOUS
  <2>2. <<y, x>> \in Nat \X Nat /\ <<y, x>>[1] = y /\ <<y, x>>[2] = x
    OBVIOUS
  <2>3. <<y, x>>[1] < <<y, x>>[2]
    BY <2>1, <2>2, Zenon
  <2>4. <<y, x>> \in OpToRel(<, Nat)
    BY <2>2, <2>3, Zenon DEF OpToRel
  <2> QED BY <1>1, <2>4, Zenon
<1>3. \A y \in S : x <= y
  BY <1>2
<1> QED BY <1>3, Zenon

\* The numbers of a finite set, one after the other.
Enumera(f, n, I) ==
  /\ f \in [1 .. n -> I]
  /\ \A i, j \in 1 .. n : i < j => f[i] < f[j]
  /\ \A x \in I : \E i \in 1 .. n : f[i] = x

LEMMA AscendenteEnumera ==
  ASSUME NEW I \in SUBSET Nat, IsFiniteSet(I)
  PROVE  Cardinality(I) \in Nat /\ Enumera(Ascendente(I), Cardinality(I), I)
<1> DEFINE Mala(n, J) == J \in SUBSET Nat /\ IsFiniteSet(J) /\ Cardinality(J) = n
                         /\ ~ \E f : Enumera(f, n, J)
           Malas == {n \in Nat : \E J : Mala(n, J)}
<1>1. Malas = {}
  <2> SUFFICES ASSUME Malas # {} PROVE FALSE
    OBVIOUS
  <2>1. PICK n \in Malas : \A m \in Malas : n <= m
    BY ElMenor
  <2>2. PICK J : Mala(n, J)
    BY <2>1
  <2>0. n \in Nat /\ J \in SUBSET Nat /\ ~ \E f : Enumera(f, n, J)
    BY <2>2
  <2>3. J # {}
    <3> SUFFICES ASSUME J = {} PROVE FALSE
      OBVIOUS
    <3>1. n = 0
      BY <2>2, FS_EmptySet
    <3>2. Enumera([i \in {} |-> 0], n, J)
      BY <3>1 DEF Enumera
    <3> QED BY <2>2, <3>2
  <2>4. PICK m \in J : \A k \in J : m <= k
    BY <2>2, <2>3, ElMenor
  <2> DEFINE R == J \ {m}
  <2>5. IsFiniteSet(R) /\ Cardinality(R) = n - 1 /\ n - 1 \in Nat /\ R \in SUBSET Nat
    <3>1. IsFiniteSet(R) /\ Cardinality(R) = Cardinality(J) - 1
      BY <2>2, FS_RemoveElement
    <3>2. Cardinality(R) \in Nat
      BY <3>1, FS_CardinalityType
    <3> QED BY <2>2, <3>1, <3>2
  <2>6. PICK f : Enumera(f, n - 1, R)
    <3>1. n - 1 \notin Malas
      BY <2>0, <2>1, <2>5
    <3>2. ~Mala(n - 1, R)
      BY <2>5, <3>1
    <3> QED BY <2>5, <3>2
  <2> HIDE DEF Malas, Mala
  <2> DEFINE g == [i \in 1 .. n |-> IF i = 1 THEN m ELSE f[i - 1]]
  <2>7. \A i \in 1 .. n : i # 1 => i - 1 \in 1 .. n - 1 /\ f[i - 1] \in R /\ m < f[i - 1]
    <3> SUFFICES ASSUME NEW i \in 1 .. n, i # 1
                 PROVE  i - 1 \in 1 .. n - 1 /\ f[i - 1] \in R /\ m < f[i - 1]
      OBVIOUS
    <3>1. i - 1 \in 1 .. n - 1
      BY <2>0
    <3>2. f[i - 1] \in R
      BY <2>6, <3>1 DEF Enumera
    <3>3. f[i - 1] \in Nat /\ m \in Nat /\ m <= f[i - 1] /\ m # f[i - 1]
      BY <2>0, <2>4, <3>2
    <3> QED BY <3>1, <3>2, <3>3
  <2>8. g \in [1 .. n -> J]
    BY <2>7
  <2>9. \A i, j \in 1 .. n : i < j => g[i] < g[j]
    <3> SUFFICES ASSUME NEW i \in 1 .. n, NEW j \in 1 .. n, i < j PROVE g[i] < g[j]
      OBVIOUS
    <3>1. j # 1 /\ g[j] = f[j - 1] /\ m < f[j - 1]
      BY <2>7
    <3>2. CASE i = 1
      BY <3>1, <3>2
    <3>3. CASE i # 1
      <4>1. i - 1 \in 1 .. n - 1 /\ j - 1 \in 1 .. n - 1 /\ i - 1 < j - 1
        BY <2>7, <3>1, <3>3
      <4>2. f[i - 1] < f[j - 1]
        BY <2>6, <4>1 DEF Enumera
      <4> QED BY <3>1, <3>3, <4>2
    <3> QED BY <3>2, <3>3
  <2>10. \A x \in J : \E i \in 1 .. n : g[i] = x
    <3> SUFFICES ASSUME NEW x \in J PROVE \E i \in 1 .. n : g[i] = x
      OBVIOUS
    <3>1. CASE x = m
      <4>1. 1 \in 1 .. n /\ g[1] = m
        BY <2>0, <2>5
      <4> QED BY <3>1, <4>1
    <3>2. CASE x # m
      <4>1. PICK i \in 1 .. n - 1 : f[i] = x
        BY <2>6, <3>2 DEF Enumera
      <4>2. i + 1 \in 1 .. n /\ i + 1 # 1 /\ (i + 1) - 1 = i
        BY <2>0, <2>5
      <4>3. g[i + 1] = x
        BY <4>1, <4>2
      <4> QED BY <4>2, <4>3
    <3> QED BY <3>1, <3>2
  <2>11. Enumera(g, n, J)
    BY <2>8, <2>9, <2>10 DEF Enumera
  <2> QED BY <2>0, <2>11
<1>2. Cardinality(I) \in Nat
  BY FS_CardinalityType
<1>3. PICK f : Enumera(f, Cardinality(I), I)
  BY <1>1, <1>2
<1> HIDE DEF Mala, Malas
<1>4. Ascendente(I) \in [1 .. Cardinality(I) -> I]
      /\ \A i, j \in 1 .. Cardinality(I) : i < j => Ascendente(I)[i] < Ascendente(I)[j]
  BY <1>3 DEF Ascendente, Enumera
<1>5. \A i, j \in 1 .. Cardinality(I) : Ascendente(I)[i] = Ascendente(I)[j] => i = j
  <2> SUFFICES ASSUME NEW i \in 1 .. Cardinality(I), NEW j \in 1 .. Cardinality(I),
                      Ascendente(I)[i] = Ascendente(I)[j], i < j
               PROVE  FALSE
    BY <1>2
  <2>1. Ascendente(I)[i] < Ascendente(I)[j] /\ Ascendente(I)[i] \in Nat
    BY <1>4
  <2> QED BY <2>1
<1>6. Ascendente(I) \in Surjection(1 .. Cardinality(I), I)
  <2>1. Ascendente(I) \in Injection(1 .. Cardinality(I), I)
    BY <1>4, <1>5 DEF Injection, IsInjective
  <2>2. IsFiniteSet(1 .. Cardinality(I)) /\ Cardinality(1 .. Cardinality(I)) = Cardinality(I)
    BY <1>2, FS_Interval
  <2> QED BY <2>1, <2>2, FS_Injection
<1> QED BY <1>2, <1>4, <1>6 DEF Enumera, Surjection

\* f says where in s each element of t is: t has those that are in S.
Elige(f, t, s, S) ==
  /\ f \in [DOMAIN t -> DOMAIN s]
  /\ \A i \in DOMAIN t : t[i] = s[f[i]] /\ s[f[i]] \in S
  /\ \A i, j \in DOMAIN t : i < j => f[i] < f[j]
  /\ \A k \in DOMAIN s : s[k] \in S => \E i \in DOMAIN t : f[i] = k

\* A filter keeps these elements, in their order.
LEMMA FiltroEs ==
  ASSUME NEW E, NEW s \in Seq(E), NEW S
  PROVE  /\ filter(s, S) \in Seq(E)
         /\ \E f : Elige(f, filter(s, S), s, S)
<1> DEFINE I == {i \in DOMAIN s : s[i] \in S}
           n == Cardinality(I)
           f == Ascendente(I)
<1>1. DOMAIN s = 1 .. Len(s) /\ Len(s) \in Nat /\ \A i \in DOMAIN s : s[i] \in E
  OBVIOUS
<1>2. I \in SUBSET Nat /\ IsFiniteSet(I)
  <2>1. IsFiniteSet(1 .. Len(s)) /\ I \in SUBSET (1 .. Len(s))
    BY <1>1, FS_Interval
  <2>2. IsFiniteSet(I)
    BY <2>1, FS_Subset
  <2> QED BY <2>1, <2>2
<1>3. n \in Nat /\ Enumera(f, n, I)
  BY <1>2, AscendenteEnumera
<1>4. filter(s, S) = [i \in DOMAIN f |-> s[f[i]]]
  BY DEF filter
<1> HIDE DEF f, n
<1>5. DOMAIN f = 1 .. n /\ DOMAIN filter(s, S) = 1 .. n
  BY <1>3, <1>4 DEF Enumera
<1>6. \A i \in 1 .. n : f[i] \in I /\ filter(s, S)[i] = s[f[i]]
  BY <1>3, <1>4, <1>5 DEF Enumera
<1>7. filter(s, S) \in Seq(E)
  <2>1. filter(s, S) \in [1 .. n -> E]
    BY <1>1, <1>4, <1>5, <1>6
  <2> QED BY <1>3, <2>1
<1>8. f \in [1 .. n -> DOMAIN s]
  BY <1>3 DEF Enumera
<1>9. /\ \A i \in 1 .. n : filter(s, S)[i] = s[f[i]] /\ s[f[i]] \in S
      /\ \A i, j \in 1 .. n : i < j => f[i] < f[j]
      /\ \A k \in DOMAIN s : s[k] \in S => \E i \in 1 .. n : f[i] = k
  BY <1>3, <1>6 DEF Enumera
<1>10. Elige(f, filter(s, S), s, S)
  BY <1>5, <1>8, <1>9 DEF Elige
<1> QED BY <1>7, <1>10

\* A filter keeps which, which before which, and that there is one of each.
LEMMA FiltroConserva ==
  ASSUME NEW E, NEW s \in Seq(E), NEW S
  PROVE  /\ filter(s, S) \in Seq(E)
         /\ \A x : x \in ToSet(filter(s, S)) <=> x \in ToSet(s) /\ x \in S
         /\ \A x, y : Precede(filter(s, S), x, y) <=> Precede(s, x, y) /\ x \in S /\ y \in S
         /\ IsInjective(s) => IsInjective(filter(s, S))
<1> DEFINE t == filter(s, S)
<1>1. t \in Seq(E)
  BY FiltroEs
<1>2. PICK f : Elige(f, t, s, S)
  BY FiltroEs
<1> HIDE DEF t
<1> USE DEF Elige
<1>3. DOMAIN t = 1 .. Len(t) /\ DOMAIN s = 1 .. Len(s)
  BY <1>1
<1>4. \A x : x \in ToSet(t) <=> x \in ToSet(s) /\ x \in S
  BY <1>2 DEF ToSet
<1>5. \A i, j \in DOMAIN t : f[i] < f[j] => i < j
  <2> SUFFICES ASSUME NEW i \in DOMAIN t, NEW j \in DOMAIN t, f[i] < f[j], ~(i < j)
               PROVE  FALSE
    OBVIOUS
  <2>1. f[i] \in Nat /\ f[j] \in Nat /\ i \in Nat /\ j \in Nat
    BY <1>2, <1>3
  <2>2. i = j \/ j < i
    BY <2>1
  <2> QED BY <1>2, <2>1, <2>2
<1>6. \A x, y : Precede(t, x, y) <=> Precede(s, x, y) /\ x \in S /\ y \in S
  <2> TAKE x, y
  <2>1. ASSUME Precede(t, x, y) PROVE Precede(s, x, y) /\ x \in S /\ y \in S
    BY <1>2, <2>1 DEF Precede
  <2>2. ASSUME Precede(s, x, y), x \in S, y \in S PROVE Precede(t, x, y)
    <3>1. PICK k \in DOMAIN s, l \in DOMAIN s : k < l /\ s[k] = x /\ s[l] = y
      BY <2>2 DEF Precede
    <3>2. PICK i \in DOMAIN t, j \in DOMAIN t : f[i] = k /\ f[j] = l
      BY <1>2, <2>2, <3>1
    <3>3. i < j /\ t[i] = x /\ t[j] = y
      BY <1>2, <1>5, <3>1, <3>2
    <3> QED BY <3>3 DEF Precede
  <2> QED BY <2>1, <2>2
<1>7. ASSUME IsInjective(s) PROVE IsInjective(t)
  <2> SUFFICES ASSUME NEW i \in DOMAIN t, NEW j \in DOMAIN t, t[i] = t[j]
               PROVE  i = j
    BY DEF IsInjective
  <2>1. f[i] \in DOMAIN s /\ f[j] \in DOMAIN s /\ s[f[i]] = s[f[j]]
    BY <1>2
  <2>2. f[i] = f[j]
    BY <1>7, <2>1 DEF IsInjective
  <2>3. i \in Nat /\ j \in Nat /\ f[i] \in Nat
    BY <1>3, <2>1
  <2>4. ~(i < j) /\ ~(j < i)
    BY <1>2, <2>2, <2>3
  <2> QED BY <2>3, <2>4
<1> QED BY <1>1, <1>4, <1>6, <1>7 DEF t

\* Lists with one of each, with the same elements in the same order, are the same.
LEMMA MismaLista ==
  ASSUME NEW E, NEW s \in Seq(E), NEW t \in Seq(E), IsInjective(s), IsInjective(t),
         \A x \in E : x \in ToSet(s) <=> x \in ToSet(t),
         \A x, y \in E : Precede(s, x, y) <=> Precede(t, x, y)
  PROVE  s = t
<1>1. /\ DOMAIN s = 1 .. Len(s) /\ DOMAIN t = 1 .. Len(t) /\ Len(s) \in Nat /\ Len(t) \in Nat
      /\ (\A i \in DOMAIN s : s[i] \in E) /\ \A i \in DOMAIN t : t[i] \in E
  OBVIOUS
<1> DEFINE Malas == {i \in Nat : i \in DOMAIN s \cap DOMAIN t /\ s[i] # t[i]}
\* The least place where they differ: what each has there, the other has later.
<1>2. Malas = {}
  <2> SUFFICES ASSUME Malas # {} PROVE FALSE
    OBVIOUS
  <2>1. PICK i \in Malas : \A j \in Malas : i <= j
    BY ElMenor
  <2>2. i \in DOMAIN s /\ i \in DOMAIN t /\ s[i] # t[i] /\ i \in Nat
    OBVIOUS
  <2>3. \A j \in DOMAIN s \cap DOMAIN t : j < i => s[j] = t[j]
    BY <1>1, <2>1
  <2>4. PICK k \in DOMAIN t : t[k] = s[i]
    BY <1>1, <2>2 DEF ToSet
  <2>5. PICK l \in DOMAIN s : s[l] = t[i]
    BY <1>1, <2>2 DEF ToSet
  <2>6. i < k
    <3>1. k # i /\ k \in Nat
      BY <1>1, <2>2, <2>4
    <3>2. ASSUME k < i PROVE FALSE
      <4>1. k \in DOMAIN s
        BY <1>1, <2>2, <3>2
      <4>2. s[k] = s[i]
        BY <2>3, <2>4, <3>2, <4>1
      <4> QED BY <2>2, <3>1, <4>1, <4>2 DEF IsInjective
    <3> QED BY <2>2, <3>1, <3>2
  <2>7. i < l
    <3>1. l # i /\ l \in Nat
      BY <1>1, <2>2, <2>5
    <3>2. ASSUME l < i PROVE FALSE
      <4>1. l \in DOMAIN t
        BY <1>1, <2>2, <3>2
      <4>2. t[l] = t[i]
        BY <2>3, <2>5, <3>2, <4>1
      <4> QED BY <2>2, <3>1, <4>1, <4>2 DEF IsInjective
    <3> QED BY <2>2, <3>1, <3>2
  <2>8. Precede(s, s[i], t[i])
    BY <2>2, <2>5, <2>7 DEF Precede
  <2>9. PICK m \in DOMAIN t, n \in DOMAIN t : m < n /\ t[m] = s[i] /\ t[n] = t[i]
    BY <1>1, <2>2, <2>8 DEF Precede
  <2>10. m = k /\ n = i
    BY <2>2, <2>4, <2>9 DEF IsInjective
  <2> QED BY <1>1, <2>2, <2>6, <2>9, <2>10
<1> HIDE DEF Malas
<1>3. \A i \in DOMAIN s \cap DOMAIN t : s[i] = t[i]
  BY <1>1, <1>2 DEF Malas
<1>4. ASSUME Len(s) < Len(t) PROVE FALSE
  <2>1. Len(s) + 1 \in DOMAIN t
    BY <1>1, <1>4
  <2>2. PICK j \in DOMAIN s : s[j] = t[Len(s) + 1]
    BY <1>1, <2>1 DEF ToSet
  <2>3. j \in DOMAIN t /\ j # Len(s) + 1
    BY <1>1, <1>4
  <2> QED BY <1>3, <2>1, <2>2, <2>3 DEF IsInjective
<1>5. ASSUME Len(t) < Len(s) PROVE FALSE
  <2>1. Len(t) + 1 \in DOMAIN s
    BY <1>1, <1>5
  <2>2. PICK j \in DOMAIN t : t[j] = s[Len(t) + 1]
    BY <1>1, <2>1 DEF ToSet
  <2>3. j \in DOMAIN s /\ j # Len(t) + 1
    BY <1>1, <1>5
  <2> QED BY <1>3, <2>1, <2>2, <2>3 DEF IsInjective
<1>6. DOMAIN s = DOMAIN t
  <2>1. Len(s) \in Nat /\ Len(t) \in Nat
    BY <1>1
  <2>2. Len(s) = Len(t)
    BY <1>4, <1>5, <2>1
  <2> QED BY <1>1, <2>2
<1>7. s = [i \in DOMAIN s |-> s[i]] /\ t = [i \in DOMAIN t |-> t[i]]
  OBVIOUS
<1> QED BY <1>3, <1>6, <1>7

\* One more, in front.
LEMMA AlFrente ==
  ASSUME NEW E, NEW s \in Seq(E), NEW x \in E
  PROVE  /\ <<x>> \o s \in Seq(E)
         /\ \A y : y \in ToSet(<<x>> \o s) <=> y = x \/ y \in ToSet(s)
         /\ \A y, z : Precede(<<x>> \o s, y, z) <=> (y = x /\ z \in ToSet(s)) \/ Precede(s, y, z)
         /\ IsInjective(s) /\ x \notin ToSet(s) => IsInjective(<<x>> \o s)
<1> DEFINE t == <<x>> \o s
<1>1. /\ t \in Seq(E) /\ DOMAIN t = 1 .. Len(s) + 1 /\ DOMAIN s = 1 .. Len(s) /\ Len(s) \in Nat
      /\ t[1] = x
  OBVIOUS
<1>2. \A i \in DOMAIN t : i # 1 => i - 1 \in DOMAIN s /\ t[i] = s[i - 1]
  OBVIOUS
<1>3. \A i \in DOMAIN s : i + 1 \in DOMAIN t /\ i + 1 # 1 /\ t[i + 1] = s[i]
  OBVIOUS
<1> HIDE DEF t
<1>4. \A y : y \in ToSet(t) <=> y = x \/ y \in ToSet(s)
  <2>1. 1 \in DOMAIN t
    BY <1>1
  <2> QED BY <1>1, <1>2, <1>3, <2>1 DEF ToSet
<1>5. \A y, z : Precede(t, y, z) <=> (y = x /\ z \in ToSet(s)) \/ Precede(s, y, z)
  <2> TAKE y, z
  <2>1. ASSUME Precede(t, y, z) PROVE (y = x /\ z \in ToSet(s)) \/ Precede(s, y, z)
    <3>1. PICK i \in DOMAIN t, j \in DOMAIN t : i < j /\ t[i] = y /\ t[j] = z
      BY <2>1 DEF Precede
    <3>2. j # 1 /\ j - 1 \in DOMAIN s /\ s[j - 1] = z
      BY <1>1, <1>2, <3>1
    <3>3. CASE i = 1
      BY <1>1, <3>1, <3>2, <3>3 DEF ToSet
    <3>4. CASE i # 1
      <4>1. i - 1 \in DOMAIN s /\ s[i - 1] = y /\ i - 1 < j - 1
        BY <1>1, <1>2, <3>1, <3>4
      <4> QED BY <3>2, <4>1 DEF Precede
    <3> QED BY <3>3, <3>4
  <2>2. ASSUME y = x, z \in ToSet(s) PROVE Precede(t, y, z)
    <3>1. PICK j \in DOMAIN s : s[j] = z
      BY <2>2 DEF ToSet
    <3>2. 1 \in DOMAIN t /\ 1 < j + 1 /\ j + 1 \in DOMAIN t /\ t[j + 1] = z
      BY <1>1, <1>3, <3>1
    <3> QED BY <1>1, <2>2, <3>2 DEF Precede
  <2>3. ASSUME Precede(s, y, z) PROVE Precede(t, y, z)
    <3>1. PICK i \in DOMAIN s, j \in DOMAIN s : i < j /\ s[i] = y /\ s[j] = z
      BY <2>3 DEF Precede
    <3>2. /\ i + 1 \in DOMAIN t /\ t[i + 1] = y /\ j + 1 \in DOMAIN t /\ t[j + 1] = z
          /\ i + 1 < j + 1
      BY <1>1, <1>3, <3>1
    <3> QED BY <3>2 DEF Precede
  <2> QED BY <2>1, <2>2, <2>3
<1>6. ASSUME IsInjective(s), x \notin ToSet(s) PROVE IsInjective(t)
  <2> SUFFICES ASSUME NEW i \in DOMAIN t, NEW j \in DOMAIN t, t[i] = t[j]
               PROVE  i = j
    BY DEF IsInjective
  <2>1. ASSUME NEW k \in DOMAIN t, k # 1 PROVE t[k] # x
    BY <1>2, <1>6, <2>1 DEF ToSet
  <2>2. CASE i = 1 \/ j = 1
    BY <1>1, <2>1, <2>2
  <2>3. CASE i # 1 /\ j # 1
    <3>1. i - 1 \in DOMAIN s /\ j - 1 \in DOMAIN s /\ s[i - 1] = s[j - 1]
      BY <1>2, <2>3
    <3>2. i - 1 = j - 1
      BY <1>6, <3>1 DEF IsInjective
    <3> QED BY <1>1, <3>2
  <2> QED BY <2>2, <2>3
<1> QED BY <1>1, <1>4, <1>5, <1>6 DEF t
------------------------------------------------------------------------------
(* The list of servers *)

\* No page, no window, and nothing in flight.
LEMMA InicioServidores == InitAplicacion => IInvServidores
<1> SUFFICES ASSUME InitAplicacion PROVE IInvServidores
  OBVIOUS
<1>1. InitServidores
  BY DEF InitAplicacion
<1>2. servidores \in Seq(Servidor)
  <2>1. PICK S \in SUBSET Servidor : servidores \in SetToSeqs(S)
    BY <1>1 DEF InitServidores
  <2>2. servidores \in [1 .. Cardinality(S) -> S]
    BY <2>1 DEF SetToSeqs
  <2>3. Cardinality(S) \in Nat
    BY <2>1, ServidoresConstantes, FS_Subset, FS_CardinalityType
  <2> QED BY <2>1, <2>2, <2>3
<1>3. TiposServidores
  BY <1>1, <1>2 DEF InitServidores, TiposServidores
<1>4. DeLaVentana /\ AlDia
  BY <1>1 DEF InitServidores, DeLaVentana, AlDia
<1> QED BY <1>3, <1>4 DEF IInvServidores

\* A row of the list is never the absence of one.
LEMMA Registros ==
  /\ \A p \in Pagina : p # Nada
  /\ \A v \in Ventana : v # Nada
  /\ \A q \in Consulta : q # Nada
  /\ SinLeer \in Consulta
BY NadaNoEsPagina DEF SinLeer, Consulta

\* An answer that was not asked for on the server is no answer of use.
LEMMA SinHacerNoHayDatos == ASSUME NEW p PROVE TRUE \notin vpsService(p, FALSE)
<1>1. \A r \in RespuestasA(p, FALSE) : request(r) # "datos"
  <2> SUFFICES ASSUME NEW r \in RespuestasA(p, FALSE) PROVE request(r) # "datos"
    OBVIOUS
  <2>1. r = Nada \/ ~r.ok
    <3>1. r = Nada \/ (r \in Respuesta \ {Nada} /\ (r.ok => FALSE))
      BY DEF RespuestasA
    <3> QED BY <3>1
  <2>2. request(r) = IF r = Nada THEN "error"
                     ELSE IF r.cuerpo = "roto" THEN "excepcion" ELSE "error"
    <3>1. CASE r = Nada
      BY <3>1 DEF request
    <3>2. CASE r # Nada /\ ~r.ok
      BY <3>2 DEF request
    <3> QED BY <2>1, <3>1, <3>2
  <2> QED BY <2>2
<1>2. TRUE \in vpsService(p, FALSE) => \E r \in RespuestasA(p, FALSE) : TRUE = (request(r) = "datos")
  BY DEF vpsService, Desenlaces
<1> QED BY <1>1, <1>2

\* The page opens.
LEMMA PasoMontarServidores ==
  ASSUME IInvServidores, MontarServidores
  PROVE  IInvServidores'
<1> USE DEF IInvServidores, MontarServidores
<1>1. TiposServidores'
  BY Registros DEF TiposServidores, Pagina
<1>2. DeLaVentana'
  <2>1. <<>> \in Seq(Servidor)
    OBVIOUS
  <2>2. pagina' \in Pagina
    BY <2>1 DEF Pagina
  <2> QED BY <2>2, Registros DEF DeLaVentana
<1>3. consulta' = SinLeer /\ consulta' # Nada /\ ~consulta'.leida
  BY Registros DEF SinLeer
<1>4. AlDia'
  BY <1>3 DEF AlDia
<1> QED BY <1>1, <1>2, <1>4

\* The page goes with its window: what is in flight is of nobody.
LEMMA PasoDesmontarServidores ==
  ASSUME IInvServidores, DesmontarServidores
  PROVE  IInvServidores'
<1> USE DEF IInvServidores, DesmontarServidores
<1>1. Ajenas(creaciones) \subseteq [id : Servidor, hecho : BOOLEAN, propia : {FALSE}]
  BY DEF Ajenas, TiposServidores
<1>2. \A c \in creaciones' : ~c.propia
  BY <1>1
<1>3. TiposServidores'
  BY <1>1 DEF TiposServidores
<1> QED BY <1>2, <1>3 DEF DeLaVentana, AlDia

\* What the server reads is all there is at that time.
LEMMA PasoAtenderConsulta ==
  ASSUME IInvServidores, AtenderConsulta
  PROVE  IInvServidores'
<1> USE DEF IInvServidores, AtenderConsulta
<1>1. consulta' \in Consulta /\ consulta'.leida /\ consulta'.filas = servidores
  BY DEF TiposServidores, Consulta
<1>2. TiposServidores' /\ consulta' # Nada
  BY <1>1, Registros DEF TiposServidores
<1> QED BY <1>1, <1>2 DEF DeLaVentana, AlDia

\* A creation takes effect: the page is owed the news, or the window was given up.
LEMMA PasoCrearServidor ==
  ASSUME IInvServidores, NEW c \in creaciones, CrearServidor(c)
  PROVE  IInvServidores'
<1> USE DEF IInvServidores
<1>0. c \in [id : Servidor, hecho : BOOLEAN, propia : BOOLEAN]
  BY DEF TiposServidores
<1> DEFINE d == [c EXCEPT !.hecho = TRUE]
<1>1. d \in [id : Servidor, hecho : BOOLEAN, propia : BOOLEAN] /\ d.hecho /\ d.propia = c.propia
  BY <1>0
<1> HIDE DEF d
<1>2. creaciones' = (creaciones \ {c}) \cup {d} /\ servidores' = <<c.id>> \o servidores
      /\ omitida' = (omitida \/ ~c.propia)
      /\ UNCHANGED <<pagina, ventana, consulta>>
  BY DEF CrearServidor, Hecha, d
<1>3. <<c.id>> \o servidores \in Seq(Servidor)
  BY <1>0 DEF TiposServidores
<1>4. TiposServidores'
  BY <1>0, <1>1, <1>2, <1>3 DEF TiposServidores
<1>5. DeLaVentana'
  BY <1>1, <1>2 DEF DeLaVentana
<1>6. c.propia => Deuda'
  BY <1>1, <1>2 DEF Deuda
<1>7. AlDia'
  BY <1>0, <1>2, <1>6 DEF AlDia
<1> QED BY <1>4, <1>5, <1>7

\* loadVps ends: with what was read, or saying less than there is.
LEMMA PasoConsultaRespondida ==
  ASSUME IInvServidores, ConsultaRespondida
  PROVE  IInvServidores'
<1> USE DEF IInvServidores
<1> DEFINE p == PeticionServidores("vps.findAll", Nada)
<1>0. PICK bien \in vpsService(p, consulta.leida) :
        /\ pagina' = [isLoading |-> FALSE, vpsList |-> IF bien THEN consulta.filas ELSE <<>>]
        /\ omitida' = (omitida \/ ~bien)
  BY DEF ConsultaRespondida
<1> HIDE DEF p
<1>1. consulta # Nada /\ consulta' = Nada /\ UNCHANGED <<ventana, servidores, creaciones>>
  BY DEF ConsultaRespondida
<1>2. consulta \in Consulta
  BY <1>1 DEF TiposServidores
<1>3. consulta.leida \in BOOLEAN /\ consulta.filas \in Seq(Servidor)
  BY <1>2 DEF Consulta
<1>4. bien \in BOOLEAN
  BY <1>0 DEF vpsService
<1>5. bien => consulta.leida
  BY <1>0, <1>3, <1>4, SinHacerNoHayDatos
<1>6. <<>> \in Seq(Servidor)
  OBVIOUS
<1>7. pagina' \in Pagina /\ omitida' \in BOOLEAN
  BY <1>0, <1>3, <1>4, <1>6 DEF Pagina, TiposServidores
<1>8. TiposServidores'
  BY <1>1, <1>7 DEF TiposServidores
<1>9. DeLaVentana'
  BY <1>1, <1>7, Registros DEF DeLaVentana
<1>10. bien => pagina'.vpsList = consulta.filas
  BY <1>0
<1>11. Deuda' <=> Deuda
  BY <1>1 DEF Deuda
<1>12. AlDia'
  BY <1>0, <1>1, <1>4, <1>5, <1>10, <1>11 DEF AlDia, TiposServidores
<1> QED BY <1>8, <1>9, <1>12

\* The window opens, which owes nothing.
LEMMA PasoAbrirVentana ==
  ASSUME IInvServidores, AbrirVentana
  PROVE  IInvServidores'
<1> USE DEF IInvServidores, AbrirVentana
<1>1. ventana' \in Ventana /\ ventana'.step = 1
  BY DEF VentanaNueva, Ventana
<1>2. TiposServidores' /\ DeLaVentana'
  BY <1>1, Registros DEF TiposServidores, DeLaVentana
<1>3. Deuda' <=> Deuda
  BY <1>1 DEF Deuda
<1> QED BY <1>2, <1>3 DEF AlDia

\* A creation is asked for.
LEMMA PasoOnSubmit ==
  ASSUME IInvServidores, NEW v \in Nuevos, onSubmit(v)
  PROVE  IInvServidores'
<1> USE DEF IInvServidores
<1> DEFINE d == [id |-> v, hecho |-> FALSE, propia |-> TRUE]
<1>1. /\ ventana # Nada /\ ventana' = [ventana EXCEPT !.isLoading = TRUE]
      /\ creaciones' = creaciones \cup {d} /\ UNCHANGED <<pagina, servidores, consulta, omitida>>
  BY DEF onSubmit
<1>2. d \in [id : Servidor, hecho : BOOLEAN, propia : BOOLEAN] /\ ~d.hecho
  BY ServidoresConstantes
<1> HIDE DEF d
<1>3. ventana \in Ventana /\ ventana' \in Ventana /\ ventana'.step = ventana.step
  BY <1>1 DEF TiposServidores, Ventana
<1>4. TiposServidores' /\ DeLaVentana'
  BY <1>1, <1>2, <1>3, Registros DEF TiposServidores, DeLaVentana
<1>5. Deuda' <=> Deuda
  BY <1>1, <1>2, <1>3, Registros DEF Deuda
<1> QED BY <1>1, <1>4, <1>5 DEF AlDia

\* A creation is answered: its window shows the token, and the list will be asked for, or
\* the page does not learn of what was done.
LEMMA PasoCreacionRespondida ==
  ASSUME IInvServidores, NEW c \in creaciones, CreacionRespondida(c)
  PROVE  IInvServidores'
<1> USE DEF IInvServidores
<1> DEFINE p == PeticionServidores("vps.create", c.id)
<1>0. PICK bien \in vpsService(p, c.hecho) :
        /\ ventana' = IF ~c.propia THEN ventana
                      ELSE IF bien THEN [step |-> 2, isLoading |-> FALSE, token |-> c.id]
                      ELSE [ventana EXCEPT !.isLoading = FALSE]
        /\ omitida' = (omitida \/ (c.propia /\ c.hecho /\ ~bien))
  BY DEF CreacionRespondida
<1> HIDE DEF p
<1>1. creaciones' = creaciones \ {c} /\ UNCHANGED <<pagina, servidores, consulta>>
  BY DEF CreacionRespondida
<1>2. c \in [id : Servidor, hecho : BOOLEAN, propia : BOOLEAN]
  BY DEF TiposServidores
<1>3. bien \in BOOLEAN
  BY <1>0 DEF vpsService
<1>4. c.propia => ventana # Nada /\ ventana \in Ventana
  BY DEF DeLaVentana, TiposServidores
<1>5. c.propia => ventana' \in Ventana /\ (ventana'.step = 2 \/ ventana'.step = ventana.step)
                  /\ (bien => ventana'.step = 2)
  BY <1>0, <1>2, <1>3, <1>4 DEF Ventana
<1>6. TiposServidores' /\ DeLaVentana'
  BY <1>0, <1>1, <1>2, <1>3, <1>4, <1>5, Registros DEF TiposServidores, DeLaVentana
<1>7. Deuda => Deuda' \/ omitida'
  BY <1>0, <1>1, <1>2, <1>3, <1>4, <1>5, Registros DEF Deuda
<1>8. omitida => omitida'
  BY <1>0
<1> QED BY <1>1, <1>6, <1>7, <1>8 DEF AlDia

\* The window closes: the list again if it showed a token, and otherwise what it made is
\* not told.
LEMMA PasoOnClose ==
  ASSUME IInvServidores, onClose
  PROVE  IInvServidores'
<1> USE DEF IInvServidores
<1>0. /\ ventana # Nada /\ ventana' = Nada /\ creaciones' = Ajenas(creaciones)
      /\ omitida' = (omitida \/ \E c \in creaciones : c.propia /\ c.hecho)
      /\ UNCHANGED servidores
  BY DEF onClose
<1>1. Ajenas(creaciones) \subseteq [id : Servidor, hecho : BOOLEAN, propia : {FALSE}]
  BY DEF Ajenas, TiposServidores
<1>2. \A c \in creaciones' : ~c.propia
  BY <1>0, <1>1
<1>3. pagina # Nada /\ pagina \in Pagina
  BY <1>0 DEF DeLaVentana, TiposServidores
<1>4. CASE ventana.step = 2
  <2>1. pagina' = [pagina EXCEPT !.isLoading = TRUE] /\ consulta' = SinLeer
    BY <1>4 DEF onClose
  <2>2. pagina' \in Pagina /\ consulta' \in Consulta /\ ~consulta'.leida
    BY <1>3, <2>1, Registros DEF Pagina, SinLeer
  <2>3. TiposServidores' /\ DeLaVentana'
    BY <1>0, <1>1, <1>2, <2>2, Registros DEF TiposServidores, DeLaVentana
  <2>4. AlDia'
    BY <2>2, Registros DEF AlDia
  <2> QED BY <2>3, <2>4
<1>5. CASE ventana.step # 2
  <2>1. UNCHANGED <<pagina, consulta>>
    BY <1>5 DEF onClose
  <2>2. TiposServidores' /\ DeLaVentana'
    BY <1>0, <1>1, <1>2, <2>1 DEF TiposServidores, DeLaVentana
  <2>3. omitida' \/ ~Deuda
    BY <1>0, <1>5 DEF Deuda
  <2>4. AlDia'
    BY <1>0, <2>1, <2>3 DEF AlDia
  <2> QED BY <2>2, <2>4
<1> QED BY <1>4, <1>5

\* The removal of a VPS, which no page is told of.
LEMMA PasoEliminarServidor ==
  ASSUME IInvServidores, Eliminar
  PROVE  IInvServidores'
<1> USE DEF IInvServidores
<1>1. servidores' \in Seq(Servidor) /\ omitida' = TRUE /\ UNCHANGED <<pagina, ventana, consulta, creaciones>>
  BY FiltroConserva DEF Eliminar, TiposServidores
<1> QED BY <1>1 DEF TiposServidores, DeLaVentana, AlDia

\* Every step keeps the invariant of the list of servers.
LEMMA InduccionServidores == IInvServidores /\ [Next]_varsWeb => IInvServidores'
<1> SUFFICES ASSUME IInvServidores, [Next]_varsWeb PROVE IInvServidores'
  OBVIOUS
<1>1. ASSUME UNCHANGED varsServidores PROVE IInvServidores'
  BY <1>1 DEF varsServidores, IInvServidores, TiposServidores, DeLaVentana, AlDia, Deuda
<1>2. ASSUME PasoServidores PROVE IInvServidores'
  BY <1>2, PasoAtenderConsulta, PasoConsultaRespondida, PasoOnClose, PasoOnSubmit,
     PasoCrearServidor, PasoCreacionRespondida DEF PasoServidores
<1> QED
  BY <1>1, <1>2, CasosServidores, PasoMontarServidores, PasoDesmontarServidores, PasoAbrirVentana,
     PasoEliminarServidor DEF PasoServ

\* The page of servers knows what it shows, or that it will be told.
THEOREM InvarianteServidores == Spec => []IInvServidores
<1> QED BY InicioServidores, InduccionServidores, PTL DEF Spec

\* With its window closed and its list at rest the page shows the servers of the account,
\* removed ones gone and made ones there, except for the creations it gave up or was not told
\* of and for what was done after it read the list on behalf of a page that was left.
THEOREM ServidoresFielSiempre == Spec => []ServidoresFiel
<1>1. IInvServidores => ServidoresFiel
  BY DEF IInvServidores, TiposServidores, DeLaVentana, AlDia, Deuda, ServidoresFiel
<1> QED BY InvarianteServidores, <1>1, PTL
------------------------------------------------------------------------------
(* The detail of a VPS *)

Guardado == [body : Formulario, hecho : BOOLEAN, propio : BOOLEAN]
Regeneracion == [token : 0 .. Tokens, propia : BOOLEAN]

\* The component does not exist.
LEMMA InicioDetalle == InitAplicacion => IInvDetalle
<1> SUFFICES ASSUME InitDetalle PROVE IInvDetalle
  BY DEF InitAplicacion
<1>1. TypeOKDetalle
  <2>1. 0 \in 0 .. Tokens
    BY DetalleConstantes
  <2>2. tokenVps \in 0 .. Tokens /\ solapadas \in BOOLEAN
    BY <2>1 DEF InitDetalle
  <2> QED BY <2>2 DEF InitDetalle, TypeOKDetalle
<1>2. DeLaPagina /\ Tocado /\ UnaSola
  BY DEF InitDetalle, DeLaPagina, Tocado, UnaSola
<1> QED BY <1>1, <1>2 DEF IInvDetalle

\* What is read or shown is not the absence of it.
LEMMA RegistrosDetalle ==
  (\A d \in Detalle : d # Nada) /\ (\A l \in Lecturas : l # Nada)
BY NadaNoEsDetalle

\* A step that only puts other signals on the screen.  The form it shows was loaded and
\* then touched, and the token is the one that was there.
LEMMA SoloSenales ==
  ASSUME IInvDetalle, detalle # Nada, detalle' \in Detalle, detalle'.vps => detalle.vps,
         detalle'.form = detalle.form, detalle'.token = detalle.token,
         UNCHANGED <<lecturas, guardados, regeneraciones, eliminaciones, remoto, historia>>
  PROVE  IInvDetalle'
<1> USE DEF IInvDetalle, remoto, historia
<1>1. TypeOKDetalle' /\ detalle' # Nada
  BY RegistrosDetalle DEF TypeOKDetalle
<1>2. Tocado'
  BY DEF Tocado, Difiere
<1>3. UnaSola'
  BY DEF UnaSola
<1> QED BY <1>1, <1>2, <1>3 DEF DeLaPagina

\* The page opens with the defaults, which cannot be saved before they are replaced.
LEMMA PasoMontarDetalle ==
  ASSUME IInvDetalle, MontarDetalle
  PROVE  IInvDetalle'
<1> USE DEF IInvDetalle
<1>1. /\ detalle = Nada /\ original' = configuracion /\ solapadas' = (regeneraciones # {})
      /\ editados' = {c \in Campo : \E g \in guardados : g.body[c] # configuracion[c]}
      /\ UNCHANGED <<guardados, regeneraciones, eliminaciones, configuracion, tokenVps>>
  BY DEF MontarDetalle, remoto
<1>2. /\ detalle' \in Detalle /\ ~detalle'.vps /\ detalle'.token = 0
  <2>1. Defecto \in Formulario /\ 0 \in 0 .. Tokens
    BY DetalleConstantes DEF Formulario
  <2> QED BY <2>1 DEF MontarDetalle, Detalle
<1>3. lecturas' \in Lecturas /\ lecturas'.config = Nada
  BY DEF MontarDetalle, Lecturas
<1>4. TypeOKDetalle' /\ detalle' # Nada /\ lecturas' # Nada
  BY <1>1, <1>2, <1>3, RegistrosDetalle DEF TypeOKDetalle
<1>5. Tocado'
  <2>1. Difiere(configuracion)' = {}
    BY <1>1 DEF Difiere
  <2>2. ASSUME NEW g \in guardados' PROVE {c \in Campo : g.body[c] # original'[c]} \subseteq editados'
    BY <1>1
  <2> QED BY <1>2, <1>3, <2>1, <2>2 DEF Tocado, Difiere
<1>6. UnaSola'
  BY <1>1, <1>2 DEF UnaSola
<1> QED BY <1>4, <1>5, <1>6 DEF DeLaPagina

\* The page closes: nothing in flight is of a page any more.
LEMMA PasoDesmontarDetalle ==
  ASSUME IInvDetalle, DesmontarDetalle
  PROVE  IInvDetalle'
<1> USE DEF IInvDetalle
<1>1. detalle' = Nada /\ lecturas' = Nada /\ UNCHANGED <<eliminaciones, remoto, historia>>
  BY DEF DesmontarDetalle
<1>2. guardados' \subseteq Guardado /\ \A g \in guardados' : ~g.propio
  <2>1. guardados' = {[g EXCEPT !.propio = FALSE] : g \in {h \in guardados : ~h.hecho}}
    BY DEF DesmontarDetalle
  <2>2. \A g \in guardados : [g EXCEPT !.propio = FALSE] \in Guardado
                             /\ ~[g EXCEPT !.propio = FALSE].propio
    BY DEF TypeOKDetalle, Guardado
  <2>3. \A h \in guardados' : \E g \in guardados : h = [g EXCEPT !.propio = FALSE]
    BY <2>1
  <2> QED BY <2>2, <2>3
<1>3. regeneraciones' \subseteq Regeneracion /\ \A g \in regeneraciones' : ~g.propia
  <2>1. \A g \in regeneraciones' : g = [token |-> 0, propia |-> FALSE]
    BY DEF DesmontarDetalle
  <2>2. 0 \in 0 .. Tokens
    BY DetalleConstantes
  <2>3. [token |-> 0, propia |-> FALSE] \in Regeneracion /\ ~[token |-> 0, propia |-> FALSE].propia
    BY <2>2 DEF Regeneracion
  <2> QED BY <2>1, <2>3
<1>4. TypeOKDetalle'
  BY <1>1, <1>2, <1>3 DEF TypeOKDetalle, remoto, historia, Guardado, Regeneracion
<1> QED BY <1>1, <1>2, <1>3, <1>4 DEF DeLaPagina, Tocado, UnaSola

\* loadData: the configuration that is read is the one the server has.
LEMMA PasoLecturas ==
  ASSUME IInvDetalle, LecturaConfig \/ LecturaVps
  PROVE  IInvDetalle'
<1> USE DEF IInvDetalle
<1>1. /\ lecturas # Nada /\ lecturas \in Lecturas
      /\ UNCHANGED <<detalle, guardados, regeneraciones, eliminaciones, remoto, historia>>
  BY DEF LecturaConfig, LecturaVps, TypeOKDetalle
<1>2. lecturas' \in Lecturas /\ lecturas'.config \in {lecturas.config, configuracion}
  <2>1. CASE LecturaConfig
    BY <1>1, <2>1 DEF LecturaConfig, Lecturas, TypeOKDetalle
  <2>2. CASE LecturaVps
    BY <1>1, <2>2 DEF LecturaVps, Lecturas
  <2> QED BY <2>1, <2>2
<1>3. TypeOKDetalle'
  BY <1>1, <1>2 DEF TypeOKDetalle, remoto, historia
<1>4. DeLaPagina'
  BY <1>1 DEF DeLaPagina
<1>5. Tocado'
  BY <1>1, <1>2 DEF Tocado, Difiere, remoto, historia
<1>6. UnaSola'
  BY <1>1 DEF UnaSola, remoto, historia
<1> QED BY <1>3, <1>4, <1>5, <1>6

\* Both came and the form is the configuration that was read, or there is no form.
LEMMA PasoDatosCargados ==
  ASSUME IInvDetalle, DatosCargados
  PROVE  IInvDetalle'
<1> USE DEF IInvDetalle
<1>1. /\ lecturas # Nada /\ lecturas \in Lecturas /\ lecturas' = Nada
      /\ UNCHANGED <<guardados, regeneraciones, eliminaciones, remoto, historia>>
  BY DEF DatosCargados, TypeOKDetalle
<1>2. detalle # Nada /\ detalle \in Detalle
  BY <1>1 DEF DeLaPagina, TypeOKDetalle
<1>3. /\ detalle' \in Detalle /\ detalle'.token = detalle.token
      /\ \/ detalle'.vps = detalle.vps /\ detalle'.form = detalle.form
         \/ lecturas.config # Nada /\ detalle'.form = lecturas.config
  BY <1>1, <1>2 DEF DatosCargados, Detalle, Lecturas
<1>4. TypeOKDetalle' /\ detalle' # Nada
  BY <1>1, <1>3, RegistrosDetalle DEF TypeOKDetalle, remoto, historia
<1>5. Tocado'
  BY <1>1, <1>2, <1>3 DEF Tocado, Difiere, remoto, historia
<1>6. UnaSola'
  BY <1>1, <1>2, <1>3 DEF UnaSola, remoto, historia
<1> QED BY <1>4, <1>5, <1>6 DEF DeLaPagina

\* A field is touched.
LEMMA PasoEditar ==
  ASSUME IInvDetalle, NEW c \in Campo, NEW v \in Valor, Editar(c, v)
  PROVE  IInvDetalle'
<1> USE DEF IInvDetalle
<1>1. /\ detalle # Nada /\ detalle \in Detalle /\ detalle.vps /\ editados' = editados \cup {c}
      /\ detalle' = [detalle EXCEPT !.form = [detalle.form EXCEPT ![c] = v]]
      /\ UNCHANGED <<lecturas, guardados, regeneraciones, eliminaciones, remoto, original, solapadas>>
  BY DEF Editar, FormularioVisible, TypeOKDetalle
<1>2. detalle.form \in Formulario
  BY <1>1 DEF Detalle
<1>3. /\ detalle' \in Detalle /\ detalle'.vps = detalle.vps /\ detalle'.token = detalle.token
      /\ detalle'.form = [detalle.form EXCEPT ![c] = v]
  BY <1>1, <1>2 DEF Detalle, Formulario
<1>4. \A d \in Campo \ {c} : detalle'.form[d] = detalle.form[d]
  BY <1>2, <1>3 DEF Formulario
<1>5. TypeOKDetalle' /\ detalle' # Nada
  BY <1>1, <1>3, RegistrosDetalle DEF TypeOKDetalle, remoto
<1>6. Tocado'
  BY <1>1, <1>4 DEF Tocado, Difiere, remoto
<1>7. UnaSola'
  BY <1>1, <1>3 DEF UnaSola, remoto
<1> QED BY <1>1, <1>5, <1>6, <1>7 DEF DeLaPagina

\* A save carries the form, which differs in touched fields only.
LEMMA PasoGuardarCambios ==
  ASSUME IInvDetalle, guardarCambios
  PROVE  IInvDetalle'
<1> USE DEF IInvDetalle
<1> DEFINE g == [body |-> detalle.form, hecho |-> FALSE, propio |-> TRUE]
<1>1. /\ detalle # Nada /\ detalle \in Detalle /\ detalle.vps
      /\ detalle' = [detalle EXCEPT !.isSaving = TRUE] /\ guardados' = guardados \cup {g}
      /\ UNCHANGED <<lecturas, regeneraciones, eliminaciones, remoto, historia>>
  BY DEF guardarCambios, FormularioVisible, TypeOKDetalle
<1>2. g \in Guardado /\ g.body = detalle.form
  BY <1>1 DEF Detalle, Guardado
<1> HIDE DEF g
<1>3. /\ detalle' \in Detalle /\ detalle'.vps = detalle.vps /\ detalle'.token = detalle.token
      /\ detalle'.form = detalle.form
  BY <1>1 DEF Detalle
<1>4. TypeOKDetalle' /\ detalle' # Nada
  BY <1>1, <1>2, <1>3, RegistrosDetalle DEF TypeOKDetalle, Guardado, remoto, historia
<1>5. Tocado'
  BY <1>1, <1>2, <1>3 DEF Tocado, Difiere, remoto, historia
<1>6. UnaSola'
  BY <1>1, <1>3 DEF UnaSola, remoto, historia
<1> QED BY <1>4, <1>5, <1>6 DEF DeLaPagina

\* The server does what a save asks for: every field, but only touched ones differ.
LEMMA PasoGuardar ==
  ASSUME IInvDetalle, NEW g \in guardados, Guardar(g)
  PROVE  IInvDetalle'
<1> USE DEF IInvDetalle
<1>1. /\ configuracion' = g.body
      /\ guardados' = (guardados \ {g}) \cup {[h EXCEPT !.hecho = TRUE] : h \in {g} \cap Propios}
      /\ UNCHANGED <<detalle, lecturas, regeneraciones, eliminaciones, tokenVps, historia>>
  BY DEF Guardar
<1>2. g \in Guardado
  BY DEF TypeOKDetalle, Guardado
<1>3. \A h \in guardados' : h \in Guardado
                            /\ \E k \in guardados : h.body = k.body /\ (h.propio => k.propio)
  BY <1>1, <1>2 DEF TypeOKDetalle, Guardado, Propios
<1>4. TypeOKDetalle'
  BY <1>1, <1>2, <1>3 DEF TypeOKDetalle, Guardado, historia
<1>5. DeLaPagina'
  BY <1>1, <1>3 DEF DeLaPagina
<1>6. Tocado'
  BY <1>1, <1>3 DEF Tocado, Difiere, historia
<1>7. UnaSola'
  BY <1>1 DEF UnaSola, historia
<1> QED BY <1>4, <1>5, <1>6, <1>7

\* The answer of a save leaves the form as it is.
LEMMA PasoGuardadoRespondido ==
  ASSUME IInvDetalle, NEW g \in guardados, GuardadoRespondido(g)
  PROVE  IInvDetalle'
<1> USE DEF IInvDetalle
<1>1. /\ guardados' = guardados \ {g}
      /\ detalle' = IF g.propio THEN [detalle EXCEPT !.isSaving = FALSE] ELSE detalle
      /\ UNCHANGED <<lecturas, regeneraciones, eliminaciones, remoto, historia>>
  BY DEF GuardadoRespondido
<1>2. \/ detalle' = detalle
      \/ /\ detalle # Nada /\ detalle' \in Detalle /\ detalle'.vps = detalle.vps
         /\ detalle'.token = detalle.token /\ detalle'.form = detalle.form
  BY <1>1 DEF DeLaPagina, TypeOKDetalle, Detalle
<1>3. TypeOKDetalle' /\ (detalle' = Nada <=> detalle = Nada)
  BY <1>1, <1>2, RegistrosDetalle DEF TypeOKDetalle, remoto, historia
<1>4. DeLaPagina'
  BY <1>1, <1>3 DEF DeLaPagina
<1>5. Tocado'
  BY <1>1, <1>2, <1>3 DEF Tocado, Difiere, remoto, historia
<1>6. UnaSola'
  BY <1>1, <1>2, <1>3 DEF UnaSola, remoto, historia
<1> QED BY <1>3, <1>4, <1>5, <1>6

\* A question is asked, given up or confirmed, or a token is hidden.
LEMMA PasoPreguntas ==
  ASSUME IInvDetalle, CancelarPregunta \/ \E que \in {"regenerar", "eliminar"} : Preguntar(que)
  PROVE  IInvDetalle'
<1>1. /\ detalle # Nada
      /\ \E q \in {Nada, "regenerar", "eliminar"} : detalle' = [detalle EXCEPT !.pregunta = q]
      /\ UNCHANGED <<lecturas, guardados, regeneraciones, eliminaciones, remoto, historia>>
  BY DEF CancelarPregunta, Preguntar, FormularioVisible
<1>2. detalle \in Detalle
  BY <1>1 DEF IInvDetalle, TypeOKDetalle
<1>3. /\ detalle' \in Detalle /\ detalle'.vps = detalle.vps /\ detalle'.form = detalle.form
      /\ detalle'.token = detalle.token
  BY <1>1, <1>2 DEF Detalle
<1> QED BY <1>1, <1>3, SoloSenales

\* Another replacement overlaps with one that is in flight or on the screen, or is the
\* only one.
LEMMA PasoDoRegenerarToken ==
  ASSUME IInvDetalle, doRegenerarToken
  PROVE  IInvDetalle'
<1> USE DEF IInvDetalle
<1> DEFINE g == [token |-> 0, propia |-> TRUE]
<1>1. /\ detalle # Nada /\ detalle \in Detalle
      /\ detalle' = [detalle EXCEPT !.pregunta = Nada] /\ regeneraciones' = regeneraciones \cup {g}
      /\ solapadas' = (solapadas \/ regeneraciones # {} \/ detalle.token # 0)
      /\ UNCHANGED <<lecturas, guardados, eliminaciones, remoto, original, editados>>
  BY DEF doRegenerarToken, TypeOKDetalle
<1>2. g \in Regeneracion /\ g.token = 0
  BY DetalleConstantes DEF Regeneracion
<1> HIDE DEF g
<1>3. /\ detalle' \in Detalle /\ detalle'.vps = detalle.vps /\ detalle'.token = detalle.token
      /\ detalle'.form = detalle.form
  BY <1>1 DEF Detalle
<1>4. TypeOKDetalle' /\ detalle' # Nada
  BY <1>1, <1>2, <1>3, RegistrosDetalle DEF TypeOKDetalle, Regeneracion, remoto
<1>5. Tocado'
  BY <1>1, <1>3 DEF Tocado, Difiere, remoto
<1>6. UnaSola'
  <2> SUFFICES ASSUME ~solapadas' PROVE UnaSola'
    BY DEF UnaSola
  <2>1. regeneraciones' = {g} /\ detalle'.token = 0
    BY <1>1, <1>3
  <2> QED BY <1>2, <2>1 DEF UnaSola
<1> QED BY <1>4, <1>5, <1>6 DEF DeLaPagina

\* The token is replaced: the replacement in flight is the one the server has now.
LEMMA PasoRegenerar ==
  ASSUME IInvDetalle, NEW g \in regeneraciones, Regenerar(g)
  PROVE  IInvDetalle'
<1> USE DEF IInvDetalle
<1> DEFINE h == [g EXCEPT !.token = tokenVps + 1]
<1>1. /\ tokenVps < Tokens /\ tokenVps' = tokenVps + 1
      /\ regeneraciones' = (regeneraciones \ {g}) \cup {h}
      /\ UNCHANGED <<detalle, lecturas, guardados, eliminaciones, configuracion, historia>>
  BY DEF Regenerar
<1>2. g \in Regeneracion /\ tokenVps \in 0 .. Tokens /\ tokenVps + 1 \in 0 .. Tokens
  BY <1>1, DetalleConstantes DEF TypeOKDetalle, Regeneracion
<1>3. h \in Regeneracion /\ h.token = tokenVps' /\ h.propia = g.propia
  BY <1>1, <1>2 DEF Regeneracion
<1> HIDE DEF h
<1>4. TypeOKDetalle'
  BY <1>1, <1>2, <1>3 DEF TypeOKDetalle, Regeneracion, historia
<1>5. DeLaPagina'
  BY <1>1, <1>3 DEF DeLaPagina
<1>6. Tocado'
  BY <1>1 DEF Tocado, Difiere, historia
<1>7. UnaSola'
  <2> SUFFICES ASSUME detalle # Nada, ~solapadas PROVE UnaSola'
    BY <1>1 DEF UnaSola, historia
  <2>1. regeneraciones' = {h} /\ detalle.token = 0
    BY <1>1 DEF UnaSola
  <2> QED BY <1>1, <1>3, <2>1 DEF UnaSola, historia
<1> QED BY <1>4, <1>5, <1>6, <1>7

\* The new token is shown, or the answer is lost, or nobody is there to see it.
LEMMA PasoRegeneracionRespondida ==
  ASSUME IInvDetalle, NEW g \in regeneraciones, RegeneracionRespondida(g)
  PROVE  IInvDetalle'
<1> USE DEF IInvDetalle
<1>1. /\ regeneraciones' = regeneraciones \ {g}
      /\ \/ detalle' = detalle
         \/ g.propia /\ detalle' = [detalle EXCEPT !.token = g.token]
      /\ UNCHANGED <<lecturas, guardados, eliminaciones, remoto, historia>>
  BY DEF RegeneracionRespondida
<1>2. g \in Regeneracion
  BY DEF TypeOKDetalle, Regeneracion
<1>3. \/ detalle' = detalle
      \/ /\ detalle # Nada /\ detalle' \in Detalle /\ detalle'.vps = detalle.vps
         /\ detalle'.form = detalle.form /\ detalle'.token = g.token
  BY <1>1, <1>2 DEF DeLaPagina, TypeOKDetalle, Detalle, Regeneracion
<1>4. TypeOKDetalle' /\ (detalle' = Nada <=> detalle = Nada)
  BY <1>1, <1>3, RegistrosDetalle DEF TypeOKDetalle, remoto, historia
<1>5. DeLaPagina'
  BY <1>1, <1>4 DEF DeLaPagina
<1>6. Tocado'
  BY <1>1, <1>3, <1>4 DEF Tocado, Difiere, remoto, historia
<1>7. UnaSola'
  <2> SUFFICES ASSUME detalle # Nada, ~solapadas PROVE UnaSola'
    BY <1>1, <1>4 DEF UnaSola, historia
  <2>1. regeneraciones' = {} /\ detalle.token = 0 /\ g.token \in {0, tokenVps}
    BY <1>1 DEF UnaSola
  <2>2. detalle'.token \in {0, tokenVps}
    BY <1>3, <2>1
  <2> QED BY <1>1, <2>1, <2>2 DEF UnaSola, remoto
<1> QED BY <1>4, <1>5, <1>6, <1>7

\* The window of the token closes.
LEMMA PasoCloseTokenModal ==
  ASSUME IInvDetalle, closeTokenModal
  PROVE  IInvDetalle'
<1> USE DEF IInvDetalle
<1>1. /\ detalle # Nada /\ detalle \in Detalle /\ detalle' = [detalle EXCEPT !.token = 0]
      /\ UNCHANGED <<lecturas, guardados, regeneraciones, eliminaciones, remoto, historia>>
  BY DEF closeTokenModal, TypeOKDetalle
<1>2. 0 \in 0 .. Tokens
  BY DetalleConstantes
<1>3. /\ detalle' \in Detalle /\ detalle'.vps = detalle.vps /\ detalle'.token = 0
      /\ detalle'.form = detalle.form
  BY <1>1, <1>2 DEF Detalle
<1>4. TypeOKDetalle' /\ detalle' # Nada
  BY <1>1, <1>3, RegistrosDetalle DEF TypeOKDetalle, remoto, historia
<1>5. Tocado'
  BY <1>1, <1>3 DEF Tocado, Difiere, remoto, historia
<1>6. UnaSola'
  BY <1>1, <1>3 DEF UnaSola, remoto, historia
<1> QED BY <1>4, <1>5, <1>6 DEF DeLaPagina

\* The end of the VPS changes neither its configuration nor its token.
LEMMA PasoEliminar ==
  ASSUME IInvDetalle,
         doEliminarServidor \/ Eliminar \/ \E bien \in BOOLEAN : EliminacionRespondida(bien)
  PROVE  IInvDetalle'
<1> USE DEF IInvDetalle
<1>1. /\ eliminaciones' \subseteq BOOLEAN
      /\ UNCHANGED <<lecturas, guardados, regeneraciones, configuracion, tokenVps, historia>>
      /\ \/ detalle' = detalle
         \/ detalle # Nada /\ detalle' = [detalle EXCEPT !.pregunta = Nada]
  BY DEF doEliminarServidor, Eliminar, EliminacionRespondida, remoto, TypeOKDetalle
<1>2. \/ detalle' = detalle
      \/ /\ detalle # Nada /\ detalle' \in Detalle /\ detalle'.vps = detalle.vps
         /\ detalle'.token = detalle.token /\ detalle'.form = detalle.form
  BY <1>1 DEF TypeOKDetalle, Detalle
<1>3. TypeOKDetalle' /\ (detalle' = Nada <=> detalle = Nada)
  BY <1>1, <1>2, RegistrosDetalle DEF TypeOKDetalle, historia
<1>4. DeLaPagina'
  BY <1>1, <1>3 DEF DeLaPagina
<1>5. Tocado'
  BY <1>1, <1>2, <1>3 DEF Tocado, Difiere, historia
<1>6. UnaSola'
  BY <1>1, <1>2, <1>3 DEF UnaSola, historia
<1> QED BY <1>3, <1>4, <1>5, <1>6

\* Every step keeps the invariant of the detail.
LEMMA InduccionDetalle == IInvDetalle /\ [Next]_varsWeb => IInvDetalle'
<1> SUFFICES ASSUME IInvDetalle, [Next]_varsWeb PROVE IInvDetalle'
  OBVIOUS
<1>1. ASSUME UNCHANGED varsDetalle PROVE IInvDetalle'
  BY <1>1 DEF varsDetalle, historia, IInvDetalle, TypeOKDetalle, DeLaPagina, Tocado, Difiere,
              UnaSola
<1>2. ASSUME PasoDetalle PROVE IInvDetalle'
  BY <1>2, PasoLecturas, PasoDatosCargados, PasoEditar, PasoGuardar, PasoGuardadoRespondido,
     PasoPreguntas, PasoDoRegenerarToken, PasoRegenerar, PasoRegeneracionRespondida,
     PasoCloseTokenModal, PasoEliminar DEF PasoDetalle
<1> QED
  BY <1>1, <1>2, CasosDetalle, PasoMontarDetalle, PasoDesmontarDetalle, PasoGuardarCambios,
     PasoPreguntas, PasoEliminar DEF PasoDet

\* What the page of a VPS has or has sent is of that page and differs in touched fields.
THEOREM InvarianteDetalle == Spec => []IInvDetalle
<1> QED BY InicioDetalle, InduccionDetalle, PTL DEF Spec

\* A save sends every field, and yet changes none that the owner did not touch: neither the
\* defaults of the form nor a half that came first reach the server.
THEOREM NoPisaConfiguracionSiempre == Spec => []NoPisaConfiguracion
<1>1. IInvDetalle => NoPisaConfiguracion
  BY DEF IInvDetalle, Tocado, Difiere, NoPisaConfiguracion
<1> QED BY InvarianteDetalle, <1>1, PTL

\* The token on the screen is the one the agent needs, unless it was replaced again before
\* that one was read and its window closed.
THEOREM TokenFielSiempre == Spec => []TokenFiel
<1>1. IInvDetalle => TokenFiel
  BY DEF IInvDetalle, UnaSola, TokenFiel
<1> QED BY InvarianteDetalle, <1>1, PTL
------------------------------------------------------------------------------
(* The histories *)

\* No history is on the screen.
LEMMA InicioHistorial == InitAplicacion => IInvHistorial
<1> SUFFICES ASSUME InitHistorial PROVE IInvHistorial
  BY DEF InitAplicacion
<1>1. FormaHistorial
  BY DEF InitHistorial, HistNuevo, FormaHistorial, CamposDeHist
<1>2. AlDiaHistorial
  BY DEF InitHistorial, AlDiaHistorial
<1> QED BY <1>1, <1>2 DEF IInvHistorial

\* The server answers with a page and how many there are.
LEMMA FormaDeFindAll ==
  ASSUME NEW query, NEW filas
  PROVE  findAll(query, filas) = [data |-> findAll(query, filas).data,
                                  totalPages |-> findAll(query, filas).totalPages]
BY DEF findAll

\* Neither the session nor the interceptor changes what is asked for.
LEMMA LoQueSePide ==
  ASSUME NEW o, NEW hay
  PROVE  Peticion(o, hay).url.query = createQuerySerializer(o.query)
BY DEF Peticion, interceptor, beforeRequest, getUrl

\* Another list is asked for, with what is selected now.
LEMMA PasoListar ==
  ASSUME NEW c, NEW h, NEW otros, Listar(c, h, otros), tabla' = tabla,
         DOMAIN h = CamposDeHist, h.pedidas \in Nat, h.aplicada \in 0 .. h.pedidas,
         \A l \in otros :
           /\ DOMAIN l = {"n", "peticion", "respuesta", "vieja"} /\ l.n \in 1 .. h.pedidas
           /\ l.respuesta # Nada /\ ~l.vieja => l.respuesta = findAll(l.peticion.url.query, tabla)
  PROVE  IInvHistorial'
<1> DEFINE o == [op |-> c \o ".findAll", path |-> Nada, body |-> Nada,
                 query |-> [page |-> h.page, limit |-> limit, estado |-> h.filtro]]
           l == [n |-> h.pedidas + 1, peticion |-> Peticion(o, TRUE), respuesta |-> Nada,
                 vieja |-> FALSE]
<1>1. /\ listados' = otros \cup {l}
      /\ hist' = [h EXCEPT !.isLoading = TRUE, !.expandedId = Nada, !.expandedDetail = Nada,
                           !.pedidas = h.pedidas + 1]
  BY DEF Listar
<1>2. /\ DOMAIN l = {"n", "peticion", "respuesta", "vieja"} /\ l.n = h.pedidas + 1
      /\ l.respuesta = Nada /\ l.peticion.url.query = createQuerySerializer(o.query)
  BY LoQueSePide
<1>3. o.query = [page |-> h.page, limit |-> limit, estado |-> h.filtro]
  OBVIOUS
<1> HIDE DEF l, o
<1>4. /\ DOMAIN hist' = CamposDeHist /\ hist'.pedidas = h.pedidas + 1
      /\ hist'.aplicada = h.aplicada /\ hist'.vieja = h.vieja
      /\ hist'.page = h.page /\ hist'.filtro = h.filtro
  BY <1>1 DEF CamposDeHist
<1>5. Query(hist)' = createQuerySerializer(o.query)
  BY <1>3, <1>4 DEF Query
<1>6. FormaHistorial'
  BY <1>1, <1>2, <1>4 DEF FormaHistorial
<1>7. hist'.aplicada # hist'.pedidas /\ \A m \in otros : m.n # hist'.pedidas
  BY <1>4
<1>8. AlDiaHistorial'
  BY <1>1, <1>2, <1>5, <1>7 DEF AlDiaHistorial
<1> QED BY <1>6, <1>8 DEF IInvHistorial

\* What changes no rows, no selection and no list that is awaited.
LEMMA SoloMarcas ==
  ASSUME IInvHistorial, UNCHANGED <<clase, tabla>>, listados' \subseteq listados,
         DOMAIN hist' = CamposDeHist,
         hist'.filas = hist.filas, hist'.totalPages = hist.totalPages, hist'.page = hist.page,
         hist'.filtro = hist.filtro, hist'.pedidas = hist.pedidas,
         hist'.aplicada = hist.aplicada, hist'.vieja = hist.vieja
  PROVE  IInvHistorial'
<1>1. FormaHistorial'
  BY DEF IInvHistorial, FormaHistorial
<1>2. Query(hist)' = Query(hist)
  BY DEF Query
<1>3. AlDiaHistorial'
  BY <1>2 DEF IInvHistorial, AlDiaHistorial
<1> QED BY <1>1, <1>3 DEF IInvHistorial

\* A page opens, or closes.
LEMMA PasoMontarHistorial ==
  ASSUME IInvHistorial, DesmontarHistorial \/ \E c \in Historiales : MontarHistorial(c)
  PROVE  IInvHistorial'
<1>1. /\ DOMAIN HistNuevo = CamposDeHist /\ HistNuevo.pedidas = 0 /\ HistNuevo.aplicada = 0
      /\ HistNuevo.vieja = FALSE
  BY DEF HistNuevo, CamposDeHist
<1> HIDE DEF HistNuevo
<1>2. CASE DesmontarHistorial
  <2>1. clase' = Nada /\ hist' = HistNuevo /\ listados' = {}
    BY <1>2 DEF DesmontarHistorial
  <2>2. DOMAIN hist' = CamposDeHist /\ hist'.pedidas = 0 /\ hist'.aplicada = 0
    BY <1>1, <2>1
  <2>3. FormaHistorial'
    BY <2>1, <2>2 DEF FormaHistorial
  <2>4. AlDiaHistorial'
    BY <2>1 DEF AlDiaHistorial
  <2> QED BY <2>3, <2>4 DEF IInvHistorial
<1>3. ASSUME NEW c \in Historiales, MontarHistorial(c) PROVE IInvHistorial'
  <2>1. Listar(c, HistNuevo, {}) /\ tabla' = tabla
    BY <1>3 DEF MontarHistorial
  <2>2. HistNuevo.pedidas \in Nat /\ HistNuevo.aplicada \in 0 .. HistNuevo.pedidas
    BY <1>1
  <2> QED BY <1>1, <2>1, <2>2, PasoListar
<1> QED BY <1>2, <1>3

\* The server reads the page that a request asks for.
LEMMA PasoAtenderListado ==
  ASSUME IInvHistorial, NEW l \in listados, AtenderListado(l)
  PROVE  IInvHistorial'
<1> USE DEF IInvHistorial
<1> DEFINE r == findAll(l.peticion.url.query, tabla)
           m == [l EXCEPT !.respuesta = r]
<1>1. listados' = (listados \ {l}) \cup {m} /\ UNCHANGED <<clase, hist, tabla>>
  BY DEF AtenderListado
<1>2. DOMAIN l = {"n", "peticion", "respuesta", "vieja"}
  BY DEF FormaHistorial
<1> HIDE DEF r
<1>3. /\ DOMAIN m = {"n", "peticion", "respuesta", "vieja"} /\ m.n = l.n
      /\ m.peticion = l.peticion /\ m.respuesta = r
  BY <1>2
<1> HIDE DEF m
<1>4. FormaHistorial'
  BY <1>1, <1>3 DEF FormaHistorial
<1>5. Query(hist)' = Query(hist)
  BY <1>1 DEF Query
<1>6. AlDiaHistorial'
  BY <1>1, <1>3, <1>5 DEF AlDiaHistorial, r
<1> QED BY <1>4, <1>6

\* A row comes, or its block ends: whatever was read before is old.
LEMMA PasoCambiaTabla ==
  ASSUME IInvHistorial, NEW filas, CambiaTabla(filas), clase' = clase
  PROVE  IInvHistorial'
<1> USE DEF IInvHistorial
<1>1. /\ hist' = [hist EXCEPT !.vieja = TRUE]
      /\ listados' = {[l EXCEPT !.vieja = (l.respuesta # Nada)] : l \in listados}
  BY DEF CambiaTabla
<1>2. /\ DOMAIN hist' = CamposDeHist /\ hist'.vieja = TRUE /\ hist'.page = hist.page
      /\ hist'.filtro = hist.filtro /\ hist'.pedidas = hist.pedidas
      /\ hist'.aplicada = hist.aplicada
  BY <1>1 DEF FormaHistorial, CamposDeHist
<1>3. \A m \in listados' :
        /\ DOMAIN m = {"n", "peticion", "respuesta", "vieja"}
        /\ m.respuesta # Nada => m.vieja
        /\ \E l \in listados : m.n = l.n /\ m.peticion = l.peticion
  <2> SUFFICES ASSUME NEW l \in listados, NEW m, m = [l EXCEPT !.vieja = (l.respuesta # Nada)]
               PROVE  /\ DOMAIN m = {"n", "peticion", "respuesta", "vieja"}
                      /\ m.respuesta # Nada => m.vieja
                      /\ m.n = l.n /\ m.peticion = l.peticion
    BY <1>1
  <2> QED BY DEF FormaHistorial
<1>4. FormaHistorial'
  BY <1>2, <1>3 DEF FormaHistorial
<1>5. Query(hist)' = Query(hist)
  BY <1>2 DEF Query
<1>6. AlDiaHistorial'
  BY <1>2, <1>3, <1>5 DEF AlDiaHistorial
<1> QED BY <1>4, <1>6

\* An answer is applied as it comes.
LEMMA PasoListadoRespondido ==
  ASSUME IInvHistorial, NEW l \in listados, ListadoRespondido(l)
  PROVE  IInvHistorial'
<1>1. PICK d \in Desenlaces(l.peticion, l.respuesta # Nada) :
        hist' = CASE d = "datos" ->
                       [hist EXCEPT !.filas = l.respuesta.data,
                                    !.totalPages = l.respuesta.totalPages,
                                    !.isLoading = FALSE, !.aplicada = l.n, !.vieja = l.vieja]
                  [] d = "error" -> [hist EXCEPT !.isLoading = FALSE]
                  [] d = "excepcion" ->
                       [hist EXCEPT !.filas = <<>>, !.isLoading = FALSE, !.aplicada = 0]
  BY DEF ListadoRespondido
<1>2. listados' = listados \ {l} /\ UNCHANGED <<clase, tabla>>
  BY DEF ListadoRespondido
<1>3. DOMAIN hist = CamposDeHist
  BY DEF IInvHistorial, FormaHistorial
<1>4. d \in {"datos", "error", "excepcion"}
  BY DEF Desenlaces, request
<1>5. CASE d = "datos"
  <2>1. l.respuesta # Nada
    BY <1>5, SinHacerNoHayDatos DEF vpsService
  <2>2. hist' = [hist EXCEPT !.filas = l.respuesta.data,
                             !.totalPages = l.respuesta.totalPages,
                             !.isLoading = FALSE, !.aplicada = l.n, !.vieja = l.vieja]
    BY <1>1, <1>5
  <2>3. /\ DOMAIN hist' = CamposDeHist /\ hist'.filas = l.respuesta.data
        /\ hist'.totalPages = l.respuesta.totalPages /\ hist'.aplicada = l.n
        /\ hist'.vieja = l.vieja /\ hist'.page = hist.page /\ hist'.filtro = hist.filtro
        /\ hist'.pedidas = hist.pedidas
    BY <1>3, <2>2 DEF CamposDeHist
  <2>4. Query(hist)' = Query(hist)
    BY <2>3 DEF Query
  <2>5. ~l.vieja /\ l.n = hist.pedidas =>
          [data |-> hist'.filas, totalPages |-> hist'.totalPages] = findAll(Query(hist), tabla)
    BY <2>1, <2>3, FormaDeFindAll DEF IInvHistorial, AlDiaHistorial
  <2>6. FormaHistorial'
    BY <1>2, <2>3 DEF IInvHistorial, FormaHistorial
  <2>7. AlDiaHistorial'
    BY <1>2, <2>3, <2>4, <2>5 DEF IInvHistorial, AlDiaHistorial
  <2> QED BY <2>6, <2>7 DEF IInvHistorial
<1>6. CASE d = "error"
  <2>1. hist' = [hist EXCEPT !.isLoading = FALSE]
    BY <1>1, <1>6
  <2> QED BY <1>2, <1>3, <2>1, SoloMarcas DEF CamposDeHist
<1>7. CASE d = "excepcion"
  <2>1. hist' = [hist EXCEPT !.filas = <<>>, !.isLoading = FALSE, !.aplicada = 0]
    BY <1>1, <1>7
  <2>2. /\ DOMAIN hist' = CamposDeHist /\ hist'.aplicada = 0
        /\ hist'.page = hist.page /\ hist'.filtro = hist.filtro
        /\ hist'.pedidas = hist.pedidas
    BY <1>3, <2>1 DEF CamposDeHist
  <2>3. Query(hist)' = Query(hist)
    BY <2>2 DEF Query
  <2>4. FormaHistorial'
    BY <1>2, <2>2 DEF IInvHistorial, FormaHistorial
  <2>5. AlDiaHistorial'
    BY <1>2, <2>2, <2>3 DEF IInvHistorial, FormaHistorial, AlDiaHistorial
  <2> QED BY <2>4, <2>5 DEF IInvHistorial
<1> QED BY <1>4, <1>5, <1>6, <1>7

\* A filter, a page number, and an unblocking that was confirmed ask for the list again.
LEMMA PasoQuePide ==
  ASSUME IInvHistorial, NEW h, Listar(clase, h, listados), tabla' = tabla,
         DOMAIN h = CamposDeHist, h.pedidas = hist.pedidas, h.aplicada = hist.aplicada
  PROVE  IInvHistorial'
<1>1. h.pedidas \in Nat /\ h.aplicada \in 0 .. h.pedidas
  BY DEF IInvHistorial, FormaHistorial
<1>2. \A l \in listados :
        /\ DOMAIN l = {"n", "peticion", "respuesta", "vieja"} /\ l.n \in 1 .. h.pedidas
        /\ l.respuesta # Nada /\ ~l.vieja => l.respuesta = findAll(l.peticion.url.query, tabla)
  BY DEF IInvHistorial, FormaHistorial, AlDiaHistorial
<1> QED BY <1>1, <1>2, PasoListar

\* Every operation of a history keeps the invariant.
LEMMA PasoDelHistorial ==
  ASSUME IInvHistorial, PasoHistorial \/ \E f \in Fila : Llegada(f)
  PROVE  IInvHistorial'
<1>0. DOMAIN hist = CamposDeHist
  BY DEF IInvHistorial, FormaHistorial
<1>1. ASSUME NEW l \in listados, AtenderListado(l) \/ ListadoRespondido(l) PROVE IInvHistorial'
  BY <1>1, PasoAtenderListado, PasoListadoRespondido
<1>2. ASSUME NEW f \in EstadoFila \cup {Nada}, filtrarHistorial(f) PROVE IInvHistorial'
  <2> DEFINE h == [hist EXCEPT !.filtro = f]
  <2>1. Listar(clase, h, listados) /\ tabla' = tabla
    BY <1>2 DEF filtrarHistorial
  <2>2. DOMAIN h = CamposDeHist /\ h.pedidas = hist.pedidas /\ h.aplicada = hist.aplicada
    BY <1>0 DEF CamposDeHist
  <2> HIDE DEF h
  <2> QED BY <2>1, <2>2, PasoQuePide
<1>3. ASSUME NEW p \in 1 .. hist.totalPages, goToPage(p) PROVE IInvHistorial'
  <2> DEFINE h == [hist EXCEPT !.page = p]
  <2>1. Listar(clase, h, listados) /\ tabla' = tabla
    BY <1>3 DEF goToPage
  <2>2. DOMAIN h = CamposDeHist /\ h.pedidas = hist.pedidas /\ h.aplicada = hist.aplicada
    BY <1>0 DEF CamposDeHist
  <2> HIDE DEF h
  <2> QED BY <2>1, <2>2, PasoQuePide
<1>4. ASSUME NEW f \in Fila, Llegada(f) PROVE IInvHistorial'
  BY <1>4, PasoCambiaTabla DEF Llegada
<1>5. ASSUME NEW f \in Fila, toggleExpand(f) \/ confirmarDesbloqueo(f) PROVE IInvHistorial'
  BY <1>0, <1>5, SoloMarcas DEF toggleExpand, confirmarDesbloqueo, CamposDeHist
<1>6. ASSUME NEW id \in detallando, DetalleRespondido(id) PROVE IInvHistorial'
  BY <1>0, <1>6, SoloMarcas DEF DetalleRespondido, CamposDeHist
<1>7. CASE CancelarDesbloqueo \/ doDesbloqueo
  BY <1>0, <1>7, SoloMarcas DEF CancelarDesbloqueo, doDesbloqueo, CamposDeHist
<1>8. ASSUME NEW d \in desbloqueos, Desbloquear(d) PROVE IInvHistorial'
  BY <1>8, PasoCambiaTabla DEF Desbloquear
<1>9. ASSUME NEW d \in desbloqueos, DesbloqueoRespondido(d) PROVE IInvHistorial'
  <2> DEFINE h == [hist EXCEPT !.desbloqueandoId = Nada]
  <2>1. /\ DOMAIN h = CamposDeHist /\ h.pedidas = hist.pedidas /\ h.aplicada = hist.aplicada
        /\ h.vieja = hist.vieja /\ h.filas = hist.filas /\ h.totalPages = hist.totalPages
        /\ h.page = hist.page /\ h.filtro = hist.filtro
    BY <1>0 DEF CamposDeHist
  <2>2. /\ tabla' = tabla
        /\ Listar(clase, h, listados) \/ (hist' = h /\ UNCHANGED <<clase, listados>>)
    BY <1>9 DEF DesbloqueoRespondido
  <2> HIDE DEF h
  <2>3. CASE Listar(clase, h, listados)
    BY <2>1, <2>2, <2>3, PasoQuePide
  <2>4. CASE hist' = h /\ UNCHANGED <<clase, listados>>
    BY <2>1, <2>2, <2>4, SoloMarcas
  <2> QED BY <2>2, <2>3, <2>4
<1> QED
  BY <1>1, <1>2, <1>3, <1>4, <1>5, <1>6, <1>7, <1>8, <1>9 DEF PasoHistorial

\* Every step keeps the invariant of the histories.
LEMMA InduccionHistorial == IInvHistorial /\ [Next]_varsWeb => IInvHistorial'
<1> SUFFICES ASSUME IInvHistorial, [Next]_varsWeb PROVE IInvHistorial'
  OBVIOUS
<1>1. ASSUME UNCHANGED varsHistorial PROVE IInvHistorial'
  BY <1>1, SoloMarcas DEF varsHistorial, IInvHistorial, FormaHistorial
<1> QED
  BY <1>1, CasosHistorial, PasoMontarHistorial, PasoDelHistorial DEF PasoHist

\* What a history knows of the table, and what it has asked for, are of one another.
THEOREM InvarianteHistorial == Spec => []IInvHistorial
<1> QED BY InicioHistorial, InduccionHistorial, PTL DEF Spec

\* Whatever is asked for and however late the answers come, once the newest list is the one
\* applied the rows are those the filter and the page number select of the table.
THEOREM FilasDelServidorSiempre == Spec => []FilasDelServidor
<1>1. IInvHistorial => FilasDelServidor
  BY DEF IInvHistorial, AlDiaHistorial, Query, FilasDelServidor
<1> QED BY InvarianteHistorial, <1>1, PTL
------------------------------------------------------------------------------
(* The whitelist *)

\* Signals, a request and an entry are never the absence of one.
LEMMA RegistrosBlanca ==
  /\ \A b \in Senales : b # Nada
  /\ \A l \in Lectura : l # Nada
  /\ \A m \in Marca : m.id \in Entrada /\ m.hecho \in BOOLEAN /\ m.propia \in BOOLEAN
  /\ \A e \in Entrada : e # Nada /\ \A h, q \in BOOLEAN : [id |-> e, hecho |-> h, propia |-> q] \in Marca
BY NadaNoEsEntrada DEF Marca

\* A request that is done, and one whose page was left, are the same but for that.
LEMMA MarcaHecha ==
  ASSUME NEW S, S \subseteq Marca, NEW x \in S
  PROVE  /\ Hecha(S, x) \subseteq Marca /\ Ids(Hecha(S, x)) = Ids(S)
         /\ \A m \in Hecha(S, x) :
              m \in S \/ (m.hecho /\ m.id = x.id /\ m.propia = x.propia)
         /\ \A m \in S : m # x => m \in Hecha(S, x)
         /\ \E m \in Hecha(S, x) : m.hecho /\ m.id = x.id /\ m.propia = x.propia
<1> DEFINE c == [x EXCEPT !.hecho = TRUE]
<1>1. c \in Marca /\ c.hecho /\ c.id = x.id /\ c.propia = x.propia
  BY DEF Marca
<1>2. Hecha(S, x) = (S \ {x}) \cup {c}
  BY DEF Hecha
<1> HIDE DEF c
<1> QED BY <1>1, <1>2 DEF Ids

LEMMA MarcaAjena ==
  ASSUME NEW S, S \subseteq Marca
  PROVE  /\ Ajenas(S) \subseteq Marca
         /\ \A m \in Ajenas(S) : ~m.propia /\ \E n \in S : m.id = n.id /\ m.hecho = n.hecho
         /\ (\A m, n \in S : m.id = n.id => m = n)
              => \A m, n \in Ajenas(S) : m.id = n.id => m = n
<1> DEFINE ajena(m) == [m EXCEPT !.propia = FALSE]
<1>1. \A m \in S : /\ ajena(m) \in Marca /\ ~ajena(m).propia
                  /\ ajena(m).id = m.id /\ ajena(m).hecho = m.hecho
  BY DEF Marca
<1>2. \A n : n \in Ajenas(S) <=> \E m \in S : n = ajena(m)
  BY DEF Ajenas
<1> HIDE DEF ajena
<1>3. Ajenas(S) \subseteq Marca
  BY <1>1, <1>2
<1>4. \A m \in Ajenas(S) : ~m.propia /\ \E n \in S : m.id = n.id /\ m.hecho = n.hecho
  BY <1>1, <1>2
<1>5. ASSUME \A m, n \in S : m.id = n.id => m = n, NEW m \in Ajenas(S), NEW n \in Ajenas(S),
             m.id = n.id
      PROVE  m = n
  <2>1. PICK x \in S, y \in S : m = ajena(x) /\ n = ajena(y)
    BY <1>2
  <2>2. x.id = y.id
    BY <1>1, <1>5, <2>1
  <2> QED BY <1>5, <2>1, <2>2
<1> QED BY <1>3, <1>4, <1>5

\* What comes before something, or after, is in the list.
LEMMA PrecedeEsta ==
  ASSUME NEW s, NEW x, NEW y, Precede(s, x, y)
  PROVE  x \in ToSet(s) /\ y \in ToSet(s)
BY DEF Precede, ToSet

\* A request that did not reach the server has no answer of use.
LEMMA SinHacerNoHayRespuesta == ASSUME NEW p PROVE "datos" \notin Desenlaces(p, FALSE)
BY SinHacerNoHayDatos DEF vpsService

\* No page, nothing in flight, and one row for each entry.
LEMMA InicioBlanca == InitAplicacion => IInvBlanca
<1> SUFFICES ASSUME InitAplicacion PROVE IInvBlanca
  OBVIOUS
<1>1. InitBlanca
  BY DEF InitAplicacion
<1>2. entradas \in Seq(Entrada) /\ IsInjective(entradas)
  <2>1. PICK S \in SUBSET Entrada : entradas \in SetToSeqs(S)
    BY <1>1 DEF InitBlanca
  <2>2. entradas \in [1 .. Cardinality(S) -> S] /\ IsInjective(entradas)
    BY <2>1 DEF SetToSeqs, IsInjective
  <2>3. Cardinality(S) \in Nat
    BY <2>1, BlancaConstantes, FS_Subset, FS_CardinalityType
  <2> QED BY <2>1, <2>2, <2>3
<1>3. TypeOKBlanca
  BY <1>1, <1>2 DEF InitBlanca, TypeOKBlanca
<1>4. DeLaTabla /\ AlDiaBlanca
  BY <1>1 DEF InitBlanca, DeLaTabla, AlDiaBlanca
<1> QED BY <1>3, <1>4 DEF IInvBlanca

\* The page opens and asks for the list.
LEMMA PasoMontarBlanca ==
  ASSUME IInvBlanca, MontarBlanca
  PROVE  IInvBlanca'
<1> USE DEF IInvBlanca, MontarBlanca
<1>1. BlancaNueva \in Senales /\ [leida |-> FALSE, filas |-> <<>>] \in Lectura
  <2>1. <<>> \in Seq(Entrada)
    OBVIOUS
  <2> QED BY <2>1 DEF BlancaNueva, Senales, Lectura
<1>2. TypeOKBlanca'
  BY <1>1 DEF TypeOKBlanca
<1>3. DeLaTabla'
  BY <1>1, RegistrosBlanca DEF DeLaTabla, BlancaNueva
<1>4. lectura' # Nada /\ ~lectura'.leida /\ \A a \in altas' : ~a.propia
  BY <1>1, RegistrosBlanca DEF DeLaTabla
<1>5. AlDiaBlanca'
  BY <1>4 DEF AlDiaBlanca
<1> QED BY <1>2, <1>3, <1>5

\* The page goes, and nobody waits any more for what it asked for.
LEMMA PasoDesmontarBlanca ==
  ASSUME IInvBlanca, DesmontarBlanca
  PROVE  IInvBlanca'
<1> USE DEF IInvBlanca
<1>1. /\ blanca' = Nada /\ lectura' = Nada /\ UNCHANGED <<entradas, desfasada>>
      /\ altas' = Ajenas(altas) /\ bajas' = Ajenas(bajas) /\ altas \subseteq Marca /\ bajas \subseteq Marca
  BY DEF DesmontarBlanca, TypeOKBlanca
<1>2. /\ altas' \subseteq Marca /\ bajas' \subseteq Marca /\ \A x \in altas' \cup bajas' : ~x.propia
      /\ \A a \in altas' : ~a.hecho => a.id \notin ToSet(entradas)
      /\ \A a, c \in altas' : a.id = c.id => a = c
  BY <1>1, MarcaAjena DEF DeLaTabla
<1>3. TypeOKBlanca'
  BY <1>1, <1>2 DEF TypeOKBlanca
<1>4. DeLaTabla'
  BY <1>1, <1>2 DEF DeLaTabla
<1>5. AlDiaBlanca'
  BY <1>1 DEF AlDiaBlanca
<1> QED BY <1>3, <1>4, <1>5

\* What the server reads is its list.
LEMMA PasoAtenderBlanca ==
  ASSUME IInvBlanca, AtenderBlanca
  PROVE  IInvBlanca'
<1> USE DEF IInvBlanca, AtenderBlanca
<1>1. lectura' \in Lectura /\ lectura'.filas = entradas
  BY DEF TypeOKBlanca, Lectura
<1>2. lectura' # Nada /\ lectura # Nada
  BY <1>1, RegistrosBlanca
<1>3. TypeOKBlanca'
  BY <1>1 DEF TypeOKBlanca
<1>4. DeLaTabla'
  BY <1>2 DEF DeLaTabla
<1>5. AlDiaBlanca'
  BY <1>1, <1>2 DEF AlDiaBlanca
<1> QED BY <1>3, <1>4, <1>5

\* An entry is made: in front of the list of the server, and news for the page that asked
\* for it; if that one was left, it is in the list that is read next.
LEMMA PasoCrearEntrada ==
  ASSUME IInvBlanca, NEW a \in altas, CrearEntrada(a)
  PROVE  IInvBlanca'
<1> USE DEF IInvBlanca
<1> DEFINE x == a.id
<1>1. /\ a \in Marca /\ ~a.hecho /\ x \in Entrada /\ a.propia \in BOOLEAN /\ entradas \in Seq(Entrada)
      /\ IsInjective(entradas) /\ x \notin ToSet(entradas) /\ altas \subseteq Marca
  BY RegistrosBlanca DEF CrearEntrada, TypeOKBlanca, DeLaTabla
<1>2. /\ altas' \subseteq Marca /\ Ids(altas') = Ids(altas)
      /\ \A m \in altas' : m \in altas \/ (m.hecho /\ m.id = x /\ m.propia = a.propia)
      /\ \A m \in altas : m # a => m \in altas'
      /\ \E m \in altas' : m.hecho /\ m.id = x /\ m.propia = a.propia
  BY <1>1, MarcaHecha DEF CrearEntrada
<1>3. altas' = (altas \ {a}) \cup {[a EXCEPT !.hecho = TRUE]}
  BY DEF CrearEntrada, Hecha
<1> HIDE DEF x
<1>4. /\ entradas' \in Seq(Entrada) /\ IsInjective(entradas')
      /\ \A y : y \in ToSet(entradas') <=> y = x \/ y \in ToSet(entradas)
      /\ \A y, z : Precede(entradas', y, z)
                  <=> (y = x /\ z \in ToSet(entradas)) \/ Precede(entradas, y, z)
  BY <1>1, AlFrente DEF CrearEntrada, x
<1>5. UNCHANGED <<blanca, lectura, bajas>> /\ desfasada' = (desfasada \/ Tardia(a))
  BY DEF CrearEntrada
<1>6. TypeOKBlanca'
  BY <1>2, <1>4, <1>5 DEF TypeOKBlanca, Tardia
<1>7. \A m \in altas' : m.id = x => m.hecho
  BY <1>1, <1>3 DEF DeLaTabla, x, Marca
<1>8. \A m, n \in altas' : m.id = n.id \/ (m.propia /\ n.propia) => m = n
  <2>1. \A m \in altas : m # a => m.id # x /\ ~(m.propia /\ a.propia)
    BY DEF DeLaTabla, x
  <2>2. LET c == [a EXCEPT !.hecho = TRUE] IN c.id = x /\ c.propia = a.propia
    BY <1>1 DEF Marca, x
  <2> QED BY <1>3, <2>1, <2>2 DEF DeLaTabla
<1>9. DeLaTabla'
  BY <1>1, <1>2, <1>4, <1>5, <1>7, <1>8 DEF DeLaTabla, x
<1>10. ASSUME blanca # Nada, ~desfasada, ~Tardia(a) PROVE AlDiaBlanca'
  <2>1. CASE lectura # Nada
    <3>1. ~a.propia /\ ~lectura.leida
      BY <1>10, <2>1 DEF AlDiaBlanca, Tardia
    <3>2. \A m \in altas' : ~m.propia
      BY <1>2, <1>10, <2>1, <3>1 DEF AlDiaBlanca
    <3> QED BY <1>5, <2>1, <3>1, <3>2 DEF AlDiaBlanca
  <2>2. CASE lectura = Nada
    <3>1. a.propia
      BY <2>2, <1>10 DEF Tardia
    <3>2. Nuevas = {} /\ Nuevas' = {x} /\ Quitadas' = Quitadas
      <4>1. \A m \in altas : m.propia => m = a
        BY <3>1 DEF DeLaTabla
      <4>2. \A m \in altas' : m.propia => m.hecho /\ m.id = x
        BY <1>2, <1>7, <4>1 DEF x
      <4> QED BY <1>1, <1>2, <1>5, <3>1, <4>1, <4>2 DEF Nuevas, Quitadas
    <3>3. x \notin ToSet(blanca.entries) \cup Ids(bajas) \cup {blanca.deleteTarget}
      BY <1>10, <2>2, <3>1 DEF AlDiaBlanca, x
    <3>4. \A m \in altas' : m.propia => m.id = x
      BY <1>2, <3>1 DEF DeLaTabla, x
    <3>5. /\ IsInjective(blanca.entries)
          /\ \A y \in Entrada :
               y \in ToSet(entradas) <=> y \in ToSet(blanca.entries) /\ y \notin Quitadas
          /\ \A y, z \in Entrada : Precede(entradas, y, z)
               <=> /\ z \in ToSet(blanca.entries) /\ z \notin Quitadas
                   /\ Precede(blanca.entries, y, z) /\ y \notin Quitadas
      BY <1>10, <2>2, <3>2 DEF AlDiaBlanca
    <3>6. \A y \in Entrada :
            y \in ToSet(entradas') <=> y = x \/ (y \in ToSet(blanca.entries) /\ y \notin Quitadas)
      BY <1>4, <3>5
    <3>7. \A y, z \in Entrada : Precede(entradas', y, z)
            <=> /\ z \in ToSet(blanca.entries) /\ z \notin Quitadas
                /\ y = x \/ (Precede(blanca.entries, y, z) /\ y \notin Quitadas)
      BY <1>4, <3>5
    <3> QED BY <1>5, <2>2, <3>2, <3>3, <3>4, <3>5, <3>6, <3>7 DEF AlDiaBlanca, Ids
  <2> QED BY <2>1, <2>2
<1>11. AlDiaBlanca'
  BY <1>5, <1>10 DEF AlDiaBlanca
<1> QED BY <1>6, <1>9, <1>11

\* An entry is removed in the server: it is not one the page is adding, and a page that is
\* not the one that asked for it finds it gone when it reads the list.
LEMMA PasoBorrarEntrada ==
  ASSUME IInvBlanca, NEW b \in bajas, BorrarEntrada(b)
  PROVE  IInvBlanca'
<1> USE DEF IInvBlanca
<1>1. /\ b \in Marca /\ b.id \in Entrada /\ ~b.hecho /\ b.propia \in BOOLEAN
      /\ entradas \in Seq(Entrada) /\ IsInjective(entradas) /\ b.id \in ToSet(entradas)
      /\ bajas \subseteq Marca
  BY RegistrosBlanca DEF BorrarEntrada, TypeOKBlanca
<1>2. /\ bajas' \subseteq Marca /\ Ids(bajas') = Ids(bajas)
      /\ \A m \in bajas' : m \in bajas \/ (m.hecho /\ m.id = b.id /\ m.propia = b.propia)
      /\ \A m \in bajas : m # b => m \in bajas'
      /\ \E m \in bajas' : m.hecho /\ m.id = b.id /\ m.propia = b.propia
  BY <1>1, MarcaHecha DEF BorrarEntrada
<1>3. UNCHANGED <<blanca, lectura, altas>> /\ desfasada' = (desfasada \/ Tardia(b))
  BY DEF BorrarEntrada
<1>4. /\ entradas' \in Seq(Entrada) /\ IsInjective(entradas')
      /\ \A y : y \in ToSet(entradas') <=> y \in ToSet(entradas) /\ y \in Entrada \ {b.id}
      /\ \A y, z : Precede(entradas', y, z)
                  <=> Precede(entradas, y, z) /\ y \in Entrada \ {b.id} /\ z \in Entrada \ {b.id}
  BY <1>1, FiltroConserva DEF BorrarEntrada
<1>5. TypeOKBlanca'
  BY <1>2, <1>3, <1>4 DEF TypeOKBlanca, Tardia
<1>6. DeLaTabla'
  BY <1>2, <1>3, <1>4 DEF DeLaTabla
<1>7. ASSUME blanca # Nada, ~desfasada, ~Tardia(b) PROVE AlDiaBlanca'
  <2>1. CASE lectura # Nada
    <3>1. ~lectura.leida
      BY <1>7, <2>1 DEF DeLaTabla, Tardia
    <3> QED BY <1>3, <1>7, <2>1, <3>1 DEF AlDiaBlanca
  <2>2. CASE lectura = Nada
    <3>1. b.propia
      BY <1>7, <2>2 DEF Tardia
    <3>2. Nuevas' = Nuevas /\ Quitadas' = Quitadas \cup {b.id}
      <4>1. \A m : m \in Quitadas' <=> m \in Quitadas \/ m = b.id
        BY <1>1, <1>2, <3>1 DEF Quitadas
      <4> QED BY <1>3, <4>1 DEF Nuevas
    <3>3. b.id \notin Nuevas
      BY <1>7, <2>2 DEF AlDiaBlanca, Nuevas, Ids
    <3> QED BY <1>1, <1>2, <1>3, <1>4, <1>7, <2>2, <3>2, <3>3 DEF AlDiaBlanca
  <2> QED BY <2>1, <2>2
<1>8. AlDiaBlanca'
  BY <1>3, <1>7 DEF AlDiaBlanca
<1> QED BY <1>5, <1>6, <1>8

\* The list comes, or is known to be missing.
LEMMA PasoBlancaCargada ==
  ASSUME IInvBlanca, BlancaCargada
  PROVE  IInvBlanca'
<1> USE DEF IInvBlanca
<1> DEFINE p == PeticionBlanca("whitelist.findAll", Nada, Nada)
<1>1. PICK d \in Desenlaces(p, lectura.leida) :
        /\ blanca' = [blanca EXCEPT !.isLoading = FALSE,
                                    !.entries = CASE d = "datos" -> lectura.filas
                                                  [] d = "error" -> @
                                                  [] d = "excepcion" -> <<>>]
        /\ desfasada' = (desfasada \/ d # "datos")
  BY DEF BlancaCargada
<1> HIDE DEF p
<1>2. /\ lectura \in Lectura /\ lectura # Nada /\ lectura' = Nada
      /\ UNCHANGED <<entradas, altas, bajas>>
  BY DEF BlancaCargada, TypeOKBlanca
<1>3. /\ blanca \in Senales /\ blanca.isLoading /\ blanca.deleteTarget = Nada
      /\ \A b \in bajas : ~b.propia
  BY <1>2 DEF DeLaTabla, TypeOKBlanca
<1>4. lectura.leida \in BOOLEAN /\ lectura.filas \in Seq(Entrada) /\ blanca.entries \in Seq(Entrada)
  BY <1>2, <1>3 DEF Lectura, Senales
<1>5. d \in {"datos", "error", "excepcion"}
  BY DEF Desenlaces, request
<1>6. d = "datos" => lectura.leida
  BY <1>4, SinHacerNoHayRespuesta
<1>7. /\ blanca' \in Senales /\ ~blanca'.isLoading /\ blanca'.deleteTarget = Nada
      /\ blanca'.isAdding = blanca.isAdding /\ (d = "datos" => blanca'.entries = lectura.filas)
  <2>1. <<>> \in Seq(Entrada)
    OBVIOUS
  <2> DEFINE filas == CASE d = "datos" -> lectura.filas
                        [] d = "error" -> blanca.entries
                        [] d = "excepcion" -> <<>>
  <2>2. filas \in Seq(Entrada) /\ (d = "datos" => filas = lectura.filas)
    BY <1>4, <1>5, <2>1
  <2>3. blanca' = [blanca EXCEPT !.isLoading = FALSE, !.entries = filas]
    BY <1>1
  <2> HIDE DEF filas
  <2> QED BY <1>3, <2>2, <2>3 DEF Senales
<1>8. TypeOKBlanca'
  BY <1>1, <1>2, <1>7 DEF TypeOKBlanca
<1>9. DeLaTabla'
  BY <1>2, <1>3, <1>7, RegistrosBlanca DEF DeLaTabla
<1>10. AlDiaBlanca'
  <2> SUFFICES ASSUME ~desfasada, d = "datos"
               PROVE  AlDiaBlanca'
    BY <1>1 DEF AlDiaBlanca
  <2>1. blanca # Nada
    BY <1>3, RegistrosBlanca
  <2>2. (\A a \in altas : ~a.propia) /\ blanca'.entries = entradas
    BY <1>2, <1>6, <1>7, <2>1 DEF AlDiaBlanca
  <2>3. Nuevas' = {} /\ Quitadas' = {}
    BY <1>2, <1>3, <2>2 DEF Nuevas, Quitadas
  <2>4. \A x, y : Precede(entradas, x, y) => x \in ToSet(entradas) /\ y \in ToSet(entradas)
    BY PrecedeEsta
  <2> QED BY <1>2, <2>2, <2>3, <2>4 DEF AlDiaBlanca, TypeOKBlanca
<1> QED BY <1>8, <1>9, <1>10

\* An entry is sent: nobody has its id.
LEMMA PasoOnAdd ==
  ASSUME IInvBlanca, NEW e \in Entrada, onAdd(e)
  PROVE  IInvBlanca'
<1> USE DEF IInvBlanca
<1> DEFINE m == [id |-> e, hecho |-> FALSE, propia |-> TRUE]
<1>1. blanca \in Senales /\ blanca # Nada /\ ~blanca.isAdding /\ \A a \in altas : ~a.propia
  BY DEF onAdd, TypeOKBlanca, DeLaTabla
<1>2. /\ blanca' \in Senales /\ blanca'.isAdding /\ blanca'.entries = blanca.entries
      /\ blanca'.isLoading = blanca.isLoading /\ blanca'.deleteTarget = blanca.deleteTarget
      /\ blanca.isLoading \in BOOLEAN
  BY <1>1 DEF onAdd, Senales
<1>3. m \in Marca /\ m.id = e /\ ~m.hecho /\ m.propia /\ altas' = altas \cup {m}
  BY DEF onAdd, Marca
<1> HIDE DEF m
<1>4. /\ desfasada' = (desfasada \/ blanca.isLoading) /\ UNCHANGED <<entradas, lectura, bajas>>
      /\ e \notin ToSet(entradas) \cup ToSet(blanca.entries) \cup Ids(altas) \cup Ids(bajas)
                  \cup {blanca.deleteTarget}
  BY DEF onAdd, Ids
<1>5. blanca' # Nada
  BY <1>2, RegistrosBlanca
<1>6. TypeOKBlanca'
  BY <1>2, <1>3, <1>4 DEF TypeOKBlanca
<1>7. \A a \in altas : a.id # e
  BY <1>4 DEF Ids
<1>8. DeLaTabla'
  BY <1>1, <1>2, <1>3, <1>4, <1>5, <1>7 DEF DeLaTabla
<1>9. Nuevas' = Nuevas /\ Quitadas' = Quitadas
  BY <1>3, <1>4 DEF Nuevas, Quitadas
<1>10. AlDiaBlanca'
  <2> SUFFICES ASSUME ~desfasada, ~blanca.isLoading
               PROVE  AlDiaBlanca'
    BY <1>4 DEF AlDiaBlanca
  <2>1. lectura = Nada
    BY DEF DeLaTabla
  <2> QED BY <1>1, <1>2, <1>3, <1>4, <1>9, <2>1 DEF AlDiaBlanca
<1> QED BY <1>6, <1>8, <1>10

\* The answer to an addition of a page that was left finds nobody.
LEMMA PasoAltaAjena ==
  ASSUME IInvBlanca, NEW a \in altas, AltaRespondida(a), ~a.propia
  PROVE  IInvBlanca'
<1> USE DEF IInvBlanca
<1>1. altas' = altas \ {a} /\ UNCHANGED <<blanca, entradas, lectura, bajas, desfasada>>
  BY DEF AltaRespondida, TypeOKBlanca
<1>2. TypeOKBlanca' /\ DeLaTabla'
  BY <1>1 DEF TypeOKBlanca, DeLaTabla
<1>3. Nuevas' = Nuevas /\ Quitadas' = Quitadas
  BY <1>1 DEF Nuevas, Quitadas
<1>4. AlDiaBlanca'
  BY <1>1, <1>3 DEF AlDiaBlanca
<1> QED BY <1>2, <1>4

\* The page is told of an entry it added, or never will be.
LEMMA PasoAltaRespondida ==
  ASSUME IInvBlanca, NEW a \in altas, AltaRespondida(a), a.propia
  PROVE  IInvBlanca'
<1> USE DEF IInvBlanca
<1> DEFINE p == PeticionBlanca("whitelist.create", Nada, a.id)
           x == a.id
<1>1. PICK d \in Desenlaces(p, a.hecho) :
        /\ blanca' = [blanca EXCEPT !.isAdding = FALSE,
                                    !.entries = IF d = "datos" THEN <<x>> \o @ ELSE @]
        /\ desfasada' = (desfasada \/ (a.hecho /\ d # "datos"))
  BY DEF AltaRespondida
<1> HIDE DEF p
<1>2. a \in Marca /\ altas' = altas \ {a} /\ UNCHANGED <<entradas, lectura, bajas>>
  BY DEF AltaRespondida, TypeOKBlanca
<1>3. a.hecho \in BOOLEAN /\ x \in Entrada
  BY <1>2, RegistrosBlanca
<1>4. d = "datos" => a.hecho
  BY <1>3, SinHacerNoHayRespuesta
<1>5. /\ blanca \in Senales /\ blanca # Nada /\ blanca.entries \in Seq(Entrada)
      /\ \A c \in altas : c.propia => c = a
  BY DEF DeLaTabla, TypeOKBlanca, Senales
<1> DEFINE filas == IF d = "datos" THEN <<x>> \o blanca.entries ELSE blanca.entries
<1> HIDE DEF x
<1>6. filas \in Seq(Entrada)
  BY <1>3, <1>5
<1>7. /\ blanca' \in Senales /\ blanca'.entries = filas /\ blanca'.isLoading = blanca.isLoading
      /\ blanca'.deleteTarget = blanca.deleteTarget
  <2>1. blanca' = [blanca EXCEPT !.isAdding = FALSE, !.entries = filas]
    BY <1>1
  <2> HIDE DEF filas
  <2> QED BY <1>5, <1>6, <2>1 DEF Senales
<1>8. TypeOKBlanca'
  BY <1>1, <1>2, <1>3, <1>7 DEF TypeOKBlanca
<1>9. DeLaTabla'
  BY <1>2, <1>5, <1>7, RegistrosBlanca DEF DeLaTabla
<1>10. Quitadas' = Quitadas /\ Nuevas' = {}
  BY <1>2, <1>5 DEF Quitadas, Nuevas
<1>11. AlDiaBlanca'
  <2> SUFFICES ASSUME ~desfasada, a.hecho => d = "datos"
               PROVE  AlDiaBlanca'
    BY <1>1 DEF AlDiaBlanca
  <2>1. lectura = Nada
    BY <1>5 DEF AlDiaBlanca
  <2>2. CASE d # "datos"
    <3>1. Nuevas = {}
      BY <1>5, <2>2 DEF Nuevas
    <3> QED BY <1>2, <1>5, <1>7, <1>10, <2>1, <2>2, <3>1 DEF AlDiaBlanca
  <2>3. CASE d = "datos"
    <3>1. Nuevas = {x}
      BY <1>4, <1>5, <2>3 DEF Nuevas, x
    <3>2. x \notin ToSet(blanca.entries) /\ IsInjective(blanca.entries) /\ x \notin Ids(bajas)
      BY <1>5, <2>1 DEF AlDiaBlanca, x
    <3>3. x \notin Quitadas
      BY <3>2 DEF Quitadas, Ids
    <3>4. /\ IsInjective(blanca'.entries)
          /\ \A y : y \in ToSet(blanca'.entries) <=> y = x \/ y \in ToSet(blanca.entries)
          /\ \A y, z : Precede(blanca'.entries, y, z)
                 <=> (y = x /\ z \in ToSet(blanca.entries)) \/ Precede(blanca.entries, y, z)
      BY <1>3, <1>5, <1>7, <2>3, <3>2, AlFrente
    <3>5. \A y, z : Precede(blanca.entries, y, z) => z \in ToSet(blanca.entries)
      BY PrecedeEsta
    <3>6. \A y \in Entrada : y \in ToSet(entradas)
             <=> y = x \/ (y \in ToSet(blanca.entries) /\ y \notin Quitadas)
      BY <1>5, <2>1, <3>1 DEF AlDiaBlanca
    <3>7. \A y, z \in Entrada : Precede(entradas, y, z)
             <=> /\ z \in ToSet(blanca.entries) /\ z \notin Quitadas
                 /\ y = x \/ (Precede(blanca.entries, y, z) /\ y \notin Quitadas)
      BY <1>5, <2>1, <3>1 DEF AlDiaBlanca
    <3>8. \A y \in Entrada : y \in ToSet(entradas')
             <=> y \in ToSet(blanca'.entries) /\ y \notin Quitadas
      BY <1>2, <3>3, <3>4, <3>6
    <3>9. \A y, z \in Entrada : Precede(entradas', y, z)
             <=> /\ z \in ToSet(blanca'.entries) /\ z \notin Quitadas
                 /\ Precede(blanca'.entries, y, z) /\ y \notin Quitadas
      BY <1>2, <3>2, <3>3, <3>4, <3>5, <3>7
    <3>10. \A c \in altas' : ~c.propia
      BY <1>2, <1>5
    <3> QED BY <1>2, <1>10, <2>1, <3>4, <3>8, <3>9, <3>10 DEF AlDiaBlanca
  <2> QED BY <2>2, <2>3
<1> QED BY <1>8, <1>9, <1>11

\* The question before a removal, opened on a row of the table and closed.
LEMMA PasoPreguntasBlanca ==
  ASSUME IInvBlanca, CancelarEliminar \/ \E e \in Entrada : confirmarEliminar(e)
  PROVE  IInvBlanca'
<1> USE DEF IInvBlanca
<1>1. PICK x \in Entrada \cup {Nada} :
        /\ blanca' = [blanca EXCEPT !.deleteTarget = x]
        /\ x # Nada => ~blanca.isLoading /\ x \in ToSet(blanca.entries)
  BY DEF confirmarEliminar, CancelarEliminar, EnBlanca, ToSet
<1>2. blanca \in Senales /\ blanca # Nada /\ UNCHANGED <<entradas, lectura, altas, bajas, desfasada>>
  BY DEF confirmarEliminar, CancelarEliminar, TypeOKBlanca
<1>3. /\ blanca' \in Senales /\ blanca'.entries = blanca.entries /\ blanca'.deleteTarget = x
      /\ blanca'.isLoading = blanca.isLoading /\ blanca'.isAdding = blanca.isAdding
  BY <1>1, <1>2 DEF Senales
<1>4. TypeOKBlanca'
  BY <1>2, <1>3 DEF TypeOKBlanca
<1>5. DeLaTabla'
  BY <1>1, <1>2, <1>3, RegistrosBlanca DEF DeLaTabla
<1>6. Nuevas' = Nuevas /\ Quitadas' = Quitadas
  BY <1>2 DEF Nuevas, Quitadas
<1>7. AlDiaBlanca'
  <2> SUFFICES ASSUME ~desfasada
               PROVE  AlDiaBlanca'
    BY <1>2 DEF AlDiaBlanca
  <2>1. ASSUME lectura = Nada, NEW a \in altas, a.propia PROVE a.id # x
    <3>1. a.id \in Entrada /\ a.id # Nada
      BY RegistrosBlanca DEF TypeOKBlanca
    <3>2. a.id \notin ToSet(blanca.entries)
      BY <1>2, <2>1 DEF AlDiaBlanca
    <3> QED BY <1>1, <3>1, <3>2
  <2> QED BY <1>2, <1>3, <1>6, <2>1 DEF AlDiaBlanca
<1> QED BY <1>4, <1>5, <1>7

\* A removal is sent: it is not of the entry that is being added.
LEMMA PasoDoEliminar ==
  ASSUME IInvBlanca, doEliminar
  PROVE  IInvBlanca'
<1> USE DEF IInvBlanca
<1> DEFINE x == blanca.deleteTarget
           m == [id |-> x, hecho |-> FALSE, propia |-> TRUE]
<1>1. /\ blanca \in Senales /\ blanca # Nada /\ x # Nada /\ bajas' = bajas \cup {m}
      /\ blanca' = [blanca EXCEPT !.deleteTarget = Nada]
      /\ UNCHANGED <<entradas, lectura, altas, desfasada>>
  BY DEF doEliminar, TypeOKBlanca
<1>2. x \in Entrada
  BY <1>1 DEF Senales
<1>3. /\ blanca' \in Senales /\ blanca'.entries = blanca.entries /\ blanca'.deleteTarget = Nada
      /\ blanca'.isLoading = blanca.isLoading /\ blanca'.isAdding = blanca.isAdding
  BY <1>1 DEF Senales
<1>4. m \in Marca /\ m.id = x /\ ~m.hecho
  BY <1>2 DEF Marca
<1>5. lectura = Nada /\ ~blanca.isLoading
  BY <1>1 DEF DeLaTabla
<1> HIDE DEF m
<1>6. TypeOKBlanca'
  BY <1>1, <1>3, <1>4 DEF TypeOKBlanca
<1>7. DeLaTabla'
  BY <1>1, <1>3, <1>5, RegistrosBlanca DEF DeLaTabla
<1>8. Nuevas' = Nuevas /\ Quitadas' = Quitadas
  BY <1>1, <1>4 DEF Nuevas, Quitadas
<1>9. \A y : y \in Ids(bajas') <=> y \in Ids(bajas) \/ y = x
  BY <1>1, <1>4 DEF Ids
<1>10. AlDiaBlanca'
  <2> SUFFICES ASSUME ~desfasada
               PROVE  AlDiaBlanca'
    BY <1>1 DEF AlDiaBlanca
  <2>1. \A a \in altas : a.id # Nada
    BY RegistrosBlanca DEF TypeOKBlanca
  <2> HIDE DEF x
  <2> QED BY <1>1, <1>3, <1>5, <1>8, <1>9, <2>1 DEF AlDiaBlanca, x
<1> QED BY <1>6, <1>7, <1>10

\* The answer to a removal of a page that was left finds nobody.
LEMMA PasoBajaAjena ==
  ASSUME IInvBlanca, NEW b \in bajas, BajaRespondida(b), ~b.propia
  PROVE  IInvBlanca'
<1> USE DEF IInvBlanca
<1>1. bajas' = bajas \ {b} /\ UNCHANGED <<blanca, entradas, lectura, altas, desfasada>>
  BY DEF BajaRespondida, TypeOKBlanca
<1>2. TypeOKBlanca' /\ DeLaTabla'
  BY <1>1 DEF TypeOKBlanca, DeLaTabla
<1>3. Nuevas' = Nuevas /\ Quitadas' = Quitadas /\ Ids(bajas') \subseteq Ids(bajas)
  BY <1>1 DEF Nuevas, Quitadas, Ids
<1>4. AlDiaBlanca'
  BY <1>1, <1>3 DEF AlDiaBlanca
<1> QED BY <1>2, <1>4

\* The page is told of an entry it removed, or never will be.
LEMMA PasoBajaRespondida ==
  ASSUME IInvBlanca, NEW b \in bajas, BajaRespondida(b), b.propia
  PROVE  IInvBlanca'
<1> USE DEF IInvBlanca
<1> DEFINE p == PeticionBlanca("whitelist.remove", b.id, Nada)
<1>1. PICK d \in Desenlaces(p, b.hecho) :
        /\ blanca' = IF d = "datos"
                     THEN [blanca EXCEPT !.entries = filter(@, Entrada \ {b.id})]
                     ELSE blanca
        /\ desfasada' = (desfasada \/ (b.hecho /\ d # "datos"))
  BY DEF BajaRespondida
<1> HIDE DEF p
<1>2. b \in Marca /\ bajas' = bajas \ {b} /\ UNCHANGED <<entradas, lectura, altas>>
  BY DEF BajaRespondida, TypeOKBlanca
<1>3. b.hecho \in BOOLEAN /\ b.id \in Entrada
  BY <1>2, RegistrosBlanca
<1>4. d = "datos" => b.hecho
  BY <1>3, SinHacerNoHayRespuesta
<1>5. blanca \in Senales /\ blanca # Nada /\ lectura = Nada /\ blanca.entries \in Seq(Entrada)
  BY DEF DeLaTabla, TypeOKBlanca, Senales
<1> DEFINE resto == filter(blanca.entries, Entrada \ {b.id})
<1>6. /\ resto \in Seq(Entrada) /\ (IsInjective(blanca.entries) => IsInjective(resto))
      /\ \A y : y \in ToSet(resto) <=> y \in ToSet(blanca.entries) /\ y \in Entrada \ {b.id}
      /\ \A y, z : Precede(resto, y, z)
           <=> Precede(blanca.entries, y, z) /\ y \in Entrada \ {b.id} /\ z \in Entrada \ {b.id}
  BY <1>5, FiltroConserva
<1>7. /\ blanca' \in Senales /\ blanca'.entries = IF d = "datos" THEN resto ELSE blanca.entries
      /\ blanca'.isLoading = blanca.isLoading /\ blanca'.isAdding = blanca.isAdding
      /\ blanca'.deleteTarget = blanca.deleteTarget
  <2>1. blanca' = IF d = "datos" THEN [blanca EXCEPT !.entries = resto] ELSE blanca
    BY <1>1
  <2> HIDE DEF resto
  <2> QED BY <1>5, <1>6, <2>1 DEF Senales
<1> HIDE DEF resto
<1>8. TypeOKBlanca'
  BY <1>1, <1>2, <1>3, <1>7 DEF TypeOKBlanca
<1>9. DeLaTabla'
  BY <1>2, <1>5, <1>7, RegistrosBlanca DEF DeLaTabla
<1>10. Nuevas' = Nuevas /\ Ids(bajas') \subseteq Ids(bajas)
  BY <1>2 DEF Nuevas, Ids
<1>11. AlDiaBlanca'
  <2> SUFFICES ASSUME ~desfasada, b.hecho => d = "datos"
               PROVE  AlDiaBlanca'
    BY <1>1 DEF AlDiaBlanca
  <2>1. CASE d # "datos"
    <3>1. Quitadas' = Quitadas
      BY <1>2, <2>1 DEF Quitadas
    <3> QED BY <1>2, <1>5, <1>7, <1>10, <2>1, <3>1 DEF AlDiaBlanca
  <2>2. CASE d = "datos"
    <3>1. \A y : y \in Quitadas <=> y \in Quitadas' \/ y = b.id
      BY <1>2, <1>4, <2>2 DEF Quitadas
    <3>2. b.id \notin Quitadas'
      <4>1. \A c \in bajas' : c.hecho /\ c.propia => c.id # b.id
        BY <1>2, <1>4, <2>2 DEF TypeOKBlanca, Marca
      <4> QED BY <4>1 DEF Quitadas
    <3>3. b.id \notin Nuevas
      BY <1>5 DEF AlDiaBlanca, Nuevas, Ids
    <3>4. /\ IsInjective(blanca'.entries) /\ ToSet(blanca'.entries) \subseteq ToSet(blanca.entries)
          /\ \A y \in Entrada : y \in ToSet(entradas')
               <=> y \in Nuevas \/ (y \in ToSet(blanca'.entries) /\ y \notin Quitadas')
      BY <1>2, <1>5, <1>6, <1>7, <2>2, <3>1, <3>2, <3>3 DEF AlDiaBlanca
    <3>5. \A y, z \in Entrada : Precede(entradas', y, z)
            <=> /\ z \in ToSet(blanca'.entries) /\ z \notin Quitadas'
                /\ y \in Nuevas \/ (Precede(blanca'.entries, y, z) /\ y \notin Quitadas')
      BY <1>2, <1>5, <1>6, <1>7, <2>2, <3>1, <3>2, <3>3 DEF AlDiaBlanca
    <3> QED BY <1>2, <1>5, <1>7, <1>10, <3>4, <3>5 DEF AlDiaBlanca
  <2> QED BY <2>1, <2>2
<1> QED BY <1>8, <1>9, <1>11

\* The invariant holds whatever the window does.
LEMMA InduccionBlanca == IInvBlanca /\ [Next]_varsWeb => IInvBlanca'
<1> SUFFICES ASSUME IInvBlanca, PasoBlan PROVE IInvBlanca'
  BY CasosBlanca
<1>1. CASE UNCHANGED varsBlanca
  BY <1>1 DEF varsBlanca, IInvBlanca, TypeOKBlanca, DeLaTabla, AlDiaBlanca, Nuevas, Quitadas
<1>2. CASE MontarBlanca \/ DesmontarBlanca
  BY <1>2, PasoMontarBlanca, PasoDesmontarBlanca
<1>3. CASE PasoBlanca
  <2>1. CASE AtenderBlanca \/ BlancaCargada \/ doEliminar
    BY <2>1, PasoAtenderBlanca, PasoBlancaCargada, PasoDoEliminar
  <2>2. CASE CancelarEliminar \/ \E e \in Entrada : confirmarEliminar(e)
    BY <2>2, PasoPreguntasBlanca
  <2>3. CASE \E e \in Entrada : onAdd(e)
    BY <2>3, PasoOnAdd
  <2>4. CASE \E b \in bajas : BorrarEntrada(b) \/ BajaRespondida(b)
    BY <2>4, PasoBorrarEntrada, PasoBajaRespondida, PasoBajaAjena
  <2>5. CASE \E a \in altas : CrearEntrada(a) \/ AltaRespondida(a)
    BY <2>5, PasoCrearEntrada, PasoAltaRespondida, PasoAltaAjena
  <2> QED BY <1>3, <2>1, <2>2, <2>3, <2>4, <2>5 DEF PasoBlanca
<1> QED BY <1>1, <1>2, <1>3 DEF PasoBlan

\* The server's list is always the page's with the news that have not come, one of each.
THEOREM InvarianteBlanca == Spec => []IInvBlanca
BY InicioBlanca, InduccionBlanca, PTL DEF Spec

\* The table the page keeps by itself is the server's list, in its order, when the page
\* awaits nothing: also after it was left with additions and removals in flight and opened
\* again, if the server had done them when it read the list.
THEOREM BlancaFielSiempre == Spec => []BlancaFiel
<1>1. ASSUME IInvBlanca PROVE BlancaFiel
  <2> SUFFICES ASSUME blanca # Nada, lectura = Nada, ~desfasada,
                      \A x \in altas \cup bajas : ~x.propia
               PROVE  blanca.entries = entradas
    BY DEF BlancaFiel
  <2>1. Nuevas = {} /\ Quitadas = {}
    BY DEF Nuevas, Quitadas
  <2>2. /\ blanca.entries \in Seq(Entrada) /\ entradas \in Seq(Entrada) /\ IsInjective(entradas)
    BY <1>1 DEF IInvBlanca, TypeOKBlanca, Senales
  <2>3. IsInjective(blanca.entries)
    BY <1>1 DEF IInvBlanca, AlDiaBlanca
  <2>4. \A x \in Entrada : x \in ToSet(blanca.entries) <=> x \in ToSet(entradas)
    BY <1>1, <2>1 DEF IInvBlanca, AlDiaBlanca
  <2>5. \A x, y : Precede(blanca.entries, x, y) => y \in ToSet(blanca.entries)
    BY PrecedeEsta
  <2>6. \A x, y \in Entrada : Precede(blanca.entries, x, y) <=> Precede(entradas, x, y)
    BY <1>1, <2>1, <2>5 DEF IInvBlanca, AlDiaBlanca
  <2> QED BY <2>2, <2>3, <2>4, <2>6, MismaLista
<1> QED BY InvarianteBlanca, <1>1, PTL
------------------------------------------------------------------------------
(* The rows that were unblocked *)

\* A page of the table: its rows are rows of the table.
LEMMA FilasDeFindAll ==
  ASSUME NEW query, query.page \in Nat \ {0}, query.limit = limit, NEW filas \in Seq(Renglon)
  PROVE  /\ findAll(query, filas).data \in Seq(Renglon) /\ findAll(query, filas).totalPages \in Nat
         /\ \A i \in DOMAIN findAll(query, filas).data :
              \E j \in DOMAIN filas : findAll(query, filas).data[i] = filas[j]
<1> DEFINE S == {r \in Renglon : "estado" \in DOMAIN query => r.estado = query.estado}
           w == filter(filas, S)
           skip == (query.page - 1) * query.limit
           n == IF skip + query.limit < Len(w) THEN skip + query.limit ELSE Len(w)
           data == SubSeq(w, skip + 1, n)
<1>1. w \in Seq(Renglon) /\ \A k \in DOMAIN w : \E j \in DOMAIN filas : w[k] = filas[j]
  <2>1. w \in Seq(Renglon) /\ \E f : Elige(f, w, filas, S)
    BY FiltroEs
  <2>2. PICK f : Elige(f, w, filas, S)
    BY <2>1
  <2> HIDE DEF w
  <2> QED BY <2>1, <2>2 DEF Elige
<1>2. findAll(query, filas).data = data
      /\ findAll(query, filas).totalPages = (Len(w) + query.limit - 1) \div query.limit
  BY DEF findAll
<1> HIDE DEF S, w
<1>3. Len(w) \in Nat /\ DOMAIN w = 1 .. Len(w) /\ \A k \in DOMAIN w : w[k] \in Renglon
  BY <1>1
<1>4. limit \in Nat /\ limit # 0 /\ query.page - 1 \in Nat
  BY HistorialConstantes
<1>5. skip \in Nat
  BY <1>4
<1> HIDE DEF skip
<1>6. n \in Nat /\ n <= Len(w)
  BY <1>3, <1>4, <1>5
<1> HIDE DEF n
<1>7. /\ data \in Seq(Renglon)
      /\ \A i \in DOMAIN data : i + skip \in DOMAIN w /\ data[i] = w[i + skip]
  <2>1. \A i \in skip + 1 .. n : w[i] \in Renglon
    BY <1>3, <1>5, <1>6
  <2>2. /\ data \in Seq(Renglon) /\ Len(data) = IF skip + 1 <= n THEN n - (skip + 1) + 1 ELSE 0
        /\ \A i \in 1 .. n - (skip + 1) + 1 : data[i] = w[(skip + 1) + i - 1]
    BY <1>5, <1>6, <2>1, SubSeqProperties
  <2> HIDE DEF data
  <2>3. DOMAIN data = 1 .. Len(data)
    BY <2>2
  <2> SUFFICES ASSUME NEW i \in DOMAIN data
               PROVE  i + skip \in DOMAIN w /\ data[i] = w[i + skip]
    BY <2>2
  <2>4. i \in 1 .. n - (skip + 1) + 1 /\ (skip + 1) + i - 1 = i + skip
    BY <1>5, <1>6, <2>2, <2>3
  <2> QED BY <1>3, <1>5, <1>6, <2>2, <2>4
<1>8. (Len(w) + limit - 1) \div limit \in Nat
  <2>1. Len(w) + limit - 1 \in Nat
    BY <1>3, <1>4
  <2> QED BY <1>4, <2>1
<1> HIDE DEF data
<1> QED BY <1>1, <1>2, <1>7, <1>8

\* A number is a value, and is not left out of a query.
LEMMA NumerosDeLaConsulta ==
  ASSUME NEW p \in Nat \ {0}, NEW f
  PROVE  LET q == createQuerySerializer([page |-> p, limit |-> limit, estado |-> f]) IN
         q.page = p /\ q.limit = limit
<1>1. p # Nada /\ limit # Nada
  BY HistorialConstantes
<1> DEFINE r == [page |-> p, limit |-> limit, estado |-> f]
<1>2. r.page = p /\ r.limit = limit /\ DOMAIN r = {"page", "limit", "estado"}
  OBVIOUS
<1> HIDE DEF r
<1>3. "page" \in {m \in DOMAIN r : r[m] # Nada} /\ "limit" \in {m \in DOMAIN r : r[m] # Nada}
  BY <1>1, <1>2
<1>4. createQuerySerializer(r).page = p /\ createQuerySerializer(r).limit = limit
  BY <1>2, <1>3 DEF createQuerySerializer
<1> QED BY <1>4 DEF r

\* Nothing is on the screen, and the table has any rows.
LEMMA InicioLiberadas == InitAplicacion => IInvLiberadas
<1> SUFFICES ASSUME InitHistorial PROVE IInvLiberadas
  BY DEF InitAplicacion
<1> USE DEF InitHistorial
<1>1. tabla \in Seq(Renglon)
  <2>0. PICK n \in 0 .. Cardinality(Fila), orden \in SetToSeqs(Fila) :
          \E estado \in [1 .. n -> EstadoFila] :
            tabla = [i \in 1 .. n |-> [id |-> orden[i], estado |-> estado[i]]]
    OBVIOUS
  <2>1. PICK estado \in [1 .. n -> EstadoFila] :
          tabla = [i \in 1 .. n |-> [id |-> orden[i], estado |-> estado[i]]]
    BY <2>0
  <2>2. Cardinality(Fila) \in Nat
    BY HistorialConstantes, FS_CardinalityType
  <2>3. orden \in [1 .. Cardinality(Fila) -> Fila]
    BY <2>0 DEF SetToSeqs
  <2>4. n \in Nat /\ \A i \in 1 .. n : orden[i] \in Fila /\ estado[i] \in EstadoFila
    BY <2>1, <2>2, <2>3
  <2>5. tabla \in [1 .. n -> Renglon]
    BY <2>1, <2>4 DEF Renglon
  <2> QED BY <2>4, <2>5
<1>2. TiposDeHist(hist) /\ hist.filas = <<>> /\ hist.objetivo = Nada
  BY HistorialConstantes DEF HistNuevo, TiposDeHist, CamposDeHist
<1>3. TiposHistorial
  BY <1>1, <1>2 DEF TiposHistorial
<1>4. Conocidas
  BY <1>2 DEF Conocidas, Contestados, IdsDe
<1>5. Liberacion
  BY <1>2 DEF Liberacion, Contestados, SinAbiertas, Hechos
<1>6. EnPagina
  BY <1>2 DEF EnPagina
<1> QED BY <1>3, <1>4, <1>5, <1>6 DEF InvFilas, IInvLiberadas

\* The list is asked for again: what was known stays so, and the newest request has no
\* answer that could be behind.
LEMMA ListarLibera ==
  ASSUME NEW c \in Historiales, NEW h, NEW otros, Listar(c, h, otros),
         clase' = c, tabla' = tabla, tabla \in Seq(Renglon), TiposDeHist(h),
         \A l \in otros :
           /\ TiposDeListado(l) /\ l.n \in 1 .. h.pedidas
           /\ l.respuesta # Nada => IdsDe(l.respuesta.data) \subseteq IdsDe(tabla),
         detallando' \subseteq Fila, liberadas' \subseteq Fila,
         desbloqueos' \subseteq [id : Fila, hecho : BOOLEAN],
         liberadas' \cup {d.id : d \in desbloqueos'} \cup ({h.objetivo} \ {Nada}) \cup IdsDe(h.filas)
           \subseteq IdsDe(tabla),
         SinAbiertas(tabla, liberadas' \cup Hechos')
  PROVE  InvFilas'
<1> DEFINE o == [op |-> c \o ".findAll", path |-> Nada, body |-> Nada,
                 query |-> [page |-> h.page, limit |-> limit, estado |-> h.filtro]]
           l == [n |-> h.pedidas + 1, peticion |-> Peticion(o, TRUE), respuesta |-> Nada,
                 vieja |-> FALSE]
<1>1. /\ listados' = otros \cup {l} /\ h.pedidas < Listados
      /\ hist' = [h EXCEPT !.isLoading = TRUE, !.expandedId = Nada, !.expandedDetail = Nada,
                           !.pedidas = h.pedidas + 1]
  BY DEF Listar
<1>2. h.pedidas \in Nat /\ Listados \in Nat /\ h.page \in Nat \ {0}
  BY HistorialConstantes DEF TiposDeHist
<1>3. /\ DOMAIN l = {"n", "peticion", "respuesta", "vieja"} /\ l.n = h.pedidas + 1
      /\ l.respuesta = Nada /\ l.vieja = FALSE
      /\ l.peticion.url.query = createQuerySerializer(o.query)
  BY LoQueSePide
<1>4. l.peticion.url.query.page = h.page /\ l.peticion.url.query.limit = limit
  <2>1. o.query = [page |-> h.page, limit |-> limit, estado |-> h.filtro]
    OBVIOUS
  <2> HIDE DEF o, l
  <2>2. /\ createQuerySerializer(o.query).page = h.page
        /\ createQuerySerializer(o.query).limit = limit
    BY <1>2, <2>1, NumerosDeLaConsulta
  <2> QED BY <1>3, <2>2
<1> HIDE DEF l, o
<1>5. /\ TiposDeHist(hist') /\ hist'.pedidas = h.pedidas + 1 /\ hist'.aplicada = h.aplicada
      /\ hist'.filas = h.filas /\ hist'.objetivo = h.objetivo
  BY <1>1, <1>2, HistorialConstantes DEF TiposDeHist, CamposDeHist
<1>6. TiposHistorial'
  <2>1. \A m \in listados' : TiposDeListado(m) /\ m.n \in 1 .. hist'.pedidas
    <3>1. TiposDeListado(l) /\ l.n \in 1 .. hist'.pedidas
      <4>1. l.vieja \in BOOLEAN
        BY <1>3
      <4>2. TiposDeListado(l)
        BY <1>2, <1>3, <1>4, <4>1 DEF TiposDeListado
      <4>3. l.n \in 1 .. hist'.pedidas
        BY <1>2, <1>3, <1>5
      <4> QED BY <4>2, <4>3
    <3>2. \A m \in otros : TiposDeListado(m) /\ m.n \in 1 .. hist'.pedidas
      BY <1>2, <1>5
    <3> QED BY <1>1, <3>1, <3>2
  <2>2. (\A m \in listados : TiposDeListado(m) /\ m.n \in 1 .. hist.pedidas)'
    BY <2>1 DEF TiposDeListado
  <2>3. TiposDeHist(hist)'
    BY <1>5 DEF TiposDeHist, CamposDeHist
  <2> QED BY <2>2, <2>3 DEF TiposHistorial
<1>7. Contestados' \subseteq {m \in otros : m.respuesta # Nada}
  BY <1>1, <1>3 DEF Contestados
<1>8. Conocidas'
  BY <1>5, <1>7 DEF Conocidas, IdsDe
<1>9. Liberacion'
  <2>1. h.aplicada \in 0 .. h.pedidas
    BY DEF TiposDeHist
  <2>2. hist'.aplicada # hist'.pedidas /\ \A m \in Contestados' : m.n # hist'.pedidas
    BY <1>2, <1>5, <1>7, <2>1
  <2> QED BY <2>2 DEF Liberacion, SinAbiertas
<1> QED BY <1>6, <1>8, <1>9 DEF InvFilas

\* What changes neither the rows nor what was asked for; what is unblocked already may be
\* forgotten, and what is to be unblocked is known.
LEMMA SoloMarcasLibera ==
  ASSUME InvFilas, UNCHANGED <<clase, tabla, liberadas>>, listados' \subseteq listados,
         TiposDeHist(hist'), hist'.filas = hist.filas, hist'.pedidas = hist.pedidas,
         hist'.aplicada = hist.aplicada,
         hist'.objetivo \in {Nada} \cup IdsDe(tabla), detallando' \subseteq Fila,
         desbloqueos' \subseteq [id : Fila, hecho : BOOLEAN],
         \A d \in desbloqueos' : d \in desbloqueos \/ (~d.hecho /\ d.id \in IdsDe(tabla))
  PROVE  InvFilas'
<1> USE DEF InvFilas
<1>1. TiposHistorial'
  <2>1. TiposDeHist(hist)'
    BY DEF TiposDeHist, CamposDeHist
  <2>2. (\A m \in listados : TiposDeListado(m) /\ m.n \in 1 .. hist.pedidas)'
    BY DEF TiposHistorial, TiposDeListado
  <2> QED BY <2>1, <2>2 DEF TiposHistorial
<1>2. Contestados' \subseteq Contestados
  BY DEF Contestados
<1>3. Conocidas'
  BY <1>2 DEF Conocidas, IdsDe
<1>4. \A x \in Hechos' : x \in Hechos
  BY DEF Hechos
<1>5. Liberacion'
  BY <1>2, <1>4 DEF Liberacion, SinAbiertas
<1> QED BY <1>1, <1>3, <1>5

\* A page opens, or closes, and knows nothing.
LEMMA MontarLibera ==
  ASSUME InvFilas, DesmontarHistorial \/ \E c \in Historiales : MontarHistorial(c)
  PROVE  InvFilas'
<1>1. /\ TiposDeHist(HistNuevo) /\ HistNuevo.filas = <<>> /\ HistNuevo.objetivo = Nada
      /\ HistNuevo.pedidas = 0
  BY HistorialConstantes DEF HistNuevo, TiposDeHist, CamposDeHist
<1>2. IdsDe(HistNuevo.filas) = {} /\ tabla \in Seq(Renglon)
  BY <1>1 DEF IdsDe, InvFilas, TiposHistorial
<1> HIDE DEF HistNuevo
<1>3. CASE DesmontarHistorial
  <2>1. /\ clase' = Nada /\ hist' = HistNuevo /\ tabla' = tabla
        /\ listados' = {} /\ detallando' = {} /\ desbloqueos' = {} /\ liberadas' = {}
    BY <1>3 DEF DesmontarHistorial
  <2>2. TiposHistorial'
    <3>1. TiposDeHist(hist)'
      BY <1>1, <2>1 DEF TiposDeHist, CamposDeHist
    <3> QED BY <1>2, <2>1, <3>1 DEF TiposHistorial
  <2>3. Conocidas' /\ Liberacion'
    BY <1>1, <1>2, <2>1 DEF Conocidas, Liberacion, Contestados, Hechos, SinAbiertas, IdsDe
  <2> QED BY <2>2, <2>3 DEF InvFilas
<1>4. ASSUME NEW c \in Historiales, MontarHistorial(c) PROVE InvFilas'
  <2>1. /\ Listar(c, HistNuevo, {}) /\ clase' = c /\ tabla' = tabla
        /\ detallando' = {} /\ desbloqueos' = {} /\ liberadas' = {}
    BY <1>4 DEF MontarHistorial
  <2>2. SinAbiertas(tabla, liberadas' \cup Hechos')
    BY <2>1 DEF SinAbiertas, Hechos
  <2> QED BY <1>1, <1>2, <2>1, <2>2, ListarLibera
<1> QED BY <1>3, <1>4

\* What the server reads has the rows that were unblocked closed, as its table has.
LEMMA AtenderLibera ==
  ASSUME InvFilas, NEW l \in listados, AtenderListado(l)
  PROVE  InvFilas'
<1> USE DEF InvFilas
<1> DEFINE r == findAll(l.peticion.url.query, tabla)
           m == [l EXCEPT !.respuesta = r]
<1>1. /\ listados' = (listados \ {l}) \cup {m}
      /\ UNCHANGED <<clase, hist, tabla, detallando, desbloqueos, liberadas>>
  BY DEF AtenderListado
<1>2. TiposDeListado(l) /\ l.n \in 1 .. hist.pedidas /\ tabla \in Seq(Renglon)
  BY DEF TiposHistorial
<1>3. /\ r.data \in Seq(Renglon) /\ r.totalPages \in Nat
      /\ \A i \in DOMAIN r.data : \E j \in DOMAIN tabla : r.data[i] = tabla[j]
  BY <1>2, FilasDeFindAll DEF TiposDeListado
<1> HIDE DEF r
<1>4. /\ DOMAIN m = {"n", "peticion", "respuesta", "vieja"} /\ m.n = l.n
      /\ m.peticion = l.peticion /\ m.respuesta = r /\ m.vieja = l.vieja
  BY <1>2 DEF TiposDeListado
<1> HIDE DEF m
<1>5. TiposDeListado(m)
  BY <1>2, <1>3, <1>4 DEF TiposDeListado
<1>6. TiposHistorial'
  <2>1. (\A k \in listados : TiposDeListado(k) /\ k.n \in 1 .. hist.pedidas)'
    BY <1>1, <1>2, <1>4, <1>5 DEF TiposHistorial, TiposDeListado
  <2>2. TiposDeHist(hist)'
    BY <1>1 DEF TiposHistorial, TiposDeHist, CamposDeHist
  <2> QED BY <1>1, <2>1, <2>2 DEF TiposHistorial
<1>7. Contestados' \subseteq Contestados \cup {m}
  BY <1>1 DEF Contestados
<1>8. IdsDe(r.data) \subseteq IdsDe(tabla)
  BY <1>3 DEF IdsDe
<1>9. Conocidas'
  <2>1. \A k \in Contestados' : IdsDe(k.respuesta.data) \subseteq IdsDe(tabla)
    BY <1>4, <1>7, <1>8 DEF Conocidas
  <2> QED BY <1>1, <2>1 DEF Conocidas, IdsDe
<1>10. SinAbiertas(r.data, liberadas)
  BY <1>3 DEF Liberacion, SinAbiertas
<1>11. Liberacion'
  BY <1>1, <1>4, <1>7, <1>10 DEF Liberacion, SinAbiertas, Hechos
<1> QED BY <1>6, <1>9, <1>11

\* The table changes: it keeps its rows, and those that were unblocked closed.
LEMMA CambiaLibera ==
  ASSUME InvFilas, NEW filas \in Seq(Renglon), CambiaTabla(filas),
         IdsDe(tabla) \subseteq IdsDe(filas), UNCHANGED <<clase, detallando, liberadas>>,
         desbloqueos' \subseteq [id : Fila, hecho : BOOLEAN],
         {d.id : d \in desbloqueos'} \subseteq {d.id : d \in desbloqueos},
         SinAbiertas(filas, liberadas \cup Hechos')
  PROVE  InvFilas'
<1> USE DEF InvFilas
<1> DEFINE De(l) == [l EXCEPT !.vieja = (l.respuesta # Nada)]
<1>1. tabla' = filas /\ hist' = [hist EXCEPT !.vieja = TRUE] /\ listados' = {De(l) : l \in listados}
  BY DEF CambiaTabla
<1>2. /\ TiposDeHist(hist') /\ hist'.filas = hist.filas /\ hist'.pedidas = hist.pedidas
      /\ hist'.aplicada = hist.aplicada /\ hist'.objetivo = hist.objetivo
  BY <1>1 DEF TiposHistorial, TiposDeHist, CamposDeHist
<1>3. \A l \in listados :
        /\ TiposDeListado(De(l)) /\ De(l).n = l.n /\ De(l).respuesta = l.respuesta
  <2> SUFFICES ASSUME NEW l \in listados
               PROVE  TiposDeListado(De(l)) /\ De(l).n = l.n /\ De(l).respuesta = l.respuesta
    OBVIOUS
  <2>1. TiposDeListado(l)
    BY DEF TiposHistorial
  <2>2. /\ DOMAIN De(l) = {"n", "peticion", "respuesta", "vieja"} /\ De(l).n = l.n
        /\ De(l).respuesta = l.respuesta /\ De(l).peticion = l.peticion
        /\ De(l).vieja \in BOOLEAN
    BY <2>1 DEF TiposDeListado
  <2> HIDE DEF De
  <2> QED BY <2>1, <2>2 DEF TiposDeListado
<1> HIDE DEF De
<1>4. TiposHistorial'
  <2>1. \A m \in listados' : TiposDeListado(m) /\ m.n \in 1 .. hist'.pedidas
    BY <1>1, <1>2, <1>3 DEF TiposHistorial
  <2>2. (\A m \in listados : TiposDeListado(m) /\ m.n \in 1 .. hist.pedidas)'
    BY <2>1 DEF TiposDeListado
  <2>3. TiposDeHist(hist)'
    BY <1>2 DEF TiposDeHist, CamposDeHist
  <2> QED BY <1>1, <2>2, <2>3 DEF TiposHistorial
<1>5. \A m \in Contestados' : \E l \in Contestados : m.n = l.n /\ m.respuesta = l.respuesta
  BY <1>1, <1>3 DEF Contestados
<1>6. Conocidas'
  <2>1. /\ liberadas' \subseteq IdsDe(filas) /\ {d.id : d \in desbloqueos'} \subseteq IdsDe(filas)
        /\ {hist'.objetivo} \ {Nada} \subseteq IdsDe(filas) /\ IdsDe(hist'.filas) \subseteq IdsDe(filas)
    BY <1>2 DEF Conocidas
  <2>2. \A m \in Contestados' : IdsDe(m.respuesta.data) \subseteq IdsDe(filas)
    BY <1>5 DEF Conocidas
  <2>3. (liberadas \cup {d.id : d \in desbloqueos} \cup ({hist.objetivo} \ {Nada})
          \cup IdsDe(hist.filas) \subseteq IdsDe(tabla))'
    BY <1>1, <2>1 DEF IdsDe
  <2>4. (\A m \in Contestados : IdsDe(m.respuesta.data) \subseteq IdsDe(tabla))'
    BY <1>1, <2>2 DEF IdsDe
  <2> QED BY <2>3, <2>4 DEF Conocidas
<1>7. Liberacion'
  <2>1. \A m \in Contestados' : m.n = hist'.pedidas => SinAbiertas(m.respuesta.data, liberadas)
    BY <1>2, <1>5 DEF Liberacion
  <2>2. hist'.aplicada = hist'.pedidas => SinAbiertas(hist'.filas, liberadas)
    BY <1>2 DEF Liberacion
  <2> QED BY <1>1, <2>1, <2>2 DEF Liberacion, SinAbiertas
<1> QED BY <1>4, <1>6, <1>7

\* Another row: it is none of those the page knows of.
LEMMA LlegadaLibera ==
  ASSUME InvFilas, NEW f \in Fila, Llegada(f)
  PROVE  InvFilas'
<1> DEFINE r == [id |-> f, estado |-> "activa"]
           filas == <<r>> \o tabla
<1>1. /\ CambiaTabla(filas) /\ UNCHANGED <<clase, detallando, desbloqueos, liberadas>>
      /\ f \notin IdsDe(tabla)
  BY DEF Llegada, IdsDe
<1>2. tabla \in Seq(Renglon) /\ r \in Renglon /\ r.id = f
  BY DEF InvFilas, TiposHistorial, Renglon, EstadoFila
<1>3. /\ desbloqueos \subseteq [id : Fila, hecho : BOOLEAN] /\ SinAbiertas(tabla, liberadas \cup Hechos)
      /\ liberadas \cup {d.id : d \in desbloqueos} \subseteq IdsDe(tabla)
  BY DEF InvFilas, TiposHistorial, Conocidas, Liberacion
<1> HIDE DEF r
<1>4. /\ filas \in Seq(Renglon)
      /\ \A i \in DOMAIN filas : filas[i] = r \/ \E j \in DOMAIN tabla : filas[i] = tabla[j]
      /\ \A j \in DOMAIN tabla : j + 1 \in DOMAIN filas /\ filas[j + 1] = tabla[j]
  BY <1>2
<1> HIDE DEF filas
<1>5. IdsDe(tabla) \subseteq IdsDe(filas)
  BY <1>4 DEF IdsDe
<1>6. f \notin liberadas \cup Hechos
  BY <1>1, <1>3 DEF Hechos
<1>7. SinAbiertas(filas, liberadas \cup Hechos)
  BY <1>2, <1>3, <1>4, <1>6 DEF SinAbiertas
<1>8. Hechos' = Hechos
  BY <1>1 DEF Hechos
<1> QED BY <1>1, <1>3, <1>4, <1>5, <1>7, <1>8, CambiaLibera

\* A row is unblocked: closed it stays.
LEMMA DesbloquearLibera ==
  ASSUME InvFilas, NEW d \in desbloqueos, Desbloquear(d)
  PROVE  InvFilas'
<1> DEFINE filas == Cerrar(d.id)
           e == [d EXCEPT !.hecho = TRUE]
<1>1. /\ CambiaTabla(filas) /\ UNCHANGED <<clase, detallando, liberadas>>
      /\ desbloqueos' = (desbloqueos \ {d}) \cup {e}
  BY DEF Desbloquear
<1>2. /\ tabla \in Seq(Renglon) /\ d \in [id : Fila, hecho : BOOLEAN]
      /\ desbloqueos \subseteq [id : Fila, hecho : BOOLEAN] /\ SinAbiertas(tabla, liberadas \cup Hechos)
  BY DEF InvFilas, TiposHistorial, Liberacion
<1>3. e \in [id : Fila, hecho : BOOLEAN] /\ e.id = d.id
  BY <1>2
<1> HIDE DEF e
<1>4. /\ DOMAIN filas = DOMAIN tabla
      /\ \A i \in DOMAIN tabla :
           /\ filas[i] \in Renglon /\ filas[i].id = tabla[i].id
           /\ tabla[i].id = d.id => filas[i].estado = "cerrada"
           /\ tabla[i].id # d.id => filas[i] = tabla[i]
  <2> SUFFICES ASSUME NEW i \in DOMAIN tabla
               PROVE  /\ filas[i] \in Renglon /\ filas[i].id = tabla[i].id
                      /\ tabla[i].id = d.id => filas[i].estado = "cerrada"
                      /\ tabla[i].id # d.id => filas[i] = tabla[i]
    BY DEF Cerrar
  <2>1. tabla[i] \in Renglon
    BY <1>2
  <2>2. filas[i] = IF tabla[i].id = d.id THEN [tabla[i] EXCEPT !.estado = "cerrada"] ELSE tabla[i]
    BY DEF Cerrar
  <2> HIDE DEF filas
  <2> QED BY <2>1, <2>2 DEF Renglon, EstadoFila
<1>5. filas \in Seq(Renglon)
  <2>1. DOMAIN tabla = 1 .. Len(tabla) /\ Len(tabla) \in Nat
    BY <1>2
  <2>2. filas = [i \in 1 .. Len(tabla) |-> filas[i]]
    BY <2>1 DEF Cerrar
  <2> HIDE DEF filas
  <2>3. filas \in [1 .. Len(tabla) -> Renglon]
    BY <1>4, <2>1, <2>2
  <2> QED BY <2>1, <2>3
<1> HIDE DEF filas
<1>6. IdsDe(tabla) \subseteq IdsDe(filas)
  BY <1>4 DEF IdsDe
<1>7. \A x \in Hechos' : x \in Hechos \/ x = d.id
  BY <1>1, <1>3 DEF Hechos
<1>8. SinAbiertas(filas, liberadas \cup Hechos')
  BY <1>2, <1>4, <1>7 DEF SinAbiertas
<1>9. desbloqueos' \subseteq [id : Fila, hecho : BOOLEAN]
  BY <1>1, <1>2, <1>3
<1>10. {x.id : x \in desbloqueos'} \subseteq {x.id : x \in desbloqueos}
  BY <1>1, <1>3
<1> QED BY <1>1, <1>5, <1>6, <1>8, <1>9, <1>10, CambiaLibera

\* The newest answer shows the rows that were unblocked closed; another one is not the newest.
LEMMA ListadoLibera ==
  ASSUME InvFilas, NEW l \in listados, ListadoRespondido(l)
  PROVE  InvFilas'
<1> USE DEF InvFilas
<1>1. PICK d \in Desenlaces(l.peticion, l.respuesta # Nada) :
        hist' = CASE d = "datos" ->
                       [hist EXCEPT !.filas = l.respuesta.data,
                                    !.totalPages = l.respuesta.totalPages,
                                    !.isLoading = FALSE, !.aplicada = l.n, !.vieja = l.vieja]
                  [] d = "error" -> [hist EXCEPT !.isLoading = FALSE]
                  [] d = "excepcion" ->
                       [hist EXCEPT !.filas = <<>>, !.isLoading = FALSE, !.aplicada = 0]
  BY DEF ListadoRespondido
<1>2. /\ listados' = listados \ {l}
      /\ UNCHANGED <<clase, tabla, detallando, desbloqueos, liberadas>>
  BY DEF ListadoRespondido
<1>3. TiposDeHist(hist) /\ TiposDeListado(l) /\ l.n \in 1 .. hist.pedidas /\ hist.pedidas \in Nat
  BY HistorialConstantes DEF TiposHistorial, TiposDeHist
<1>4. d \in {"datos", "error", "excepcion"}
  BY DEF Desenlaces, request
<1>5. d = "datos" => l \in Contestados
  BY SinHacerNoHayRespuesta DEF Contestados
<1>6. /\ TiposDeHist(hist') /\ hist'.pedidas = hist.pedidas /\ hist'.objetivo = hist.objetivo
      /\ \/ hist'.filas = hist.filas /\ hist'.aplicada = hist.aplicada
         \/ l \in Contestados /\ hist'.filas = l.respuesta.data /\ hist'.aplicada = l.n
         \/ hist'.filas = <<>> /\ hist'.aplicada = 0
  <2>1. CASE d = "datos"
    <3>1. hist' = [hist EXCEPT !.filas = l.respuesta.data,
                               !.totalPages = l.respuesta.totalPages,
                               !.isLoading = FALSE, !.aplicada = l.n, !.vieja = l.vieja]
      BY <1>1, <2>1
    <3>2. /\ l \in Contestados /\ l.respuesta.data \in Seq(Renglon)
          /\ l.respuesta.totalPages \in Nat /\ l.vieja \in BOOLEAN
      BY <1>3, <1>5, <2>1 DEF Contestados, TiposDeListado
    <3> QED BY <1>3, <3>1, <3>2 DEF TiposDeHist, CamposDeHist
  <2>2. CASE d = "error"
    <3>1. hist' = [hist EXCEPT !.isLoading = FALSE]
      BY <1>1, <2>2
    <3> QED BY <1>3, <3>1 DEF TiposDeHist, CamposDeHist
  <2>3. CASE d = "excepcion"
    <3>1. hist' = [hist EXCEPT !.filas = <<>>, !.isLoading = FALSE, !.aplicada = 0]
      BY <1>1, <2>3
    <3>2. <<>> \in Seq(Renglon) /\ 0 \in 0 .. hist.pedidas
      BY <1>3
    <3> QED BY <1>3, <3>1, <3>2 DEF TiposDeHist, CamposDeHist
  <2> QED BY <1>4, <2>1, <2>2, <2>3
<1>7. TiposHistorial'
  <2>1. TiposDeHist(hist)'
    BY <1>6 DEF TiposDeHist, CamposDeHist
  <2>2. (\A m \in listados : TiposDeListado(m) /\ m.n \in 1 .. hist.pedidas)'
    BY <1>2, <1>6 DEF TiposHistorial, TiposDeListado
  <2> QED BY <1>2, <2>1, <2>2 DEF TiposHistorial
<1>8. Contestados' \subseteq Contestados
  BY <1>2 DEF Contestados
<1>9. IdsDe(hist'.filas) \subseteq IdsDe(tabla)
  <2>1. IdsDe(<<>>) = {}
    BY DEF IdsDe
  <2> QED BY <1>6, <2>1 DEF Conocidas
<1>10. Conocidas'
  <2>1. (liberadas \cup {x.id : x \in desbloqueos} \cup ({hist.objetivo} \ {Nada})
          \cup IdsDe(hist.filas) \subseteq IdsDe(tabla))'
    BY <1>2, <1>6, <1>9 DEF Conocidas, IdsDe
  <2>2. (\A m \in Contestados : IdsDe(m.respuesta.data) \subseteq IdsDe(tabla))'
    BY <1>2, <1>8 DEF Conocidas, IdsDe
  <2> QED BY <2>1, <2>2 DEF Conocidas
<1>11. hist'.aplicada = hist'.pedidas => SinAbiertas(hist'.filas, liberadas)
  <2>1. SinAbiertas(<<>>, liberadas)
    BY DEF SinAbiertas
  <2> QED BY <1>6, <2>1 DEF Liberacion
<1>12. Liberacion'
  BY <1>2, <1>6, <1>8, <1>11 DEF Liberacion, SinAbiertas, Hechos
<1> QED BY <1>7, <1>10, <1>12

\* What the page has selected when it asks again.
LEMMA PedirLibera ==
  ASSUME InvFilas, NEW h, Listar(clase, h, listados), clase # Nada,
         TiposDeHist(h), h.filas = hist.filas, h.pedidas = hist.pedidas,
         h.objetivo = hist.objetivo, UNCHANGED <<clase, tabla, detallando>>,
         desbloqueos' \subseteq desbloqueos,
         liberadas' \subseteq liberadas \cup Hechos
  PROVE  InvFilas'
<1> USE DEF InvFilas
<1>1. clase \in Historiales /\ tabla \in Seq(Renglon) /\ detallando \subseteq Fila
      /\ liberadas \subseteq Fila /\ desbloqueos \subseteq [id : Fila, hecho : BOOLEAN]
  BY DEF TiposHistorial
<1>2. \A l \in listados :
        /\ TiposDeListado(l) /\ l.n \in 1 .. h.pedidas
        /\ l.respuesta # Nada => IdsDe(l.respuesta.data) \subseteq IdsDe(tabla)
  BY DEF TiposHistorial, Conocidas, Contestados
<1>3. Hechos \subseteq {d.id : d \in desbloqueos} /\ Hechos \subseteq Fila /\ Hechos' \subseteq Hechos
  BY <1>1 DEF Hechos
<1>4. liberadas' \cup {d.id : d \in desbloqueos'} \cup ({h.objetivo} \ {Nada}) \cup IdsDe(h.filas)
        \subseteq IdsDe(tabla)
  <2>1. {d.id : d \in desbloqueos'} \subseteq {d.id : d \in desbloqueos}
    OBVIOUS
  <2> QED BY <1>3, <2>1 DEF Conocidas
<1>5. SinAbiertas(tabla, liberadas' \cup Hechos')
  BY <1>3 DEF Liberacion, SinAbiertas
<1> QED BY <1>1, <1>2, <1>3, <1>4, <1>5, ListarLibera

\* Every operation of a history keeps closed what was unblocked.
LEMMA PasoLibera == ASSUME IInvLiberadas, PasoHistorial \/ \E f \in Fila : Llegada(f) PROVE InvFilas'
<1> USE DEF IInvLiberadas
<1>0. TiposDeHist(hist) /\ detallando \subseteq Fila
      /\ desbloqueos \subseteq [id : Fila, hecho : BOOLEAN]
  BY DEF InvFilas, TiposHistorial
<1>o. hist.objetivo \in {Nada} \cup IdsDe(tabla) /\ IdsDe(hist.filas) \subseteq IdsDe(tabla)
  BY DEF InvFilas, Conocidas
<1>1. ASSUME NEW l \in listados, AtenderListado(l) \/ ListadoRespondido(l) PROVE InvFilas'
  BY <1>1, AtenderLibera, ListadoLibera
<1>2. ASSUME NEW f \in EstadoFila \cup {Nada}, filtrarHistorial(f) PROVE InvFilas'
  <2> DEFINE h == [hist EXCEPT !.filtro = f]
  <2>1. /\ Listar(clase, h, listados) /\ clase # Nada
        /\ UNCHANGED <<clase, tabla, detallando, desbloqueos, liberadas>>
    BY <1>2 DEF filtrarHistorial
  <2>2. TiposDeHist(h) /\ h.filas = hist.filas /\ h.pedidas = hist.pedidas /\ h.objetivo = hist.objetivo
    BY <1>0 DEF TiposDeHist, CamposDeHist
  <2> HIDE DEF h
  <2> QED BY <2>1, <2>2, PedirLibera
<1>3. ASSUME NEW p \in 1 .. hist.totalPages, goToPage(p) PROVE InvFilas'
  <2> DEFINE h == [hist EXCEPT !.page = p]
  <2>1. /\ Listar(clase, h, listados) /\ clase # Nada
        /\ UNCHANGED <<clase, tabla, detallando, desbloqueos, liberadas>>
    BY <1>3 DEF goToPage
  <2>2. p \in Nat \ {0}
    OBVIOUS
  <2>3. TiposDeHist(h) /\ h.filas = hist.filas /\ h.pedidas = hist.pedidas /\ h.objetivo = hist.objetivo
    BY <1>0, <2>2 DEF TiposDeHist, CamposDeHist
  <2> HIDE DEF h
  <2> QED BY <2>1, <2>3, PedirLibera
<1>4. ASSUME NEW f \in Fila, Llegada(f) PROVE InvFilas'
  BY <1>4, LlegadaLibera
<1>5. ASSUME NEW f \in Fila, toggleExpand(f) PROVE InvFilas'
  <2>1. /\ UNCHANGED <<clase, tabla, listados, desbloqueos, liberadas>>
        /\ detallando' \subseteq Fila
        /\ \E x, y \in {Nada, f, hist.expandedDetail} :
             hist' = [hist EXCEPT !.expandedId = x, !.expandedDetail = y]
    BY <1>0, <1>5 DEF toggleExpand
  <2>2. /\ TiposDeHist(hist') /\ hist'.filas = hist.filas /\ hist'.pedidas = hist.pedidas
        /\ hist'.aplicada = hist.aplicada /\ hist'.objetivo = hist.objetivo
    BY <1>0, <2>1 DEF TiposDeHist, CamposDeHist
  <2> QED BY <1>0, <1>o, <2>1, <2>2, SoloMarcasLibera
<1>6. ASSUME NEW f \in Fila, confirmarDesbloqueo(f) PROVE InvFilas'
  <2>1. /\ UNCHANGED <<clase, tabla, listados, detallando, desbloqueos, liberadas>>
        /\ hist' = [hist EXCEPT !.objetivo = f] /\ f \in IdsDe(hist.filas)
    BY <1>6 DEF confirmarDesbloqueo, Mostrada, IdsDe
  <2>2. /\ TiposDeHist(hist') /\ hist'.filas = hist.filas /\ hist'.pedidas = hist.pedidas
        /\ hist'.aplicada = hist.aplicada /\ hist'.objetivo = f
    BY <1>0, <2>1 DEF TiposDeHist, CamposDeHist
  <2> QED BY <1>0, <1>o, <2>1, <2>2, SoloMarcasLibera
<1>7. ASSUME NEW id \in detallando, DetalleRespondido(id) PROVE InvFilas'
  <2>1. /\ UNCHANGED <<clase, tabla, listados, desbloqueos, liberadas>>
        /\ detallando' \subseteq detallando /\ id \in Fila
        /\ \E x \in {id, hist.expandedDetail, Nada} : hist' = [hist EXCEPT !.expandedDetail = x]
    BY <1>0, <1>7 DEF DetalleRespondido
  <2>2. /\ TiposDeHist(hist') /\ hist'.filas = hist.filas /\ hist'.pedidas = hist.pedidas
        /\ hist'.aplicada = hist.aplicada /\ hist'.objetivo = hist.objetivo
    BY <1>0, <2>1 DEF TiposDeHist, CamposDeHist
  <2> QED BY <1>0, <1>o, <2>1, <2>2, SoloMarcasLibera
<1>8. CASE CancelarDesbloqueo
  <2>1. /\ UNCHANGED <<clase, tabla, listados, detallando, desbloqueos, liberadas>>
        /\ hist' = [hist EXCEPT !.objetivo = Nada]
    BY <1>8 DEF CancelarDesbloqueo
  <2>2. /\ TiposDeHist(hist') /\ hist'.filas = hist.filas /\ hist'.pedidas = hist.pedidas
        /\ hist'.aplicada = hist.aplicada /\ hist'.objetivo = Nada
    BY <1>0, <2>1 DEF TiposDeHist, CamposDeHist
  <2> QED BY <1>0, <2>1, <2>2, SoloMarcasLibera
<1>9. CASE doDesbloqueo
  <2> DEFINE x == hist.objetivo
             m == [id |-> x, hecho |-> FALSE]
  <2>1. /\ UNCHANGED <<clase, tabla, listados, detallando, liberadas>> /\ x # Nada
        /\ hist' = [hist EXCEPT !.objetivo = Nada, !.desbloqueandoId = x]
        /\ desbloqueos' = desbloqueos \cup {m}
    BY <1>9 DEF doDesbloqueo
  <2>2. /\ TiposDeHist(hist') /\ hist'.filas = hist.filas /\ hist'.pedidas = hist.pedidas
        /\ hist'.aplicada = hist.aplicada /\ hist'.objetivo = Nada
    BY <1>0, <2>1 DEF TiposDeHist, CamposDeHist
  <2>3. x \in Fila /\ x \in IdsDe(tabla)
    BY <1>0, <1>o, <2>1 DEF TiposDeHist
  <2>4. m \in [id : Fila, hecho : BOOLEAN] /\ m.id = x /\ ~m.hecho
    BY <2>3
  <2> HIDE DEF m, x
  <2>5. desbloqueos' \subseteq [id : Fila, hecho : BOOLEAN]
    BY <1>0, <2>1, <2>4
  <2>6. \A d \in desbloqueos' : d \in desbloqueos \/ (~d.hecho /\ d.id \in IdsDe(tabla))
    BY <2>1, <2>3, <2>4
  <2> QED BY <1>0, <2>1, <2>2, <2>5, <2>6, SoloMarcasLibera
<1>10. ASSUME NEW d \in desbloqueos, Desbloquear(d) PROVE InvFilas'
  BY <1>10, DesbloquearLibera
<1>11. ASSUME NEW d \in desbloqueos, DesbloqueoRespondido(d) PROVE InvFilas'
  <2> DEFINE h == [hist EXCEPT !.desbloqueandoId = Nada]
  <2>1. /\ TiposDeHist(h) /\ h.filas = hist.filas /\ h.pedidas = hist.pedidas
        /\ h.aplicada = hist.aplicada /\ h.objetivo = hist.objetivo
    BY <1>0 DEF TiposDeHist, CamposDeHist
  <2>2. /\ UNCHANGED <<clase, tabla, detallando>> /\ desbloqueos' = desbloqueos \ {d}
        /\ \/ d.hecho /\ Listar(clase, h, listados) /\ liberadas' = liberadas \cup {d.id}
           \/ hist' = h /\ UNCHANGED <<listados, liberadas>>
    BY <1>11 DEF DesbloqueoRespondido
  <2> HIDE DEF h
  <2>3. CASE d.hecho /\ Listar(clase, h, listados) /\ liberadas' = liberadas \cup {d.id}
    <3>1. d.id \in Hechos
      BY <2>3 DEF Hechos
    <3>2. clase # Nada
      BY DEF EnPagina
    <3> QED BY <2>1, <2>2, <2>3, <3>1, <3>2, PedirLibera
  <2>4. CASE hist' = h /\ UNCHANGED <<listados, liberadas>>
    BY <1>0, <1>o, <2>1, <2>2, <2>4, SoloMarcasLibera
  <2> QED BY <2>2, <2>3, <2>4
<1> QED
  BY <1>1, <1>2, <1>3, <1>4, <1>5, <1>6, <1>7, <1>8, <1>9, <1>10, <1>11 DEF PasoHistorial

\* A history that is not on the screen waits for nothing.
LEMMA PasoEnPagina == ASSUME IInvLiberadas, PasoHist PROVE EnPagina'
<1> USE DEF IInvLiberadas
<1>1. DOMAIN hist = CamposDeHist
  BY DEF InvFilas, TiposHistorial, TiposDeHist
<1>2. ASSUME NEW c \in Historiales PROVE c # Nada
  BY NadaNoEsRuta DEF Historiales, Privadas
<1>3. CASE UNCHANGED varsHistorial
  BY <1>3 DEF varsHistorial, EnPagina
<1>4. CASE DesmontarHistorial
  BY <1>4 DEF DesmontarHistorial, HistNuevo, EnPagina
<1>5. CASE \E c \in Historiales : MontarHistorial(c)
  BY <1>2, <1>5 DEF MontarHistorial, EnPagina
<1>6. CASE PasoHistorial \/ \E f \in Fila : Llegada(f)
  <2> SUFFICES ASSUME clase' = Nada PROVE listados' = {} /\ desbloqueos' = {} /\ hist'.objetivo = Nada
    BY DEF EnPagina
  <2>1. clase = Nada
    BY <1>6 DEF PasoHistorial, AtenderListado, ListadoRespondido, filtrarHistorial, goToPage,
                Llegada, toggleExpand, confirmarDesbloqueo, DetalleRespondido, CancelarDesbloqueo,
                doDesbloqueo, Desbloquear, DesbloqueoRespondido
  <2>2. listados = {} /\ desbloqueos = {} /\ hist.objetivo = Nada
    BY <2>1 DEF EnPagina
  <2>3. "alertas" # Nada /\ "bloqueos" # Nada
    BY <1>2 DEF Historiales
  <2>4. (\E f \in Fila : Llegada(f)) \/ \E id \in detallando : DetalleRespondido(id)
    BY <1>6, <2>1, <2>2, <2>3 DEF PasoHistorial, filtrarHistorial, goToPage, toggleExpand,
         confirmarDesbloqueo, CancelarDesbloqueo, doDesbloqueo
  <2> QED
    BY <1>1, <2>2, <2>4 DEF Llegada, CambiaTabla, DetalleRespondido, CamposDeHist
<1> QED BY <1>3, <1>4, <1>5, <1>6 DEF PasoHist

\* Every step keeps closed what was unblocked.
LEMMA InduccionLiberadas == IInvLiberadas /\ [Next]_varsWeb => IInvLiberadas'
<1> SUFFICES ASSUME IInvLiberadas, PasoHist PROVE IInvLiberadas'
  BY CasosHistorial
<1>1. CASE UNCHANGED varsHistorial
  <2>1. /\ TiposDeHist(hist') /\ detallando' \subseteq Fila
        /\ desbloqueos' \subseteq [id : Fila, hecho : BOOLEAN]
    BY <1>1 DEF varsHistorial, IInvLiberadas, InvFilas, TiposHistorial
  <2>2. hist'.objetivo \in {Nada} \cup IdsDe(tabla)
    BY <1>1 DEF varsHistorial, IInvLiberadas, InvFilas, Conocidas
  <2> QED
    BY <1>1, <2>1, <2>2, SoloMarcasLibera, PasoEnPagina DEF varsHistorial, IInvLiberadas
<1> QED
  BY <1>1, PasoEnPagina, MontarLibera, PasoLibera DEF PasoHist, IInvLiberadas

\* What was unblocked is closed, in the table and in what the newest request brings.
THEOREM InvarianteLiberadas == Spec => []IInvLiberadas
BY InicioLiberadas, InduccionLiberadas, PTL DEF Spec

\* No row still says BLOQUEADO after the page was told that it was unblocked, once the
\* newest list is the one applied, however late the older ones come.
THEOREM LiberadasCerradasSiempre == Spec => []LiberadasCerradas
<1>1. IInvLiberadas => LiberadasCerradas
  BY DEF IInvLiberadas, InvFilas, Liberacion, SinAbiertas, LiberadasCerradas
<1> QED BY InvarianteLiberadas, <1>1, PTL
------------------------------------------------------------------------------
(* No server twice *)

\* The window opens on a list with one of each, and nothing else.
LEMMA InicioSinRepetidos == InitAplicacion => SinRepetidos
<1> SUFFICES ASSUME InitServidores PROVE SinRepetidos
  BY DEF InitAplicacion
<1>1. PICK S \in SUBSET Servidor : servidores \in SetToSeqs(S)
  BY DEF InitServidores
<1>2. IsInjective(servidores)
  BY <1>1 DEF SetToSeqs, IsInjective
<1> QED BY <1>2 DEF InitServidores, SinRepetidos

\* Creations that were given up are of the same servers.
LEMMA AjenasSonLasMismas ==
  ASSUME TiposServidores, SinRepetidos, creaciones' = Ajenas(creaciones), servidores' = servidores
  PROVE  /\ \A c \in creaciones' : ~c.hecho => c.id \notin ToSet(servidores)
         /\ \A c, d \in creaciones' : c.id = d.id => c = d
<1>1. \A c \in creaciones' : \E e \in creaciones : c = [e EXCEPT !.propia = FALSE]
  BY DEF Ajenas
<1>2. \A c \in creaciones' : \E e \in creaciones :
        c = [e EXCEPT !.propia = FALSE] /\ c.id = e.id /\ c.hecho = e.hecho
  BY <1>1 DEF TiposServidores
<1>3. \A c \in creaciones' : ~c.hecho => c.id \notin ToSet(servidores)
  BY <1>2 DEF SinRepetidos
<1>4. ASSUME NEW c \in creaciones', NEW d \in creaciones', c.id = d.id PROVE c = d
  <2>1. PICK e \in creaciones : c = [e EXCEPT !.propia = FALSE] /\ c.id = e.id
    BY <1>2
  <2>2. PICK f \in creaciones : d = [f EXCEPT !.propia = FALSE] /\ d.id = f.id
    BY <1>2
  <2>3. e = f
    BY <1>4, <2>1, <2>2 DEF SinRepetidos
  <2> QED BY <2>1, <2>2, <2>3
<1> QED BY <1>3, <1>4

\* Opening and leaving the page, and its window.
LEMMA PaginaSinRepetidos ==
  ASSUME IInvServidores, SinRepetidos,
         MontarServidores \/ DesmontarServidores \/ AbrirVentana \/ onClose
  PROVE  SinRepetidos'
<1>0. TiposServidores
  BY DEF IInvServidores
<1>1. IsInjective(<<>>)
  BY DEF IsInjective
<1>2. SinLeer.filas = <<>>
  BY DEF SinLeer
<1>3. CASE MontarServidores
  BY <1>1, <1>2, <1>3 DEF MontarServidores, SinRepetidos
<1>4. CASE DesmontarServidores
  BY <1>0, <1>4, AjenasSonLasMismas DEF DesmontarServidores, SinRepetidos
<1>5. CASE AbrirVentana
  BY <1>5 DEF AbrirVentana, SinRepetidos
<1>6. CASE onClose
  <2>1. /\ \A c \in creaciones' : ~c.hecho => c.id \notin ToSet(servidores)
        /\ \A c, d \in creaciones' : c.id = d.id => c = d
        /\ servidores' = servidores
    BY <1>0, <1>6, AjenasSonLasMismas DEF onClose
  <2>2. consulta' = SinLeer \/ consulta' = consulta
    BY <1>6 DEF onClose
  <2>3. pagina' = pagina \/ pagina' = [pagina EXCEPT !.isLoading = TRUE]
    BY <1>6 DEF onClose
  <2>4. pagina # Nada /\ pagina \in Pagina
    BY <1>0, <1>6 DEF onClose, IInvServidores, DeLaVentana, TiposServidores
  <2>5. pagina'.vpsList = pagina.vpsList
    BY <2>3, <2>4 DEF Pagina
  <2> QED BY <1>1, <1>2, <2>1, <2>2, <2>4, <2>5 DEF SinRepetidos
<1> QED BY <1>3, <1>4, <1>5, <1>6

\* The requests: a new VPS is in no list before it is made, and is made once.
LEMMA PeticionSinRepetidos ==
  ASSUME TiposServidores, SinRepetidos,
         \/ AtenderConsulta \/ ConsultaRespondida
         \/ \E v \in Nuevos : onSubmit(v)
         \/ \E c \in creaciones : CrearServidor(c) \/ CreacionRespondida(c)
  PROVE  SinRepetidos'
<1>1. CASE AtenderConsulta
  BY <1>1 DEF AtenderConsulta, SinRepetidos
<1>2. CASE ConsultaRespondida
  <2>1. IsInjective(<<>>)
    BY DEF IsInjective
  <2>2. consulta # Nada /\ consulta' = Nada /\ UNCHANGED <<servidores, creaciones>>
        /\ pagina'.vpsList \in {consulta.filas, <<>>}
    BY <1>2 DEF ConsultaRespondida
  <2> QED BY <2>1, <2>2 DEF SinRepetidos
<1>3. ASSUME NEW v \in Nuevos, onSubmit(v) PROVE SinRepetidos'
  <2> DEFINE d == [id |-> v, hecho |-> FALSE, propia |-> TRUE]
  <2>1. /\ creaciones' = creaciones \cup {d} /\ UNCHANGED <<pagina, servidores, consulta>>
        /\ v \notin ToSet(servidores) /\ \A c \in creaciones : c.id # v
    BY <1>3 DEF onSubmit
  <2>2. d.id = v
    OBVIOUS
  <2> HIDE DEF d
  <2> QED BY <2>1, <2>2 DEF SinRepetidos
<1>4. ASSUME NEW c \in creaciones, CrearServidor(c) PROVE SinRepetidos'
  <2> DEFINE d == [c EXCEPT !.hecho = TRUE]
  <2>1. c \in [id : Servidor, hecho : BOOLEAN, propia : BOOLEAN] /\ d.id = c.id /\ d.hecho
    BY DEF TiposServidores
  <2>2. /\ ~c.hecho /\ servidores' = <<c.id>> \o servidores
        /\ creaciones' = (creaciones \ {c}) \cup {d} /\ UNCHANGED <<pagina, consulta>>
    BY <1>4 DEF CrearServidor, Hecha
  <2> HIDE DEF d
  <2>3. servidores \in Seq(Servidor) /\ c.id \in Servidor
    BY <2>1 DEF TiposServidores
  <2>4. c.id \notin ToSet(servidores) /\ IsInjective(servidores)
    BY <2>2 DEF SinRepetidos
  <2>5. IsInjective(servidores') /\ \A y : y \in ToSet(servidores') <=> y = c.id \/ y \in ToSet(servidores)
    BY <2>2, <2>3, <2>4, AlFrente
  <2>6. \A e \in creaciones \ {c} : e.id # c.id
    BY DEF SinRepetidos
  <2>7. \A e \in creaciones' : ~e.hecho => e.id \notin ToSet(servidores')
    BY <2>1, <2>2, <2>5, <2>6 DEF SinRepetidos
  <2>8. \A e, f \in creaciones' : e.id = f.id => e = f
    BY <2>1, <2>2, <2>6 DEF SinRepetidos
  <2> QED BY <2>2, <2>5, <2>7, <2>8 DEF SinRepetidos
<1>5. ASSUME NEW c \in creaciones, CreacionRespondida(c) PROVE SinRepetidos'
  BY <1>5 DEF CreacionRespondida, SinRepetidos
<1> QED BY <1>1, <1>2, <1>3, <1>4, <1>5

\* A list from which a VPS was removed has one of each of those that stay.
LEMMA RemovidoSinRepetidos ==
  ASSUME TiposServidores, SinRepetidos, Eliminar
  PROVE  SinRepetidos'
<1>1. /\ UNCHANGED <<pagina, consulta, creaciones>> /\ IsInjective(servidores')
      /\ ToSet(servidores') \subseteq ToSet(servidores)
  BY FiltroConserva DEF Eliminar, TiposServidores, SinRepetidos
<1> QED BY <1>1 DEF SinRepetidos

\* Every step keeps one of each.
LEMMA InduccionSinRepetidos == IInvServidores /\ SinRepetidos /\ [Next]_varsWeb => SinRepetidos'
<1> SUFFICES ASSUME IInvServidores, SinRepetidos, [Next]_varsWeb PROVE SinRepetidos'
  OBVIOUS
<1>1. TiposServidores
  BY DEF IInvServidores
<1>2. ASSUME UNCHANGED varsServidores PROVE SinRepetidos'
  BY <1>2 DEF varsServidores, SinRepetidos
<1>3. ASSUME PasoServidores PROVE SinRepetidos'
  BY <1>1, <1>3, PaginaSinRepetidos, PeticionSinRepetidos DEF PasoServidores
<1> QED
  BY <1>1, <1>2, <1>3, CasosServidores, PaginaSinRepetidos, RemovidoSinRepetidos DEF PasoServ

\* vps-list and create-vps-modal: no list shows a server twice, though creations go on
\* after their window was closed and lists are read while they do.
THEOREM NingunServidorDosVeces == Spec => []SinRepetidos
BY InicioSinRepetidos, InduccionSinRepetidos, InvarianteServidores, PTL DEF Spec
------------------------------------------------------------------------------
(* The buttons of the panel *)

\* A new card is not in the list yet.
LEMMA CopiaNueva ==
  ASSUME lista \in Seq(Tarjeta), NEW a \in Alerta, CabeOtra(a) \/ ~EnLista(a)
  PROVE  <<a, Copia(a)>> \in Tarjeta /\ <<a, Copia(a)>> \notin ToSet(lista)
<1> DEFINE Libre(n) == \A i \in DOMAIN lista : lista[i] # <<a, n>>
           S == {n \in 1 .. Copias + 1 : Libre(n)}
<1>1. Copias \in Nat \ {0}
  BY PanelConstantes
<1>2. \A i \in DOMAIN lista : lista[i] \in Tarjeta
  OBVIOUS
<1>3. Copias + 1 \in S
  <2>1. <<a, Copias + 1>> \notin Tarjeta
    BY <1>1 DEF Tarjeta
  <2>2. Libre(Copias + 1)
    BY <1>2, <2>1
  <2> QED BY <1>1, <2>2
<1>4. PICK n \in S : \A m \in S : n <= m
  <2>1. S \subseteq Nat /\ S # {}
    BY <1>3
  <2> QED BY <2>1, ElMenor
<1>5. \A m \in 1 .. n - 1 : \E i \in DOMAIN lista : lista[i] = <<a, m>>
  <2> SUFFICES ASSUME NEW m \in 1 .. n - 1 PROVE ~Libre(m)
    OBVIOUS
  <2>1. m \in 1 .. Copias + 1 /\ ~(n <= m)
    BY <1>1
  <2>2. m \notin S
    BY <1>4, <2>1
  <2> QED BY <2>1, <2>2
<1>6. n \in 1 .. Copias + 1 /\ Libre(n)
  OBVIOUS
<1> HIDE DEF S
<1>7. /\ Copia(a) \in 1 .. Copias + 1
      /\ \A i \in DOMAIN lista : lista[i] # <<a, Copia(a)>>
      /\ \A m \in 1 .. Copia(a) - 1 : \E i \in DOMAIN lista : lista[i] = <<a, m>>
  BY <1>5, <1>6 DEF Copia
<1>8. Copia(a) \in 1 .. Copias
  <2>1. CASE CabeOtra(a)
    BY <1>1, <1>7, <2>1 DEF CabeOtra
  <2>2. CASE ~EnLista(a)
    <3>1. \A m \in 1 .. Copia(a) - 1 : FALSE
      BY <1>7, <2>2 DEF EnLista
    <3>2. 1 \notin 1 .. Copia(a) - 1
      BY <3>1
    <3> QED BY <1>1, <1>7, <3>2
  <2> QED BY <2>1, <2>2
<1> QED BY <1>7, <1>8 DEF Tarjeta, ToSet

\* The first card of an alert comes before its others.
LEMMA LaPrimera ==
  ASSUME lista \in Seq(Tarjeta), NEW a, EnLista(a)
  PROVE  /\ Encontrada(a) \in Tarjeta /\ Encontrada(a) \in ToSet(lista) /\ Encontrada(a)[1] = a
         /\ \A t \in ToSet(lista) :
              t[1] = a /\ t # Encontrada(a) => Precede(lista, Encontrada(a), t)
         /\ IsInjective(lista) =>
              \A u : u[1] = a => ~Precede(lista, u, Encontrada(a))
<1> DEFINE S == {i \in DOMAIN lista : lista[i][1] = a}
<1>1. DOMAIN lista = 1 .. Len(lista) /\ Len(lista) \in Nat /\ \A i \in DOMAIN lista : lista[i] \in Tarjeta
  OBVIOUS
<1>2. PICK n \in S : \A m \in S : n <= m
  <2>1. S \subseteq Nat /\ S # {}
    BY <1>1 DEF EnLista
  <2> QED BY <2>1, ElMenor
<1>3. \A j \in 1 .. n - 1 : lista[j][1] # a
  <2> SUFFICES ASSUME NEW j \in 1 .. n - 1, lista[j][1] = a PROVE FALSE
    OBVIOUS
  <2>1. n \in DOMAIN lista /\ j \in DOMAIN lista /\ ~(n <= j)
    BY <1>1
  <2> QED BY <1>2, <2>1
<1> DEFINE k == CHOOSE i \in DOMAIN lista : lista[i][1] = a /\ \A j \in 1 .. i - 1 : lista[j][1] # a
<1>4. k \in DOMAIN lista /\ lista[k][1] = a /\ \A j \in 1 .. k - 1 : lista[j][1] # a
  BY <1>3
<1>5. Encontrada(a) = lista[k]
  BY DEF Encontrada
<1> HIDE DEF k, S
<1>6. Encontrada(a) \in Tarjeta /\ Encontrada(a) \in ToSet(lista) /\ Encontrada(a)[1] = a
  BY <1>1, <1>4, <1>5 DEF ToSet
<1>7. ASSUME NEW t \in ToSet(lista), t[1] = a, t # Encontrada(a)
      PROVE  Precede(lista, Encontrada(a), t)
  <2>1. PICK j \in DOMAIN lista : lista[j] = t
    BY DEF ToSet
  <2>2. j # k /\ ~(j \in 1 .. k - 1)
    BY <1>4, <1>5, <1>7, <2>1
  <2>3. k < j
    BY <1>1, <1>4, <2>2
  <2> QED BY <1>4, <1>5, <2>1, <2>3 DEF Precede
<1>8. ASSUME IsInjective(lista), NEW u, u[1] = a, Precede(lista, u, Encontrada(a)) PROVE FALSE
  <2>1. PICK i \in DOMAIN lista, j \in DOMAIN lista : i < j /\ lista[i] = u /\ lista[j] = lista[k]
    BY <1>5, <1>8 DEF Precede
  <2>2. j = k
    BY <1>4, <1>8, <2>1 DEF IsInjective
  <2>3. i \in 1 .. k - 1
    BY <1>1, <1>4, <2>1, <2>2
  <2> QED BY <1>4, <1>8, <2>1, <2>3
<1> QED BY <1>6, <1>7, <1>8

\* What the server answers is a list with one of each.
LEMMA FotoDeAlertas ==
  ASSUME NEW S \in SUBSET Alerta
  PROVE  SetToSeq(S) \in Seq(Alerta) /\ IsInjective(SetToSeq(S))
<1>1. IsFiniteSet(S)
  BY PanelConstantes, FS_Subset
<1>2. Cardinality(S) \in Nat /\ ExistsBijection(1 .. Cardinality(S), S)
  BY <1>1, FS_CardinalityType
<1>3. \E f \in [1 .. Cardinality(S) -> S] : IsInjective(f)
  BY <1>2 DEF ExistsBijection, Bijection, Injection
<1>4. SetToSeq(S) \in [1 .. Cardinality(S) -> S] /\ IsInjective(SetToSeq(S))
  BY <1>3 DEF SetToSeq
<1>5. SetToSeq(S) \in [1 .. Cardinality(S) -> Alerta]
  BY <1>4
<1> QED BY <1>2, <1>4, <1>5

\* The cards of a loaded list: one of each alert, the first that was there.
LEMMA CardsDeUnaLista ==
  ASSUME lista \in Seq(Tarjeta), NEW s \in Seq(Alerta), IsInjective(s)
  PROVE  /\ TarjetasDe(s) \in Seq(Tarjeta) /\ IsInjective(TarjetasDe(s))
         /\ \A t \in ToSet(TarjetasDe(s)) : EnLista(t[1]) => t = Encontrada(t[1])
<1> DEFINE q == TarjetasDe(s)
<1>1. DOMAIN s = 1 .. Len(s) /\ Len(s) \in Nat /\ \A i \in DOMAIN s : s[i] \in Alerta
  OBVIOUS
<1>2. DOMAIN q = DOMAIN s
  BY DEF TarjetasDe
<1>3. \A i \in DOMAIN s : /\ q[i] \in Tarjeta /\ q[i][1] = s[i]
                          /\ EnLista(s[i]) => q[i] = Encontrada(s[i])
  <2> SUFFICES ASSUME NEW i \in DOMAIN s
               PROVE  /\ q[i] \in Tarjeta /\ q[i][1] = s[i]
                      /\ EnLista(s[i]) => q[i] = Encontrada(s[i])
    OBVIOUS
  <2>1. q[i] = IF EnLista(s[i]) THEN Encontrada(s[i]) ELSE <<s[i], 1>>
    BY DEF TarjetasDe
  <2>2. CASE EnLista(s[i])
    BY <2>1, <2>2, LaPrimera
  <2>3. CASE ~EnLista(s[i])
    BY <1>1, <2>1, <2>3, PanelConstantes DEF Tarjeta
  <2> QED BY <2>2, <2>3
<1>4. q = [i \in 1 .. Len(s) |-> q[i]]
  BY <1>1 DEF TarjetasDe
<1> HIDE DEF q
<1>5. q \in Seq(Tarjeta)
  <2>1. q \in [1 .. Len(s) -> Tarjeta]
    BY <1>1, <1>3, <1>4
  <2> QED BY <1>1, <2>1
<1>6. IsInjective(q)
  BY <1>2, <1>3 DEF IsInjective
<1>7. \A t \in ToSet(q) : EnLista(t[1]) => t = Encontrada(t[1])
  BY <1>2, <1>3 DEF ToSet
<1> QED BY <1>5, <1>6, <1>7 DEF q

\* A request keeps its card unless that goes.
LEMMA SoltarYAbandonar ==
  ASSUME NEW P \in SUBSET Pedido, NEW Q
  PROVE  /\ Soltar(P, Q) \subseteq Pedido /\ Abandonar(P) \subseteq Pedido
         /\ \A p \in P : p.tarjeta \in Q => p \in Soltar(P, Q)
<1>1. Soltar(P, Q) \subseteq Pedido
  BY DEF Soltar, Pedido
<1>2. Abandonar(P) \subseteq Pedido
  BY DEF Abandonar, Pedido
<1>3. ASSUME NEW p \in P, p.tarjeta \in Q PROVE p \in Soltar(P, Q)
  <2>1. p \in Pedido
    OBVIOUS
  <2>2. [p EXCEPT !.tarjeta = p.tarjeta] = p
    BY <2>1 DEF Pedido
  <2>3. [p EXCEPT !.tarjeta = IF p.tarjeta \in Q THEN p.tarjeta ELSE Nada] = p
    BY <1>3, <2>2
  <2> QED BY <2>3 DEF Soltar
<1> QED BY <1>1, <1>2, <1>3

\* The panel does not exist when the window opens.
LEMMA InicioPanel == InitAplicacion => IInvPanel
<1> SUFFICES ASSUME InitPanel PROVE IInvPanel
  BY DEF InitAplicacion
<1>1. TypeOKPanel
  <2>1. lista \in Seq(Tarjeta) /\ foto \in Seq(Alerta) /\ IsInjective(lista) /\ IsInjective(foto)
    BY DEF InitPanel, IsInjective
  <2>2. enriqueciendo \in [Alerta -> 0 .. Copias]
    BY PanelConstantes DEF InitPanel
  <2>3. carga \in [mapa : Paso, alertas : Paso]
    BY DEF InitPanel, SinCarga, Paso
  <2> QED BY <2>1, <2>2, <2>3 DEF InitPanel, TypeOKPanel
<1>2. IsInjective(foto)
  BY DEF InitPanel, IsInjective
<1>3. \A t \in Tarjeta : bloqueo[t] # "loading"
  BY DEF InitPanel
<1> QED BY <1>1, <1>2, <1>3 DEF IInvPanel

\* With the same cards and no request less, what was awaited is.
LEMMA MismasTarjetas ==
  ASSUME IInvPanel, TypeOKPanel', IsInjective(foto'), UNCHANGED <<lista, oculta, bloqueo>>,
         pedidos \subseteq pedidos'
  PROVE  IInvPanel'
BY DEF IInvPanel, Esperada

\* No card waits when there is none.
LEMMA SinTarjetas ==
  ASSUME TypeOKPanel', IsInjective(foto'), Destruir({})
  PROVE  IInvPanel'
<1>1. \A t \in Tarjeta : bloqueo'[t] # "loading"
  BY DEF Destruir
<1> QED BY <1>1 DEF IInvPanel

\* What is destroyed is at rest.
LEMMA DestruirTipos ==
  ASSUME TypeOKPanel, NEW Q, Destruir(Q)
  PROVE  /\ bloqueo' \in [Tarjeta -> {"idle", "loading", "bloqueada", "fallido"}]
         /\ falso' \in [Tarjeta -> {"idle", "loading"}]
         /\ \A t \in Tarjeta : bloqueo'[t] = "loading" => t \in Q /\ bloqueo[t] = "loading"
BY DEF TypeOKPanel, Destruir

\* The panel is entered and left.
LEMMA EntrarYSalirDelPanel ==
  ASSUME IInvPanel, Montar \/ Desmontar
  PROVE  IInvPanel'
<1>0. TypeOKPanel
  BY DEF IInvPanel
<1>1. CASE Montar
  <2>1. carga' \in [mapa : Paso, alertas : Paso]
    BY <1>1 DEF Montar, Paso
  <2>2. TypeOKPanel' /\ IsInjective(foto') /\ UNCHANGED <<lista, oculta, bloqueo>> /\ pedidos' = pedidos
    BY <1>0, <1>1, <2>1 DEF IInvPanel, TypeOKPanel, Montar, varsTarjetas
  <2> QED BY <2>2, MismasTarjetas
<1>2. CASE Desmontar
  <2>1. /\ montado' = FALSE /\ lista' = <<>> /\ oculta' = {} /\ foto' = <<>> /\ carga' = SinCarga
        /\ efecto' = FALSE /\ enriqueciendo' = [a \in Alerta |-> 0] /\ perdidas' = {}
        /\ Destruir({}) /\ pedidos' = Abandonar(pedidos) /\ UNCHANGED <<mapa, descartadas>>
        /\ huerfana' = (huerfana \/ carga.mapa = "pedido" \/ \E a \in Alerta : enriqueciendo[a] > 0)
    BY <1>2 DEF Desmontar
  <2>2. IsInjective(<<>>) /\ <<>> \in Seq(Tarjeta) /\ <<>> \in Seq(Alerta)
    BY DEF IsInjective
  <2>3. carga' \in [mapa : Paso, alertas : Paso]
    BY <2>1 DEF SinCarga, Paso
  <2>4. enriqueciendo' \in [Alerta -> 0 .. Copias]
    BY <2>1, PanelConstantes
  <2>5. pedidos' \subseteq Pedido
    BY <1>0, <2>1, SoltarYAbandonar DEF TypeOKPanel
  <2>6. huerfana' \in BOOLEAN
    BY <1>0, <2>1 DEF TypeOKPanel
  <2>7. TypeOKPanel'
    BY <1>0, <2>1, <2>2, <2>3, <2>4, <2>5, <2>6, DestruirTipos DEF TypeOKPanel
  <2> QED BY <2>1, <2>2, <2>7, SinTarjetas
<1> QED BY <1>1, <1>2

\* The list and the map are being loaded.
LEMMA CargaEnCurso ==
  ASSUME IInvPanel, TypeOKCanal, MapaHuerfano \/ AtenderLista
  PROVE  IInvPanel'
<1>0. TypeOKPanel
  BY DEF IInvPanel
<1>1. CASE MapaHuerfano
  <2>1. TypeOKPanel' /\ IsInjective(foto') /\ UNCHANGED <<lista, oculta, bloqueo>> /\ pedidos' = pedidos
    BY <1>0, <1>1 DEF IInvPanel, TypeOKPanel, MapaHuerfano, varsTarjetas
  <2> QED BY <2>1, MismasTarjetas
<1>2. CASE AtenderLista
  <2>1. foto' \in Seq(Alerta) /\ IsInjective(foto')
    <3>1. emitidas \ descartadas \in SUBSET Alerta
      BY DEF TypeOKCanal
    <3> QED BY <1>2, <3>1, FotoDeAlertas DEF AtenderLista
  <2>2. carga' \in [mapa : Paso, alertas : Paso]
    BY <1>0, <1>2 DEF AtenderLista, TypeOKPanel, Paso
  <2>3. TypeOKPanel' /\ UNCHANGED <<lista, oculta, bloqueo>> /\ pedidos' = pedidos
    BY <1>0, <1>2, <2>1, <2>2 DEF TypeOKPanel, AtenderLista, varsTarjetas
  <2> QED BY <2>1, <2>3, MismasTarjetas
<1> QED BY <1>1, <1>2

\* The last answer of a load puts the list: a card that stays was the first of its alert, so
\* that what it waits for is its own request.
LEMMA ListaPuesta ==
  ASSUME IInvPanel, mapa' \in BOOLEAN, NEW c \in [mapa : Paso, alertas : Paso], Cargar(c)
  PROVE  IInvPanel'
<1>0. TypeOKPanel
  BY DEF IInvPanel
<1>1. /\ UNCHANGED <<montado, oculta, huerfana, enriqueciendo, perdidas, descartadas>>
      /\ carga' \in {SinCarga, c}
  BY DEF Cargar
<1>2. carga' \in [mapa : Paso, alertas : Paso]
  BY <1>1 DEF SinCarga, Paso
<1>3. CASE c.mapa = "listo" /\ c.alertas = "listo"
  <2> DEFINE nueva == TarjetasDe(foto)
  <2>1. /\ lista' = nueva /\ efecto' = TRUE /\ Destruir(ToSet(nueva))
        /\ pedidos' = Soltar(pedidos, ToSet(nueva)) /\ foto' = <<>>
    BY <1>3 DEF Cargar, ponerLista
  <2>2. /\ lista \in Seq(Tarjeta) /\ foto \in Seq(Alerta) /\ IsInjective(lista) /\ IsInjective(foto)
        /\ pedidos \subseteq Pedido
    BY <1>0 DEF IInvPanel, TypeOKPanel
  <2>3. /\ nueva \in Seq(Tarjeta) /\ IsInjective(nueva)
        /\ \A t \in ToSet(nueva) : EnLista(t[1]) => t = Encontrada(t[1])
    BY <2>2, CardsDeUnaLista
  <2> HIDE DEF nueva
  <2>4. foto' \in Seq(Alerta) /\ IsInjective(foto')
    BY <2>1 DEF IsInjective
  <2>5. TypeOKPanel'
    <3>1. /\ bloqueo' \in [Tarjeta -> {"idle", "loading", "bloqueada", "fallido"}]
          /\ falso' \in [Tarjeta -> {"idle", "loading"}]
      BY <1>0, <2>1, DestruirTipos
    <3>2. pedidos' \subseteq Pedido
      BY <2>1, <2>2, SoltarYAbandonar
    <3> QED BY <1>0, <1>1, <1>2, <2>1, <2>3, <2>4, <3>1, <3>2 DEF TypeOKPanel
  <2>6. ASSUME NEW t \in Tarjeta, bloqueo'[t] = "loading" PROVE Esperada(t)'
    <3>1. t \in ToSet(nueva) /\ bloqueo[t] = "loading"
      BY <1>0, <2>1, <2>6, DestruirTipos
    <3>2. Esperada(t)
      BY <3>1 DEF IInvPanel
    <3>3. EnLista(t[1])
      BY <3>2 DEF Esperada, ToSet, EnLista
    <3>4. ~ \E u \in Tarjeta \ {t} : u[1] = t[1] /\ Precede(lista, u, t)
      BY <2>2, <2>3, <3>1, <3>3, LaPrimera
    <3>5. PICK p \in pedidos : p.clase = "bloquear" /\ p.tarjeta = t
      BY <3>2, <3>4 DEF Esperada
    <3>6. p \in pedidos'
      BY <2>1, <2>2, <3>1, <3>5, SoltarYAbandonar
    <3> QED BY <1>1, <2>1, <3>1, <3>2, <3>5, <3>6 DEF Esperada
  <2> QED BY <2>4, <2>5, <2>6 DEF IInvPanel
<1>4. CASE ~(c.mapa = "listo" /\ c.alertas = "listo")
  <2>1. UNCHANGED <<lista, efecto, foto, bloqueo, falso, pedidos>>
    BY <1>4 DEF Cargar
  <2>2. TypeOKPanel' /\ IsInjective(foto')
    BY <1>0, <1>1, <1>2, <2>1 DEF IInvPanel, TypeOKPanel
  <2> QED BY <1>1, <2>1, <2>2, MismasTarjetas
<1> QED BY <1>3, <1>4

\* A load that fails empties the list.
LEMMA ListaVaciada ==
  ASSUME IInvPanel, mapa' \in BOOLEAN, huerfana' \in BOOLEAN, CargaFallida
  PROVE  IInvPanel'
<1>0. TypeOKPanel
  BY DEF IInvPanel
<1>1. /\ carga' = SinCarga /\ lista' = <<>> /\ efecto' = TRUE /\ Destruir({})
      /\ pedidos' = Soltar(pedidos, {}) /\ foto' = <<>>
      /\ UNCHANGED <<montado, oculta, enriqueciendo, perdidas, descartadas>>
  BY DEF CargaFallida, ponerLista
<1>2. IsInjective(<<>>) /\ <<>> \in Seq(Tarjeta) /\ <<>> \in Seq(Alerta)
  BY DEF IsInjective
<1>3. carga' \in [mapa : Paso, alertas : Paso]
  BY <1>1 DEF SinCarga, Paso
<1>4. pedidos' \subseteq Pedido
  BY <1>0, <1>1, SoltarYAbandonar DEF TypeOKPanel
<1>5. TypeOKPanel'
  BY <1>0, <1>1, <1>2, <1>3, <1>4, DestruirTipos DEF TypeOKPanel
<1> QED BY <1>1, <1>2, <1>5, SinTarjetas

\* The answers of a load.
LEMMA RespuestasDeCarga ==
  ASSUME IInvPanel, ListaRecibida \/ MapaRecibido
  PROVE  IInvPanel'
<1>0. carga \in [mapa : Paso, alertas : Paso] /\ mapa \in BOOLEAN /\ huerfana \in BOOLEAN
  BY DEF IInvPanel, TypeOKPanel
<1>1. CASE ListaRecibida
  <2>1. CASE Cargar([carga EXCEPT !.alertas = "listo"]) /\ UNCHANGED mapa
    <3>1. [carga EXCEPT !.alertas = "listo"] \in [mapa : Paso, alertas : Paso]
      BY <1>0 DEF Paso
    <3> QED BY <1>0, <2>1, <3>1, ListaPuesta
  <2>2. CASE CargaFallida /\ huerfana' = (huerfana \/ carga.mapa = "pedido") /\ UNCHANGED mapa
    BY <1>0, <2>2, ListaVaciada
  <2> QED BY <1>1, <2>1, <2>2 DEF ListaRecibida
<1>2. CASE MapaRecibido
  <2>1. CASE Cargar([carga EXCEPT !.mapa = "listo"]) /\ mapa' = TRUE
    <3>1. [carga EXCEPT !.mapa = "listo"] \in [mapa : Paso, alertas : Paso]
      BY <1>0 DEF Paso
    <3> QED BY <2>1, <3>1, ListaPuesta
  <2>2. CASE CargaFallida /\ UNCHANGED <<mapa, huerfana>>
    BY <1>0, <2>2, ListaVaciada
  <2> QED BY <1>2, <2>1, <2>2 DEF MapaRecibido
<1> QED BY <1>1, <1>2

\* There is a greatest one of any numbers up to n.
LEMMA ElMayor ==
  ASSUME NEW n \in Nat, NEW S, S \subseteq 1 .. n, S # {}
  PROVE  \E x \in S : \A y \in S : y <= x
<1> DEFINE T == {m \in Nat : \A y \in S : y <= m}
<1>1. n \in T
  OBVIOUS
<1>2. PICK x \in T : \A m \in T : x <= m
  BY <1>1, ElMenor
<1>3. x \in S
  <2> SUFFICES ASSUME x \notin S PROVE FALSE
    OBVIOUS
  <2>1. \A y \in S : y <= x - 1
    BY <1>2
  <2>2. PICK y : y \in S /\ y \in 1 .. n
    BY Zenon
  <2>3. x - 1 \in T
    BY <1>2, <2>1, <2>2
  <2> QED BY <1>2, <2>3
<1> QED BY <1>2, <1>3

\* The later places of the cards of an alert.
Detras(con, a, i) == {j \in DOMAIN con : j > i /\ con[j][1] = a}

\* A list of cards in which the first card of the alert goes behind the others of it.
Movida(con, a) ==
  [i \in DOMAIN con |->
     CASE con[i][1] # a -> con[i]
       [] con[i][1] = a /\ Detras(con, a, i) # {} -> con[Min(Detras(con, a, i))]
       [] OTHER -> con[1]]

\* The cards of an alert, with one of them moved behind the others: no card is lost, and one
\* that had another of its alert before it, not the one that moves, has one still.
LEMMA UnaDetras ==
  ASSUME NEW con \in Seq(Tarjeta), IsInjective(con), con # <<>>, NEW a, con[1][1] = a,
         NEW l, l = Movida(con, a)
  PROVE  /\ l \in Seq(Tarjeta) /\ IsInjective(l)
         /\ \A t \in ToSet(con) : t \in ToSet(l)
         /\ \A u, t : Precede(con, u, t) /\ u[1] = t[1] /\ u # con[1]
              => \E v \in Tarjeta \ {t} : v[1] = t[1] /\ Precede(l, v, t)
<1> DEFINE D == DOMAIN con
<1>0. \A i, j : j \in Detras(con, a, i) <=> j \in D /\ j > i /\ con[j][1] = a
  BY DEF Detras
<1>1. D = 1 .. Len(con) /\ Len(con) \in Nat /\ 1 \in D /\ \A i \in D : con[i] \in Tarjeta
  OBVIOUS
<1>2. \A i, j \in D : con[i] = con[j] => i = j
  BY DEF IsInjective
<1>3. \A i \in D : Detras(con, a, i) # {} =>
        Min(Detras(con, a, i)) \in Detras(con, a, i) /\ \A j \in Detras(con, a, i) : Min(Detras(con, a, i)) <= j
  <2> SUFFICES ASSUME NEW i \in D, Detras(con, a, i) # {}
               PROVE  Min(Detras(con, a, i)) \in Detras(con, a, i) /\ \A j \in Detras(con, a, i) : Min(Detras(con, a, i)) <= j
    OBVIOUS
  <2>1. Detras(con, a, i) \subseteq Nat
    BY <1>0, <1>1
  <2> QED BY <2>1, ElMenor DEF Min
\* Where card i of l was.
<1> DEFINE De(i) == IF con[i][1] # a THEN i ELSE IF Detras(con, a, i) # {} THEN Min(Detras(con, a, i)) ELSE 1
<1>4. \A i \in D : De(i) \in D /\ l[i] = con[De(i)] /\ (con[i][1] = a <=> con[De(i)][1] = a)
  BY <1>0, <1>1, <1>3 DEF Movida
<1>5. \A i \in D : con[i][1] = a =>
        \/ Detras(con, a, i) = {} /\ De(i) = 1
        \/ De(i) \in Detras(con, a, i) /\ \A j \in Detras(con, a, i) : De(i) <= j
  BY <1>3
<1>6. \A i \in D : con[i][1] # a => De(i) = i
  OBVIOUS
<1>7. DOMAIN l = D
  BY DEF Movida
<1> HIDE DEF De
<1>8. l \in Seq(Tarjeta)
  <2>1. l \in [1 .. Len(con) -> Tarjeta]
    BY <1>1, <1>4, <1>7 DEF Movida
  <2> QED BY <1>1, <2>1
<1>9. IsInjective(l)
  <2> SUFFICES ASSUME NEW i \in D, NEW j \in D, l[i] = l[j], i < j PROVE FALSE
    BY <1>1, <1>7 DEF IsInjective
  <2>1. De(i) = De(j)
    BY <1>2, <1>4
  <2>2. con[i][1] = a /\ con[j][1] = a
    BY <1>4, <1>6, <2>1
  <2>3. j \in Detras(con, a, i)
    BY <1>0, <2>2
  <2>4. De(i) <= j /\ De(i) > 1
    BY <1>0, <1>1, <1>5, <2>2, <2>3
  <2>5. De(j) > j
    BY <1>0, <1>1, <1>5, <2>1, <2>2, <2>4
  <2> QED BY <1>1, <1>4, <2>1, <2>4, <2>5
\* Card j, not the one that moves, is now where the card of its alert before it was.
<1>10. ASSUME NEW j \in D, con[j][1] = a, j # 1
       PROVE  \E k \in D : /\ k < j /\ l[k] = con[j]
                           /\ \A i \in D : i < j /\ con[i][1] = a => i <= k
  <2> DEFINE S == {i \in D : i < j /\ con[i][1] = a}
  <2>1. S \subseteq 1 .. Len(con) /\ 1 \in S
    BY <1>1, <1>10
  <2>2. PICK k \in S : \A i \in S : i <= k
    BY <1>1, <2>1, ElMayor
  <2>3. j \in Detras(con, a, k) /\ \A i \in Detras(con, a, k) : j <= i
    BY <1>0, <1>1, <1>10, <2>2
  <2>4. De(k) = j
    BY <1>1, <1>4, <1>5, <2>2, <2>3
  <2> QED BY <1>4, <2>2, <2>4
<1>11. ASSUME NEW t \in ToSet(con) PROVE t \in ToSet(l)
  <2>1. PICK j \in D : con[j] = t
    BY DEF ToSet
  <2>2. CASE t[1] # a
    BY <1>4, <1>6, <1>7, <2>1, <2>2 DEF ToSet
  <2>3. CASE t[1] = a /\ j # 1
    BY <1>7, <1>10, <2>1, <2>3 DEF ToSet
  <2>4. CASE j = 1
    <3> DEFINE S == {i \in D : con[i][1] = a}
    <3>1. S \subseteq 1 .. Len(con) /\ 1 \in S
      BY <1>1
    <3>2. PICK k \in S : \A i \in S : i <= k
      BY <1>1, <3>1, ElMayor
    <3>3. Detras(con, a, k) = {}
      BY <1>0, <1>1, <3>2
    <3> QED BY <1>4, <1>5, <1>7, <2>1, <2>4, <3>2, <3>3 DEF ToSet
  <2> QED BY <2>2, <2>3, <2>4
<1>12. ASSUME NEW u, NEW t, Precede(con, u, t), u[1] = t[1], u # con[1]
       PROVE  \E v \in Tarjeta \ {t} : v[1] = t[1] /\ Precede(l, v, t)
  <2>1. PICK i \in D, j \in D : i < j /\ con[i] = u /\ con[j] = t
    BY <1>12 DEF Precede
  <2>2. CASE t[1] # a
    <3>1. l[i] = u /\ l[j] = t /\ u \in Tarjeta /\ u # t
      BY <1>1, <1>2, <1>4, <1>6, <1>12, <2>1, <2>2
    <3> QED BY <1>7, <1>12, <2>1, <3>1 DEF Precede
  <2>3. CASE t[1] = a
    <3>1. i > 1 /\ j # 1 /\ con[i][1] = a /\ con[j][1] = a
      BY <1>1, <1>12, <2>1, <2>3
    <3>2. PICK k \in D : k < j /\ l[k] = t /\ i <= k
      BY <1>10, <2>1, <3>1
    <3>3. i \in Detras(con, a, 1)
      BY <1>0, <3>1
    <3>4. De(1) \in D /\ De(1) <= i /\ l[1] = con[De(1)] /\ con[De(1)][1] = a
      BY <1>1, <1>4, <1>5, <3>3
    <3>5. con[De(1)] # t
      BY <1>1, <1>2, <2>1, <3>4
    <3>6. 1 < k /\ Precede(l, con[De(1)], t)
      BY <1>1, <1>7, <3>1, <3>2, <3>4 DEF Precede
    <3> QED BY <1>1, <2>3, <3>4, <3>5, <3>6
  <2> QED BY <2>2, <2>3
<1> QED BY <1>8, <1>9, <1>11, <1>12

\* A card that is added leaves the others, and in their order.
LEMMA AnteponerConserva ==
  ASSUME IInvPanel, NEW a \in Alerta, CabeOtra(a) \/ ~EnLista(a), Anteponer(a),
         UNCHANGED <<oculta, bloqueo, pedidos>>
  PROVE  /\ lista' \in Seq(Tarjeta) /\ IsInjective(lista') /\ efecto' = TRUE
         /\ \A t \in Tarjeta : bloqueo'[t] = "loading" => Esperada(t)'
<1>0. lista \in Seq(Tarjeta) /\ IsInjective(lista)
  BY DEF IInvPanel, TypeOKPanel
<1> DEFINE x == <<a, Copia(a)>>
           con == <<x>> \o lista
<1>1. x \in Tarjeta /\ x \notin ToSet(lista)
  BY <1>0, CopiaNueva
<1>2. efecto' = TRUE /\ lista' = Movida(con, a)
  BY DEF Anteponer, ponerLista, Movida, Detras
<1>3. x[1] = a
  OBVIOUS
<1> HIDE DEF x
<1>4. con[1] = x /\ con # <<>>
  BY <1>0, <1>1
<1>5. /\ con \in Seq(Tarjeta) /\ IsInjective(con)
      /\ \A y : y \in ToSet(con) <=> y = x \/ y \in ToSet(lista)
      /\ \A y, z : Precede(con, y, z) <=> (y = x /\ z \in ToSet(lista)) \/ Precede(lista, y, z)
  BY <1>0, <1>1, AlFrente
<1> HIDE DEF con
<1>6. /\ lista' \in Seq(Tarjeta) /\ IsInjective(lista')
      /\ \A t \in ToSet(con) : t \in ToSet(lista')
      /\ \A u, t : Precede(con, u, t) /\ u[1] = t[1] /\ u # con[1]
           => \E v \in Tarjeta \ {t} : v[1] = t[1] /\ Precede(lista', v, t)
  BY <1>2, <1>3, <1>4, <1>5, UnaDetras
<1>7. ASSUME NEW t \in Tarjeta, bloqueo'[t] = "loading" PROVE Esperada(t)'
  <2>1. Esperada(t)
    BY <1>7 DEF IInvPanel
  <2>2. t \in ToSet(lista') /\ t[1] \notin oculta'
    BY <1>5, <1>6, <2>1 DEF Esperada
  <2>3. CASE \E p \in pedidos : p.clase = "bloquear" /\ p.tarjeta = t
    BY <2>2, <2>3 DEF Esperada
  <2>4. CASE \E u \in Tarjeta \ {t} : u[1] = t[1] /\ Precede(lista, u, t)
    <3>1. PICK u \in Tarjeta \ {t} : u[1] = t[1] /\ Precede(lista, u, t)
      BY <2>4
    <3>2. Precede(con, u, t) /\ u # con[1]
      BY <1>1, <1>4, <1>5, <3>1, PrecedeEsta
    <3> QED BY <1>6, <2>2, <3>1, <3>2 DEF Esperada
  <2> QED BY <2>1, <2>3, <2>4 DEF Esperada
<1> QED BY <1>2, <1>6, <1>7

\* The effect, and the alerts that awaited the map.
LEMMA PasoDelEfecto ==
  ASSUME IInvPanel, TypeOKCanal,
         EfectoNada \/ EfectoAntepone \/ EfectoEnriquece \/ \E a \in Alerta : Enriquecida(a)
  PROVE  IInvPanel'
<1>0. TypeOKPanel /\ IsInjective(foto)
  BY DEF IInvPanel
<1>1. CASE EfectoNada
  <2>1. TypeOKPanel' /\ IsInjective(foto') /\ UNCHANGED <<lista, oculta, bloqueo>> /\ pedidos' = pedidos
    BY <1>0, <1>1 DEF TypeOKPanel, EfectoNada, varsTarjetas
  <2> QED BY <2>1, MismasTarjetas
<1>2. CASE EfectoAntepone
  <2>1. /\ nuevaAlerta \in Alerta /\ ~EnLista(nuevaAlerta) /\ Anteponer(nuevaAlerta)
        /\ UNCHANGED <<montado, oculta, carga, foto, mapa, huerfana, enriqueciendo, perdidas,
                       bloqueo, falso, pedidos, descartadas>>
    BY <1>2 DEF EfectoAntepone, TypeOKCanal, varsTarjetas
  <2>2. /\ lista' \in Seq(Tarjeta) /\ IsInjective(lista') /\ efecto' = TRUE
        /\ \A t \in Tarjeta : bloqueo'[t] = "loading" => Esperada(t)'
    BY <2>1, AnteponerConserva
  <2>3. TypeOKPanel'
    BY <1>0, <2>1, <2>2 DEF TypeOKPanel
  <2> QED BY <1>0, <2>1, <2>2, <2>3 DEF IInvPanel
<1>3. CASE EfectoEnriquece
  <2>1. nuevaAlerta \in Alerta /\ enriqueciendo[nuevaAlerta] < Copias
        /\ enriqueciendo' = [enriqueciendo EXCEPT ![nuevaAlerta] = enriqueciendo[nuevaAlerta] + 1]
    BY <1>3 DEF EfectoEnriquece, TypeOKCanal
  <2>2. enriqueciendo[nuevaAlerta] + 1 \in 0 .. Copias
    BY <1>0, <2>1, PanelConstantes DEF TypeOKPanel
  <2>3. enriqueciendo' \in [Alerta -> 0 .. Copias]
    BY <1>0, <2>1, <2>2 DEF TypeOKPanel
  <2>4. TypeOKPanel' /\ IsInjective(foto') /\ UNCHANGED <<lista, oculta, bloqueo>> /\ pedidos' = pedidos
    BY <1>0, <1>3, <2>3 DEF TypeOKPanel, EfectoEnriquece, varsTarjetas
  <2> QED BY <2>4, MismasTarjetas
<1>4. ASSUME NEW a \in Alerta, Enriquecida(a) PROVE IInvPanel'
  <2>1. /\ enriqueciendo[a] > 0 /\ CabeOtra(a)
        /\ enriqueciendo' = [enriqueciendo EXCEPT ![a] = enriqueciendo[a] - 1]
        /\ UNCHANGED <<montado, oculta, carga, foto, huerfana, bloqueo, falso, pedidos, descartadas>>
    BY <1>4 DEF Enriquecida, varsTarjetas
  <2>2. enriqueciendo[a] - 1 \in 0 .. Copias
    BY <1>0, <2>1, PanelConstantes DEF TypeOKPanel
  <2>3. enriqueciendo' \in [Alerta -> 0 .. Copias]
    BY <1>0, <2>1, <2>2 DEF TypeOKPanel
  <2>4. CASE mapa' = TRUE /\ Anteponer(a) /\ UNCHANGED perdidas
    <3>1. /\ lista' \in Seq(Tarjeta) /\ IsInjective(lista') /\ efecto' = TRUE
          /\ \A t \in Tarjeta : bloqueo'[t] = "loading" => Esperada(t)'
      BY <2>1, <2>4, AnteponerConserva
    <3>2. TypeOKPanel'
      BY <1>0, <2>1, <2>3, <2>4, <3>1 DEF TypeOKPanel
    <3> QED BY <1>0, <2>1, <3>1, <3>2 DEF IInvPanel
  <2>5. CASE perdidas' = perdidas \cup {a} /\ UNCHANGED <<mapa, lista, efecto>>
    <3>1. TypeOKPanel' /\ IsInjective(foto') /\ UNCHANGED <<lista, oculta, bloqueo>> /\ pedidos' = pedidos
      BY <1>0, <2>1, <2>3, <2>5 DEF TypeOKPanel
    <3> QED BY <3>1, MismasTarjetas
  <2> QED BY <1>4, <2>4, <2>5 DEF Enriquecida
<1> QED BY <1>1, <1>2, <1>3, <1>4

\* A filter: who is hidden does not wait.
LEMMA PasoDelFiltro ==
  ASSUME IInvPanel, NEW s \in Filtros, Filtrar(s)
  PROVE  IInvPanel'
<1>0. TypeOKPanel /\ IsInjective(foto) /\ pedidos \subseteq Pedido
  BY DEF IInvPanel, TypeOKPanel
<1> DEFINE quedan == {t \in Tarjeta : Visible(t) /\ t[1] \notin s}
<1>1. /\ oculta' = s /\ Destruir(quedan) /\ pedidos' = Soltar(pedidos, quedan)
      /\ UNCHANGED <<montado, lista, carga, foto, mapa, huerfana, efecto, enriqueciendo, perdidas,
                     descartadas>>
  BY DEF Filtrar
<1>2. \A t \in quedan : t[1] \notin s
  OBVIOUS
<1> HIDE DEF quedan
<1>3. /\ bloqueo' \in [Tarjeta -> {"idle", "loading", "bloqueada", "fallido"}]
      /\ falso' \in [Tarjeta -> {"idle", "loading"}]
      /\ \A t \in Tarjeta : bloqueo'[t] = "loading" => t \in quedan /\ bloqueo[t] = "loading"
  BY <1>0, <1>1, DestruirTipos
<1>4. pedidos' \subseteq Pedido /\ \A p \in pedidos : p.tarjeta \in quedan => p \in pedidos'
  BY <1>0, <1>1, SoltarYAbandonar
<1>5. s \in SUBSET Alerta
  BY PanelConstantes
<1>6. TypeOKPanel'
  BY <1>0, <1>1, <1>3, <1>4, <1>5 DEF TypeOKPanel
<1>7. ASSUME NEW t \in Tarjeta, bloqueo'[t] = "loading" PROVE Esperada(t)'
  <2>1. Esperada(t) /\ t \in quedan
    BY <1>3, <1>7 DEF IInvPanel
  <2>2. t \in ToSet(lista') /\ t[1] \notin oculta'
    BY <1>1, <1>2, <2>1 DEF Esperada
  <2> QED BY <1>1, <1>4, <2>1, <2>2 DEF Esperada
<1> QED BY <1>0, <1>1, <1>6, <1>7 DEF IInvPanel

\* A button is pressed: the request is of the first card of the alert.
LEMMA PasoDelBoton ==
  ASSUME IInvPanel, NEW t \in Tarjeta, onBloquear(t) \/ onMarcarFalsoPositivo(t)
  PROVE  IInvPanel'
<1>0. TypeOKPanel /\ IsInjective(foto) /\ lista \in Seq(Tarjeta)
  BY DEF IInvPanel, TypeOKPanel
<1>1. t \in ToSet(lista) /\ t[1] \notin oculta /\ EnLista(t[1]) /\ t[1] \in Alerta
  BY DEF onBloquear, onMarcarFalsoPositivo, Visible, ToSet, EnLista, Tarjeta
<1>2. /\ Encontrada(t[1]) \in Tarjeta /\ Encontrada(t[1])[1] = t[1]
      /\ t # Encontrada(t[1]) => Precede(lista, Encontrada(t[1]), t)
  BY <1>0, <1>1, LaPrimera
<1> DEFINE Nuevo(clasePedido) == [clase |-> clasePedido, alerta |-> t[1],
                                  tarjeta |-> Encontrada(t[1]), vigente |-> TRUE]
<1>3. Nuevo("bloquear") \in Pedido /\ Nuevo("falso") \in Pedido
  BY <1>1, <1>2 DEF Pedido
<1>4. Nuevo("bloquear").clase = "bloquear" /\ Nuevo("bloquear").tarjeta = Encontrada(t[1])
  OBVIOUS
<1>5. CASE onBloquear(t)
  <2>1. /\ bloqueo' = [bloqueo EXCEPT ![t] = "loading"] /\ pedidos' = pedidos \cup {Nuevo("bloquear")}
        /\ UNCHANGED <<montado, lista, oculta, carga, foto, mapa, huerfana, efecto, enriqueciendo,
                       perdidas, falso, descartadas>>
    BY <1>5 DEF onBloquear, Pedir
  <2> HIDE DEF Nuevo
  <2>2. TypeOKPanel'
    BY <1>0, <1>3, <2>1 DEF TypeOKPanel
  <2>3. ASSUME NEW u \in Tarjeta, bloqueo'[u] = "loading" PROVE Esperada(u)'
    <3>1. CASE u = t
      BY <1>1, <1>2, <1>4, <2>1, <3>1 DEF Esperada
    <3>2. CASE u # t
      <4>1. bloqueo[u] = "loading"
        BY <1>0, <2>1, <2>3, <3>2 DEF TypeOKPanel
      <4> QED BY <2>1, <4>1 DEF IInvPanel, Esperada
    <3> QED BY <3>1, <3>2
  <2> QED BY <1>0, <2>1, <2>2, <2>3 DEF IInvPanel
<1>6. CASE onMarcarFalsoPositivo(t)
  <2>1. /\ falso' = [falso EXCEPT ![t] = "loading"] /\ pedidos' = pedidos \cup {Nuevo("falso")}
        /\ UNCHANGED <<montado, lista, oculta, carga, foto, mapa, huerfana, efecto, enriqueciendo,
                       perdidas, bloqueo, descartadas>>
    BY <1>6 DEF onMarcarFalsoPositivo, Pedir
  <2> HIDE DEF Nuevo
  <2>2. TypeOKPanel'
    BY <1>0, <1>3, <2>1 DEF TypeOKPanel
  <2> QED BY <1>0, <2>1, <2>2, MismasTarjetas
<1> QED BY <1>5, <1>6

\* The answers to the buttons: a block's is of its card, and a false positive takes all the
\* cards of its alert.
LEMMA RespuestaDelBoton ==
  ASSUME IInvPanel, NEW p \in pedidos, BloqueoRespondido(p) \/ FalsoEnServidor(p) \/ FalsoRespondido(p)
  PROVE  IInvPanel'
<1>0. /\ TypeOKPanel /\ IsInjective(foto) /\ pedidos \subseteq Pedido /\ p \in Pedido
      /\ lista \in Seq(Tarjeta) /\ IsInjective(lista)
  BY DEF IInvPanel, TypeOKPanel
<1>1. p.tarjeta \in Tarjeta \cup {Nada} /\ p.alerta \in Alerta
  BY <1>0 DEF Pedido
<1>2. CASE BloqueoRespondido(p)
  <2>1. /\ pedidos' = pedidos \ {p}
        /\ UNCHANGED <<montado, lista, oculta, carga, foto, mapa, huerfana, efecto, enriqueciendo,
                       perdidas, falso, descartadas>>
    BY <1>2 DEF BloqueoRespondido
  <2>2. PICK estado \in {"bloqueada", "fallido"} :
          bloqueo' = IF p.tarjeta = Nada THEN bloqueo ELSE [bloqueo EXCEPT ![p.tarjeta] = estado]
    BY <1>2 DEF BloqueoRespondido, setBloqueoResultado
  <2>3. /\ bloqueo' \in [Tarjeta -> {"idle", "loading", "bloqueada", "fallido"}]
        /\ \A t \in Tarjeta : bloqueo'[t] = "loading" => bloqueo[t] = "loading" /\ p.tarjeta # t
    <3>1. CASE p.tarjeta = Nada /\ Nada \notin Tarjeta
      BY <1>0, <2>2, <3>1 DEF TypeOKPanel
    <3>2. CASE p.tarjeta # Nada
      BY <1>0, <1>1, <2>2, <3>2 DEF TypeOKPanel
    <3>3. CASE p.tarjeta = Nada /\ Nada \in Tarjeta
      BY <3>3, NadaNoEsTarjeta
    <3> QED BY <3>1, <3>2, <3>3
  <2>4. TypeOKPanel'
    BY <1>0, <2>1, <2>3 DEF TypeOKPanel
  <2>5. ASSUME NEW t \in Tarjeta, bloqueo'[t] = "loading" PROVE Esperada(t)'
    <3>1. Esperada(t) /\ p.tarjeta # t
      BY <2>3, <2>5 DEF IInvPanel
    <3> QED BY <2>1, <3>1 DEF Esperada
  <2> QED BY <1>0, <2>1, <2>4, <2>5 DEF IInvPanel
<1>3. CASE FalsoEnServidor(p)
  <2>1. TypeOKPanel' /\ IsInjective(foto') /\ UNCHANGED <<lista, oculta, bloqueo>> /\ pedidos' = pedidos
    BY <1>0, <1>1, <1>3 DEF TypeOKPanel, FalsoEnServidor
  <2> QED BY <2>1, MismasTarjetas
<1>4. CASE FalsoRespondido(p)
  <2>0. /\ p.clase = "falso"
        /\ UNCHANGED <<montado, oculta, carga, foto, mapa, huerfana, enriqueciendo, perdidas,
                       descartadas>>
    BY <1>4 DEF FalsoRespondido
  <2> DEFINE quedan == {t \in Tarjeta : Visible(t) /\ t[1] # p.alerta}
             otras == {t \in Tarjeta : t[1] # p.alerta}
  <2>1. CASE /\ ponerLista(filter(lista, otras)) /\ Destruir(quedan)
             /\ pedidos' = Soltar(pedidos \ {p}, quedan)
    <3>1. lista' = filter(lista, otras) /\ efecto' = TRUE
      BY <2>1 DEF ponerLista
    <3>2. \A t \in quedan : t \in otras
      OBVIOUS
    <3>3. \A u \in Tarjeta, t \in otras : u[1] = t[1] => u \in otras
      OBVIOUS
    <3> HIDE DEF quedan, otras
    <3>4. /\ lista' \in Seq(Tarjeta) /\ IsInjective(lista')
          /\ \A x : x \in ToSet(lista') <=> x \in ToSet(lista) /\ x \in otras
          /\ \A x, y : Precede(lista', x, y) <=> Precede(lista, x, y) /\ x \in otras /\ y \in otras
      BY <1>0, <3>1, FiltroConserva
    <3>5. /\ bloqueo' \in [Tarjeta -> {"idle", "loading", "bloqueada", "fallido"}]
          /\ falso' \in [Tarjeta -> {"idle", "loading"}]
          /\ \A t \in Tarjeta : bloqueo'[t] = "loading" => t \in quedan /\ bloqueo[t] = "loading"
      BY <1>0, <2>1, DestruirTipos
    <3>6. /\ pedidos' \subseteq Pedido
          /\ \A o \in pedidos \ {p} : o.tarjeta \in quedan => o \in pedidos'
      <4>1. pedidos \ {p} \in SUBSET Pedido
        BY <1>0
      <4> QED BY <2>1, <4>1, SoltarYAbandonar
    <3>7. TypeOKPanel'
      BY <1>0, <2>0, <3>1, <3>4, <3>5, <3>6 DEF TypeOKPanel
    <3>8. ASSUME NEW t \in Tarjeta, bloqueo'[t] = "loading" PROVE Esperada(t)'
      <4>1. Esperada(t) /\ t \in quedan /\ t \in otras
        BY <3>2, <3>5, <3>8 DEF IInvPanel
      <4>2. t \in ToSet(lista') /\ t[1] \notin oculta'
        BY <2>0, <3>4, <4>1 DEF Esperada
      <4>3. CASE \E o \in pedidos : o.clase = "bloquear" /\ o.tarjeta = t
        BY <2>0, <3>6, <4>1, <4>2, <4>3 DEF Esperada
      <4>4. CASE \E u \in Tarjeta \ {t} : u[1] = t[1] /\ Precede(lista, u, t)
        BY <3>3, <3>4, <4>1, <4>2, <4>4 DEF Esperada
      <4> QED BY <4>1, <4>3, <4>4 DEF Esperada
    <3> QED BY <1>0, <2>0, <3>7, <3>8 DEF IInvPanel
  <2>2. CASE /\ falso' = IF p.tarjeta = Nada THEN falso ELSE [falso EXCEPT ![p.tarjeta] = "idle"]
             /\ pedidos' = pedidos \ {p} /\ UNCHANGED <<lista, efecto, bloqueo>>
    <3>1. falso' \in [Tarjeta -> {"idle", "loading"}]
      BY <1>0, <2>2 DEF TypeOKPanel
    <3>2. TypeOKPanel'
      BY <1>0, <2>0, <2>2, <3>1 DEF TypeOKPanel
    <3>3. \A t \in Tarjeta : Esperada(t) => Esperada(t)'
      BY <2>0, <2>2 DEF Esperada
    <3> QED BY <1>0, <2>0, <2>2, <3>2, <3>3 DEF IInvPanel
  <2> QED BY <1>4, <2>1, <2>2 DEF FalsoRespondido
<1> QED BY <1>2, <1>3, <1>4

\* Every step keeps it.
LEMMA InduccionPanel == TypeOKCanal /\ IInvPanel /\ [Next]_varsWeb => IInvPanel'
<1> SUFFICES ASSUME TypeOKCanal, IInvPanel, [Next]_varsWeb PROVE IInvPanel'
  OBVIOUS
<1>1. ASSUME NEW k \in K, RecibirViva(k) PROVE IInvPanel'
  <2>1. TypeOKPanel' /\ IsInjective(foto') /\ UNCHANGED <<lista, oculta, bloqueo>> /\ pedidos' = pedidos
    BY <1>1 DEF RecibirViva, IInvPanel, TypeOKPanel, varsTarjetas
  <2> QED BY <2>1, MismasTarjetas
<1>2. ASSUME UNCHANGED varsPanel PROVE IInvPanel'
  <2>1. TypeOKPanel' /\ IsInjective(foto') /\ UNCHANGED <<lista, oculta, bloqueo>> /\ pedidos' = pedidos
    BY <1>2 DEF varsPanel, IInvPanel, TypeOKPanel
  <2> QED BY <2>1, MismasTarjetas
<1>3. ASSUME PasoPanel PROVE IInvPanel'
  BY <1>2, <1>3, EntrarYSalirDelPanel, CargaEnCurso, RespuestasDeCarga, PasoDelEfecto,
     PasoDelFiltro, PasoDelBoton, RespuestaDelBoton DEF PasoPanel, Respuestas
<1> QED BY <1>1, <1>3, CasosVivo DEF PasoVivo

\* The panel keeps its types, and what waits has what it waits for.
THEOREM InvariantePanel == Spec => []IInvPanel
<1>1. IInvCanal => TypeOKCanal
  BY DEF IInvCanal
<1> QED BY InicioPanel, InduccionPanel, InvarianteCanal, <1>1, PTL DEF Spec

\* A button that says `Bloqueando...` has its request in flight, or its alert has another
\* card on the screen, to which the answer went: what BotonResponde needs besides the answer.
THEOREM BotonConPeticion ==
  Spec => [](\A t \in Tarjeta :
               bloqueo[t] = "loading" =>
                 \/ \E p \in pedidos : p.clase = "bloquear" /\ p.tarjeta = t
                 \/ \E u \in Tarjeta \ {t} : u[1] = t[1] /\ Visible(u))
<1>1. IInvPanel =>
        \A t \in Tarjeta :
          bloqueo[t] = "loading" =>
            \/ \E p \in pedidos : p.clase = "bloquear" /\ p.tarjeta = t
            \/ \E u \in Tarjeta \ {t} : u[1] = t[1] /\ Visible(u)
  BY DEF IInvPanel, Esperada, Precede, Visible
<1> QED BY InvariantePanel, <1>1, PTL
------------------------------------------------------------------------------
(* All the pages *)

\* The pages that keep what they were told show what the server has, each as far as it was
\* told: the histories, the list of servers and the token of a VPS.
THEOREM PaginasFielesSiempre == Spec => []PaginasFieles
<1>1. FilasDelServidor /\ LiberadasCerradas /\ ServidoresFiel /\ TokenFiel
        => PaginasFieles
  BY DEF PaginasFieles, HistorialFiel
<1> QED
  BY FilasDelServidorSiempre, LiberadasCerradasSiempre, ServidoresFielSiempre, TokenFielSiempre,
     <1>1, PTL

\* Every page keeps the types of its signals and of what it has in flight.
THEOREM TiposPaginas ==
  Spec => [](/\ TypeOKCanal /\ TypeOKPanel /\ TypeOKHistorial /\ TypeOKBlanca
             /\ TypeOKServidores /\ TypeOKDetalle)
<1>1. IInvCanal => TypeOKCanal
  BY DEF IInvCanal
<1>2. IInvPanel => TypeOKPanel
  BY DEF IInvPanel
<1>3. IInvLiberadas => TypeOKHistorial
  BY DEF IInvLiberadas, InvFilas, TiposHistorial, TiposDeHist, TypeOKHistorial, Historiales
<1>4. IInvBlanca => TypeOKBlanca
  BY DEF IInvBlanca
<1>5. IInvServidores /\ SinRepetidos => TypeOKServidores
  BY DEF IInvServidores, TiposServidores, SinRepetidos, TypeOKServidores
<1>6. IInvDetalle => TypeOKDetalle
  BY DEF IInvDetalle
<1> QED
  BY InvarianteCanal, InvariantePanel, InvarianteLiberadas, InvarianteBlanca,
     InvarianteServidores, NingunServidorDosVeces, InvarianteDetalle, <1>1, <1>2, <1>3, <1>4,
     <1>5, <1>6, PTL

==============================================================================
