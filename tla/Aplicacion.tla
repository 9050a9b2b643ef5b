----------------------------- MODULE Aplicacion -----------------------------
(***************************************************************************)
(* The Angular client as one browser window runs it: its routes with       *)
(* authGuard, the forms before the session, and the pages of               *)
(* Panel, Historial, ListaBlanca, Servidores and DetalleVps, of which one  *)
(* is on the screen at a time.                                             *)
(*                                                                         *)
(* Every route is loaded lazily: the router asks the guard, fetches the    *)
(* code of the page, and only then destroys the old page and makes the     *)
(* new one; or the fetch fails and nothing changes.  Another navigation    *)
(* gives up the one that is under way.                                     *)
(*                                                                         *)
(* Leaving a page destroys its components; a promise of theirs goes on,    *)
(* and what it ends with is a signal that nobody reads, except where it    *)
(* navigates: a login and a removal take the window with them, wherever it *)
(* is by then.  A late logout does, too.                                   *)
(*                                                                         *)
(* A page may stay on the screen after its session is gone.  What it asks  *)
(* for then the server refuses: among the answers a request may get is     *)
(* always one that it failed, and no other is kept for these.              *)
(*                                                                         *)
(* Nothing happens on a page that is not of the window's entorno, a BOUND: *)
(* pages that share no state are explored apart.                           *)
(***************************************************************************)
EXTENDS Panel, Historial, ListaBlanca, Servidores, DetalleVps

\* BOUND: what a window gets to see and do: its routes, whether alerts exist before it
\* opens, and the things that happen (cosas).
CONSTANT Entornos

VARIABLES
  ruta,        \* the page on the screen, Nada before the window opens
  navegando,   \* the page whose code the router is fetching, Nada for none
  vistas,      \* the pages there were, to which the browser can go back
  formulario,  \* the form of forgot-password and reset-password
  entorno

varsPaginas == <<varsPanel, varsHistorial, varsBlanca, varsServidores, varsDetalle, formulario>>
varsRuta == <<ruta, navegando, vistas, entorno>>
varsWeb == <<varsCanal, varsPaginas, varsRuta>>

\* app.routes.ts: `canActivate` is on dashboard and so on its children.
Publicas == {"login", "register", "forgot-password", "reset-password"}
Privadas == {"panel", "servidores", "detalle", "alertas", "bloqueos", "blanca",
             "configuracion", "nosotros"}
Historiales == {"alertas", "bloqueos"}

ASSUME NadaNoEsRuta == Nada \notin Publicas \cup Privadas

\* The links of a page: those of the form, or the menu of the shell and what the page adds.
Menu == Privadas \ {"detalle"}
Enlaces(r) ==
  CASE r = Nada -> Publicas \cup Privadas
    [] r = "login" -> {"register", "forgot-password"}
    [] r \in Publicas \ {"login"} -> {"login"}
    [] r = "servidores" -> Menu \cup {"detalle"}
    [] OTHER -> Menu

FormularioVacio == [isLoading |-> FALSE, enviado |-> FALSE]
Ocurre(cosa) == cosa \in entorno.cosas
Incluye(rutas) == entorno.rutas \cap rutas # {}

\* What the window cannot look at is empty, and so is a table to which nothing is added.
InitAplicacion ==
  /\ ruta = Nada /\ navegando = Nada /\ vistas = {} /\ formulario = FormularioVacio
  /\ entorno \in Entornos
  /\ InitCanal /\ InitPanel /\ InitHistorial /\ InitBlanca /\ InitServidores /\ InitDetalle
  /\ emitidas = entorno.previas
  /\ Incluye({"login"}) \/ token
  /\ Ocurre("llegada") \/ tabla = <<>>
  /\ Incluye({"blanca"}) \/ entradas = <<>>
  /\ Ocurre("crear") \/ servidores = IF Incluye({"detalle"}) THEN <<vpsId>> ELSE <<>>
  /\ Incluye({"detalle"}) \/ configuracion = Defecto
------------------------------------------------------------------------------
(* The routes *)

\* The page that is opened instead of r.  canActivate is of the parent of the private pages,
\* and the router does not ask it again from one of them to another.
authGuard(r, hayToken) ==
  IF r \in Privadas /\ ruta \notin Privadas /\ ~hayToken THEN "login" ELSE r

\* router.navigate: to the page on the screen it only gives up what was under way.
navigate(r, hayToken) ==
  LET destino == authGuard(r, hayToken) IN
  /\ navegando' = IF destino = ruta THEN Nada ELSE destino
  /\ UNCHANGED <<ruta, vistas>>

\* Page p is left, entered, or neither.
Mudar(p, destino, entrar, salir, igual) ==
  CASE ruta = p /\ destino # p -> salir
    [] ruta # p /\ destino = p -> entrar
    [] OTHER -> igual

\* The code came: the old page is destroyed and the new one made in one turn.
Llegar ==
  LET destino == navegando IN
  /\ navegando # Nada
  /\ ruta' = destino /\ navegando' = Nada /\ vistas' = vistas \cup {destino}
  /\ Mudar("panel", destino, Montar, Desmontar, UNCHANGED varsPanel)
  /\ Mudar("blanca", destino, MontarBlanca, DesmontarBlanca, UNCHANGED varsBlanca)
  /\ Mudar("servidores", destino, MontarServidores, DesmontarServidores,
           UNCHANGED varsServidores)
  /\ Mudar("detalle", destino, MontarDetalle, DesmontarDetalle, UNCHANGED varsDetalle)
  /\ CASE destino \in Historiales \ {ruta} -> MontarHistorial(destino)
       [] ruta \in Historiales /\ destino \notin Historiales -> DesmontarHistorial
       [] OTHER -> UNCHANGED varsHistorial
  /\ formulario' = IF destino = ruta THEN formulario ELSE FormularioVacio
  /\ UNCHANGED <<varsCanal, entorno>>

\* The import of a page is rejected, and nobody catches it.
NoLlegar ==
  /\ navegando # Nada
  /\ navegando' = Nada
  /\ UNCHANGED <<varsCanal, varsPaginas, ruta, vistas, entorno>>

\* A link, the buttons of the browser, or the address with which the window opens.
Ir(r) ==
  /\ r \in (Enlaces(ruta) \cup vistas) \cap entorno.rutas
  /\ navigate(r, token)
  /\ UNCHANGED <<varsCanal, varsPaginas, entorno>>
------------------------------------------------------------------------------
(* The session *)

SinMoverse == UNCHANGED <<varsPaginas, varsRuta>>

\* onSubmit of login and register.  Two in flight, of two pages, count as one.
EnviarEntrada ==
  /\ ruta \in {"login", "register"} \cap entorno.rutas
  /\ PedirEntrar
  /\ SinMoverse

EntradaAceptada ==
  /\ Entrado
  /\ navigate("panel", TRUE)
  /\ UNCHANGED <<varsPaginas, entorno>>

EntradaDenegada == EntradaRechazada /\ SinMoverse

\* onLogout of the shell and of configuracion.
onLogout ==
  /\ Ocurre("salir") /\ ruta \in Privadas
  /\ PedirSalir
  /\ SinMoverse

\* Mutant: the session is cleared, and the window stays on its way.
SalidaRespondida_sinNavegar == Salido /\ SinMoverse

\* The session is gone at once; the page stays until the code of the login comes, and for
\* good if it does not.
SalidaRespondida ==
  /\ Salido
  /\ navigate("login", FALSE)
  /\ UNCHANGED <<varsPaginas, entorno>>

\* onSubmit of forgot-password and reset-password.
EnviarFormulario ==
  /\ ruta \in {"forgot-password", "reset-password"} /\ formulario = FormularioVacio
  /\ formulario' = [formulario EXCEPT !.isLoading = TRUE]
  /\ UNCHANGED <<varsCanal, varsPanel, varsHistorial, varsBlanca, varsServidores, varsDetalle,
                 varsRuta>>

\* forgot-password says that it was sent, whatever became of it.
FormularioRespondido ==
  /\ formulario.isLoading
  /\ formulario' \in {[isLoading |-> FALSE, enviado |-> TRUE]}
                     \cup (IF ruta = "reset-password" THEN {FormularioVacio} ELSE {})
  /\ UNCHANGED <<varsCanal, varsPanel, varsHistorial, varsBlanca, varsServidores, varsDetalle,
                 varsRuta>>

\* doEliminarServidor ends: to the list, from wherever the window is.
EliminarRespondido ==
  /\ \E bien \in BOOLEAN :
       /\ EliminacionRespondida(bien)
       /\ IF bien THEN navigate("servidores", token) ELSE UNCHANGED <<ruta, navegando, vistas>>
  /\ UNCHANGED <<varsCanal, varsPanel, varsHistorial, varsBlanca, varsServidores, formulario,
                 entorno>>
------------------------------------------------------------------------------
(* The pages *)

\* Nothing but the panel changes.
SoloPanel ==
  UNCHANGED <<varsCanal, varsHistorial, varsBlanca, varsServidores, varsDetalle, formulario,
              varsRuta>>

PasoDeRed ==
  /\ Ocurre("alerta")
  /\ \/ \E k \in K : handleConnection(k) /\ (Ocurre("corte") \/ usadas = 0)
     \/ \E k \in K : Ocurre("corte") /\ Cortar(k)
     \/ \E c \in C : handleDisconnect(c)
     \/ \E a \in Alerta : emitirAUsuario(a)
  /\ SinMoverse

PasoDePanel ==
  \/ /\ \E k \in K : RecibirViva(k)
     /\ UNCHANGED <<varsHistorial, varsBlanca, varsServidores, varsDetalle, formulario, varsRuta>>
  \/ /\ Incluye({"panel"})
     /\ \/ MapaHuerfano \/ AtenderLista
        \/ EfectoNada \/ EfectoAntepone \/ EfectoEnriquece
        \/ Ocurre("filtro") /\ \E s \in Filtros : Filtrar(s)
        \/ Ocurre("bloquear") /\ \E t \in Tarjeta : onBloquear(t)
        \/ Ocurre("falso") /\ \E t \in Tarjeta : onMarcarFalsoPositivo(t)
        \/ \E p \in pedidos : FalsoEnServidor(p)
        \/ Respuestas
     /\ SoloPanel

PasoDeTablas ==
  \/ /\ PasoHistorial \/ (Ocurre("llegada") /\ \E f \in Fila : Llegada(f))
     /\ UNCHANGED <<varsCanal, varsPanel, varsBlanca, varsServidores, varsDetalle, formulario,
                    varsRuta>>
  \/ /\ PasoBlanca
     /\ UNCHANGED <<varsCanal, varsPanel, varsHistorial, varsServidores, varsDetalle, formulario,
                    varsRuta>>
  \/ /\ PasoServidores \/ (Ocurre("crear") /\ AbrirVentana)
     /\ UNCHANGED <<varsCanal, varsPanel, varsHistorial, varsBlanca, varsDetalle, formulario,
                    varsRuta>>
  \/ /\ \/ PasoDetalle
        \/ Ocurre("guardar") /\ guardarCambios
        \/ \E que \in {"regenerar", "eliminar"} : Ocurre(que) /\ Preguntar(que)
     /\ UNCHANGED <<varsCanal, varsPanel, varsHistorial, varsBlanca, varsServidores, formulario,
                    varsRuta>>
  \/ /\ Eliminar
     /\ UNCHANGED <<varsCanal, varsPanel, varsHistorial, varsBlanca, formulario, varsRuta>>

Next ==
  \/ Llegar \/ NoLlegar \/ \E r \in entorno.rutas : Ir(r)
  \/ EnviarEntrada \/ EntradaAceptada \/ EntradaDenegada
  \/ onLogout \/ SalidaRespondida
  \/ EnviarFormulario \/ FormularioRespondido
  \/ EliminarRespondido
  \/ PasoDeRed \/ PasoDePanel \/ PasoDeTablas

\* A request to block is answered: BloqueosService gives up on an agent after five seconds,
\* and a browser on a server that never answers.
Justicia ==
  \A t \in Tarjeta :
    WF_varsWeb(/\ \E p \in pedidos : p.tarjeta = t /\ BloqueoRespondido(p)
               /\ SoloPanel)

Spec == InitAplicacion /\ [][Next]_varsWeb /\ Justicia
------------------------------------------------------------------------------
(* Properties *)

\* The pages that keep what they were told instead of asking again show what the server
\* has, in their different ways: the tables, the list of servers and the token.
PaginasFieles == HistorialFiel /\ ServidoresFiel /\ TokenFiel

\* Nobody gets into the dashboard from outside of it without a session, though the guard is
\* asked before the code of the page is fetched and a logout may be answered in between.
\* (Who is inside stays there until the login came, and may go from page to page.)
SinSesionNoSeEntra == [][ruta \notin Privadas /\ ruta' \in Privadas => token]_varsWeb
==============================================================================
