----------------------------- MODULE Servidores -----------------------------
(***************************************************************************)
(* client vps-list.component.ts and create-vps-modal.component.ts: the     *)
(* list of servers and the window that makes another one and shows its     *)
(* token, which nobody can read again.                                     *)
(*                                                                         *)
(* The list is loaded when the page opens and when the window closes after *)
(* it showed a token.  The window can be closed while the creation is in   *)
(* flight: the VPS is made all the same.                                   *)
(*                                                                         *)
(* Abstracted: what a VPS is called and its state, the script, the         *)
(* clipboard, and whether the form is valid.                               *)
(***************************************************************************)
EXTENDS ClienteApi, SequencesExt

CONSTANTS
  Servidor,
  Nuevos     \* BOUND: the servers that may yet be made

ASSUME ServidoresConstantes == IsFiniteSet(Servidor) /\ Nuevos \subseteq Servidor

VARIABLES
  pagina,      \* the signals of the list component, Nada when it does not exist
  ventana,     \* the window: its step (1, 2), whether it waits, the VPS whose token it shows
  servidores,  \* the VPS of the account, newest first
  consulta,    \* the request for the list: Nada, or what the server read, if it did
  creaciones,  \* the creations in flight: of this window or of one that was closed
  omitida      \* history: a VPS was made or removed, or a list failed, without the page
               \* being told, since the list was last read

varsServidores == <<pagina, ventana, servidores, consulta, creaciones, omitida>>

VentanaNueva == [step |-> 1, isLoading |-> FALSE, token |-> Nada]

Pagina == [vpsList : Seq(Servidor), isLoading : BOOLEAN]
Ventana == [step : {1, 2}, isLoading : BOOLEAN, token : Servidor \cup {Nada}]
Consulta == [leida : BOOLEAN, filas : Seq(Servidor)]

ASSUME NadaNoEsPagina == Nada \notin Pagina \cup Ventana \cup Consulta

TypeOKServidores ==
  /\ pagina \in Pagina \cup {Nada} /\ ventana \in Ventana \cup {Nada}
  /\ servidores \in Seq(Servidor) /\ IsInjective(servidores)
  /\ consulta \in Consulta \cup {Nada}
  /\ creaciones \subseteq [id : Servidor, hecho : BOOLEAN, propia : BOOLEAN]
  /\ omitida \in BOOLEAN

InitServidores ==
  /\ pagina = Nada /\ ventana = Nada /\ consulta = Nada
  /\ servidores \in UNION {SetToSeqs(S) : S \in SUBSET Servidor}
  /\ creaciones = {} /\ omitida = FALSE

PeticionServidores(op, body) ==
  Peticion([op |-> op, path |-> Nada, query |-> <<>>, body |-> body], TRUE)
SinLeer == [leida |-> FALSE, filas |-> <<>>]

MontarServidores ==
  /\ pagina = Nada
  /\ pagina' = [vpsList |-> <<>>, isLoading |-> TRUE]
  /\ consulta' = SinLeer
  /\ UNCHANGED <<ventana, servidores, creaciones, omitida>>

\* The window goes with its page.
DesmontarServidores ==
  /\ pagina # Nada
  /\ pagina' = Nada /\ ventana' = Nada /\ consulta' = Nada
  /\ creaciones' = Ajenas(creaciones)
  /\ omitida' = FALSE
  /\ UNCHANGED servidores
------------------------------------------------------------------------------
(* The server: findAllByUser and create of vps.service.ts *)

AtenderConsulta ==
  /\ consulta # Nada /\ ~consulta.leida
  /\ consulta' = [leida |-> TRUE, filas |-> servidores]
  /\ omitida' = FALSE
  /\ UNCHANGED <<pagina, ventana, servidores, creaciones>>

CrearServidor(c) ==
  /\ c \in creaciones /\ ~c.hecho
  /\ servidores' = <<c.id>> \o servidores
  /\ creaciones' = Hecha(creaciones, c)
  /\ omitida' = (omitida \/ ~c.propia)
  /\ UNCHANGED <<pagina, ventana, consulta>>
------------------------------------------------------------------------------
(* The components *)

\* loadVps.
ConsultaRespondida ==
  /\ consulta # Nada
  /\ consulta' = Nada
  /\ \E bien \in vpsService(PeticionServidores("vps.findAll", Nada), consulta.leida) :
       /\ pagina' = [isLoading |-> FALSE, vpsList |-> IF bien THEN consulta.filas ELSE <<>>]
       /\ omitida' = (omitida \/ ~bien)
  /\ UNCHANGED <<ventana, servidores, creaciones>>

\* The card that opens the window is hidden while the list is being loaded.
AbrirVentana ==
  /\ pagina # Nada /\ ~pagina.isLoading /\ ventana = Nada
  /\ ventana' = VentanaNueva
  /\ UNCHANGED <<pagina, servidores, consulta, creaciones, omitida>>

\* onSubmit, with the id that the VPS will have.
onSubmit(v) ==
  /\ ventana # Nada /\ ventana.step = 1 /\ ~ventana.isLoading
  /\ v \in Nuevos \ (ToSet(servidores) \cup {c.id : c \in creaciones})
  /\ ventana' = [ventana EXCEPT !.isLoading = TRUE]
  /\ creaciones' = creaciones \cup {[id |-> v, hecho |-> FALSE, propia |-> TRUE]}
  /\ UNCHANGED <<pagina, servidores, consulta, omitida>>

CreacionRespondida(c) ==
  /\ c \in creaciones
  /\ creaciones' = creaciones \ {c}
  /\ \E bien \in vpsService(PeticionServidores("vps.create", c.id), c.hecho) :
       /\ ventana' = IF ~c.propia THEN ventana
                     ELSE IF bien THEN [step |-> 2, isLoading |-> FALSE, token |-> c.id]
                     ELSE [ventana EXCEPT !.isLoading = FALSE]
       /\ omitida' = (omitida \/ (c.propia /\ c.hecho /\ ~bien))
  /\ UNCHANGED <<pagina, servidores, consulta>>

\* onClose and onModalClosed: the list again, if the window got as far as the token.
onClose ==
  /\ ventana # Nada
  /\ ventana' = Nada
  /\ creaciones' = Ajenas(creaciones)
  /\ IF ventana.step = 2
     THEN pagina' = [pagina EXCEPT !.isLoading = TRUE] /\ consulta' = SinLeer
     ELSE UNCHANGED <<pagina, consulta>>
  /\ omitida' = (omitida \/ \E c \in creaciones : c.propia /\ c.hecho)
  /\ UNCHANGED servidores

\* All but what opens the window.
PasoServidores ==
  \/ AtenderConsulta \/ ConsultaRespondida \/ onClose
  \/ \E v \in Nuevos : onSubmit(v)
  \/ \E c \in creaciones : CrearServidor(c) \/ CreacionRespondida(c)
------------------------------------------------------------------------------
(* Properties *)

\* With the window closed and the list at rest the page shows the servers of the account:
\* the list is read again for what this window made, and whatever else was made or removed
\* before the list was read is in it.  Excepted are the creations that this page gave up or
\* was not told of, and what a page that was left asked for that was done after the read.
ServidoresFiel ==
  pagina # Nada /\ consulta = Nada /\ ventana = Nada /\ ~omitida
  => pagina.vpsList = servidores
==============================================================================
