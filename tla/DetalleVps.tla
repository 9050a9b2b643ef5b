----------------------------- MODULE DetalleVps -----------------------------
(***************************************************************************)
(* client vps-detail.component.ts: the configuration of one VPS, its token *)
(* and its end.                                                            *)
(*                                                                         *)
(* The signals of the form start with defaults.  Saving sends every field, *)
(* also those that nobody touched, so nothing may be saved before the      *)
(* configuration has come: what guards this is that the form is shown      *)
(* when there is a VPS, and that the VPS is kept when both answers came.   *)
(* The buttons of the token and of the removal wait for nothing.           *)
(*                                                                         *)
(* Abstracted: the fields (Campo) and their values, the script, the        *)
(* clipboard and the messages.  The account has no other window open.      *)
(***************************************************************************)
EXTENDS Servidores, Listas

CONSTANTS
  vpsId,     \* the server whose page this is, which is in the list of Servidores
  Campo,     \* the fields of a configuration
  Valor,     \* their values
  Defecto,   \* what the signals start with
  Tokens,    \* BOUND: how often the token is replaced
  EnVuelo    \* BOUND: how many saves, and how many replacements, are in flight

ASSUME DetalleConstantes ==
  /\ vpsId \in Servidor \ Nuevos
  /\ Defecto \in [Campo -> Valor] /\ Tokens \in Nat /\ EnVuelo \in Nat

VARIABLES
  detalle,         \* the signals of the component, Nada when it does not exist
  lecturas,        \* the two requests of loadData, Nada when there are none
  guardados,       \* the saves in flight: the body, whether done, and whether of this page
  regeneraciones,  \* the replacements of the token: which one, 0 if not done, and whose
  eliminaciones,   \* the removals in flight: whether done
  configuracion,   \* the configuration of the VPS in the server
  tokenVps,        \* its token in the server: how often it was replaced
  original,        \* history: the configuration when the page was opened
  editados,        \* history: the fields touched since, or by a save that was in flight
  solapadas        \* history: a token was replaced before the last one was read

remoto == <<configuracion, tokenVps>>
historia == <<original, editados, solapadas>>
varsDetalle == <<detalle, lecturas, guardados, regeneraciones, eliminaciones, configuracion, tokenVps,
                historia>>

Formulario == [Campo -> Valor]
Detalle ==
  [vps : BOOLEAN, isLoading : BOOLEAN, isSaving : BOOLEAN, form : Formulario,
   pregunta : {Nada, "regenerar", "eliminar"}, token : 0 .. Tokens]
Lecturas == [vps : BOOLEAN, config : Formulario \cup {Nada}]

ASSUME NadaNoEsDetalle == Nada \notin Detalle \cup Lecturas

TypeOKDetalle ==
  /\ detalle \in Detalle \cup {Nada} /\ lecturas \in Lecturas \cup {Nada}
  /\ guardados \subseteq [body : Formulario, hecho : BOOLEAN, propio : BOOLEAN]
  /\ regeneraciones \subseteq [token : 0 .. Tokens, propia : BOOLEAN]
  /\ tokenVps \in 0 .. Tokens
  /\ eliminaciones \subseteq BOOLEAN
  /\ configuracion \in Formulario /\ original \in Formulario
  /\ editados \subseteq Campo /\ solapadas \in BOOLEAN

InitDetalle ==
  /\ detalle = Nada /\ lecturas = Nada /\ guardados = {}
  /\ regeneraciones = {} /\ eliminaciones = {}
  /\ configuracion \in Formulario /\ original = configuracion
  /\ tokenVps = 0 /\ editados = {} /\ solapadas = FALSE

\* findFirst with deletedAt null.
existe == \E i \in DOMAIN servidores : servidores[i] = vpsId

PeticionDetalle(op) ==
  Peticion([op |-> op, path |-> "id", query |-> <<>>, body |-> Nada], TRUE)

\* ngOnInit.  token 0 is the window of the token closed.
MontarDetalle ==
  /\ detalle = Nada
  /\ detalle' = [vps |-> FALSE, isLoading |-> TRUE, isSaving |-> FALSE, form |-> Defecto,
                 pregunta |-> Nada, token |-> 0]
  /\ lecturas' = [vps |-> FALSE, config |-> Nada]
  /\ original' = configuracion
  /\ editados' = {c \in Campo : \E g \in guardados : g.body[c] # configuracion[c]}
  /\ solapadas' = (regeneraciones # {})
  /\ UNCHANGED <<guardados, regeneraciones, eliminaciones, remoto>>

\* What the server has not done yet it may still do, and nobody waits for the answer.
DesmontarDetalle ==
  /\ detalle # Nada
  /\ detalle' = Nada /\ lecturas' = Nada
  /\ guardados' = {[g EXCEPT !.propio = FALSE] : g \in {h \in guardados : ~h.hecho}}
  /\ regeneraciones' = {[token |-> 0, propia |-> FALSE] :
                         g \in {h \in regeneraciones : h.token = 0}}
  /\ UNCHANGED <<eliminaciones, remoto, historia>>

FormularioVisible == detalle # Nada /\ ~detalle.isLoading /\ detalle.vps
------------------------------------------------------------------------------
(* loadData *)

\* getConfiguracion is read by the server at some time before it is told.
LecturaConfig ==
  /\ existe /\ lecturas # Nada /\ lecturas.config = Nada
  /\ lecturas' = [lecturas EXCEPT !.config = configuracion]
  /\ UNCHANGED <<detalle, guardados, regeneraciones, eliminaciones, remoto, historia>>

\* Mutant: the VPS is shown as soon as it comes.
LecturaVps_alMomento ==
  /\ existe /\ lecturas # Nada /\ ~lecturas.vps
  /\ lecturas' = [lecturas EXCEPT !.vps = TRUE]
  /\ detalle' = [detalle EXCEPT !.vps = TRUE, !.isLoading = FALSE]
  /\ UNCHANGED <<guardados, regeneraciones, eliminaciones, remoto, historia>>

LecturaVps ==
  /\ existe /\ lecturas # Nada /\ ~lecturas.vps
  /\ lecturas' = [lecturas EXCEPT !.vps = TRUE]
  /\ UNCHANGED <<detalle, guardados, regeneraciones, eliminaciones, remoto, historia>>

\* Promise.all: both came, or one of them failed and there is nothing to show.
DatosCargados ==
  /\ lecturas # Nada
  /\ lecturas' = Nada
  /\ \/ /\ lecturas.vps /\ lecturas.config # Nada
        /\ detalle' = [detalle EXCEPT !.vps = TRUE, !.form = lecturas.config,
                                      !.isLoading = FALSE]
     \/ detalle' = [detalle EXCEPT !.isLoading = FALSE]
  /\ UNCHANGED <<guardados, regeneraciones, eliminaciones, remoto, historia>>
------------------------------------------------------------------------------
(* The form *)

\* ngModelChange, a click on a card, toggleSeveridad: also while a save is in flight.
Editar(c, v) ==
  /\ FormularioVisible /\ detalle.form[c] # v
  /\ detalle' = [detalle EXCEPT !.form[c] = v]
  /\ editados' = editados \cup {c}
  /\ UNCHANGED <<lecturas, guardados, regeneraciones, eliminaciones, remoto, original, solapadas>>

Propios == {g \in guardados : g.propio}

guardarCambios ==
  /\ FormularioVisible /\ ~detalle.isSaving /\ Cardinality(guardados) < EnVuelo
  /\ detalle' = [detalle EXCEPT !.isSaving = TRUE]
  /\ guardados' = guardados \cup {[body |-> detalle.form, hecho |-> FALSE, propio |-> TRUE]}
  /\ UNCHANGED <<lecturas, regeneraciones, eliminaciones, remoto, historia>>

\* configuracion.service.ts update: the fields that come, and all of them do.
Guardar(g) ==
  /\ existe /\ g \in guardados /\ ~g.hecho
  /\ configuracion' = g.body
  /\ guardados' = (guardados \ {g}) \cup {[h EXCEPT !.hecho = TRUE] : h \in {g} \cap Propios}
  /\ UNCHANGED <<detalle, lecturas, regeneraciones, eliminaciones, tokenVps, historia>>

\* Saved or not, the form stays as it is.
GuardadoRespondido(g) ==
  /\ g \in guardados
  /\ guardados' = guardados \ {g}
  /\ detalle' = IF g.propio THEN [detalle EXCEPT !.isSaving = FALSE] ELSE detalle
  /\ UNCHANGED <<lecturas, regeneraciones, eliminaciones, remoto, historia>>
------------------------------------------------------------------------------
(* The danger zone *)

\* regenerarToken and eliminarServidor ask first.
Preguntar(que) ==
  /\ FormularioVisible /\ detalle.pregunta = Nada /\ detalle.token = 0
  /\ detalle' = [detalle EXCEPT !.pregunta = que]
  /\ UNCHANGED <<lecturas, guardados, regeneraciones, eliminaciones, remoto, historia>>

CancelarPregunta ==
  /\ detalle # Nada /\ detalle.pregunta # Nada
  /\ detalle' = [detalle EXCEPT !.pregunta = Nada]
  /\ UNCHANGED <<lecturas, guardados, regeneraciones, eliminaciones, remoto, historia>>

doRegenerarToken ==
  /\ detalle # Nada /\ detalle.pregunta = "regenerar" /\ Cardinality(regeneraciones) < EnVuelo
  /\ detalle' = [detalle EXCEPT !.pregunta = Nada]
  /\ regeneraciones' = regeneraciones \cup {[token |-> 0, propia |-> TRUE]}
  /\ solapadas' = (solapadas \/ regeneraciones # {} \/ detalle.token # 0)
  /\ UNCHANGED <<lecturas, guardados, eliminaciones, remoto, original, editados>>

Regenerar(g) ==
  /\ existe /\ g \in regeneraciones /\ g.token = 0 /\ tokenVps < Tokens
  /\ tokenVps' = tokenVps + 1
  /\ regeneraciones' = (regeneraciones \ {g}) \cup {[g EXCEPT !.token = tokenVps + 1]}
  /\ UNCHANGED <<detalle, lecturas, guardados, eliminaciones, configuracion, historia>>

\* The window with the new token, or nothing: then the old one is gone and nobody has the
\* new one, unless it is replaced again.
RegeneracionRespondida(g) ==
  /\ g \in regeneraciones
  /\ regeneraciones' = regeneraciones \ {g}
  /\ \E bien \in vpsService(PeticionDetalle("vps.regenerateToken"), g.token # 0) :
       detalle' = IF bien /\ g.propia THEN [detalle EXCEPT !.token = g.token] ELSE detalle
  /\ UNCHANGED <<lecturas, guardados, eliminaciones, remoto, historia>>

closeTokenModal ==
  /\ detalle # Nada /\ detalle.token # 0
  /\ detalle' = [detalle EXCEPT !.token = 0]
  /\ UNCHANGED <<lecturas, guardados, regeneraciones, eliminaciones, remoto, historia>>

doEliminarServidor ==
  /\ detalle # Nada /\ detalle.pregunta = "eliminar"
  /\ detalle' = [detalle EXCEPT !.pregunta = Nada]
  /\ eliminaciones' = eliminaciones \cup {FALSE}
  /\ UNCHANGED <<lecturas, guardados, regeneraciones, remoto, historia>>

\* softDelete: the server is in no list that is read from now on.
Eliminar ==
  /\ existe /\ FALSE \in eliminaciones
  /\ servidores' = filter(servidores, Servidor \ {vpsId})
  /\ omitida' = TRUE
  /\ eliminaciones' = (eliminaciones \ {FALSE}) \cup {TRUE}
  /\ UNCHANGED <<pagina, ventana, consulta, creaciones>>
  /\ UNCHANGED <<detalle, lecturas, guardados, regeneraciones, remoto, historia>>

\* The promise outlives the page that made it; bien is whether it says that it was done.
EliminacionRespondida(bien) ==
  \E hecho \in eliminaciones :
    /\ bien \in vpsService(PeticionDetalle("vps.remove"), hecho)
    /\ eliminaciones' = eliminaciones \ {hecho}
    /\ UNCHANGED <<detalle, lecturas, guardados, regeneraciones, remoto, historia>>

\* All but the clicks that begin something, and Eliminar, which the list feels.
PasoDetalle ==
  \/ LecturaConfig \/ LecturaVps \/ DatosCargados
  \/ \E c \in Campo, v \in Valor : Editar(c, v)
  \/ \E g \in guardados : Guardar(g) \/ GuardadoRespondido(g)
  \/ CancelarPregunta \/ doRegenerarToken \/ closeTokenModal
  \/ \E g \in regeneraciones : Regenerar(g) \/ RegeneracionRespondida(g)
  \/ doEliminarServidor
------------------------------------------------------------------------------
(* Properties *)

\* A save sends every field, and yet changes none that the owner did not touch: neither the
\* defaults of the form nor a half that came first reach the server.
NoPisaConfiguracion ==
  detalle # Nada => \A c \in Campo : configuracion[c] # original[c] => c \in editados

\* The token on the screen is the one the agent needs, unless it was replaced again before
\* that one was read and its window closed.
TokenFiel ==
  detalle # Nada /\ detalle.token # 0 /\ regeneraciones = {} /\ ~solapadas
  => detalle.token = tokenVps
==============================================================================
