----------------------------- MODULE ListaBlanca -----------------------------
(***************************************************************************)
(* client whitelist.component.ts: the table of trusted addresses, which is *)
(* loaded once and then kept by the page itself, adding what it was told   *)
(* was added and removing what it was told was removed.                    *)
(*                                                                         *)
(* One entry is added at a time; entries are removed independently, and    *)
(* the table with its buttons is hidden while it is being loaded, but not  *)
(* the form.  What was asked for goes on when the page is left: the server *)
(* carries it out before, while or after the next page reads its list.     *)
(*                                                                         *)
(* Abstracted: what an entry says, so that an entry is the row the server  *)
(* makes of the form; whether the form is valid; the list of VPS.          *)
(***************************************************************************)
EXTENDS ClienteApi, Listas, SequencesExt

CONSTANT Entrada

ASSUME BlancaConstantes == IsFiniteSet(Entrada)

VARIABLES
  blanca,     \* the signals of the component, Nada when it does not exist
  entradas,   \* the rows of the server, newest first
  lectura,    \* the request for the list: Nada, or what the server read, if it did
  altas,      \* the additions in flight: the row, whether it was made, whether of this page
  bajas,      \* the removals in flight, likewise
  desfasada   \* history: an answer said less than what was done, an entry was added while
              \* the list was being loaded, or what an earlier page asked for was done
              \* after this one read its list

varsBlanca == <<blanca, entradas, lectura, altas, bajas, desfasada>>

BlancaNueva == [entries |-> <<>>, isLoading |-> TRUE, isAdding |-> FALSE, deleteTarget |-> Nada]
Senales == [entries : Seq(Entrada), isLoading : BOOLEAN, isAdding : BOOLEAN,
            deleteTarget : Entrada \cup {Nada}]
Lectura == [leida : BOOLEAN, filas : Seq(Entrada)]
Marca == [id : Entrada, hecho : BOOLEAN, propia : BOOLEAN]

ASSUME NadaNoEsEntrada == Nada \notin Entrada \cup Senales \cup Lectura

TypeOKBlanca ==
  /\ blanca \in Senales \cup {Nada} /\ lectura \in Lectura \cup {Nada}
  /\ entradas \in Seq(Entrada) /\ IsInjective(entradas)
  /\ altas \subseteq Marca /\ bajas \subseteq Marca
  /\ desfasada \in BOOLEAN

InitBlanca ==
  /\ blanca = Nada
  /\ entradas \in UNION {SetToSeqs(S) : S \in SUBSET Entrada}
  /\ lectura = Nada /\ altas = {} /\ bajas = {} /\ desfasada = FALSE

PeticionBlanca(op, id, body) ==
  Peticion([op |-> op, path |-> id, query |-> <<>>, body |-> body], TRUE)
EnBlanca(id) == \E i \in DOMAIN blanca.entries : blanca.entries[i] = id

Ids(S) == {x.id : x \in S}

\* What is done for x now is not in the list of the page that is there.
Tardia(x) == ~x.propia /\ (lectura = Nada \/ lectura.leida)

\* ngOnInit: loadEntries.
MontarBlanca ==
  /\ blanca = Nada
  /\ blanca' = BlancaNueva
  /\ lectura' = [leida |-> FALSE, filas |-> <<>>]
  /\ desfasada' = FALSE
  /\ UNCHANGED <<entradas, altas, bajas>>

\* The requests go on, and their answers find signals that nobody reads.
DesmontarBlanca ==
  /\ blanca # Nada
  /\ blanca' = Nada /\ lectura' = Nada
  /\ altas' = Ajenas(altas) /\ bajas' = Ajenas(bajas)
  /\ UNCHANGED <<entradas, desfasada>>
------------------------------------------------------------------------------
(* The server: whitelist.service.ts.  Only what exists is removed. *)

AtenderBlanca ==
  /\ lectura # Nada /\ ~lectura.leida
  /\ lectura' = [leida |-> TRUE, filas |-> entradas]
  /\ UNCHANGED <<blanca, entradas, altas, bajas, desfasada>>

CrearEntrada(a) ==
  /\ a \in altas /\ ~a.hecho
  /\ entradas' = <<a.id>> \o entradas
  /\ altas' = Hecha(altas, a)
  /\ desfasada' = (desfasada \/ Tardia(a))
  /\ UNCHANGED <<blanca, lectura, bajas>>

BorrarEntrada(b) ==
  /\ b \in bajas /\ ~b.hecho
  /\ b.id \in ToSet(entradas)
  /\ entradas' = filter(entradas, Entrada \ {b.id})
  /\ bajas' = Hecha(bajas, b)
  /\ desfasada' = (desfasada \/ Tardia(b))
  /\ UNCHANGED <<blanca, lectura, altas>>
------------------------------------------------------------------------------
(* The component *)

BlancaCargada ==
  /\ lectura # Nada
  /\ lectura' = Nada
  /\ \E d \in Desenlaces(PeticionBlanca("whitelist.findAll", Nada, Nada), lectura.leida) :
       /\ blanca' = [blanca EXCEPT !.isLoading = FALSE,
                                   !.entries = CASE d = "datos" -> lectura.filas
                                                 [] d = "error" -> @
                                                 [] d = "excepcion" -> <<>>]
       /\ desfasada' = (desfasada \/ d # "datos")
  /\ UNCHANGED <<entradas, altas, bajas>>

\* The button waits for the answer, not for the list.  The id is a new one: nobody has it.
onAdd(e) ==
  /\ blanca # Nada /\ ~blanca.isAdding
  /\ e \notin ToSet(entradas) \cup ToSet(blanca.entries) \cup Ids(altas \cup bajas)
               \cup {blanca.deleteTarget}
  /\ blanca' = [blanca EXCEPT !.isAdding = TRUE]
  /\ altas' = altas \cup {[id |-> e, hecho |-> FALSE, propia |-> TRUE]}
  /\ desfasada' = (desfasada \/ blanca.isLoading)
  /\ UNCHANGED <<entradas, lectura, bajas>>

\* The answer to an addition of this page, or of one that was left.
AltaRespondida(a) ==
  /\ a \in altas
  /\ altas' = altas \ {a}
  /\ \E d \in Desenlaces(PeticionBlanca("whitelist.create", Nada, a.id), a.hecho) :
       /\ blanca' = IF ~a.propia THEN blanca
                    ELSE [blanca EXCEPT !.isAdding = FALSE,
                                        !.entries = IF d = "datos" THEN <<a.id>> \o @ ELSE @]
       /\ desfasada' = (desfasada \/ (a.propia /\ a.hecho /\ d # "datos"))
  /\ UNCHANGED <<entradas, lectura, bajas>>

confirmarEliminar(e) ==
  /\ blanca # Nada /\ ~blanca.isLoading /\ EnBlanca(e) /\ blanca.deleteTarget = Nada
  /\ blanca' = [blanca EXCEPT !.deleteTarget = e]
  /\ UNCHANGED <<entradas, lectura, altas, bajas, desfasada>>

CancelarEliminar ==
  /\ blanca # Nada /\ blanca.deleteTarget # Nada
  /\ blanca' = [blanca EXCEPT !.deleteTarget = Nada]
  /\ UNCHANGED <<entradas, lectura, altas, bajas, desfasada>>

doEliminar ==
  /\ blanca # Nada /\ blanca.deleteTarget # Nada
  /\ blanca' = [blanca EXCEPT !.deleteTarget = Nada]
  /\ bajas' = bajas \cup {[id |-> blanca.deleteTarget, hecho |-> FALSE, propia |-> TRUE]}
  /\ UNCHANGED <<entradas, lectura, altas, desfasada>>

\* Mutant: what is filtered out is what the window asks about by then.
BajaRespondida_laPreguntada(b) ==
  /\ b \in bajas
  /\ bajas' = bajas \ {b}
  /\ \E d \in Desenlaces(PeticionBlanca("whitelist.remove", b.id, Nada), b.hecho) :
       /\ blanca' = IF b.propia /\ d = "datos"
                    THEN [blanca EXCEPT !.entries = filter(@, Entrada \ {blanca.deleteTarget})]
                    ELSE blanca
       /\ desfasada' = (desfasada \/ (b.propia /\ b.hecho /\ d # "datos"))
  /\ UNCHANGED <<entradas, lectura, altas>>

BajaRespondida(b) ==
  /\ b \in bajas
  /\ bajas' = bajas \ {b}
  /\ \E d \in Desenlaces(PeticionBlanca("whitelist.remove", b.id, Nada), b.hecho) :
       /\ blanca' = IF b.propia /\ d = "datos"
                    THEN [blanca EXCEPT !.entries = filter(@, Entrada \ {b.id})]
                    ELSE blanca
       /\ desfasada' = (desfasada \/ (b.propia /\ b.hecho /\ d # "datos"))
  /\ UNCHANGED <<entradas, lectura, altas>>

PasoBlanca ==
  \/ AtenderBlanca \/ BlancaCargada
  \/ \E a \in altas : CrearEntrada(a) \/ AltaRespondida(a)
  \/ \E e \in Entrada : onAdd(e) \/ confirmarEliminar(e)
  \/ CancelarEliminar \/ doEliminar
  \/ \E b \in bajas : BorrarEntrada(b) \/ BajaRespondida(b)
------------------------------------------------------------------------------
(* Properties *)

\* Though it is never loaded again, the table is the server's list, in its order, when the
\* page awaits nothing: however its additions and removals overlapped, and whatever an
\* earlier page had asked for that was done before the list was read.  Excepted is the
\* table that was told less than what was done: an answer was lost, an entry was added
\* before the list came, or an earlier page's request was carried out after it was read.
BlancaFiel ==
  /\ blanca # Nada /\ lectura = Nada /\ ~desfasada
  /\ \A x \in altas \cup bajas : ~x.propia
  => blanca.entries = entradas
==============================================================================
