---------------------------- MODULE EntregaEventos ----------------------------
(***************************************************************************)
(* What the agent promises about the events of its monitors, with no       *)
(* thread, no signal and no phase of a loop: an event waits in one line    *)
(* until a batch from the head of the line is put on record in one step,   *)
(* and then in a second line until it was tried often enough or confirmed. *)
(* It is in one line at most, it never comes back, and nothing but the end *)
(* of the process, or of the database under it, takes it out of the first  *)
(* line without a record; what has no record is never sent.                *)
(* TuberiaEventos is shown to implement this module.                       *)
(***************************************************************************)
EXTENDS Naturals, Sequences

CONSTANTS
  MaxCola,        \* what the queue holds
  Lote,           \* what a batch holds
  MaxReintentos,  \* how often an event may be tried
  MaxEventos      \* BOUND: the events that happen

VARIABLES
  nacidos,     \* how many events happened
  hallados,    \* the events that a monitor has yet to hand over
  espera,      \* those that were handed over and are not on record, in order
  salida,      \* those that are on record and may still be sent, in order
  tabla,       \* the rows of events in the database
  fallidos,    \* the events that were logged because their insert failed
  cerrada,     \* the database is closed
  borrados,    \* the events that were deleted from the database
  recibidos,   \* recibidos[e]: how often the server created a row for e
  confirmados  \* the events for which the sender saw an answer

varsEntrega == <<nacidos, hallados, espera, salida, tabla, fallidos, cerrada, borrados,
                 recibidos, confirmados>>
varsAgente == <<nacidos, hallados, espera, salida>>
varsServidor == <<recibidos, confirmados>>
varsRegistro == <<tabla, fallidos, borrados, cerrada>>

Evento == 1..MaxEventos
Elementos(s) == {s[i] : i \in DOMAIN s}

Init ==
  /\ nacidos = 0 /\ hallados = {} /\ espera = <<>> /\ salida = <<>>
  /\ tabla = {} /\ fallidos = {} /\ borrados = {} /\ cerrada = FALSE
  /\ recibidos = [e \in Evento |-> 0] /\ confirmados = {}

\* A cycle of a monitor finds events that nobody has seen.
Hallar(n) ==
  /\ nacidos + n <= MaxEventos
  /\ nacidos' = nacidos + n
  /\ hallados' = hallados \cup (nacidos + 1 .. nacidos + n)
  /\ UNCHANGED <<espera, salida, varsRegistro, varsServidor>>

\* There is no other way into the line, and its length is bounded.
Aceptar(e) ==
  /\ e \in hallados /\ Len(espera) < MaxCola + Lote
  /\ hallados' = hallados \ {e}
  /\ espera' = Append(espera, e)
  /\ UNCHANGED <<nacidos, salida, varsRegistro, varsServidor>>

\* A monitor gives up only when the line is long.
Descartar(S) ==
  /\ S \subseteq hallados /\ Len(espera) >= MaxCola
  /\ hallados' = hallados \ S
  /\ UNCHANGED <<nacidos, espera, salida, varsRegistro, varsServidor>>

\* A batch is stored or logged as a whole; the last one before the end is not sent.
Anotar(n) ==
  LET lote == SubSeq(espera, 1, n) IN
  /\ ~cerrada /\ salida = <<>> /\ n <= Len(espera)
  /\ espera' = SubSeq(espera, n + 1, Len(espera))
  /\ salida' \in {lote, <<>>}
  /\ \/ tabla' = tabla \cup Elementos(lote) /\ UNCHANGED fallidos
     \/ fallidos' = fallidos \cup Elementos(lote) /\ UNCHANGED tabla
  /\ UNCHANGED <<nacidos, hallados, borrados, cerrada, varsServidor>>

\* The closed database refuses a batch: there is no record of it, and it is not sent.
Perder(n) ==
  /\ cerrada /\ salida = <<>> /\ n <= Len(espera)
  /\ espera' = SubSeq(espera, n + 1, Len(espera))
  /\ UNCHANGED <<nacidos, hallados, salida, varsRegistro, varsServidor>>

\* A POST for the first of the line: a confirmed event leaves it, any other stays or leaves,
\* whether it arrived or not.
Enviar ==
  /\ salida # <<>>
  /\ \/ /\ recibidos' = [recibidos EXCEPT ![Head(salida)] = @ + 1]
        /\ confirmados' = confirmados \cup {Head(salida)}
        /\ salida' = Tail(salida)
     \/ /\ recibidos' \in {recibidos, [recibidos EXCEPT ![Head(salida)] = @ + 1]}
        /\ salida' \in {salida, Tail(salida)}
        /\ UNCHANGED confirmados
  /\ recibidos'[Head(salida)] <= MaxReintentos
  /\ UNCHANGED <<nacidos, hallados, espera, varsRegistro>>

\* A batch that is on record need not be sent.
Callar ==
  /\ salida' = <<>>
  /\ UNCHANGED <<nacidos, hallados, espera, varsRegistro, varsServidor>>

\* The oldest rows go.
Borrar ==
  /\ ~cerrada
  /\ \E e \in tabla : tabla' = {f \in tabla : f > e}
  /\ borrados' = borrados \cup (tabla \ tabla')
  /\ UNCHANGED <<fallidos, cerrada, varsAgente, varsServidor>>

\* The database is closed; what was sent already may still be tried again.
Cerrar ==
  /\ cerrada' = TRUE
  /\ UNCHANGED <<tabla, fallidos, borrados, varsAgente, varsServidor>>

\* The process ends: what it had in memory is gone, and does not come back.  The next one
\* opens the database again.
Morir ==
  /\ hallados' = {} /\ espera' = <<>> /\ salida' = <<>> /\ cerrada' = FALSE
  /\ UNCHANGED <<nacidos, tabla, fallidos, borrados, varsServidor>>

Next ==
  \/ \E n \in 1..MaxEventos : Hallar(n)
  \/ \E e \in hallados : Aceptar(e)
  \/ \E S \in SUBSET hallados : Descartar(S)
  \/ \E n \in 1..Lote : Anotar(n)
  \/ \E n \in 1..Lote : Perder(n)
  \/ Enviar
  \/ Callar
  \/ Borrar
  \/ Cerrar
  \/ Morir

Spec == Init /\ [][Next]_varsEntrega
==============================================================================
