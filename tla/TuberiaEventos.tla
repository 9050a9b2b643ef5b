--------------------------- MODULE TuberiaEventos ---------------------------
(***************************************************************************)
(* The agent's way of an event from a monitor to the database and to the   *)
(* server: agent/main.py, core/base_monitor.py, core/storage.py and        *)
(* senders/agent_sender.py.  Every monitor is a thread that puts what it   *)
(* finds into one bounded queue; the consumer thread takes from it, stores *)
(* batches and then sends them, with retries; the main thread waits for a  *)
(* signal, joins the others for a limited time and closes the database.    *)
(*                                                                         *)
(* Abstracted: what an event says (events are numbered in the order of     *)
(* their timestamps; a metric and an alert take the same way), the clock   *)
(* (what is due after an interval may be due at any time), and heartbeats, *)
(* which only take the consumer's time.  A process that is killed keeps    *)
(* what SQLite committed; power cuts are left out.                         *)
(***************************************************************************)
EXTENDS Naturals, Sequences, FiniteSets

CONSTANTS
  Monitor,        \* the monitor threads
  MaxCola,        \* QUEUE_MAXSIZE
  Lote,           \* log_batch_size
  MaxReintentos,  \* MAX_REINTENTOS
  ConSender,      \* there are credentials, so an AgenteSender
  MaxEventos,     \* BOUND: the events that happen
  MaxHallazgos,   \* BOUND: the events that one collect() returns
  MaxArranques,   \* BOUND: how often the process is started again
  Entorno         \* BOUND: the events of the environment an instance considers

EventosTuberia == {"sql", "red", "mantenimiento", "lento", "muerte"}

ASSUME TuberiaConstantes ==
  /\ MaxCola \in Nat \ {0} /\ Lote \in Nat \ {0} /\ MaxReintentos \in Nat \ {0}
  /\ MaxEventos \in Nat /\ MaxHallazgos \in Nat /\ MaxArranques \in Nat
  /\ ConSender \in BOOLEAN
  /\ Entorno \subseteq EventosTuberia

VARIABLES
  parar,       \* stop_event
  cola,        \* the queue
  monitor,     \* monitor[m]: where the thread of m is
  porPoner,    \* porPoner[m]: the events of its cycle that m has yet to put
  fase,        \* where the consumer is
  buffer,      \* the consumer's list
  envio,       \* the event of buffer that is being sent, and the attempt
  cerrada,     \* storage.cerrar() ran
  tarde,       \* it ran before the consumer had ended (history)
  tabla,       \* the rows of events in SQLite
  recibidos,   \* recibidos[e]: how often the server created a row for e
  arranques,   \* how often the process was started again
  nacidos,     \* how many events happened (history)
  aceptados,   \* the events put into the queue since the process started (history)
  antes,       \* those that were in when stop_event was set (history)
  fallidos,    \* the events of which an insert into the open database failed (history)
  borrados,    \* the events that maintenance deleted (history)
  confirmados  \* the events for which the sender saw 200 or 201 (history)

varsHilos == <<monitor, porPoner>>
varsConsumidor == <<fase, buffer, envio>>
varsHistoria == <<nacidos, aceptados, antes, fallidos, borrados, confirmados>>
varsTuberia == <<parar, cola, varsHilos, varsConsumidor, cerrada, tarde, tabla, recibidos,
                 arranques, varsHistoria>>

Evento == 1..MaxEventos
Elementos(s) == {s[i] : i \in DOMAIN s}

\* The promise about events: to it the consumer's list before it is stored is the head of
\* the queue, and afterwards what is left of it to send.
Entrega == INSTANCE EntregaEventos WITH
  hallados <- UNION {Elementos(porPoner[m]) : m \in Monitor},
  espera <- IF fase \in {"decidir", "enviar", "fin"} THEN cola ELSE buffer \o cola,
  salida <- IF fase = "enviar" \/ (fase = "decidir" /\ ~parar)
            THEN SubSeq(buffer, envio.indice, Len(buffer)) ELSE <<>>

SinEnvio == [indice |-> 1, intento |-> 1]

TypeOK ==
  /\ parar \in BOOLEAN /\ cerrada \in BOOLEAN /\ tarde \in BOOLEAN
  /\ cola \in Seq(Evento) /\ Len(cola) <= MaxCola
  /\ monitor \in [Monitor -> {"libre", "recoger", "poner", "fin"}]
  /\ porPoner \in [Monitor -> Seq(Evento)]
  /\ fase \in {"bucle", "tomar", "guardar", "decidir", "enviar", "mantener", "vaciar", "fin"}
  /\ buffer \in Seq(Evento) /\ Len(buffer) <= Lote
  /\ envio \in [indice : 1..Lote, intento : 1..MaxReintentos]
  /\ recibidos \in [Evento -> Nat]
  /\ arranques \in 0..MaxArranques /\ nacidos \in 0..MaxEventos
  /\ tabla \cup aceptados \cup antes \cup fallidos \cup borrados \cup confirmados
       \subseteq Evento

Init ==
  /\ parar = FALSE
  /\ cerrada = FALSE
  /\ tarde = FALSE
  /\ cola = <<>>
  /\ monitor = [m \in Monitor |-> "libre"]
  /\ porPoner = [m \in Monitor |-> <<>>]
  /\ fase = "bucle"
  /\ buffer = <<>>
  /\ envio = SinEnvio
  /\ tabla = {}
  /\ recibidos = [e \in Evento |-> 0]
  /\ arranques = 0
  /\ nacidos = 0
  /\ aceptados = {}
  /\ antes = {}
  /\ fallidos = {}
  /\ borrados = {}
  /\ confirmados = {}
------------------------------------------------------------------------------
(* A monitor: run_forever *)

MonitorA(m, paso) == monitor' = [monitor EXCEPT ![m] = paso]

EmpezarCiclo(m) ==
  /\ monitor[m] = "libre"
  /\ IF parar THEN MonitorA(m, "fin") ELSE MonitorA(m, "recoger")
  /\ UNCHANGED <<parar, cola, porPoner, varsConsumidor, cerrada, tarde, tabla, recibidos,
                 arranques, varsHistoria>>

\* collect() returns what happened since the last cycle; an exception returns nothing.
Recoger(m) ==
  /\ monitor[m] = "recoger"
  /\ \E n \in 0..MaxHallazgos :
       /\ nacidos + n <= MaxEventos
       /\ nacidos' = nacidos + n
       /\ porPoner' = [porPoner EXCEPT ![m] = [i \in 1..n |-> nacidos + i]]
       /\ MonitorA(m, IF n = 0 THEN "libre" ELSE "poner")
  /\ UNCHANGED <<parar, cola, varsConsumidor, cerrada, tarde, tabla, recibidos, arranques,
                 aceptados, antes, fallidos, borrados, confirmados>>

\* put blocks while the queue is full.
Poner(m) ==
  /\ monitor[m] = "poner"
  /\ Len(cola) < MaxCola
  /\ cola' = Append(cola, Head(porPoner[m]))
  /\ aceptados' = aceptados \cup {Head(porPoner[m])}
  /\ porPoner' = [porPoner EXCEPT ![m] = Tail(@)]
  /\ MonitorA(m, IF Len(porPoner[m]) = 1 THEN "libre" ELSE "poner")
  /\ UNCHANGED <<parar, varsConsumidor, cerrada, tarde, tabla, recibidos, arranques, nacidos,
                 antes, fallidos, borrados, confirmados>>

\* Mutant: the put that timed out is tried again.
Descartar_reintenta(m) ==
  /\ monitor[m] = "poner"
  /\ Len(cola) = MaxCola
  /\ UNCHANGED varsTuberia

\* The put of 2 s times out: this event and the rest of the cycle are dropped.
Descartar(m) ==
  /\ monitor[m] = "poner"
  /\ Len(cola) = MaxCola
  /\ porPoner' = [porPoner EXCEPT ![m] = <<>>]
  /\ MonitorA(m, "libre")
  /\ UNCHANGED <<parar, cola, varsConsumidor, cerrada, tarde, tabla, recibidos, arranques,
                 varsHistoria>>
------------------------------------------------------------------------------
(* The consumer *)

Pasar(siguiente) ==
  /\ fase' = siguiente
  /\ UNCHANGED <<parar, varsHilos, cerrada, tarde, arranques, nacidos, aceptados, antes>>

\* Mutant: the loop only looks at stop_event.
Girar_sinMirarCola ==
  /\ fase = "bucle"
  /\ Pasar(IF parar THEN "vaciar" ELSE "tomar")
  /\ UNCHANGED <<cola, buffer, envio, tabla, recibidos, fallidos, borrados, confirmados>>

Girar ==
  /\ fase = "bucle"
  /\ Pasar(IF parar /\ cola = <<>> THEN "vaciar" ELSE "tomar")
  /\ UNCHANGED <<cola, buffer, envio, tabla, recibidos, fallidos, borrados, confirmados>>

\* Mutant: a full batch is sent first.
Tomar_sinGuardar ==
  /\ fase = "tomar"
  /\ \/ /\ cola # <<>>
        /\ buffer' = Append(buffer, Head(cola))
        /\ cola' = Tail(cola)
     \/ cola = <<>> /\ UNCHANGED <<buffer, cola>>
  /\ Pasar(IF Len(buffer') >= Lote THEN "decidir" ELSE "mantener")
  /\ UNCHANGED <<envio, tabla, recibidos, fallidos, borrados, confirmados>>

\* get gives up after 1 s if there is nothing.
Tomar ==
  /\ fase = "tomar"
  /\ \/ /\ cola # <<>>
        /\ buffer' = Append(buffer, Head(cola))
        /\ cola' = Tail(cola)
     \/ cola = <<>> /\ UNCHANGED <<buffer, cola>>
  /\ Pasar(IF Len(buffer') >= Lote THEN "guardar" ELSE "mantener")
  /\ UNCHANGED <<envio, tabla, recibidos, fallidos, borrados, confirmados>>

\* guardar_eventos: one transaction; an error is logged and forgotten, and so is the error
\* of every call after cerrar().
guardar_eventos ==
  \/ /\ ~cerrada
     /\ tabla' = tabla \cup Elementos(buffer)
     /\ UNCHANGED fallidos
  \/ /\ ~cerrada /\ "sql" \in Entorno
     /\ fallidos' = fallidos \cup Elementos(buffer)
     /\ UNCHANGED tabla
  \/ cerrada /\ UNCHANGED <<tabla, fallidos>>

Guardar ==
  /\ fase = "guardar"
  /\ guardar_eventos
  /\ Pasar("decidir")
  /\ UNCHANGED <<cola, buffer, envio, recibidos, borrados, confirmados>>

\* Mutant: what is not sent stays in the buffer.
Decidir_sinVaciar ==
  /\ fase = "decidir"
  /\ Pasar(IF ConSender /\ ~parar THEN "enviar" ELSE "mantener")
  /\ UNCHANGED <<cola, buffer, envio, tabla, recibidos, fallidos, borrados, confirmados>>

\* Nothing is sent any more during a shutdown.
Decidir ==
  /\ fase = "decidir"
  /\ \/ ConSender /\ ~parar /\ Pasar("enviar") /\ UNCHANGED buffer
     \/ (~ConSender \/ parar) /\ Pasar("mantener") /\ buffer' = <<>>
  /\ UNCHANGED <<cola, envio, tabla, recibidos, fallidos, borrados, confirmados>>

EnVuelo == buffer[envio.indice]

\* Mutant: buffer.clear() is missing.
Siguiente_guardaLote ==
  IF envio.indice < Len(buffer)
  THEN /\ envio' = [indice |-> envio.indice + 1, intento |-> 1]
       /\ Pasar("enviar")
       /\ UNCHANGED buffer
  ELSE envio' = SinEnvio /\ Pasar("decidir") /\ UNCHANGED buffer

\* The loop over the batch goes on; buffer.clear() after the last one.
Siguiente ==
  IF envio.indice < Len(buffer)
  THEN /\ envio' = [indice |-> envio.indice + 1, intento |-> 1]
       /\ Pasar("enviar")
       /\ UNCHANGED buffer
  ELSE envio' = SinEnvio /\ Pasar("mantener") /\ buffer' = <<>>

\* _enviar_con_retry; every POST that arrives creates a row (createAlerta,
\* createMetrica).
Confirmar ==
  /\ fase = "enviar"
  /\ recibidos' = [recibidos EXCEPT ![EnVuelo] = @ + 1]
  /\ confirmados' = confirmados \cup {EnVuelo}
  /\ Siguiente
  /\ UNCHANGED <<cola, tabla, fallidos, borrados>>

\* The POST fails for the sender: it did not arrive, or the answer is lost, late or an
\* error although the row was created (createAlerta blocks afterwards).
Fracasar ==
  /\ "red" \in Entorno
  /\ fase = "enviar"
  /\ recibidos' \in {recibidos, [recibidos EXCEPT ![EnVuelo] = @ + 1]}
  /\ \/ /\ envio.intento < MaxReintentos
        /\ envio' = [envio EXCEPT !.intento = @ + 1]
        /\ Pasar("enviar")
        /\ UNCHANGED buffer
     \/ envio.intento = MaxReintentos /\ Siguiente
  /\ UNCHANGED <<cola, tabla, fallidos, borrados, confirmados>>

\* limpiar_antiguos and limitar_por_tamano delete the oldest rows.
Mantener ==
  /\ fase = "mantener"
  /\ \/ UNCHANGED <<tabla, borrados>>
     \/ /\ "mantenimiento" \in Entorno /\ ~parar /\ ~cerrada
        /\ \E e \in tabla :
             /\ tabla' = {f \in tabla : f > e}
             /\ borrados' = borrados \cup (tabla \ tabla')
  /\ Pasar("bucle")
  /\ UNCHANGED <<cola, buffer, envio, recibidos, fallidos, confirmados>>

\* After the loop: what is left of a batch.
Vaciar ==
  /\ fase = "vaciar"
  /\ \/ buffer = <<>> /\ UNCHANGED <<tabla, fallidos>>
     \/ buffer # <<>> /\ guardar_eventos
  /\ Pasar("fin")
  /\ UNCHANGED <<cola, buffer, envio, recibidos, borrados, confirmados>>
------------------------------------------------------------------------------
(* The process *)

\* SIGINT or SIGTERM.
Parar ==
  /\ ~parar
  /\ parar' = TRUE
  /\ antes' = aceptados
  /\ UNCHANGED <<cola, varsHilos, varsConsumidor, cerrada, tarde, tabla, recibidos, arranques,
                 nacidos, aceptados, fallidos, borrados, confirmados>>

HilosAcabados == fase = "fin" /\ \A m \in Monitor : monitor[m] = "fin"

\* main joins the threads, each for 10 or 15 s at most, and closes the database.
\* Threads that outlast it go on: the interpreter waits for them.
Cerrar ==
  /\ parar
  /\ ~cerrada
  /\ HilosAcabados \/ "lento" \in Entorno
  /\ cerrada' = TRUE
  /\ tarde' = (fase # "fin")
  /\ UNCHANGED <<parar, cola, varsHilos, varsConsumidor, tabla, recibidos, arranques,
                 varsHistoria>>

Acabado == cerrada /\ HilosAcabados

\* The process is started again after it ended, or was killed.
Arrancar ==
  /\ arranques < MaxArranques
  /\ Acabado \/ "muerte" \in Entorno
  /\ arranques' = arranques + 1
  /\ parar' = FALSE
  /\ cerrada' = FALSE
  /\ tarde' = FALSE
  /\ cola' = <<>>
  /\ monitor' = [m \in Monitor |-> "libre"]
  /\ porPoner' = [m \in Monitor |-> <<>>]
  /\ fase' = "bucle"
  /\ buffer' = <<>>
  /\ envio' = SinEnvio
  /\ aceptados' = {}
  /\ antes' = {}
  /\ UNCHANGED <<tabla, recibidos, nacidos, fallidos, borrados, confirmados>>

PasoMonitor(m) ==
  \/ EmpezarCiclo(m)
  \/ Recoger(m)
  \/ Poner(m)
  \/ Descartar(m)

PasoConsumidor ==
  \/ Girar
  \/ Tomar
  \/ Guardar
  \/ Decidir
  \/ Confirmar
  \/ Fracasar
  \/ Mantener
  \/ Vaciar

Next ==
  \/ \E m \in Monitor : PasoMonitor(m)
  \/ PasoConsumidor
  \/ Parar
  \/ Cerrar
  \/ Arrancar
  \/ Acabado /\ UNCHANGED varsTuberia

Spec == Init /\ [][Next]_varsTuberia

\* Every call a thread makes returns: they all have a timeout.
SpecJusta ==
  /\ Spec
  /\ \A m \in Monitor : WF_varsTuberia(PasoMonitor(m))
  /\ WF_varsTuberia(PasoConsumidor)
  /\ WF_varsTuberia(Cerrar)
------------------------------------------------------------------------------
(* Properties *)

\* Claimed: the shutdown loses nothing, because the monitors stop producing and the
\* consumer is drained afterwards (agent/ARCHITECTURE.md, agent/README.md).  What a monitor
\* put into the queue is on record when everything has ended.
ApagadoSinPerdida ==
  Acabado => aceptados \subseteq tabla \cup borrados \cup fallidos

\* What the shutdown does keep: if the consumer ended while the database was still open,
\* every event that was in the queue or in the consumer's list when the signal came is on
\* record, or an insert into the open database failed.  Events put after the signal are not
\* covered, nor those of a consumer that outlasts its join.
VaciadoATiempo ==
  fase = "fin" /\ ~tarde => antes \subseteq tabla \cup borrados \cup fallidos

\* An event the server was told of had been handed to the open database before, over kills,
\* restarts and a database closed early.  (A batch whose insert fails with an error is logged
\* and sent all the same: that one has no row.)
EnviadoEstaGuardado ==
  \A e \in Evento : recibidos[e] > 0 => e \in tabla \cup borrados \cup fallidos

\* What the server confirmed is never sent again, whatever later events of the batch,
\* shutdowns and restarts do; and nothing arrives more often than it is tried.
SinReenvio ==
  [][\A e \in Evento : (e \in confirmados => recibidos'[e] = recibidos[e])
                       /\ recibidos'[e] <= MaxReintentos]_varsTuberia

\* To the server and the database the agent is a single line: events are stored in the order
\* in which they were accepted, in batches, sent in that order once on record, and each of
\* them leaves for good, though monitors, consumer, signal and restarts interleave.
CumpleEntrega == Entrega!Spec

\* After the signal the process ends, whatever the queue, the network and the
\* database do: no monitor hangs in a full queue that nobody empties any more.
ApagadoTermina == parar ~> (Acabado \/ ~parar)
==============================================================================
