--------------------------- MODULE WebSocketClient ---------------------------
(***************************************************************************)
(* agent/src/lumi_agent/control/websocket_client.py: the end of the        *)
(* control channel in the agent of a VPS.  Every order that arrives runs   *)
(* in a thread of its own (start_background_task), here a Tarea; the       *)
(* threads of one process share the memory of processed ids and the        *)
(* firewall manager, which they use at the level of Cortafuegos (one       *)
(* atomic step per call; UfwManager implements it).  The network is in the *)
(* modules that use this one.  SpecCliente leaves it out and delivers any  *)
(* order to any thread, however often.                                     *)
(***************************************************************************)
EXTENDS Naturals, FiniteSets

CONSTANTS
  Agente,          \* the agents, one per VPS
  Tarea,           \* the threads, one per delivered order
  Id,              \* the bloqueoIds
  Ip,              \* the addresses that are blocked
  Nada,            \* a missing field of an order, an order not yet there
  MaxProcesados    \* how many ids the memory holds before it is cleared: 1000

VARIABLES
  tarea,        \* tarea[t]: where the thread is
  encargo,      \* encargo[t]: the order it was started with
  resultado,    \* resultado[t]: the estado it has to report
  procesados,   \* procesados[a]: _procesados
  vida,         \* vida[a]: how often the process was started anew (history)
  admitida,     \* admitida[t]: the life in which t was let through (history)
  firewall      \* firewall[a]: the addresses denied by UFW

varsCliente == <<tarea, encargo, resultado, procesados, vida, admitida, firewall>>

Evento == {"bloquear-ip", "desbloquear-ip"}
Encargo == [agente : Agente, evento : Evento, id : Id \cup {Nada}, ip : Ip \cup {Nada}]

\* What a thread reports: a ResultadoUFW, or why it did not get to the firewall.
Resultado == {"bloqueada", "ya_bloqueada", "desbloqueada", "no_existia", "error",
              "repetida", "incompleta"}

TypeOKCliente ==
  /\ tarea \in [Tarea -> {"libre", "llegada", "operar", "responder", "fin", "perdida"}]
  /\ encargo \in [Tarea -> Encargo \cup {Nada}]
  /\ resultado \in [Tarea -> Resultado \cup {Nada}]
  /\ procesados \in [Agente -> SUBSET Id]
  /\ vida \in [Agente -> Nat]
  /\ admitida \in [Tarea -> Nat \cup {Nada}]
  /\ firewall \in [Agente -> SUBSET Ip]

InitCliente ==
  /\ tarea = [t \in Tarea |-> "libre"]
  /\ encargo = [t \in Tarea |-> Nada]
  /\ resultado = [t \in Tarea |-> Nada]
  /\ procesados = [a \in Agente |-> {}]
  /\ vida = [a \in Agente |-> 0]
  /\ admitida = [t \in Tarea |-> Nada]
  /\ firewall = [a \in Agente |-> {}]

\* on_bloquear / on_desbloquear
Recibir(t, e) ==
  /\ tarea[t] = "libre"
  /\ tarea' = [tarea EXCEPT ![t] = "llegada"]
  /\ encargo' = [encargo EXCEPT ![t] = e]
  /\ UNCHANGED <<resultado, procesados, vida, admitida, firewall>>

Informar(t, r) ==
  /\ tarea' = [tarea EXCEPT ![t] = "responder"]
  /\ resultado' = [resultado EXCEPT ![t] = r]

\* "payload incompleto": judged before the id is looked up.
RechazarIncompleta(t) ==
  /\ tarea[t] = "llegada"
  /\ Nada \in {encargo[t].id, encargo[t].ip}
  /\ Informar(t, "incompleta")
  /\ UNCHANGED <<encargo, procesados, vida, admitida, firewall>>

\* _ya_procesado, under its lock: an id is remembered when it is first seen, for
\* orders of both kinds, whatever becomes of the order.  A memory that grew too
\* large is emptied, of the id just added too.
ya_procesado(t) ==
  LET a == encargo[t].agente
      memoria == procesados[a] \cup {encargo[t].id}
  IN
  /\ tarea[t] = "llegada"
  /\ Nada \notin {encargo[t].id, encargo[t].ip}
  /\ \/ /\ encargo[t].id \in procesados[a]
        /\ Informar(t, "repetida")
        /\ UNCHANGED <<procesados, admitida>>
     \/ /\ encargo[t].id \notin procesados[a]
        /\ tarea' = [tarea EXCEPT ![t] = "operar"]
        /\ admitida' = [admitida EXCEPT ![t] = vida[a]]
        /\ procesados' = [procesados EXCEPT ![a] =
                            IF Cardinality(memoria) > MaxProcesados THEN {} ELSE memoria]
        /\ UNCHANGED resultado
  /\ UNCHANGED <<encargo, vida, firewall>>

\* ufw.bloquear / ufw.desbloquear(verificar=False): an error may hide an effect.
Operar(t) ==
  LET a == encargo[t].agente
      ip == encargo[t].ip
      bloqueo == encargo[t].evento = "bloquear-ip"
      tabla == IF bloqueo THEN firewall[a] \cup {ip} ELSE firewall[a] \ {ip}
  IN
  /\ tarea[t] = "operar"
  /\ \/ /\ firewall' = [firewall EXCEPT ![a] = tabla]
        /\ Informar(t, IF bloqueo
                       THEN IF ip \in firewall[a] THEN "ya_bloqueada" ELSE "bloqueada"
                       ELSE IF ip \in firewall[a] THEN "desbloqueada" ELSE "no_existia")
     \/ /\ firewall' \in {firewall, [firewall EXCEPT ![a] = tabla]}
        /\ Informar(t, "error")
  /\ UNCHANGED <<encargo, procesados, vida, admitida>>

\* The field exito of the answer: an id seen before counts as a success.
exito(t) == resultado[t] \notin {"error", "incompleta"}

\* _responder: one emit, which may fail; the thread ends either way.
responder(t) ==
  /\ tarea[t] = "responder"
  /\ tarea' = [tarea EXCEPT ![t] = "fin"]
  /\ UNCHANGED <<encargo, resultado, procesados, vida, admitida, firewall>>

\* The agent process ends and systemd starts it again: threads and memory are
\* gone, the rules of UFW stay.
Caer(a) ==
  /\ tarea' = [t \in Tarea |->
                 IF tarea[t] \in {"llegada", "operar", "responder"}
                    /\ encargo[t].agente = a
                 THEN "perdida" ELSE tarea[t]]
  /\ procesados' = [procesados EXCEPT ![a] = {}]
  /\ vida' = [vida EXCEPT ![a] = @ + 1]
  /\ UNCHANGED <<encargo, resultado, admitida, firewall>>

Paso(t) == RechazarIncompleta(t) \/ ya_procesado(t) \/ Operar(t) \/ responder(t)

\* The client by itself: any orders, in any order, and the same ones again as often
\* as may be; a process may end at any time.
NextCliente ==
  \/ \E t \in Tarea : (\E e \in Encargo : Recibir(t, e)) \/ Paso(t)
  \/ \E a \in Agente : Caer(a)

SpecCliente == InitCliente /\ [][NextCliente]_varsCliente
------------------------------------------------------------------------------
(* Properties *)

\* The ids that the n-th process of a let through.
Admitidos(a, n) ==
  {encargo[t].id : t \in {u \in Tarea : admitida[u] = n /\ encargo[u].agente = a}}

\* _ya_procesado: an order that is delivered again to the same process, at once or
\* later, does not reach the firewall a second time unless that process has let
\* through more different ids than its memory holds.
EjecucionUnica ==
  \A t, u \in Tarea :
    /\ t # u
    /\ admitida[t] # Nada /\ admitida[u] = admitida[t]
    /\ encargo[t].agente = encargo[u].agente /\ encargo[t].id = encargo[u].id
    /\ encargo[t].evento = encargo[u].evento
    => Cardinality(Admitidos(encargo[t].agente, admitida[t])) > MaxProcesados
==============================================================================
