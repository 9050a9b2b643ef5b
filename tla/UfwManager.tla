----------------------------- MODULE UfwManager -----------------------------
(***************************************************************************)
(* agent/src/lumi_agent/control/ufw_manager.py: the part of the agent that *)
(* turns block and unblock orders into UFW rules.  socketio runs every     *)
(* order in a thread of its own, so any number of calls are inside the     *)
(* manager at once; _rate_lock guards the list of recent operations and    *)
(* _ufw_lock the read-decide-write sequence on the firewall.               *)
(*                                                                         *)
(* Abstracted: the text of an address (a network is a value of Red, or     *)
(* Invalida when _parsear rejects it) and the messages that go with a      *)
(* result.  UFW itself is external: an `ufw` command succeeds, fails       *)
(* without effect, or times out with or without effect.                    *)
(***************************************************************************)
EXTENDS Integers, FiniteSets

CONSTANTS
  Llamada,        \* the threads that call bloquear / desbloquear
  Red,            \* the networks an order can name
  Protegida,      \* those for which _motivo_proteccion gives a reason
  Invalida,       \* an address that does not parse
  MaxReglas,      \* MAX_REGLAS_ACTIVAS
  RateLimitOps,   \* RATE_LIMIT_OPS
  Ventana,        \* RATE_LIMIT_VENTANA_SEG
  Nadie,          \* no thread: the value of candado while _ufw_lock is free
  MaxReloj        \* BOUND of the model: the clock stops there

ASSUME UfwConstantes ==
  /\ Protegida \subseteq Red
  /\ Invalida \notin Red
  /\ Nadie \notin Llamada
  /\ IsFiniteSet(Red)
  /\ MaxReglas \in Nat
  /\ RateLimitOps \in Nat
  /\ Ventana \in Nat
  /\ MaxReloj \in Nat

VARIABLES
  reglas,      \* the DENY rules of UFW
  candado,     \* the thread that holds _ufw_lock
  reloj,       \* the wall clock, in the unit of Ventana
  recientes,   \* _ops_recientes
  aceptadas,   \* every operation the quota ever let through (history)
  fase,        \* where each thread is
  orden,       \* the arguments of its call
  inicio,      \* the clock reading its `limite` was computed from
  resultado    \* the ResultadoUFW its last call returned

vars == <<reglas, candado, reloj, recientes, aceptadas, fase, orden, inicio,
          resultado>>

Promesa == INSTANCE Cortafuegos WITH
  fase <- [c \in Llamada |->
             IF fase[c] \in {"cuota", "candado", "consulta", "ejecutar"} THEN "curso"
             ELSE IF fase[c] = "verificar" THEN "revocada"
             ELSE fase[c]]

Regla == [red : Red, tipo : {"total", "puerto"}]
Redes(tabla) == {regla.red : regla \in tabla}
ReglaTotal(r) == [red |-> r, tipo |-> "total"]
\* The arguments of a call: bloquear has no verificar.
Orden ==
  [op : {"bloquear"}, red : Red \cup {Invalida}, verificar : {FALSE}] \cup
  [op : {"desbloquear"}, red : Red \cup {Invalida}, verificar : BOOLEAN]
SinOrden == [op |-> "desbloquear", red |-> Invalida, verificar |-> FALSE]

\* Mutant: protection is not consulted.
Rechazable_sinProteccion(o) == o.red = Invalida

\* _parsear gives None, or (bloquear only) _motivo_proteccion gives a reason.
Rechazable(o) ==
  o.red = Invalida \/ (o.op = "bloquear" /\ o.red \in Protegida)
ResultadoUFW == {"bloqueada", "ya_bloqueada", "desbloqueada", "no_existia", "error"}

\* An accepted operation: when, and how many were accepted before it (two
\* operations accepted at the same instant are two entries of the list).
Operacion == [t : Nat, n : Nat]

TypeOK ==
  /\ reglas \subseteq Regla
  /\ candado \in Llamada \cup {Nadie}
  /\ reloj \in Nat
  /\ recientes \subseteq aceptadas
  /\ aceptadas \subseteq Operacion
  /\ fase \in [Llamada -> {"libre", "cuota", "candado", "consulta", "ejecutar",
                           "verificar", "hecha"}]
  /\ orden \in [Llamada -> Orden]
  /\ inicio \in [Llamada -> Nat]
  /\ resultado \in [Llamada -> ResultadoUFW]
------------------------------------------------------------------------------
\* A new manager over the firewall it finds: some denied networks may be there
\* already, whole or for one port only (the administrator's own rules).
Init ==
  /\ reglas \in SUBSET Regla
  /\ Redes(reglas) \cap Protegida = {}
  /\ Cardinality(Redes(reglas)) <= MaxReglas
  /\ candado = Nadie
  /\ reloj = 0
  /\ recientes = {}
  /\ aceptadas = {}
  /\ fase = [c \in Llamada |-> "libre"]
  /\ orden = [c \in Llamada |-> SinOrden]
  /\ inicio = [c \in Llamada |-> 0]
  /\ resultado = [c \in Llamada |-> "error"]

Terminar(c, r) ==
  /\ fase' = [fase EXCEPT ![c] = "hecha"]
  /\ resultado' = [resultado EXCEPT ![c] = r]

Avanzar(c, f) ==
  /\ fase' = [fase EXCEPT ![c] = f]
  /\ UNCHANGED resultado

\* The call begins.  An address that does not parse or is protected is answered
\* at once and uses no quota; otherwise _consumir_cuota computes its limit from
\* the clock, before it waits for _rate_lock.
Comenzar(c, o) ==
  /\ fase[c] \in {"libre", "hecha"}
  /\ orden' = [orden EXCEPT ![c] = o]
  /\ \/ /\ Rechazable(o)
        /\ Terminar(c, "error")
        /\ UNCHANGED inicio
     \/ /\ ~Rechazable(o)
        /\ inicio' = [inicio EXCEPT ![c] = reloj]
        /\ Avanzar(c, "cuota")
  /\ UNCHANGED <<reglas, candado, reloj, recientes, aceptadas>>

\* Mutant: an operation exactly RATE_LIMIT_VENTANA_SEG old is forgotten (t > limite).
ConsumirCuota_estricta(c) ==
  LET vigentes == {o \in recientes : o.t > inicio[c] - Ventana}
      nueva == [t |-> reloj, n |-> Cardinality(aceptadas)]
  IN
  /\ fase[c] = "cuota"
  /\ \/ /\ Cardinality(vigentes) >= RateLimitOps
        /\ recientes' = vigentes
        /\ Terminar(c, "error")
        /\ UNCHANGED aceptadas
     \/ /\ Cardinality(vigentes) < RateLimitOps
        /\ recientes' = vigentes \cup {nueva}
        /\ aceptadas' = aceptadas \cup {nueva}
        /\ Avanzar(c, "candado")
  /\ UNCHANGED <<reglas, candado, reloj, orden, inicio>>

\* _consumir_cuota under _rate_lock: forget what is older than the limit, then
\* count.  The limit is older than the clock if the thread had to wait.
ConsumirCuota(c) ==
  LET vigentes == {o \in recientes : o.t >= inicio[c] - Ventana}
      nueva == [t |-> reloj, n |-> Cardinality(aceptadas)]
  IN
  /\ fase[c] = "cuota"
  /\ \/ /\ Cardinality(vigentes) >= RateLimitOps
        /\ recientes' = vigentes
        /\ Terminar(c, "error")
        /\ UNCHANGED aceptadas
     \/ /\ Cardinality(vigentes) < RateLimitOps
        /\ recientes' = vigentes \cup {nueva}
        /\ aceptadas' = aceptadas \cup {nueva}
        /\ Avanzar(c, "candado")
  /\ UNCHANGED <<reglas, candado, reloj, orden, inicio>>

\* `with self._ufw_lock`
TomarCandado(c) ==
  /\ fase[c] = "candado"
  /\ candado = Nadie
  /\ candado' = c
  /\ Avanzar(c, "consulta")
  /\ UNCHANGED <<reglas, reloj, recientes, aceptadas, orden, inicio>>

\* The end of the with block: the result is set and the lock is free.
Soltar(c, r) ==
  /\ Terminar(c, r)
  /\ candado' = Nadie

\* Mutant: the with block ends after the snapshot, before the command it justifies.
Consultar_sueltaCandado(c) ==
  /\ fase[c] = "consulta"
  /\ candado' = Nadie
  /\ \/ Terminar(c, "error")
     \/ orden[c].op = "bloquear" /\ orden[c].red \in Redes(reglas)
        /\ Terminar(c, "ya_bloqueada")
     \/ orden[c].op = "bloquear" /\ orden[c].red \notin Redes(reglas)
        /\ Cardinality(Redes(reglas)) < MaxReglas /\ Avanzar(c, "ejecutar")
     \/ orden[c].op = "desbloquear" /\ orden[c].red \notin Redes(reglas)
        /\ Terminar(c, "no_existia")
     \/ orden[c].op = "desbloquear" /\ orden[c].red \in Redes(reglas)
        /\ Avanzar(c, "ejecutar")
  /\ UNCHANGED <<reglas, reloj, recientes, aceptadas, orden, inicio>>

\* _snapshot, and what bloquear / desbloquear decide from it.
Consultar(c) ==
  /\ fase[c] = "consulta"
  /\ \/ Soltar(c, "error")                  \* FirewallNoDisponible
     \/ /\ orden[c].op = "bloquear"
        /\ orden[c].red \in Redes(reglas)
        /\ Soltar(c, "ya_bloqueada")
     \/ /\ orden[c].op = "bloquear"
        /\ orden[c].red \notin Redes(reglas)
        /\ Cardinality(Redes(reglas)) >= MaxReglas
        /\ Soltar(c, "error")
     \/ /\ orden[c].op = "bloquear"
        /\ orden[c].red \notin Redes(reglas)
        /\ Cardinality(Redes(reglas)) < MaxReglas
        /\ Avanzar(c, "ejecutar")
        /\ UNCHANGED candado
     \/ /\ orden[c].op = "desbloquear"
        /\ orden[c].red \notin Redes(reglas)
        /\ Soltar(c, "no_existia")
     \/ /\ orden[c].op = "desbloquear"
        /\ orden[c].red \in Redes(reglas)
        /\ Avanzar(c, "ejecutar")
        /\ UNCHANGED candado
  /\ UNCHANGED <<reglas, reloj, recientes, aceptadas, orden, inicio>>

\* The table after `ufw insert 1 deny from` / `ufw --force delete deny from`.
\* The delete only knows the rule for the whole network.
Efecto(c) ==
  IF orden[c].op = "bloquear" THEN reglas \cup {ReglaTotal(orden[c].red)}
                              ELSE reglas \ {ReglaTotal(orden[c].red)}

\* Mutant: the failed command's text is returned in place of ResultadoUFW.ERROR.
Ejecutar_devuelveSalida(c) ==
  /\ fase[c] = "ejecutar"
  /\ reglas' \in {reglas, Efecto(c)}
  /\ Soltar(c, IF reglas' = reglas THEN "salida" ELSE "bloqueada")
  /\ UNCHANGED <<reloj, recientes, aceptadas, orden, inicio>>

\* _ejecutar of the write: it works; or it is reported as failed, and after a
\* timeout the rule may be in place all the same.
Ejecutar(c) ==
  /\ fase[c] = "ejecutar"
  /\ \/ /\ reglas' = Efecto(c)
        /\ \/ orden[c].op = "bloquear" /\ Soltar(c, "bloqueada")
           \/ /\ orden[c].op = "desbloquear"
              /\ ~orden[c].verificar
              /\ Soltar(c, "desbloqueada")
           \/ /\ orden[c].op = "desbloquear"
              /\ orden[c].verificar
              /\ Avanzar(c, "verificar")
              /\ UNCHANGED candado
     \/ /\ reglas' \in {reglas, Efecto(c)}
        /\ Soltar(c, "error")
  /\ UNCHANGED <<reloj, recientes, aceptadas, orden, inicio>>

\* Mutant: the verification does not look whether the rule is still there.
Verificar_sinMirar(c) ==
  /\ fase[c] = "verificar"
  /\ Soltar(c, "error") \/ Soltar(c, "desbloqueada")
  /\ UNCHANGED <<reglas, reloj, recientes, aceptadas, orden, inicio>>

\* The second _snapshot of desbloquear(verificar=True).
Verificar(c) ==
  /\ fase[c] = "verificar"
  /\ \/ Soltar(c, "error")                  \* "desbloqueo no verificable"
     \/ orden[c].red \in Redes(reglas) /\ Soltar(c, "error")
     \/ orden[c].red \notin Redes(reglas) /\ Soltar(c, "desbloqueada")
  /\ UNCHANGED <<reglas, reloj, recientes, aceptadas, orden, inicio>>

Tic ==
  /\ reloj < MaxReloj
  /\ reloj' = reloj + 1
  /\ UNCHANGED <<reglas, candado, recientes, aceptadas, fase, orden, inicio,
                 resultado>>

Paso(c) ==
  \/ ConsumirCuota(c)
  \/ TomarCandado(c)
  \/ Consultar(c)
  \/ Ejecutar(c)
  \/ Verificar(c)

Next ==
  \/ \E c \in Llamada : (\E o \in Orden : Comenzar(c, o)) \/ Paso(c)
  \/ Tic

Spec == Init /\ [][Next]_vars
------------------------------------------------------------------------------
(* Properties *)

\* What a thread decided from its snapshot is still so when it runs the command:
\* no other thread changes the rules between `ufw status` and the insert or the
\* delete that it justified.
DecisionVigente ==
  \A c \in Llamada : fase[c] = "ejecutar" =>
    IF orden[c].op = "bloquear"
    THEN orden[c].red \notin Redes(reglas) /\ Cardinality(Redes(reglas)) < MaxReglas
    ELSE orden[c].red \in Redes(reglas)

\* However many orders run at once, and also when commands time out after they
\* took effect, at most MAX_REGLAS_ACTIVAS networks are denied.
CupoDeReglas == Cardinality(Redes(reglas)) <= MaxReglas

\* No order, and no sequence of orders, gets a protected network denied.
NuncaProtegida == Redes(reglas) \cap Protegida = {}

\* No span of RATE_LIMIT_VENTANA_SEG contains more than RATE_LIMIT_OPS accepted
\* operations, although the limit of a thread is computed before it holds
\* _rate_lock and other threads prune the list meanwhile.  (A span with too many
\* has a last operation o; it and those up to Ventana earlier are counted.)
VentanaDeCuota ==
  \A o \in aceptadas :
    Cardinality({p \in aceptadas : p.n <= o.n /\ p.t >= o.t - Ventana}) <= RateLimitOps

\* Every call looks atomic to its caller: the manager implements Cortafuegos.
CumplePromesa == Promesa!Spec
==============================================================================
