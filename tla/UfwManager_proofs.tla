------------------------- MODULE UfwManager_proofs -------------------------
(***************************************************************************)
(* The firewall manager, for any number of threads, networks and limits:   *)
(* the two locks keep the limits and the protection of networks, and every *)
(* call looks atomic (UfwManager implements Cortafuegos).  Two inductive   *)
(* invariants carry the proofs: InvReglas, about _ufw_lock and the rules,  *)
(* and InvCuota, about the list of recent operations.                      *)
(***************************************************************************)
EXTENDS UfwManager, FiniteSetTheorems, TLAPS

ConCandado == {"consulta", "ejecutar", "verificar"}

\* The threads inside the with block are the one that holds _ufw_lock.
CandadoDeUno == \A c \in Llamada : fase[c] \in ConCandado <=> candado = c

\* Rejected orders never get past the start of a call, and only a verified
\* unblock verifies.
EnCursoAdmitida ==
  \A c \in Llamada :
    /\ fase[c] \in {"cuota", "candado"} \cup ConCandado => ~Rechazable(orden[c])
    /\ fase[c] = "verificar" => orden[c].op = "desbloquear" /\ orden[c].verificar

InvReglas ==
  /\ TypeOK
  /\ IsFiniteSet(aceptadas)
  /\ CandadoDeUno
  /\ EnCursoAdmitida
  /\ DecisionVigente
  /\ CupoDeReglas
  /\ NuncaProtegida
------------------------------------------------------------------------------
\* A rule table names finitely many networks, so counting them makes sense.
LEMMA RedesFinitas ==
  ASSUME NEW tabla, tabla \subseteq Regla
  PROVE  /\ IsFiniteSet(Redes(tabla))
         /\ Cardinality(Redes(tabla)) \in Nat
         /\ Redes(tabla) \subseteq Red
<1>1. Redes(tabla) \subseteq Red
  BY DEF Redes, Regla
<1> QED BY <1>1, UfwConstantes, FS_Subset, FS_CardinalityType

\* Inserting a rule names one network more, deleting one names none.
LEMMA RedesTrasInsertar ==
  ASSUME NEW tabla, NEW r \in Red
  PROVE  Redes(tabla \cup {ReglaTotal(r)}) = Redes(tabla) \cup {r}
<1>1. ReglaTotal(r).red = r
  BY DEF ReglaTotal
<1>2. ASSUME NEW x PROVE x \in Redes(tabla \cup {ReglaTotal(r)}) <=> x \in Redes(tabla) \cup {r}
  BY <1>1 DEF Redes
<1> QED BY <1>2

\* Deleting a rule names no network that was not named before.
LEMMA RedesTrasBorrar ==
  ASSUME NEW tabla, NEW r \in Red
  PROVE  Redes(tabla \ {ReglaTotal(r)}) \subseteq Redes(tabla)
BY DEF Redes

\* The command a thread runs keeps the number of denied networks within its limit
\* and protected networks out, whether or not it is reported as failed.
LEMMA EfectoAdmisible ==
  ASSUME InvReglas, NEW c \in Llamada, fase[c] = "ejecutar"
  PROVE  /\ Efecto(c) \subseteq Regla
         /\ Cardinality(Redes(Efecto(c))) <= MaxReglas
         /\ Redes(Efecto(c)) \cap Protegida = {}
<1> DEFINE r == orden[c].red
<1>1. /\ ~Rechazable(orden[c]) /\ orden[c] \in Orden /\ reglas \subseteq Regla
      /\ r \in Red
  BY DEF InvReglas, EnCursoAdmitida, ConCandado, TypeOK, Orden, Rechazable
<1>2. CASE orden[c].op = "bloquear"
  <2>1. /\ Efecto(c) = reglas \cup {ReglaTotal(r)}
        /\ r \notin Redes(reglas) /\ Cardinality(Redes(reglas)) < MaxReglas
        /\ r \notin Protegida
    BY <1>1, <1>2 DEF Efecto, InvReglas, DecisionVigente, Rechazable
  <2>2. Redes(Efecto(c)) = Redes(reglas) \cup {r}
    BY <1>1, <2>1, RedesTrasInsertar
  <2>3. Cardinality(Redes(reglas) \cup {r}) = Cardinality(Redes(reglas)) + 1
    BY <1>1, <2>1, RedesFinitas, FS_AddElement
  <2>4. Cardinality(Redes(reglas)) \in Nat
    BY <1>1, RedesFinitas
  <2>5. Cardinality(Redes(Efecto(c))) = Cardinality(Redes(reglas)) + 1
    BY <2>2, <2>3
  <2>6. Cardinality(Redes(Efecto(c))) <= MaxReglas
    <3>1. Cardinality(Redes(reglas)) + 1 <= MaxReglas
      BY <2>1, <2>4, UfwConstantes
    <3> QED BY <2>5, <3>1
  <2> QED BY <1>1, <2>1, <2>2, <2>6 DEF InvReglas, NuncaProtegida, ReglaTotal, Regla
<1>3. CASE orden[c].op = "desbloquear"
  <2>1. Efecto(c) = reglas \ {ReglaTotal(r)}
    BY <1>3 DEF Efecto
  <2>2. Redes(Efecto(c)) \subseteq Redes(reglas)
    BY <1>1, <2>1, RedesTrasBorrar
  <2>3. Cardinality(Redes(Efecto(c))) <= Cardinality(Redes(reglas))
    BY <1>1, <2>2, RedesFinitas, FS_Subset
  <2>4. Cardinality(Redes(Efecto(c))) \in Nat
    BY <1>1, <2>1, RedesFinitas
  <2>5. Cardinality(Redes(Efecto(c))) <= MaxReglas
    BY <1>1, <2>3, <2>4, RedesFinitas, UfwConstantes DEF InvReglas, CupoDeReglas
  <2> QED BY <1>1, <2>1, <2>2, <2>5 DEF InvReglas, NuncaProtegida
<1> QED BY <1>1, <1>2, <1>3 DEF Orden

\* A new manager, over any admissible firewall, satisfies the invariant.
LEMMA InicioReglas == Init => InvReglas
<1> SUFFICES ASSUME Init PROVE InvReglas
  OBVIOUS
<1>1. TypeOK
  BY UfwConstantes DEF Init, TypeOK, Orden, SinOrden, ResultadoUFW
<1>2. IsFiniteSet(aceptadas)
  BY FS_EmptySet DEF Init
<1>3. CandadoDeUno /\ EnCursoAdmitida /\ DecisionVigente
  BY UfwConstantes DEF Init, CandadoDeUno, EnCursoAdmitida, DecisionVigente, ConCandado
<1> QED BY <1>1, <1>2, <1>3 DEF Init, InvReglas, CupoDeReglas, NuncaProtegida

\* Every step of every thread keeps the invariant about rules and _ufw_lock.
LEMMA PasoReglas == InvReglas /\ [Next]_vars => InvReglas'
<1> SUFFICES ASSUME InvReglas, [Next]_vars PROVE InvReglas'
  OBVIOUS
<1> USE UfwConstantes DEF InvReglas
<1>1. ASSUME NEW c \in Llamada, NEW o \in Orden, Comenzar(c, o) PROVE InvReglas'
  <2>1. TypeOK'
    BY <1>1 DEF Comenzar, Terminar, Avanzar, TypeOK, ResultadoUFW
  <2>2. CandadoDeUno'
    BY <1>1 DEF Comenzar, Terminar, Avanzar, TypeOK, CandadoDeUno, ConCandado
  <2>3. EnCursoAdmitida'
    BY <1>1 DEF Comenzar, Terminar, Avanzar, TypeOK, EnCursoAdmitida, ConCandado
  <2>4. DecisionVigente'
    BY <1>1 DEF Comenzar, Terminar, Avanzar, TypeOK, DecisionVigente
  <2> QED BY <1>1, <2>1, <2>2, <2>3, <2>4 DEF Comenzar, CupoDeReglas, NuncaProtegida
<1>2. ASSUME NEW c \in Llamada, ConsumirCuota(c) PROVE InvReglas'
  <2>1. Cardinality(aceptadas) \in Nat
    BY FS_CardinalityType
  <2>2. TypeOK'
    <3>1. [t |-> reloj, n |-> Cardinality(aceptadas)] \in Operacion
      BY <2>1 DEF TypeOK, Operacion
    <3>2. recientes' \subseteq aceptadas' /\ aceptadas' \subseteq Operacion
      BY <1>2, <3>1 DEF ConsumirCuota, TypeOK
    <3> QED
      BY <1>2, <3>2 DEF ConsumirCuota, Terminar, Avanzar, TypeOK, ResultadoUFW
  <2>3. IsFiniteSet(aceptadas)'
    <3>1. IsFiniteSet(aceptadas \cup {[t |-> reloj, n |-> Cardinality(aceptadas)]})
      BY FS_AddElement
    <3> QED BY <1>2, <3>1 DEF ConsumirCuota
  <2>4. CandadoDeUno'
    BY <1>2 DEF ConsumirCuota, Terminar, Avanzar, TypeOK, CandadoDeUno, ConCandado
  <2>5. EnCursoAdmitida'
    BY <1>2 DEF ConsumirCuota, Terminar, Avanzar, TypeOK, EnCursoAdmitida, ConCandado
  <2>6. DecisionVigente'
    BY <1>2 DEF ConsumirCuota, Terminar, Avanzar, TypeOK, DecisionVigente
  <2> QED BY <1>2, <2>2, <2>3, <2>4, <2>5, <2>6 DEF ConsumirCuota, CupoDeReglas, NuncaProtegida
<1>3. ASSUME NEW c \in Llamada, TomarCandado(c) PROVE InvReglas'
  <2>1. TypeOK'
    BY <1>3 DEF TomarCandado, Avanzar, TypeOK
  <2>2. CandadoDeUno'
    BY <1>3 DEF TomarCandado, Avanzar, TypeOK, CandadoDeUno, ConCandado
  <2>3. EnCursoAdmitida'
    BY <1>3 DEF TomarCandado, Avanzar, TypeOK, EnCursoAdmitida, ConCandado
  <2>4. DecisionVigente'
    BY <1>3 DEF TomarCandado, Avanzar, TypeOK, DecisionVigente
  <2> QED BY <1>3, <2>1, <2>2, <2>3, <2>4 DEF TomarCandado, CupoDeReglas, NuncaProtegida
<1>4. ASSUME NEW c \in Llamada, Consultar(c) PROVE InvReglas'
  <2>1. TypeOK'
    BY <1>4 DEF Consultar, Soltar, Terminar, Avanzar, TypeOK, ResultadoUFW
  <2>2. CandadoDeUno'
    BY <1>4 DEF Consultar, Soltar, Terminar, Avanzar, TypeOK, CandadoDeUno, ConCandado
  <2>3. EnCursoAdmitida'
    BY <1>4 DEF Consultar, Soltar, Terminar, Avanzar, TypeOK, EnCursoAdmitida, ConCandado
  <2>4. DecisionVigente'
    BY <1>4 DEF Consultar, Soltar, Terminar, Avanzar, TypeOK, DecisionVigente
  <2> QED BY <1>4, <2>1, <2>2, <2>3, <2>4 DEF Consultar, CupoDeReglas, NuncaProtegida
<1>5. ASSUME NEW c \in Llamada, Ejecutar(c) PROVE InvReglas'
  <2>1. /\ fase[c] = "ejecutar"
        /\ reglas' = reglas \/ reglas' = Efecto(c)
    BY <1>5 DEF Ejecutar
  <2>2. /\ reglas' \subseteq Regla
        /\ CupoDeReglas'
        /\ NuncaProtegida'
    BY <2>1, EfectoAdmisible DEF TypeOK, CupoDeReglas, NuncaProtegida
  <2>3. TypeOK'
    BY <1>5, <2>2 DEF Ejecutar, Soltar, Terminar, Avanzar, TypeOK, ResultadoUFW
  <2>4. CandadoDeUno'
    BY <1>5 DEF Ejecutar, Soltar, Terminar, Avanzar, TypeOK, CandadoDeUno, ConCandado
  <2>5. EnCursoAdmitida'
    BY <1>5 DEF Ejecutar, Soltar, Terminar, Avanzar, TypeOK, EnCursoAdmitida, ConCandado
  <2>6. \A d \in Llamada : fase'[d] # "ejecutar"
    BY <1>5, <2>1 DEF Ejecutar, Soltar, Terminar, Avanzar, TypeOK, CandadoDeUno, ConCandado
  <2>7. DecisionVigente'
    BY <2>6 DEF DecisionVigente
  <2> QED BY <1>5, <2>2, <2>3, <2>4, <2>5, <2>7 DEF Ejecutar
<1>6. ASSUME NEW c \in Llamada, Verificar(c) PROVE InvReglas'
  <2>1. TypeOK'
    BY <1>6 DEF Verificar, Soltar, Terminar, TypeOK, ResultadoUFW
  <2>2. CandadoDeUno'
    BY <1>6 DEF Verificar, Soltar, Terminar, TypeOK, CandadoDeUno, ConCandado
  <2>3. EnCursoAdmitida'
    BY <1>6 DEF Verificar, Soltar, Terminar, TypeOK, EnCursoAdmitida, ConCandado
  <2>4. DecisionVigente'
    BY <1>6 DEF Verificar, Soltar, Terminar, TypeOK, DecisionVigente
  <2> QED BY <1>6, <2>1, <2>2, <2>3, <2>4 DEF Verificar, CupoDeReglas, NuncaProtegida
<1>7. CASE Tic \/ UNCHANGED vars
  <2>1. TypeOK'
    BY <1>7 DEF Tic, vars, TypeOK
  <2>2. CandadoDeUno' /\ EnCursoAdmitida' /\ DecisionVigente'
    BY <1>7 DEF Tic, vars, CandadoDeUno, EnCursoAdmitida, DecisionVigente
  <2> QED BY <1>7, <2>1, <2>2 DEF Tic, vars, CupoDeReglas, NuncaProtegida
<1> QED BY <1>1, <1>2, <1>3, <1>4, <1>5, <1>6, <1>7 DEF Next, Paso

\* The inductive invariant of UfwManager: one thread at a time is between its
\* snapshot and its command, and what it decided still holds.
THEOREM InvarianteReglas == Spec => []InvReglas
BY InicioReglas, PasoReglas, PTL DEF Spec

\* The manager's state keeps its types, results included: a call never ends with
\* anything but a ResultadoUFW.
THEOREM TiposUfw == Spec => []TypeOK
<1>1. InvReglas => TypeOK
  BY DEF InvReglas
<1> QED BY InvarianteReglas, <1>1, PTL

\* _ufw_lock makes snapshot, decision and command one: nothing a thread decided on
\* is out of date when it acts.
THEOREM DecisionesVigentes == Spec => []DecisionVigente
<1>1. InvReglas => DecisionVigente
  BY DEF InvReglas
<1> QED BY InvarianteReglas, <1>1, PTL

\* MAX_REGLAS_ACTIVAS holds for any number of concurrent orders.
THEOREM CupoRespetado == Spec => []CupoDeReglas
<1>1. InvReglas => CupoDeReglas
  BY DEF InvReglas
<1> QED BY InvarianteReglas, <1>1, PTL

\* No sequence of orders denies a network that _motivo_proteccion protects.
THEOREM ProtegidasLibres == Spec => []NuncaProtegida
<1>1. InvReglas => NuncaProtegida
  BY DEF InvReglas
<1> QED BY InvarianteReglas, <1>1, PTL
------------------------------------------------------------------------------
(* The quota.  What keeps it is that _ops_recientes still holds every accepted   *)
(* operation of the current window: a limit that was computed before the lock    *)
(* was taken only forgets less.                                                  *)

EnVentana(o) == {p \in aceptadas : p.n <= o.n /\ p.t >= o.t - Ventana}

InvCuota ==
  /\ \A c \in Llamada : inicio[c] <= reloj
  /\ \A o \in aceptadas : o.t <= reloj /\ o.n < Cardinality(aceptadas)
  /\ \A o \in aceptadas : o.t >= reloj - Ventana => o \in recientes
  /\ VentanaDeCuota

\* Nothing has been accepted yet.
LEMMA InicioCuota == Init => InvCuota
BY UfwConstantes DEF Init, InvCuota, VentanaDeCuota

\* An operation is let through: it is counted with what the list still held.
LEMMA AceptarConserva ==
  ASSUME InvReglas, InvCuota, NEW c \in Llamada, fase[c] = "cuota",
         NEW vigentes, vigentes = {o \in recientes : o.t >= inicio[c] - Ventana},
         NEW nueva, nueva = [t |-> reloj, n |-> Cardinality(aceptadas)],
         Cardinality(vigentes) < RateLimitOps,
         recientes' = vigentes \cup {nueva},
         aceptadas' = aceptadas \cup {nueva},
         UNCHANGED <<reloj, inicio>>
  PROVE  InvCuota'
<1>1. /\ aceptadas \subseteq Operacion /\ recientes \subseteq aceptadas
      /\ reloj \in Nat /\ inicio \in [Llamada -> Nat]
      /\ IsFiniteSet(aceptadas)
  BY DEF InvReglas, TypeOK
<1>2. Cardinality(aceptadas) \in Nat
  BY <1>1, FS_CardinalityType
<1>3. nueva \in Operacion /\ nueva.t = reloj /\ nueva.n = Cardinality(aceptadas)
  BY <1>1, <1>2 DEF Operacion
<1>4. nueva \notin aceptadas
  BY <1>2, <1>3 DEF InvCuota
<1>5. Cardinality(aceptadas') = Cardinality(aceptadas) + 1
  BY <1>1, <1>4, FS_AddElement
<1>6. (\A d \in Llamada : inicio[d] <= reloj)'
  BY DEF InvCuota
<1>7. (\A o \in aceptadas : o.t <= reloj /\ o.n < Cardinality(aceptadas))'
  <2> SUFFICES ASSUME NEW o \in aceptadas \cup {nueva}
               PROVE  o.t <= reloj /\ o.n < Cardinality(aceptadas) + 1
    BY <1>5
  <2>1. CASE o \in aceptadas
    BY <1>1, <1>2, <2>1 DEF InvCuota, Operacion
  <2>2. CASE o = nueva
    BY <1>1, <1>2, <1>3, <2>2
  <2> QED BY <2>1, <2>2
<1>8. (\A o \in aceptadas : o.t >= reloj - Ventana => o \in recientes)'
  BY <1>1, UfwConstantes DEF InvCuota, Operacion
<1>9. VentanaDeCuota'
  <2> SUFFICES ASSUME NEW o \in aceptadas \cup {nueva}
               PROVE  Cardinality(EnVentana(o)') <= RateLimitOps
    BY DEF VentanaDeCuota, EnVentana
  <2>1. CASE o \in aceptadas
    <3>1. ~(nueva.n <= o.n)
      BY <1>1, <1>2, <1>3, <2>1 DEF InvCuota, Operacion
    <3>2. EnVentana(o)' = EnVentana(o)
      BY <3>1 DEF EnVentana
    <3> QED BY <2>1, <3>2 DEF InvCuota, VentanaDeCuota, EnVentana
  <2>2. CASE o = nueva
    <3>1. EnVentana(o)' \subseteq vigentes \cup {nueva}
      BY <1>1, <1>3, <2>2, UfwConstantes DEF EnVentana, InvCuota, Operacion
    <3>2. IsFiniteSet(vigentes) /\ Cardinality(vigentes) \in Nat
      BY <1>1, FS_Subset, FS_CardinalityType
    <3>3. /\ IsFiniteSet(vigentes \cup {nueva})
          /\ Cardinality(vigentes \cup {nueva}) = Cardinality(vigentes) + 1
      <4>1. nueva \notin vigentes
        BY <1>1, <1>4
      <4> QED BY <3>2, <4>1, FS_AddElement
    <3>4. Cardinality(EnVentana(o)') <= Cardinality(vigentes \cup {nueva})
      BY <3>1, <3>3, FS_Subset
    <3>5. Cardinality(EnVentana(o)') \in Nat
      BY <3>1, <3>3, FS_Subset, FS_CardinalityType
    <3> QED BY <3>2, <3>3, <3>4, <3>5, UfwConstantes
  <2> QED BY <2>1, <2>2
<1> QED BY <1>6, <1>7, <1>8, <1>9 DEF InvCuota

\* Every step keeps what the list of recent operations says about the quota.
LEMMA PasoCuota == InvReglas /\ InvCuota /\ [Next]_vars => InvCuota'
<1> SUFFICES ASSUME InvReglas, InvCuota, [Next]_vars PROVE InvCuota'
  OBVIOUS
<1>1. /\ aceptadas \subseteq Operacion /\ recientes \subseteq aceptadas
      /\ reloj \in Nat /\ inicio \in [Llamada -> Nat]
  BY DEF InvReglas, TypeOK
<1>2. ASSUME NEW c \in Llamada, NEW o \in Orden, Comenzar(c, o) PROVE InvCuota'
  BY <1>1, <1>2 DEF Comenzar, InvCuota, VentanaDeCuota
<1>3. ASSUME NEW c \in Llamada, ConsumirCuota(c) PROVE InvCuota'
  <2> DEFINE vigentes == {o \in recientes : o.t >= inicio[c] - Ventana}
             nueva == [t |-> reloj, n |-> Cardinality(aceptadas)]
  <2>1. CASE recientes' = vigentes /\ UNCHANGED aceptadas
    BY <1>1, <1>3, <2>1, UfwConstantes
       DEF ConsumirCuota, InvCuota, VentanaDeCuota, Operacion
  <2>2. CASE /\ Cardinality(vigentes) < RateLimitOps
             /\ recientes' = vigentes \cup {nueva}
             /\ aceptadas' = aceptadas \cup {nueva}
    <3>1. fase[c] = "cuota" /\ UNCHANGED <<reloj, inicio>>
      BY <1>3 DEF ConsumirCuota
    <3> HIDE DEF vigentes, nueva
    <3> QED BY <2>2, <3>1, AceptarConserva DEF vigentes, nueva
  <2> QED BY <1>3, <2>1, <2>2 DEF ConsumirCuota
<1>4. ASSUME NEW c \in Llamada,
             TomarCandado(c) \/ Consultar(c) \/ Ejecutar(c) \/ Verificar(c)
      PROVE  InvCuota'
  BY <1>4 DEF TomarCandado, Consultar, Ejecutar, Verificar, InvCuota, VentanaDeCuota
<1>5. CASE Tic
  BY <1>1, <1>5, UfwConstantes DEF Tic, InvCuota, VentanaDeCuota, Operacion
<1>6. CASE UNCHANGED vars
  BY <1>6 DEF vars, InvCuota, VentanaDeCuota
<1> QED BY <1>2, <1>3, <1>4, <1>5, <1>6 DEF Next, Paso

\* _consumir_cuota lets at most RATE_LIMIT_OPS operations through in any window of
\* RATE_LIMIT_VENTANA_SEG, for any number of threads and any waits for _rate_lock.
THEOREM CuotaRespetada == Spec => []VentanaDeCuota
<1>1. InvCuota => VentanaDeCuota
  BY DEF InvCuota
<1> QED BY InvarianteReglas, InicioCuota, PasoCuota, <1>1, PTL DEF Spec
------------------------------------------------------------------------------
(* The manager implements Cortafuegos: a rejected or refused call fails there, a  *)
(* call that got to its command acts when the command runs.  What the abstract    *)
(* actions check again at that moment is DecisionVigente.                         *)

Vista == [c \in Llamada |->
            IF fase[c] \in {"cuota", "candado", "consulta", "ejecutar"} THEN "curso"
            ELSE IF fase[c] = "verificar" THEN "revocada"
            ELSE fase[c]]

\* Both modules name the same rules and networks.
LEMMA MismosNombres ==
  /\ Promesa!Regla = Regla /\ Promesa!SinOrden = SinOrden
  /\ \A tabla : Promesa!Redes(tabla) = Redes(tabla)
  /\ \A r : Promesa!ReglaTotal(r) = ReglaTotal(r)
  /\ \A S : Promesa!Cardinality(S) = Cardinality(S)
<1>1. Promesa!Regla = Regla
  BY DEF Promesa!Regla, Regla
<1>2. Promesa!SinOrden = SinOrden
  BY DEF Promesa!SinOrden, SinOrden
<1>3. ASSUME NEW tabla PROVE Promesa!Redes(tabla) = Redes(tabla)
  BY DEF Promesa!Redes, Redes
<1>4. ASSUME NEW r PROVE Promesa!ReglaTotal(r) = ReglaTotal(r)
  BY DEF Promesa!ReglaTotal, ReglaTotal
<1>5. ASSUME NEW S PROVE Promesa!Cardinality(S) = Cardinality(S)
  BY DEF Promesa!Cardinality, Cardinality
<1> QED BY <1>1, <1>2, <1>3, <1>4, <1>5

\* The initial states of UfwManager are initial states of Cortafuegos.
LEMMA InicioPromesa == Init => Promesa!Init
<1> SUFFICES ASSUME Init PROVE Promesa!Init
  OBVIOUS
<1>1. Promesa!TablaInicial(reglas)
  BY MismosNombres DEF Init, Promesa!TablaInicial
<1>2. Vista = [c \in Llamada |-> "libre"]
  BY DEF Init, Vista
<1> QED BY <1>1, <1>2, MismosNombres DEF Init, Vista, Promesa!Init

\* A change of fase seen through the mapping.
LEMMA VistaDeTerminar ==
  ASSUME TypeOK, NEW c \in Llamada, NEW r, Terminar(c, r)
  PROVE  Vista' = [Vista EXCEPT ![c] = "hecha"]
BY DEF TypeOK, Terminar, Vista

\* A thread that only moves on, seen through the mapping.
LEMMA VistaDeAvanzar ==
  ASSUME TypeOK, NEW c \in Llamada, NEW f, Avanzar(c, f),
         f \in {"cuota", "candado", "consulta", "ejecutar", "verificar"}
  PROVE  Vista' = [Vista EXCEPT ![c] = IF f = "verificar" THEN "revocada" ELSE "curso"]
BY DEF TypeOK, Avanzar, Vista

\* Every step of UfwManager is a step of Cortafuegos or leaves it unchanged.
LEMMA PasoPromesa == InvReglas /\ [Next]_vars => [Promesa!Next]_(Promesa!varsCortafuegos)
<1> SUFFICES ASSUME InvReglas, [Next]_vars
             PROVE  Promesa!Next \/ UNCHANGED <<reglas, Vista, orden, resultado>>
  BY DEF Promesa!varsCortafuegos, Vista
<1> USE DEF InvReglas
<1>1. ASSUME NEW c \in Llamada, NEW o \in Orden, Comenzar(c, o) PROVE Promesa!Next
  <2>0. Vista[c] \in {"libre", "hecha"}
    BY <1>1 DEF Comenzar, Vista
  <2>1. CASE Rechazable(o) /\ Terminar(c, "error")
    <3>1. Promesa!Rechazar(c, o)
      BY <1>1, <2>0, <2>1, VistaDeTerminar
         DEF Comenzar, Terminar, Rechazable, Promesa!Rechazar, Promesa!Rechazable, Vista
    <3> QED BY <3>1 DEF Promesa!Next, Promesa!Orden, Orden
  <2>2. CASE ~Rechazable(o) /\ Avanzar(c, "cuota")
    <3>1. Promesa!Invocar(c, o)
      BY <1>1, <2>0, <2>2, VistaDeAvanzar
         DEF Comenzar, Avanzar, Rechazable, Promesa!Invocar, Promesa!Rechazable, Vista
    <3> QED BY <3>1 DEF Promesa!Next, Promesa!Orden, Orden
  <2> QED BY <1>1, <2>1, <2>2 DEF Comenzar
\* An error answer that leaves the rules alone.
<1>2. ASSUME NEW c \in Llamada, fase[c] \in {"cuota", "consulta", "ejecutar"},
             Terminar(c, "error"), UNCHANGED <<reglas, orden>>
      PROVE  Promesa!Next
  <2>1. Promesa!Fallar(c)
    BY <1>2, VistaDeTerminar DEF Terminar, Promesa!Fallar, Promesa!Responder, Vista
  <2> QED BY <2>1 DEF Promesa!Next
<1>3. ASSUME NEW c \in Llamada, ConsumirCuota(c)
      PROVE  Promesa!Next \/ UNCHANGED <<reglas, Vista, orden, resultado>>
  <2>1. CASE Terminar(c, "error")
    BY <1>2, <1>3, <2>1 DEF ConsumirCuota
  <2>2. CASE Avanzar(c, "candado")
    BY <1>3, <2>2, VistaDeAvanzar DEF ConsumirCuota, Avanzar, Vista, TypeOK
  <2> QED BY <1>3, <2>1, <2>2 DEF ConsumirCuota
<1>4. ASSUME NEW c \in Llamada, TomarCandado(c)
      PROVE  UNCHANGED <<reglas, Vista, orden, resultado>>
  BY <1>4, VistaDeAvanzar DEF TomarCandado, Avanzar, Vista, TypeOK
<1>5. ASSUME NEW c \in Llamada, Consultar(c)
      PROVE  Promesa!Next \/ UNCHANGED <<reglas, Vista, orden, resultado>>
  <2>0. fase[c] = "consulta" /\ Vista[c] = "curso" /\ UNCHANGED <<reglas, orden>>
    BY <1>5 DEF Consultar, Vista
  <2>1. CASE Soltar(c, "error")
    BY <1>2, <2>0, <2>1 DEF Soltar
  <2>2. CASE /\ orden[c].op = "bloquear"
             /\ orden[c].red \in Redes(reglas)
             /\ Soltar(c, "ya_bloqueada")
    <3>1. Promesa!Bloquear(c)
      BY <2>0, <2>2, VistaDeTerminar, MismosNombres
         DEF Soltar, Terminar, Vista, Promesa!Bloquear, Promesa!Responder
    <3> QED BY <3>1 DEF Promesa!Next
  <2>3. CASE /\ orden[c].op = "desbloquear"
             /\ orden[c].red \notin Redes(reglas)
             /\ Soltar(c, "no_existia")
    <3>1. Promesa!Desbloquear(c)
      BY <2>0, <2>3, VistaDeTerminar, MismosNombres
         DEF Soltar, Terminar, Vista, Promesa!Desbloquear, Promesa!Responder
    <3> QED BY <3>1 DEF Promesa!Next
  <2>4. CASE Avanzar(c, "ejecutar")
    BY <2>0, <2>4, VistaDeAvanzar DEF Avanzar, Vista, TypeOK
  <2> QED BY <1>5, <2>1, <2>2, <2>3, <2>4 DEF Consultar
<1>6. ASSUME NEW c \in Llamada, Ejecutar(c) PROVE Promesa!Next
  <2> DEFINE r == orden[c].red
  <2>0. /\ fase[c] = "ejecutar" /\ Vista[c] = "curso" /\ UNCHANGED orden
        /\ orden[c] \in Orden
        /\ IF orden[c].op = "bloquear"
           THEN r \notin Redes(reglas) /\ Cardinality(Redes(reglas)) < MaxReglas
           ELSE r \in Redes(reglas)
    BY <1>6 DEF Ejecutar, Vista, TypeOK, DecisionVigente
  <2>1. CASE reglas' = Efecto(c) /\ orden[c].op = "bloquear" /\ Soltar(c, "bloqueada")
    <3>1. Promesa!Bloquear(c)
      BY <2>0, <2>1, VistaDeTerminar, MismosNombres
         DEF Soltar, Terminar, Efecto, Vista,
             Promesa!Bloquear, Promesa!Responder
    <3> QED BY <3>1 DEF Promesa!Next
  <2>2. CASE /\ reglas' = Efecto(c) /\ orden[c].op = "desbloquear"
             /\ ~orden[c].verificar /\ Soltar(c, "desbloqueada")
    <3>1. Promesa!Desbloquear(c)
      BY <2>0, <2>2, VistaDeTerminar, MismosNombres
         DEF Soltar, Terminar, Efecto, Vista,
             Promesa!Desbloquear, Promesa!Responder
    <3> QED BY <3>1 DEF Promesa!Next
  <2>3. CASE /\ reglas' = Efecto(c) /\ orden[c].op = "desbloquear"
             /\ orden[c].verificar /\ Avanzar(c, "verificar")
    <3>1. Promesa!Revocar(c)
      BY <2>0, <2>3, VistaDeAvanzar, MismosNombres
         DEF Avanzar, Efecto, Vista,
             Promesa!Revocar
    <3> QED BY <3>1 DEF Promesa!Next
  <2>4. CASE reglas' \in {reglas, Efecto(c)} /\ Soltar(c, "error")
    <3>1. Promesa!Fallar(c)
      BY <2>0, <2>4, VistaDeTerminar, MismosNombres
         DEF Soltar, Terminar, Efecto, Vista, Orden,
             Promesa!Fallar, Promesa!Responder
    <3> QED BY <3>1 DEF Promesa!Next
  <2> QED BY <1>6, <2>1, <2>2, <2>3, <2>4 DEF Ejecutar
<1>7. ASSUME NEW c \in Llamada, Verificar(c) PROVE Promesa!Next
  <2>1. Promesa!Comprobar(c)
    BY <1>7, VistaDeTerminar, MismosNombres
       DEF Verificar, Soltar, Terminar, Vista,
           Promesa!Comprobar, Promesa!Responder
  <2> QED BY <2>1 DEF Promesa!Next
<1>8. CASE Tic \/ UNCHANGED vars
  BY <1>8 DEF Tic, vars, Vista
<1> QED BY <1>1, <1>3, <1>4, <1>5, <1>6, <1>7, <1>8 DEF Next, Paso

\* bloquear and desbloquear look atomic to their callers: UfwManager implements
\* Cortafuegos, the level at which the agent's client uses the firewall.
THEOREM ImplementaCortafuegos == Spec => CumplePromesa
BY InvarianteReglas, InicioPromesa, PasoPromesa, PTL
   DEF Spec, CumplePromesa, Promesa!Spec
==============================================================================
