------------------------- MODULE TuberiaEventos_proofs -------------------------
(***************************************************************************)
(* The event pipeline of the agent, for any number of monitors, any sizes  *)
(* of the queue and of a batch and any number of retries and restarts.     *)
(* First the invariant and what follows from it, then that every step is   *)
(* one of EntregaEventos or changes nothing there.  Safety only: that the  *)
(* process ends after the signal rests on fairness.                        *)
(***************************************************************************)
EXTENDS TuberiaEventos, SequenceTheorems, TLAPS

SinRepetir(s) == \A i, j \in 1..Len(s) : s[i] = s[j] => i = j

\* What the agent has a record of: in the database, or deleted from it, or logged as failed.
Guardado == tabla \cup borrados \cup fallidos

\* An event is in one place of the pipeline, once.
UnLugar ==
  /\ SinRepetir(cola) /\ SinRepetir(buffer) /\ \A m \in Monitor : SinRepetir(porPoner[m])
  /\ Elementos(cola) \cap Elementos(buffer) = {}
  /\ \A m \in Monitor : Elementos(porPoner[m]) \cap (Elementos(cola) \cup Elementos(buffer)) = {}
  /\ \A m, n \in Monitor : m # n => Elementos(porPoner[m]) \cap Elementos(porPoner[n]) = {}
  /\ \A e \in Elementos(cola) \cup Elementos(buffer) : e <= nacidos
  /\ \A m \in Monitor : \A e \in Elementos(porPoner[m]) : e <= nacidos

\* Where the threads are, and what they hold there.
Marcha ==
  /\ fase \in {"guardar", "decidir", "enviar"} => buffer # <<>>
  /\ fase = "enviar" => envio.indice <= Len(buffer)
  /\ fase # "enviar" => envio = SinEnvio
  /\ fase \in {"bucle", "tomar", "mantener"} => Len(buffer) < Lote
  /\ fase \in {"vaciar", "fin"} => parar
  /\ \A m \in Monitor : monitor[m] = "poner" <=> porPoner[m] # <<>>

\* An event that is still on its way to the server has arrived there as often as it was
\* tried, and was not confirmed.
PorEnviar ==
  /\ \A e \in Evento : recibidos[e] <= MaxReintentos
  /\ \A e \in Evento : e > nacidos => recibidos[e] = 0 /\ e \notin confirmados
  /\ \A e \in Elementos(cola) : recibidos[e] = 0 /\ e \notin confirmados
  /\ \A m \in Monitor : \A e \in Elementos(porPoner[m]) : recibidos[e] = 0 /\ e \notin confirmados
  /\ \A i \in 1..Len(buffer) :
       /\ i > envio.indice => recibidos[buffer[i]] = 0 /\ buffer[i] \notin confirmados
       /\ i = envio.indice => recibidos[buffer[i]] < envio.intento /\ buffer[i] \notin confirmados

\* The database is closed after the signal, and late if it is closed before the consumer's end.
Cierre ==
  /\ cerrada => parar
  /\ tarde => cerrada
  /\ cerrada /\ ~tarde => fase = "fin"

\* What was accepted is not lost on the way to the database, unless that was closed too early;
\* and even then no batch without a record is sent.
Custodia ==
  /\ fase \in {"decidir", "enviar"} /\ ~tarde => Elementos(buffer) \subseteq Guardado
  /\ fase = "enviar" \/ (fase = "decidir" /\ ~parar) => Elementos(buffer) \subseteq Guardado
  /\ ~tarde => aceptados \subseteq Guardado \cup Elementos(cola) \cup Elementos(buffer)
  /\ antes \subseteq aceptados
  /\ fase = "vaciar" /\ ~tarde => antes \subseteq Guardado \cup Elementos(buffer)

IInv ==
  /\ TypeOK /\ UnLugar /\ Marcha /\ PorEnviar
  /\ Cierre /\ Custodia /\ EnviadoEstaGuardado /\ VaciadoATiempo
------------------------------------------------------------------------------
(* Sequences without repetitions *)

LEMMA ElementosDe ==
  ASSUME NEW S, NEW s \in Seq(S)
  PROVE  /\ Elementos(s) \subseteq S
         /\ \A i \in 1..Len(s) : s[i] \in Elementos(s)
         /\ \A x \in Elementos(s) : \E i \in 1..Len(s) : x = s[i]
<1>1. DOMAIN s = 1..Len(s) /\ \A i \in 1..Len(s) : s[i] \in S
  OBVIOUS
<1> QED BY <1>1 DEF Elementos

LEMMA Vacia == Elementos(<<>>) = {} /\ SinRepetir(<<>>) /\ Len(<<>>) = 0
BY DEF Elementos, SinRepetir

LEMMA AlFinal ==
  ASSUME NEW S, NEW s \in Seq(S), NEW x \in S
  PROVE  /\ Append(s, x) \in Seq(S) /\ Len(Append(s, x)) = Len(s) + 1
         /\ Elementos(Append(s, x)) = Elementos(s) \cup {x}
         /\ SinRepetir(s) /\ x \notin Elementos(s) => SinRepetir(Append(s, x))
<1> DEFINE t == Append(s, x)
<1>1. /\ t \in Seq(S) /\ Len(t) = Len(s) + 1 /\ Len(s) \in Nat
      /\ t[Len(s) + 1] = x /\ \A i \in 1..Len(s) : t[i] = s[i]
  OBVIOUS
<1> HIDE DEF t
<1>2. Elementos(t) = Elementos(s) \cup {x}
  <2>1. \A y \in Elementos(t) : y \in Elementos(s) \cup {x}
    <3> SUFFICES ASSUME NEW i \in 1..Len(t)
                 PROVE  t[i] \in Elementos(s) \cup {x}
      BY <1>1, ElementosDe
    <3>1. i \in 1..Len(s) \/ i = Len(s) + 1
      BY <1>1
    <3> QED BY <1>1, <3>1, ElementosDe
  <2>2. \A y \in Elementos(s) : y \in Elementos(t)
    <3> SUFFICES ASSUME NEW i \in 1..Len(s)
                 PROVE  s[i] \in Elementos(t)
      BY ElementosDe
    <3>1. i \in 1..Len(t) /\ t[i] = s[i]
      BY <1>1
    <3> QED BY <1>1, <3>1, ElementosDe
  <2>3. x \in Elementos(t)
    <3>1. Len(s) + 1 \in 1..Len(t)
      BY <1>1
    <3> QED BY <1>1, <3>1, ElementosDe
  <2> QED BY <2>1, <2>2, <2>3
<1>3. ASSUME SinRepetir(s), x \notin Elementos(s)
      PROVE  SinRepetir(t)
  <2> SUFFICES ASSUME NEW i \in 1..Len(t), NEW j \in 1..Len(t), t[i] = t[j]
               PROVE  i = j
    BY DEF SinRepetir
  <2>1. \A k \in 1..Len(s) : s[k] # x
    BY <1>3, ElementosDe
  <2>2. (i \in 1..Len(s) \/ i = Len(s) + 1) /\ (j \in 1..Len(s) \/ j = Len(s) + 1)
    BY <1>1
  <2> QED BY <1>1, <1>3, <2>1, <2>2 DEF SinRepetir
<1> QED BY <1>1, <1>2, <1>3 DEF t

LEMMA SinLaPrimera ==
  ASSUME NEW S, NEW s \in Seq(S), s # <<>>
  PROVE  /\ Head(s) \in S /\ Head(s) \in Elementos(s)
         /\ Tail(s) \in Seq(S) /\ Len(Tail(s)) = Len(s) - 1
         /\ Elementos(s) = Elementos(Tail(s)) \cup {Head(s)}
         /\ SinRepetir(s) => SinRepetir(Tail(s)) /\ Head(s) \notin Elementos(Tail(s))
<1> DEFINE h == Head(s)
           t == Tail(s)
<1>1. /\ h \in S /\ t \in Seq(S) /\ Len(t) = Len(s) - 1 /\ Len(s) \in Nat \ {0}
      /\ h = s[1] /\ \A i \in 1..Len(t) : t[i] = s[i + 1]
  OBVIOUS
<1> HIDE DEF h, t
<1>2. h \in Elementos(s)
  BY <1>1, ElementosDe
<1>3. \A y \in Elementos(t) : y \in Elementos(s)
  <2> SUFFICES ASSUME NEW i \in 1..Len(t)
               PROVE  t[i] \in Elementos(s)
    BY <1>1, ElementosDe
  <2>1. i + 1 \in 1..Len(s) /\ t[i] = s[i + 1]
    BY <1>1
  <2> QED BY <2>1, ElementosDe
<1>4. \A y \in Elementos(s) : y \in Elementos(t) \cup {h}
  <2> SUFFICES ASSUME NEW i \in 1..Len(s)
               PROVE  s[i] \in Elementos(t) \cup {h}
    BY ElementosDe
  <2>1. i = 1 \/ (i - 1 \in 1..Len(t) /\ t[i - 1] = s[i])
    BY <1>1
  <2> QED BY <1>1, <2>1, ElementosDe
<1>5. ASSUME SinRepetir(s)
      PROVE  SinRepetir(t) /\ h \notin Elementos(t)
  <2>1. ASSUME NEW i \in 1..Len(t), NEW j \in 1..Len(t), t[i] = t[j]
        PROVE  i = j
    <3>1. i + 1 \in 1..Len(s) /\ j + 1 \in 1..Len(s) /\ s[i + 1] = s[j + 1]
      BY <1>1, <2>1
    <3>2. i + 1 = j + 1
      BY <1>5, <3>1 DEF SinRepetir
    <3> QED BY <3>2
  <2>2. ASSUME NEW i \in 1..Len(t), t[i] = h
        PROVE  FALSE
    <3>1. i + 1 \in 1..Len(s) /\ 1 \in 1..Len(s) /\ s[i + 1] = s[1]
      BY <1>1, <2>2
    <3>2. i + 1 = 1
      BY <1>5, <3>1 DEF SinRepetir
    <3> QED BY <3>2
  <2> QED BY <1>1, <2>1, <2>2, ElementosDe DEF SinRepetir
<1> QED BY <1>1, <1>2, <1>3, <1>4, <1>5 DEF h, t

------------------------------------------------------------------------------
(* The monitors *)

LEMMA AlEmpezarCiclo ==
  ASSUME IInv, NEW m \in Monitor, EmpezarCiclo(m)
  PROVE  IInv'
<1>1. /\ UNCHANGED <<parar, cola, porPoner, varsConsumidor, cerrada, tarde, tabla, recibidos,
                     arranques, varsHistoria>>
      /\ monitor' = [monitor EXCEPT ![m] = "fin"] \/ monitor' = [monitor EXCEPT ![m] = "recoger"]
  BY DEF EmpezarCiclo, MonitorA
<1>2. /\ monitor' \in [Monitor -> {"libre", "recoger", "poner", "fin"}]
      /\ \A n \in Monitor : monitor'[n] = "poner" <=> monitor[n] = "poner"
  BY <1>1 DEF IInv, TypeOK, EmpezarCiclo
<1>3. TypeOK'
  BY <1>1, <1>2 DEF IInv, TypeOK, varsConsumidor, varsHistoria
<1>4. Marcha'
  BY <1>1, <1>2 DEF IInv, Marcha, varsConsumidor
<1>5. UnLugar' /\ PorEnviar'
  BY <1>1 DEF IInv, UnLugar, PorEnviar, varsConsumidor, varsHistoria
<1>6. Cierre' /\ Custodia' /\ EnviadoEstaGuardado' /\ VaciadoATiempo'
  BY <1>1 DEF IInv, Cierre, Custodia, EnviadoEstaGuardado, VaciadoATiempo, Guardado, varsConsumidor,
              varsHistoria
<1> QED BY <1>3, <1>4, <1>5, <1>6 DEF IInv

\* What a monitor finds is new: its numbers are beyond those of all events before.
LEMMA AlRecoger ==
  ASSUME IInv, NEW m \in Monitor, Recoger(m)
  PROVE  IInv'
<1>1. PICK n \in 0..MaxHallazgos :
        /\ nacidos + n <= MaxEventos
        /\ nacidos' = nacidos + n
        /\ porPoner' = [porPoner EXCEPT ![m] = [i \in 1..n |-> nacidos + i]]
        /\ monitor' = [monitor EXCEPT ![m] = IF n = 0 THEN "libre" ELSE "poner"]
  BY DEF Recoger, MonitorA
<1>2. UNCHANGED <<parar, cola, varsConsumidor, cerrada, tarde, tabla, recibidos, arranques,
                  aceptados, antes, fallidos, borrados, confirmados>>
  BY DEF Recoger
<1> DEFINE q == [i \in 1..n |-> nacidos + i]
<1>3. n \in Nat /\ nacidos \in Nat /\ MaxEventos \in Nat
  BY TuberiaConstantes DEF IInv, TypeOK
<1>4. /\ q \in Seq(Evento) /\ Len(q) = n /\ SinRepetir(q)
      /\ \A i \in 1..n : q[i] = nacidos + i
  <2>1. \A i \in 1..n : nacidos + i \in Evento
    BY <1>1, <1>3 DEF Evento
  <2>2. q \in [1..n -> Evento]
    BY <2>1
  <2>3. q \in Seq(Evento) /\ Len(q) = n
    BY <1>3, <2>2
  <2> QED BY <1>3, <2>3 DEF SinRepetir
<1>5. porPoner' = [porPoner EXCEPT ![m] = q]
  BY <1>1
<1> HIDE DEF q
<1>6. \A e \in Elementos(q) : e > nacidos /\ e <= nacidos' /\ e \in Evento
  <2> SUFFICES ASSUME NEW i \in 1..n
               PROVE  q[i] > nacidos /\ q[i] <= nacidos' /\ q[i] \in Evento
    BY <1>4, ElementosDe
  <2> QED BY <1>1, <1>3, <1>4 DEF Evento
<1>7. /\ porPoner \in [Monitor -> Seq(Evento)] /\ porPoner' \in [Monitor -> Seq(Evento)]
      /\ porPoner'[m] = q /\ \A k \in Monitor : k # m => porPoner'[k] = porPoner[k]
  BY <1>4, <1>5 DEF IInv, TypeOK
<1>8. /\ monitor' \in [Monitor -> {"libre", "recoger", "poner", "fin"}]
      /\ monitor'[m] = "poner" <=> n # 0
      /\ \A k \in Monitor : k # m => monitor'[k] = monitor[k]
  BY <1>1 DEF IInv, TypeOK
<1>9. nacidos <= nacidos' /\ nacidos' \in 0..MaxEventos
  BY <1>1, <1>3
<1>10. TypeOK'
  BY <1>2, <1>7, <1>8, <1>9 DEF IInv, TypeOK, varsConsumidor
<1>11. /\ \A e \in Elementos(cola) \cup Elementos(buffer) : e \in Nat /\ e <= nacidos
       /\ \A k \in Monitor : \A e \in Elementos(porPoner[k]) : e \in Nat /\ e <= nacidos
  <2>1. Elementos(cola) \subseteq Evento /\ Elementos(buffer) \subseteq Evento
    BY ElementosDe DEF IInv, TypeOK
  <2>2. \A k \in Monitor : Elementos(porPoner[k]) \subseteq Evento
    BY <1>7, ElementosDe
  <2>3. Evento \subseteq Nat
    BY DEF Evento
  <2> QED BY <2>1, <2>2, <2>3 DEF IInv, UnLugar
<1>12. UnLugar'
  <2>1. \A k \in Monitor : SinRepetir(porPoner'[k])
    BY <1>4, <1>7 DEF IInv, UnLugar
  <2>2. Elementos(q) \cap (Elementos(cola) \cup Elementos(buffer)) = {}
    BY <1>3, <1>6, <1>11
  <2>3. \A k \in Monitor : Elementos(q) \cap Elementos(porPoner[k]) = {}
    BY <1>3, <1>6, <1>11
  <2>4. \A k \in Monitor : Elementos(porPoner'[k]) \cap (Elementos(cola) \cup Elementos(buffer)) = {}
    BY <1>7, <2>2 DEF IInv, UnLugar
  <2>5. \A k, j \in Monitor : k # j => Elementos(porPoner'[k]) \cap Elementos(porPoner'[j]) = {}
    BY <1>7, <2>3 DEF IInv, UnLugar
  <2>6. \A k \in Monitor : \A e \in Elementos(porPoner'[k]) : e <= nacidos'
    BY <1>3, <1>6, <1>7, <1>9, <1>11
  <2>7. \A e \in Elementos(cola) \cup Elementos(buffer) : e <= nacidos'
    BY <1>3, <1>9, <1>11
  <2> QED BY <1>2, <2>1, <2>4, <2>5, <2>6, <2>7 DEF IInv, UnLugar, varsConsumidor
<1>13. Marcha'
  <2>1. n # 0 <=> q # <<>>
    BY <1>3, <1>4, EmptySeq
  <2> QED BY <1>2, <1>7, <1>8, <2>1 DEF IInv, Marcha, varsConsumidor
<1>14. PorEnviar'
  <2>1. \A e \in Elementos(q) : recibidos[e] = 0 /\ e \notin confirmados
    BY <1>6 DEF IInv, PorEnviar
  <2>2. \A e \in Evento : e > nacidos' => e > nacidos
    BY <1>3, <1>9 DEF Evento
  <2> QED BY <1>2, <1>7, <2>1, <2>2 DEF IInv, PorEnviar, varsConsumidor
<1>15. Cierre' /\ Custodia' /\ EnviadoEstaGuardado' /\ VaciadoATiempo'
  BY <1>2 DEF IInv, Cierre, Custodia, EnviadoEstaGuardado, VaciadoATiempo, Guardado, varsConsumidor
<1> QED BY <1>10, <1>12, <1>13, <1>14, <1>15 DEF IInv

LEMMA AlPoner ==
  ASSUME IInv, NEW m \in Monitor, Poner(m)
  PROVE  IInv'
<1> DEFINE s == porPoner[m]
           h == Head(s)
<1>1. /\ s \in Seq(Evento) /\ s # <<>> /\ cola \in Seq(Evento)
      /\ porPoner \in [Monitor -> Seq(Evento)]
  BY DEF IInv, TypeOK, Marcha, Poner
<1>2. /\ Len(cola) < MaxCola /\ cola' = Append(cola, h) /\ aceptados' = aceptados \cup {h}
      /\ porPoner' = [porPoner EXCEPT ![m] = Tail(s)]
      /\ monitor' = [monitor EXCEPT ![m] = IF Len(s) = 1 THEN "libre" ELSE "poner"]
      /\ UNCHANGED <<parar, varsConsumidor, cerrada, tarde, tabla, recibidos, arranques, nacidos,
                     antes, fallidos, borrados, confirmados>>
  BY <1>1 DEF Poner, MonitorA
<1>3. /\ h \in Evento /\ h \in Elementos(s)
      /\ Tail(s) \in Seq(Evento) /\ Len(Tail(s)) = Len(s) - 1
      /\ Elementos(s) = Elementos(Tail(s)) \cup {h}
      /\ SinRepetir(Tail(s)) /\ h \notin Elementos(Tail(s))
  BY <1>1, SinLaPrimera DEF IInv, UnLugar
<1>4. h \notin Elementos(cola) /\ h \notin Elementos(buffer) /\ h <= nacidos
  BY <1>3 DEF IInv, UnLugar
<1> DEFINE t == Tail(s)
<1> HIDE DEF h, t
<1>5. /\ cola' \in Seq(Evento) /\ Len(cola') = Len(cola) + 1
      /\ Elementos(cola') = Elementos(cola) \cup {h} /\ SinRepetir(cola')
  BY <1>1, <1>2, <1>3, <1>4, AlFinal DEF IInv, UnLugar
<1>6. /\ porPoner' \in [Monitor -> Seq(Evento)] /\ porPoner'[m] = t
      /\ \A k \in Monitor : k # m => porPoner'[k] = porPoner[k]
  BY <1>1, <1>2, <1>3 DEF t
<1>7. /\ monitor' \in [Monitor -> {"libre", "recoger", "poner", "fin"}]
      /\ monitor'[m] = "poner" <=> Len(s) # 1
      /\ \A k \in Monitor : k # m => monitor'[k] = monitor[k]
  BY <1>2 DEF IInv, TypeOK
<1>8. TypeOK'
  <2>1. Len(cola') <= MaxCola
    BY <1>1, <1>2, <1>5, TuberiaConstantes
  <2>2. aceptados' \subseteq Evento
    BY <1>2, <1>3 DEF IInv, TypeOK
  <2> QED BY <1>2, <1>5, <1>6, <1>7, <2>1, <2>2 DEF IInv, TypeOK, varsConsumidor
<1>9. /\ \A k \in Monitor : Elementos(porPoner'[k]) \subseteq Elementos(porPoner[k])
      /\ \A k \in Monitor : h \notin Elementos(porPoner'[k])
  <2>1. \A k \in Monitor : k # m => h \notin Elementos(porPoner[k])
    BY <1>3 DEF IInv, UnLugar
  <2> QED BY <1>3, <1>6, <2>1 DEF t
<1>10. UnLugar'
  <2>1. \A k \in Monitor : SinRepetir(porPoner'[k])
    BY <1>3, <1>6 DEF IInv, UnLugar, t
  <2>2. buffer' = buffer /\ nacidos' = nacidos
    BY <1>2 DEF varsConsumidor
  <2>3. Elementos(cola') \cap Elementos(buffer) = {}
    BY <1>4, <1>5 DEF IInv, UnLugar
  <2>4. \A k \in Monitor : Elementos(porPoner'[k]) \cap (Elementos(cola') \cup Elementos(buffer)) = {}
    BY <1>5, <1>9 DEF IInv, UnLugar
  <2>5. \A k, j \in Monitor : k # j => Elementos(porPoner'[k]) \cap Elementos(porPoner'[j]) = {}
    BY <1>9 DEF IInv, UnLugar
  <2>6. \A e \in Elementos(cola') \cup Elementos(buffer) : e <= nacidos
    BY <1>4, <1>5 DEF IInv, UnLugar
  <2>7. \A k \in Monitor : \A e \in Elementos(porPoner'[k]) : e <= nacidos
    BY <1>9 DEF IInv, UnLugar
  <2>8. SinRepetir(buffer)
    BY DEF IInv, UnLugar
  <2> QED BY <1>5, <2>1, <2>2, <2>3, <2>4, <2>5, <2>6, <2>7, <2>8 DEF UnLugar
<1>11. Marcha'
  <2>1. Len(s) # 1 <=> t # <<>>
    <3>1. Len(s) \in Nat /\ Len(t) = Len(s) - 1 /\ t \in Seq(Evento)
      BY <1>1, <1>3 DEF t
    <3>2. t = <<>> <=> Len(t) = 0
      BY <3>1, EmptySeq
    <3> QED BY <3>1, <3>2
  <2> QED BY <1>2, <1>6, <1>7, <2>1 DEF IInv, Marcha, varsConsumidor
<1>12. PorEnviar'
  <2>1. recibidos[h] = 0 /\ h \notin confirmados
    BY <1>3 DEF IInv, PorEnviar
  <2>2. \A k \in Monitor : \A e \in Elementos(porPoner'[k]) : recibidos[e] = 0 /\ e \notin confirmados
    BY <1>9 DEF IInv, PorEnviar
  <2>3. \A e \in Elementos(cola') : recibidos[e] = 0 /\ e \notin confirmados
    BY <1>5, <2>1 DEF IInv, PorEnviar
  <2> QED BY <1>2, <2>2, <2>3 DEF IInv, PorEnviar, varsConsumidor
<1>13. Cierre' /\ Custodia' /\ EnviadoEstaGuardado' /\ VaciadoATiempo'
  BY <1>2, <1>5 DEF IInv, Cierre, Custodia, EnviadoEstaGuardado, VaciadoATiempo, Guardado, varsConsumidor
<1> QED BY <1>8, <1>10, <1>11, <1>12, <1>13 DEF IInv

\* The put that times out: what the monitor had left is dropped.
LEMMA AlDescartar ==
  ASSUME IInv, NEW m \in Monitor, Descartar(m)
  PROVE  IInv'
<1>1. /\ porPoner' = [porPoner EXCEPT ![m] = <<>>]
      /\ monitor' = [monitor EXCEPT ![m] = "libre"]
      /\ UNCHANGED <<parar, cola, varsConsumidor, cerrada, tarde, tabla, recibidos, arranques,
                     varsHistoria>>
  BY DEF Descartar, MonitorA
<1>2. /\ porPoner \in [Monitor -> Seq(Evento)] /\ porPoner' \in [Monitor -> Seq(Evento)]
      /\ porPoner'[m] = <<>> /\ \A k \in Monitor : k # m => porPoner'[k] = porPoner[k]
  BY <1>1 DEF IInv, TypeOK
<1>3. /\ monitor' \in [Monitor -> {"libre", "recoger", "poner", "fin"}]
      /\ monitor'[m] = "libre" /\ \A k \in Monitor : k # m => monitor'[k] = monitor[k]
  BY <1>1 DEF IInv, TypeOK
<1>4. \A k \in Monitor : /\ Elementos(porPoner'[k]) \subseteq Elementos(porPoner[k])
                         /\ SinRepetir(porPoner'[k])
  BY <1>2, Vacia DEF IInv, UnLugar
<1>5. TypeOK'
  BY <1>1, <1>2, <1>3 DEF IInv, TypeOK, varsConsumidor, varsHistoria
<1>6. UnLugar'
  BY <1>1, <1>4 DEF IInv, UnLugar, varsConsumidor, varsHistoria
<1>7. Marcha'
  BY <1>1, <1>2, <1>3 DEF IInv, Marcha, varsConsumidor
<1>8. PorEnviar'
  BY <1>1, <1>4 DEF IInv, PorEnviar, varsConsumidor, varsHistoria
<1>9. Cierre' /\ Custodia' /\ EnviadoEstaGuardado' /\ VaciadoATiempo'
  BY <1>1 DEF IInv, Cierre, Custodia, EnviadoEstaGuardado, VaciadoATiempo, Guardado, varsConsumidor,
              varsHistoria
<1> QED BY <1>5, <1>6, <1>7, <1>8, <1>9 DEF IInv

------------------------------------------------------------------------------
(* The consumer *)

\* Steps that only move it on.
LEMMA AlGirar ==
  ASSUME IInv, Girar
  PROVE  IInv'
<1>1. /\ fase = "bucle"
      /\ UNCHANGED <<parar, varsHilos, cerrada, tarde, arranques, nacidos, aceptados, antes>>
      /\ UNCHANGED <<cola, buffer, envio, tabla, recibidos, fallidos, borrados, confirmados>>
      /\ \/ fase' = "vaciar" /\ parar /\ cola = <<>>
         \/ fase' = "tomar"
  BY DEF Girar, Pasar
<1>2. TypeOK'
  BY <1>1 DEF IInv, TypeOK, varsHilos
<1>3. UnLugar' /\ PorEnviar'
  BY <1>1 DEF IInv, UnLugar, PorEnviar, varsHilos
<1>4. Marcha'
  BY <1>1 DEF IInv, Marcha, varsHilos
<1>5. Cierre' /\ Custodia'
  <2>1. ~tarde => antes \subseteq Guardado \cup Elementos(cola) \cup Elementos(buffer)
    BY DEF IInv, Cierre, Custodia
  <2>2. fase' = "vaciar" /\ ~tarde => antes \subseteq Guardado \cup Elementos(buffer)
    BY <1>1, <2>1, Vacia
  <2> QED BY <1>1, <2>2 DEF IInv, Cierre, Custodia, Guardado
<1>6. EnviadoEstaGuardado' /\ VaciadoATiempo'
  BY <1>1 DEF IInv, EnviadoEstaGuardado, VaciadoATiempo
<1> QED BY <1>2, <1>3, <1>4, <1>5, <1>6 DEF IInv

LEMMA AlTomar ==
  ASSUME IInv, Tomar
  PROVE  IInv'
<1>1. /\ fase = "tomar" /\ fase' = IF Len(buffer') >= Lote THEN "guardar" ELSE "mantener"
      /\ UNCHANGED <<parar, varsHilos, cerrada, tarde, arranques, nacidos, aceptados, antes>>
      /\ UNCHANGED <<envio, tabla, recibidos, fallidos, borrados, confirmados>>
  BY DEF Tomar, Pasar
<1>2. /\ Len(buffer) < Lote /\ envio = SinEnvio /\ Lote \in Nat \ {0}
      /\ cola \in Seq(Evento) /\ buffer \in Seq(Evento) /\ Len(buffer) \in Nat
  BY <1>1, TuberiaConstantes DEF IInv, Marcha, TypeOK
<1>3. CASE UNCHANGED <<buffer, cola>>
  <2>1. fase' = "mantener"
    BY <1>1, <1>2, <1>3
  <2>2. TypeOK'
    BY <1>1, <1>3, <2>1 DEF IInv, TypeOK, varsHilos
  <2>3. UnLugar' /\ PorEnviar' /\ Marcha'
    BY <1>1, <1>2, <1>3, <2>1 DEF IInv, UnLugar, PorEnviar, Marcha, varsHilos
  <2>4. Cierre' /\ Custodia' /\ EnviadoEstaGuardado' /\ VaciadoATiempo'
    BY <1>1, <1>3, <2>1 DEF IInv, Cierre, Custodia, EnviadoEstaGuardado, VaciadoATiempo, Guardado
  <2> QED BY <2>2, <2>3, <2>4 DEF IInv
<1>4. CASE cola # <<>> /\ buffer' = Append(buffer, Head(cola)) /\ cola' = Tail(cola)
  <2> DEFINE h == Head(cola)
  <2>1. /\ h \in Evento /\ h \in Elementos(cola)
        /\ cola' \in Seq(Evento) /\ Len(cola') = Len(cola) - 1
        /\ Elementos(cola) = Elementos(cola') \cup {h}
        /\ SinRepetir(cola') /\ h \notin Elementos(cola')
    BY <1>2, <1>4, SinLaPrimera DEF IInv, UnLugar
  <2> HIDE DEF h
  <2>2. h \notin Elementos(buffer)
    BY <2>1 DEF IInv, UnLugar
  <2>3. /\ buffer' \in Seq(Evento) /\ Len(buffer') = Len(buffer) + 1
        /\ Elementos(buffer') = Elementos(buffer) \cup {h} /\ SinRepetir(buffer')
    BY <1>2, <1>4, <2>1, <2>2, AlFinal DEF IInv, UnLugar, h
  <2>4. /\ fase' \in {"guardar", "mantener"} /\ Len(buffer') <= Lote
        /\ fase' = "mantener" => Len(buffer') < Lote
    BY <1>1, <1>2, <2>3
  <2>5. TypeOK'
    <3>1. Len(cola') <= MaxCola
      BY <1>2, <2>1, TuberiaConstantes DEF IInv, TypeOK
    <3> QED BY <1>1, <2>1, <2>3, <2>4, <3>1 DEF IInv, TypeOK, varsHilos
  <2>6. UnLugar'
    <3>1. Elementos(cola') \cup Elementos(buffer') = Elementos(cola) \cup Elementos(buffer)
      BY <2>1, <2>3
    <3>2. Elementos(cola') \cap Elementos(buffer') = {}
      BY <2>1, <2>3 DEF IInv, UnLugar
    <3>3. UNCHANGED <<porPoner, nacidos>>
      BY <1>1 DEF varsHilos
    <3> QED BY <2>1, <2>3, <3>1, <3>2, <3>3 DEF IInv, UnLugar
  <2>7. Marcha'
    <3>1. buffer' # <<>>
      BY <1>2, <2>3, Vacia
    <3> QED BY <1>1, <1>2, <2>4, <3>1 DEF IInv, Marcha, varsHilos
  <2>8. PorEnviar'
    <3>1. \A e \in Elementos(cola) \cup Elementos(buffer) : recibidos[e] = 0 /\ e \notin confirmados
      <4>1. \A i \in 1..Len(buffer) : recibidos[buffer[i]] = 0 /\ buffer[i] \notin confirmados
        <5> SUFFICES ASSUME NEW i \in 1..Len(buffer)
                     PROVE  recibidos[buffer[i]] = 0 /\ buffer[i] \notin confirmados
          OBVIOUS
        <5>1. envio.indice = 1 /\ envio.intento = 1
          BY <1>2 DEF SinEnvio
        <5>2. buffer[i] \in Evento
          BY <1>2
        <5>3. recibidos[buffer[i]] \in Nat
          BY <5>2 DEF IInv, TypeOK
        <5>4. i > 1 \/ i = 1
          BY <1>2
        <5> QED BY <5>1, <5>3, <5>4 DEF IInv, PorEnviar
      <4>2. \A e \in Elementos(buffer) : \E i \in 1..Len(buffer) : e = buffer[i]
        BY <1>2, ElementosDe
      <4> QED BY <4>1, <4>2 DEF IInv, PorEnviar
    <3>2. \A i \in 1..Len(buffer') : buffer'[i] \in Elementos(cola) \cup Elementos(buffer)
      <4>1. \A i \in 1..Len(buffer') : buffer'[i] \in Elementos(buffer')
        BY <2>3, ElementosDe
      <4> QED BY <2>1, <2>3, <4>1
    <3>3. envio.intento = 1
      BY <1>2 DEF SinEnvio
    <3>4. \A i \in 1..Len(buffer') : recibidos[buffer'[i]] = 0 /\ buffer'[i] \notin confirmados
      BY <3>1, <3>2
    <3>5. \A e \in Elementos(cola') : recibidos[e] = 0 /\ e \notin confirmados
      BY <2>1, <3>1
    <3> QED BY <1>1, <3>3, <3>4, <3>5 DEF IInv, PorEnviar, varsHilos
  <2>9. Cierre' /\ Custodia'
    <3>1. Elementos(cola') \cup Elementos(buffer') = Elementos(cola) \cup Elementos(buffer)
      BY <2>1, <2>3
    <3> QED BY <1>1, <2>4, <3>1 DEF IInv, Cierre, Custodia, Guardado
  <2>10. EnviadoEstaGuardado' /\ VaciadoATiempo'
    BY <1>1, <2>4 DEF IInv, EnviadoEstaGuardado, VaciadoATiempo
  <2> QED BY <2>5, <2>6, <2>7, <2>8, <2>9, <2>10 DEF IInv
<1> QED BY <1>3, <1>4 DEF Tomar

\* Storing, or failing to: either way there is a record of the batch.
LEMMA AlGuardar ==
  ASSUME IInv, Guardar
  PROVE  IInv'
<1>1. /\ fase = "guardar" /\ fase' = "decidir"
      /\ UNCHANGED <<parar, varsHilos, cerrada, tarde, arranques, nacidos, aceptados, antes>>
      /\ UNCHANGED <<cola, buffer, envio, recibidos, borrados, confirmados>>
  BY DEF Guardar, Pasar
<1>2. \/ tabla' = tabla \cup Elementos(buffer) /\ fallidos' = fallidos
      \/ tabla' = tabla /\ fallidos' = fallidos \cup Elementos(buffer)
      \/ cerrada /\ tabla' = tabla /\ fallidos' = fallidos
  BY DEF Guardar, guardar_eventos
<1>3. /\ cerrada => tarde /\ parar
      /\ Guardado \subseteq Guardado'
      /\ ~cerrada => Guardado' = Guardado \cup Elementos(buffer)
      /\ cerrada => Guardado' = Guardado
  BY <1>1, <1>2 DEF Guardado, IInv, Cierre, Guardar, guardar_eventos
<1>4. TypeOK'
  <2>1. Elementos(buffer) \subseteq Evento
    BY ElementosDe DEF IInv, TypeOK
  <2>2. tabla' \subseteq Evento /\ fallidos' \subseteq Evento
    BY <1>2, <2>1 DEF IInv, TypeOK
  <2> QED BY <1>1, <2>2 DEF IInv, TypeOK, varsHilos
<1>5. UnLugar' /\ PorEnviar' /\ Marcha'
  BY <1>1 DEF IInv, UnLugar, PorEnviar, Marcha, varsHilos
<1>6. Cierre' /\ Custodia'
  BY <1>1, <1>3 DEF IInv, Cierre, Custodia
<1>7. EnviadoEstaGuardado' /\ VaciadoATiempo'
  BY <1>1, <1>3 DEF IInv, EnviadoEstaGuardado, VaciadoATiempo, Guardado
<1> QED BY <1>4, <1>5, <1>6, <1>7 DEF IInv

\* An emptied buffer: its events are recorded.
LEMMA AlDecidir ==
  ASSUME IInv, Decidir
  PROVE  IInv'
<1>1. /\ fase = "decidir"
      /\ UNCHANGED <<parar, varsHilos, cerrada, tarde, arranques, nacidos, aceptados, antes>>
      /\ UNCHANGED <<cola, envio, tabla, recibidos, fallidos, borrados, confirmados>>
      /\ \/ fase' = "enviar" /\ UNCHANGED buffer
         \/ fase' = "mantener" /\ buffer' = <<>>
  BY DEF Decidir, Pasar
<1>2. /\ buffer # <<>> /\ envio = SinEnvio
      /\ fase' = "enviar" => Elementos(buffer) \subseteq Guardado
      /\ ~tarde => Elementos(buffer) \subseteq Guardado
      /\ buffer \in Seq(Evento) /\ Lote \in Nat \ {0}
  BY <1>1, TuberiaConstantes DEF IInv, Marcha, Custodia, TypeOK, Decidir, Pasar
<1>3. Elementos(<<>>) = {} /\ SinRepetir(<<>>) /\ Len(<<>>) = 0 /\ <<>> \in Seq(Evento)
  BY Vacia
<1>4. /\ buffer' \in Seq(Evento) /\ Len(buffer') <= Lote
      /\ SinRepetir(buffer') /\ Elementos(buffer') \subseteq Elementos(buffer)
      /\ fase' = "mantener" => Len(buffer') = 0
  <2>1. Len(buffer) <= Lote /\ SinRepetir(buffer)
    BY DEF IInv, TypeOK, UnLugar
  <2>2. CASE fase' = "enviar" /\ buffer' = buffer
    BY <1>2, <2>1, <2>2
  <2>3. CASE fase' = "mantener" /\ buffer' = <<>>
    BY <1>2, <1>3, <2>3
  <2> QED BY <1>1, <2>2, <2>3
<1>5. TypeOK'
  BY <1>1, <1>4 DEF IInv, TypeOK, varsHilos
<1>6. UnLugar'
  BY <1>1, <1>4 DEF IInv, UnLugar, varsHilos
<1>7. Marcha'
  <2>1. Len(buffer) >= 1 /\ envio.indice = 1
    BY <1>2 DEF SinEnvio
  <2> QED BY <1>1, <1>2, <1>4, <2>1 DEF IInv, Marcha, varsHilos
<1>8. PorEnviar'
  <2>1. CASE UNCHANGED buffer
    BY <1>1, <2>1 DEF IInv, PorEnviar, varsHilos
  <2>2. CASE fase' = "mantener"
    <3>1. 1..Len(buffer') = {}
      BY <1>4, <2>2
    <3> QED BY <1>1, <3>1 DEF IInv, PorEnviar, varsHilos
  <2> QED BY <1>1, <2>1, <2>2
<1>9. Cierre' /\ Custodia'
  <2>1. Guardado' = Guardado
    BY <1>1 DEF Guardado
  <2> QED BY <1>1, <1>2, <1>4, <2>1 DEF IInv, Cierre, Custodia
<1>10. EnviadoEstaGuardado' /\ VaciadoATiempo'
  BY <1>1 DEF IInv, EnviadoEstaGuardado, VaciadoATiempo
<1> QED BY <1>5, <1>6, <1>7, <1>8, <1>9, <1>10 DEF IInv

\* One attempt of the event in flight: only its count at the server can change.
LEMMA UnIntento ==
  ASSUME IInv, fase = "enviar",
         recibidos' \in {recibidos, [recibidos EXCEPT ![EnVuelo] = @ + 1]},
         confirmados' \in {confirmados, confirmados \cup {EnVuelo}}
  PROVE  /\ buffer \in Seq(Evento) /\ envio.indice \in 1..Len(buffer) /\ Len(buffer) \in Nat
         /\ envio.intento \in 1..MaxReintentos /\ Len(buffer) <= Lote /\ Lote \in Nat
         /\ EnVuelo \in Evento /\ EnVuelo \in Elementos(buffer)
         /\ EnVuelo \in Guardado /\ EnVuelo \notin confirmados
         /\ recibidos' \in [Evento -> Nat] /\ confirmados' \subseteq Evento
         /\ recibidos'[EnVuelo] <= envio.intento
         /\ \A e \in Evento : recibidos'[e] <= MaxReintentos
         /\ \A e \in Evento : e # EnVuelo =>
              recibidos'[e] = recibidos[e] /\ (e \in confirmados' => e \in confirmados)
<1>1. /\ buffer \in Seq(Evento) /\ Len(buffer) \in Nat /\ Len(buffer) <= Lote /\ Lote \in Nat
      /\ MaxReintentos \in Nat /\ envio.indice \in Nat /\ envio.indice >= 1
      /\ envio.intento \in 1..MaxReintentos
      /\ recibidos \in [Evento -> Nat] /\ confirmados \subseteq Evento
  BY TuberiaConstantes DEF IInv, TypeOK
<1>2. envio.indice \in 1..Len(buffer)
  BY <1>1 DEF IInv, Marcha
<1> DEFINE e0 == EnVuelo
<1>3. e0 \in Evento /\ e0 \in Elementos(buffer) /\ e0 \in Guardado
  <2>1. e0 = buffer[envio.indice]
    BY DEF EnVuelo
  <2>2. e0 \in Evento /\ e0 \in Elementos(buffer)
    BY <1>1, <1>2, <2>1, ElementosDe
  <2> QED BY <2>2 DEF IInv, Cierre, Custodia
<1>4. recibidos[e0] < envio.intento /\ e0 \notin confirmados
  BY <1>2 DEF IInv, PorEnviar, EnVuelo
<1> HIDE DEF e0
<1>5. recibidos' = recibidos \/ recibidos' = [recibidos EXCEPT ![e0] = @ + 1]
  BY DEF e0
<1>6. /\ recibidos' \in [Evento -> Nat]
      /\ \A e \in Evento : e # e0 => recibidos'[e] = recibidos[e]
      /\ recibidos'[e0] <= recibidos[e0] + 1 /\ recibidos[e0] \in Nat
  BY <1>1, <1>3, <1>5
<1>7. recibidos'[e0] <= envio.intento /\ recibidos'[e0] <= MaxReintentos
  BY <1>1, <1>3, <1>4, <1>6
<1>8. \A e \in Evento : recibidos'[e] <= MaxReintentos
  BY <1>6, <1>7 DEF IInv, PorEnviar
<1>9. /\ confirmados' \subseteq Evento
      /\ \A e \in Evento : e # e0 => (e \in confirmados' => e \in confirmados)
  BY <1>1, <1>3 DEF e0
<1> QED BY <1>1, <1>2, <1>3, <1>4, <1>6, <1>7, <1>8, <1>9 DEF e0

\* The event in flight is nowhere else in the pipeline.
LEMMA SoloEnVuelo ==
  ASSUME IInv, fase = "enviar"
  PROVE  /\ \A e \in Elementos(cola) : e \in Evento /\ e # EnVuelo
         /\ \A m \in Monitor : \A e \in Elementos(porPoner[m]) : e \in Evento /\ e # EnVuelo
         /\ \A i \in 1..Len(buffer) : buffer[i] \in Evento /\ (i # envio.indice => buffer[i] # EnVuelo)
         /\ EnVuelo <= nacidos
<1>1. /\ buffer \in Seq(Evento) /\ cola \in Seq(Evento) /\ Len(buffer) \in Nat
      /\ \A m \in Monitor : porPoner[m] \in Seq(Evento)
      /\ envio.indice \in 1..Len(buffer)
  BY TuberiaConstantes DEF IInv, TypeOK, Marcha
<1>2. EnVuelo = buffer[envio.indice]
  BY DEF EnVuelo
<1>3. EnVuelo \in Elementos(buffer)
  BY <1>1, <1>2, ElementosDe
<1>4. Elementos(cola) \subseteq Evento /\ \A m \in Monitor : Elementos(porPoner[m]) \subseteq Evento
  BY <1>1, ElementosDe
<1>5. \A i \in 1..Len(buffer) : buffer[i] \in Evento /\ (i # envio.indice => buffer[i] # EnVuelo)
  BY <1>1, <1>2 DEF IInv, UnLugar, SinRepetir
<1> QED BY <1>3, <1>4, <1>5 DEF IInv, UnLugar

LEMMA AlSiguiente ==
  ASSUME IInv, fase = "enviar", Siguiente,
         recibidos' \in {recibidos, [recibidos EXCEPT ![EnVuelo] = @ + 1]},
         confirmados' \in {confirmados, confirmados \cup {EnVuelo}},
         UNCHANGED <<cola, tabla, fallidos, borrados>>
  PROVE  IInv'
<1>1. /\ UNCHANGED <<parar, varsHilos, cerrada, tarde, arranques, nacidos, aceptados, antes>>
      /\ \/ /\ envio.indice < Len(buffer) /\ fase' = "enviar" /\ buffer' = buffer
            /\ envio' = [indice |-> envio.indice + 1, intento |-> 1]
         \/ envio' = SinEnvio /\ fase' = "mantener" /\ buffer' = <<>>
  BY DEF Siguiente, Pasar
<1>2. /\ buffer \in Seq(Evento) /\ envio.indice \in 1..Len(buffer) /\ Len(buffer) \in Nat
      /\ Len(buffer) <= Lote /\ Lote \in Nat
      /\ EnVuelo \in Evento /\ EnVuelo \in Elementos(buffer) /\ EnVuelo \in Guardado
      /\ recibidos' \in [Evento -> Nat] /\ confirmados' \subseteq Evento
      /\ \A e \in Evento : recibidos'[e] <= MaxReintentos
      /\ \A e \in Evento : e # EnVuelo =>
           recibidos'[e] = recibidos[e] /\ (e \in confirmados' => e \in confirmados)
  BY UnIntento
<1>3. UNCHANGED <<cola, tabla, fallidos, borrados, porPoner, monitor>> /\ Guardado' = Guardado
  BY <1>1 DEF Guardado, varsHilos
<1>4. /\ buffer' \in Seq(Evento) /\ Len(buffer') <= Lote /\ SinRepetir(buffer')
      /\ Elementos(buffer') \subseteq Elementos(buffer)
      /\ envio' \in [indice : 1..Lote, intento : 1..MaxReintentos]
  <2>1. CASE envio' = SinEnvio /\ buffer' = <<>>
    BY <1>2, <2>1, Vacia, TuberiaConstantes DEF SinEnvio
  <2>2. CASE /\ envio.indice < Len(buffer) /\ buffer' = buffer
             /\ envio' = [indice |-> envio.indice + 1, intento |-> 1]
    <3>1. envio.indice + 1 \in 1..Lote /\ 1 \in 1..MaxReintentos
      BY <1>2, <2>2, TuberiaConstantes
    <3> QED BY <1>2, <2>2, <3>1 DEF IInv, UnLugar
  <2> QED BY <1>1, <2>1, <2>2
<1>5. TypeOK'
  BY <1>1, <1>2, <1>3, <1>4 DEF IInv, TypeOK
<1>6. UnLugar'
  BY <1>1, <1>3, <1>4 DEF IInv, UnLugar
<1>7. Marcha'
  <2>1. CASE fase' = "enviar"
    <3>1. buffer' = buffer /\ envio'.indice = envio.indice + 1 /\ envio.indice < Len(buffer)
      BY <1>1, <2>1
    <3>2. buffer # <<>> /\ envio'.indice <= Len(buffer)
      BY <1>2, <3>1 DEF IInv, Marcha
    <3> QED BY <1>1, <1>3, <2>1, <3>1, <3>2 DEF IInv, Marcha
  <2>2. CASE fase' = "mantener"
    <3>1. Len(buffer') = 0 /\ Lote > 0 /\ envio' = SinEnvio
      BY <1>1, <2>2, Vacia, TuberiaConstantes
    <3> QED BY <1>1, <1>3, <2>2, <3>1 DEF IInv, Marcha
  <2> QED BY <1>1, <2>1, <2>2
<1>8. PorEnviar'
  <2>1. /\ \A e \in Elementos(cola) : e \in Evento /\ e # EnVuelo
        /\ \A m \in Monitor : \A e \in Elementos(porPoner[m]) : e \in Evento /\ e # EnVuelo
        /\ \A i \in 1..Len(buffer) : buffer[i] \in Evento /\ (i # envio.indice => buffer[i] # EnVuelo)
        /\ \A e \in Evento : e > nacidos => e # EnVuelo
    <3>1. EnVuelo <= nacidos /\ EnVuelo \in Nat /\ nacidos \in Nat
      BY <1>2, SoloEnVuelo DEF Evento, IInv, TypeOK
    <3> QED BY <3>1, SoloEnVuelo
  <2>2. \A i \in 1..Len(buffer') :
          /\ i > envio'.indice => recibidos'[buffer'[i]] = 0 /\ buffer'[i] \notin confirmados'
          /\ i = envio'.indice => recibidos'[buffer'[i]] < envio'.intento /\ buffer'[i] \notin confirmados'
    <3>1. CASE buffer' = <<>>
      BY <3>1, Vacia
    <3>2. CASE buffer' = buffer /\ envio' = [indice |-> envio.indice + 1, intento |-> 1]
      <4> SUFFICES ASSUME NEW i \in 1..Len(buffer), i >= envio.indice + 1
                   PROVE  recibidos'[buffer[i]] = 0 /\ buffer[i] \notin confirmados'
        BY <1>2, <3>2
      <4>1. i > envio.indice /\ i # envio.indice
        BY <1>2
      <4>2. recibidos[buffer[i]] = 0 /\ buffer[i] \notin confirmados
        BY <4>1 DEF IInv, PorEnviar
      <4>3. buffer[i] \in Evento /\ buffer[i] # EnVuelo
        BY <2>1, <4>1
      <4> QED BY <1>2, <4>2, <4>3
    <3> QED BY <1>1, <3>1, <3>2
  <2>3. \A e \in Elementos(cola) : recibidos'[e] = 0 /\ e \notin confirmados'
    BY <1>2, <2>1 DEF IInv, PorEnviar
  <2>4. \A m \in Monitor : \A e \in Elementos(porPoner[m]) : recibidos'[e] = 0 /\ e \notin confirmados'
    BY <1>2, <2>1 DEF IInv, PorEnviar
  <2>5. \A e \in Evento : e > nacidos => recibidos'[e] = 0 /\ e \notin confirmados'
    BY <1>2, <2>1 DEF IInv, PorEnviar
  <2> QED BY <1>1, <1>2, <1>3, <2>2, <2>3, <2>4, <2>5 DEF PorEnviar
<1>9. Cierre' /\ Custodia'
  <2>1. Elementos(buffer) \subseteq Guardado
    BY DEF IInv, Cierre, Custodia
  <2> QED BY <1>1, <1>3, <1>4, <2>1 DEF IInv, Cierre, Custodia
<1>10. EnviadoEstaGuardado' /\ VaciadoATiempo'
  <2>1. \A e \in Evento : recibidos'[e] > 0 => e \in Guardado
    BY <1>2 DEF IInv, EnviadoEstaGuardado, Guardado
  <2> QED BY <1>1, <1>3, <2>1 DEF EnviadoEstaGuardado, VaciadoATiempo, Guardado
<1> QED BY <1>5, <1>6, <1>7, <1>8, <1>9, <1>10 DEF IInv

LEMMA AlConfirmar ==
  ASSUME IInv, Confirmar
  PROVE  IInv'
BY AlSiguiente DEF Confirmar

LEMMA AlFracasar ==
  ASSUME IInv, Fracasar
  PROVE  IInv'
<1>1. /\ fase = "enviar" /\ confirmados' = confirmados
      /\ recibidos' \in {recibidos, [recibidos EXCEPT ![EnVuelo] = @ + 1]}
      /\ UNCHANGED <<cola, tabla, fallidos, borrados>>
  BY DEF Fracasar
<1>2. CASE Siguiente
  BY <1>1, <1>2, AlSiguiente
<1>3. CASE /\ envio.intento < MaxReintentos
           /\ envio' = [envio EXCEPT !.intento = @ + 1]
           /\ Pasar("enviar") /\ UNCHANGED buffer
  <2>1. /\ buffer \in Seq(Evento) /\ envio.indice \in 1..Len(buffer) /\ Len(buffer) \in Nat
        /\ envio.intento \in 1..MaxReintentos /\ Len(buffer) <= Lote /\ Lote \in Nat
        /\ EnVuelo \in Evento /\ EnVuelo \in Guardado /\ EnVuelo \notin confirmados
        /\ recibidos' \in [Evento -> Nat]
        /\ recibidos'[EnVuelo] <= envio.intento
        /\ \A e \in Evento : recibidos'[e] <= MaxReintentos
        /\ \A e \in Evento : e # EnVuelo => recibidos'[e] = recibidos[e]
    BY <1>1, UnIntento
  <2>2. /\ UNCHANGED <<parar, porPoner, monitor, cerrada, tarde, arranques, nacidos, aceptados, antes>>
        /\ fase' = "enviar" /\ buffer' = buffer
    BY <1>3 DEF Pasar, varsHilos
  <2>3. /\ envio' \in [indice : 1..Lote, intento : 1..MaxReintentos]
        /\ envio'.indice = envio.indice /\ envio'.intento = envio.intento + 1
    <3>1. envio \in [indice : 1..Lote, intento : 1..MaxReintentos]
      BY DEF IInv, TypeOK
    <3>2. envio.intento + 1 \in 1..MaxReintentos
      BY <1>3, <2>1, TuberiaConstantes
    <3> QED BY <1>3, <3>1, <3>2
  <2>4. TypeOK'
    BY <1>1, <2>1, <2>2, <2>3 DEF IInv, TypeOK
  <2>5. UnLugar'
    BY <1>1, <2>2 DEF IInv, UnLugar
  <2>6. Marcha'
    BY <1>1, <2>2, <2>3 DEF IInv, Marcha
  <2>7. PorEnviar'
    <3>1. /\ \A e \in Elementos(cola) : e \in Evento /\ e # EnVuelo
          /\ \A m \in Monitor : \A e \in Elementos(porPoner[m]) : e \in Evento /\ e # EnVuelo
          /\ \A i \in 1..Len(buffer) : buffer[i] \in Evento /\ (i # envio.indice => buffer[i] # EnVuelo)
      BY <1>1, SoloEnVuelo
    <3>2. \A e \in Evento : e > nacidos => e # EnVuelo
      <4>1. EnVuelo <= nacidos /\ EnVuelo \in Nat /\ nacidos \in Nat
        BY <1>1, <2>1, SoloEnVuelo DEF Evento, IInv, TypeOK
      <4> QED BY <4>1
    <3>3. \A i \in 1..Len(buffer) :
            /\ i > envio.indice => recibidos'[buffer[i]] = 0 /\ buffer[i] \notin confirmados
            /\ i = envio.indice => recibidos'[buffer[i]] < envio.intento + 1 /\ buffer[i] \notin confirmados
      <4> SUFFICES ASSUME NEW i \in 1..Len(buffer)
                   PROVE  /\ i > envio.indice => recibidos'[buffer[i]] = 0 /\ buffer[i] \notin confirmados
                          /\ i = envio.indice => /\ recibidos'[buffer[i]] < envio.intento + 1
                                                 /\ buffer[i] \notin confirmados
        OBVIOUS
      <4>1. CASE i > envio.indice
        <5>1. i # envio.indice
          BY <2>1, <4>1
        <5> QED BY <2>1, <3>1, <4>1, <5>1 DEF IInv, PorEnviar
      <4>2. CASE i = envio.indice
        <5>1. buffer[i] = EnVuelo
          BY <4>2 DEF EnVuelo
        <5>2. recibidos'[EnVuelo] \in Nat /\ envio.intento \in Nat
          BY <2>1
        <5>3. recibidos'[buffer[i]] < envio.intento + 1 /\ buffer[i] \notin confirmados
          BY <2>1, <5>1, <5>2
        <5> QED BY <2>1, <4>2, <5>3
      <4> QED BY <2>1, <4>1, <4>2
    <3>4. \A e \in Elementos(cola) : recibidos'[e] = 0 /\ e \notin confirmados
      BY <2>1, <3>1 DEF IInv, PorEnviar
    <3>5. \A m \in Monitor : \A e \in Elementos(porPoner[m]) : recibidos'[e] = 0 /\ e \notin confirmados
      BY <2>1, <3>1 DEF IInv, PorEnviar
    <3>6. \A e \in Evento : e > nacidos => recibidos'[e] = 0 /\ e \notin confirmados
      BY <2>1, <3>2 DEF IInv, PorEnviar
    <3> QED BY <1>1, <2>1, <2>2, <2>3, <3>3, <3>4, <3>5, <3>6 DEF PorEnviar
  <2>8. Cierre' /\ Custodia'
    BY <1>1, <2>2 DEF IInv, Cierre, Custodia, Guardado
  <2>9. EnviadoEstaGuardado' /\ VaciadoATiempo'
    <3>1. \A e \in Evento : recibidos'[e] > 0 => e \in Guardado
      BY <2>1 DEF IInv, EnviadoEstaGuardado, Guardado
    <3> QED BY <1>1, <2>2, <3>1 DEF EnviadoEstaGuardado, VaciadoATiempo, Guardado
  <2> QED BY <2>4, <2>5, <2>6, <2>7, <2>8, <2>9 DEF IInv
<1> QED BY <1>2, <1>3 DEF Fracasar

\* What maintenance deletes stays on record as deleted.
LEMMA AlMantener ==
  ASSUME IInv, Mantener
  PROVE  IInv'
<1>1. /\ fase = "mantener" /\ fase' = "bucle"
      /\ UNCHANGED <<parar, varsHilos, cerrada, tarde, arranques, nacidos, aceptados, antes>>
      /\ UNCHANGED <<cola, buffer, envio, recibidos, fallidos, confirmados>>
  BY DEF Mantener, Pasar
<1>2. tabla' \subseteq tabla /\ borrados' \subseteq borrados \cup tabla /\ Guardado' = Guardado
  <2>1. CASE UNCHANGED <<tabla, borrados>>
    BY <1>1, <2>1 DEF Guardado
  <2>2. CASE \E e \in tabla : /\ tabla' = {f \in tabla : f > e}
                              /\ borrados' = borrados \cup (tabla \ tabla')
    <3>1. tabla' \subseteq tabla /\ borrados' = borrados \cup (tabla \ tabla')
      BY <2>2
    <3> QED BY <1>1, <3>1 DEF Guardado
  <2> QED BY <2>1, <2>2 DEF Mantener
<1>3. TypeOK'
  BY <1>1, <1>2 DEF IInv, TypeOK, varsHilos
<1>4. UnLugar' /\ PorEnviar' /\ Marcha'
  BY <1>1 DEF IInv, UnLugar, PorEnviar, Marcha, varsHilos
<1>5. Cierre' /\ Custodia'
  BY <1>1, <1>2 DEF IInv, Cierre, Custodia
<1>6. EnviadoEstaGuardado' /\ VaciadoATiempo'
  BY <1>1, <1>2 DEF IInv, EnviadoEstaGuardado, VaciadoATiempo, Guardado
<1> QED BY <1>3, <1>4, <1>5, <1>6 DEF IInv

LEMMA AlVaciar ==
  ASSUME IInv, Vaciar
  PROVE  IInv'
<1>1. /\ fase = "vaciar" /\ fase' = "fin"
      /\ UNCHANGED <<parar, varsHilos, cerrada, tarde, arranques, nacidos, aceptados, antes>>
      /\ UNCHANGED <<cola, buffer, envio, recibidos, borrados, confirmados>>
  BY DEF Vaciar, Pasar
<1>2. Elementos(buffer) \subseteq Evento
  BY ElementosDe DEF IInv, TypeOK
<1>3. /\ Guardado \subseteq Guardado'
      /\ ~tarde => Guardado' = Guardado \cup Elementos(buffer)
      /\ tabla' \subseteq Evento /\ fallidos' \subseteq Evento
  <2>1. CASE buffer = <<>> /\ UNCHANGED <<tabla, fallidos>>
    BY <1>1, <2>1, Vacia DEF Guardado, IInv, TypeOK
  <2>2. CASE guardar_eventos
    <3>1. \/ tabla' = tabla \cup Elementos(buffer) /\ fallidos' = fallidos
          \/ tabla' = tabla /\ fallidos' = fallidos \cup Elementos(buffer)
          \/ cerrada /\ tabla' = tabla /\ fallidos' = fallidos
      BY <2>2 DEF guardar_eventos
    <3>2. cerrada => tarde
      BY <1>1 DEF IInv, Cierre
    <3> QED BY <1>1, <1>2, <2>2, <3>1, <3>2 DEF guardar_eventos, Guardado, IInv, TypeOK
  <2> QED BY <2>1, <2>2 DEF Vaciar
<1>4. TypeOK'
  BY <1>1, <1>3 DEF IInv, TypeOK, varsHilos
<1>5. UnLugar' /\ PorEnviar' /\ Marcha'
  BY <1>1 DEF IInv, UnLugar, PorEnviar, Marcha, varsHilos
<1>6. Cierre' /\ Custodia' /\ VaciadoATiempo'
  BY <1>1, <1>3 DEF IInv, Cierre, Custodia, VaciadoATiempo, Guardado
<1>7. EnviadoEstaGuardado'
  BY <1>1, <1>3 DEF IInv, EnviadoEstaGuardado, Guardado
<1> QED BY <1>4, <1>5, <1>6, <1>7 DEF IInv
------------------------------------------------------------------------------
(* The process *)

LEMMA AlParar ==
  ASSUME IInv, Parar
  PROVE  IInv'
<1>1. /\ ~parar /\ parar' = TRUE /\ antes' = aceptados
      /\ UNCHANGED <<cola, varsHilos, varsConsumidor, cerrada, tarde, tabla, recibidos, arranques,
                     nacidos, aceptados, fallidos, borrados, confirmados>>
  BY DEF Parar
<1>2. fase \notin {"vaciar", "fin"}
  BY <1>1 DEF IInv, Marcha
<1>3. TypeOK'
  BY <1>1 DEF IInv, TypeOK, varsHilos, varsConsumidor
<1>4. UnLugar' /\ PorEnviar' /\ Marcha'
  BY <1>1 DEF IInv, UnLugar, PorEnviar, Marcha, varsHilos, varsConsumidor
<1>5. Cierre' /\ Custodia' /\ EnviadoEstaGuardado' /\ VaciadoATiempo'
  BY <1>1, <1>2 DEF IInv, Cierre, Custodia, EnviadoEstaGuardado, VaciadoATiempo, Guardado, varsConsumidor
<1> QED BY <1>3, <1>4, <1>5 DEF IInv

LEMMA AlCerrar ==
  ASSUME IInv, Cerrar
  PROVE  IInv'
<1>1. /\ parar /\ ~cerrada /\ cerrada' = TRUE /\ tarde' = (fase # "fin")
      /\ UNCHANGED <<parar, cola, varsHilos, varsConsumidor, tabla, recibidos, arranques,
                     varsHistoria>>
  BY DEF Cerrar
<1>2. TypeOK'
  BY <1>1 DEF IInv, TypeOK, varsHilos, varsConsumidor, varsHistoria
<1>3. UnLugar' /\ PorEnviar' /\ Marcha'
  BY <1>1 DEF IInv, UnLugar, PorEnviar, Marcha, varsHilos, varsConsumidor, varsHistoria
<1>4. Cierre' /\ Custodia' /\ EnviadoEstaGuardado' /\ VaciadoATiempo'
  BY <1>1 DEF IInv, Cierre, Custodia, EnviadoEstaGuardado, VaciadoATiempo, Guardado, varsConsumidor,
              varsHistoria
<1> QED BY <1>2, <1>3, <1>4 DEF IInv

\* Ended or killed: nothing of the pipeline is left but the database.
LEMMA AlArrancar ==
  ASSUME IInv, Arrancar
  PROVE  IInv'
<1>1. /\ arranques < MaxArranques /\ arranques' = arranques + 1
      /\ parar' = FALSE /\ cerrada' = FALSE /\ tarde' = FALSE /\ cola' = <<>>
      /\ monitor' = [m \in Monitor |-> "libre"] /\ porPoner' = [m \in Monitor |-> <<>>]
      /\ fase' = "bucle" /\ buffer' = <<>> /\ envio' = SinEnvio
      /\ aceptados' = {} /\ antes' = {}
      /\ UNCHANGED <<tabla, recibidos, nacidos, fallidos, borrados, confirmados>>
  BY DEF Arrancar
<1>2. /\ Len(<<>>) = 0 /\ <<>> \in Seq(Evento) /\ Lote \in Nat \ {0} /\ MaxCola \in Nat
      /\ SinEnvio \in [indice : 1..Lote, intento : 1..MaxReintentos]
  BY Vacia, TuberiaConstantes DEF SinEnvio
<1>3. arranques' \in 0..MaxArranques
  BY <1>1, TuberiaConstantes DEF IInv, TypeOK
<1>4. TypeOK'
  <2>1. porPoner' \in [Monitor -> Seq(Evento)]
    BY <1>1, <1>2
  <2>2. monitor' \in [Monitor -> {"libre", "recoger", "poner", "fin"}]
    BY <1>1
  <2>3. /\ cola' \in Seq(Evento) /\ Len(cola') <= MaxCola
        /\ buffer' \in Seq(Evento) /\ Len(buffer') <= Lote
        /\ envio' \in [indice : 1..Lote, intento : 1..MaxReintentos]
    BY <1>1, <1>2
  <2> QED BY <1>1, <1>3, <2>1, <2>2, <2>3 DEF IInv, TypeOK
<1>5. Elementos(cola') = {} /\ Elementos(buffer') = {} /\ SinRepetir(cola') /\ SinRepetir(buffer')
      /\ \A m \in Monitor : Elementos(porPoner'[m]) = {} /\ SinRepetir(porPoner'[m])
  BY <1>1, Vacia
<1>6. UnLugar'
  BY <1>5 DEF UnLugar
<1>7. Marcha'
  BY <1>1, <1>2 DEF Marcha
<1>8. PorEnviar'
  <2>1. 1..Len(buffer') = {}
    BY <1>1, <1>2
  <2> QED BY <1>1, <1>5, <2>1 DEF IInv, PorEnviar
<1>9. Cierre' /\ Custodia' /\ EnviadoEstaGuardado' /\ VaciadoATiempo'
  BY <1>1 DEF IInv, Cierre, Custodia, EnviadoEstaGuardado, VaciadoATiempo
<1> QED BY <1>4, <1>6, <1>7, <1>8, <1>9 DEF IInv

LEMMA Inicial == Init => IInv
<1> SUFFICES ASSUME Init
             PROVE  IInv
  OBVIOUS
<1>1. /\ Len(<<>>) = 0 /\ <<>> \in Seq(Evento) /\ Lote \in Nat \ {0} /\ MaxCola \in Nat
      /\ MaxReintentos \in Nat /\ MaxArranques \in Nat /\ MaxEventos \in Nat
      /\ SinEnvio \in [indice : 1..Lote, intento : 1..MaxReintentos]
  BY Vacia, TuberiaConstantes DEF SinEnvio
<1>2. TypeOK
  <2>1. porPoner \in [Monitor -> Seq(Evento)]
    BY <1>1 DEF Init
  <2>2. monitor \in [Monitor -> {"libre", "recoger", "poner", "fin"}]
    BY DEF Init
  <2>3. /\ cola \in Seq(Evento) /\ Len(cola) <= MaxCola
        /\ buffer \in Seq(Evento) /\ Len(buffer) <= Lote
        /\ envio \in [indice : 1..Lote, intento : 1..MaxReintentos]
    BY <1>1 DEF Init
  <2>4. recibidos \in [Evento -> Nat] /\ arranques \in 0..MaxArranques /\ nacidos \in 0..MaxEventos
    BY <1>1 DEF Init
  <2>5. /\ parar \in BOOLEAN /\ cerrada = FALSE /\ tarde = FALSE /\ fase = "bucle"
        /\ tabla \cup aceptados \cup antes \cup fallidos \cup borrados \cup confirmados = {}
    BY DEF Init
  <2> QED BY <2>1, <2>2, <2>3, <2>4, <2>5 DEF TypeOK
<1>3. Elementos(cola) = {} /\ Elementos(buffer) = {} /\ SinRepetir(cola) /\ SinRepetir(buffer)
      /\ \A m \in Monitor : Elementos(porPoner[m]) = {} /\ SinRepetir(porPoner[m])
  BY Vacia DEF Init
<1>4. UnLugar
  BY <1>3 DEF UnLugar
<1>5. Marcha
  BY <1>1 DEF Init, Marcha
<1>6. PorEnviar
  <2>1. 1..Len(buffer) = {}
    BY <1>1 DEF Init
  <2>2. \A e \in Evento : recibidos[e] = 0 /\ e \notin confirmados
    BY DEF Init
  <2>3. \A e \in Evento : recibidos[e] <= MaxReintentos
    BY <1>1, <2>2
  <2> QED BY <1>3, <2>1, <2>2, <2>3 DEF PorEnviar
<1>7. Cierre /\ Custodia /\ EnviadoEstaGuardado /\ VaciadoATiempo
  BY DEF Init, Cierre, Custodia, EnviadoEstaGuardado, VaciadoATiempo
<1> QED BY <1>2, <1>4, <1>5, <1>6, <1>7 DEF IInv

LEMMA PasoInvariante == IInv /\ [Next]_varsTuberia => IInv'
<1> SUFFICES ASSUME IInv, [Next]_varsTuberia
             PROVE  IInv'
  OBVIOUS
<1>1. ASSUME NEW m \in Monitor, PasoMonitor(m)
      PROVE  IInv'
  BY <1>1, AlEmpezarCiclo, AlRecoger, AlPoner, AlDescartar DEF PasoMonitor
<1>2. CASE PasoConsumidor
  BY <1>2, AlGirar, AlTomar, AlGuardar, AlDecidir, AlConfirmar, AlFracasar, AlMantener, AlVaciar
  DEF PasoConsumidor
<1>3. CASE Parar \/ Cerrar \/ Arrancar
  BY <1>3, AlParar, AlCerrar, AlArrancar
<1>4. CASE UNCHANGED varsTuberia
  <2>1. UNCHANGED <<parar, cola, monitor, porPoner, fase, buffer, envio, cerrada, tarde, tabla, recibidos,
                    arranques, nacidos, aceptados, antes, fallidos, borrados, confirmados>>
    BY <1>4 DEF varsTuberia, varsHilos, varsConsumidor, varsHistoria
  <2>2. TypeOK' /\ UnLugar' /\ Marcha' /\ PorEnviar'
    BY <2>1 DEF IInv, TypeOK, UnLugar, Marcha, PorEnviar
  <2>3. Cierre' /\ Custodia' /\ EnviadoEstaGuardado' /\ VaciadoATiempo'
    BY <2>1 DEF IInv, Cierre, Custodia, EnviadoEstaGuardado, VaciadoATiempo, Guardado
  <2> QED BY <2>2, <2>3 DEF IInv
<1> QED BY <1>1, <1>2, <1>3, <1>4 DEF Next

\* The inductive invariant: an event is in one place of the pipeline, with what the server
\* has of it, and on record before it leaves.
THEOREM Invariante == Spec => []IInv
BY Inicial, PasoInvariante, PTL DEF Spec

\* The threads keep their types; the queue and the buffer stay within their limits.
THEOREM TiposTuberia == Spec => []TypeOK
<1>1. IInv => TypeOK
  BY DEF IInv
<1> QED BY Invariante, <1>1, PTL

\* main and the consumer: if the consumer ended while the database was open, what was in the
\* queue when the signal came is in the database, or was deleted from it or logged as failed.
THEOREM VaciadoATiempoSiempre == Spec => []VaciadoATiempo
<1>1. IInv => VaciadoATiempo
  BY DEF IInv
<1> QED BY <1>1, Invariante, PTL

\* The consumer stores a batch before it sends it, crashes and restarts included.
THEOREM EnviadoEstaGuardadoSiempre == Spec => []EnviadoEstaGuardado
<1>1. IInv => EnviadoEstaGuardado
  BY DEF IInv
<1> QED BY <1>1, Invariante, PTL

\* AgenteSender: an event the server confirmed is not sent again, and none arrives more
\* often than it is tried.
THEOREM SinReenvioSiempre == Spec => SinReenvio
<1> DEFINE A == \A e \in Evento : (e \in confirmados => recibidos'[e] = recibidos[e])
                                  /\ recibidos'[e] <= MaxReintentos
<1>1. IInv /\ [Next]_varsTuberia => [A]_varsTuberia
  <2> SUFFICES ASSUME IInv, Next
               PROVE  A
    BY DEF varsTuberia
  <2>1. CASE UNCHANGED recibidos
    BY <2>1 DEF IInv, PorEnviar
  <2>2. CASE Confirmar \/ Fracasar
    <3>1. /\ fase = "enviar"
          /\ recibidos' \in {recibidos, [recibidos EXCEPT ![EnVuelo] = @ + 1]}
          /\ confirmados' \in {confirmados, confirmados \cup {EnVuelo}}
      BY <2>2 DEF Confirmar, Fracasar
    <3> QED BY <3>1, UnIntento
  <2>3. ~UNCHANGED recibidos => Confirmar \/ Fracasar
    BY DEF Next, PasoMonitor, EmpezarCiclo, Recoger, Poner, Descartar, PasoConsumidor, Girar, Tomar,
           Guardar, Decidir, Mantener, Vaciar, Parar, Cerrar, Arrancar, varsTuberia
  <2> QED BY <2>1, <2>2, <2>3
<1> QED BY <1>1, Invariante, PTL DEF Spec, SinReenvio
------------------------------------------------------------------------------
(* The pipeline implements EntregaEventos: the consumer's list is the head of the *)
(* line until it is stored, and the line of what may be sent afterwards.          *)

Hallados == UNION {Elementos(porPoner[m]) : m \in Monitor}
Espera == IF fase \in {"decidir", "enviar", "fin"} THEN cola ELSE buffer \o cola
Salida == IF fase = "enviar" \/ (fase = "decidir" /\ ~parar)
          THEN SubSeq(buffer, envio.indice, Len(buffer)) ELSE <<>>
Vista == <<nacidos, Hallados, Espera, Salida, cerrada, tabla, fallidos, borrados, recibidos,
           confirmados>>

\* The steps of EntregaEventos, seen through the mapping.
LEMMA VistaHallar ==
  ASSUME NEW n \in 1..MaxEventos, nacidos + n <= MaxEventos, nacidos' = nacidos + n,
         Hallados' = Hallados \cup (nacidos + 1 .. nacidos + n),
         UNCHANGED <<Espera, Salida, cerrada, tabla, fallidos, borrados, recibidos, confirmados>>
  PROVE  Entrega!Next
<1>1. Entrega!Hallar(n)
  BY DEF Entrega!Hallar, Entrega!varsRegistro, Entrega!varsServidor, Hallados, Espera, Salida
<1> QED BY <1>1 DEF Entrega!Next

LEMMA VistaAceptar ==
  ASSUME NEW e \in Hallados, Len(Espera) < MaxCola + Lote,
         Hallados' = Hallados \ {e}, Espera' = Append(Espera, e),
         UNCHANGED <<nacidos, Salida, cerrada, tabla, fallidos, borrados, recibidos, confirmados>>
  PROVE  Entrega!Next
<1>1. Entrega!Aceptar(e)
  BY DEF Entrega!Aceptar, Entrega!varsRegistro, Entrega!varsServidor, Hallados, Espera, Salida
<1> QED BY <1>1 DEF Entrega!Next, Hallados

LEMMA VistaDescartar ==
  ASSUME NEW S \in SUBSET Hallados, Len(Espera) >= MaxCola, Hallados' = Hallados \ S,
         UNCHANGED <<nacidos, Espera, Salida, cerrada, tabla, fallidos, borrados, recibidos, confirmados>>
  PROVE  Entrega!Next
<1>1. Entrega!Descartar(S)
  BY DEF Entrega!Descartar, Entrega!varsRegistro, Entrega!varsServidor, Hallados, Espera, Salida
<1> QED BY <1>1 DEF Entrega!Next, Hallados

LEMMA VistaAnotar ==
  ASSUME NEW n \in 1..Lote, NEW lote, lote = SubSeq(Espera, 1, n),
         ~cerrada, Salida = <<>>, n <= Len(Espera),
         Espera' = SubSeq(Espera, n + 1, Len(Espera)), Salida' \in {lote, <<>>},
         \/ tabla' = tabla \cup Elementos(lote) /\ fallidos' = fallidos
         \/ fallidos' = fallidos \cup Elementos(lote) /\ tabla' = tabla,
         UNCHANGED <<nacidos, Hallados, borrados, cerrada, recibidos, confirmados>>
  PROVE  Entrega!Next
<1>1. Entrega!Elementos(lote) = Elementos(lote)
  BY DEF Entrega!Elementos, Elementos
<1>2. Entrega!Anotar(n)
  BY <1>1 DEF Entrega!Anotar, Entrega!varsServidor, Hallados, Espera, Salida
<1> QED BY <1>2 DEF Entrega!Next

LEMMA VistaPerder ==
  ASSUME NEW n \in 1..Lote, cerrada, Salida = <<>>, n <= Len(Espera),
         Espera' = SubSeq(Espera, n + 1, Len(Espera)),
         UNCHANGED <<nacidos, Hallados, Salida, cerrada, tabla, fallidos, borrados, recibidos,
                     confirmados>>
  PROVE  Entrega!Next
<1>1. Entrega!Perder(n)
  BY DEF Entrega!Perder, Entrega!varsRegistro, Entrega!varsServidor, Hallados, Espera, Salida
<1> QED BY <1>1 DEF Entrega!Next

LEMMA VistaEnviar ==
  ASSUME NEW e, e = Head(Salida), Salida # <<>>,
         \/ /\ recibidos' = [recibidos EXCEPT ![e] = @ + 1]
            /\ confirmados' = confirmados \cup {e} /\ Salida' = Tail(Salida)
         \/ /\ recibidos' \in {recibidos, [recibidos EXCEPT ![e] = @ + 1]}
            /\ Salida' \in {Salida, Tail(Salida)} /\ confirmados' = confirmados,
         recibidos'[e] <= MaxReintentos,
         UNCHANGED <<nacidos, Hallados, Espera, cerrada, tabla, fallidos, borrados>>
  PROVE  Entrega!Next
<1>1. Entrega!Enviar
  BY DEF Entrega!Enviar, Entrega!varsRegistro, Hallados, Espera, Salida
<1> QED BY <1>1 DEF Entrega!Next

LEMMA VistaCallar ==
  ASSUME Salida' = <<>>,
         UNCHANGED <<nacidos, Hallados, Espera, cerrada, tabla, fallidos, borrados, recibidos, confirmados>>
  PROVE  Entrega!Next
<1>1. Entrega!Callar
  BY DEF Entrega!Callar, Entrega!varsRegistro, Entrega!varsServidor, Hallados, Espera, Salida
<1> QED BY <1>1 DEF Entrega!Next

LEMMA VistaBorrar ==
  ASSUME ~cerrada, \E e \in tabla : tabla' = {f \in tabla : f > e},
         borrados' = borrados \cup (tabla \ tabla'),
         UNCHANGED <<nacidos, Hallados, Espera, Salida, cerrada, fallidos, recibidos, confirmados>>
  PROVE  Entrega!Next
<1>1. Entrega!Borrar
  BY DEF Entrega!Borrar, Entrega!varsAgente, Entrega!varsServidor, Hallados, Espera, Salida
<1> QED BY <1>1 DEF Entrega!Next

LEMMA VistaCerrar ==
  ASSUME cerrada' = TRUE,
         UNCHANGED <<nacidos, Hallados, Espera, Salida, tabla, fallidos, borrados, recibidos,
                     confirmados>>
  PROVE  Entrega!Next
<1>1. Entrega!Cerrar
  BY DEF Entrega!Cerrar, Entrega!varsAgente, Entrega!varsServidor, Hallados, Espera, Salida
<1> QED BY <1>1 DEF Entrega!Next

LEMMA VistaMorir ==
  ASSUME Hallados' = {}, Espera' = <<>>, Salida' = <<>>, cerrada' = FALSE,
         UNCHANGED <<nacidos, tabla, fallidos, borrados, recibidos, confirmados>>
  PROVE  Entrega!Next
<1>1. Entrega!Morir
  BY DEF Entrega!Morir, Entrega!varsServidor, Hallados, Espera, Salida
<1> QED BY <1>1 DEF Entrega!Next

\* Two lines put together, and what is taken from them.
LEMMA DosLineas ==
  ASSUME NEW S, NEW b \in Seq(S), NEW c \in Seq(S)
  PROVE  /\ b \o c \in Seq(S) /\ Len(b \o c) = Len(b) + Len(c)
         /\ c # <<>> => Append(b, Head(c)) \o Tail(c) = b \o c
         /\ \A x \in S : b \o Append(c, x) = Append(b \o c, x)
         /\ SubSeq(b \o c, Len(b) + 1, Len(b \o c)) = c
         /\ b # <<>> => SubSeq(b \o c, 1, Len(b)) = b
<1>1. Len(b) \in Nat /\ Len(c) \in Nat /\ b \o c \in Seq(S) /\ Len(b \o c) = Len(b) + Len(c)
  BY ConcatProperties, LenProperties
<1>2. ASSUME NEW x \in S, NEW t \in Seq(S) PROVE Append(b, x) \o t = b \o (<<x>> \o t)
  <2>1. <<x>> \in Seq(S) /\ Append(b, x) = b \o <<x>>
    BY AppendIsConcat
  <2> QED BY <2>1, ConcatAssociative
<1>3. c # <<>> => Append(b, Head(c)) \o Tail(c) = b \o c
  <2> SUFFICES ASSUME c # <<>> PROVE Append(b, Head(c)) \o Tail(c) = b \o c
    OBVIOUS
  <2>1. Head(c) \in S /\ Tail(c) \in Seq(S)
    BY HeadTailProperties
  <2>2. <<Head(c)>> \o Tail(c) = c
    <3>1. Len(c) \in Nat \ {0} /\ Head(c) = c[1] /\ Tail(c) = SubSeq(c, 2, Len(c))
      BY EmptySeq, TailIsSubSeq
    <3>2. SubSeq(c, 1, Len(c)) = <<c[1]>> \o SubSeq(c, 1 + 1, Len(c))
      <4>1. 1 \in 1 .. Len(c) /\ Len(c) \in 1 .. Len(c)
        BY <3>1
      <4> QED BY <4>1, SubSeqRecursiveFirst
    <3> QED BY <3>1, <3>2, SubSeqFull
  <2> QED BY <1>2, <2>1, <2>2
<1>4. ASSUME NEW x \in S PROVE b \o Append(c, x) = Append(b \o c, x)
  <2>1. <<x>> \in Seq(S) /\ Append(c, x) = c \o <<x>> /\ Append(b \o c, x) = (b \o c) \o <<x>>
    BY <1>1, AppendIsConcat
  <2> QED BY <2>1, ConcatAssociative
<1>5. SubSeq(b \o c, Len(b) + 1, Len(b \o c)) = c
  <2>1. CASE c = <<>>
    <3>1. Len(c) = 0
      BY <2>1, EmptySeq
    <3>2. Len(b) + 1 \in Int /\ Len(b \o c) \in Int /\ Len(b \o c) < Len(b) + 1
      BY <1>1, <3>1
    <3> QED BY <2>1, <3>2, SubSeqEmpty
  <2>2. CASE c # <<>>
    <3>1. Len(c) \in Nat \ {0}
      BY <2>2, EmptySeq
    <3>2. /\ Len(b) + 1 \in Len(b) + 1 .. Len(b) + Len(c)
          /\ Len(b) + Len(c) \in Len(b) + 1 .. Len(b) + Len(c)
      BY <1>1, <3>1
    <3>3. SubSeq(b \o c, Len(b) + 1, Len(b) + Len(c))
            = SubSeq(c, (Len(b) + 1) - Len(b), (Len(b) + Len(c)) - Len(b))
      BY <3>2, SubSeqOfConcat2
    <3>4. (Len(b) + 1) - Len(b) = 1 /\ (Len(b) + Len(c)) - Len(b) = Len(c)
      BY <1>1
    <3> QED BY <1>1, <3>3, <3>4, SubSeqFull
  <2> QED BY <2>1, <2>2
<1>6. b # <<>> => SubSeq(b \o c, 1, Len(b)) = b
  <2> SUFFICES ASSUME b # <<>> PROVE SubSeq(b \o c, 1, Len(b)) = b
    OBVIOUS
  <2>1. 1 \in 1 .. Len(b) /\ Len(b) \in 1 .. Len(b)
    BY EmptySeq
  <2> QED BY <2>1, SubSeqOfConcat1, SubSeqFull
<1> QED BY <1>1, <1>3, <1>4, <1>5, <1>6

\* What is left of a list from a place on.
LEMMA DesdeAqui ==
  ASSUME NEW S, NEW b \in Seq(S), NEW i \in 1 .. Len(b)
  PROVE  /\ SubSeq(b, i, Len(b)) # <<>> /\ Head(SubSeq(b, i, Len(b))) = b[i]
         /\ Tail(SubSeq(b, i, Len(b))) = SubSeq(b, i + 1, Len(b))
         /\ i = Len(b) => Tail(SubSeq(b, i, Len(b))) = <<>>
<1>1. Len(b) \in Nat /\ Len(b) \in i .. Len(b) /\ \A j \in i .. Len(b) : b[j] \in S
  BY LenProperties
<1>2. Len(SubSeq(b, i, Len(b))) = Len(b) - i + 1
  BY <1>1, SubSeqProperties
<1>3. SubSeq(b, i, Len(b)) # <<>>
  BY <1>1, <1>2, EmptySeq
<1>4. i = Len(b) => SubSeq(b, i + 1, Len(b)) = <<>>
  <2> SUFFICES ASSUME i = Len(b) PROVE SubSeq(b, Len(b) + 1, Len(b)) = <<>>
    OBVIOUS
  <2>1. Len(b) + 1 \in Int /\ Len(b) \in Int /\ Len(b) < Len(b) + 1
    BY <1>1
  <2> QED BY <2>1, SubSeqEmpty
<1> QED BY <1>1, <1>3, <1>4, HeadTailOfSubSeq

\* What a monitor holds is its own, so that its change is all that is seen of it.
LEMMA DeUnMonitor ==
  ASSUME IInv, NEW m \in Monitor, \A k \in Monitor : k # m => porPoner'[k] = porPoner[k]
  PROVE  /\ Elementos(porPoner[m]) \subseteq Hallados
         /\ Hallados' = (Hallados \ Elementos(porPoner[m])) \cup Elementos(porPoner'[m])
<1>1. \A k \in Monitor : k # m => Elementos(porPoner'[k]) = Elementos(porPoner[k])
  OBVIOUS
<1>2. \A k \in Monitor : k # m => Elementos(porPoner[k]) \cap Elementos(porPoner[m]) = {}
  BY DEF IInv, UnLugar
<1>3. Elementos(porPoner[m]) \subseteq Hallados
  BY DEF Hallados
<1>4. ASSUME NEW x PROVE x \in Hallados <=> \E k \in Monitor : x \in Elementos(porPoner[k])
  BY DEF Hallados
<1>5. ASSUME NEW x PROVE x \in Hallados' <=> \E k \in Monitor : x \in Elementos(porPoner'[k])
  BY DEF Hallados
<1>6. ASSUME NEW x
      PROVE  x \in Hallados' <=> x \in (Hallados \ Elementos(porPoner[m])) \cup Elementos(porPoner'[m])
  BY <1>1, <1>2, <1>4, <1>5
<1> QED BY <1>3, <1>6

\* The types of what the lines are made of.
LEMMA DeLasLineas ==
  ASSUME IInv
  PROVE  /\ cola \in Seq(Evento) /\ buffer \in Seq(Evento)
         /\ Len(cola) \in Nat /\ Len(cola) <= MaxCola
         /\ Len(buffer) \in Nat /\ Len(buffer) <= Lote /\ MaxCola \in Nat /\ Lote \in Nat
         /\ <<>> \in Seq(Evento) /\ Len(<<>>) = 0
         /\ buffer \o cola \in Seq(Evento) /\ Len(buffer \o cola) = Len(buffer) + Len(cola)
         /\ <<>> \o cola = cola
         /\ buffer # <<>> => Len(buffer) \in 1 .. Lote
<1>1. /\ cola \in Seq(Evento) /\ buffer \in Seq(Evento)
      /\ Len(cola) <= MaxCola /\ Len(buffer) <= Lote
  BY DEF IInv, TypeOK
<1>2. /\ Len(cola) \in Nat /\ Len(buffer) \in Nat /\ <<>> \in Seq(Evento) /\ Len(<<>>) = 0
      /\ buffer # <<>> => Len(buffer) \in Nat \ {0}
  BY <1>1, LenProperties, EmptySeq
<1>3. <<>> \o cola = cola
  BY <1>1, ConcatEmptySeq
<1> QED BY <1>1, <1>2, <1>3, DosLineas, TuberiaConstantes

\* Every step of the monitors is one of the promise.
LEMMA VistaDelMonitor ==
  ASSUME IInv, NEW m \in Monitor, PasoMonitor(m)
  PROVE  Entrega!Next \/ UNCHANGED Vista
<1>0. /\ porPoner \in [Monitor -> Seq(Evento)] /\ monitor \in [Monitor -> {"libre", "recoger", "poner", "fin"}]
      /\ monitor[m] = "poner" <=> porPoner[m] # <<>>
  BY DEF IInv, TypeOK, Marcha
<1>1. CASE EmpezarCiclo(m)
  BY <1>1 DEF EmpezarCiclo, varsConsumidor, varsHistoria, Vista, Hallados, Espera, Salida
<1>2. CASE Recoger(m)
  <2>1. PICK n \in 0..MaxHallazgos :
          /\ nacidos + n <= MaxEventos
          /\ nacidos' = nacidos + n
          /\ porPoner' = [porPoner EXCEPT ![m] = [i \in 1..n |-> nacidos + i]]
    BY <1>2 DEF Recoger
  <2>2. /\ porPoner[m] = <<>>
        /\ UNCHANGED <<parar, cola, varsConsumidor, cerrada, tabla, recibidos, fallidos, borrados, confirmados>>
    BY <1>0, <1>2 DEF Recoger
  <2>3. UNCHANGED <<Espera, Salida>>
    BY <2>2 DEF Espera, Salida, varsConsumidor
  <2>4. n \in Nat /\ nacidos \in Nat /\ MaxEventos \in Nat
    BY TuberiaConstantes DEF IInv, TypeOK
  <2> DEFINE q == [i \in 1..n |-> nacidos + i]
  <2>5. Elementos(q) = nacidos + 1 .. nacidos + n
    <3>1. DOMAIN q = 1..n /\ \A i \in 1..n : q[i] = nacidos + i
      OBVIOUS
    <3> HIDE DEF q
    <3>2. ASSUME NEW i \in 1..n PROVE q[i] \in nacidos + 1 .. nacidos + n
      BY <2>4, <3>1
    <3>3. ASSUME NEW e \in nacidos + 1 .. nacidos + n PROVE \E i \in 1..n : q[i] = e
      <4>1. e - nacidos \in 1..n /\ nacidos + (e - nacidos) = e
        BY <2>4
      <4> QED BY <3>1, <4>1
    <3> QED BY <3>1, <3>2, <3>3 DEF Elementos
  <2>6. porPoner'[m] = q /\ \A k \in Monitor : k # m => porPoner'[k] = porPoner[k]
    BY <1>0, <2>1
  <2> HIDE DEF q
  <2>7. Hallados' = Hallados \cup (nacidos + 1 .. nacidos + n)
    BY <2>2, <2>5, <2>6, DeUnMonitor, Vacia
  <2>8. CASE n = 0
    <3>1. Hallados' = Hallados /\ nacidos' = nacidos
      BY <2>1, <2>4, <2>7, <2>8
    <3> QED BY <2>2, <2>3, <3>1 DEF Vista
  <2>9. CASE n # 0
    <3>1. n \in 1..MaxEventos
      BY <2>1, <2>4, <2>9
    <3> QED BY <2>1, <2>2, <2>3, <2>7, <3>1, VistaHallar
  <2> QED BY <2>8, <2>9
<1>3. CASE Poner(m)
  <2> DEFINE e == Head(porPoner[m])
  <2>1. /\ porPoner[m] \in Seq(Evento) /\ porPoner[m] # <<>> /\ Len(cola) < MaxCola
        /\ cola' = Append(cola, e) /\ porPoner' = [porPoner EXCEPT ![m] = Tail(porPoner[m])]
        /\ UNCHANGED <<parar, varsConsumidor, cerrada, tabla, recibidos, nacidos, fallidos, borrados, confirmados>>
    BY <1>0, <1>3 DEF Poner
  <2>2. /\ porPoner'[m] = Tail(porPoner[m])
        /\ \A k \in Monitor : k # m => porPoner'[k] = porPoner[k]
    BY <1>0, <2>1
  <2>3. /\ e \in Evento /\ e \in Elementos(porPoner[m]) /\ e \notin Elementos(porPoner'[m])
        /\ Elementos(porPoner[m]) = Elementos(porPoner'[m]) \cup {e}
    BY <2>1, <2>2, SinLaPrimera DEF IInv, UnLugar
  <2> HIDE DEF e
  <2>4. e \in Hallados /\ Hallados' = Hallados \ {e}
    BY <2>2, <2>3, DeUnMonitor
  <2>5. UNCHANGED Salida
    BY <2>1 DEF Salida, varsConsumidor
  <2>6. Len(Espera) < MaxCola + Lote
    BY <2>1, DeLasLineas DEF Espera
  <2>7. Espera' = Append(Espera, e)
    <3>1. buffer \o Append(cola, e) = Append(buffer \o cola, e)
      BY <2>3, DeLasLineas, DosLineas
    <3> QED BY <2>1, <3>1 DEF Espera, varsConsumidor
  <2> QED BY <2>1, <2>4, <2>5, <2>6, <2>7, VistaAceptar
<1>4. CASE Descartar(m)
  <2>1. /\ Len(cola) = MaxCola /\ porPoner' = [porPoner EXCEPT ![m] = <<>>]
        /\ UNCHANGED <<parar, cola, varsConsumidor, cerrada, tabla, recibidos, varsHistoria>>
    BY <1>4 DEF Descartar
  <2>2. porPoner'[m] = <<>> /\ \A k \in Monitor : k # m => porPoner'[k] = porPoner[k]
    BY <1>0, <2>1
  <2>3. /\ Elementos(porPoner[m]) \in SUBSET Hallados
        /\ Hallados' = Hallados \ Elementos(porPoner[m])
    BY <2>2, DeUnMonitor, Vacia
  <2>4. UNCHANGED <<Espera, Salida>>
    BY <2>1 DEF Espera, Salida, varsConsumidor
  <2>5. Len(Espera) >= MaxCola
    BY <2>1, DeLasLineas DEF Espera
  <2>6. UNCHANGED <<nacidos, cerrada, tabla, fallidos, borrados, recibidos, confirmados>>
    BY <2>1 DEF varsHistoria
  <2> QED BY <2>3, <2>4, <2>5, <2>6, VistaDescartar
<1> QED BY <1>1, <1>2, <1>3, <1>4 DEF PasoMonitor

\* Taking an event from the queue is not seen: it is the same line.
LEMMA VistaDeTomar ==
  ASSUME IInv, Girar \/ Tomar
  PROVE  UNCHANGED Vista
<1>1. CASE Girar
  BY <1>1 DEF Girar, Pasar, varsHilos, Vista, Hallados, Espera, Salida
<1>2. CASE Tomar
  <2>1. /\ fase = "tomar" /\ fase' \in {"guardar", "mantener"}
        /\ UNCHANGED <<parar, cerrada, porPoner, nacidos, tabla, recibidos, fallidos, borrados, confirmados>>
        /\ \/ cola # <<>> /\ buffer' = Append(buffer, Head(cola)) /\ cola' = Tail(cola)
           \/ UNCHANGED <<buffer, cola>>
    BY <1>2 DEF Tomar, Pasar, varsHilos
  <2>2. buffer' \o cola' = buffer \o cola
    <3>1. cola # <<>> => Append(buffer, Head(cola)) \o Tail(cola) = buffer \o cola
      <4>1. cola \in Seq(Evento) /\ buffer \in Seq(Evento)
        BY DeLasLineas
      <4> QED BY <4>1, DosLineas
    <3>2. CASE cola # <<>> /\ buffer' = Append(buffer, Head(cola)) /\ cola' = Tail(cola)
      BY <3>1, <3>2
    <3>3. CASE UNCHANGED <<buffer, cola>>
      BY <3>3
    <3> QED BY <2>1, <3>2, <3>3
  <2> QED BY <2>1, <2>2 DEF Vista, Hallados, Espera, Salida
<1> QED BY <1>1, <1>2

\* A batch is put on record, to be sent or as the last one, or the closed database refuses it.
LEMMA VistaDeGuardar ==
  ASSUME IInv, buffer # <<>>, guardar_eventos,
         \/ fase = "guardar" /\ fase' = "decidir"
         \/ fase = "vaciar" /\ fase' = "fin",
         UNCHANGED <<parar, cerrada, cola, buffer, envio, porPoner, nacidos, recibidos, borrados,
                     confirmados>>
  PROVE  Entrega!Next
<1>1. Espera = buffer \o cola /\ Espera' = cola /\ Salida = <<>>
  BY DEF Espera, Salida
<1>2. Salida' \in {buffer, <<>>} /\ (parar => Salida' = <<>>)
  <2>1. CASE fase = "guardar" /\ fase' = "decidir"
    <3>1. envio.indice = 1
      BY <2>1 DEF IInv, Marcha, SinEnvio
    <3> QED BY <2>1, <3>1, DeLasLineas, SubSeqFull DEF Salida
  <2>2. CASE fase = "vaciar" /\ fase' = "fin"
    BY <2>2 DEF Salida
  <2> QED BY <2>1, <2>2
<1>3. /\ Len(buffer) \in 1 .. Lote /\ Len(buffer) <= Len(Espera)
      /\ buffer = SubSeq(Espera, 1, Len(buffer))
      /\ Espera' = SubSeq(Espera, Len(buffer) + 1, Len(Espera))
  BY <1>1, DeLasLineas, DosLineas
<1>4. UNCHANGED Hallados
  BY DEF Hallados
<1>5. CASE ~cerrada
  <2>1. \/ tabla' = tabla \cup Elementos(buffer) /\ fallidos' = fallidos
        \/ fallidos' = fallidos \cup Elementos(buffer) /\ tabla' = tabla
    BY <1>5 DEF guardar_eventos
  <2> QED BY <1>1, <1>2, <1>3, <1>4, <1>5, <2>1, VistaAnotar
<1>6. CASE cerrada
  <2>1. parar /\ UNCHANGED <<tabla, fallidos>>
    BY <1>6 DEF guardar_eventos, IInv, Cierre
  <2> QED BY <1>1, <1>2, <1>3, <1>4, <1>6, <2>1, VistaPerder
<1> QED BY <1>5, <1>6

\* One attempt: the first of the line stays, or leaves it.
LEMMA VistaDeEnviar ==
  ASSUME IInv, Confirmar \/ Fracasar
  PROVE  Entrega!Next
<1>1. /\ fase = "enviar" /\ UNCHANGED <<cola, cerrada, tabla, fallidos, borrados>>
      /\ recibidos' \in {recibidos, [recibidos EXCEPT ![EnVuelo] = @ + 1]}
      /\ confirmados' \in {confirmados, confirmados \cup {EnVuelo}}
      /\ \/ /\ recibidos' = [recibidos EXCEPT ![EnVuelo] = @ + 1]
            /\ confirmados' = confirmados \cup {EnVuelo} /\ Siguiente
         \/ /\ confirmados' = confirmados
            /\ Siguiente \/ (envio'.indice = envio.indice /\ Pasar("enviar") /\ UNCHANGED buffer)
  <2>1. CASE Confirmar
    <3>1. cerrada' = cerrada
      BY <2>1 DEF Confirmar, Siguiente, Pasar
    <3> QED BY <2>1, <3>1 DEF Confirmar
  <2>2. CASE Fracasar
    <3>1. envio' = [envio EXCEPT !.intento = @ + 1] => envio'.indice = envio.indice
      BY DEF IInv, TypeOK
    <3>2. cerrada' = cerrada
      BY <2>2 DEF Fracasar, Siguiente, Pasar
    <3> QED BY <2>2, <3>1, <3>2 DEF Fracasar
  <2> QED BY <2>1, <2>2
<1>2. /\ buffer \in Seq(Evento) /\ envio.indice \in 1..Len(buffer) /\ Len(buffer) \in Nat
      /\ EnVuelo \in Evento /\ recibidos'[EnVuelo] <= MaxReintentos
  BY <1>1, UnIntento
<1>3. Salida = SubSeq(buffer, envio.indice, Len(buffer)) /\ Espera = cola
  BY <1>1 DEF Salida, Espera
<1>4. Salida # <<>> /\ EnVuelo = Head(Salida)
  BY <1>2, <1>3, DesdeAqui DEF EnVuelo
<1>5. ASSUME Siguiente
      PROVE  Salida' = Tail(Salida) /\ UNCHANGED <<Hallados, Espera, nacidos>>
  <2>1. /\ UNCHANGED <<porPoner, nacidos>>
        /\ \/ /\ fase' = "enviar" /\ buffer' = buffer
              /\ envio' = [indice |-> envio.indice + 1, intento |-> 1]
           \/ envio.indice >= Len(buffer) /\ fase' = "mantener" /\ buffer' = <<>>
    BY <1>2, <1>5 DEF Siguiente, Pasar, varsHilos
  <2>2. UNCHANGED <<Hallados, Espera>>
    BY <1>1, <2>1, DeLasLineas DEF Hallados, Espera
  <2>3. CASE /\ fase' = "enviar" /\ buffer' = buffer
             /\ envio' = [indice |-> envio.indice + 1, intento |-> 1]
    <3>1. Salida' = SubSeq(buffer, envio.indice + 1, Len(buffer))
      BY <2>3 DEF Salida
    <3> QED BY <1>2, <1>3, <2>1, <2>2, <3>1, DesdeAqui
  <2>4. CASE envio.indice >= Len(buffer) /\ fase' = "mantener"
    <3>1. envio.indice = Len(buffer) /\ Salida' = <<>>
      BY <1>2, <2>4 DEF Salida
    <3> QED BY <1>2, <1>3, <2>1, <2>2, <3>1, DesdeAqui
  <2> QED BY <2>1, <2>3, <2>4
<1>6. ASSUME envio'.indice = envio.indice, Pasar("enviar"), UNCHANGED buffer
      PROVE  Salida' = Salida /\ UNCHANGED <<Hallados, Espera, nacidos>>
  BY <1>1, <1>6 DEF Pasar, varsHilos, Hallados, Espera, Salida
<1> HIDE DEF Hallados, Espera, Salida, EnVuelo
<1>7. CASE /\ recibidos' = [recibidos EXCEPT ![EnVuelo] = @ + 1]
           /\ confirmados' = confirmados \cup {EnVuelo} /\ Siguiente
  BY <1>1, <1>2, <1>4, <1>5, <1>7, VistaEnviar
<1>8. CASE confirmados' = confirmados /\ Siguiente
  BY <1>1, <1>2, <1>4, <1>5, <1>8, VistaEnviar
<1>9. CASE /\ confirmados' = confirmados
           /\ envio'.indice = envio.indice /\ Pasar("enviar") /\ UNCHANGED buffer
  BY <1>1, <1>2, <1>4, <1>6, <1>9, VistaEnviar
<1> QED BY <1>1, <1>7, <1>8, <1>9

\* Every step of the consumer is one of the promise.
LEMMA VistaDelConsumidor ==
  ASSUME IInv, PasoConsumidor
  PROVE  Entrega!Next \/ UNCHANGED Vista
<1>1. CASE Guardar
  <2>1. buffer # <<>>
    BY <1>1 DEF Guardar, IInv, Marcha
  <2> QED BY <1>1, <2>1, VistaDeGuardar DEF Guardar, Pasar, varsHilos
<1>2. CASE Decidir
  <2>1. /\ fase = "decidir"
        /\ UNCHANGED <<cerrada, cola, envio, porPoner, nacidos, tabla, recibidos, fallidos,
                       borrados, confirmados>>
        /\ \/ fase' = "enviar" /\ ~parar /\ UNCHANGED buffer
           \/ fase' = "mantener" /\ buffer' = <<>>
    BY <1>2 DEF Decidir, Pasar, varsHilos
  <2>2. UNCHANGED Hallados
    BY <2>1 DEF Hallados
  <2>3. CASE fase' = "enviar" /\ ~parar /\ UNCHANGED buffer
    BY <2>1, <2>2, <2>3 DEF Vista, Espera, Salida
  <2>4. CASE fase' = "mantener" /\ buffer' = <<>>
    <3>1. Salida' = <<>> /\ UNCHANGED Espera
      BY <2>1, <2>4, DeLasLineas DEF Espera, Salida
    <3> QED BY <2>1, <2>2, <3>1, VistaCallar
  <2> QED BY <2>1, <2>3, <2>4
<1>3. CASE Mantener
  <2>1. /\ UNCHANGED <<nacidos, Hallados, Espera, Salida>>
        /\ UNCHANGED <<cerrada, fallidos, recibidos, confirmados>>
    BY <1>3 DEF Mantener, Pasar, varsHilos, Hallados, Espera, Salida
  <2>2. CASE UNCHANGED <<tabla, borrados>>
    BY <2>1, <2>2 DEF Vista
  <2>3. CASE /\ ~cerrada
             /\ \E e \in tabla : /\ tabla' = {f \in tabla : f > e}
                                /\ borrados' = borrados \cup (tabla \ tabla')
    BY <2>1, <2>3, VistaBorrar
  <2> QED BY <1>3, <2>2, <2>3 DEF Mantener
<1>4. CASE Vaciar
  <2>1. /\ fase = "vaciar" /\ fase' = "fin"
        /\ UNCHANGED <<parar, cerrada, cola, buffer, envio, porPoner, nacidos, recibidos, borrados,
                       confirmados>>
    BY <1>4 DEF Vaciar, Pasar, varsHilos
  <2>2. CASE buffer = <<>> /\ UNCHANGED <<tabla, fallidos>>
    BY <2>1, <2>2, DeLasLineas DEF Vista, Hallados, Espera, Salida
  <2>3. CASE buffer # <<>> /\ guardar_eventos
    BY <2>1, <2>3, VistaDeGuardar
  <2> QED BY <1>4, <2>2, <2>3 DEF Vaciar
<1> QED BY <1>1, <1>2, <1>3, <1>4, VistaDeTomar, VistaDeEnviar DEF PasoConsumidor

\* The process begins with empty lines.
LEMMA VistaInicial == Init => Entrega!Init
<1> SUFFICES ASSUME Init PROVE Entrega!Init
  OBVIOUS
<1>1. Hallados = {}
  BY Vacia DEF Init, Hallados
<1>2. Espera = <<>>
  BY ConcatEmptySeq, EmptySeq DEF Init, Espera
<1> QED BY <1>1, <1>2 DEF Init, Hallados, Espera, Entrega!Init, Entrega!Evento, Evento

\* Every step of the pipeline is one of the promise or is not seen.
LEMMA PasoEntrega == IInv /\ [Next]_varsTuberia => [Entrega!Next]_(Entrega!varsEntrega)
<1> SUFFICES ASSUME IInv, [Next]_varsTuberia
             PROVE  Entrega!Next \/ UNCHANGED Vista
  BY DEF Entrega!varsEntrega, Vista, Hallados, Espera, Salida
<1>1. CASE UNCHANGED varsTuberia
  BY <1>1 DEF varsTuberia, varsHilos, varsConsumidor, varsHistoria, Vista, Hallados, Espera, Salida
<1>3. CASE Cerrar
  <2>1. cerrada' = TRUE /\ UNCHANGED <<parar, cola, varsHilos, varsConsumidor, tabla, recibidos,
                                      varsHistoria>>
    BY <1>3 DEF Cerrar
  <2>2. UNCHANGED <<nacidos, Hallados, Espera, Salida, tabla, fallidos, borrados, recibidos,
                    confirmados>>
    BY <2>1 DEF varsHilos, varsConsumidor, varsHistoria, Hallados, Espera, Salida
  <2> QED BY <2>1, <2>2, VistaCerrar
<1>4. CASE Parar
  <2>1. /\ parar' = TRUE
        /\ UNCHANGED <<cola, varsHilos, varsConsumidor, cerrada, tabla, recibidos, nacidos, fallidos,
                       borrados, confirmados>>
    BY <1>4 DEF Parar
  <2>2. UNCHANGED <<nacidos, Hallados, Espera, cerrada, tabla, fallidos, borrados, recibidos,
                    confirmados>>
    BY <2>1 DEF varsHilos, varsConsumidor, Hallados, Espera
  <2>3. CASE fase = "decidir"
    <3>1. Salida' = <<>>
      BY <2>1, <2>3 DEF Salida, varsConsumidor
    <3> QED BY <2>2, <3>1, VistaCallar
  <2>4. CASE fase # "decidir"
    <3>1. Salida' = Salida
      BY <2>1, <2>4 DEF Salida, varsConsumidor
    <3> QED BY <2>2, <3>1 DEF Vista
  <2> QED BY <2>3, <2>4
<1>2. CASE Arrancar
  <2>1. /\ cola' = <<>> /\ fase' = "bucle" /\ buffer' = <<>>
        /\ porPoner' = [m \in Monitor |-> <<>>]
        /\ cerrada' = FALSE
        /\ UNCHANGED <<nacidos, tabla, fallidos, borrados, recibidos, confirmados>>
    BY <1>2 DEF Arrancar
  <2>2. Hallados' = {}
    BY <2>1, Vacia DEF Hallados
  <2>3. Espera' = <<>> /\ Salida' = <<>>
    BY <2>1, ConcatEmptySeq, EmptySeq DEF Espera, Salida
  <2> QED BY <2>1, <2>2, <2>3, VistaMorir
<1> QED BY <1>1, <1>2, <1>3, <1>4, VistaDelMonitor, VistaDelConsumidor DEF Next

\* Monitors, queue, consumer, signal and restarts implement EntregaEventos: events are put on
\* record in the order in which they were accepted, sent in that order and only then, and none
\* that left comes back.
THEOREM ImplementaEntrega == Spec => CumpleEntrega
BY Invariante, VistaInicial, PasoEntrega, PTL DEF Spec, CumpleEntrega, Entrega!Spec
================================================================================
