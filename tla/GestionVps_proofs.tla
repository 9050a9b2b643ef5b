--------------------------- MODULE GestionVps_proofs ---------------------------
(***************************************************************************)
(* The VPS of any number of owners, with any number of requests and        *)
(* agents.  Every property here is about a handler that looks something up *)
(* and writes later by an id alone, so the invariant says what stays true  *)
(* of a row in between: it is there, it keeps its owner and its address,   *)
(* and once deleted it stays deleted.                                      *)
(***************************************************************************)
EXTENDS GestionVps, TLAPS

\* The operations on one VPS, of its owner and of its agent.
DelDuenio == {"borrar", "regenerar", "consultar", "metricas", "configurar"}
SobreVps == DelDuenio \cup DelAgente

\* The request of h carries what its handler uses, and is answered only at its end.
Completa(h) ==
  LET p == llamada[h] IN
  /\ paso[h] # "fin" => salida[h] = "ninguna"
  /\ paso[h] = "guardia" => p.op \in DelAgente
  /\ paso[h] # "libre" =>
       /\ p.op \in DelUsuario => p.usuario \in Usuario
       /\ p.op \in SobreVps \/ (p.op = "anadir" /\ paso[h] = "buscar") => p.vps \in Vps
       /\ p.op \in {"crear", "quitar"} => p.vps = Nada
       /\ p.op \in {"crear", "anadir"} => p.ip \in Ip
       /\ p.op \in {"revisar", "quitar"} => p.objeto \in Llamada
       /\ p.op = "revisar" => alertas[p.objeto] # Nada
       /\ p.op = "quitar" => paso[p.objeto] = "fin"

\* Past its look-up, the handler of h still holds what it found.
Encontrada(h) ==
  LET p == llamada[h] IN
  paso[h] \in {"leer", "escribir"} =>
    /\ p.op \in SobreVps => Existe(p.vps)
    /\ p.op \in DelDuenio => filas[p.vps].duenio = p.usuario
    /\ p.op = "revisar" => filas[alertas[p.objeto].vps].duenio = p.usuario
    /\ p.op = "quitar" /\ blanca[p.objeto] # Nada => blanca[p.objeto].usuario = p.usuario
    /\ p.op \in DelAgente /\ paso[h] = "escribir" => leido[h] # Nada

NoPasa(h) == paso[h] \notin {"leer", "escribir"} /\ salida[h] # "ok"

\* A request with a token that had been replaced does not get past the guard.
Obsoleta(h) ==
  paso[h] # "libre" /\ llamada[h].op \in DelAgente /\ llamada[h].obsoleta =>
    llamada[h].token \in gastados[llamada[h].vps] /\ NoPasa(h)

BajaHecha(d) == paso[d] = "fin" /\ llamada[d].op = "borrar" /\ salida[d] = "ok"

\* Who looks for a VPS after its deletion was answered does not get past the look-up.
Tardia(h) ==
  \A d \in previas[h] :
    /\ paso[d] = "fin"
    /\ BajaHecha(d) /\ llamada[h].op \in MiraBorrado /\ Objeto(h) = llamada[d].vps => NoPasa(h)

Conforme(h) == Completa(h) /\ Encontrada(h) /\ Obsoleta(h) /\ Tardia(h)

\* What a call creates, it creates in its last step.
Creado ==
  /\ \A c \in Llamada : alertas[c] # Nada => paso[c] = "fin" /\ alertas[c].vps \in Vps
                                             /\ Existe(alertas[c].vps)
  /\ \A c \in Llamada : blanca[c] # Nada => paso[c] = "fin"
  /\ \A v \in Vps : \A c \in Llamada :
       c \in gastados[v] \/ (Existe(v) /\ filas[v].token = c) => paso[c] = "fin"
  /\ marcados # Nada => \A v \in marcados : Existe(v)

\* The token of a row was never replaced in it, and a deletion that was answered is there.
Asentado ==
  /\ \A v \in Vps : Existe(v) => filas[v].token \notin gastados[v]
  /\ \A d \in Llamada : BajaHecha(d) => Existe(llamada[d].vps) /\ filas[llamada[d].vps].borrado

IInv ==
  TypeOK /\ (\A h \in Hilo : Conforme(h)) /\ Creado /\ Asentado /\ UnVpsActivoPorIp
------------------------------------------------------------------------------
(* What a step may do to the tables: all that the handlers in between rely on. *)

\* Rows stay, with their owner and address, and deleted ones stay deleted; alerts stay, of
\* the same VPS; an entry of the whitelist may go; a replaced token stays replaced.
Perdura ==
  /\ \A v \in Vps : Existe(v) =>
       /\ filas'[v] # Nada
       /\ filas'[v].duenio = filas[v].duenio /\ filas'[v].ip = filas[v].ip
       /\ filas[v].borrado => filas'[v].borrado
  /\ \A c \in Llamada : alertas[c] # Nada => alertas'[c] # Nada /\ alertas'[c].vps = alertas[c].vps
  /\ \A c \in Llamada : paso[c] = "fin" => blanca'[c] \in {Nada, blanca[c]}
  /\ \A v \in Vps : gastados[v] \subseteq gastados'[v]

TipoTablas ==
  /\ filas \in [Vps -> Fila \cup {Nada}]
  /\ alertas \in [Llamada -> Alerta \cup {Nada}]
  /\ blanca \in [Llamada -> Entrada \cup {Nada}]
  /\ metricas \subseteq Llamada
  /\ credencial \in [Agente -> Token \cup {Nada}]
  /\ marcados \in (SUBSET Vps) \cup {Nada}
  /\ gastados \in [Vps -> SUBSET Token]

TipoHilos ==
  /\ paso \in [Hilo -> {"libre", "buscar", "guardia", "leer", "escribir", "fin"}]
  /\ llamada \in [Hilo -> Peticion]
  /\ leido \in [Hilo -> Fila \cup {Nada}]
  /\ salida \in [Hilo -> Salida]
  /\ previas \in [Hilo -> SUBSET Llamada]

\* Types are those of the tables and those of the handlers.
LEMMA Tipos == TypeOK <=> TipoTablas /\ TipoHilos
BY DEF TypeOK, TipoTablas, TipoHilos

\* A handler that does not move stays as it should while the others go on.
LEMMA QuietoConforme ==
  ASSUME IInv, Perdura, NEW g \in Hilo,
         paso'[g] = paso[g], llamada'[g] = llamada[g], leido'[g] = leido[g],
         salida'[g] = salida[g], previas'[g] = previas[g],
         \A c \in Llamada : paso[c] = "fin" =>
           paso'[c] = "fin" /\ llamada'[c] = llamada[c] /\ salida'[c] = salida[c]
  PROVE  Conforme(g)'
<1>1. Conforme(g) /\ Creado /\ TipoHilos
  BY Tipos DEF IInv
<1>2. Completa(g)'
  BY <1>1 DEF Conforme, Completa, Perdura
<1>3. Encontrada(g)'
  BY <1>1 DEF Conforme, Completa, Encontrada, Perdura, Creado, Existe, SobreVps, DelDuenio
<1>4. Obsoleta(g)'
  BY <1>1 DEF Conforme, Completa, Obsoleta, Perdura, NoPasa, SobreVps
<1>5. Tardia(g)'
  <2> SUFFICES ASSUME NEW d \in previas[g], BajaHecha(d)', llamada[g].op \in MiraBorrado,
                      (Objeto(g) = llamada[d].vps)'
               PROVE  NoPasa(g)'
    BY <1>1 DEF Conforme, Tardia, TipoHilos, MiraBorrado
  <2>1. d \in Llamada /\ BajaHecha(d) /\ llamada'[d] = llamada[d]
    BY <1>1 DEF Conforme, Tardia, TipoHilos, BajaHecha
  <2>2. paso[g] # "libre" => Objeto(g) = llamada[d].vps
    BY <1>1, <2>1 DEF Conforme, Completa, Perdura, Objeto
  <2> QED BY <1>1, <2>1, <2>2 DEF Conforme, Completa, Tardia, NoPasa
<1> QED BY <1>2, <1>3, <1>4, <1>5 DEF Conforme

\* The initial database and the idle server satisfy the invariant.
LEMMA Inicio == Init => IInv
<1> SUFFICES ASSUME Init PROVE IInv
  OBVIOUS
<1>1. PICK duenio \in Inicios, ip \in Ip :
        filas = [v \in Vps |->
            IF duenio[v] = Nada THEN Nada
            ELSE IF v \in Agente
                 THEN [FilaNueva(duenio[v], ip, v) EXCEPT !.estado = "ACTIVO",
                                                          !.pulso = "reciente"]
                 ELSE FilaNueva(duenio[v], ip, v)]
  BY DEF Init
<1>2. ASSUME NEW v \in Vps, duenio[v] # Nada
      PROVE  /\ filas[v] \in Fila /\ filas[v].token = v /\ filas[v] # Nada
             /\ filas[v].duenio = duenio[v] /\ filas[v].ip = ip /\ ~filas[v].borrado
  <2>1. duenio[v] \in Usuario
    BY <1>2, GestionConstantes
  <2>2. /\ FilaNueva(duenio[v], ip, v) \in Fila
        /\ FilaNueva(duenio[v], ip, v).duenio = duenio[v]
        /\ FilaNueva(duenio[v], ip, v).ip = ip
        /\ FilaNueva(duenio[v], ip, v).token = v
        /\ FilaNueva(duenio[v], ip, v).borrado = FALSE
    BY <2>1 DEF FilaNueva, Fila, EstadoVps, Token, Nivel
  <2>3. filas[v] = FilaNueva(duenio[v], ip, v)
        \/ filas[v] = [FilaNueva(duenio[v], ip, v) EXCEPT !.estado = "ACTIVO",
                                                         !.pulso = "reciente"]
    BY <1>1, <1>2
  <2>4. filas[v] \in Fila /\ filas[v].token = v
        /\ filas[v].duenio = duenio[v] /\ filas[v].ip = ip /\ ~filas[v].borrado
    BY <2>2, <2>3 DEF Fila, EstadoVps
  <2> QED BY <2>4, NadaNoEsDato
<1>3. \A v \in Vps : duenio[v] = Nada => filas[v] = Nada
  BY <1>1
<1>4. TypeOK
  <2>1. filas \in [Vps -> Fila \cup {Nada}]
    BY <1>1, <1>2, <1>3
  <2>2. llamada \in [Hilo -> Peticion]
    BY DEF Init, SinPeticion, Peticion, Nivel, DelUsuario
  <2>3. credencial \in [Agente -> Token \cup {Nada}]
    BY GestionConstantes DEF Init, Token
  <2>4. /\ alertas \in [Llamada -> Alerta \cup {Nada}]
        /\ blanca \in [Llamada -> Entrada \cup {Nada}]
        /\ metricas \subseteq Llamada /\ marcados \in (SUBSET Vps) \cup {Nada}
    BY DEF Init
  <2>5. /\ paso \in [Hilo -> {"libre", "buscar", "guardia", "leer", "escribir", "fin"}]
        /\ leido \in [Hilo -> Fila \cup {Nada}]
        /\ salida \in [Hilo -> Salida]
    BY DEF Init, Salida
  <2>6. gastados \in [Vps -> SUBSET Token] /\ previas \in [Hilo -> SUBSET Llamada]
    BY DEF Init
  <2> QED BY <2>1, <2>2, <2>3, <2>4, <2>5, <2>6 DEF TypeOK
<1>5. \A h \in Hilo : Conforme(h)
  BY DEF Init, Conforme, Completa, Encontrada, Obsoleta, Tardia
<1>6. Creado
  <2>1. \A v \in Vps : \A c \in Llamada : Existe(v) => filas[v].token # c
    BY <1>2, <1>3, GestionConstantes DEF Existe
  <2> QED BY <2>1 DEF Init, Creado
<1>7. Asentado
  BY DEF Init, Asentado, BajaHecha, Hilo
<1>8. UnVpsActivoPorIp
  <2>1. \A v, w \in Vps : duenio[v] = duenio[w] /\ duenio[v] # Nada => v = w
    BY GestionConstantes
  <2> QED BY <1>2, <1>3, <2>1 DEF UnVpsActivoPorIp, Vigente, Existe
<1> QED BY <1>4, <1>5, <1>6, <1>7, <1>8 DEF IInv
------------------------------------------------------------------------------
(* The steps of one handler. *)

\* A request that begins is as it should be, if it is complete, if only a global entry of
\* the whitelist skips the look-up, and if its token is said to be obsolete when it is.
LEMMA EmpezarConserva ==
  ASSUME IInv, NEW h \in Hilo, NEW p \in Peticion, NEW primero \in {"buscar", "guardia", "escribir"},
         Empezar(h, p, primero), primero = "guardia" => p.op \in DelAgente,
         p.op \in DelUsuario => p.usuario \in Usuario,
         p.op \in SobreVps \/ (p.op = "anadir" /\ primero = "buscar") => p.vps \in Vps,
         p.op \in {"crear", "quitar"} => p.vps = Nada, p.op \in {"crear", "anadir"} => p.ip \in Ip,
         p.op = "revisar" => p.objeto \in Llamada /\ alertas[p.objeto] # Nada,
         p.op = "quitar" => p.objeto \in Llamada /\ blanca[p.objeto] # Nada,
         primero = "escribir" => p.op = "anadir" /\ p.vps = Nada,
         p.op \in DelAgente /\ p.obsoleta => p.token \in gastados[p.vps]
  PROVE  IInv'
<1>1. TipoTablas /\ TipoHilos /\ (\A g \in Hilo : Conforme(g)) /\ Creado /\ Asentado
  BY Tipos DEF IInv
<1>2. /\ UNCHANGED <<filas, alertas, blanca, metricas, credencial, marcados, gastados>>
      /\ paso' = [paso EXCEPT ![h] = primero]
      /\ llamada' = [llamada EXCEPT ![h] = p]
      /\ leido' = [leido EXCEPT ![h] = Nada]
      /\ salida' = [salida EXCEPT ![h] = "ninguna"]
      /\ previas' = [previas EXCEPT ![h] = {c \in Llamada : paso[c] = "fin"}]
  BY DEF Empezar, varsTablas
<1>3. \A c \in Llamada : paso[c] = "fin" =>
        c # h /\ paso'[c] = "fin" /\ llamada'[c] = llamada[c] /\ salida'[c] = salida[c]
  BY <1>1, <1>2, GestionConstantes DEF Empezar, TipoHilos, Hilo
<1>4. TipoTablas' /\ TipoHilos'
  <2>1. TipoTablas'
    BY <1>1, <1>2 DEF TipoTablas
  <2>2. TipoHilos'
    BY <1>1, <1>2 DEF TipoHilos, Salida
  <2> QED BY <2>1, <2>2
<1>5. Perdura
  BY <1>2 DEF Perdura, Existe
<1>6. ASSUME NEW g \in Hilo PROVE Conforme(g)'
  <2>1. CASE g # h
    <3>1. /\ paso'[g] = paso[g] /\ llamada'[g] = llamada[g] /\ leido'[g] = leido[g]
          /\ salida'[g] = salida[g] /\ previas'[g] = previas[g]
      BY <1>1, <1>2, <2>1 DEF TipoHilos
    <3> QED BY <1>3, <1>5, <3>1, QuietoConforme
  <2>2. CASE g = h
    <3>1. /\ paso'[h] = primero /\ llamada'[h] = p /\ salida'[h] = "ninguna"
          /\ previas'[h] = {c \in Llamada : paso[c] = "fin"}
      BY <1>1, <1>2 DEF TipoHilos
    <3>2. Completa(h)'
      BY <1>1, <1>2, <1>3, <3>1 DEF Completa, Creado
    <3>3. Encontrada(h)' /\ Obsoleta(h)'
      BY <1>2, <3>1 DEF Encontrada, Obsoleta, NoPasa, SobreVps, DelDuenio, DelAgente
    <3>4. Tardia(h)'
      <4> SUFFICES ASSUME NEW d \in Llamada, paso[d] = "fin", BajaHecha(d)', (Objeto(h) = llamada[d].vps)'
                   PROVE  NoPasa(h)'
        BY <1>3, <3>1 DEF Tardia
      <4>1. llamada'[d].op = "borrar" /\ llamada'[d].vps \in Vps
        BY <1>1, <1>3, GestionConstantes DEF BajaHecha, Conforme, Completa, SobreVps, DelDuenio, DelUsuario, Hilo
      <4>2. primero # "escribir"
        BY <3>1, <4>1, GestionConstantes DEF Objeto
      <4> QED BY <3>1, <4>2 DEF NoPasa
    <3> QED BY <2>2, <3>2, <3>3, <3>4 DEF Conforme
  <2> QED BY <2>1, <2>2
<1>7. Creado' /\ Asentado' /\ UnVpsActivoPorIp'
  <2>1. Creado'
    BY <1>1, <1>2, <1>3 DEF Creado, Existe
  <2>2. Asentado'
    BY <1>1, <1>2, <1>3, <1>4, GestionConstantes
       DEF Asentado, BajaHecha, Existe, TipoHilos, Hilo
  <2>3. UnVpsActivoPorIp'
    BY <1>2 DEF IInv, UnVpsActivoPorIp, Vigente, Existe
  <2> QED BY <2>1, <2>2, <2>3
<1> QED BY <1>4, <1>6, <1>7, Tipos DEF IInv, TypeOK, TipoTablas, TipoHilos

\* A handler that answers is as it should be: what is served is past its look-up, or was
\* found in that one step.
LEMMA AcabarConforme ==
  ASSUME IInv, Perdura, NEW h \in Hilo, NEW s \in Salida, Acabar(h, s), paso[h] \notin {"libre", "fin"},
         s = "ok" => paso[h] \in {"leer", "escribir"} \/ llamada[h].op = "listar"
                     \/ (llamada[h].op = "consultar" /\ Vigente(llamada[h].vps))
  PROVE  /\ TipoHilos' /\ \A g \in Hilo : Conforme(g)'
         /\ \A c \in Llamada : paso[c] = "fin" =>
              paso'[c] = "fin" /\ llamada'[c] = llamada[c] /\ salida'[c] = salida[c]
<1>1. TipoTablas /\ TipoHilos /\ (\A g \in Hilo : Conforme(g)) /\ Creado /\ Asentado
  BY Tipos DEF IInv
<1>2. /\ paso' = [paso EXCEPT ![h] = "fin"]
      /\ salida' = [salida EXCEPT ![h] = s]
      /\ leido' = [leido EXCEPT ![h] = Nada]
      /\ llamada' = llamada /\ previas' = previas
  BY DEF Acabar
<1>3. \A c \in Llamada : paso[c] = "fin" =>
        paso'[c] = "fin" /\ llamada'[c] = llamada[c] /\ salida'[c] = salida[c]
  BY <1>1, <1>2 DEF TipoHilos, Hilo
<1>4. TipoHilos'
  BY <1>1, <1>2 DEF TipoHilos
<1>5. ASSUME NEW g \in Hilo PROVE Conforme(g)'
  <2>1. CASE g # h
    <3>1. /\ paso'[g] = paso[g] /\ llamada'[g] = llamada[g] /\ leido'[g] = leido[g]
          /\ salida'[g] = salida[g] /\ previas'[g] = previas[g]
      BY <1>1, <1>2, <2>1 DEF TipoHilos
    <3> QED BY <1>3, <3>1, QuietoConforme
  <2>2. CASE g = h
    <3>1. paso'[h] = "fin" /\ llamada'[h] = llamada[h] /\ salida'[h] = s /\ previas'[h] = previas[h]
      BY <1>1, <1>2 DEF TipoHilos
    <3>2. Completa(h)'
      BY <1>1, <3>1, <1>3 DEF Conforme, Completa, Perdura
    <3>3. Encontrada(h)'
      BY <3>1 DEF Encontrada
    <3>4. Obsoleta(h)'
      BY <1>1, <3>1 DEF Conforme, Completa, Obsoleta, NoPasa, Perdura, SobreVps, DelAgente
    <3>5. Tardia(h)'
      <4> SUFFICES ASSUME NEW d \in previas[h], BajaHecha(d)', llamada[h].op \in MiraBorrado,
                          (Objeto(h) = llamada[d].vps)'
                   PROVE  NoPasa(h)'
        BY <1>1, <1>3, <3>1 DEF Conforme, Tardia, TipoHilos, MiraBorrado
      <4>1. d \in Llamada /\ BajaHecha(d) /\ llamada'[d] = llamada[d]
        BY <1>1, <1>3 DEF Conforme, Tardia, TipoHilos, BajaHecha
      <4>2. Objeto(h) = llamada[d].vps
        BY <1>1, <3>1, <4>1 DEF Conforme, Completa, Perdura, Objeto
      <4>3. paso[h] \notin {"leer", "escribir"} /\ filas[llamada[d].vps].borrado
        BY <1>1, <4>1, <4>2 DEF Conforme, Tardia, NoPasa, Asentado
      <4>4. llamada[h].op = "consultar" => ~Vigente(llamada[h].vps)
        BY <4>2, <4>3 DEF Objeto, Vigente
      <4> QED BY <3>1, <4>3, <4>4 DEF NoPasa, MiraBorrado, DelAgente
    <3> QED BY <2>2, <3>2, <3>3, <3>4, <3>5 DEF Conforme
  <2> QED BY <2>1, <2>2
<1> QED BY <1>3, <1>4, <1>5

\* Nothing in the tables moves and no deletion ends: what is settled stays so.
LEMMA SinTablasConserva ==
  ASSUME IInv, SinTablas, TipoHilos', \A g \in Hilo : Conforme(g)',
         \A c \in Llamada : paso[c] = "fin" =>
           paso'[c] = "fin" /\ llamada'[c] = llamada[c] /\ salida'[c] = salida[c],
         \A c \in Llamada : BajaHecha(c)' => BajaHecha(c) /\ llamada'[c] = llamada[c]
  PROVE  IInv'
<1>1. UNCHANGED <<filas, alertas, blanca, metricas, credencial, marcados, gastados>>
  BY DEF SinTablas, varsTablas
<1>2. TypeOK'
  BY <1>1 DEF IInv, TypeOK, TipoHilos
<1>3. Creado'
  BY <1>1 DEF IInv, Creado, Existe
<1>4. Asentado'
  BY <1>1 DEF IInv, Asentado, Existe
<1>5. UnVpsActivoPorIp'
  BY <1>1 DEF IInv, UnVpsActivoPorIp, Vigente, Existe
<1> QED BY <1>2, <1>3, <1>4, <1>5 DEF IInv

\* A refusal, or the one read of consultar and of listar.
LEMMA ResponderConserva ==
  ASSUME IInv, NEW h \in Hilo, NEW s \in Salida, Acabar(h, s), SinTablas,
         paso[h] \in {"buscar", "guardia", "leer"},
         llamada[h].op # "borrar" \/ s # "ok",
         s = "ok" => \/ paso[h] = "leer" \/ llamada[h].op = "listar"
                     \/ (llamada[h].op = "consultar" /\ Vigente(llamada[h].vps))
  PROVE  IInv'
<1>1. UNCHANGED <<filas, alertas, blanca, metricas, credencial, marcados, gastados>>
  BY DEF SinTablas, varsTablas
<1>2. Perdura
  BY <1>1 DEF Perdura, Existe
<1>3. /\ TipoHilos' /\ \A g \in Hilo : Conforme(g)'
      /\ \A c \in Llamada : paso[c] = "fin" =>
           paso'[c] = "fin" /\ llamada'[c] = llamada[c] /\ salida'[c] = salida[c]
  BY <1>2, AcabarConforme
<1>4. \A c \in Llamada : BajaHecha(c)' => BajaHecha(c) /\ llamada'[c] = llamada[c]
  BY DEF BajaHecha, Acabar, IInv, TypeOK, Hilo
<1> QED BY <1>3, <1>4, SinTablasConserva

\* A handler goes on, with what it was asked about there and its owner's.
LEMMA AvanzarConserva ==
  ASSUME IInv, NEW h \in Hilo, NEW donde \in {"leer", "escribir"}, NEW x \in Fila \cup {Nada},
         Ir(h, donde), leido' = [leido EXCEPT ![h] = x], SinTablas,
         paso[h] \in {"buscar", "guardia", "leer"},
         paso[h] = "leer" \/ Objeto(h) = Nada \/ Vigente(Objeto(h)),
         paso[h] = "leer" \/ llamada[h].op \notin DelAgente
           \/ llamada[h].token \notin gastados[llamada[h].vps],
         LET p == llamada[h] IN
         /\ p.op \in SobreVps => Existe(p.vps)
         /\ p.op \in DelDuenio => filas[p.vps].duenio = p.usuario
         /\ p.op = "revisar" => filas[alertas[p.objeto].vps].duenio = p.usuario
         /\ p.op = "quitar" /\ blanca[p.objeto] # Nada => blanca[p.objeto].usuario = p.usuario
         /\ p.op \in DelAgente /\ donde = "escribir" => x # Nada
  PROVE  IInv'
<1>1. TipoTablas /\ TipoHilos /\ (\A g \in Hilo : Conforme(g)) /\ Creado /\ Asentado
  BY Tipos DEF IInv
<1>2. /\ paso' = [paso EXCEPT ![h] = donde]
      /\ salida' = salida /\ llamada' = llamada /\ previas' = previas
  BY DEF Ir
<1>3. UNCHANGED <<filas, alertas, blanca, metricas, credencial, marcados, gastados>>
  BY DEF SinTablas, varsTablas
<1>4. \A c \in Llamada : paso[c] = "fin" =>
        paso'[c] = "fin" /\ llamada'[c] = llamada[c] /\ salida'[c] = salida[c]
  BY <1>1, <1>2 DEF TipoHilos, Hilo
<1>5. TipoHilos'
  BY <1>1, <1>2 DEF TipoHilos
<1>6. Perdura
  BY <1>3 DEF Perdura, Existe
<1>7. ASSUME NEW g \in Hilo PROVE Conforme(g)'
  <2>1. CASE g # h
    <3>1. /\ paso'[g] = paso[g] /\ llamada'[g] = llamada[g] /\ leido'[g] = leido[g]
          /\ salida'[g] = salida[g] /\ previas'[g] = previas[g]
      BY <1>1, <1>2, <2>1 DEF TipoHilos
    <3> QED BY <1>4, <1>6, <3>1, QuietoConforme
  <2>2. CASE g = h
    <3>1. paso'[h] = donde /\ leido'[h] = x
      BY <1>1, <1>2 DEF TipoHilos
    <3>2. Completa(h)'
      BY <1>1, <1>2, <1>3, <1>4, <3>1 DEF Conforme, Completa
    <3>3. Encontrada(h)'
      BY <1>2, <1>3, <3>1 DEF Encontrada, Existe
    <3>4. Obsoleta(h)'
      BY <1>1, <1>2, <1>3, <3>1 DEF Conforme, Obsoleta, NoPasa
    <3>5. Tardia(h)'
      <4> SUFFICES ASSUME NEW d \in previas[h], BajaHecha(d)', llamada[h].op \in MiraBorrado,
                          (Objeto(h) = llamada[d].vps)'
                   PROVE  FALSE
        BY <1>1, <1>2, <1>4 DEF Conforme, Tardia, TipoHilos, MiraBorrado
      <4>1. d \in Llamada /\ BajaHecha(d) /\ Objeto(h) = llamada[d].vps
        BY <1>1, <1>2, <1>3, <1>4 DEF Conforme, Tardia, TipoHilos, BajaHecha, Objeto
      <4>2. paso[h] # "leer" /\ filas[llamada[d].vps].borrado
        BY <1>1, <4>1 DEF Conforme, Tardia, NoPasa, Asentado
      <4>3. llamada[d].vps \in Vps
        BY <1>1, <4>1 DEF Conforme, Completa, BajaHecha, SobreVps, DelDuenio, Hilo
      <4> QED BY <4>1, <4>2, <4>3, GestionConstantes DEF Vigente
    <3> QED BY <2>2, <3>2, <3>3, <3>4, <3>5 DEF Conforme
  <2> QED BY <2>1, <2>2
<1>8. \A c \in Llamada : BajaHecha(c)' => BajaHecha(c) /\ llamada'[c] = llamada[c]
  BY <1>1, <1>2 DEF BajaHecha, TipoHilos, Hilo
<1> QED BY <1>4, <1>5, <1>7, <1>8, SinTablasConserva

\* The look-up of the operations on a VPS of the user.
LEMMA BuscarConserva ==
  ASSUME IInv, NEW c \in Llamada, NEW op \in DelDuenio \cup {"anadir"}, NEW donde \in {"leer", "escribir"},
         Buscar(c, op, donde)
  PROVE  IInv'
<1>1. c \in Hilo /\ paso[c] = "buscar" /\ llamada[c].op = op /\ llamada[c].vps \in Vps /\ SinTablas
  BY DEF Hilo, Buscar, En, IInv, Conforme, Completa, SobreVps
<1>2. CASE Propia(c)
  <2>1. Ir(c, donde) /\ leido' = [leido EXCEPT ![c] = filas[llamada[c].vps]]
    BY <1>2 DEF Buscar, Leer
  <2>2. /\ Vigente(Objeto(c)) /\ filas[llamada[c].vps] \in Fila /\ Existe(llamada[c].vps)
        /\ filas[llamada[c].vps].duenio = llamada[c].usuario
    BY <1>1, <1>2 DEF Propia, Objeto, Vigente, Existe, IInv, TypeOK, DelDuenio
  <2> QED BY <1>1, <2>1, <2>2, AvanzarConserva DEF DelDuenio, DelAgente
<1>3. CASE ~Propia(c)
  <2>1. Acabar(c, "noEncontrado")
    BY <1>3 DEF Buscar
  <2> QED BY <1>1, <2>1, ResponderConserva DEF Salida
<1> QED BY <1>2, <1>3
------------------------------------------------------------------------------
(* The steps that write. *)

\* A handler that writes creates nothing under another call's name, gives a row no token
\* but its own, and keeps every token it replaces.
LEMMA EscribirConserva ==
  ASSUME IInv, NEW h \in Hilo, NEW s \in Salida, Acabar(h, s), paso[h] = "escribir",
         Perdura, TipoTablas', UNCHANGED marcados,
         \A c \in Llamada : alertas'[c] # Nada =>
           alertas[c] # Nada \/ (c = h /\ alertas'[c].vps \in Vps /\ Existe(alertas'[c].vps)),
         \A c \in Llamada : blanca'[c] # Nada => blanca[c] # Nada \/ c = h,
         \A v \in Vps : \A t \in gastados'[v] \ gastados[v] : Existe(v) /\ t = filas[v].token,
         \A v \in Vps : filas'[v] # Nada =>
           /\ (Existe(v) /\ filas'[v].token = filas[v].token) \/ filas'[v].token = h
           /\ filas'[v].token \notin gastados'[v],
         llamada[h].op = "borrar" => filas'[llamada[h].vps] # Nada /\ filas'[llamada[h].vps].borrado,
         UnVpsActivoPorIp'
  PROVE  IInv'
<1>1. TipoTablas /\ TipoHilos /\ (\A g \in Hilo : Conforme(g)) /\ Creado /\ Asentado
  BY Tipos DEF IInv
<1>2. /\ TipoHilos' /\ \A g \in Hilo : Conforme(g)'
      /\ \A c \in Llamada : paso[c] = "fin" =>
           paso'[c] = "fin" /\ llamada'[c] = llamada[c] /\ salida'[c] = salida[c]
  BY AcabarConforme
<1>3. paso'[h] = "fin" /\ llamada' = llamada /\ \A c \in Llamada : c # h => paso'[c] = paso[c] /\ salida'[c] = salida[c]
  BY <1>1 DEF Acabar, TipoHilos, Hilo
<1>4. Creado'
  <2>1. \A c \in Llamada : alertas'[c] # Nada =>
          paso'[c] = "fin" /\ alertas'[c].vps \in Vps /\ filas'[alertas'[c].vps] # Nada
    BY <1>1, <1>2, <1>3 DEF Creado, Perdura
  <2>2. \A c \in Llamada : blanca'[c] # Nada => paso'[c] = "fin"
    BY <1>1, <1>2, <1>3 DEF Creado
  <2>3. \A v \in Vps : \A c \in Llamada :
          c \in gastados'[v] \/ (filas'[v] # Nada /\ filas'[v].token = c) => paso'[c] = "fin"
    BY <1>1, <1>2, <1>3 DEF Creado
  <2>4. marcados' # Nada => \A v \in marcados' : filas'[v] # Nada
    BY <1>1 DEF Creado, TipoTablas, Perdura
  <2> QED BY <2>1, <2>2, <2>3, <2>4 DEF Creado, Existe
<1>5. Asentado'
  <2>1. ASSUME NEW d \in Llamada, BajaHecha(d)' 
        PROVE  filas'[llamada'[d].vps] # Nada /\ filas'[llamada'[d].vps].borrado
    <3>1. CASE d = h
      BY <1>3, <2>1, <3>1 DEF BajaHecha
    <3>2. CASE d # h
      <4>1. BajaHecha(d)
        BY <1>3, <2>1, <3>2 DEF BajaHecha
      <4>2. llamada[d].vps \in Vps
        BY <1>1, <4>1 DEF Conforme, Completa, BajaHecha, SobreVps, DelDuenio, Hilo
      <4>3. Existe(llamada[d].vps) /\ filas[llamada[d].vps].borrado
        BY <1>1, <4>1 DEF Asentado
      <4> QED BY <1>3, <4>2, <4>3 DEF Perdura
    <3> QED BY <3>1, <3>2
  <2> QED BY <2>1 DEF Asentado, Existe
<1> QED BY <1>2, <1>4, <1>5 DEF IInv, TypeOK, TipoTablas, TipoHilos

\* No new row, no row with another owner or address, none undeleted: addresses stay apart.
LEMMA SinFilaNueva ==
  ASSUME IInv, Perdura, \A v \in Vps : filas'[v] # Nada => Existe(v)
  PROVE  UnVpsActivoPorIp'
BY DEF IInv, UnVpsActivoPorIp, Perdura, Vigente, Existe

\* A handler that writes one field of the row that it looked up, but its token.
LEMMA EscribirFilaConserva ==
  ASSUME IInv, NEW h \in Hilo, Acabar(h, "ok"), paso[h] = "escribir", NEW v \in Vps, Existe(v),
         NEW f \in Fila, filas' = [filas EXCEPT ![v] = f],
         f.duenio = filas[v].duenio, f.ip = filas[v].ip, f.token = filas[v].token,
         filas[v].borrado => f.borrado, llamada[h].op = "borrar" => llamada[h].vps = v /\ f.borrado,
         UNCHANGED <<alertas, blanca, metricas, credencial, marcados, gastados>>
  PROVE  IInv'
<1>1. TipoTablas /\ Asentado
  BY Tipos DEF IInv
<1>2. /\ TipoTablas' /\ filas'[v] = f /\ f # Nada /\ \A w \in Vps \ {v} : filas'[w] = filas[w]
  BY <1>1, NadaNoEsDato DEF TipoTablas
<1>3. Perdura
  BY <1>1, <1>2 DEF Perdura, Existe
<1>4. UnVpsActivoPorIp'
  BY <1>2, <1>3, SinFilaNueva DEF Existe
<1>5. \A w \in Vps : filas'[w] # Nada =>
        Existe(w) /\ filas'[w].token = filas[w].token /\ filas'[w].token \notin gastados'[w]
  BY <1>1, <1>2 DEF Asentado, Existe
<1>6. \A c \in Llamada : alertas'[c] = alertas[c] /\ blanca'[c] = blanca[c]
  OBVIOUS
<1> QED BY <1>2, <1>3, <1>4, <1>5, <1>6, EscribirConserva DEF Salida

\* create inserts its row only where the index finds no other of that owner and address.
LEMMA CrearConserva ==
  ASSUME IInv, NEW c \in Llamada, create(c)
  PROVE  IInv'
<1> DEFINE u == llamada[c].usuario
           ip == llamada[c].ip
<1>1. TipoTablas /\ TipoHilos /\ (\A g \in Hilo : Conforme(g)) /\ Creado /\ Asentado /\ c \in Hilo
  BY Tipos DEF IInv, Hilo
<1>2. CASE En(c, "crear", "buscar") /\ Acabar(c, "conflicto") /\ SinTablas
  BY <1>1, <1>2, ResponderConserva DEF En, Salida
<1>3. CASE En(c, "crear", "buscar") /\ Seguir(c, "escribir") /\ SinTablas
  <2>1. Ir(c, "escribir") /\ leido' = [leido EXCEPT ![c] = leido[c]] /\ leido[c] \in Fila \cup {Nada}
    BY <1>1, <1>3 DEF Seguir, TipoHilos
  <2>2. Objeto(c) = Nada
    BY <1>1, <1>3 DEF Conforme, Completa, En, Objeto
  <2> QED BY <1>1, <1>3, <2>1, <2>2, AvanzarConserva DEF En, SobreVps, DelDuenio, DelAgente
<1>4. ASSUME En(c, "crear", "escribir"), SoloFilas, UNCHANGED gastados,
             \/ Acabar(c, "errorInterno") /\ UNCHANGED filas
             \/ /\ ~Ocupada(u, ip)
                /\ \E v \in Vps : /\ ~Existe(v)
                                  /\ filas' = [filas EXCEPT ![v] = FilaNueva(u, ip, c)]
                                  /\ Acabar(c, "ok")
      PROVE  IInv'
  <2>1. u \in Usuario /\ ip \in Ip /\ paso[c] = "escribir" /\ llamada[c].op = "crear"
    BY <1>1, <1>4 DEF Conforme, Completa, En, DelUsuario
  <2>2. UNCHANGED <<alertas, blanca, metricas, credencial, marcados, gastados>>
    BY <1>4 DEF SoloFilas
  <2>3. CASE Acabar(c, "errorInterno") /\ UNCHANGED filas
    <3>1. Perdura /\ TipoTablas'
      BY <1>1, <2>2, <2>3 DEF Perdura, Existe, TipoTablas
    <3>2. UnVpsActivoPorIp'
      BY <2>3, <3>1, SinFilaNueva DEF Existe
    <3> QED BY <1>1, <2>1, <2>2, <2>3, <3>1, <3>2, EscribirConserva DEF Salida, Asentado, Existe
  <2>4. ASSUME ~Ocupada(u, ip), NEW v \in Vps, ~Existe(v), Acabar(c, "ok"),
               filas' = [filas EXCEPT ![v] = FilaNueva(u, ip, c)]
        PROVE  IInv'
    <3> DEFINE f == FilaNueva(u, ip, c)
    <3>1. f \in Fila /\ f # Nada /\ f.duenio = u /\ f.ip = ip /\ f.token = c /\ ~f.borrado
      <4>1. f \in Fila
        BY <2>1 DEF FilaNueva, Fila, EstadoVps, Nivel, Token
      <4> QED BY <4>1, NadaNoEsDato DEF FilaNueva
    <3> HIDE DEF f
    <3>2. /\ filas'[v] = f /\ \A w \in Vps \ {v} : filas'[w] = filas[w]
          /\ TipoTablas'
      BY <1>1, <2>2, <2>4, <3>1 DEF TipoTablas, f
    <3>3. Perdura
      BY <2>2, <2>4, <3>2 DEF Perdura, Existe
    <3>4. UnVpsActivoPorIp'
      BY <2>4, <3>1, <3>2 DEF IInv, UnVpsActivoPorIp, Ocupada, Vigente, Existe
    <3>5. c \notin gastados[v]
      BY <1>1, <2>1 DEF Creado
    <3>6. \A w \in Vps : filas'[w] # Nada =>
            /\ (Existe(w) /\ filas'[w].token = filas[w].token) \/ filas'[w].token = c
            /\ filas'[w].token \notin gastados'[w]
      BY <1>1, <2>2, <3>1, <3>2, <3>5 DEF Asentado, Existe
    <3> QED BY <1>1, <2>1, <2>2, <2>4, <3>2, <3>3, <3>4, <3>6, EscribirConserva DEF Salida
  <2> QED BY <1>4, <2>3, <2>4
<1> QED BY <1>2, <1>3, <1>4 DEF create

\* The row that a handler past its look-up writes is there.
LEMMA FilaHallada ==
  ASSUME IInv, NEW h \in Hilo, paso[h] \in {"leer", "escribir"}, llamada[h].op \in SobreVps
  PROVE  /\ llamada[h].vps \in Vps /\ Existe(llamada[h].vps) /\ filas[llamada[h].vps] \in Fila
         /\ llamada[h].op \in DelAgente /\ paso[h] = "escribir" => leido[h] \in Fila
BY DEF IInv, TypeOK, Conforme, Completa, Encontrada, Existe

\* Deleting, configuring and looking at a VPS.
LEMMA VpsConserva ==
  ASSUME IInv, NEW c \in Llamada, softDelete(c) \/ update(c) \/ findOneByUser(c) \/ getMetricas(c)
  PROVE  IInv'
<1> DEFINE v == llamada[c].vps
<1>1. c \in Hilo
  BY DEF Hilo
<1>2. CASE Buscar(c, "borrar", "escribir") \/ Buscar(c, "configurar", "escribir")
           \/ Buscar(c, "metricas", "leer")
  BY <1>2, BuscarConserva DEF DelDuenio
<1>3. ASSUME En(c, "borrar", "escribir"), Acabar(c, "ok"), SoloFilas, UNCHANGED gastados,
             filas' = [filas EXCEPT ![v].borrado = TRUE, ![v].estado = "ELIMINADO"]
      PROVE  IInv'
  <2> DEFINE f == [filas[v] EXCEPT !.borrado = TRUE, !.estado = "ELIMINADO"]
  <2>1. v \in Vps /\ Existe(v) /\ filas[v] \in Fila /\ paso[c] = "escribir"
    BY <1>1, <1>3, FilaHallada DEF En, SobreVps, DelDuenio
  <2>2. f \in Fila /\ f.duenio = filas[v].duenio /\ f.ip = filas[v].ip /\ f.token = filas[v].token /\ f.borrado
    BY <2>1 DEF Fila, EstadoVps
  <2>3. filas' = [filas EXCEPT ![v] = f]
    BY <1>3, <2>1 DEF IInv, TypeOK
  <2>4. Acabar(c, "ok") /\ UNCHANGED <<alertas, blanca, metricas, credencial, marcados, gastados>>
    BY <1>3 DEF SoloFilas
  <2> HIDE DEF f
  <2> QED BY <1>1, <2>1, <2>2, <2>3, <2>4, EscribirFilaConserva
<1>4. ASSUME En(c, "configurar", "escribir"), Acabar(c, "ok"), SoloFilas, UNCHANGED gastados,
             filas' = [filas EXCEPT ![v].nivel = llamada[c].nivel]
      PROVE  IInv'
  <2> DEFINE f == [filas[v] EXCEPT !.nivel = llamada[c].nivel]
  <2>1. v \in Vps /\ Existe(v) /\ filas[v] \in Fila /\ paso[c] = "escribir" /\ llamada[c].op # "borrar"
    BY <1>1, <1>4, FilaHallada DEF En, SobreVps, DelDuenio
  <2>2. llamada[c].nivel \in Nivel
    BY <1>1 DEF IInv, TypeOK, Peticion
  <2>3. f \in Fila /\ f.duenio = filas[v].duenio /\ f.ip = filas[v].ip /\ f.token = filas[v].token
        /\ f.borrado = filas[v].borrado
    BY <2>1, <2>2 DEF Fila
  <2>4. filas' = [filas EXCEPT ![v] = f]
    BY <1>4, <2>1 DEF IInv, TypeOK
  <2>5. Acabar(c, "ok") /\ UNCHANGED <<alertas, blanca, metricas, credencial, marcados, gastados>>
    BY <1>4 DEF SoloFilas
  <2> HIDE DEF f
  <2> QED BY <1>1, <2>1, <2>3, <2>4, <2>5, EscribirFilaConserva
<1>5. CASE findOneByUser(c)
  BY <1>1, <1>5, ResponderConserva DEF findOneByUser, En, Propia, Salida
<1>6. CASE En(c, "metricas", "leer") /\ Acabar(c, "ok") /\ SinTablas
  BY <1>1, <1>6, ResponderConserva DEF En, Salida
<1> QED BY <1>2, <1>3, <1>4, <1>5, <1>6 DEF softDelete, update, getMetricas

\* A new token is the name of the call that made it, so no row had it and none replaced it.
LEMMA RegenerarConserva ==
  ASSUME IInv, NEW c \in Llamada, regenerateToken(c)
  PROVE  IInv'
<1> DEFINE v == llamada[c].vps
           f == [filas[v] EXCEPT !.token = c]
<1>1. TipoTablas /\ Creado /\ Asentado /\ c \in Hilo
  BY Tipos DEF IInv, Hilo
<1>2. CASE Buscar(c, "regenerar", "escribir")
  BY <1>2, BuscarConserva DEF DelDuenio
<1>3. ASSUME En(c, "regenerar", "escribir"), Acabar(c, "ok"), SoloFilas,
             filas' = [filas EXCEPT ![v].token = c],
             gastados' = [gastados EXCEPT ![v] = @ \cup {filas[v].token}]
      PROVE  IInv'
  <2>1. v \in Vps /\ Existe(v) /\ filas[v] \in Fila /\ paso[c] = "escribir" /\ llamada[c].op # "borrar"
    BY <1>1, <1>3, FilaHallada DEF En, SobreVps, DelDuenio
  <2>2. c \notin gastados[v] /\ c # filas[v].token
    BY <1>1, <2>1 DEF Creado
  <2>3. f \in Fila /\ f.duenio = filas[v].duenio /\ f.ip = filas[v].ip /\ f.token = c
        /\ f.borrado = filas[v].borrado /\ f # Nada /\ filas[v].token \in Token
    BY <2>1, NadaNoEsDato DEF Fila, Token
  <2>4. filas' = [filas EXCEPT ![v] = f] /\ filas'[v] = f
    BY <1>1, <1>3, <2>1 DEF TipoTablas
  <2> HIDE DEF f
  <2>5. /\ \A w \in Vps \ {v} : filas'[w] = filas[w] /\ gastados'[w] = gastados[w]
        /\ gastados'[v] = gastados[v] \cup {filas[v].token}
        /\ UNCHANGED <<alertas, blanca, metricas, credencial, marcados>>
    BY <1>1, <1>3, <2>1, <2>4 DEF SoloFilas, TipoTablas
  <2>6. TipoTablas'
    <3>1. filas' \in [Vps -> Fila \cup {Nada}]
      BY <1>1, <2>3, <2>4 DEF TipoTablas
    <3>2. gastados' \in [Vps -> SUBSET Token]
      BY <1>1, <1>3, <2>3 DEF TipoTablas
    <3> QED BY <1>1, <2>5, <3>1, <3>2 DEF TipoTablas
  <2>7. Perdura
    BY <2>1, <2>3, <2>4, <2>5 DEF Perdura, Existe
  <2>8. UnVpsActivoPorIp'
    BY <2>1, <2>5, <2>7, SinFilaNueva DEF Existe
  <2>9. \A w \in Vps : filas'[w] # Nada =>
          /\ (Existe(w) /\ filas'[w].token = filas[w].token) \/ filas'[w].token = c
          /\ filas'[w].token \notin gastados'[w]
    BY <1>1, <2>2, <2>3, <2>4, <2>5 DEF Asentado, Existe
  <2>10. \A w \in Vps : \A t \in gastados'[w] \ gastados[w] : Existe(w) /\ t = filas[w].token
    BY <2>1, <2>5
  <2> QED BY <1>1, <1>3, <2>1, <2>5, <2>6, <2>7, <2>8, <2>9, <2>10, EscribirConserva DEF Salida
<1> QED BY <1>2, <1>3 DEF regenerateToken

\* A step that writes another table than that of the VPS.
LEMMA EscribirOtraConserva ==
  ASSUME IInv, NEW h \in Hilo, NEW s \in Salida, Acabar(h, s), paso[h] = "escribir",
         llamada[h].op # "borrar", UNCHANGED <<filas, credencial, marcados, gastados>>,
         alertas' \in [Llamada -> Alerta \cup {Nada}],
         blanca' \in [Llamada -> Entrada \cup {Nada}], metricas' \subseteq Llamada,
         \A c \in Llamada :
           /\ alertas[c] # Nada => alertas'[c] # Nada /\ alertas'[c].vps = alertas[c].vps
           /\ paso[c] = "fin" => blanca'[c] \in {Nada, blanca[c]}
           /\ alertas'[c] # Nada =>
                alertas[c] # Nada \/ (c = h /\ alertas'[c].vps \in Vps /\ Existe(alertas'[c].vps))
           /\ blanca'[c] # Nada => blanca[c] # Nada \/ c = h
  PROVE  IInv'
<1>1. TipoTablas /\ Asentado
  BY Tipos DEF IInv
<1>2. TipoTablas' /\ Perdura
  BY <1>1 DEF TipoTablas, Perdura, Existe
<1>3. UnVpsActivoPorIp'
  BY <1>2, SinFilaNueva DEF Existe
<1>4. \A v \in Vps : filas'[v] # Nada =>
        Existe(v) /\ filas'[v].token = filas[v].token /\ filas'[v].token \notin gastados'[v]
  BY <1>1 DEF Asentado, Existe
<1>5. \A v \in Vps : gastados'[v] = gastados[v]
  OBVIOUS
<1> QED BY <1>2, <1>3, <1>4, <1>5, EscribirConserva DEF Existe

\* Reviewing an alert, and the entries of the whitelist.
LEMMA ListasConserva ==
  ASSUME IInv, NEW c \in Llamada, updateEstado(c) \/ createEntrada(c) \/ findAll(c) \/ remove(c)
  PROVE  IInv'
<1> DEFINE o == llamada[c].objeto
<1>1. TipoTablas /\ TipoHilos /\ Conforme(c) /\ Creado /\ c \in Hilo
  BY Tipos DEF IInv, Hilo
<1>2. CASE (En(c, "revisar", "buscar") \/ En(c, "quitar", "buscar"))
           /\ Acabar(c, "noEncontrado") /\ SinTablas
  BY <1>1, <1>2, ResponderConserva DEF En, Salida
<1>3. CASE Buscar(c, "anadir", "escribir")
  BY <1>3, BuscarConserva
<1>4. ASSUME En(c, "revisar", "buscar") \/ En(c, "quitar", "buscar"), Seguir(c, "escribir"), SinTablas,
             llamada[c].op = "revisar" =>
               Vigente(alertas[o].vps) /\ filas[alertas[o].vps].duenio = llamada[c].usuario,
             llamada[c].op = "quitar" => blanca[o].usuario = llamada[c].usuario
      PROVE  IInv'
  <2>1. Ir(c, "escribir") /\ leido' = [leido EXCEPT ![c] = leido[c]] /\ leido[c] \in Fila \cup {Nada}
    BY <1>1, <1>4 DEF Seguir, TipoHilos
  <2>2. Objeto(c) = Nada \/ Vigente(Objeto(c))
    BY <1>1, <1>4 DEF Conforme, Completa, En, Objeto
  <2> QED BY <1>1, <1>4, <2>1, <2>2, AvanzarConserva DEF En, SobreVps, DelDuenio, DelAgente
<1>5. ASSUME En(c, "revisar", "escribir"), Acabar(c, "ok"),
             alertas' = [alertas EXCEPT ![o].revisada = TRUE],
             UNCHANGED <<filas, blanca, metricas, credencial, marcados, gastados>>
      PROVE  IInv'
  <2>1. o \in Llamada /\ alertas[o] \in Alerta /\ paso[c] = "escribir" /\ llamada[c].op = "revisar"
    BY <1>1, <1>5 DEF Conforme, Completa, En, TipoTablas
  <2>2. [alertas[o] EXCEPT !.revisada = TRUE] \in Alerta
        /\ [alertas[o] EXCEPT !.revisada = TRUE].vps = alertas[o].vps
    BY <2>1 DEF Alerta
  <2>3. alertas' \in [Llamada -> Alerta \cup {Nada}] /\ alertas'[o] \in Alerta
        /\ alertas'[o].vps = alertas[o].vps
        /\ \A d \in Llamada \ {o} : alertas'[d] = alertas[d]
    BY <1>1, <1>5, <2>1, <2>2 DEF TipoTablas
  <2>4. \A d \in Llamada : alertas[d] # Nada <=> alertas'[d] # Nada
    BY <1>1, <2>1, <2>3, NadaNoEsDato
  <2>5. \A d \in Llamada : alertas[d] # Nada => alertas'[d].vps = alertas[d].vps
    BY <2>3
  <2>6. blanca' \in [Llamada -> Entrada \cup {Nada}] /\ metricas' \subseteq Llamada
        /\ UNCHANGED <<filas, credencial, marcados, gastados>> /\ blanca' = blanca
    BY <1>1, <1>5 DEF TipoTablas
  <2> QED BY <1>1, <1>5, <2>1, <2>3, <2>4, <2>5, <2>6, EscribirOtraConserva DEF Salida
<1>6. ASSUME NEW s \in {"ok", "conflicto", "errorInterno"}, Acabar(c, s),
             En(c, "anadir", "escribir") \/ En(c, "quitar", "escribir"),
             \/ UNCHANGED blanca
             \/ /\ llamada[c].op = "anadir"
                /\ blanca' = [blanca EXCEPT ![c] = [usuario |-> llamada[c].usuario,
                                vps |-> llamada[c].vps, ip |-> llamada[c].ip]]
             \/ llamada[c].op = "quitar" /\ blanca' = [blanca EXCEPT ![o] = Nada],
             UNCHANGED <<filas, alertas, metricas, credencial, marcados, gastados>>
      PROVE  IInv'
  <2>1. /\ paso[c] = "escribir" /\ llamada[c].op \in {"anadir", "quitar"}
        /\ llamada[c].op = "anadir" =>
             [usuario |-> llamada[c].usuario, vps |-> llamada[c].vps, ip |-> llamada[c].ip] \in Entrada
    BY <1>1, <1>6 DEF Conforme, Completa, En, DelUsuario, Entrada, TipoHilos, Peticion
  <2>2. /\ blanca' \in [Llamada -> Entrada \cup {Nada}]
        /\ \A d \in Llamada : d # c => blanca'[d] \in {Nada, blanca[d]}
    BY <1>1, <1>6, <2>1 DEF TipoTablas
  <2>3. alertas' \in [Llamada -> Alerta \cup {Nada}] /\ metricas' \subseteq Llamada
        /\ UNCHANGED <<filas, credencial, marcados, gastados>> /\ alertas' = alertas
    BY <1>1, <1>6 DEF TipoTablas
  <2> QED BY <1>1, <1>6, <2>1, <2>2, <2>3, EscribirOtraConserva DEF Salida
<1>7. CASE findAll(c)
  BY <1>1, <1>7, ResponderConserva DEF findAll, En, Salida
<1> QED BY <1>2, <1>3, <1>4, <1>5, <1>6, <1>7 DEF updateEstado, createEntrada, remove, En

\* The guard lets through only who has the token of a row in force.
LEMMA GuardiaConserva ==
  ASSUME IInv, NEW h \in Hilo, canActivate(h)
  PROVE  IInv'
<1> DEFINE v == llamada[h].vps
<1>1. /\ TipoTablas /\ Asentado /\ SinTablas /\ paso[h] = "guardia" /\ llamada[h].op \in DelAgente
      /\ v \in Vps /\ Objeto(h) = v
  BY Tipos DEF IInv, Conforme, Completa, canActivate, SobreVps, Objeto, DelAgente
<1>2. CASE Vigente(v) /\ filas[v].token = llamada[h].token
  <2>1. PICK donde \in {"leer", "escribir"} : Leer(h, donde, filas[v])
    BY <1>2 DEF canActivate
  <2>2. filas[v] \in Fila /\ filas[v] # Nada /\ llamada[h].token \notin gastados[v]
    BY <1>1, <1>2 DEF TipoTablas, Asentado, Vigente, Existe
  <2> QED BY <1>1, <1>2, <2>1, <2>2, AvanzarConserva
             DEF Leer, Vigente, Existe, DelAgente, DelDuenio
<1>3. CASE Acabar(h, "noAutorizado")
  BY <1>1, <1>3, ResponderConserva DEF Salida
<1> QED BY <1>2, <1>3 DEF canActivate

\* A heartbeat writes the row that the guard read, whatever became of it.
LEMMA LatidoConserva ==
  ASSUME IInv, NEW h \in Hilo, heartbeat(h)
  PROVE  IInv'
<1> DEFINE v == llamada[h].vps
           e == IF leido[h].estado \in {"PENDIENTE_INSTALACION", "DESCONECTADO"}
                THEN "ACTIVO" ELSE filas[v].estado
           f == [filas[v] EXCEPT !.pulso = "reciente", !.estado = e]
<1>1. v \in Vps /\ Existe(v) /\ filas[v] \in Fila /\ paso[h] = "escribir" /\ llamada[h].op # "borrar"
  BY FilaHallada DEF heartbeat, En, SobreVps, DelAgente
<1>2. e \in EstadoVps
  BY <1>1 DEF Fila, EstadoVps
<1>3. filas' = [filas EXCEPT ![v] = f]
  BY <1>1 DEF heartbeat, IInv, TypeOK
<1> HIDE DEF e
<1>4. f \in Fila /\ f.duenio = filas[v].duenio /\ f.ip = filas[v].ip /\ f.token = filas[v].token
      /\ f.borrado = filas[v].borrado
  BY <1>1, <1>2 DEF Fila
<1>5. Acabar(h, "ok") /\ UNCHANGED <<alertas, blanca, metricas, credencial, marcados, gastados>>
  BY DEF heartbeat, SoloFilas
<1> HIDE DEF f
<1> QED BY <1>1, <1>3, <1>4, <1>5, EscribirFilaConserva

\* What an agent reports is kept with the VPS that the guard found.
LEMMA ReporteConserva ==
  ASSUME IInv, NEW c \in Llamada, createMetrica(c) \/ createAlerta(c)
  PROVE  IInv'
<1> DEFINE v == llamada[c].vps
<1>1. TipoTablas /\ TipoHilos /\ Creado /\ c \in Hilo
  BY Tipos DEF IInv, Hilo
<1>2. CASE createMetrica(c)
  <2>1. /\ alertas' = alertas /\ blanca' = blanca /\ UNCHANGED <<filas, credencial, marcados, gastados>>
        /\ metricas' \subseteq Llamada /\ Acabar(c, "ok") /\ paso[c] = "escribir"
        /\ llamada[c].op # "borrar"
    BY <1>1, <1>2 DEF createMetrica, En, TipoTablas
  <2> QED BY <1>1, <2>1, EscribirOtraConserva DEF TipoTablas, Salida
<1>3. CASE En(c, "alerta", "leer") /\ Leer(c, "escribir", filas[v]) /\ SinTablas
  <2>1. v \in Vps /\ Existe(v) /\ filas[v] \in Fila
    BY <1>1, <1>3, FilaHallada DEF En, SobreVps, DelAgente
  <2> QED BY <1>1, <1>3, <2>1, AvanzarConserva DEF En, Leer, Existe, DelDuenio
<1>4. ASSUME En(c, "alerta", "escribir"), Acabar(c, "ok"),
             alertas' = [alertas EXCEPT ![c] =
                           [vps |-> v, accion |-> AccionDe[leido[c].nivel], revisada |-> FALSE]],
             UNCHANGED <<filas, blanca, metricas, credencial, marcados, gastados>>
      PROVE  IInv'
  <2>1. v \in Vps /\ Existe(v) /\ leido[c] \in Fila
    BY <1>1, <1>4, FilaHallada DEF En, SobreVps, DelAgente
  <2>2. AccionDe[leido[c].nivel] \in Accion
    BY <2>1 DEF AccionDe, Accion, Fila, Nivel
  <2> DEFINE a == [vps |-> v, accion |-> AccionDe[leido[c].nivel], revisada |-> FALSE]
  <2>3. a \in Alerta /\ a.vps = v
    BY <2>1, <2>2 DEF Alerta
  <2>4. paso[c] = "escribir" /\ llamada[c].op # "borrar" /\ alertas[c] = Nada
    BY <1>1, <1>4 DEF En, Creado
  <2>5. alertas' = [alertas EXCEPT ![c] = a]
    BY <1>4
  <2> HIDE DEF a
  <2>6. /\ alertas' \in [Llamada -> Alerta \cup {Nada}] /\ alertas'[c].vps = v
        /\ \A d \in Llamada : d # c => alertas'[d] = alertas[d]
    BY <1>1, <2>3, <2>5 DEF TipoTablas
  <2>7. blanca' \in [Llamada -> Entrada \cup {Nada}] /\ metricas' \subseteq Llamada
        /\ UNCHANGED <<filas, credencial, marcados, gastados>> /\ blanca' = blanca /\ filas' = filas
    BY <1>1, <1>4 DEF TipoTablas
  <2>8. \A d \in Llamada : alertas'[d] # Nada =>
          alertas[d] # Nada \/ (d = c /\ alertas'[d].vps \in Vps /\ Existe(alertas'[d].vps))
    BY <2>1, <2>6
  <2>9. \A d \in Llamada : alertas[d] # Nada => alertas'[d] # Nada /\ alertas'[d].vps = alertas[d].vps
    BY <2>4, <2>6
  <2> QED BY <1>1, <1>4, <2>4, <2>6, <2>7, <2>8, <2>9, EscribirOtraConserva DEF Salida
<1> QED BY <1>2, <1>3, <1>4 DEF createAlerta
------------------------------------------------------------------------------
(* Who calls, the jobs and the clock. *)

\* The requests that the controllers make of that of a user are complete.
LEMMA Controladores ==
  ASSUME NEW p0 \in Peticion, p0.usuario \in Usuario, p0.vps = Nada,
         NEW p \in VpsController(p0) \cup ConfiguracionController(p0) \cup WhitelistController(p0)
                     \cup AlertasController(p0)
  PROVE  /\ p \in Peticion /\ p.usuario = p0.usuario /\ p.op \in DelUsuario
         /\ p.op \in DelDuenio => p.vps \in Vps
         /\ p.op \in {"crear", "quitar"} => p.vps = Nada
         /\ p.op \in {"crear", "anadir"} => p.ip \in Ip
         /\ p.op = "anadir" => p.vps \in Vps \cup {Nada}
         /\ p.op = "revisar" => p.objeto \in Llamada /\ alertas[p.objeto] # Nada
         /\ p.op = "quitar" => p.objeto \in Llamada /\ blanca[p.objeto] # Nada
<1>1. CASE p \in VpsController(p0) \/ p \in {Pide(p0, "anadir", v, ip) : v \in Vps \cup {Nada}, ip \in Ip}
  <2>1. PICK op \in {"crear", "borrar", "regenerar", "consultar", "metricas", "anadir"},
             v \in Vps \cup {Nada}, ip \in Ip \cup {Nada} :
          /\ p = Pide(p0, op, v, ip)
          /\ op \in DelDuenio => v \in Vps
          /\ op = "crear" => v = Nada
          /\ op \in {"crear", "anadir"} => ip \in Ip
    BY <1>1 DEF VpsController, DelDuenio
  <2> QED BY <2>1 DEF Pide, Peticion, DelUsuario, DelDuenio
<1>2. CASE p \in ConfiguracionController(p0)
  <2>1. PICK v \in Vps : p = [Pide(p0, "configurar", v, Nada) EXCEPT !.nivel = "GUARDIAN_TOTAL"]
    BY <1>2 DEF ConfiguracionController
  <2> QED BY <2>1 DEF Pide, Peticion, DelUsuario, DelDuenio, Nivel
<1>3. CASE p \in {PideDe(p0, "quitar", d) : d \in {d \in Llamada : blanca[d] # Nada}}
  <2>1. PICK d \in Llamada : blanca[d] # Nada /\ p = PideDe(p0, "quitar", d)
    BY <1>3
  <2> QED BY <2>1 DEF PideDe, Peticion, DelUsuario, DelDuenio
<1>4. CASE p \in AlertasController(p0)
  <2>1. PICK a \in Llamada : alertas[a] # Nada /\ p = PideDe(p0, "revisar", a)
    BY <1>4 DEF AlertasController
  <2> QED BY <2>1 DEF PideDe, Peticion, DelUsuario, DelDuenio
<1>5. CASE p \in {Pide(p0, "listar", v, Nada) : v \in Vps \cup {Nada}}
  <2>1. PICK v \in Vps \cup {Nada} : p = Pide(p0, "listar", v, Nada)
    BY <1>5
  <2> QED BY <2>1 DEF Pide, Peticion, DelUsuario, DelDuenio
<1>6. CASE p \in WhitelistController(p0)
  BY <1>1, <1>3, <1>5, <1>6 DEF WhitelistController
<1> QED BY <1>1, <1>2, <1>4, <1>6

\* A request of a user begins.
LEMMA UsuarioConserva ==
  ASSUME IInv, NEW c \in Llamada, LlegaUsuario(c)
  PROVE  IInv'
<1>1. PICK u \in Usuario :
        \E p \in LET p0 == [SinPeticion EXCEPT !.usuario = u] IN
                 VpsController(p0) \cup ConfiguracionController(p0) \cup WhitelistController(p0)
                   \cup AlertasController(p0) :
          Empezar(c, p, IF p.op = "anadir" /\ p.vps = Nada THEN "escribir" ELSE "buscar")
  BY DEF LlegaUsuario
<1> DEFINE p0 == [SinPeticion EXCEPT !.usuario = u]
<1>2. p0 \in Peticion /\ p0.usuario \in Usuario /\ p0.vps = Nada
  BY DEF SinPeticion, Peticion, Nivel, DelUsuario
<1>3. \E p \in VpsController(p0) \cup ConfiguracionController(p0) \cup WhitelistController(p0)
                   \cup AlertasController(p0) :
        Empezar(c, p, IF p.op = "anadir" /\ p.vps = Nada THEN "escribir" ELSE "buscar")
  BY <1>1
<1> HIDE DEF p0
<1>4. PICK p \in VpsController(p0) \cup ConfiguracionController(p0) \cup WhitelistController(p0)
                   \cup AlertasController(p0) :
        Empezar(c, p, IF p.op = "anadir" /\ p.vps = Nada THEN "escribir" ELSE "buscar")
  BY <1>3
<1>5. /\ p \in Peticion /\ p.usuario \in Usuario /\ p.op \in DelUsuario
      /\ p.op \in DelDuenio => p.vps \in Vps
      /\ p.op \in {"crear", "quitar"} => p.vps = Nada
      /\ p.op \in {"crear", "anadir"} => p.ip \in Ip
      /\ p.op = "anadir" => p.vps \in Vps \cup {Nada}
      /\ p.op = "revisar" => p.objeto \in Llamada /\ alertas[p.objeto] # Nada
      /\ p.op = "quitar" => p.objeto \in Llamada /\ blanca[p.objeto] # Nada
  BY <1>2, Controladores
<1>6. CASE p.op = "anadir" /\ p.vps = Nada
  BY <1>4, <1>5, <1>6, EmpezarConserva DEF SobreVps, DelDuenio, DelAgente, DelUsuario, Hilo
<1>7. CASE ~(p.op = "anadir" /\ p.vps = Nada)
  BY <1>4, <1>5, <1>7, EmpezarConserva DEF SobreVps, DelDuenio, DelAgente, DelUsuario, Hilo
<1> QED BY <1>6, <1>7

\* The requests of the agents say whether their token was replaced.
LEMMA AgenteConserva ==
  ASSUME IInv, NEW h \in Hilo,
         (h \in Llamada /\ LlegaAgente(h)) \/ (h \in Agente /\ Latir(h))
  PROVE  IInv'
<1>1. PICK op \in DelAgente, v \in Vps, t \in Token : Empezar(h, DeAgente(op, v, t), "guardia")
  <2>1. CASE h \in Llamada /\ LlegaAgente(h)
    BY <2>1 DEF LlegaAgente, DelAgente, IInv, TypeOK, Existe, Fila
  <2>2. CASE h \in Agente /\ Latir(h)
    BY <2>2, GestionConstantes DEF Latir, DelAgente, IInv, TypeOK
  <2> QED BY <2>1, <2>2
<1> DEFINE p == DeAgente(op, v, t)
           b == t \in gastados[v]
<1>2. p \in Peticion /\ p.op = op /\ p.vps = v /\ (p.obsoleta => p.token \in gastados[v])
  <2>1. p = [SinPeticion EXCEPT !.op = op, !.vps = v, !.token = t, !.obsoleta = b]
    BY DEF DeAgente
  <2>2. b \in BOOLEAN /\ (b => t \in gastados[v])
    OBVIOUS
  <2> HIDE DEF b, p
  <2>3. p = [op |-> op, usuario |-> Nada, vps |-> v, ip |-> Nada, token |-> t, objeto |-> Nada,
             nivel |-> "SOLO_ALERTAR", obsoleta |-> b]
    BY <2>1 DEF SinPeticion
  <2> QED BY <2>2, <2>3 DEF Peticion, Nivel
<1>3. Empezar(h, p, "guardia")
  BY <1>1
<1> HIDE DEF p
<1> QED BY <1>2, <1>3, EmpezarConserva DEF DelAgente, DelUsuario, SobreVps

\* A step of no handler that leaves the other tables alone and changes no owner, address,
\* deletion or token of a row.
LEMMA EntornoConserva ==
  ASSUME IInv, UNCHANGED <<varsHilo, alertas, blanca, gastados>>, TipoTablas',
         \A v \in Vps : Existe(v) =>
           /\ filas'[v] # Nada /\ filas'[v].duenio = filas[v].duenio /\ filas'[v].ip = filas[v].ip
           /\ filas'[v].token = filas[v].token /\ filas'[v].borrado = filas[v].borrado,
         \A v \in Vps : filas'[v] # Nada => Existe(v),
         marcados' # Nada => \A v \in marcados' : Existe(v)
  PROVE  IInv'
<1>1. TipoHilos /\ Creado /\ Asentado /\ \A h \in Hilo : Conforme(h)
  BY Tipos DEF IInv
<1>2. /\ paso' = paso /\ llamada' = llamada /\ leido' = leido /\ salida' = salida /\ previas' = previas
      /\ alertas' = alertas /\ blanca' = blanca /\ gastados' = gastados
  BY DEF varsHilo
<1>3. Perdura
  BY <1>2 DEF Perdura
<1>4. \A h \in Hilo : Conforme(h)'
  BY <1>2, <1>3, QuietoConforme
<1>5. TipoHilos'
  BY <1>1, <1>2 DEF TipoHilos
<1>6. Creado'
  <2>1. \A c \in Llamada : alertas[c] # Nada =>
          paso[c] = "fin" /\ alertas[c].vps \in Vps /\ filas'[alertas[c].vps] # Nada
    BY <1>1 DEF Creado
  <2>2. marcados' # Nada => \A v \in marcados' : filas'[v] # Nada
    BY DEF TipoTablas
  <2> QED BY <1>1, <1>2, <2>1, <2>2 DEF Creado, Existe
<1>7. Asentado'
  <2>1. \A d \in Llamada : BajaHecha(d) => llamada[d].vps \in Vps
    BY <1>1 DEF Conforme, Completa, BajaHecha, SobreVps, DelDuenio, Hilo
  <2> QED BY <1>1, <1>2, <2>1 DEF Asentado, BajaHecha, Existe
<1>8. UnVpsActivoPorIp'
  BY <1>3, SinFilaNueva
<1> QED BY <1>4, <1>5, <1>6, <1>7, <1>8 DEF IInv, TypeOK, TipoTablas, TipoHilos

\* The job writes DESCONECTADO in the rows that it marked, which are still there.
LEMMA CronConserva == IInv /\ PasoCron => IInv'
<1> SUFFICES ASSUME IInv, PasoCron PROVE IInv'
  OBVIOUS
<1>1. TipoTablas /\ Creado
  BY Tipos DEF IInv
<1>2. UNCHANGED <<varsHilo, alertas, blanca, gastados>> /\ metricas' = metricas /\ credencial' = credencial
      /\ alertas' = alertas /\ blanca' = blanca /\ gastados' = gastados
  BY DEF PasoCron
<1>3. ASSUME NEW silenciosos \in SUBSET Vps, \A v \in silenciosos : Vigente(v),
             marcados' = silenciosos, filas' = filas
      PROVE  IInv'
  <2>1. TipoTablas'
    BY <1>1, <1>2, <1>3 DEF TipoTablas
  <2> QED BY <1>2, <1>3, <2>1, EntornoConserva DEF Existe, Vigente
<1>4. ASSUME marcados # Nada, marcados' = Nada,
             filas' = [v \in Vps |-> IF v \in marcados
                                     THEN [filas[v] EXCEPT !.estado = "DESCONECTADO"]
                                     ELSE filas[v]]
      PROVE  IInv'
  <2>1. ASSUME NEW v \in Vps, Existe(v)
        PROVE  /\ filas'[v] \in Fila
               /\ filas'[v].duenio = filas[v].duenio /\ filas'[v].ip = filas[v].ip
               /\ filas'[v].token = filas[v].token /\ filas'[v].borrado = filas[v].borrado
    <3>1. filas[v] \in Fila
      BY <1>1, <2>1 DEF TipoTablas, Existe
    <3>2. filas'[v] = filas[v] \/ filas'[v] = [filas[v] EXCEPT !.estado = "DESCONECTADO"]
      BY <1>4
    <3> QED BY <3>1, <3>2 DEF Fila, EstadoVps
  <2>2. \A v \in Vps : ~Existe(v) => filas'[v] = Nada
    BY <1>1, <1>4 DEF Creado, Existe
  <2>3. filas' \in [Vps -> Fila \cup {Nada}]
    BY <1>4, <2>1, <2>2
  <2>4. TipoTablas'
    BY <1>1, <1>2, <1>4, <2>3 DEF TipoTablas
  <2> QED BY <1>2, <1>4, <2>1, <2>2, <2>4, NadaNoEsDato, EntornoConserva
<1> QED BY <1>3, <1>4 DEF PasoCron, detectarVpsDesconectados

\* The passing of time, the job of the metrics, and the owner who configures his agent.
LEMMA RestoConserva ==
  ASSUME IInv, \/ \E v \in Vps : Envejecer(v)
               \/ aplicarRetencionMetricas
               \/ \E v \in Agente : Instalar(v)
               \/ UNCHANGED varsGestion
  PROVE  IInv'
<1>1. TipoTablas /\ Creado
  BY Tipos DEF IInv
<1>2. marcados # Nada => \A w \in marcados : Existe(w)
  BY <1>1 DEF Creado
<1>3. ASSUME NEW v \in Vps, Envejecer(v) PROVE IInv'
  <2> DEFINE f == [filas[v] EXCEPT !.pulso = "viejo"]
  <2>1. filas[v] \in Fila /\ filas[v] # Nada
    BY <1>1, <1>3 DEF Envejecer, Existe, TipoTablas
  <2>2. f \in Fila /\ f.duenio = filas[v].duenio /\ f.ip = filas[v].ip /\ f.token = filas[v].token
        /\ f.borrado = filas[v].borrado
    BY <2>1 DEF Fila
  <2>3. filas' = [filas EXCEPT ![v] = f]
    BY <1>1, <1>3 DEF Envejecer, TipoTablas
  <2>4. UNCHANGED <<varsHilo, alertas, blanca, gastados>> /\ UNCHANGED <<metricas, credencial, marcados>>
    BY <1>3 DEF Envejecer
  <2> HIDE DEF f
  <2>5. filas'[v] = f /\ f # Nada /\ \A w \in Vps \ {v} : filas'[w] = filas[w]
    BY <1>1, <2>2, <2>3, NadaNoEsDato DEF TipoTablas
  <2>6. TipoTablas'
    BY <1>1, <2>2, <2>3, <2>4 DEF TipoTablas
  <2> QED BY <1>2, <2>1, <2>2, <2>4, <2>5, <2>6, EntornoConserva DEF Existe
<1>4. CASE aplicarRetencionMetricas
  <2>1. UNCHANGED <<varsHilo, alertas, blanca, gastados>> /\ filas' = filas /\ marcados' = marcados /\ TipoTablas'
    BY <1>1, <1>4 DEF aplicarRetencionMetricas, TipoTablas
  <2> QED BY <1>2, <2>1, EntornoConserva DEF Existe
<1>5. ASSUME NEW v \in Agente, Instalar(v) PROVE IInv'
  <2>1. UNCHANGED <<varsHilo, alertas, blanca, gastados>> /\ filas' = filas /\ marcados' = marcados /\ TipoTablas'
    BY <1>1, <1>5 DEF Instalar, TipoTablas, varsTablas, Token
  <2> QED BY <1>2, <2>1, EntornoConserva DEF Existe
<1>6. CASE UNCHANGED varsGestion
  <2>1. UNCHANGED <<varsHilo, alertas, blanca, gastados>> /\ filas' = filas /\ marcados' = marcados /\ TipoTablas'
    BY <1>1, <1>6 DEF varsGestion, varsTablas, TipoTablas
  <2> QED BY <1>2, <2>1, EntornoConserva DEF Existe
<1> QED BY <1>3, <1>4, <1>5, <1>6
------------------------------------------------------------------------------
\* Every step keeps the invariant.
LEMMA Paso == IInv /\ [Next]_varsGestion => IInv'
<1> SUFFICES ASSUME IInv, [Next]_varsGestion PROVE IInv'
  OBVIOUS
<1>1. ASSUME NEW c \in Llamada, PasoLlamada(c) PROVE IInv'
  BY <1>1, CrearConserva, VpsConserva, RegenerarConserva, ListasConserva, GuardiaConserva,
     ReporteConserva DEF PasoLlamada, Hilo
<1>2. ASSUME NEW v \in Agente, PasoLatido(v) PROVE IInv'
  BY <1>2, GuardiaConserva, LatidoConserva DEF PasoLatido, Hilo
<1>3. ASSUME NEW c \in Llamada, LlegaUsuario(c) \/ LlegaAgente(c) PROVE IInv'
  BY <1>3, UsuarioConserva, AgenteConserva DEF Hilo
<1>4. ASSUME NEW v \in Agente, Latir(v) PROVE IInv'
  BY <1>4, AgenteConserva DEF Hilo
<1> QED BY <1>1, <1>2, <1>3, <1>4, CronConserva, RestoConserva DEF Next

\* The invariant holds in every reachable state, and with it the types.
THEOREM Invariante == Spec => []IInv
<1> QED BY Inicio, Paso, PTL DEF Spec

\* Rows, handlers and credentials keep their types, whatever requests and jobs interleave.
THEOREM TiposGestion == Spec => []TypeOK
<1>1. IInv => TypeOK
  BY DEF IInv
<1> QED BY Invariante, <1>1, PTL

\* VpsService.create: an owner never has two active VPS at one address, however many
\* creations and deletions overlap.
THEOREM UnVpsActivoPorIpSiempre == Spec => []UnVpsActivoPorIp
<1>1. IInv => UnVpsActivoPorIp
  BY DEF IInv
<1> QED BY Invariante, <1>1, PTL

\* VpsService.softDelete: a request that looks for the VPS and begins after its deletion was
\* answered is refused.
THEOREM TrasBorrarRechazadoSiempre == Spec => []TrasBorrarRechazado
<1>1. IInv => TrasBorrarRechazado
  BY DEF IInv, TypeOK, TrasBorrarRechazado, Conforme, Tardia, BajaHecha, NoPasa
<1> QED BY Invariante, <1>1, PTL

\* VpsService.regenerateToken and AgentTokenGuard: a replaced token is of no more use.
THEOREM TokenReemplazadoNoSirveSiempre == Spec => []TokenReemplazadoNoSirve
<1>1. IInv => TokenReemplazadoNoSirve
  BY DEF IInv, TokenReemplazadoNoSirve, Conforme, Completa, Obsoleta, NoPasa
<1> QED BY Invariante, <1>1, PTL
------------------------------------------------------------------------------
\* What a step of the request of a user changes is his.
SoloSuyo(c) ==
  LET u == llamada[c].usuario IN
  /\ \A v \in Vps : filas[v] # filas'[v] /\ filas[v] # Nada => filas[v].duenio = u
  /\ \A a \in Llamada : alertas[a] # alertas'[a] => filas[alertas[a].vps].duenio = u
  /\ \A d \in Llamada : blanca[d] # blanca'[d] /\ blanca[d] # Nada => blanca[d].usuario = u

\* Past its look-up, a handler still holds a row, an alert or an entry of its user.
LEMMA PasoSuyo ==
  ASSUME IInv, NEW c \in Llamada, PasoLlamada(c), llamada[c].op \in DelUsuario
  PROVE  SoloSuyo(c)
<1> DEFINE v == llamada[c].vps
           o == llamada[c].objeto
           u == llamada[c].usuario
<1>1. TipoTablas /\ Creado /\ Encontrada(c)
  BY Tipos DEF IInv, Conforme, Hilo
<1>2. CASE SinTablas
  BY <1>2 DEF SinTablas, varsTablas, SoloSuyo
<1>3. CASE create(c)
  BY <1>1, <1>3 DEF create, SoloFilas, SinTablas, varsTablas, SoloSuyo, Existe, TipoTablas
<1>4. ASSUME paso[c] = "escribir", llamada[c].op \in DelDuenio, SoloFilas,
             \A w \in Vps \ {v} : filas'[w] = filas[w]
      PROVE  SoloSuyo(c)
  BY <1>1, <1>4 DEF Encontrada, SoloFilas, SoloSuyo
<1>5. CASE softDelete(c) \/ update(c) \/ regenerateToken(c)
  <2>1. CASE En(c, "borrar", "escribir") \/ En(c, "configurar", "escribir") \/ En(c, "regenerar", "escribir")
    <3>1. SoloFilas /\ \A w \in Vps \ {v} : filas'[w] = filas[w]
      BY <1>1, <1>5, <2>1 DEF softDelete, update, regenerateToken, Buscar, En, TipoTablas
    <3> QED BY <1>4, <2>1, <3>1 DEF En, DelDuenio
  <2> QED BY <1>2, <1>5, <2>1 DEF softDelete, update, regenerateToken, Buscar
<1>6. CASE updateEstado(c) /\ paso[c] = "escribir"
  BY <1>1, <1>6 DEF updateEstado, En, Encontrada, SoloSuyo, TipoTablas
<1>7. CASE createEntrada(c) /\ paso[c] = "escribir"
  BY <1>1, <1>7 DEF createEntrada, Buscar, En, Creado, SoloSuyo, TipoTablas
<1>8. CASE remove(c) /\ paso[c] = "escribir"
  BY <1>1, <1>8 DEF remove, En, Encontrada, SoloSuyo, TipoTablas
<1>9. CASE createMetrica(c) \/ createAlerta(c)
  BY <1>9 DEF createMetrica, createAlerta, En, DelUsuario, SoloSuyo
<1> QED BY <1>2, <1>3, <1>5, <1>6, <1>7, <1>8, <1>9
           DEF PasoLlamada, findOneByUser, getMetricas, updateEstado, createEntrada, findAll, remove,
               Buscar, En, canActivate, SoloSuyo

\* A handler moves nobody else.
LEMMA UnSoloHilo ==
  ASSUME NEW h, PasoLlamada(h) \/ PasoLatido(h)
  PROVE  \E donde : paso' = [paso EXCEPT ![h] = donde]
<1>1. (\E donde : Ir(h, donde)) \/ (\E s : Acabar(h, s))
  <2>1. CASE create(h) \/ findOneByUser(h) \/ softDelete(h) \/ regenerateToken(h) \/ getMetricas(h)
    BY <2>1 DEF create, findOneByUser, softDelete, regenerateToken, getMetricas, Buscar, Leer, Seguir
  <2>2. CASE update(h) \/ updateEstado(h) \/ createEntrada(h) \/ findAll(h) \/ remove(h)
    BY <2>2 DEF update, updateEstado, createEntrada, findAll, remove, Buscar, Leer, Seguir
  <2>3. CASE canActivate(h) \/ createMetrica(h) \/ createAlerta(h) \/ heartbeat(h)
    BY <2>3 DEF canActivate, createMetrica, createAlerta, heartbeat, Leer
  <2> QED BY <2>1, <2>2, <2>3 DEF PasoLlamada, PasoLatido
<1> QED BY <1>1 DEF Ir, Acabar

\* The services of the user: no request changes what is another user's, though every one
\* looks a row up with its owner and writes it later by its id.
THEOREM PropiedadRespetadaSiempre == Spec => PropiedadRespetada
<1>1. ASSUME IInv, [Next]_varsGestion, NEW c \in Llamada,
             paso[c] # "libre", paso'[c] # paso[c], llamada[c].op \in DelUsuario
      PROVE  SoloSuyo(c)
  <2>1. c \in Hilo /\ TipoHilos
    BY <1>1, Tipos DEF Hilo, IInv
  <2>2. ASSUME NEW h \in Hilo, NEW p, NEW primero, Empezar(h, p, primero) PROVE FALSE
    <3>1. paso' = [paso EXCEPT ![h] = primero] /\ (h \notin Agente => paso[h] = "libre")
      BY <2>2 DEF Empezar
    <3>2. h = c
      BY <1>1, <2>1, <3>1 DEF TipoHilos
    <3> QED BY <1>1, <3>1, <3>2, GestionConstantes
  <2>3. ASSUME NEW h \in Hilo, PasoLlamada(h) \/ PasoLatido(h) PROVE h = c
    BY <1>1, <2>1, <2>3, UnSoloHilo DEF TipoHilos
  <2>4. ~ \E v \in Agente : PasoLatido(v)
    BY <2>3, GestionConstantes DEF Hilo
  <2>5. ~ (UNCHANGED paso)
    BY <1>1
  <2>6. ~ ((\E v \in Vps : Envejecer(v)) \/ PasoCron \/ aplicarRetencionMetricas
           \/ (\E v \in Agente : Instalar(v)) \/ UNCHANGED varsGestion)
    BY <2>5 DEF Envejecer, PasoCron, aplicarRetencionMetricas, Instalar, varsGestion, varsHilo
  <2>7. ~ \E d \in Llamada : LlegaUsuario(d) \/ LlegaAgente(d)
    BY <2>2 DEF LlegaUsuario, LlegaAgente, Hilo
  <2>8. ~ \E v \in Agente : Latir(v)
    BY <2>2 DEF Latir, Hilo
  <2> QED BY <1>1, <2>3, <2>4, <2>6, <2>7, <2>8, PasoSuyo DEF Next, Hilo
<1>2. IInv /\ [Next]_varsGestion =>
        [\A c \in Llamada :
           paso[c] # "libre" /\ paso'[c] # paso[c] /\ llamada[c].op \in DelUsuario =>
             LET u == llamada[c].usuario IN
             /\ \A v \in Vps : filas[v] # filas'[v] /\ filas[v] # Nada => filas[v].duenio = u
             /\ \A a \in Llamada : alertas[a] # alertas'[a] => filas[alertas[a].vps].duenio = u
             /\ \A d \in Llamada : blanca[d] # blanca'[d] /\ blanca[d] # Nada
                                   => blanca[d].usuario = u]_varsGestion
  BY <1>1 DEF SoloSuyo
<1> QED BY Invariante, <1>2, PTL DEF Spec, PropiedadRespetada
================================================================================
