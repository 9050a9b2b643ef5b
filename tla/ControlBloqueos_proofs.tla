----------------------- MODULE ControlBloqueos_proofs -----------------------
(***************************************************************************)
(* The whole path of a block with the agent of this repository, for any    *)
(* number of VPS, connections and calls and any size of the memory of      *)
(* processed ids; and what the memory of the agent achieves when any order *)
(* may come any number of times: the client by itself, which this path     *)
(* implements.                                                             *)
(***************************************************************************)
EXTENDS ControlBloqueos, AgentGateway_proofs, FiniteSetTheorems

\* The arguments of a call, and the row that an unblock is for.
Argumentos ==
  \A p \in Peticion :
    /\ paso[p] \in {"libre", "propiedad", "blanca", "existente", "buscar", "emitir"}
         => clave[p] = Nada
    /\ llamada[p].op = "bloqueo" /\ paso[p] # "libre" =>
         llamada[p].vps \in Vps /\ llamada[p].ip \in Ip
    /\ llamada[p].op = "desbloqueo" => llamada[p].objetivo \in Clave
    /\ llamada[p].op = "desbloqueo" /\ (paso[p] = "emitir" \/ clave[p] # Nada) =>
         filas[llamada[p].objetivo] # Nada
    /\ llamada[p].op = "desbloqueo" /\ clave[p] # Nada => clave[p] = llamada[p].objetivo
    /\ paso[p] \in {"propiedad", "blanca", "existente"} => llamada[p].op = "bloqueo"

\* An open connection is one of a VPS.
Cabeceras == \A s \in Socket : enlace[s] # "nuevo" => cabecera[s] \in Vps

\* A thread is of a call that was made, and its order complete when it is carried out.
Hilos ==
  \A t \in Peticion :
    /\ tarea[t] # "libre" => encargo[t] \in Agente!Encargo /\ promesa[t] # "libre"
    /\ tarea[t] = "operar" => encargo[t].ip # Nada

Servicio == TypeOKServicio /\ Argumentos
Control == Agente!TypeOKCliente /\ Cabeceras /\ Hilos

IInvControl == IInv /\ Servicio /\ Control
------------------------------------------------------------------------------
\* The empty server and the idle agents satisfy the invariant.
LEMMA InicioControl == Init => IInvControl
<1> SUFFICES ASSUME Init PROVE IInvControl
  OBVIOUS
<1> USE GatewayConstantes, BloqueosConstantes DEF Init, InitBloqueos
<1>1. IInv
  BY Inicio
<1>2. Servicio
  BY DEF Servicio, TypeOKServicio, Argumentos, InitServicio, InitGateway, SinLlamada, Llamada,
         Salida
<1>3. Control
  BY DEF Control, Agente!TypeOKCliente, Cabeceras, Hilos, Agente!InitCliente, InitGateway
<1> QED BY <1>1, <1>2, <1>3 DEF IInvControl

\* Where the server has an agent in mind: no promise becomes free again, and an open
\* connection keeps its header.
ServidorSuave ==
  /\ \A p \in Peticion : promesa[p] # "libre" => promesa'[p] # "libre"
  /\ \A s \in Socket : enlace'[s] # "nuevo" =>
       cabecera'[s] \in Vps \/ (enlace[s] # "nuevo" /\ cabecera'[s] = cabecera[s])

\* A step of the server leaves what is said of the agents true.
LEMMA AgenteIntacto ==
  ASSUME Control, UNCHANGED varsAgente, ServidorSuave
  PROVE  Control'
<1> USE DEF varsAgente
<1>1. Agente!TypeOKCliente'
  BY DEF Control, Agente!TypeOKCliente
<1>2. Cabeceras'
  BY DEF Control, Cabeceras, ServidorSuave
<1>3. Hilos'
  BY DEF Control, Hilos, ServidorSuave
<1> QED BY <1>1, <1>2, <1>3 DEF Control

\* A step of the service that leaves the gateway alone.
LEMMA PasarelaIntacta ==
  ASSUME IInv, UNCHANGED varsGateway
  PROVE  IInv' /\ ServidorSuave
<1>1. IInv'
  BY Induccion
<1>2. UNCHANGED <<promesa, enlace, cabecera>>
  BY DEF varsGateway, varsConexion, varsOrden
<1> QED BY <1>1, <1>2 DEF ServidorSuave

\* The steps of the connections, of the orders and the end of the process.
LEMMA PasarelaConserva ==
  ASSUME IInv, PasoConexion \/ PasoOrden \/ ReiniciarServidor
  PROVE  IInv' /\ ServidorSuave /\ UNCHANGED clave
<1>1. IInv'
  BY Induccion DEF NextGateway
<1>2. CASE PasoConexion
  <2>1. UNCHANGED <<promesa, clave>>
    BY <1>2 DEF PasoConexion, Conectar, ConsultarVps, CompararToken, Cortar, handleDisconnect,
                SoftDelete, varsOrden
  <2>2. ASSUME NEW x \in Socket, NEW v \in Vps, Conectar(x, v) PROVE ServidorSuave
    BY <2>1, <2>2 DEF Conectar, ServidorSuave, IInv, TypeOKGateway
  <2>3. ASSUME NEW x \in Socket,
               ConsultarVps(x) \/ CompararToken(x) \/ Cortar(x) \/ handleDisconnect(x)
        PROVE  ServidorSuave
    <3>1. UNCHANGED cabecera
      BY <2>3 DEF ConsultarVps, CompararToken, Cortar, handleDisconnect
    <3>2. ASSUME NEW y \in Socket, enlace'[y] # "nuevo" PROVE enlace[y] # "nuevo"
      BY <2>3, <3>2 DEF ConsultarVps, CompararToken, Cortar, handleDisconnect, Cerrar, IInv,
                        TypeOKGateway, ConexionAbierta
    <3> QED BY <2>1, <3>1, <3>2 DEF ServidorSuave
  <2>4. ASSUME NEW v \in Vps, SoftDelete(v) PROVE ServidorSuave
    BY <2>1, <2>4 DEF SoftDelete, varsConexion, ServidorSuave
  <2> QED BY <1>2, <2>1, <1>1, <2>2, <2>3, <2>4 DEF PasoConexion
<1>3. CASE PasoOrden
  <2>1. UNCHANGED <<enlace, cabecera, clave>>
    BY <1>3 DEF PasoOrden, VencerPlazo, resolverPendiente, varsConexion
  <2>2. \A p \in Peticion : promesa[p] # "libre" => promesa'[p] # "libre"
    BY <1>3 DEF PasoOrden, VencerPlazo, resolverPendiente, Resolver, IInv, TypeOKGateway
  <2> QED BY <1>1, <2>1, <2>2 DEF ServidorSuave
<1>4. CASE ReiniciarServidor
  BY <1>1, <1>4 DEF ReiniciarServidor, ServidorSuave
<1> QED BY <1>2, <1>3, <1>4

\* An order is given.
LEMMA EnviarSuave ==
  ASSUME IInv, NEW p \in Peticion, NEW v \in Vps, NEW k \in Clave, NEW e \in Evento,
         enviarOrden(p, v, k, e)
  PROVE  /\ IInv' /\ ServidorSuave
         /\ clave' = [clave EXCEPT ![p] = k]
<1>1. IInv'
  BY EnviarConserva
<1>2. ServidorSuave
  BY DEF enviarOrden, varsConexion, ServidorSuave, IInv, TypeOKGateway
<1> QED BY <1>1, <1>2 DEF enviarOrden

\* A request comes in.
LEMMA LlegadaControl ==
  ASSUME IInv, Servicio, Llegada
  PROVE  IInv' /\ Servicio' /\ ServidorSuave
<1> USE BloqueosConstantes, GatewayConstantes
<1>1. UNCHANGED varsGateway
  BY DEF Llegada, LlamarBloqueo, LlamarDesbloqueo, Comenzar
<1>2. IInv' /\ ServidorSuave /\ UNCHANGED clave
  BY <1>1, PasarelaIntacta DEF varsGateway, varsOrden
<1>3. ASSUME NEW p \in Peticion, NEW l \in Llamada, NEW n \in {"propiedad", "blanca", "buscar"},
             Comenzar(p, l, n), cubiertas' \subseteq Peticion,
             \/ l.op = "bloqueo" /\ l.vps \in Vps /\ l.ip \in Ip
             \/ l.op = "desbloqueo" /\ l.objetivo \in Clave /\ n = "buscar"
      PROVE  Servicio'
  <2>1. TypeOKServicio'
    BY <1>3 DEF Comenzar, Servicio, TypeOKServicio
  <2>2. Argumentos'
    BY <1>2, <1>3 DEF Comenzar, Servicio, TypeOKServicio, Argumentos
  <2> QED BY <2>1, <2>2 DEF Servicio
<1>4. ASSUME NEW p \in Peticion, NEW v \in Vps, NEW ip \in Ip, NEW u \in Usuario \cup {Nada},
             NEW largo \in BOOLEAN, LlamarBloqueo(p, v, ip, u, largo)
      PROVE  Servicio'
  <2> DEFINE l == [SinLlamada EXCEPT !.vps = v, !.ip = ip, !.usuario = u, !.largo = largo]
             n == IF u = Nada THEN "blanca" ELSE "propiedad"
  <2>1. l \in Llamada /\ l.op = "bloqueo" /\ l.vps = v /\ l.ip = ip
    BY DEF SinLlamada, Llamada
  <2>2. Comenzar(p, l, n) /\ n \in {"propiedad", "blanca", "buscar"}
    BY <1>4 DEF LlamarBloqueo
  <2>3. cubiertas' \subseteq Peticion
    BY <1>4 DEF LlamarBloqueo, Servicio, TypeOKServicio
  <2> HIDE DEF l, n
  <2> QED BY <1>3, <2>1, <2>2, <2>3
<1>5. ASSUME NEW p \in Peticion, NEW k \in Clave, NEW u \in Usuario, LlamarDesbloqueo(p, k, u)
      PROVE  Servicio'
  <2> DEFINE l == [SinLlamada EXCEPT !.op = "desbloqueo", !.objetivo = k, !.usuario = u]
  <2>1. l \in Llamada /\ l.op = "desbloqueo" /\ l.objetivo = k
    BY DEF SinLlamada, Llamada
  <2>2. Comenzar(p, l, "buscar") /\ cubiertas' \subseteq Peticion
    BY <1>5 DEF LlamarDesbloqueo, Servicio, TypeOKServicio
  <2> HIDE DEF l
  <2> QED BY <1>3, <2>1, <2>2
<1> QED BY <1>2, <1>4, <1>5 DEF Llegada

\* A step of a call.  The row that is written is of the address of the block, or is
\* there already.
LEMMA LlamadaControl ==
  ASSUME IInv, Servicio, NEW p \in Peticion, PasoLlamada(p)
  PROVE  IInv' /\ Servicio' /\ ServidorSuave
<1> USE GatewayConstantes, NadaNoEsFila
<1>1. /\ paso \in [Peticion -> {"libre", "propiedad", "blanca", "existente", "buscar",
                                "emitir", "respuesta", "auditar", "fin", "caida"}]
      /\ llamada \in [Peticion -> Llamada]
      /\ salida \in [Peticion -> Salida]
      /\ filas \in [Clave -> Fila \cup {Nada}]
      /\ auditoria \subseteq [peticion : Peticion, accion : Accion]
      /\ clave \in [Peticion -> Clave \cup {Nada}]
  BY DEF Servicio, TypeOKServicio, IInv, TypeOKGateway
<1>2. ASSUME UNCHANGED <<varsGateway, filas>>, NEW n, NEW x \in Salida,
             Ir(p, n), paso[p] # "libre",
             n \in {"blanca", "existente", "emitir", "auditar", "fin"},
             n \in {"blanca", "existente"} => llamada[p].op = "bloqueo",
             n = "emitir" =>
               clave[p] = Nada /\ (llamada[p].op = "desbloqueo" =>
                                     filas[llamada[p].objetivo] # Nada),
             n \in {"blanca", "existente"} => clave[p] = Nada,
             salida' = [salida EXCEPT ![p] = x] \/ UNCHANGED salida,
             \/ UNCHANGED auditoria
             \/ \E a \in Accion : auditoria' = auditoria \cup {[peticion |-> p, accion |-> a]}
      PROVE  IInv' /\ Servicio' /\ ServidorSuave
  <2>1. IInv' /\ ServidorSuave /\ UNCHANGED clave
    BY <1>2, PasarelaIntacta DEF varsGateway, varsOrden
  <2>2. TypeOKServicio'
    <3>1. salida' \in [Peticion -> Salida]
      BY <1>1, <1>2
    <3>2. auditoria' \subseteq [peticion : Peticion, accion : Accion]
      BY <1>1, <1>2
    <3>3. /\ paso' \in [Peticion -> {"libre", "propiedad", "blanca", "existente", "buscar",
                                     "emitir", "respuesta", "auditar", "fin", "caida"}]
          /\ UNCHANGED <<llamada, filas, blanca, previas, cubiertas>>
      BY <1>1, <1>2 DEF Ir
    <3> QED BY <3>1, <3>2, <3>3 DEF Servicio, TypeOKServicio
  <2>3. Argumentos'
    <3>1. paso' = [paso EXCEPT ![p] = n] /\ UNCHANGED <<llamada, filas>>
      BY <1>2 DEF Ir
    <3> QED BY <1>1, <1>2, <2>1, <3>1 DEF Servicio, Argumentos
  <2> QED BY <2>1, <2>2, <2>3 DEF Servicio
<1>3. ASSUME UNCHANGED <<varsGateway, salida, auditoria>>, Ir(p, "auditar"), paso[p] = "respuesta",
             NEW k \in Clave, NEW f \in Fila, filas' = [filas EXCEPT ![k] = f]
      PROVE  IInv' /\ Servicio' /\ ServidorSuave
  <2>1. IInv' /\ ServidorSuave /\ UNCHANGED clave
    BY <1>3, PasarelaIntacta DEF varsGateway, varsOrden
  <2>2. TypeOKServicio'
    BY <1>1, <1>3 DEF Ir, Servicio, TypeOKServicio
  <2>3. Argumentos'
    BY <1>1, <1>3, <2>1 DEF Ir, Servicio, Argumentos
  <2> QED BY <2>1, <2>2, <2>3 DEF Servicio
<1>4. ASSUME NEW v \in Vps, NEW k \in Clave, NEW e \in Evento, enviarOrden(p, v, k, e),
             Ir(p, "respuesta"), paso[p] = "emitir", UNCHANGED <<salida, filas, auditoria>>,
             llamada[p].op = "desbloqueo" => k = llamada[p].objetivo
      PROVE  IInv' /\ Servicio' /\ ServidorSuave
  <2>1. /\ IInv' /\ ServidorSuave
        /\ clave' = [clave EXCEPT ![p] = k]
    BY <1>4, EnviarSuave
  <2>2. TypeOKServicio'
    BY <1>1, <1>4 DEF Ir, Servicio, TypeOKServicio
  <2>3. Argumentos'
    BY <1>1, <1>4, <2>1 DEF Ir, Servicio, Argumentos
  <2> QED BY <2>1, <2>2, <2>3 DEF Servicio
<1>5. /\ paso[p] # "libre" /\ llamada[p].op = "bloqueo" =>
           llamada[p].vps \in Vps /\ llamada[p].ip \in Ip
      /\ paso[p] \in {"propiedad", "blanca", "existente"} => llamada[p].op = "bloqueo"
      /\ paso[p] \in {"propiedad", "blanca", "existente", "buscar"} => clave[p] = Nada
      /\ llamada[p].op = "desbloqueo" => llamada[p].objetivo \in Clave
      /\ llamada[p].op \in {"bloqueo", "desbloqueo"}
  BY <1>1 DEF Servicio, Argumentos, Llamada
<1>6. CASE ComprobarPropiedad(p)
  BY <1>2, <1>5, <1>6 DEF ComprobarPropiedad, Acabar, Ir, Salida
<1>7. CASE ConsultarBlanca(p)
  BY <1>2, <1>5, <1>7 DEF ConsultarBlanca, Acabar, Ir, Registrar, Salida, Accion
<1>8. CASE ConsultarExistente(p)
  BY <1>2, <1>5, <1>8 DEF ConsultarExistente, Acabar, Ir, Salida
<1>9. ASSUME NEW k \in Clave, EmitirBloqueo(p, k) PROVE IInv' /\ Servicio' /\ ServidorSuave
  BY <1>4, <1>5, <1>9 DEF EmitirBloqueo, Evento
<1>10. CASE CrearFila(p)
  <2>1. CASE llamada[p].largo /\ respuesta[p] \in {"error", Nada}
    BY <1>2, <1>10, <2>1 DEF CrearFila, Acabar, Salida
  <2>2. CASE ~(llamada[p].largo /\ respuesta[p] \in {"error", Nada})
    <3>1. clave[p] \in Clave
      BY <1>1, <1>10 DEF CrearFila, IInv, InvOrden, ClaveDeLlamada
    <3>2. EstadoCreado(p) \in {"BLOQUEADO", "DESBLOQUEADO", "FALLIDO"}
      BY DEF EstadoCreado, estadoFinal
    <3> DEFINE f == [vps |-> llamada[p].vps, ip |-> llamada[p].ip, estado |-> EstadoCreado(p)]
    <3>3. f \in Fila
      BY <1>5, <1>10, <3>2 DEF CrearFila, Fila
    <3> QED BY <1>3, <1>10, <2>2, <3>1, <3>3 DEF CrearFila
  <2> QED BY <2>1, <2>2
<1>11. CASE AuditarBloqueo(p)
  BY <1>2, <1>5, <1>11 DEF AuditarBloqueo, Acabar, Registrar, Salida, Accion
<1>12. CASE BuscarBloqueo(p)
  BY <1>2, <1>5, <1>12 DEF BuscarBloqueo, Acabar, Ir, Salida
<1>13. CASE EmitirDesbloqueo(p)
  <2>1. filas[llamada[p].objetivo] \in Fila /\ llamada[p].objetivo \in Clave
    BY <1>1, <1>5, <1>13 DEF EmitirDesbloqueo, Servicio, Argumentos
  <2>2. filas[llamada[p].objetivo].vps \in Vps
    BY <2>1 DEF Fila
  <2> QED BY <1>4, <1>13, <2>1, <2>2 DEF EmitirDesbloqueo, Evento
<1>14. CASE ConcluirDesbloqueo(p)
  <2>1. CASE respuesta[p] \in {"desbloqueada", "no_existia"}
    <3> DEFINE k == llamada[p].objetivo
               f == [filas[k] EXCEPT !.estado = "DESBLOQUEADO"]
    <3>1. clave[p] # Nada
      BY <1>14 DEF ConcluirDesbloqueo, IInv, InvOrden, ClaveDeLlamada
    <3>2. k \in Clave /\ filas[k] \in Fila
      BY <1>1, <1>5, <1>14, <3>1 DEF ConcluirDesbloqueo, Servicio, Argumentos
    <3>3. f \in Fila
      BY <3>2 DEF Fila
    <3>4. filas' = [filas EXCEPT ![k] = f]
      BY <1>1, <1>14, <2>1, <3>2 DEF ConcluirDesbloqueo
    <3> HIDE DEF k, f
    <3> QED BY <1>3, <1>14, <3>2, <3>3, <3>4 DEF ConcluirDesbloqueo
  <2>2. CASE respuesta[p] \notin {"desbloqueada", "no_existia"}
    BY <1>2, <1>14, <2>2 DEF ConcluirDesbloqueo, Ir, Salida
  <2> QED BY <2>1, <2>2
<1>15. CASE AuditarDesbloqueo(p)
  BY <1>2, <1>5, <1>15 DEF AuditarDesbloqueo, Acabar, Registrar, Salida, Accion
<1> QED BY <1>6, <1>7, <1>8, <1>9, <1>10, <1>11, <1>12, <1>13, <1>14, <1>15 DEF PasoLlamada

\* Every step of the server keeps the invariant.
LEMMA ServidorConserva ==
  ASSUME IInvControl, PasoServidor, UNCHANGED varsAgente
  PROVE  IInvControl'
<1> USE DEF IInvControl
<1>1. CASE Llegada
  BY <1>1, LlegadaControl, AgenteIntacto
<1>2. CASE \E p \in Peticion : PasoLlamada(p)
  BY <1>2, LlamadaControl, AgenteIntacto
<1>3. CASE \E e \in Entrada : AgregarBlanca(e) \/ QuitarBlanca(e)
  <2>1. UNCHANGED varsGateway
    BY <1>3 DEF AgregarBlanca, QuitarBlanca
  <2>2. IInv' /\ ServidorSuave /\ UNCHANGED clave
    BY <2>1, PasarelaIntacta DEF varsGateway, varsOrden
  <2>3. Servicio'
    BY <1>3, <2>2 DEF AgregarBlanca, QuitarBlanca, Servicio, TypeOKServicio, Argumentos
  <2> QED BY <2>2, <2>3, AgenteIntacto
<1>4. CASE (PasoConexion \/ PasoOrden) /\ UNCHANGED varsServicio
  <2>1. IInv' /\ ServidorSuave /\ UNCHANGED clave
    BY <1>4, PasarelaConserva
  <2>2. Servicio'
    BY <1>4, <2>1 DEF varsServicio, Servicio, TypeOKServicio, Argumentos
  <2> QED BY <2>1, <2>2, AgenteIntacto
<1>5. CASE Reiniciar
  <2>1. IInv' /\ ServidorSuave /\ UNCHANGED clave
    BY <1>5, PasarelaConserva DEF Reiniciar
  <2>2. Servicio'
    BY <1>5, <2>1 DEF Reiniciar, Servicio, TypeOKServicio, Argumentos
  <2> QED BY <2>1, <2>2, AgenteIntacto
<1> QED BY <1>1, <1>2, <1>3, <1>4, <1>5 DEF PasoServidor

\* What arrives as an order is a complete one, of a call that was made.
LEMMA CargaCompleta ==
  ASSUME IInvControl, NEW m \in ida, AgenteRecibe(m)
  PROVE  /\ m.peticion \in Peticion /\ promesa[m.peticion] # "libre"
         /\ Carga(m.peticion, cabecera[m.socket]) \in Agente!Encargo
<1> USE GatewayConstantes
<1> DEFINE t == m.peticion
           e == Carga(t, cabecera[m.socket])
<1>1. t \in Peticion /\ promesa[t] # "libre" /\ clave[t] \in Clave
  BY DEF IInvControl, IInv, TypeOKGateway, InvOrden, MensajeDeLlamada, ClaveDeLlamada, Ida
<1>2. cabecera[m.socket] \in Vps
  BY DEF AgenteRecibe, IInvControl, IInv, TypeOKGateway, Ida, Control, Cabeceras
<1>3. (IF llamada[t].op = "bloqueo" THEN llamada[t].ip ELSE filas[clave[t]].ip) \in Ip
  <2>1. /\ llamada[t].op \in {"bloqueo", "desbloqueo"}
        /\ filas \in [Clave -> Fila \cup {Nada}]
    BY <1>1 DEF IInvControl, Servicio, TypeOKServicio, Llamada
  <2>2. CASE llamada[t].op = "bloqueo"
    BY <1>1, <2>2 DEF IInvControl, Servicio, Argumentos
  <2>3. CASE llamada[t].op = "desbloqueo"
    <3>1. filas[clave[t]] \in Fila
      BY <1>1, <2>1, <2>3 DEF IInvControl, Servicio, Argumentos
    <3> QED BY <2>3, <3>1 DEF Fila
  <2> QED BY <2>1, <2>2, <2>3
<1>4. e \in Agente!Encargo
  <2>1. tipo[t] \in Agente!Evento
    BY <1>1 DEF IInvControl, IInv, TypeOKGateway, Evento, Agente!Evento
  <2> QED BY <1>1, <1>2, <1>3, <2>1 DEF Carga, Agente!Encargo
<1> QED BY <1>1, <1>4

\* An order reaches the agent: its thread starts with the order as it was given.
LEMMA RecibeConserva ==
  ASSUME IInvControl, NEW m \in ida, AgenteRecibe(m)
  PROVE  IInvControl'
<1> USE GatewayConstantes
<1> DEFINE t == m.peticion
           e == Carga(t, cabecera[m.socket])
<1>1. /\ UNCHANGED <<varsOrden, varsConexion, vivas, vuelta, varsServicio>>
      /\ ida' \subseteq ida /\ vuelta' \subseteq vuelta
      /\ Agente!Recibir(t, e)
  BY DEF AgenteRecibe
<1>2. IInv'
  <2>1. TypeOKGateway'
    BY <1>1 DEF IInvControl, IInv, TypeOKGateway, varsOrden, varsConexion
  <2> QED BY <1>1, <2>1, OrdenIntacta, ConexionIntacta DEF IInvControl, IInv
<1>3. Servicio'
  BY <1>1 DEF IInvControl, Servicio, TypeOKServicio, Argumentos, varsServicio, varsOrden
<1>4. t \in Peticion /\ promesa[t] # "libre" /\ e \in Agente!Encargo
  BY CargaCompleta
<1> HIDE DEF e, t
<1>8. /\ tarea[t] = "libre"
      /\ tarea' = [tarea EXCEPT ![t] = "llegada"]
      /\ encargo' = [encargo EXCEPT ![t] = e]
      /\ UNCHANGED <<resultado, procesados, vida, admitida, firewall>>
  BY <1>1 DEF Agente!Recibir
<1>9. Agente!TypeOKCliente'
  BY <1>4, <1>8 DEF IInvControl, Control, Agente!TypeOKCliente
<1>10. Cabeceras'
  BY <1>1 DEF IInvControl, Control, Cabeceras, varsConexion
<1>11. Hilos'
  <2>1. UNCHANGED promesa
    BY <1>1 DEF varsOrden
  <2> QED BY <1>4, <1>8, <2>1 DEF IInvControl, Control, Hilos, Agente!TypeOKCliente
<1> QED BY <1>2, <1>3, <1>9, <1>10, <1>11 DEF IInvControl, Control

\* A thread asks whether its order was processed: it is admitted, or reports that.
LEMMA AdmiteConserva ==
  ASSUME IInvControl, NEW t \in Peticion, Agente!ya_procesado(t), UNCHANGED varsBloqueos
  PROVE  Control'
<1> USE GatewayConstantes
<1> DEFINE a == encargo[t].agente
           memoria == procesados[a] \cup {encargo[t].id}
<1>1. UNCHANGED <<promesa, enlace, cabecera, encargo, vida, firewall>>
  BY DEF Agente!ya_procesado, varsBloqueos, varsGateway, varsConexion, varsOrden
<1>2. /\ tarea[t] = "llegada" /\ encargo[t] \in Agente!Encargo
      /\ encargo[t].id # Nada /\ encargo[t].ip # Nada
  BY DEF Agente!ya_procesado, IInvControl, Control, Hilos
<1>3. a \in Vps /\ encargo[t].id \in Clave
  BY <1>2 DEF Agente!Encargo
<1>4. /\ tarea' = [tarea EXCEPT ![t] = "responder"] \/ tarea' = [tarea EXCEPT ![t] = "operar"]
      /\ resultado' = [resultado EXCEPT ![t] = "repetida"] \/ UNCHANGED resultado
      /\ admitida' = [admitida EXCEPT ![t] = vida[a]] \/ UNCHANGED admitida
      /\ \/ UNCHANGED procesados
         \/ procesados' = [procesados EXCEPT ![a] = {}]
         \/ procesados' = [procesados EXCEPT ![a] = memoria]
  BY DEF Agente!ya_procesado, Agente!Informar
<1>5. Agente!TypeOKCliente'
  <2>1. Agente!TypeOKCliente
    BY DEF IInvControl, Control
  <2>2. procesados' \in [Vps -> SUBSET Clave]
    BY <1>3, <1>4, <2>1 DEF Agente!TypeOKCliente
  <2>3. admitida' \in [Peticion -> Nat \cup {Nada}]
    BY <1>3, <1>4, <2>1 DEF Agente!TypeOKCliente
  <2>4. resultado' \in [Peticion -> Agente!Resultado \cup {Nada}]
    BY <1>4, <2>1 DEF Agente!TypeOKCliente, Agente!Resultado
  <2> QED BY <1>1, <1>4, <2>1, <2>2, <2>3, <2>4 DEF Agente!TypeOKCliente
<1>6. Cabeceras'
  BY <1>1 DEF IInvControl, Control, Cabeceras
<1>7. Hilos'
  BY <1>1, <1>2, <1>4 DEF IInvControl, Control, Hilos, Agente!TypeOKCliente
<1> QED BY <1>5, <1>6, <1>7 DEF Control

\* The other steps of a thread, and its answer, admit nobody.
LEMMA HiloConserva ==
  ASSUME IInvControl, NEW t \in Peticion, AgenteTrabaja(t) \/ AgenteResponde(t)
  PROVE  IInvControl'
<1> USE GatewayConstantes
<1>1. /\ UNCHANGED <<vivas, varsConexion, varsOrden, ida, varsServicio>>
      /\ \/ UNCHANGED vuelta
         \/ /\ tarea[t] = "responder"
            /\ \E s \in Socket :
                 vuelta' = vuelta \cup {[socket |-> s, peticion |-> t, estado |-> "undefined"]}
  BY DEF AgenteTrabaja, AgenteResponde, varsBloqueos, varsGateway, varsRed, Agente!responder
<1>2. IInv'
  <2>1. TypeOKGateway'
    BY <1>1 DEF IInvControl, IInv, TypeOKGateway, varsOrden, varsConexion, Vuelta,
                EstadoRespuesta
  <2>2. MensajeDeLlamada'
    BY <1>1 DEF IInvControl, IInv, InvOrden, MensajeDeLlamada, varsOrden, Control, Hilos
  <2>3. /\ EsperaConTemporizador' /\ PendienteVivo' /\ ClaveDeLlamada'
        /\ SolaRegistrada' /\ OrdenUnicaConservaRespuesta'
    BY <1>1 DEF IInvControl, IInv, InvOrden, varsOrden, EsperaConTemporizador, PendienteVivo,
                ClaveDeLlamada, SolaRegistrada, Sola, OrdenUnicaConservaRespuesta
  <2> QED BY <1>1, <2>1, <2>2, <2>3, ConexionIntacta DEF IInvControl, IInv, InvOrden
<1>3. Servicio'
  BY <1>1 DEF IInvControl, Servicio, TypeOKServicio, Argumentos, varsServicio, varsOrden
<1>4. Control'
  <2>1. CASE Agente!ya_procesado(t) /\ UNCHANGED varsBloqueos
    BY <2>1, AdmiteConserva
  <2>2. CASE Agente!RechazarIncompleta(t) \/ Agente!Operar(t) \/ Agente!responder(t)
    <3>1. /\ UNCHANGED <<encargo, procesados, vida, admitida, promesa, enlace, cabecera>>
          /\ tarea[t] \in {"llegada", "operar", "responder"}
          /\ tarea' = [tarea EXCEPT ![t] = "responder"] \/ tarea' = [tarea EXCEPT ![t] = "fin"]
          /\ \/ UNCHANGED resultado
             \/ \E r \in Agente!Resultado : resultado' = [resultado EXCEPT ![t] = r]
      BY <1>1, <2>2 DEF Agente!RechazarIncompleta, Agente!Operar, Agente!responder,
                        Agente!Informar, Agente!Resultado, varsOrden, varsConexion
    <3>2. firewall' \in [Vps -> SUBSET Ip]
      <4>1. CASE UNCHANGED firewall
        BY <4>1 DEF IInvControl, Control, Agente!TypeOKCliente
      <4>2. CASE Agente!Operar(t)
        <5>1. /\ tarea[t] = "operar" /\ encargo[t] \in Agente!Encargo
              /\ firewall \in [Vps -> SUBSET Ip]
          BY <4>2 DEF Agente!Operar, IInvControl, Control, Hilos, Agente!TypeOKCliente
        <5> DEFINE a == encargo[t].agente
                   ip == encargo[t].ip
                   tabla == IF encargo[t].evento = "bloquear-ip" THEN firewall[a] \cup {ip}
                                                                 ELSE firewall[a] \ {ip}
        <5>2. firewall' \in {firewall, [firewall EXCEPT ![a] = tabla]}
          BY <4>2 DEF Agente!Operar
        <5>3. a \in Vps /\ ip \in Ip
          BY <5>1 DEF Agente!Encargo, IInvControl, Control, Hilos
        <5>4. tabla \subseteq Ip
          BY <5>1, <5>3
        <5> HIDE DEF tabla
        <5> QED BY <5>1, <5>2, <5>4
      <4> QED BY <2>2, <4>1, <4>2 DEF Agente!RechazarIncompleta, Agente!responder
    <3>3. Agente!TypeOKCliente'
      BY <3>1, <3>2 DEF IInvControl, Control, Agente!TypeOKCliente
    <3>4. Cabeceras'
      BY <3>1 DEF IInvControl, Control, Cabeceras
    <3>5. Hilos'
      BY <3>1 DEF IInvControl, Control, Hilos, Agente!TypeOKCliente
    <3> QED BY <3>3, <3>4, <3>5 DEF Control
  <2> QED BY <2>1, <2>2 DEF AgenteTrabaja, AgenteResponde
<1> QED BY <1>2, <1>3, <1>4 DEF IInvControl

\* The agent process ends: its memory begins anew, and its connection is dead.
LEMMA CaeConserva ==
  ASSUME IInvControl, NEW v \in Vps, AgenteCae(v)
  PROVE  IInvControl'
<1>1. /\ UNCHANGED <<vivas, cabecera, admision, conexiones, varsOrden, varsServicio>>
      /\ ida' \subseteq ida /\ vuelta' \subseteq vuelta
      /\ \E suyos \in SUBSET Socket :
           enlace' = [s \in Socket |-> IF s \in suyos THEN "caido" ELSE enlace[s]]
      /\ \A s \in Socket : enlace[s] = "nuevo" <=> enlace'[s] = "nuevo"
  BY DEF AgenteCae
<1>2. /\ \A t \in Peticion : tarea'[t] \in {tarea[t], "perdida"}
                             /\ (tarea[t] = "libre" => tarea'[t] = "libre")
      /\ tarea' \in [Peticion -> {"libre", "llegada", "operar", "responder", "fin", "perdida"}]
      /\ procesados' = [procesados EXCEPT ![v] = {}]
      /\ vida' = [vida EXCEPT ![v] = @ + 1]
      /\ UNCHANGED <<encargo, resultado, admitida, firewall>>
  BY DEF AgenteCae, Agente!Caer, IInvControl, Control, Agente!TypeOKCliente
<1>3. IInv'
  <2>1. TypeOKGateway'
    BY <1>1 DEF IInvControl, IInv, TypeOKGateway, varsOrden
  <2>2. ConexionAbierta'
    BY <1>1 DEF IInvControl, IInv, TypeOKGateway, ConexionAbierta
  <2> QED BY <1>1, <2>1, <2>2, OrdenIntacta DEF IInvControl, IInv
<1>4. Servicio'
  BY <1>1 DEF IInvControl, Servicio, TypeOKServicio, Argumentos, varsServicio, varsOrden
<1>5. Agente!TypeOKCliente'
  BY <1>2 DEF IInvControl, Control, Agente!TypeOKCliente
<1>6. Cabeceras'
  BY <1>1 DEF IInvControl, Control, Cabeceras
<1>7. Hilos'
  BY <1>1, <1>2 DEF IInvControl, Control, Hilos, varsOrden
<1> QED BY <1>3, <1>4, <1>5, <1>6, <1>7 DEF IInvControl, Control

\* The inductive invariant of the whole path of a block: server and agent keep their
\* types, threads belong to calls that were made, and what a thread carries out at the
\* firewall is complete.
THEOREM InvarianteControl == Spec => []IInvControl
<1>1. ASSUME IInvControl, [Next]_varsControl PROVE IInvControl'
  <2>1. CASE PasoServidor /\ UNCHANGED varsAgente
    BY <1>1, <2>1, ServidorConserva
  <2>2. CASE \E m \in ida : AgenteRecibe(m)
    BY <1>1, <2>2, RecibeConserva
  <2>3. CASE \E t \in Peticion : AgenteTrabaja(t) \/ AgenteResponde(t)
    BY <1>1, <2>3, HiloConserva
  <2>4. CASE \E v \in Vps : AgenteCae(v)
    BY <1>1, <2>4, CaeConserva
  <2>5. CASE UNCHANGED varsControl
    <3>1. UNCHANGED <<varsGateway, varsServicio, varsAgente>>
      BY <2>5 DEF varsControl, varsBloqueos
    <3>2. IInv' /\ ServidorSuave /\ UNCHANGED clave
      BY <1>1, <3>1, PasarelaIntacta DEF IInvControl, varsGateway, varsOrden
    <3>3. Servicio'
      BY <1>1, <3>1, <3>2 DEF IInvControl, varsServicio, Servicio, TypeOKServicio, Argumentos
    <3> QED BY <1>1, <3>1, <3>2, <3>3, AgenteIntacto DEF IInvControl
  <2> QED BY <1>1, <2>1, <2>2, <2>3, <2>4, <2>5 DEF Next
<1> QED BY InicioControl, <1>1, PTL DEF Spec
------------------------------------------------------------------------------
\* Every variable of the path keeps its type: an order reaches the agent with the
\* address and the id of a call, of a VPS there is.
THEOREM TiposControl == Spec => []TypeOK
<1>1. IInvControl => TypeOK
  BY DEF IInvControl, IInv, Servicio, Control, TypeOK
<1> QED BY InvarianteControl, <1>1, PTL

\* The path of a block implements the client by itself: whatever server and network
\* do is, for the agent, one of the orders it may be given, its own end, or nothing.
THEOREM ControlEsCliente == Spec => Agente!SpecCliente
<1>1. Init => Agente!InitCliente
  BY DEF Init
<1>2. ASSUME IInvControl, [Next]_varsControl
      PROVE  [Agente!NextCliente]_(Agente!varsCliente)
  <2> USE DEF Agente!NextCliente, Agente!varsCliente
  <2>1. CASE UNCHANGED varsAgente
    BY <2>1 DEF varsAgente
  <2>2. CASE \E m \in ida : AgenteRecibe(m)
    <3>1. PICK m \in ida : AgenteRecibe(m)
      BY <2>2
    <3>2. m.peticion \in Peticion /\ Carga(m.peticion, cabecera[m.socket]) \in Agente!Encargo
      BY <1>2, <3>1, CargaCompleta
    <3> QED BY <3>1, <3>2 DEF AgenteRecibe
  <2>3. CASE \E t \in Peticion : AgenteTrabaja(t) \/ AgenteResponde(t)
    BY <2>3 DEF AgenteTrabaja, AgenteResponde, Agente!Paso
  <2>4. CASE \E v \in Vps : AgenteCae(v)
    BY <2>4 DEF AgenteCae
  <2> QED BY <1>2, <2>1, <2>2, <2>3, <2>4 DEF Next, varsControl
<1> QED BY InvarianteControl, <1>1, <1>2, PTL DEF Spec, Agente!SpecCliente
------------------------------------------------------------------------------
\* A thread of the client by itself: one that was let through has a complete order.
HilosDelCliente ==
  /\ Agente!TypeOKCliente
  /\ \A t \in Peticion :
       /\ tarea[t] # "libre" => encargo[t] \in Agente!Encargo
       /\ tarea[t] \in {"libre", "llegada"} => admitida[t] = Nada
       /\ tarea[t] = "operar" => encargo[t].ip # Nada
       /\ admitida[t] # Nada => admitida[t] <= vida[encargo[t].agente]

\* The memory of the present life holds all the ids that it let through, unless they
\* were more than fit.
MemoriaCompleta ==
  /\ \A a \in Vps, n \in Nat : IsFiniteSet(Agente!Admitidos(a, n))
  /\ \A a \in Vps :
       \/ procesados[a] = Agente!Admitidos(a, vida[a])
       \/ Cardinality(Agente!Admitidos(a, vida[a])) > MaxProcesados

IInvCliente == HilosDelCliente /\ MemoriaCompleta /\ Agente!EjecucionUnica

\* The client counts as everybody does.
LEMMA MismoCardinal == ASSUME NEW S PROVE Agente!Cardinality(S) = Cardinality(S)
BY DEF Agente!Cardinality, Cardinality

\* An idle client satisfies the invariant.
LEMMA InicioCliente ==
  ASSUME Nada \notin Nat, Agente!InitCliente
  PROVE  IInvCliente
<1>1. HilosDelCliente
  BY DEF HilosDelCliente, Agente!InitCliente, Agente!TypeOKCliente
<1>2. \A a \in Vps, n \in Nat : Agente!Admitidos(a, n) = {}
  BY DEF Agente!InitCliente, Agente!Admitidos
<1>3. MemoriaCompleta
  BY <1>2, FS_EmptySet DEF MemoriaCompleta, Agente!InitCliente
<1>4. Agente!EjecucionUnica
  BY DEF Agente!EjecucionUnica, Agente!InitCliente
<1> QED BY <1>1, <1>3, <1>4 DEF IInvCliente

\* A step that lets no thread through, but may start another life of the process.
LEMMA SinAdmitir ==
  ASSUME Nada \notin Nat, MaxProcesados \in Nat, IInvCliente, HilosDelCliente',
         UNCHANGED admitida,
         \A t \in Peticion : admitida[t] # Nada => encargo'[t] = encargo[t],
         \A a \in Vps :
           \/ vida'[a] = vida[a] /\ procesados'[a] = procesados[a]
           \/ vida'[a] = vida[a] + 1 /\ procesados'[a] = {}
  PROVE  IInvCliente'
<1>1. \A a, n : n \in Nat => Agente!Admitidos(a, n)' = Agente!Admitidos(a, n)
  BY DEF Agente!Admitidos
<1>2. ASSUME NEW a \in Vps, vida'[a] = vida[a] + 1
      PROVE  Agente!Admitidos(a, vida[a] + 1) = {}
  <2>1. vida[a] \in Nat
    BY DEF IInvCliente, HilosDelCliente, Agente!TypeOKCliente
  <2>2. \A t \in Peticion : admitida[t] \in Nat /\ encargo[t].agente = a => admitida[t] <= vida[a]
    BY DEF IInvCliente, HilosDelCliente
  <2> QED BY <2>1, <2>2 DEF Agente!Admitidos
<1>3. \A a \in Vps : vida[a] \in Nat /\ vida'[a] \in Nat
  BY DEF IInvCliente, HilosDelCliente, Agente!TypeOKCliente
<1>4. MemoriaCompleta'
  <2>1. \A a \in Vps, n \in Nat : IsFiniteSet(Agente!Admitidos(a, n))'
    BY <1>1 DEF IInvCliente, MemoriaCompleta
  <2>2. ASSUME NEW a \in Vps
        PROVE  \/ procesados'[a] = Agente!Admitidos(a, vida'[a])
               \/ Cardinality(Agente!Admitidos(a, vida'[a])) > MaxProcesados
    BY <1>2, <1>3 DEF IInvCliente, MemoriaCompleta
  <2>3. \A a \in Vps : Agente!Admitidos(a, vida[a])' = Agente!Admitidos(a, vida'[a])
    BY <1>3 DEF Agente!Admitidos
  <2> QED BY <2>1, <2>2, <2>3 DEF MemoriaCompleta
<1>5. Agente!EjecucionUnica'
  <2>1. ASSUME NEW t \in Peticion, NEW u \in Peticion, t # u,
               admitida[t] # Nada, admitida[u] = admitida[t],
               encargo'[t].agente = encargo'[u].agente, encargo'[t].id = encargo'[u].id,
               encargo'[t].evento = encargo'[u].evento
        PROVE  Cardinality(Agente!Admitidos(encargo[t].agente, admitida[t])) > MaxProcesados
    BY <2>1, MismoCardinal DEF IInvCliente, Agente!EjecucionUnica
  <2>2. ASSUME NEW t \in Peticion, admitida[t] # Nada
        PROVE  Agente!Admitidos(encargo[t].agente, admitida[t])'
                 = Agente!Admitidos(encargo[t].agente, admitida[t])
    BY <2>2 DEF Agente!Admitidos
  <2> QED BY <2>1, <2>2, MismoCardinal DEF Agente!EjecucionUnica
<1> QED BY <1>4, <1>5 DEF IInvCliente

\* A thread is let through because its id is not in the memory: if it was let through
\* before in this life, the memory has been emptied since.
LEMMA AdmitirUno ==
  ASSUME Nada \notin Nat, MaxProcesados \in Nat, IInvCliente, HilosDelCliente',
         NEW t \in Peticion, Agente!ya_procesado(t),
         encargo[t].id \notin procesados[encargo[t].agente]
  PROVE  IInvCliente'
<1> DEFINE a == encargo[t].agente
           id == encargo[t].id
           n == vida[a]
           memoria == procesados[a] \cup {id}
<1>1. /\ tarea[t] = "llegada" /\ admitida[t] = Nada
      /\ a \in Vps /\ n \in Nat /\ id \in Clave
  BY DEF Agente!ya_procesado, IInvCliente, HilosDelCliente, Agente!TypeOKCliente, Agente!Encargo
<1>2. /\ UNCHANGED <<encargo, vida>>
      /\ admitida' = [admitida EXCEPT ![t] = n]
      /\ procesados' = [procesados EXCEPT ![a] =
                          IF Cardinality(memoria) > MaxProcesados THEN {} ELSE memoria]
  BY MismoCardinal DEF Agente!ya_procesado
<1>3. /\ admitida \in [Peticion -> Nat \cup {Nada}]
      /\ procesados \in [Vps -> SUBSET Clave]
      /\ vida \in [Vps -> Nat]
  BY DEF IInvCliente, HilosDelCliente, Agente!TypeOKCliente
<1> HIDE DEF a, id, n, memoria
<1>4. /\ admitida'[t] = n
      /\ \A u \in Peticion \ {t} : admitida'[u] = admitida[u]
      /\ procesados'[a] = IF Cardinality(memoria) > MaxProcesados THEN {} ELSE memoria
      /\ \A b \in Vps \ {a} : procesados'[b] = procesados[b]
  BY <1>1, <1>2, <1>3
<1>5. Agente!Admitidos(a, n)' = Agente!Admitidos(a, n) \cup {id}
  <2>1. Agente!Admitidos(a, n)' =
          {encargo[u].id : u \in {x \in Peticion : admitida'[x] = n /\ encargo[x].agente = a}}
    BY <1>2 DEF Agente!Admitidos, a, n
  <2>2. {x \in Peticion : admitida'[x] = n /\ encargo[x].agente = a}
          = {x \in Peticion : admitida[x] = n /\ encargo[x].agente = a} \cup {t}
    BY <1>1, <1>4 DEF a
  <2> QED BY <2>1, <2>2 DEF Agente!Admitidos, id
<1>6. ASSUME NEW b, NEW m \in Nat, b # a \/ m # n
      PROVE  Agente!Admitidos(b, m)' = Agente!Admitidos(b, m)
  BY <1>1, <1>2, <1>4, <1>6 DEF Agente!Admitidos, a
<1>7. \A b \in Vps, m \in Nat : IsFiniteSet(Agente!Admitidos(b, m))
  BY DEF IInvCliente, MemoriaCompleta
<1>8. /\ IsFiniteSet(Agente!Admitidos(a, n) \cup {id})
      /\ Cardinality(Agente!Admitidos(a, n)) \in Nat
      /\ Cardinality(Agente!Admitidos(a, n) \cup {id}) \in Nat
      /\ Cardinality(Agente!Admitidos(a, n)) <= Cardinality(Agente!Admitidos(a, n) \cup {id})
  <2>1. IsFiniteSet(Agente!Admitidos(a, n))
    BY <1>1, <1>7
  <2>2. IsFiniteSet(Agente!Admitidos(a, n) \cup {id})
    BY <2>1, FS_AddElement
  <2> QED BY <2>1, <2>2, FS_Subset, FS_CardinalityType
<1>9. ASSUME NEW b \in Vps, NEW m \in Nat PROVE IsFiniteSet(Agente!Admitidos(b, m))'
  <2>1. CASE b = a /\ m = n
    <3>1. Agente!Admitidos(b, m)' = Agente!Admitidos(a, n)'
      BY <1>2, <2>1 DEF Agente!Admitidos, a, n
    <3> QED BY <1>5, <1>8, <3>1
  <2>2. CASE b # a \/ m # n
    BY <1>6, <1>7, <2>2
  <2> QED BY <2>1, <2>2
<1>10. \/ procesados'[a] = Agente!Admitidos(a, n)'
       \/ Cardinality(Agente!Admitidos(a, n)') > MaxProcesados
  <2>1. CASE procesados[a] = Agente!Admitidos(a, n)
    BY <1>4, <1>5, <2>1 DEF memoria
  <2>2. CASE Cardinality(Agente!Admitidos(a, n)) > MaxProcesados
    BY <1>5, <1>8, <2>2
  <2> QED BY <1>1, <2>1, <2>2 DEF IInvCliente, MemoriaCompleta, n
<1>11. ASSUME NEW b \in Vps
       PROVE  \/ procesados'[b] = Agente!Admitidos(b, vida[b])'
              \/ Cardinality(Agente!Admitidos(b, vida[b])') > MaxProcesados
  <2>1. CASE b = a
    <3>1. Agente!Admitidos(b, vida[b])' = Agente!Admitidos(a, n)'
      BY <1>2, <2>1 DEF Agente!Admitidos, a, n
    <3> QED BY <1>10, <2>1, <3>1
  <2>2. CASE b # a
    <3>1. \A m \in Nat : m = vida[b] => Agente!Admitidos(b, vida[b])' = Agente!Admitidos(b, m)
      <4>1. \A m \in Nat : m = vida[b] => Agente!Admitidos(b, vida[b])' = Agente!Admitidos(b, m)'
        BY <1>2 DEF Agente!Admitidos
      <4> QED BY <1>6, <2>2, <4>1
    <3> QED BY <1>3, <1>4, <2>2, <3>1 DEF IInvCliente, MemoriaCompleta
  <2> QED BY <2>1, <2>2
<1>12. MemoriaCompleta'
  BY <1>9, <1>11 DEF MemoriaCompleta
<1>13. ASSUME NEW u \in Peticion, u # t, admitida[u] = n, encargo[u].agente = a,
              encargo[u].id = id
       PROVE  Cardinality(Agente!Admitidos(a, n)') > MaxProcesados
  <2>1. id \in Agente!Admitidos(a, n)
    BY <1>1, <1>13 DEF Agente!Admitidos
  <2>2. procesados[a] # Agente!Admitidos(a, n)
    BY <2>1 DEF a, id
  <2>3. Cardinality(Agente!Admitidos(a, n)) > MaxProcesados
    BY <1>1, <2>2 DEF IInvCliente, MemoriaCompleta, n
  <2> QED BY <1>5, <1>8, <2>3
<1>14. ASSUME NEW u \in Peticion, admitida[u] # Nada,
              Cardinality(Agente!Admitidos(encargo[u].agente, admitida[u])) > MaxProcesados
       PROVE  Cardinality(Agente!Admitidos(encargo[u].agente, admitida[u])') > MaxProcesados
  <2> DEFINE b == encargo[u].agente
             m == admitida[u]
  <2>1. m \in Nat /\ u # t
    BY <1>1, <1>3, <1>14
  <2>2. Agente!Admitidos(b, m)' = {encargo[w].id : w \in {x \in Peticion :
                                     admitida'[x] = m /\ encargo[x].agente = b}}
    BY <1>2, <1>4, <2>1 DEF Agente!Admitidos
  <2>3. CASE b = a /\ m = n
    <3>1. Agente!Admitidos(b, m)' = Agente!Admitidos(a, n)'
      BY <1>2, <1>4, <2>1, <2>3 DEF Agente!Admitidos, a, n
    <3> QED BY <1>5, <1>8, <1>14, <2>3, <3>1
  <2>4. CASE b # a \/ m # n
    <3>1. Agente!Admitidos(b, m)' = Agente!Admitidos(b, m)
      BY <1>1, <1>2, <1>4, <2>1, <2>2, <2>4 DEF Agente!Admitidos, a
    <3> QED BY <1>14, <3>1
  <2> QED BY <2>3, <2>4
<1>15. Agente!EjecucionUnica'
  <2>1. ASSUME NEW x \in Peticion, NEW y \in Peticion, x # y,
               admitida'[x] # Nada, admitida'[y] = admitida'[x],
               encargo[x].agente = encargo[y].agente, encargo[x].id = encargo[y].id,
               encargo[x].evento = encargo[y].evento
        PROVE  Cardinality(Agente!Admitidos(encargo[x].agente, admitida[x])') > MaxProcesados
    <3>1. CASE x = t
      <4>1. y # t /\ admitida[y] = n /\ encargo[y].agente = a /\ encargo[y].id = id
        BY <1>4, <2>1, <3>1 DEF a, id
      <4>2. Agente!Admitidos(encargo[x].agente, admitida[x])' = Agente!Admitidos(a, n)'
        BY <1>2, <1>4, <3>1 DEF Agente!Admitidos, a, n
      <4> QED BY <1>13, <4>1, <4>2
    <3>2. CASE y = t
      <4>1. x # t /\ admitida[x] = n /\ encargo[x].agente = a /\ encargo[x].id = id
        BY <1>4, <2>1, <3>2 DEF a, id
      <4>2. Agente!Admitidos(encargo[x].agente, admitida[x])' = Agente!Admitidos(a, n)'
        BY <1>2, <1>4, <4>1 DEF Agente!Admitidos, a, n
      <4> QED BY <1>13, <4>1, <4>2
    <3>3. CASE x # t /\ y # t
      <4>1. admitida[x] # Nada /\ admitida[y] = admitida[x]
        BY <1>4, <2>1, <3>3
      <4>2. Cardinality(Agente!Admitidos(encargo[x].agente, admitida[x])) > MaxProcesados
        BY <2>1, <4>1, MismoCardinal DEF IInvCliente, Agente!EjecucionUnica
      <4> QED BY <1>14, <4>1, <4>2
    <3> QED BY <3>1, <3>2, <3>3
  <2> QED BY <1>2, <2>1, MismoCardinal DEF Agente!EjecucionUnica
<1> QED BY <1>12, <1>15 DEF IInvCliente

\* Every step of the client by itself keeps types and threads.
LEMMA HilosDelClienteSiguen ==
  ASSUME IInvCliente, [Agente!NextCliente]_(Agente!varsCliente)
  PROVE  HilosDelCliente'
<1> USE DEF IInvCliente, HilosDelCliente, Agente!TypeOKCliente
<1>1. ASSUME NEW t \in Peticion, NEW e \in Agente!Encargo, Agente!Recibir(t, e)
      PROVE  HilosDelCliente'
  BY <1>1 DEF Agente!Recibir
<1>2. ASSUME NEW t \in Peticion, Agente!RechazarIncompleta(t) \/ Agente!responder(t)
      PROVE  HilosDelCliente'
  BY <1>2 DEF Agente!RechazarIncompleta, Agente!responder, Agente!Informar, Agente!Resultado
<1>3. ASSUME NEW t \in Peticion, Agente!ya_procesado(t)
      PROVE  HilosDelCliente'
  <2> DEFINE a == encargo[t].agente
             memoria == procesados[a] \cup {encargo[t].id}
  <2>1. /\ tarea[t] = "llegada" /\ encargo[t].id # Nada /\ encargo[t].ip # Nada
        /\ UNCHANGED <<encargo, vida, firewall>>
        /\ \/ /\ tarea' = [tarea EXCEPT ![t] = "responder"]
              /\ resultado' = [resultado EXCEPT ![t] = "repetida"]
              /\ UNCHANGED <<procesados, admitida>>
           \/ /\ tarea' = [tarea EXCEPT ![t] = "operar"]
              /\ admitida' = [admitida EXCEPT ![t] = vida[a]]
              /\ \E mem \in {{}, memoria} : procesados' = [procesados EXCEPT ![a] = mem]
              /\ UNCHANGED resultado
    BY <1>3 DEF Agente!ya_procesado, Agente!Informar
  <2>2. a \in Vps /\ encargo[t].id \in Clave /\ vida[a] \in Nat
    BY <2>1 DEF Agente!Encargo
  <2>3. memoria \subseteq Clave
    BY <2>2
  <2> HIDE DEF memoria
  <2>4. Agente!TypeOKCliente'
    BY <2>1, <2>2, <2>3 DEF Agente!Resultado
  <2>5. ASSUME NEW u \in Peticion, admitida'[u] # Nada
        PROVE  admitida'[u] <= vida[encargo[u].agente]
    BY <2>1, <2>2, <2>5
  <2> QED BY <2>1, <2>4, <2>5
<1>4. ASSUME NEW t \in Peticion, Agente!Operar(t)
      PROVE  HilosDelCliente'
  <2> DEFINE a == encargo[t].agente
             ip == encargo[t].ip
             tabla == IF encargo[t].evento = "bloquear-ip" THEN firewall[a] \cup {ip}
                                                           ELSE firewall[a] \ {ip}
  <2>1. /\ tarea[t] = "operar" /\ tarea' = [tarea EXCEPT ![t] = "responder"]
        /\ firewall' \in {firewall, [firewall EXCEPT ![a] = tabla]}
        /\ \E r \in Agente!Resultado : resultado' = [resultado EXCEPT ![t] = r]
        /\ UNCHANGED <<encargo, procesados, vida, admitida>>
    BY <1>4 DEF Agente!Operar, Agente!Informar, Agente!Resultado
  <2>2. a \in Vps /\ ip \in Ip
    BY <2>1 DEF Agente!Encargo
  <2>3. tabla \subseteq Ip
    BY <2>2
  <2> HIDE DEF tabla
  <2> QED BY <2>1, <2>2, <2>3
<1>5. ASSUME NEW a \in Vps, Agente!Caer(a)
      PROVE  HilosDelCliente'
  <2>1. /\ \A t \in Peticion : tarea'[t] \in {tarea[t], "perdida"}
                               /\ (tarea[t] = "libre" => tarea'[t] = "libre")
        /\ tarea' \in [Peticion -> {"libre", "llegada", "operar", "responder", "fin", "perdida"}]
        /\ procesados' = [procesados EXCEPT ![a] = {}]
        /\ vida' = [vida EXCEPT ![a] = @ + 1]
        /\ UNCHANGED <<encargo, resultado, admitida, firewall>>
    BY <1>5 DEF Agente!Caer
  <2>2. \A t \in Peticion : admitida[t] # Nada =>
          admitida[t] \in Nat /\ encargo[t].agente \in Vps
    BY DEF Agente!Encargo
  <2>3. \A t \in Peticion : admitida[t] # Nada => admitida[t] <= vida'[encargo[t].agente]
    BY <2>1, <2>2
  <2> QED BY <2>1, <2>3
<1>6. CASE UNCHANGED Agente!varsCliente
  BY <1>6 DEF Agente!varsCliente
<1> QED BY <1>1, <1>2, <1>3, <1>4, <1>5, <1>6 DEF Agente!NextCliente, Agente!Paso

\* Every step of the client by itself keeps the invariant.
LEMMA InduccionCliente ==
  ASSUME Nada \notin Nat, MaxProcesados \in Nat,
         IInvCliente, [Agente!NextCliente]_(Agente!varsCliente)
  PROVE  IInvCliente'
<1>1. HilosDelCliente'
  BY HilosDelClienteSiguen
<1>2. ASSUME NEW t \in Peticion, Agente!ya_procesado(t) PROVE IInvCliente'
  <2>1. CASE encargo[t].id \in procesados[encargo[t].agente]
    BY <1>1, <1>2, <2>1, SinAdmitir DEF Agente!ya_procesado
  <2>2. CASE encargo[t].id \notin procesados[encargo[t].agente]
    BY <1>1, <1>2, <2>2, AdmitirUno
  <2> QED BY <2>1, <2>2
<1>3. ASSUME NEW t \in Peticion, NEW e \in Agente!Encargo, Agente!Recibir(t, e)
      PROVE  IInvCliente'
  <2>1. \A u \in Peticion : admitida[u] # Nada => encargo'[u] = encargo[u]
    BY <1>3 DEF Agente!Recibir, IInvCliente, HilosDelCliente, Agente!TypeOKCliente
  <2> QED BY <1>1, <1>3, <2>1, SinAdmitir DEF Agente!Recibir
<1>4. ASSUME NEW t \in Peticion,
             Agente!RechazarIncompleta(t) \/ Agente!Operar(t) \/ Agente!responder(t)
      PROVE  IInvCliente'
  BY <1>1, <1>4, SinAdmitir DEF Agente!RechazarIncompleta, Agente!Operar, Agente!responder
<1>5. ASSUME NEW a \in Vps, Agente!Caer(a) PROVE IInvCliente'
  <2>1. \A b \in Vps :
          \/ vida'[b] = vida[b] /\ procesados'[b] = procesados[b]
          \/ vida'[b] = vida[b] + 1 /\ procesados'[b] = {}
    BY <1>5 DEF Agente!Caer, IInvCliente, HilosDelCliente, Agente!TypeOKCliente
  <2> QED BY <1>1, <1>5, <2>1, SinAdmitir DEF Agente!Caer
<1>6. CASE UNCHANGED Agente!varsCliente
  BY <1>1, <1>6, SinAdmitir DEF Agente!varsCliente
<1> QED BY <1>2, <1>3, <1>4, <1>5, <1>6 DEF Agente!NextCliente, Agente!Paso

\* _ya_procesado: however often orders are delivered to the agent, and however often it
\* ends in between, the same order reaches the firewall twice in one life of its
\* process only if that life let through more different ids than its memory holds.
THEOREM EjecucionUnicaSiempre ==
  ASSUME Nada \notin Nat, MaxProcesados \in Nat
  PROVE  Agente!SpecCliente => []Agente!EjecucionUnica
<1>1. Agente!InitCliente => IInvCliente
  BY InicioCliente
<1>2. IInvCliente /\ [Agente!NextCliente]_(Agente!varsCliente) => IInvCliente'
  BY InduccionCliente
<1>3. IInvCliente => Agente!EjecucionUnica
  BY DEF IInvCliente
<1> QED BY <1>1, <1>2, <1>3, PTL DEF Agente!SpecCliente
==============================================================================
