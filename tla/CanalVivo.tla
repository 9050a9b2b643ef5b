------------------------------ MODULE CanalVivo ------------------------------
(***************************************************************************)
(* client auth.service.ts and realtime.service.ts with the server's        *)
(* dashboard.gateway.ts: the session of one browser and the live channel   *)
(* that tells it of new alerts.                                            *)
(*                                                                         *)
(* A canal is a socket.io client socket: it reconnects for as long as      *)
(* nobody disconnects it.  Each time it connects the server gets another   *)
(* socket, and handleConnection runs: verifyAsync, with a secret it has,   *)
(* ends in a microtask, so that verifying and registering are one step.    *)
(* The server learns of a cut later.  One account: conexiones is its Set.  *)
(* Access tokens are never renewed (nothing calls refresh): a handshake    *)
(* finds the token still good or expired.                                  *)
(***************************************************************************)
EXTENDS ClienteApi

CONSTANTS
  Canales,     \* BOUND: how many sockets the browser may open
  Conexiones,  \* BOUND: how many connections the server may see
  Alerta       \* the alerts

ASSUME CanalConstantes == Canales \in Nat \ {0} /\ Conexiones \in Nat /\ Nada \notin Alerta

VARIABLES
  token,       \* localStorage has an access token
  entrando,    \* a login or registration awaits its answer
  saliendo,    \* a logout awaits its answer
  socket,      \* RealtimeService.socket, 0 for null
  canal,       \* canal[k]: the client's socket k
  via,         \* via[k]: the connection it goes through, 0 for none
  vivas,       \* the connections the server has not seen end
  usadas,      \* how many connections there have been
  conexiones,  \* DashboardGateway.conexiones.get(userId)
  enCamino,    \* enCamino[c]: the alerts emitted on c and not arrived
  emitidas,    \* the alerts that were created
  nuevaAlerta  \* the signal with the last live alert

varsSesion == <<token, entrando, saliendo>>
varsRed == <<canal, via, vivas, usadas, conexiones, enCamino>>
varsCanal == <<varsSesion, socket, varsRed, emitidas, nuevaAlerta>>

K == 1 .. Canales
C == 1 .. Conexiones
EstadoCanal == {"libre", "conectando", "abierto", "cerrado"}

TypeOKCanal ==
  /\ token \in BOOLEAN /\ entrando \in BOOLEAN /\ saliendo \in BOOLEAN
  /\ socket \in K \cup {0}
  /\ canal \in [K -> EstadoCanal]
  /\ via \in [K -> C \cup {0}]
  /\ vivas \subseteq C /\ conexiones \subseteq C
  /\ usadas \in 0 .. Conexiones
  /\ enCamino \in [C -> Seq(Alerta)]
  /\ emitidas \subseteq Alerta
  /\ nuevaAlerta \in Alerta \cup {Nada}

Libres == {k \in K : canal[k] = "libre"}

\* The app starts: with a stored token conectarRealtime opens the channel.
InitCanal ==
  /\ token \in BOOLEAN
  /\ entrando = FALSE /\ saliendo = FALSE
  /\ socket = IF token THEN 1 ELSE 0
  /\ canal = [k \in K |-> IF token /\ k = 1 THEN "conectando" ELSE "libre"]
  /\ via = [k \in K |-> 0]
  /\ vivas = {} /\ conexiones = {} /\ usadas = 0
  /\ enCamino = [c \in C |-> <<>>]
  /\ emitidas \in SUBSET Alerta
  /\ nuevaAlerta = Nada
------------------------------------------------------------------------------
(* RealtimeService *)

\* Only a socket that is connected counts: one that is connecting gets a sister, and
\* nothing refers to it any more.
conectar ==
  IF socket # 0 /\ canal[socket] = "abierto"
  THEN UNCHANGED <<socket, canal>>
  ELSE \E k \in Libres :
         /\ \A j \in Libres : k <= j
         /\ socket' = k
         /\ canal' = [canal EXCEPT ![k] = "conectando"]

desconectar ==
  /\ socket' = 0
  /\ IF socket = 0
     THEN UNCHANGED <<canal, via, enCamino>>
     ELSE /\ canal' = [canal EXCEPT ![socket] = "cerrado"]
          /\ via' = [via EXCEPT ![socket] = 0]
          /\ enCamino' = IF via[socket] = 0 THEN enCamino
                         ELSE [enCamino EXCEPT ![via[socket]] = <<>>]
------------------------------------------------------------------------------
(* AuthService *)

\* login and register: the form is locked while it awaits.
PedirEntrar ==
  /\ ~entrando
  /\ entrando' = TRUE
  /\ UNCHANGED <<token, saliendo, socket, varsRed, emitidas, nuevaAlerta>>

\* saveSession, and the channel.
Entrado ==
  /\ entrando
  /\ entrando' = FALSE
  /\ token' = TRUE
  /\ conectar
  /\ UNCHANGED <<saliendo, via, vivas, usadas, conexiones, enCamino, emitidas, nuevaAlerta>>

EntradaRechazada ==
  /\ entrando
  /\ entrando' = FALSE
  /\ UNCHANGED <<token, saliendo, socket, varsRed, emitidas, nuevaAlerta>>

PedirSalir ==
  /\ ~saliendo
  /\ saliendo' = TRUE
  /\ UNCHANGED <<token, entrando, socket, varsRed, emitidas, nuevaAlerta>>

\* Whatever the server answers.
Salido ==
  /\ saliendo
  /\ saliendo' = FALSE
  /\ desconectar
  /\ token' = FALSE
  /\ UNCHANGED <<entrando, vivas, usadas, conexiones, emitidas, nuevaAlerta>>
------------------------------------------------------------------------------
(* DashboardGateway *)

\* Socket k reaches the server with the token it was opened with.  An expired one is
\* refused with disconnect(true), after which the client does not try again.
handleConnection(k) ==
  /\ canal[k] = "conectando"
  /\ \/ /\ usadas < Conexiones
        /\ usadas' = usadas + 1
        /\ canal' = [canal EXCEPT ![k] = "abierto"]
        /\ via' = [via EXCEPT ![k] = usadas + 1]
        /\ vivas' = vivas \cup {usadas + 1}
        /\ conexiones' = conexiones \cup {usadas + 1}
     \/ /\ canal' = [canal EXCEPT ![k] = "cerrado"]
        /\ UNCHANGED <<via, vivas, usadas, conexiones>>
  /\ UNCHANGED <<varsSesion, socket, enCamino, emitidas, nuevaAlerta>>

Cortar(k) ==
  /\ canal[k] = "abierto"
  /\ canal' = [canal EXCEPT ![k] = "conectando"]
  /\ via' = [via EXCEPT ![k] = 0]
  /\ enCamino' = [enCamino EXCEPT ![via[k]] = <<>>]
  /\ UNCHANGED <<varsSesion, socket, vivas, usadas, conexiones, emitidas, nuevaAlerta>>

\* Mutant: the end of one connection forgets the account.
handleDisconnect_olvidaLaCuenta(c) ==
  /\ c \in vivas /\ \A k \in K : via[k] # c
  /\ vivas' = vivas \ {c}
  /\ conexiones' = {}
  /\ UNCHANGED <<varsSesion, socket, canal, via, usadas, enCamino, emitidas, nuevaAlerta>>

\* The server sees the end of c, perhaps after the browser is back on another.
handleDisconnect(c) ==
  /\ c \in vivas /\ \A k \in K : via[k] # c
  /\ vivas' = vivas \ {c}
  /\ conexiones' = conexiones \ {c}
  /\ UNCHANGED <<varsSesion, socket, canal, via, usadas, enCamino, emitidas, nuevaAlerta>>

\* createAlerta, when the configuration says so: nothing is queued for who is not there,
\* and what goes to a connection that was cut is lost.
emitirAUsuario(a) ==
  /\ a \notin emitidas
  /\ emitidas' = emitidas \cup {a}
  /\ enCamino' = [c \in C |-> IF c \in conexiones /\ \E k \in K : via[k] = c
                              THEN Append(enCamino[c], a) ELSE enCamino[c]]
  /\ UNCHANGED <<varsSesion, socket, canal, via, vivas, usadas, conexiones, nuevaAlerta>>

\* The event nueva-alerta on socket k, also on one that nothing refers to.
Recibir(k) ==
  LET c == via[k] IN
  /\ c # 0 /\ enCamino[c] # <<>>
  /\ nuevaAlerta' = Head(enCamino[c])
  /\ enCamino' = [enCamino EXCEPT ![c] = Tail(@)]
  /\ UNCHANGED <<varsSesion, socket, canal, via, vivas, usadas, conexiones, emitidas>>
------------------------------------------------------------------------------
(* Properties *)

\* Every connected browser is told of the next alert: its connection is registered,
\* however late the end of its earlier connections, or of other tabs, is noticed.
RegistroCompleto == \A k \in K : canal[k] = "abierto" => via[k] \in conexiones
==============================================================================
