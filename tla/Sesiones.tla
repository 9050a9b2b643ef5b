------------------------------ MODULE Sesiones ------------------------------
(***************************************************************************)
(* server/src/auth: accounts, sessions and password resets, with the       *)
(* browser's cookie at the other end (auth.controller.ts).  A Llamada is   *)
(* one HTTP request; its handler gives way at every await, so any number   *)
(* of them are interleaved over the tables refresh_tokens, users and       *)
(* password_reset_tokens.  A browser sends the cookie it has when the      *)
(* request leaves and takes the cookie of a response when it arrives: its  *)
(* tabs share one cookie and responses may overtake one another.           *)
(*                                                                         *)
(* No step is fair: a response that is never delivered is lost, a request  *)
(* that never moves on died with the process, which keeps nothing else of  *)
(* it in memory.                                                           *)
(*                                                                         *)
(* Abstracted: hashes and signatures (a token, a link, a password is a     *)
(* value), access tokens (stateless), the clock (a token expires at any    *)
(* moment), mails, and User.activo, which nothing in src/ ever clears.     *)
(***************************************************************************)
EXTENDS Naturals, FiniteSets

CONSTANTS
  Llamada,      \* the requests
  Usuario,      \* the accounts, by email
  Navegador,    \* the browsers
  Token,        \* the refresh tokens, numbered in the order of their creation
  Enlace,       \* the links of "forgot password"
  Contrasena,   \* the passwords
  Previa,       \* Previa[n]: the token of a session that browser n may start with
  Nada,         \* no value
  Entorno       \* BOUND: the events of the environment an instance considers

EventosSesion == {"vencimiento", "limpieza", "copia", "acceso"}

ASSUME SesionesConstantes ==
  /\ Token \subseteq Nat
  /\ Nada \notin Usuario \cup Navegador \cup Token \cup Enlace \cup Contrasena
  /\ Previa \in [Navegador -> Token]
  /\ \A m, n \in Navegador : Previa[m] = Previa[n] => m = n
  /\ Entorno \subseteq EventosSesion

VARIABLES
  cuenta,      \* cuenta[u]: the password of u's account, Nada without account
  filas,       \* filas[t]: the row of refresh_tokens for t
  enlaces,     \* enlaces[e]: the row of password_reset_tokens for e
  reusos,      \* the calls with an entry refresh_token_reuso_detectado in the audit log
  galleta,     \* galleta[n]: the refresh token in the cookie of browser n
  paso,        \* paso[c]: where the handler of c is
  llamada,     \* llamada[c]: the request
  leida,       \* leida[c]: the user of the row that c read
  nuevo,       \* nuevo[c]: the refresh token c created
  salida,      \* salida[c]: what c answers
  emitidos,    \* the refresh tokens that were ever created (history)
  masivas,     \* the calls that revoked all the sessions of a user (history)
  previas,     \* previas[c]: the calls that had ended when c began (history)
  llegadas     \* llegadas[c]: those whose answer c's browser had by then (history)

varsTablas == <<cuenta, filas, enlaces, reusos>>
varsHistoria == <<emitidos, masivas, previas, llegadas>>
varsSesiones == <<varsTablas, galleta, paso, llamada, leida, nuevo, salida, varsHistoria>>

Operacion == {"registro", "login", "refresh", "logout", "olvido", "restablecer"}
Peticion == [op : Operacion, usuario : Usuario \cup {Nada}, clave : Contrasena \cup {Nada},
             token : Token \cup {Nada}, enlace : Enlace \cup {Nada},
             navegador : Navegador \cup {Nada}]
SinPeticion == [op |-> "refresh", usuario |-> Nada, clave |-> Nada, token |-> Nada,
                enlace |-> Nada, navegador |-> Nada]

FilaToken == [usuario : Usuario, revocado : BOOLEAN, vencido : BOOLEAN,
              reemplazo : Token \cup {Nada}]
FilaEnlace == [usuario : Usuario, usado : BOOLEAN, vencido : BOOLEAN]
ASSUME NadaNoEsFila == Nada \notin FilaToken \cup FilaEnlace

Salida == {"ninguna", "sesion", "renovada", "cerrada", "enviado", "cambiada", "conflicto",
           "credenciales", "invalido", "vencido", "reuso", "noAutenticado", "errorInterno"}
EnCurso == {"leerCuenta", "crearCuenta", "crearToken", "leerToken", "revocarTodos",
            "auditar", "rotar", "leerCierre", "revocar", "crearEnlace", "leerEnlace",
            "cambiarClave", "marcarUsado"}

TypeOK ==
  /\ cuenta \in [Usuario -> Contrasena \cup {Nada}]
  /\ filas \in [Token -> FilaToken \cup {Nada}]
  /\ enlaces \in [Enlace -> FilaEnlace \cup {Nada}]
  /\ reusos \subseteq Llamada
  /\ galleta \in [Navegador -> Token \cup {Nada}]
  /\ paso \in [Llamada -> EnCurso \cup {"libre", "fin", "entregada"}]
  /\ llamada \in [Llamada -> Peticion]
  /\ leida \in [Llamada -> Usuario \cup {Nada}]
  /\ nuevo \in [Llamada -> Token \cup {Nada}]
  /\ salida \in [Llamada -> Salida]
  /\ emitidos \subseteq Token
  /\ masivas \subseteq Llamada
  /\ previas \in [Llamada -> SUBSET Llamada]
  /\ llegadas \in [Llamada -> SUBSET Llamada]

FilaNueva(u) == [usuario |-> u, revocado |-> FALSE, vencido |-> FALSE, reemplazo |-> Nada]

\* The server starts on the database it finds: some accounts, and a session in some
\* of the browsers.
Init ==
  /\ cuenta \in [Usuario -> Contrasena \cup {Nada}]
  /\ \E abiertas \in SUBSET Navegador, de \in [Navegador -> Usuario] :
       /\ \A n \in abiertas : cuenta[de[n]] # Nada
       /\ \A n \in Navegador \ abiertas : de[n] = CHOOSE u \in Usuario : TRUE
       /\ galleta = [n \in Navegador |-> IF n \in abiertas THEN Previa[n] ELSE Nada]
       /\ emitidos = {Previa[n] : n \in abiertas}
       /\ filas = [t \in Token |->
                     IF t \in emitidos
                     THEN FilaNueva(de[CHOOSE n \in abiertas : Previa[n] = t])
                     ELSE Nada]
  /\ enlaces = [e \in Enlace |-> Nada]
  /\ reusos = {}
  /\ paso = [c \in Llamada |-> "libre"]
  /\ llamada = [c \in Llamada |-> SinPeticion]
  /\ leida = [c \in Llamada |-> Nada]
  /\ nuevo = [c \in Llamada |-> Nada]
  /\ salida = [c \in Llamada |-> "ninguna"]
  /\ masivas = {}
  /\ previas = [c \in Llamada |-> {}]
  /\ llegadas = [c \in Llamada |-> {}]
------------------------------------------------------------------------------
(* A request: it is received, moves on from await to await, and is answered. *)

Terminada(c) == paso[c] \in {"fin", "entregada"}

Comenzar(c, peticion, primero) ==
  /\ paso[c] = "libre"
  /\ paso' = [paso EXCEPT ![c] = primero]
  /\ llamada' = [llamada EXCEPT ![c] = peticion]
  /\ previas' = [previas EXCEPT ![c] = {d \in Llamada : Terminada(d)}]
  /\ llegadas' = [llegadas EXCEPT ![c] =
                    {d \in Llamada : paso[d] = "entregada" /\ peticion.navegador # Nada
                                     /\ llamada[d].navegador = peticion.navegador}]
  /\ UNCHANGED <<varsTablas, galleta, leida, nuevo, emitidos, masivas>>

Ir(c, siguiente) ==
  /\ paso' = [paso EXCEPT ![c] = siguiente]
  /\ UNCHANGED <<galleta, llamada, previas, llegadas>>

Seguir(c, siguiente) == Ir(c, siguiente) /\ UNCHANGED salida

Acabar(c, s) ==
  /\ Ir(c, "fin")
  /\ salida' = [salida EXCEPT ![c] = s]

\* register and login of an account, from a browser.
Entrar(c, op, u, w, n) ==
  /\ op \in {"registro", "login"}
  /\ Comenzar(c, [SinPeticion EXCEPT !.op = op, !.usuario = u, !.clave = w, !.navegador = n],
              "leerCuenta")
  /\ UNCHANGED salida

\* refresh with the browser's cookie, or with a copy of a token in the body.
Refrescar(c, t, n) ==
  /\ Comenzar(c, [SinPeticion EXCEPT !.op = "refresh", !.token = t, !.navegador = n],
              IF t = Nada THEN "fin" ELSE "leerToken")
  /\ salida' = IF t = Nada THEN [salida EXCEPT ![c] = "invalido"] ELSE salida

\* logout with the browser's cookie; JwtAuthGuard refuses it once the access token
\* has expired.
CerrarSesion(c, t, n) ==
  /\ \/ /\ Comenzar(c, [SinPeticion EXCEPT !.op = "logout", !.token = t, !.navegador = n],
                    IF t = Nada THEN "fin" ELSE "leerCierre")
        /\ salida' = IF t = Nada THEN [salida EXCEPT ![c] = "cerrada"] ELSE salida
     \/ /\ "acceso" \in Entorno
        /\ Comenzar(c, [SinPeticion EXCEPT !.op = "logout", !.token = t, !.navegador = n],
                    "fin")
        /\ salida' = [salida EXCEPT ![c] = "noAutenticado"]

\* BOUND: as many requests as there are links.
Olvidar(c, u) ==
  /\ Cardinality({d \in Llamada : llamada[d].op = "olvido"}) < Cardinality(Enlace)
  /\ Comenzar(c, [SinPeticion EXCEPT !.op = "olvido", !.usuario = u], "crearEnlace")
  /\ UNCHANGED salida

Restablecer(c, e, w) ==
  /\ Comenzar(c, [SinPeticion EXCEPT !.op = "restablecer", !.enlace = e, !.clave = w],
              "leerEnlace")
  /\ UNCHANGED salida

\* setRefreshCookie and clearRefreshCookie, when the response reaches the browser.
Entregar(c) ==
  LET n == llamada[c].navegador IN
  /\ paso[c] = "fin"
  /\ n # Nada
  /\ paso' = [paso EXCEPT ![c] = "entregada"]
  /\ galleta' =
       IF salida[c] \in {"sesion", "renovada"} THEN [galleta EXCEPT ![n] = nuevo[c]]
       ELSE IF salida[c] = "cerrada" THEN [galleta EXCEPT ![n] = Nada]
       ELSE galleta
  /\ UNCHANGED <<varsTablas, llamada, leida, nuevo, salida, varsHistoria>>
------------------------------------------------------------------------------
(* Accounts and sessions *)

\* register: an email that is taken is refused.  login: bcrypt.compare.
LeerCuenta(c) ==
  LET l == llamada[c] IN
  /\ paso[c] = "leerCuenta"
  /\ \/ l.op = "registro" /\ cuenta[l.usuario] # Nada /\ Acabar(c, "conflicto")
     \/ l.op = "registro" /\ cuenta[l.usuario] = Nada /\ Seguir(c, "crearCuenta")
     \/ l.op = "login" /\ cuenta[l.usuario] # l.clave /\ Acabar(c, "credenciales")
     \/ l.op = "login" /\ cuenta[l.usuario] = l.clave /\ Seguir(c, "crearToken")
  /\ UNCHANGED <<varsTablas, leida, nuevo, emitidos, masivas>>

\* Mutant: create overwrites the account that another request created meanwhile.
CrearCuenta_sinUnicidad(c) ==
  /\ paso[c] = "crearCuenta"
  /\ cuenta' = [cuenta EXCEPT ![llamada[c].usuario] = llamada[c].clave]
  /\ Seguir(c, "crearToken")
  /\ UNCHANGED <<filas, enlaces, reusos, leida, nuevo, emitidos, masivas>>

\* user.create: the unique email decides between requests that overlap.
CrearCuenta(c) ==
  LET u == llamada[c].usuario IN
  /\ paso[c] = "crearCuenta"
  /\ IF cuenta[u] # Nada
     THEN Acabar(c, "errorInterno") /\ UNCHANGED cuenta
     ELSE Seguir(c, "crearToken") /\ cuenta' = [cuenta EXCEPT ![u] = llamada[c].clave]
  /\ UNCHANGED <<filas, enlaces, reusos, leida, nuevo, emitidos, masivas>>

Primero(S) == CHOOSE x \in S : \A y \in S : x <= y

Duenio(c) == IF llamada[c].op = "refresh" THEN leida[c] ELSE llamada[c].usuario

\* generateTokens: a random token, so one that never was before.  Its row is there
\* before a refresh revokes the old one.
CrearToken(c) ==
  LET t == Primero(Token \ emitidos) IN
  /\ paso[c] = "crearToken"
  /\ emitidos # Token
  /\ emitidos' = emitidos \cup {t}
  /\ nuevo' = [nuevo EXCEPT ![c] = t]
  /\ filas' = [filas EXCEPT ![t] = FilaNueva(Duenio(c))]
  /\ IF llamada[c].op = "refresh" THEN Seguir(c, "rotar") ELSE Acabar(c, "sesion")
  /\ UNCHANGED <<cuenta, enlaces, reusos, leida, masivas>>

\* Mutant: revokedAt of the row is not looked at.
LeerToken_sinReuso(c) ==
  LET fila == filas[llamada[c].token] IN
  /\ paso[c] = "leerToken"
  /\ IF fila = Nada THEN Acabar(c, "invalido") /\ UNCHANGED leida
     ELSE /\ leida' = [leida EXCEPT ![c] = fila.usuario]
          /\ IF fila.vencido THEN Acabar(c, "vencido") ELSE Seguir(c, "crearToken")
  /\ UNCHANGED <<varsTablas, nuevo, emitidos, masivas>>

\* Mutant: a token of which the row is gone counts as reused.
LeerToken_desconocidoEsReuso(c) ==
  LET fila == filas[llamada[c].token] IN
  /\ paso[c] = "leerToken"
  /\ IF fila = Nada THEN Acabar(c, "reuso") /\ UNCHANGED leida
     ELSE /\ leida' = [leida EXCEPT ![c] = fila.usuario]
          /\ \/ fila.revocado /\ Seguir(c, "revocarTodos")
             \/ ~fila.revocado /\ fila.vencido /\ Acabar(c, "vencido")
             \/ ~fila.revocado /\ ~fila.vencido /\ Seguir(c, "crearToken")
  /\ UNCHANGED <<varsTablas, nuevo, emitidos, masivas>>

\* refresh reads the row and judges it: unknown, revoked, expired or good.
LeerToken(c) ==
  LET fila == filas[llamada[c].token] IN
  /\ paso[c] = "leerToken"
  /\ IF fila = Nada THEN Acabar(c, "invalido") /\ UNCHANGED leida
     ELSE /\ leida' = [leida EXCEPT ![c] = fila.usuario]
          /\ \/ fila.revocado /\ Seguir(c, "revocarTodos")
             \/ ~fila.revocado /\ fila.vencido /\ Acabar(c, "vencido")
             \/ ~fila.revocado /\ ~fila.vencido /\ Seguir(c, "crearToken")
  /\ UNCHANGED <<varsTablas, nuevo, emitidos, masivas>>

\* Mutant: only the chain's next token is revoked.
RevocarTodos_soloElReusado(c) ==
  /\ paso[c] = "revocarTodos"
  /\ filas' = [t \in Token |->
                 IF filas[t] # Nada /\ filas[llamada[c].token] # Nada
                    /\ t = filas[llamada[c].token].reemplazo
                 THEN [filas[t] EXCEPT !.revocado = TRUE] ELSE filas[t]]
  /\ masivas' = masivas \cup {c}
  /\ Seguir(c, "auditar")
  /\ UNCHANGED <<cuenta, enlaces, reusos, leida, nuevo, emitidos>>

\* Reuse detected: every session of the user is revoked.
RevocarTodos(c) ==
  /\ paso[c] = "revocarTodos"
  /\ filas' = [t \in Token |->
                 IF filas[t] # Nada /\ filas[t].usuario = leida[c]
                 THEN [filas[t] EXCEPT !.revocado = TRUE] ELSE filas[t]]
  /\ masivas' = masivas \cup {c}
  /\ Seguir(c, "auditar")
  /\ UNCHANGED <<cuenta, enlaces, reusos, leida, nuevo, emitidos>>

Auditar(c) ==
  /\ paso[c] = "auditar"
  /\ reusos' = reusos \cup {c}
  /\ Acabar(c, "reuso")
  /\ UNCHANGED <<cuenta, filas, enlaces, leida, nuevo, emitidos, masivas>>

\* The old token is revoked; update throws if the nightly job removed its row.
Rotar(c) ==
  LET t == llamada[c].token IN
  /\ paso[c] = "rotar"
  /\ IF filas[t] = Nada
     THEN Acabar(c, "errorInterno") /\ UNCHANGED filas
     ELSE /\ Acabar(c, "renovada")
          /\ filas' = [filas EXCEPT ![t].revocado = TRUE, ![t].reemplazo = nuevo[c]]
  /\ UNCHANGED <<cuenta, enlaces, reusos, leida, nuevo, emitidos, masivas>>

\* logout: a token that is unknown or already revoked is a success as well.
LeerCierre(c) ==
  LET fila == filas[llamada[c].token] IN
  /\ paso[c] = "leerCierre"
  /\ IF fila # Nada /\ ~fila.revocado THEN Seguir(c, "revocar") ELSE Acabar(c, "cerrada")
  /\ UNCHANGED <<varsTablas, leida, nuevo, emitidos, masivas>>

Revocar(c) ==
  LET t == llamada[c].token IN
  /\ paso[c] = "revocar"
  /\ IF filas[t] = Nada
     THEN Acabar(c, "errorInterno") /\ UNCHANGED filas
     ELSE Acabar(c, "cerrada") /\ filas' = [filas EXCEPT ![t].revocado = TRUE]
  /\ UNCHANGED <<cuenta, enlaces, reusos, leida, nuevo, emitidos, masivas>>
------------------------------------------------------------------------------
(* Password resets *)

\* forgotPassword: a link is created (and mailed) only if there is an account; the
\* answer does not tell.
CrearEnlace(c) ==
  LET u == llamada[c].usuario IN
  /\ paso[c] = "crearEnlace"
  /\ IF cuenta[u] = Nada THEN UNCHANGED enlaces
     ELSE \E e \in Enlace :
            /\ enlaces[e] = Nada
            /\ enlaces' = [enlaces EXCEPT ![e] =
                             [usuario |-> u, usado |-> FALSE, vencido |-> FALSE]]
  /\ Acabar(c, "enviado")
  /\ UNCHANGED <<cuenta, filas, reusos, leida, nuevo, emitidos, masivas>>

LeerEnlace(c) ==
  LET fila == enlaces[llamada[c].enlace] IN
  /\ paso[c] = "leerEnlace"
  /\ IF fila = Nada \/ fila.usado \/ fila.vencido
     THEN Acabar(c, "invalido") /\ UNCHANGED leida
     ELSE Seguir(c, "cambiarClave") /\ leida' = [leida EXCEPT ![c] = fila.usuario]
  /\ UNCHANGED <<varsTablas, nuevo, emitidos, masivas>>

\* The password changes first, the link is marked afterwards.
CambiarClave(c) ==
  /\ paso[c] = "cambiarClave"
  /\ cuenta' = [cuenta EXCEPT ![leida[c]] = llamada[c].clave]
  /\ Seguir(c, "marcarUsado")
  /\ UNCHANGED <<filas, enlaces, reusos, leida, nuevo, emitidos, masivas>>

\* Mutant: the link is not marked.
MarcarUsado_nunca(c) ==
  /\ paso[c] = "marcarUsado"
  /\ Acabar(c, "cambiada")
  /\ UNCHANGED <<varsTablas, leida, nuevo, emitidos, masivas>>

MarcarUsado(c) ==
  /\ paso[c] = "marcarUsado"
  /\ enlaces' = [enlaces EXCEPT ![llamada[c].enlace].usado = TRUE]
  /\ Acabar(c, "cambiada")
  /\ UNCHANGED <<cuenta, filas, reusos, leida, nuevo, emitidos, masivas>>
------------------------------------------------------------------------------
(* Time, and the nightly job *)

\* All tokens live equally long: the oldest expires first.
VencerToken(t) ==
  LET vigentes == {x \in emitidos : filas[x] # Nada /\ ~filas[x].vencido} IN
  /\ "vencimiento" \in Entorno
  /\ t \in vigentes
  /\ t = Primero(vigentes)
  /\ filas' = [filas EXCEPT ![t].vencido = TRUE]
  /\ UNCHANGED <<cuenta, enlaces, reusos, galleta, paso, llamada, leida, nuevo, salida,
                 varsHistoria>>

VencerEnlace(e) ==
  /\ "vencimiento" \in Entorno
  /\ enlaces[e] # Nada
  /\ ~enlaces[e].vencido
  /\ enlaces' = [enlaces EXCEPT ![e].vencido = TRUE]
  /\ UNCHANGED <<cuenta, filas, reusos, galleta, paso, llamada, leida, nuevo, salida,
                 varsHistoria>>

\* cron.service.ts: the rows of expired refresh tokens go, revoked or not.
limpiarTokensExpirados ==
  /\ "limpieza" \in Entorno
  /\ \E t \in Token : filas[t] # Nada /\ filas[t].vencido
  /\ filas' = [t \in Token |-> IF filas[t] # Nada /\ filas[t].vencido THEN Nada ELSE filas[t]]
  /\ UNCHANGED <<cuenta, enlaces, reusos, galleta, paso, llamada, leida, nuevo, salida,
                 varsHistoria>>

Recibir(c) ==
  \/ \E op \in {"registro", "login"}, u \in Usuario, w \in Contrasena, n \in Navegador :
       Entrar(c, op, u, w, n)
  \/ \E n \in Navegador : Refrescar(c, galleta[n], n) \/ CerrarSesion(c, galleta[n], n)
  \/ "copia" \in Entorno /\ \E t \in emitidos : Refrescar(c, t, Nada)
  \/ \E u \in Usuario : Olvidar(c, u)
  \/ \E e \in Enlace, w \in Contrasena : Restablecer(c, e, w)

Paso(c) ==
  \/ LeerCuenta(c)
  \/ CrearCuenta(c)
  \/ CrearToken(c)
  \/ LeerToken(c)
  \/ RevocarTodos(c)
  \/ Auditar(c)
  \/ Rotar(c)
  \/ LeerCierre(c)
  \/ Revocar(c)
  \/ CrearEnlace(c)
  \/ LeerEnlace(c)
  \/ CambiarClave(c)
  \/ MarcarUsado(c)

\* Every request an instance has is over.
TodoTerminado == \A c \in Llamada : Terminada(c)

Next ==
  \/ \E c \in Llamada : Recibir(c) \/ Paso(c) \/ Entregar(c)
  \/ \E t \in Token : VencerToken(t)
  \/ \E e \in Enlace : VencerEnlace(e)
  \/ limpiarTokensExpirados
  \/ TodoTerminado /\ UNCHANGED varsSesiones

Spec == Init /\ [][Next]_varsSesiones
------------------------------------------------------------------------------
(* Properties *)

\* A refresh token that a finished request rotated or closed is never exchanged for
\* a new one by a request that began later, whatever expired, was cleaned up
\* or stopped short in between.
TokenGastadoNoSirve ==
  \A c, d \in Llamada :
    /\ llamada[c].op \in {"refresh", "logout"} /\ llamada[d].op = "refresh"
    /\ llamada[c].token # Nada /\ llamada[c].token = llamada[d].token
    /\ salida[c] \in {"renovada", "cerrada"}
    /\ c \in previas[d]
    => salida[d] # "renovada"

\* When a reuse is detected, every session of the user that had been handed out is
\* over: what is still open comes from a request that had not ended when the
\* detecting one began.
ReusoCierraSesiones ==
  \A d \in Llamada, t \in Token :
    /\ salida[d] = "reuso"
    /\ filas[t] # Nada /\ filas[t].usuario = leida[d] /\ ~filas[t].revocado
    => \E c \in Llamada \ previas[d] : nuevo[c] = t

\* Nobody is accused of reuse without a reason: the token was presented by another
\* request too, whose answer the accused browser did not have yet, or all sessions
\* of the user had been revoked by an earlier accusation.
SinFalsaAlarma ==
  \A c \in Llamada : salida[c] = "reuso" =>
    \E d \in Llamada \ {c} :
      \/ /\ llamada[d].op \in {"refresh", "logout"} /\ salida[d] # "noAutenticado"
         /\ llamada[d].token = llamada[c].token
         /\ d \notin llegadas[c]
      \/ d \in masivas /\ leida[d] = leida[c]

\* An account belongs to who registered it: of overlapping registrations of one
\* email only one succeeds, and the password is its password until it is reset.
CuentaDeQuienRegistro ==
  \A c \in Llamada :
    /\ llamada[c].op = "registro" /\ salida[c] = "sesion"
    /\ \A d \in Llamada : ~(llamada[d].op = "restablecer" /\ leida[d] = llamada[c].usuario)
    => cuenta[llamada[c].usuario] = llamada[c].clave

\* A link with which a finished request changed the password changes it no more,
\* for requests that begin later.
EnlaceGastadoNoSirve ==
  \A c, d \in Llamada :
    /\ llamada[c].op = "restablecer" /\ llamada[d].op = "restablecer"
    /\ llamada[c].enlace = llamada[d].enlace
    /\ salida[c] = "cambiada"
    /\ c \in previas[d]
    => salida[d] # "cambiada"
==============================================================================
