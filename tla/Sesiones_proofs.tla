---------------------------- MODULE Sesiones_proofs ----------------------------
(***************************************************************************)
(* Sessions, for any number of requests, accounts, browsers and tokens.    *)
(* What has to hold in between the awaits of a handler is of two kinds:    *)
(* what was spent stays spent (a token, a link), and a token was in a      *)
(* cookie only after the answer that brought it, so that whoever replaced  *)
(* it cannot find it there again.                                          *)
(***************************************************************************)
EXTENDS Sesiones, WellFoundedInduction, NaturalsInduction, TLAPS

\* Where the handler of each operation may be.
Pasos ==
  [registro |-> {"leerCuenta", "crearCuenta", "crearToken"},
   login |-> {"leerCuenta", "crearToken"},
   refresh |-> {"leerToken", "crearToken", "rotar", "revocarTodos", "auditar"},
   logout |-> {"leerCierre", "revocar"},
   olvido |-> {"crearEnlace"},
   restablecer |-> {"leerEnlace", "cambiarClave", "marcarUsado"}]

Presenta(c) == llamada[c].op \in {"refresh", "logout"} /\ llamada[c].token # Nada

\* What the handler of c may rely on, wherever it is.
Ordenada(c) ==
  LET l == llamada[c] IN
  /\ paso[c] = "libre" =>
       l = SinPeticion /\ salida[c] = "ninguna" /\ leida[c] = Nada /\ previas[c] = {}
  /\ paso[c] \in EnCurso => paso[c] \in Pasos[l.op] /\ salida[c] = "ninguna"
  /\ l.op \in {"registro", "login"} => l.usuario \in Usuario /\ l.clave \in Contrasena
  /\ l.op = "olvido" => l.usuario \in Usuario
  /\ l.op = "restablecer" => l.enlace \in Enlace /\ l.clave \in Contrasena
  /\ paso[c] \in EnCurso /\ l.op \in {"refresh", "logout"} => l.token # Nada
  /\ paso[c] \in {"leerToken", "leerEnlace"} => leida[c] = Nada
  /\ paso[c] \in {"revocarTodos", "auditar", "rotar", "cambiarClave", "marcarUsado"} =>
       leida[c] \in Usuario
  /\ paso[c] = "crearToken" /\ l.op = "refresh" => leida[c] \in Usuario
  /\ paso[c] \in {"cambiarClave", "marcarUsado"} => enlaces[l.enlace] # Nada
  /\ paso[c] = "auditar" \/ salida[c] = "reuso" => c \in masivas
  /\ c \in masivas => paso[c] \in {"auditar", "fin", "entregada"} /\ leida[c] \in Usuario
  /\ nuevo[c] # Nada => paso[c] \in {"rotar", "fin", "entregada"}

\* And what it knows of the others: the tokens exist, and who had ended has ended.
Enterada(c) ==
  /\ Presenta(c) => llamada[c].token \in emitidos
  /\ nuevo[c] # Nada => nuevo[c] \in emitidos
  /\ \A d \in previas[c] : Terminada(d)
  /\ \A d \in llegadas[c] : paso[d] = "entregada"

\* Tokens are created once, and are in a cookie only after the answer that brought them.
Tokens ==
  /\ \A t \in Token : filas[t] # Nada => t \in emitidos
  /\ \A c, d \in Llamada : nuevo[c] = nuevo[d] /\ nuevo[c] # Nada => c = d
  /\ \A n \in Navegador : galleta[n] # Nada =>
       galleta[n] \in emitidos /\ \A c \in Llamada : nuevo[c] = galleta[n] => paso[c] = "entregada"
  /\ \A c, d \in Llamada :
       Presenta(d) /\ llamada[d].navegador # Nada /\ nuevo[c] = llamada[d].token => paso[c] = "entregada"

Base == TypeOK /\ (\A c \in Llamada : Ordenada(c) /\ Enterada(c)) /\ Tokens

Gasta(c, t) == Presenta(c) /\ llamada[c].token = t /\ salida[c] \in {"renovada", "cerrada"}
Gastado(t) == filas[t] = Nada \/ filas[t].revocado

\* What a request spent is spent, and one that began later cannot renew it.
GastoFirme ==
  \A c \in Llamada, t \in Token : Gasta(c, t) =>
    /\ Gastado(t)
    /\ \A d \in Llamada : llamada[d].op = "refresh" /\ llamada[d].token = t /\ c \in previas[d] =>
         paso[d] \notin {"crearToken", "rotar"} /\ salida[d] # "renovada"

\* The same of the links.
EnlaceFirme ==
  \A c \in Llamada : llamada[c].op = "restablecer" /\ salida[c] = "cambiada" =>
    /\ enlaces[llamada[c].enlace] # Nada /\ enlaces[llamada[c].enlace].usado
    /\ \A d \in Llamada :
         llamada[d].op = "restablecer" /\ llamada[d].enlace = llamada[c].enlace /\ c \in previas[d] =>
           paso[d] \notin {"cambiarClave", "marcarUsado"} /\ salida[d] # "cambiada"

\* The account that a request created has its password until some request resets it.
CuentaFirme ==
  \A c \in Llamada :
    /\ llamada[c].op = "registro" /\ (paso[c] = "crearToken" \/ salida[c] = "sesion")
    /\ \A d \in Llamada : ~(llamada[d].op = "restablecer" /\ leida[d] = llamada[c].usuario)
    => cuenta[llamada[c].usuario] = llamada[c].clave

\* After all sessions of a user were revoked, an open one is of a request that had not ended
\* when the one that revoked them began.
MasivaFirme ==
  \A d \in masivas, t \in Token :
    filas[t] # Nada /\ filas[t].usuario = leida[d] /\ ~filas[t].revocado
    => \E c \in Llamada \ previas[d] : nuevo[c] = t

\* A row is revoked because its token was spent, or all of its user were.
RevocadaPorAlguien ==
  \A t \in Token : filas[t] # Nada /\ filas[t].revocado =>
    (\E d \in Llamada : Gasta(d, t)) \/ \E d \in masivas : leida[d] = filas[t].usuario

\* A spent token does not come back to the cookie of the browser that knows, and so is not
\* what its later requests present.
GalletaFirme ==
  /\ \A d \in Llamada, n \in Navegador : paso[d] = "entregada" /\ llamada[d].navegador = n =>
       ~Gasta(d, galleta[n])
  /\ \A c \in Llamada : Presenta(c) => \A d \in llegadas[c] : ~Gasta(d, llamada[c].token)

\* Who is accused, or about to be, is so with reason.
AlarmaFundada ==
  \A c \in Llamada : paso[c] \in {"revocarTodos", "auditar"} \/ salida[c] = "reuso" =>
    \E d \in Llamada \ {c} :
      \/ Gasta(d, llamada[c].token) /\ d \notin llegadas[c]
      \/ d \in masivas /\ leida[d] = leida[c]

IInv ==
  Base /\ GastoFirme /\ EnlaceFirme /\ CuentaFirme /\ MasivaFirme /\ RevocadaPorAlguien
  /\ GalletaFirme /\ AlarmaFundada
------------------------------------------------------------------------------
(* A step, as far as the invariant sees it: what stays, and for what is new the  *)
(* reason.  Every step is such a change, and such a change preserves IInv.       *)

Comienza(c) == paso[c] = "libre" /\ paso'[c] # "libre"

\* What c was asked, read, created and answered, it keeps.
Sigue(c) ==
  /\ ~Comienza(c) => UNCHANGED <<llamada[c], previas[c], llegadas[c]>>
  /\ paso[c] # "libre" => paso'[c] # "libre"
  /\ Terminada(c) => Terminada(c)' /\ UNCHANGED salida[c]
  /\ paso[c] = "entregada" => paso'[c] = "entregada"
  /\ leida[c] # Nada => UNCHANGED leida[c]
  /\ nuevo[c] # Nada => UNCHANGED nuevo[c]

\* It begins with what its browser has, knowing who had ended.
Empieza(c) ==
  Comienza(c) =>
    /\ paso'[c] \in {"leerCuenta", "leerToken", "leerCierre", "crearEnlace", "leerEnlace", "fin"}
    /\ \A d \in previas'[c] : d \in Llamada /\ Terminada(d)
    /\ \A d \in llegadas'[c] :
         d \in Llamada /\ paso[d] = "entregada" /\ llamada[d].navegador = llamada'[c].navegador
    /\ llamada'[c].navegador = Nada => llegadas'[c] = {}
    /\ Presenta(c)' => llamada'[c].token \in emitidos
    /\ Presenta(c)' /\ llamada'[c].navegador # Nada =>
         llamada'[c].token = galleta[llamada'[c].navegador]
    /\ UNCHANGED galleta

\* An answer has its reason.
Responde(c) ==
  /\ salida'[c] = "renovada" /\ salida[c] # "renovada" =>
       paso[c] = "rotar" /\ Gastado(llamada[c].token)'
  /\ salida'[c] = "cerrada" /\ salida[c] # "cerrada" /\ Presenta(c)' =>
       Gastado(llamada[c].token)'
  /\ salida'[c] = "cambiada" /\ salida[c] # "cambiada" =>
       /\ paso[c] = "marcarUsado"
       /\ enlaces'[llamada[c].enlace] # Nada /\ enlaces'[llamada[c].enlace].usado
  /\ salida'[c] = "sesion" /\ salida[c] # "sesion" => paso[c] = "crearToken"
  /\ salida'[c] = "reuso" /\ salida[c] # "reuso" => paso[c] = "auditar"

\* So has a step of the handler.
Avanza(c) ==
  LET l == llamada[c] IN
  /\ paso'[c] \in {"crearToken", "rotar"} /\ l.op = "refresh" =>
       paso[c] \in {"crearToken", "rotar"} \/ (paso[c] = "leerToken" /\ ~Gastado(l.token))
  /\ paso'[c] = "crearToken" /\ l.op = "registro" =>
       paso[c] = "crearToken" \/ (paso[c] = "crearCuenta" /\ cuenta'[l.usuario] = l.clave)
  /\ paso'[c] \in {"cambiarClave", "marcarUsado"} =>
       \/ paso[c] \in {"cambiarClave", "marcarUsado"}
       \/ paso[c] = "leerEnlace" /\ enlaces[l.enlace] # Nada /\ ~enlaces[l.enlace].usado
  /\ paso'[c] = "revocarTodos" =>
       \/ paso[c] = "revocarTodos"
       \/ /\ paso[c] = "leerToken"
          /\ filas[l.token] # Nada /\ filas[l.token].revocado
          /\ leida'[c] = filas[l.token].usuario
  /\ paso'[c] = "auditar" => paso[c] \in {"revocarTodos", "auditar"}

\* And what it creates, revokes or brings to its browser.
Deja(c) ==
  /\ nuevo'[c] # nuevo[c] => paso[c] = "crearToken" /\ nuevo'[c] \in emitidos' \ emitidos
  /\ c \in masivas' => c \in masivas \/
       (\A t \in Token : filas'[t] # Nada /\ filas'[t].usuario = leida'[c] => filas'[t].revocado)
  /\ paso'[c] = "entregada" /\ paso[c] # "entregada" =>
       /\ paso[c] = "fin" /\ llamada[c].navegador \in Navegador
       /\ salida[c] = "renovada" => galleta'[llamada[c].navegador] = nuevo[c]
       /\ salida[c] = "cerrada" => galleta'[llamada[c].navegador] = Nada

\* The tables: what is spent stays spent.
Tablas ==
  /\ emitidos \subseteq emitidos' /\ masivas \subseteq masivas'
  /\ \A t \in Token :
       /\ filas[t] # Nada => filas'[t] = Nada \/
            (filas'[t].usuario = filas[t].usuario /\ (filas[t].revocado => filas'[t].revocado))
       /\ filas[t] = Nada /\ filas'[t] # Nada =>
            /\ t \in emitidos' \ emitidos
            /\ \E c \in Llamada : paso[c] = "crearToken" /\ nuevo'[c] = t
       /\ filas'[t] # Nada /\ filas'[t].revocado =>
            \/ filas[t] # Nada /\ filas[t].revocado
            \/ \E c \in Llamada : Gasta(c, t)'
            \/ \E c \in masivas' : leida'[c] = filas'[t].usuario
  /\ \A e \in Enlace : enlaces[e] # Nada =>
       enlaces'[e] # Nada /\ (enlaces[e].usado => enlaces'[e].usado)
  /\ \A u \in Usuario : cuenta[u] # Nada /\ cuenta'[u] # cuenta[u] =>
       \E d \in Llamada : llamada'[d].op = "restablecer" /\ leida'[d] = u
  /\ \A n \in Navegador : galleta'[n] # Nada /\ galleta'[n] # galleta[n] =>
       \E c \in Llamada : paso[c] = "fin" /\ paso'[c] = "entregada" /\ nuevo[c] = galleta'[n]
  /\ \A c, d \in Llamada : nuevo'[c] # nuevo[c] /\ nuevo'[d] # nuevo[d] => c = d

Cambio ==
  (\A c \in Llamada : Sigue(c) /\ Empieza(c) /\ Responde(c) /\ Avanza(c) /\ Deja(c)) /\ Tablas

\* Nothing happens to the request d.
Quieta(d) ==
  /\ UNCHANGED <<paso[d], llamada[d], leida[d], nuevo[d], salida[d], previas[d], llegadas[d]>>
  /\ d \in masivas' => d \in masivas

------------------------------------------------------------------------------
(* Such a change preserves the invariant. *)

\* A request that is over is what it was: it spent what it had spent, and no more.
LEMMA GastoSigue ==
  ASSUME Base, Cambio, NEW c \in Llamada, NEW t \in Token
  PROVE  /\ Gasta(c, t) => Gasta(c, t)' /\ Terminada(c)
         /\ Gasta(c, t)' /\ ~Gasta(c, t) => ~Terminada(c) /\ Gastado(t)'
<1>1. /\ paso[c] = "libre" => salida[c] = "ninguna"
      /\ paso[c] \in EnCurso => salida[c] = "ninguna"
      /\ paso[c] \in EnCurso \cup {"libre", "fin", "entregada"}
  BY DEF Base, Ordenada, Enterada, TypeOK
<1>2. Terminada(c) \/ salida[c] = "ninguna"
  BY <1>1 DEF Terminada
<1>3. Sigue(c) /\ Responde(c)
  BY DEF Cambio
<1>4. Terminada(c) => UNCHANGED <<llamada[c], salida[c]>>
  BY <1>3 DEF Sigue, Comienza, Terminada
<1>5. Gasta(c, t) => Gasta(c, t)' /\ Terminada(c)
  BY <1>2, <1>4 DEF Gasta, Presenta
<1>6. ASSUME Gasta(c, t)', ~Gasta(c, t)
      PROVE  ~Terminada(c) /\ Gastado(t)'
  <2>1. ~Terminada(c)
    BY <1>6, <1>4 DEF Gasta, Presenta
  <2>2. salida[c] = "ninguna"
    BY <2>1, <1>2
  <2>3. paso[c] = "rotar" => UNCHANGED llamada[c]
    BY <1>3 DEF Sigue, Comienza
  <2> QED BY <1>3, <1>6, <2>1, <2>2, <2>3 DEF Responde, Gasta
<1> QED BY <1>5, <1>6

LEMMA GastoFirmeSigue ==
  ASSUME Base, GastoFirme, Cambio
  PROVE  GastoFirme'
<1> SUFFICES ASSUME NEW c \in Llamada, NEW t \in Token, Gasta(c, t)'
             PROVE  /\ Gastado(t)'
                    /\ \A d \in Llamada :
                         llamada'[d].op = "refresh" /\ llamada'[d].token = t /\ c \in previas'[d] =>
                           paso'[d] \notin {"crearToken", "rotar"} /\ salida'[d] # "renovada"
  BY DEF GastoFirme
<1>1. Gastado(t)'
  <2>1. CASE ~Gasta(c, t)
    BY <2>1, GastoSigue
  <2>2. CASE Gasta(c, t)
    <3>1. Gastado(t) /\ t \in emitidos
      BY <2>2 DEF GastoFirme, Base, Ordenada, Enterada, Gasta
    <3> QED BY <3>1 DEF Cambio, Tablas, Gastado
  <2> QED BY <2>1, <2>2
<1>2. ASSUME NEW d \in Llamada,
             llamada'[d].op = "refresh", llamada'[d].token = t, c \in previas'[d]
      PROVE  paso'[d] \notin {"crearToken", "rotar"} /\ salida'[d] # "renovada"
  <2>0. Sigue(d) /\ Empieza(d) /\ Responde(d) /\ Avanza(d)
    BY DEF Cambio
  <2>1. paso[d] = "libre" => salida[d] = "ninguna" /\ previas[d] = {}
    BY DEF Base, Ordenada, Enterada
  <2>2. CASE paso[d] = "libre"
    <3>1. Comienza(d)
      BY <1>2, <2>0, <2>1, <2>2 DEF Sigue
    <3> QED BY <2>0, <2>1, <2>2, <3>1 DEF Empieza, Responde
  <2>3. CASE paso[d] # "libre"
    <3>1. UNCHANGED <<llamada[d], previas[d]>>
      BY <2>0, <2>3 DEF Sigue, Comienza
    <3>2. Terminada(c)
      BY <1>2, <3>1 DEF Base, Ordenada, Enterada
    <3>3. Gasta(c, t)
      BY <3>2, GastoSigue
    <3>4. Gastado(t) /\ paso[d] \notin {"crearToken", "rotar"} /\ salida[d] # "renovada"
      BY <1>2, <3>1, <3>3 DEF GastoFirme
    <3> QED BY <1>2, <2>0, <3>1, <3>4 DEF Avanza, Responde
  <2> QED BY <2>2, <2>3
<1> QED BY <1>1, <1>2

LEMMA EnlaceFirmeSigue ==
  ASSUME Base, EnlaceFirme, Cambio
  PROVE  EnlaceFirme'
<1> SUFFICES ASSUME NEW c \in Llamada, llamada'[c].op = "restablecer", salida'[c] = "cambiada"
             PROVE  /\ enlaces'[llamada'[c].enlace] # Nada /\ enlaces'[llamada'[c].enlace].usado
                    /\ \A d \in Llamada :
                         llamada'[d].op = "restablecer" /\ llamada'[d].enlace = llamada'[c].enlace
                         /\ c \in previas'[d] =>
                           paso'[d] \notin {"cambiarClave", "marcarUsado"} /\ salida'[d] # "cambiada"
  BY DEF EnlaceFirme
<1>0. Sigue(c) /\ Responde(c)
  BY DEF Cambio
<1>1. UNCHANGED llamada[c]
  <2>1. paso[c] = "libre" => salida[c] = "ninguna"
    BY DEF Base, Ordenada, Enterada
  <2>2. paso[c] # "libre"
    BY <1>0, <2>1 DEF Responde
  <2> QED BY <1>0, <2>2 DEF Sigue, Comienza
<1>2. llamada[c].enlace \in Enlace
  BY <1>1 DEF Base, Ordenada, Enterada
<1>3. enlaces'[llamada'[c].enlace] # Nada /\ enlaces'[llamada'[c].enlace].usado
  <2>1. CASE salida[c] = "cambiada"
    BY <1>1, <1>2, <2>1 DEF EnlaceFirme, Cambio, Tablas
  <2>2. CASE salida[c] # "cambiada"
    BY <1>0, <1>1, <2>2 DEF Responde
  <2> QED BY <2>1, <2>2
<1>4. ASSUME NEW d \in Llamada, llamada'[d].op = "restablecer",
             llamada'[d].enlace = llamada'[c].enlace, c \in previas'[d]
      PROVE  paso'[d] \notin {"cambiarClave", "marcarUsado"} /\ salida'[d] # "cambiada"
  <2>0. Sigue(d) /\ Empieza(d) /\ Responde(d) /\ Avanza(d)
    BY DEF Cambio
  <2>1. paso[d] = "libre" => salida[d] = "ninguna" /\ previas[d] = {}
    BY DEF Base, Ordenada, Enterada
  <2>2. CASE paso[d] = "libre"
    <3>1. Comienza(d)
      BY <1>4, <2>0, <2>1, <2>2 DEF Sigue
    <3> QED BY <2>0, <2>1, <2>2, <3>1 DEF Empieza, Responde
  <2>3. CASE paso[d] # "libre"
    <3>1. UNCHANGED <<llamada[d], previas[d]>>
      BY <2>0, <2>3 DEF Sigue, Comienza
    <3>2. Terminada(c)
      BY <1>4, <3>1 DEF Base, Ordenada, Enterada
    <3>3. salida[c] = "cambiada"
      BY <1>0, <3>2 DEF Sigue
    <3>4. /\ enlaces[llamada[d].enlace].usado
          /\ paso[d] \notin {"cambiarClave", "marcarUsado"} /\ salida[d] # "cambiada"
      BY <1>1, <1>4, <3>1, <3>3 DEF EnlaceFirme
    <3> QED BY <2>0, <3>4 DEF Avanza, Responde
  <2> QED BY <2>2, <2>3
<1> QED BY <1>3, <1>4

LEMMA CuentaFirmeSigue ==
  ASSUME Base, CuentaFirme, Cambio
  PROVE  CuentaFirme'
<1> SUFFICES ASSUME NEW c \in Llamada, llamada'[c].op = "registro",
                    paso'[c] = "crearToken" \/ salida'[c] = "sesion",
                    \A d \in Llamada :
                      ~(llamada'[d].op = "restablecer" /\ leida'[d] = llamada'[c].usuario)
             PROVE  cuenta'[llamada'[c].usuario] = llamada'[c].clave
  BY DEF CuentaFirme
<1>0. Sigue(c) /\ Empieza(c) /\ Responde(c) /\ Avanza(c)
  BY DEF Cambio
<1>1. paso[c] = "libre" => salida[c] = "ninguna"
  BY DEF Base, Ordenada, Enterada
<1>2. paso[c] # "libre"
  BY <1>0, <1>1 DEF Empieza, Responde, Comienza
<1>3. UNCHANGED llamada[c]
  BY <1>0, <1>2 DEF Sigue, Comienza
<1>4. llamada[c].usuario \in Usuario /\ llamada[c].clave \in Contrasena
  BY <1>3 DEF Base, Ordenada, Enterada
<1>5. CASE paso[c] = "crearToken" \/ salida[c] = "sesion"
  <2>1. ASSUME NEW d \in Llamada, llamada[d].op = "restablecer", leida[d] = llamada[c].usuario
        PROVE  FALSE
    <3>1. leida[d] # Nada
      BY <1>4, <2>1, SesionesConstantes
    <3>2. paso[d] # "libre"
      BY <3>1 DEF Base, Ordenada, Enterada
    <3>3. UNCHANGED <<llamada[d], leida[d]>>
      BY <3>1, <3>2 DEF Cambio, Sigue, Comienza
    <3> QED BY <2>1, <3>3, <1>3
  <2>2. cuenta[llamada[c].usuario] = llamada[c].clave
    BY <1>3, <1>5, <2>1 DEF CuentaFirme
  <2>3. cuenta[llamada[c].usuario] # Nada
    BY <1>4, <2>2, SesionesConstantes
  <2> QED BY <1>3, <1>4, <2>2, <2>3 DEF Cambio, Tablas
<1>6. CASE ~(paso[c] = "crearToken" \/ salida[c] = "sesion")
  BY <1>0, <1>3, <1>6 DEF Avanza, Responde
<1> QED BY <1>5, <1>6

LEMMA MasivaFirmeSigue ==
  ASSUME Base, TypeOK', MasivaFirme, Cambio
  PROVE  MasivaFirme'
<1> SUFFICES ASSUME NEW d \in masivas', NEW t \in Token,
                    filas'[t] # Nada, filas'[t].usuario = leida'[d], ~filas'[t].revocado
             PROVE  \E c \in Llamada \ previas'[d] : nuevo'[c] = t
  BY DEF MasivaFirme
<1>1. d \in Llamada
  BY DEF TypeOK
<1>2. d \in masivas
  BY <1>1 DEF Cambio, Deja
<1>3. UNCHANGED <<previas[d], leida[d]>>
  <2>1. paso[d] # "libre" /\ leida[d] # Nada
    BY <1>1, <1>2, SesionesConstantes DEF Base, Ordenada, Enterada
  <2> QED BY <1>1, <2>1 DEF Cambio, Sigue, Comienza
<1>4. t # Nada
  BY SesionesConstantes
<1>5. CASE filas[t] # Nada
  <2>1. filas[t].usuario = leida[d] /\ ~filas[t].revocado
    BY <1>3, <1>5 DEF Cambio, Tablas
  <2>2. PICK c \in Llamada \ previas[d] : nuevo[c] = t
    BY <1>2, <1>5, <2>1 DEF MasivaFirme
  <2>3. nuevo'[c] = t
    BY <1>4, <2>2 DEF Cambio, Sigue
  <2> QED BY <1>3, <2>2, <2>3
<1>6. CASE filas[t] = Nada
  <2>1. PICK c \in Llamada : paso[c] = "crearToken" /\ nuevo'[c] = t
    BY <1>6 DEF Cambio, Tablas
  <2>2. c \notin previas[d]
    BY <1>1, <2>1 DEF Base, Ordenada, Enterada, Terminada
  <2> QED BY <1>3, <2>1, <2>2
<1> QED BY <1>5, <1>6

LEMMA RevocadaSigue ==
  ASSUME Base, RevocadaPorAlguien, Cambio
  PROVE  RevocadaPorAlguien'
<1> SUFFICES ASSUME NEW t \in Token, filas'[t] # Nada, filas'[t].revocado,
                    ~ \E d \in Llamada : Gasta(d, t)'
             PROVE  \E d \in masivas' : leida'[d] = filas'[t].usuario
  BY DEF RevocadaPorAlguien
<1>1. CASE filas[t] # Nada /\ filas[t].revocado
  <2>1. ~ \E d \in Llamada : Gasta(d, t)
    BY GastoSigue
  <2>2. PICK d \in masivas : leida[d] = filas[t].usuario
    BY <1>1, <2>1 DEF RevocadaPorAlguien
  <2>3. d \in Llamada /\ leida[d] # Nada
    BY <2>2, SesionesConstantes DEF Base, TypeOK, Ordenada, Enterada
  <2>4. leida'[d] = leida[d] /\ d \in masivas' /\ filas'[t].usuario = filas[t].usuario
    BY <1>1, <2>3 DEF Cambio, Sigue, Tablas
  <2> QED BY <2>2, <2>4
<1>2. CASE ~(filas[t] # Nada /\ filas[t].revocado)
  BY <1>2 DEF Cambio, Tablas
<1> QED BY <1>1, <1>2

LEMMA GalletaFirmeSigue ==
  ASSUME Base, GalletaFirme, Cambio
  PROVE  GalletaFirme'
<1>1. ASSUME NEW d \in Llamada, NEW n \in Navegador,
             paso'[d] = "entregada", llamada'[d].navegador = n, Gasta(d, galleta[n])'
      PROVE  FALSE
  <2>0. Sigue(d) /\ Deja(d) /\ Empieza(d)
    BY DEF Cambio
  <2>1. Terminada(d) /\ UNCHANGED <<llamada[d], salida[d]>>
    <3>1. paso[d] \in {"fin", "entregada"}
      BY <1>1, <2>0 DEF Deja
    <3> QED BY <2>0, <3>1 DEF Sigue, Comienza, Terminada
  <2>2. Presenta(d) /\ llamada[d].token = galleta'[n] /\ salida[d] \in {"renovada", "cerrada"}
    BY <1>1, <2>1 DEF Gasta, Presenta
  <2>3. galleta'[n] # Nada /\ n # Nada
    BY <2>2, SesionesConstantes DEF Presenta
  <2>4. CASE paso[d] # "entregada"
    <3>1. salida[d] = "renovada" /\ galleta'[n] = nuevo[d]
      BY <1>1, <2>0, <2>1, <2>2, <2>3, <2>4 DEF Deja
    <3>2. paso[d] = "entregada"
      BY <1>1, <2>1, <2>2, <2>3, <3>1 DEF Base, Tokens
    <3> QED BY <2>4, <3>2
  <2>5. CASE paso[d] = "entregada"
    <3>1. galleta'[n] # galleta[n]
      BY <1>1, <2>1, <2>2, <2>5 DEF GalletaFirme, Gasta
    <3>2. PICK c \in Llamada : paso[c] = "fin" /\ nuevo[c] = galleta'[n]
      BY <2>3, <3>1 DEF Cambio, Tablas
    <3>3. paso[c] = "entregada"
      BY <1>1, <2>1, <2>2, <2>3, <3>2 DEF Base, Tokens
    <3> QED BY <3>2, <3>3
  <2> QED BY <2>4, <2>5
<1>2. ASSUME NEW c \in Llamada, Presenta(c)', NEW d \in llegadas'[c],
             Gasta(d, llamada[c].token)'
      PROVE  FALSE
  <2>0. Sigue(c) /\ Empieza(c)
    BY DEF Cambio
  <2>1. CASE Comienza(c)
    <3>1. d \in Llamada /\ paso[d] = "entregada" /\ llamada[d].navegador = llamada'[c].navegador
      BY <1>2, <2>0, <2>1 DEF Empieza
    <3>2. Sigue(d)
      BY <3>1 DEF Cambio
    <3>3. paso'[d] = "entregada" /\ llamada'[d] = llamada[d]
      BY <3>1, <3>2 DEF Sigue, Comienza
    <3>4. llamada'[c].navegador # Nada /\ llamada'[c].token = galleta'[llamada'[c].navegador]
      BY <1>2, <2>0, <2>1 DEF Empieza
    <3>5. llamada[d].navegador \in Navegador
      BY <3>1, <3>4 DEF Base, TypeOK, Peticion
    <3> QED BY <1>1, <1>2, <3>1, <3>3, <3>4, <3>5
  <2>2. CASE ~Comienza(c)
    <3>1. UNCHANGED <<llamada[c], llegadas[c]>>
      BY <2>0, <2>2 DEF Sigue
    <3>2. paso[d] = "entregada" /\ d \in Llamada
      BY <1>2, <3>1 DEF Base, Ordenada, Enterada, TypeOK
    <3>3. Sigue(d)
      BY <3>2 DEF Cambio
    <3>4. UNCHANGED <<llamada[d], salida[d]>>
      BY <3>2, <3>3 DEF Sigue, Comienza, Terminada
    <3> QED BY <1>2, <3>1, <3>4 DEF GalletaFirme, Gasta, Presenta
  <2> QED BY <2>1, <2>2
<1> QED BY <1>1, <1>2 DEF GalletaFirme

LEMMA AlarmaFundadaSigue ==
  ASSUME Base, RevocadaPorAlguien, GalletaFirme, AlarmaFundada, Cambio
  PROVE  AlarmaFundada'
<1> SUFFICES ASSUME NEW c \in Llamada,
                    paso'[c] \in {"revocarTodos", "auditar"} \/ salida'[c] = "reuso"
             PROVE  \E d \in Llamada \ {c} :
                      \/ Gasta(d, llamada[c].token)' /\ d \notin llegadas'[c]
                      \/ d \in masivas' /\ leida'[d] = leida'[c]
  BY DEF AlarmaFundada
<1>0. Sigue(c) /\ Empieza(c) /\ Responde(c) /\ Avanza(c)
  BY DEF Cambio
<1>1. paso[c] # "libre"
  <2>1. paso[c] = "libre" => salida[c] = "ninguna"
    BY DEF Base, Ordenada, Enterada
  <2> QED BY <1>0, <2>1 DEF Empieza, Responde, Comienza
<1>2. UNCHANGED <<llamada[c], llegadas[c]>>
  BY <1>0, <1>1 DEF Sigue, Comienza
<1>3. ASSUME NEW d \in masivas, leida[d] \in Usuario
      PROVE  d \in Llamada /\ d \in masivas' /\ leida'[d] = leida[d]
  <2>1. d \in Llamada /\ leida[d] # Nada
    BY <1>3, SesionesConstantes DEF Base, TypeOK
  <2> QED BY <2>1 DEF Cambio, Sigue, Tablas
<1>4. \A d \in masivas : leida[d] \in Usuario
  BY DEF Base, TypeOK, Ordenada, Enterada
<1>5. CASE paso[c] \in {"revocarTodos", "auditar"} \/ salida[c] = "reuso"
  <2>1. PICK d \in Llamada \ {c} :
          \/ Gasta(d, llamada[c].token) /\ d \notin llegadas[c]
          \/ d \in masivas /\ leida[d] = leida[c]
    BY <1>5 DEF AlarmaFundada
  <2>2. leida'[c] = leida[c] /\ (Gasta(d, llamada[c].token) => llamada[c].token \in Token)
    <3>1. leida[c] \in Usuario
      BY <1>5 DEF Base, Ordenada, Enterada
    <3>2. leida[c] # Nada
      BY <3>1, SesionesConstantes
    <3>3. Gasta(d, llamada[c].token) => llamada[c].token \in Token
      BY DEF Base, Ordenada, Enterada, TypeOK, Gasta
    <3> QED BY <1>0, <3>2, <3>3 DEF Sigue
  <2>3. CASE Gasta(d, llamada[c].token) /\ d \notin llegadas[c]
    <3>1. llamada[c].token \in Token
      BY <2>2, <2>3
    <3>2. Gasta(d, llamada[c].token) => /\ Presenta(d)' /\ llamada'[d].token = llamada[c].token
                                        /\ salida'[d] \in {"renovada", "cerrada"}
      BY <3>1, GastoSigue DEF Gasta
    <3> QED BY <1>2, <2>3, <3>2 DEF Gasta
  <2>4. CASE d \in masivas /\ leida[d] = leida[c]
    BY <1>3, <1>4, <2>2, <2>4
  <2> QED BY <2>1, <2>3, <2>4
<1>6. CASE ~(paso[c] \in {"revocarTodos", "auditar"} \/ salida[c] = "reuso")
  <2>1. /\ paso[c] = "leerToken"
        /\ filas[llamada[c].token] # Nada /\ filas[llamada[c].token].revocado
        /\ leida'[c] = filas[llamada[c].token].usuario
    BY <1>0, <1>2, <1>6 DEF Avanza, Responde
  <2> DEFINE t == llamada[c].token
  <2>2. Presenta(c) /\ salida[c] = "ninguna" /\ c \notin masivas /\ t \in Token
    <3>1. llamada[c].op = "refresh"
      <4>1. paso[c] \in Pasos[llamada[c].op]
        BY <2>1 DEF Base, Ordenada, Enterada, EnCurso
      <4>2. llamada[c].op \in Operacion
        BY DEF Base, TypeOK, Peticion
      <4> QED BY <2>1, <4>1, <4>2 DEF Pasos, Operacion
    <3>2. llamada[c].token # Nada
      BY <2>1, <3>1 DEF Base, Ordenada, Enterada, EnCurso
    <3> QED BY <2>1, <3>1, <3>2 DEF Base, Ordenada, Enterada, EnCurso, Presenta, TypeOK
  <2>3. CASE \E d \in Llamada : Gasta(d, t)
    <3>1. PICK d \in Llamada : Gasta(d, t)
      BY <2>3
    <3>2. d # c /\ d \notin llegadas[c]
      BY <2>2, <3>1 DEF GalletaFirme, Gasta
    <3>3. /\ Presenta(d)' /\ llamada'[d].token = t
          /\ salida'[d] \in {"renovada", "cerrada"}
      BY <2>2, <3>1, GastoSigue DEF Gasta
    <3> QED BY <1>2, <3>2, <3>3 DEF Gasta
  <2>4. CASE \E d \in masivas : leida[d] = filas[t].usuario
    BY <1>3, <1>4, <2>1, <2>2, <2>4
  <2> QED BY <2>1, <2>2, <2>3, <2>4 DEF RevocadaPorAlguien
<1> QED BY <1>5, <1>6

LEMMA TokensSigue ==
  ASSUME Base, TypeOK', Cambio
  PROVE  Tokens'
<1>1. ASSUME NEW t \in Token, filas'[t] # Nada
      PROVE  t \in emitidos'
  BY <1>1 DEF Cambio, Tablas, Base, Tokens
<1>2. ASSUME NEW c \in Llamada, NEW d \in Llamada, nuevo'[c] = nuevo'[d], nuevo'[c] # Nada
      PROVE  c = d
  <2>1. Deja(c) /\ Deja(d)
    BY DEF Cambio
  <2>2. nuevo[c] # Nada => nuevo[c] \in emitidos
    BY DEF Base, Ordenada, Enterada
  <2>3. nuevo[d] # Nada => nuevo[d] \in emitidos
    BY DEF Base, Ordenada, Enterada
  <2>4. nuevo'[c] # nuevo[c] /\ nuevo'[d] # nuevo[d] => c = d
    BY DEF Cambio, Tablas
  <2>5. nuevo[c] = nuevo[d] /\ nuevo[c] # Nada => c = d
    BY DEF Base, Tokens
  <2> QED BY <1>2, <2>1, <2>2, <2>3, <2>4, <2>5 DEF Deja
<1>3. ASSUME NEW c \in Llamada, nuevo'[c] \in emitidos
      PROVE  nuevo[c] = nuevo'[c]
  BY <1>3 DEF Cambio, Deja
<1>4. ASSUME NEW n \in Navegador, galleta'[n] # Nada
      PROVE  galleta'[n] \in emitidos
             /\ \A c \in Llamada : nuevo'[c] = galleta'[n] => paso'[c] = "entregada"
  <2>1. CASE galleta'[n] = galleta[n]
    <3>1. galleta[n] \in emitidos
          /\ \A c \in Llamada : nuevo[c] = galleta[n] => paso[c] = "entregada"
      BY <1>4, <2>1 DEF Base, Tokens
    <3> QED BY <1>3, <2>1, <3>1 DEF Cambio, Sigue
  <2>2. CASE galleta'[n] # galleta[n]
    <3>1. PICK d \in Llamada : paso'[d] = "entregada" /\ nuevo[d] = galleta'[n]
      BY <1>4, <2>2 DEF Cambio, Tablas
    <3>2. nuevo[d] \in emitidos
      BY <1>4, <3>1 DEF Base, Ordenada, Enterada
    <3>3. \A c \in Llamada : nuevo[c] = nuevo[d] => c = d
      BY <1>4, <3>1 DEF Base, Tokens
    <3> QED BY <1>3, <3>1, <3>2, <3>3
  <2> QED BY <2>1, <2>2
<1>5. ASSUME NEW c \in Llamada, NEW d \in Llamada, Presenta(d)', llamada'[d].navegador # Nada,
             nuevo'[c] = llamada'[d].token
      PROVE  paso'[c] = "entregada"
  <2>0. Sigue(d) /\ Empieza(d)
    BY DEF Cambio
  <2>1. CASE Comienza(d)
    <3>1. llamada'[d].token = galleta'[llamada'[d].navegador]
      BY <1>5, <2>0, <2>1 DEF Empieza
    <3>2. llamada'[d].navegador \in Navegador
      BY <1>5 DEF TypeOK, Peticion
    <3> QED BY <1>4, <1>5, <3>1, <3>2 DEF Presenta
  <2>2. CASE ~Comienza(d)
    <3>1. UNCHANGED llamada[d]
      BY <2>0, <2>2 DEF Sigue
    <3>2. llamada[d].token \in emitidos
      BY <1>5, <3>1 DEF Base, Ordenada, Enterada, Presenta
    <3>3. paso[c] = "entregada"
      BY <1>3, <1>5, <3>1, <3>2 DEF Base, Tokens, Presenta
    <3> QED BY <3>3 DEF Cambio, Sigue
  <2> QED BY <2>1, <2>2
<1>6. emitidos \subseteq emitidos'
  BY DEF Cambio, Tablas
<1> QED BY <1>1, <1>2, <1>4, <1>5, <1>6 DEF Tokens

------------------------------------------------------------------------------
(* Every step is such a change. *)

LEMMA QuietaCambia ==
  ASSUME NEW d, Quieta(d)
  PROVE  Sigue(d) /\ Empieza(d) /\ Responde(d) /\ Avanza(d) /\ Deja(d)
<1>1. /\ UNCHANGED <<paso[d], llamada[d], leida[d], nuevo[d], salida[d], previas[d], llegadas[d]>>
      /\ d \in masivas' => d \in masivas
  BY DEF Quieta
<1>2. ~Comienza(d)
  BY <1>1 DEF Comienza
<1> QED BY <1>1, <1>2 DEF Sigue, Empieza, Responde, Avanza, Deja, Terminada

\* The place of a handler says whose it is.
LEMMA DeQuien ==
  ASSUME TypeOK, NEW c \in Llamada, Ordenada(c)
  PROVE  LET l == llamada[c] IN
         /\ paso[c] \in {"leerCuenta"} => l.op \in {"registro", "login"}
         /\ paso[c] = "crearCuenta" => l.op = "registro"
         /\ paso[c] \in {"leerToken", "rotar", "revocarTodos", "auditar"} => l.op = "refresh"
         /\ paso[c] = "crearToken" => l.op \in {"registro", "login", "refresh"}
         /\ paso[c] \in {"leerCierre", "revocar"} => l.op = "logout"
         /\ paso[c] = "crearEnlace" => l.op = "olvido"
         /\ paso[c] \in {"leerEnlace", "cambiarClave", "marcarUsado"} => l.op = "restablecer"
<1>1. llamada[c].op \in Operacion
  BY DEF TypeOK, Peticion
<1>2. paso[c] \in EnCurso => paso[c] \in Pasos[llamada[c].op]
  BY DEF Ordenada
<1> QED BY <1>1, <1>2 DEF Operacion, Pasos, EnCurso

LEMMA QuietaOrdenada ==
  ASSUME TypeOK, Tablas, NEW d \in Llamada, Ordenada(d), Quieta(d)
  PROVE  Ordenada(d)'
<1>1. /\ UNCHANGED <<paso[d], llamada[d], leida[d], nuevo[d], salida[d], previas[d]>>
      /\ d \in masivas' => d \in masivas
  BY DEF Quieta
<1>2. masivas \subseteq masivas'
  BY DEF Tablas
<1>3. paso[d] \in {"cambiarClave", "marcarUsado"} => enlaces'[llamada[d].enlace] # Nada
  <2>1. SUFFICES ASSUME paso[d] \in {"cambiarClave", "marcarUsado"}
                 PROVE  enlaces'[llamada[d].enlace] # Nada
    OBVIOUS
  <2>2. llamada[d].enlace \in Enlace /\ enlaces[llamada[d].enlace] # Nada
    BY <2>1, DeQuien DEF Ordenada
  <2> QED BY <2>2 DEF Tablas
<1> QED BY <1>1, <1>2, <1>3 DEF Ordenada

LEMMA EnteradaSigue ==
  ASSUME Base, TypeOK', Cambio, NEW c \in Llamada
  PROVE  Enterada(c)'
<1>0. Sigue(c) /\ Empieza(c) /\ Deja(c) /\ emitidos \subseteq emitidos'
  BY DEF Cambio, Tablas
<1>1. \A d \in Llamada :
        (Terminada(d) => Terminada(d)') /\ (paso[d] = "entregada" => paso'[d] = "entregada")
  BY DEF Cambio, Sigue
<1>2. nuevo'[c] # Nada => nuevo'[c] \in emitidos'
  BY <1>0 DEF Deja, Base, Enterada
<1>3. CASE Comienza(c)
  <2>1. Presenta(c)' => llamada'[c].token \in emitidos'
    BY <1>0, <1>3 DEF Empieza
  <2>2. \A d \in previas'[c] : Terminada(d)'
    BY <1>0, <1>1, <1>3 DEF Empieza
  <2>3. \A d \in llegadas'[c] : paso'[d] = "entregada"
    BY <1>0, <1>1, <1>3 DEF Empieza
  <2> QED BY <1>2, <2>1, <2>2, <2>3 DEF Enterada
<1>4. CASE ~Comienza(c)
  <2>1. UNCHANGED <<llamada[c], previas[c], llegadas[c]>>
    BY <1>0, <1>4 DEF Sigue
  <2>2. Presenta(c)' => llamada'[c].token \in emitidos'
    BY <1>0, <2>1 DEF Base, Enterada, Presenta
  <2>3. previas[c] \subseteq Llamada /\ llegadas[c] \subseteq Llamada
    BY DEF Base, TypeOK
  <2>4. \A d \in previas'[c] : Terminada(d)'
    BY <1>1, <2>1, <2>3 DEF Base, Enterada
  <2>5. \A d \in llegadas'[c] : paso'[d] = "entregada"
    BY <1>1, <2>1, <2>3 DEF Base, Enterada
  <2> QED BY <1>2, <2>2, <2>4, <2>5 DEF Enterada
<1> QED BY <1>3, <1>4

\* A step of one request: what there is to show of it.
LEMMA PasoDeUno ==
  ASSUME Base, TypeOK', NEW c \in Llamada, \A d \in Llamada \ {c} : Quieta(d),
         Sigue(c), Empieza(c), Responde(c), Avanza(c), Deja(c), Tablas, Ordenada(c)'
  PROVE  Base' /\ Cambio
<1>1. Cambio
  BY QuietaCambia DEF Cambio
<1>2. \A d \in Llamada : Ordenada(d)'
  BY QuietaOrdenada DEF Base
<1>3. Tokens'
  BY <1>1, TokensSigue
<1>4. \A d \in Llamada : Enterada(d)'
  BY <1>1, EnteradaSigue
<1> QED BY <1>1, <1>2, <1>3, <1>4 DEF Base

\* A request that begins: its place, and at once the answer if there is nothing to do.
LEMMA AlComenzar ==
  ASSUME Base, NEW c \in Llamada, NEW p \in Peticion,
         NEW s \in {"leerCuenta", "leerToken", "leerCierre", "crearEnlace", "leerEnlace", "fin"},
         Comenzar(c, p, s),
         \/ s # "fin" /\ UNCHANGED salida
         \/ /\ s = "fin"
            /\ \E r \in {"invalido", "cerrada", "noAutenticado"} :
                 salida' = [salida EXCEPT ![c] = r] /\ (r = "cerrada" => p.token = Nada),
         s # "fin" => s \in Pasos[p.op] /\ (p.op \in {"refresh", "logout"} => p.token # Nada),
         p.op \in {"registro", "login"} => p.usuario \in Usuario /\ p.clave \in Contrasena,
         p.op = "olvido" => p.usuario \in Usuario,
         p.op = "restablecer" => p.enlace \in Enlace /\ p.clave \in Contrasena,
         p.op \in {"refresh", "logout"} /\ p.token # Nada => p.token \in emitidos,
         p.op \in {"refresh", "logout"} /\ p.token # Nada /\ p.navegador # Nada =>
           p.token = galleta[p.navegador]
  PROVE  Base' /\ Cambio
<1>1. TypeOK /\ Ordenada(c) /\ paso[c] = "libre" /\ nuevo[c] = Nada /\ c \notin masivas
  BY DEF Base, Ordenada, Comenzar
<1>2. /\ paso' = [paso EXCEPT ![c] = s]
      /\ llamada' = [llamada EXCEPT ![c] = p]
      /\ UNCHANGED <<varsTablas, galleta, leida, nuevo, emitidos, masivas>>
  BY DEF Comenzar
<1>3. /\ previas' = [previas EXCEPT ![c] = {d \in Llamada : Terminada(d)}]
      /\ llegadas' = [llegadas EXCEPT ![c] =
                        {d \in Llamada : paso[d] = "entregada" /\ p.navegador # Nada
                                         /\ llamada[d].navegador = p.navegador}]
  BY DEF Comenzar
<1>4. PICK r \in Salida :
        /\ salida' = [salida EXCEPT ![c] = r]
        /\ \/ s # "fin" /\ r = "ninguna"
           \/ s = "fin" /\ r \in {"invalido", "cerrada", "noAutenticado"}
        /\ r = "cerrada" => p.token = Nada
  <2>1. CASE s # "fin"
    <3>1. salida' = [salida EXCEPT ![c] = "ninguna"]
      BY <1>1, <2>1 DEF TypeOK, Ordenada
    <3> QED BY <2>1, <3>1 DEF Salida
  <2>2. CASE s = "fin"
    BY <2>2 DEF Salida
  <2> QED BY <2>1, <2>2
<1>5. paso'[c] = s /\ llamada'[c] = p /\ salida'[c] = r /\ leida'[c] = Nada /\ nuevo'[c] = Nada
  BY <1>1, <1>2, <1>4 DEF TypeOK, Ordenada
<1>6. TypeOK'
  <2>1. /\ paso' \in [Llamada -> EnCurso \cup {"libre", "fin", "entregada"}]
        /\ llamada' \in [Llamada -> Peticion] /\ salida' \in [Llamada -> Salida]
    BY <1>1, <1>2, <1>4 DEF TypeOK, EnCurso
  <2>2. previas' \in [Llamada -> SUBSET Llamada] /\ llegadas' \in [Llamada -> SUBSET Llamada]
    BY <1>1, <1>3 DEF TypeOK
  <2> QED BY <1>1, <1>2, <2>1, <2>2 DEF TypeOK, varsTablas
<1>7. \A d \in Llamada \ {c} : Quieta(d)
  BY <1>1, <1>2, <1>3, <1>4 DEF Quieta, TypeOK
<1>8. Comienza(c) /\ ~Terminada(c)
  BY <1>1, <1>5 DEF Comienza, Terminada
<1>9. Sigue(c)
  BY <1>1, <1>2, <1>8 DEF Sigue
<1>10. Empieza(c)
  <2>1. /\ previas'[c] = {d \in Llamada : Terminada(d)}
        /\ llegadas'[c] = {d \in Llamada : paso[d] = "entregada" /\ p.navegador # Nada
                                           /\ llamada[d].navegador = p.navegador}
    BY <1>1, <1>3 DEF TypeOK
  <2>2. \A d \in previas'[c] : d \in Llamada /\ Terminada(d)
    BY <2>1
  <2>3. p.navegador = Nada => llegadas'[c] = {}
    BY <2>1
  <2>4. \A d \in llegadas'[c] :
          d \in Llamada /\ paso[d] = "entregada" /\ llamada[d].navegador = p.navegador
    BY <2>1
  <2> QED BY <1>2, <1>5, <2>2, <2>3, <2>4 DEF Empieza, Presenta
<1>11. Responde(c)
  BY <1>1, <1>4, <1>5 DEF Responde, Presenta
<1>12. Avanza(c)
  BY <1>1, <1>5 DEF Avanza
<1>13. Deja(c)
  BY <1>1, <1>2, <1>5 DEF Deja, Ordenada
<1>14. Tablas
  BY <1>1, <1>2 DEF Tablas, varsTablas
<1>15. Ordenada(c)'
  BY <1>1, <1>2, <1>4, <1>5 DEF Ordenada, EnCurso
<1> QED BY <1>6, <1>7, <1>9, <1>10, <1>11, <1>12, <1>13, <1>14, <1>15, PasoDeUno

LEMMA AlEntrar ==
  ASSUME Base, NEW c \in Llamada, NEW op \in {"registro", "login"},
         NEW u \in Usuario, NEW w \in Contrasena, NEW n \in Navegador, Entrar(c, op, u, w, n)
  PROVE  Base' /\ Cambio
<1> DEFINE p == [SinPeticion EXCEPT !.op = op, !.usuario = u, !.clave = w, !.navegador = n]
<1>1. /\ p \in Peticion
      /\ p.op = op /\ p.usuario = u /\ p.clave = w
  BY DEF Peticion, SinPeticion, Operacion
<1>2. Comenzar(c, p, "leerCuenta") /\ UNCHANGED salida
  BY DEF Entrar
<1>3. "leerCuenta" \in Pasos[p.op]
  BY <1>1 DEF Pasos
<1> HIDE DEF p
<1> QED BY <1>1, <1>2, <1>3, AlComenzar

LEMMA AlRefrescar ==
  ASSUME Base, NEW c \in Llamada, NEW t \in Token \cup {Nada}, NEW n \in Navegador \cup {Nada},
         Refrescar(c, t, n), t # Nada => t \in emitidos, n # Nada => t = galleta[n]
  PROVE  Base' /\ Cambio
<1> DEFINE p == [SinPeticion EXCEPT !.op = "refresh", !.token = t, !.navegador = n]
<1>1. /\ p \in Peticion
      /\ p.op = "refresh" /\ p.token = t /\ p.navegador = n
  BY DEF Peticion, SinPeticion, Operacion
<1>2. "leerToken" \in Pasos[p.op]
  BY <1>1 DEF Pasos
<1>3. /\ Comenzar(c, p, IF t = Nada THEN "fin" ELSE "leerToken")
      /\ salida' = IF t = Nada THEN [salida EXCEPT ![c] = "invalido"] ELSE salida
  BY DEF Refrescar
<1> HIDE DEF p
<1>4. CASE t = Nada
  <2>1. Comenzar(c, p, "fin") /\ salida' = [salida EXCEPT ![c] = "invalido"]
    BY <1>3, <1>4
  <2> QED BY <1>1, <1>4, <2>1, AlComenzar
<1>5. CASE t # Nada
  <2>1. Comenzar(c, p, "leerToken") /\ UNCHANGED salida
    BY <1>3, <1>5
  <2> QED BY <1>1, <1>2, <1>5, <2>1, AlComenzar
<1> QED BY <1>4, <1>5

LEMMA AlCerrarSesion ==
  ASSUME Base, NEW c \in Llamada, NEW n \in Navegador, CerrarSesion(c, galleta[n], n)
  PROVE  Base' /\ Cambio
<1> DEFINE t == galleta[n]
           p == [SinPeticion EXCEPT !.op = "logout", !.token = t, !.navegador = n]
<1>1. t \in Token \cup {Nada} /\ (t # Nada => t \in emitidos)
  BY DEF Base, TypeOK, Tokens
<1>2. /\ p \in Peticion
      /\ p.op = "logout" /\ p.token = t /\ p.navegador = n
  BY <1>1 DEF Peticion, SinPeticion, Operacion
<1>3. "leerCierre" \in Pasos[p.op]
  BY <1>2 DEF Pasos
<1>4. \/ /\ Comenzar(c, p, IF t = Nada THEN "fin" ELSE "leerCierre")
         /\ salida' = IF t = Nada THEN [salida EXCEPT ![c] = "cerrada"] ELSE salida
      \/ Comenzar(c, p, "fin") /\ salida' = [salida EXCEPT ![c] = "noAutenticado"]
  BY DEF CerrarSesion
<1>5. p.token # Nada => p.token \in emitidos /\ p.token = galleta[p.navegador]
  BY <1>1, <1>2
<1> HIDE DEF p, t
<1>6. CASE /\ t # Nada
           /\ Comenzar(c, p, IF t = Nada THEN "fin" ELSE "leerCierre")
           /\ salida' = IF t = Nada THEN [salida EXCEPT ![c] = "cerrada"] ELSE salida
  <2>1. Comenzar(c, p, "leerCierre") /\ UNCHANGED salida
    BY <1>6
  <2> QED BY <1>2, <1>3, <1>5, <1>6, <2>1, AlComenzar
<1>7. CASE /\ t = Nada
           /\ Comenzar(c, p, IF t = Nada THEN "fin" ELSE "leerCierre")
           /\ salida' = IF t = Nada THEN [salida EXCEPT ![c] = "cerrada"] ELSE salida
  <2>1. Comenzar(c, p, "fin") /\ salida' = [salida EXCEPT ![c] = "cerrada"]
    BY <1>7
  <2> QED BY <1>2, <1>7, <2>1, AlComenzar
<1>8. CASE Comenzar(c, p, "fin") /\ salida' = [salida EXCEPT ![c] = "noAutenticado"]
  BY <1>2, <1>5, <1>8, AlComenzar
<1> QED BY <1>4, <1>6, <1>7, <1>8

LEMMA AlOlvidar ==
  ASSUME Base, NEW c \in Llamada, NEW u \in Usuario, Olvidar(c, u)
  PROVE  Base' /\ Cambio
<1> DEFINE p == [SinPeticion EXCEPT !.op = "olvido", !.usuario = u]
<1>1. p \in Peticion /\ p.op = "olvido" /\ p.usuario = u
  BY DEF Peticion, SinPeticion, Operacion
<1>2. Comenzar(c, p, "crearEnlace") /\ UNCHANGED salida
  BY DEF Olvidar
<1>3. "crearEnlace" \in Pasos[p.op]
  BY <1>1 DEF Pasos
<1> HIDE DEF p
<1> QED BY <1>1, <1>2, <1>3, AlComenzar

LEMMA AlRestablecer ==
  ASSUME Base, NEW c \in Llamada, NEW e \in Enlace, NEW w \in Contrasena, Restablecer(c, e, w)
  PROVE  Base' /\ Cambio
<1> DEFINE p == [SinPeticion EXCEPT !.op = "restablecer", !.enlace = e, !.clave = w]
<1>1. p \in Peticion /\ p.op = "restablecer" /\ p.enlace = e /\ p.clave = w
  BY DEF Peticion, SinPeticion, Operacion
<1>2. Comenzar(c, p, "leerEnlace") /\ UNCHANGED salida
  BY DEF Restablecer
<1>3. "leerEnlace" \in Pasos[p.op]
  BY <1>1 DEF Pasos
<1> HIDE DEF p
<1> QED BY <1>1, <1>2, <1>3, AlComenzar

LEMMA AlRecibir ==
  ASSUME Base, NEW c \in Llamada, Recibir(c)
  PROVE  Base' /\ Cambio
<1>1. CASE \E op \in {"registro", "login"}, u \in Usuario, w \in Contrasena, n \in Navegador :
             Entrar(c, op, u, w, n)
  BY <1>1, AlEntrar
<1>2. CASE \E n \in Navegador : Refrescar(c, galleta[n], n) \/ CerrarSesion(c, galleta[n], n)
  <2>1. PICK n \in Navegador : Refrescar(c, galleta[n], n) \/ CerrarSesion(c, galleta[n], n)
    BY <1>2
  <2>2. galleta[n] \in Token \cup {Nada} /\ (galleta[n] # Nada => galleta[n] \in emitidos)
    BY DEF Base, TypeOK, Tokens
  <2> QED BY <2>1, <2>2, AlRefrescar, AlCerrarSesion
<1>3. CASE \E t \in emitidos : Refrescar(c, t, Nada)
  <2>1. PICK t \in emitidos : Refrescar(c, t, Nada)
    BY <1>3
  <2>2. t \in Token
    BY DEF Base, TypeOK
  <2> QED BY <2>1, <2>2, AlRefrescar
<1>4. CASE \E u \in Usuario : Olvidar(c, u)
  BY <1>4, AlOlvidar
<1>5. CASE \E e \in Enlace, w \in Contrasena : Restablecer(c, e, w)
  BY <1>5, AlRestablecer
<1> QED BY <1>1, <1>2, <1>3, <1>4, <1>5 DEF Recibir

\* A handler that moves on: what it never touches.
LEMMA AlIr ==
  ASSUME Base, NEW c \in Llamada, paso[c] \in EnCurso,
         NEW s \in EnCurso \cup {"fin"}, Ir(c, s),
         NEW r \in Salida, salida' = [salida EXCEPT ![c] = r],
         leida' = leida \/ (leida[c] = Nada /\ \E u \in Usuario : leida' = [leida EXCEPT ![c] = u]),
         nuevo' = nuevo \/ (nuevo[c] = Nada /\ \E t \in Token : nuevo' = [nuevo EXCEPT ![c] = t]),
         masivas' = masivas \/ masivas' = masivas \cup {c},
         cuenta' \in [Usuario -> Contrasena \cup {Nada}],
         filas' \in [Token -> FilaToken \cup {Nada}],
         enlaces' \in [Enlace -> FilaEnlace \cup {Nada}],
         reusos' \subseteq Llamada, emitidos' \subseteq Token
  PROVE  /\ TypeOK'
         /\ \A d \in Llamada \ {c} : Quieta(d)
         /\ Sigue(c) /\ Empieza(c)
         /\ paso'[c] = s /\ salida'[c] = r
         /\ UNCHANGED <<galleta, llamada, previas, llegadas>>
<1>1. TypeOK
  BY DEF Base
<1>2. paso' = [paso EXCEPT ![c] = s] /\ UNCHANGED <<galleta, llamada, previas, llegadas>>
  BY DEF Ir
<1>3. leida' \in [Llamada -> Usuario \cup {Nada}]
      /\ (\A d \in Llamada \ {c} : leida'[d] = leida[d])
      /\ (leida[c] = Nada \/ leida'[c] = leida[c])
  BY <1>1 DEF TypeOK
<1>4. nuevo' \in [Llamada -> Token \cup {Nada}]
      /\ (\A d \in Llamada \ {c} : nuevo'[d] = nuevo[d])
      /\ (nuevo[c] = Nada \/ nuevo'[c] = nuevo[c])
  BY <1>1 DEF TypeOK
<1>5. paso' \in [Llamada -> EnCurso \cup {"libre", "fin", "entregada"}]
      /\ (\A d \in Llamada \ {c} : paso'[d] = paso[d]) /\ paso'[c] = s
  BY <1>1, <1>2 DEF TypeOK
<1>6. salida' \in [Llamada -> Salida]
      /\ (\A d \in Llamada \ {c} : salida'[d] = salida[d]) /\ salida'[c] = r
  BY <1>1 DEF TypeOK
<1>7. masivas' \subseteq Llamada /\ (\A d \in Llamada \ {c} : d \in masivas' => d \in masivas)
  BY <1>1 DEF TypeOK
<1>8. TypeOK'
  BY <1>1, <1>2, <1>3, <1>4, <1>5, <1>6, <1>7 DEF TypeOK
<1>9. \A d \in Llamada \ {c} : Quieta(d)
  BY <1>2, <1>3, <1>4, <1>5, <1>6, <1>7 DEF Quieta
<1>10. paso[c] \notin {"libre", "fin", "entregada"} /\ s # "libre"
  BY DEF EnCurso
<1>11. ~Comienza(c) /\ ~Terminada(c)
  BY <1>10 DEF Comienza, Terminada
<1>12. Sigue(c)
  BY <1>2, <1>3, <1>4, <1>5, <1>10, <1>11 DEF Sigue
<1>13. Empieza(c)
  BY <1>11 DEF Empieza
<1> QED BY <1>2, <1>5, <1>6, <1>8, <1>9, <1>12, <1>13

\* Which leaves this to show of it.
LEMMA AlAvanzar ==
  ASSUME Base, NEW c \in Llamada, paso[c] \in EnCurso,
         NEW s \in EnCurso \cup {"fin"}, Ir(c, s),
         NEW r \in Salida, salida' = [salida EXCEPT ![c] = r],
         leida' = leida \/ (leida[c] = Nada /\ \E u \in Usuario : leida' = [leida EXCEPT ![c] = u]),
         nuevo' = nuevo \/ (nuevo[c] = Nada /\ \E t \in Token : nuevo' = [nuevo EXCEPT ![c] = t]),
         masivas' = masivas \/ masivas' = masivas \cup {c},
         cuenta' \in [Usuario -> Contrasena \cup {Nada}],
         filas' \in [Token -> FilaToken \cup {Nada}],
         enlaces' \in [Enlace -> FilaEnlace \cup {Nada}],
         reusos' \subseteq Llamada, emitidos' \subseteq Token,
         paso'[c] = s /\ salida'[c] = r /\ UNCHANGED <<galleta, llamada, previas>> =>
           Responde(c) /\ Avanza(c) /\ Deja(c) /\ Tablas /\ Ordenada(c)'
  PROVE  Base' /\ Cambio
<1>1. /\ TypeOK'
      /\ \A d \in Llamada \ {c} : Quieta(d)
      /\ Sigue(c) /\ Empieza(c)
      /\ paso'[c] = s /\ salida'[c] = r
      /\ UNCHANGED <<galleta, llamada, previas, llegadas>>
  BY AlIr
<1>2. Responde(c) /\ Avanza(c) /\ Deja(c) /\ Tablas /\ Ordenada(c)'
  BY <1>1
<1> QED BY <1>1, <1>2, PasoDeUno

\* The tables when only the account of this request changes, or nothing does.
LEMMA TablasQuietas ==
  ASSUME UNCHANGED <<filas, enlaces, galleta, emitidos, nuevo>>, masivas \subseteq masivas',
         UNCHANGED cuenta
  PROVE  Tablas
BY DEF Tablas

LEMMA AlLeerCuenta ==
  ASSUME Base, NEW c \in Llamada, LeerCuenta(c)
  PROVE  Base' /\ Cambio
<1>1. /\ TypeOK /\ Ordenada(c) /\ paso[c] = "leerCuenta" /\ paso[c] \in EnCurso
      /\ llamada[c].op \in {"registro", "login"}
      /\ salida = [salida EXCEPT ![c] = "ninguna"] /\ salida[c] = "ninguna"
  BY DeQuien DEF Base, LeerCuenta, EnCurso, Ordenada, TypeOK
<1>2. UNCHANGED <<varsTablas, leida, nuevo, emitidos, masivas>>
  BY DEF LeerCuenta
<1>3. PICK s \in EnCurso \cup {"fin"}, r \in Salida :
        /\ Ir(c, s) /\ salida' = [salida EXCEPT ![c] = r]
        /\ \/ s = "fin" /\ r \in {"conflicto", "credenciales"}
           \/ s = "crearCuenta" /\ r = "ninguna" /\ llamada[c].op = "registro"
           \/ s = "crearToken" /\ r = "ninguna" /\ llamada[c].op = "login"
  BY <1>1 DEF LeerCuenta, Acabar, Seguir, EnCurso, Salida
<1>4. ASSUME paso'[c] = s, salida'[c] = r, UNCHANGED <<galleta, llamada, previas>>
      PROVE  Responde(c) /\ Avanza(c) /\ Deja(c) /\ Tablas /\ Ordenada(c)'
  <2>1. Responde(c) /\ Avanza(c) /\ Deja(c)
    BY <1>1, <1>2, <1>3, <1>4 DEF Responde, Avanza, Deja
  <2>2. Tablas
    BY <1>2, <1>4, TablasQuietas DEF varsTablas
  <2>3. Ordenada(c)'
    BY <1>1, <1>2, <1>3, <1>4 DEF Ordenada, EnCurso, Pasos, varsTablas
  <2> QED BY <2>1, <2>2, <2>3
<1>5. /\ cuenta' \in [Usuario -> Contrasena \cup {Nada}]
      /\ filas' \in [Token -> FilaToken \cup {Nada}]
      /\ enlaces' \in [Enlace -> FilaEnlace \cup {Nada}]
      /\ reusos' \subseteq Llamada /\ emitidos' \subseteq Token
      /\ leida' = leida /\ nuevo' = nuevo /\ masivas' = masivas
  BY <1>1, <1>2 DEF varsTablas, TypeOK
<1> QED BY <1>1, <1>3, <1>4, <1>5, AlAvanzar

\* refresh: a row that is revoked leads to the accusation, a good one to a new token.
LEMMA AlLeerToken ==
  ASSUME Base, NEW c \in Llamada, LeerToken(c)
  PROVE  Base' /\ Cambio
<1>1. /\ TypeOK /\ Ordenada(c) /\ Enterada(c) /\ paso[c] = "leerToken" /\ paso[c] \in EnCurso
      /\ llamada[c].op = "refresh" /\ llamada[c].token # Nada
      /\ salida = [salida EXCEPT ![c] = "ninguna"] /\ salida[c] = "ninguna"
      /\ leida[c] = Nada
  BY DeQuien DEF Base, LeerToken, EnCurso, Ordenada, TypeOK
<1>2. UNCHANGED <<varsTablas, nuevo, emitidos, masivas>>
  BY DEF LeerToken
<1> DEFINE fila == filas[llamada[c].token]
<1>3. fila \in FilaToken \cup {Nada}
  BY <1>1 DEF TypeOK, Peticion
<1>4. PICK s \in EnCurso \cup {"fin"}, r \in Salida :
        /\ Ir(c, s) /\ salida' = [salida EXCEPT ![c] = r]
        /\ \/ leida' = leida /\ s = "fin" /\ r = "invalido"
           \/ /\ leida' = [leida EXCEPT ![c] = fila.usuario] /\ fila # Nada
              /\ \/ fila.revocado /\ s = "revocarTodos" /\ r = "ninguna"
                 \/ s = "fin" /\ r = "vencido"
                 \/ ~fila.revocado /\ s = "crearToken" /\ r = "ninguna"
  <2>1. CASE fila = Nada
    BY <2>1 DEF LeerToken, Acabar, Salida
  <2>2. CASE fila # Nada
    <3>1. leida' = [leida EXCEPT ![c] = fila.usuario]
      BY <2>2 DEF LeerToken
    <3>2. \/ fila.revocado /\ Seguir(c, "revocarTodos")
          \/ Acabar(c, "vencido")
          \/ ~fila.revocado /\ Seguir(c, "crearToken")
      BY <2>2 DEF LeerToken
    <3> QED BY <1>1, <2>2, <3>1, <3>2 DEF Acabar, Seguir, EnCurso, Salida
  <2> QED BY <2>1, <2>2
<1>5. \/ leida' = leida
      \/ fila.usuario \in Usuario /\ leida' = [leida EXCEPT ![c] = fila.usuario]
  BY <1>3, <1>4 DEF FilaToken
<1>6. leida'[c] = leida[c] \/ (leida'[c] = fila.usuario /\ fila.usuario \in Usuario)
  BY <1>1, <1>5 DEF TypeOK
<1>7. s \in {"revocarTodos", "crearToken"} => fila # Nada /\ leida'[c] = fila.usuario
                                              /\ fila.usuario \in Usuario
  BY <1>1, <1>3, <1>4 DEF TypeOK, FilaToken
<1>8. ASSUME paso'[c] = s, salida'[c] = r, UNCHANGED <<galleta, llamada, previas>>
      PROVE  Responde(c) /\ Avanza(c) /\ Deja(c) /\ Tablas /\ Ordenada(c)'
  <2>1. Responde(c) /\ Deja(c)
    BY <1>1, <1>2, <1>4, <1>8 DEF Responde, Deja
  <2>2. Avanza(c)
    BY <1>1, <1>4, <1>7, <1>8 DEF Avanza, Gastado
  <2>3. Tablas
    BY <1>2, <1>8, TablasQuietas DEF varsTablas
  <2>4. Ordenada(c)'
    <3>1. c \notin masivas' /\ UNCHANGED <<nuevo, enlaces>> /\ nuevo[c] = Nada
      BY <1>1, <1>2 DEF Ordenada, varsTablas
    <3> QED BY <1>1, <1>4, <1>6, <1>7, <1>8, <3>1 DEF Ordenada, EnCurso, Pasos
  <2> QED BY <2>1, <2>2, <2>3, <2>4
<1>9. /\ cuenta' \in [Usuario -> Contrasena \cup {Nada}]
      /\ filas' \in [Token -> FilaToken \cup {Nada}]
      /\ enlaces' \in [Enlace -> FilaEnlace \cup {Nada}]
      /\ reusos' \subseteq Llamada /\ emitidos' \subseteq Token
      /\ nuevo' = nuevo /\ masivas' = masivas
  BY <1>1, <1>2 DEF varsTablas, TypeOK
<1>10. leida' = leida \/ (leida[c] = Nada /\ \E u \in Usuario : leida' = [leida EXCEPT ![c] = u])
  BY <1>1, <1>5
<1>11. Ir(c, s) /\ salida' = [salida EXCEPT ![c] = r]
  BY <1>4
<1> HIDE DEF fila
<1> QED BY <1>1, <1>8, <1>9, <1>10, <1>11, AlAvanzar

LEMMA AlLeerCierre ==
  ASSUME Base, NEW c \in Llamada, LeerCierre(c)
  PROVE  Base' /\ Cambio
<1>1. /\ TypeOK /\ Ordenada(c) /\ paso[c] = "leerCierre" /\ paso[c] \in EnCurso
      /\ llamada[c].op = "logout" /\ llamada[c].token # Nada
      /\ salida = [salida EXCEPT ![c] = "ninguna"] /\ salida[c] = "ninguna"
  BY DeQuien DEF Base, LeerCierre, EnCurso, Ordenada, TypeOK
<1>2. UNCHANGED <<varsTablas, leida, nuevo, emitidos, masivas>>
  BY DEF LeerCierre
<1>3. PICK s \in EnCurso \cup {"fin"}, r \in Salida :
        /\ Ir(c, s) /\ salida' = [salida EXCEPT ![c] = r]
        /\ \/ s = "revocar" /\ r = "ninguna"
           \/ s = "fin" /\ r = "cerrada" /\ Gastado(llamada[c].token)
  BY <1>1 DEF LeerCierre, Acabar, Seguir, EnCurso, Salida, Gastado
<1>4. ASSUME paso'[c] = s, salida'[c] = r, UNCHANGED <<galleta, llamada, previas>>
      PROVE  Responde(c) /\ Avanza(c) /\ Deja(c) /\ Tablas /\ Ordenada(c)'
  <2>1. Responde(c) /\ Avanza(c) /\ Deja(c)
    BY <1>1, <1>2, <1>3, <1>4 DEF Responde, Avanza, Deja, Gastado, varsTablas
  <2>2. Tablas
    BY <1>2, <1>4, TablasQuietas DEF varsTablas
  <2>3. Ordenada(c)'
    BY <1>1, <1>2, <1>3, <1>4 DEF Ordenada, EnCurso, Pasos, varsTablas
  <2> QED BY <2>1, <2>2, <2>3
<1>5. /\ cuenta' \in [Usuario -> Contrasena \cup {Nada}]
      /\ filas' \in [Token -> FilaToken \cup {Nada}]
      /\ enlaces' \in [Enlace -> FilaEnlace \cup {Nada}]
      /\ reusos' \subseteq Llamada /\ emitidos' \subseteq Token
      /\ leida' = leida /\ nuevo' = nuevo /\ masivas' = masivas
  BY <1>1, <1>2 DEF varsTablas, TypeOK
<1> QED BY <1>1, <1>3, <1>4, <1>5, AlAvanzar

LEMMA AlLeerEnlace ==
  ASSUME Base, NEW c \in Llamada, LeerEnlace(c)
  PROVE  Base' /\ Cambio
<1>1. /\ TypeOK /\ Ordenada(c) /\ paso[c] = "leerEnlace" /\ paso[c] \in EnCurso
      /\ llamada[c].op = "restablecer" /\ llamada[c].enlace \in Enlace
      /\ salida = [salida EXCEPT ![c] = "ninguna"] /\ salida[c] = "ninguna"
      /\ leida[c] = Nada
  BY DeQuien DEF Base, LeerEnlace, EnCurso, Ordenada, TypeOK
<1>2. UNCHANGED <<varsTablas, nuevo, emitidos, masivas>>
  BY DEF LeerEnlace
<1> DEFINE fila == enlaces[llamada[c].enlace]
<1>3. fila \in FilaEnlace \cup {Nada}
  BY <1>1 DEF TypeOK
<1>4. PICK s \in EnCurso \cup {"fin"}, r \in Salida :
        /\ Ir(c, s) /\ salida' = [salida EXCEPT ![c] = r]
        /\ \/ leida' = leida /\ s = "fin" /\ r = "invalido"
           \/ /\ leida' = [leida EXCEPT ![c] = fila.usuario] /\ s = "cambiarClave"
              /\ r = "ninguna" /\ fila # Nada /\ ~fila.usado
  BY <1>1 DEF LeerEnlace, Acabar, Seguir, EnCurso, Salida
<1>5. \/ leida' = leida
      \/ fila.usuario \in Usuario /\ leida' = [leida EXCEPT ![c] = fila.usuario]
  BY <1>3, <1>4 DEF FilaEnlace
<1>6. \/ s = "fin" /\ r = "invalido" /\ leida'[c] = Nada
      \/ s = "cambiarClave" /\ r = "ninguna" /\ fila # Nada /\ ~fila.usado /\ leida'[c] \in Usuario
  BY <1>1, <1>3, <1>4 DEF TypeOK, FilaEnlace
<1>8. ASSUME paso'[c] = s, salida'[c] = r, UNCHANGED <<galleta, llamada, previas>>
      PROVE  Responde(c) /\ Avanza(c) /\ Deja(c) /\ Tablas /\ Ordenada(c)'
  <2>1. Responde(c) /\ Avanza(c) /\ Deja(c)
    BY <1>1, <1>2, <1>6, <1>8 DEF Responde, Avanza, Deja
  <2>2. Tablas
    BY <1>2, <1>8, TablasQuietas DEF varsTablas
  <2>3. Ordenada(c)'
    BY <1>1, <1>2, <1>6, <1>8 DEF Ordenada, EnCurso, Pasos, varsTablas
  <2> QED BY <2>1, <2>2, <2>3
<1>9. /\ cuenta' \in [Usuario -> Contrasena \cup {Nada}]
      /\ filas' \in [Token -> FilaToken \cup {Nada}]
      /\ enlaces' \in [Enlace -> FilaEnlace \cup {Nada}]
      /\ reusos' \subseteq Llamada /\ emitidos' \subseteq Token
      /\ nuevo' = nuevo /\ masivas' = masivas
  BY <1>1, <1>2 DEF varsTablas, TypeOK
<1>10. leida' = leida \/ (leida[c] = Nada /\ \E u \in Usuario : leida' = [leida EXCEPT ![c] = u])
  BY <1>1, <1>5
<1>11. Ir(c, s) /\ salida' = [salida EXCEPT ![c] = r]
  BY <1>4
<1> HIDE DEF fila
<1> QED BY <1>1, <1>8, <1>9, <1>10, <1>11, AlAvanzar

\* user.create: only an account that was not there is given a password.
LEMMA AlCrearCuenta ==
  ASSUME Base, NEW c \in Llamada, CrearCuenta(c)
  PROVE  Base' /\ Cambio
<1> DEFINE u == llamada[c].usuario
<1>1. /\ TypeOK /\ Ordenada(c) /\ paso[c] = "crearCuenta" /\ paso[c] \in EnCurso
      /\ llamada[c].op = "registro" /\ u \in Usuario /\ llamada[c].clave \in Contrasena
      /\ salida = [salida EXCEPT ![c] = "ninguna"] /\ salida[c] = "ninguna"
  BY DeQuien DEF Base, CrearCuenta, EnCurso, Ordenada, TypeOK
<1>2. UNCHANGED <<filas, enlaces, reusos, leida, nuevo, emitidos, masivas>>
  BY DEF CrearCuenta
<1>3. PICK s \in EnCurso \cup {"fin"}, r \in Salida :
        /\ Ir(c, s) /\ salida' = [salida EXCEPT ![c] = r]
        /\ \/ s = "fin" /\ r = "errorInterno" /\ UNCHANGED cuenta
           \/ /\ s = "crearToken" /\ r = "ninguna" /\ cuenta[u] = Nada
              /\ cuenta' = [cuenta EXCEPT ![u] = llamada[c].clave]
  BY <1>1 DEF CrearCuenta, Acabar, Seguir, EnCurso, Salida
<1>4. /\ cuenta' \in [Usuario -> Contrasena \cup {Nada}]
      /\ \A x \in Usuario : cuenta[x] # Nada => cuenta'[x] = cuenta[x]
      /\ s = "crearToken" => cuenta'[u] = llamada[c].clave
  BY <1>1, <1>3 DEF TypeOK
<1>5. ASSUME paso'[c] = s, salida'[c] = r, UNCHANGED <<galleta, llamada, previas>>
      PROVE  Responde(c) /\ Avanza(c) /\ Deja(c) /\ Tablas /\ Ordenada(c)'
  <2>1. Responde(c) /\ Avanza(c) /\ Deja(c)
    BY <1>1, <1>2, <1>3, <1>4, <1>5 DEF Responde, Avanza, Deja
  <2>2. Tablas
    BY <1>2, <1>4, <1>5 DEF Tablas
  <2>3. Ordenada(c)'
    BY <1>1, <1>2, <1>3, <1>5 DEF Ordenada, EnCurso, Pasos
  <2> QED BY <2>1, <2>2, <2>3
<1>6. /\ filas' \in [Token -> FilaToken \cup {Nada}]
      /\ enlaces' \in [Enlace -> FilaEnlace \cup {Nada}]
      /\ reusos' \subseteq Llamada /\ emitidos' \subseteq Token
      /\ leida' = leida /\ nuevo' = nuevo /\ masivas' = masivas
  BY <1>1, <1>2 DEF TypeOK
<1>7. Ir(c, s) /\ salida' = [salida EXCEPT ![c] = r]
  BY <1>3
<1> HIDE DEF u
<1> QED BY <1>1, <1>4, <1>5, <1>6, <1>7, AlAvanzar

\* The new password of an account that is reset is of a request that resets it.
LEMMA AlCambiarClave ==
  ASSUME Base, NEW c \in Llamada, CambiarClave(c)
  PROVE  Base' /\ Cambio
<1>1. /\ TypeOK /\ Ordenada(c) /\ paso[c] = "cambiarClave" /\ paso[c] \in EnCurso
      /\ llamada[c].op = "restablecer" /\ llamada[c].clave \in Contrasena /\ leida[c] \in Usuario
      /\ salida = [salida EXCEPT ![c] = "ninguna"] /\ salida[c] = "ninguna"
  BY DeQuien DEF Base, CambiarClave, EnCurso, Ordenada, TypeOK
<1>2. UNCHANGED <<filas, enlaces, reusos, leida, nuevo, emitidos, masivas>>
  BY DEF CambiarClave
<1>3. Ir(c, "marcarUsado") /\ salida' = [salida EXCEPT ![c] = "ninguna"]
  BY <1>1 DEF CambiarClave, Seguir
<1>4. /\ cuenta' \in [Usuario -> Contrasena \cup {Nada}]
      /\ \A x \in Usuario : x # leida[c] => cuenta'[x] = cuenta[x]
  BY <1>1 DEF TypeOK, CambiarClave
<1>5. ASSUME paso'[c] = "marcarUsado", salida'[c] = "ninguna", UNCHANGED <<galleta, llamada, previas>>
      PROVE  Responde(c) /\ Avanza(c) /\ Deja(c) /\ Tablas /\ Ordenada(c)'
  <2>1. Responde(c) /\ Avanza(c) /\ Deja(c)
    BY <1>1, <1>2, <1>5 DEF Responde, Avanza, Deja
  <2>2. Tablas
    BY <1>1, <1>2, <1>4, <1>5 DEF Tablas
  <2>3. Ordenada(c)'
    BY <1>1, <1>2, <1>5 DEF Ordenada, EnCurso, Pasos
  <2> QED BY <2>1, <2>2, <2>3
<1>6. /\ filas' \in [Token -> FilaToken \cup {Nada}]
      /\ enlaces' \in [Enlace -> FilaEnlace \cup {Nada}]
      /\ reusos' \subseteq Llamada /\ emitidos' \subseteq Token
      /\ leida' = leida /\ nuevo' = nuevo /\ masivas' = masivas
  BY <1>1, <1>2 DEF TypeOK
<1>7. "marcarUsado" \in EnCurso \cup {"fin"} /\ "ninguna" \in Salida
  BY DEF EnCurso, Salida
<1> QED BY <1>1, <1>3, <1>4, <1>5, <1>6, <1>7, AlAvanzar

LEMMA AlCrearEnlace ==
  ASSUME Base, NEW c \in Llamada, CrearEnlace(c)
  PROVE  Base' /\ Cambio
<1> DEFINE u == llamada[c].usuario
<1>1. /\ TypeOK /\ Ordenada(c) /\ paso[c] = "crearEnlace" /\ paso[c] \in EnCurso
      /\ llamada[c].op = "olvido" /\ u \in Usuario /\ salida[c] = "ninguna"
  BY DeQuien DEF Base, CrearEnlace, EnCurso, Ordenada, TypeOK
<1>2. UNCHANGED <<cuenta, filas, reusos, leida, nuevo, emitidos, masivas>>
  BY DEF CrearEnlace
<1>3. Ir(c, "fin") /\ salida' = [salida EXCEPT ![c] = "enviado"]
  BY DEF CrearEnlace, Acabar
<1>4. /\ enlaces' \in [Enlace -> FilaEnlace \cup {Nada}]
      /\ \A e \in Enlace : enlaces[e] # Nada => enlaces'[e] = enlaces[e]
  <2>1. CASE UNCHANGED enlaces
    BY <1>1, <2>1 DEF TypeOK
  <2>2. CASE ~UNCHANGED enlaces
    <3> DEFINE fila == [usuario |-> u, usado |-> FALSE, vencido |-> FALSE]
    <3>1. PICK e \in Enlace : enlaces[e] = Nada /\ enlaces' = [enlaces EXCEPT ![e] = fila]
      BY <2>2 DEF CrearEnlace
    <3>2. fila \in FilaEnlace
      BY <1>1 DEF FilaEnlace
    <3> HIDE DEF fila
    <3> QED BY <1>1, <3>1, <3>2 DEF TypeOK
  <2> QED BY <2>1, <2>2
<1>5. ASSUME paso'[c] = "fin", salida'[c] = "enviado", UNCHANGED <<galleta, llamada, previas>>
      PROVE  Responde(c) /\ Avanza(c) /\ Deja(c) /\ Tablas /\ Ordenada(c)'
  <2>1. Responde(c) /\ Avanza(c) /\ Deja(c)
    BY <1>1, <1>2, <1>5 DEF Responde, Avanza, Deja
  <2>2. Tablas
    BY <1>2, <1>4, <1>5 DEF Tablas
  <2>3. Ordenada(c)'
    BY <1>1, <1>2, <1>5 DEF Ordenada, EnCurso, Pasos
  <2> QED BY <2>1, <2>2, <2>3
<1>6. /\ cuenta' \in [Usuario -> Contrasena \cup {Nada}]
      /\ filas' \in [Token -> FilaToken \cup {Nada}]
      /\ reusos' \subseteq Llamada /\ emitidos' \subseteq Token
      /\ leida' = leida /\ nuevo' = nuevo /\ masivas' = masivas
  BY <1>1, <1>2 DEF TypeOK
<1>7. "fin" \in EnCurso \cup {"fin"} /\ "enviado" \in Salida
  BY DEF Salida
<1> HIDE DEF u
<1> QED BY <1>1, <1>3, <1>4, <1>5, <1>6, <1>7, AlAvanzar

LEMMA AlMarcarUsado ==
  ASSUME Base, NEW c \in Llamada, MarcarUsado(c)
  PROVE  Base' /\ Cambio
<1> DEFINE e == llamada[c].enlace
<1>1. /\ TypeOK /\ Ordenada(c) /\ paso[c] = "marcarUsado" /\ paso[c] \in EnCurso
      /\ llamada[c].op = "restablecer" /\ e \in Enlace /\ enlaces[e] # Nada
      /\ salida[c] = "ninguna"
  BY DeQuien DEF Base, MarcarUsado, EnCurso, Ordenada, TypeOK
<1>2. UNCHANGED <<cuenta, filas, reusos, leida, nuevo, emitidos, masivas>>
  BY DEF MarcarUsado
<1>3. Ir(c, "fin") /\ salida' = [salida EXCEPT ![c] = "cambiada"]
  BY DEF MarcarUsado, Acabar
<1> DEFINE fila == [enlaces[e] EXCEPT !.usado = TRUE]
<1>4. enlaces' = [enlaces EXCEPT ![e] = fila]
  BY DEF MarcarUsado
<1>5. fila \in FilaEnlace /\ fila.usado
  <2>1. enlaces[e] \in FilaEnlace
    BY <1>1 DEF TypeOK
  <2> QED BY <2>1 DEF FilaEnlace
<1> HIDE DEF fila
<1>6. /\ enlaces' \in [Enlace -> FilaEnlace \cup {Nada}]
      /\ \A x \in Enlace : x # e => enlaces'[x] = enlaces[x]
      /\ enlaces'[e] # Nada /\ enlaces'[e].usado
  BY <1>1, <1>4, <1>5, NadaNoEsFila DEF TypeOK
<1> HIDE DEF e
<1>7. ASSUME paso'[c] = "fin", salida'[c] = "cambiada", UNCHANGED <<galleta, llamada, previas>>
      PROVE  Responde(c) /\ Avanza(c) /\ Deja(c) /\ Tablas /\ Ordenada(c)'
  <2>1. Responde(c) /\ Avanza(c) /\ Deja(c)
    BY <1>1, <1>2, <1>6, <1>7 DEF Responde, Avanza, Deja, e
  <2>2. Tablas
    BY <1>2, <1>6, <1>7 DEF Tablas
  <2>3. Ordenada(c)'
    BY <1>1, <1>2, <1>7 DEF Ordenada, EnCurso, Pasos
  <2> QED BY <2>1, <2>2, <2>3
<1>8. /\ cuenta' \in [Usuario -> Contrasena \cup {Nada}]
      /\ filas' \in [Token -> FilaToken \cup {Nada}]
      /\ reusos' \subseteq Llamada /\ emitidos' \subseteq Token
      /\ leida' = leida /\ nuevo' = nuevo /\ masivas' = masivas
  BY <1>1, <1>2 DEF TypeOK
<1>9. "fin" \in EnCurso \cup {"fin"} /\ "cambiada" \in Salida
  BY DEF Salida
<1> QED BY <1>1, <1>3, <1>6, <1>7, <1>8, <1>9, AlAvanzar

LEMMA AlAuditar ==
  ASSUME Base, NEW c \in Llamada, Auditar(c)
  PROVE  Base' /\ Cambio
<1>1. /\ TypeOK /\ Ordenada(c) /\ paso[c] = "auditar" /\ paso[c] \in EnCurso
      /\ llamada[c].op = "refresh" /\ salida[c] = "ninguna"
  BY DeQuien DEF Base, Auditar, EnCurso, Ordenada, TypeOK
<1>2. UNCHANGED <<cuenta, filas, enlaces, leida, nuevo, emitidos, masivas>>
  BY DEF Auditar
<1>3. Ir(c, "fin") /\ salida' = [salida EXCEPT ![c] = "reuso"]
  BY DEF Auditar, Acabar
<1>4. ASSUME paso'[c] = "fin", salida'[c] = "reuso", UNCHANGED <<galleta, llamada, previas>>
      PROVE  Responde(c) /\ Avanza(c) /\ Deja(c) /\ Tablas /\ Ordenada(c)'
  <2>1. Responde(c) /\ Avanza(c) /\ Deja(c)
    BY <1>1, <1>2, <1>4 DEF Responde, Avanza, Deja
  <2>2. Tablas
    BY <1>2, <1>4, TablasQuietas
  <2>3. Ordenada(c)'
    BY <1>1, <1>2, <1>4 DEF Ordenada, EnCurso, Pasos
  <2> QED BY <2>1, <2>2, <2>3
<1>5. /\ cuenta' \in [Usuario -> Contrasena \cup {Nada}]
      /\ filas' \in [Token -> FilaToken \cup {Nada}]
      /\ enlaces' \in [Enlace -> FilaEnlace \cup {Nada}]
      /\ reusos' \subseteq Llamada /\ emitidos' \subseteq Token
      /\ leida' = leida /\ nuevo' = nuevo /\ masivas' = masivas
  BY <1>1, <1>2 DEF TypeOK, Auditar
<1>6. "fin" \in EnCurso \cup {"fin"} /\ "reuso" \in Salida
  BY DEF Salida
<1> QED BY <1>1, <1>3, <1>4, <1>5, <1>6, AlAvanzar

\* There is a least one of any tokens, so a fresh one as long as there are any left.
LEMMA PrimeroEsta ==
  ASSUME NEW S, S \subseteq Nat, S # {}
  PROVE  Primero(S) \in S /\ \A y \in S : Primero(S) <= y
<1>1. PICK x \in S : \A y \in S : <<y, x>> \notin OpToRel(<, Nat)
  BY NatLessThanWellFounded, WFMin, Zenon
<1>2. \A y \in S : ~(y < x)
  <2>1. SUFFICES ASSUME NEW y \in S, y < x
                 PROVE  FALSE
    OBVIOUS
  <2>2. <<y, x>> \in Nat \X Nat /\ <<y, x>>[1] = y /\ <<y, x>>[2] = x
    OBVIOUS
  <2>3. <<y, x>>[1] < <<y, x>>[2]
    BY <2>1, <2>2, Zenon
  <2>4. <<y, x>> \in OpToRel(<, Nat)
    BY <2>2, <2>3, Zenon DEF OpToRel
  <2> QED BY <1>1, <2>4, Zenon
<1>3. \A y \in S : x <= y
  BY <1>2
<1> QED BY <1>3, Zenon DEF Primero

\* generateTokens: the row of a token that never was before.
LEMMA AlCrearToken ==
  ASSUME Base, NEW c \in Llamada, CrearToken(c)
  PROVE  Base' /\ Cambio
<1> DEFINE t == Primero(Token \ emitidos)
           fila == FilaNueva(Duenio(c))
<1>1. /\ TypeOK /\ Ordenada(c) /\ paso[c] = "crearToken" /\ paso[c] \in EnCurso
      /\ llamada[c].op \in {"registro", "login", "refresh"}
      /\ salida = [salida EXCEPT ![c] = "ninguna"] /\ salida[c] = "ninguna"
      /\ nuevo[c] = Nada
  BY DeQuien DEF Base, CrearToken, EnCurso, Ordenada, TypeOK
<1>2. t \in Token /\ t \notin emitidos
  <2>1. Token \ emitidos \subseteq Nat /\ Token \ emitidos # {}
    BY <1>1, SesionesConstantes DEF CrearToken, TypeOK
  <2>2. t \in Token \ emitidos
    BY <2>1, PrimeroEsta
  <2> QED BY <2>2
<1>3. filas[t] = Nada /\ t # Nada
  BY <1>2, SesionesConstantes DEF Base, Tokens
<1>4. fila \in FilaToken /\ ~fila.revocado
  <2>1. Duenio(c) \in Usuario
    BY <1>1 DEF Duenio, Ordenada
  <2> QED BY <2>1 DEF FilaNueva, FilaToken
<1>5. /\ emitidos' = emitidos \cup {t}
      /\ nuevo' = [nuevo EXCEPT ![c] = t]
      /\ filas' = [filas EXCEPT ![t] = fila]
      /\ UNCHANGED <<cuenta, enlaces, reusos, leida, masivas>>
  BY DEF CrearToken
<1>6. PICK s \in EnCurso \cup {"fin"}, r \in Salida :
        /\ Ir(c, s) /\ salida' = [salida EXCEPT ![c] = r]
        /\ \/ s = "rotar" /\ r = "ninguna" /\ llamada[c].op = "refresh"
           \/ s = "fin" /\ r = "sesion"
  BY <1>1 DEF CrearToken, Acabar, Seguir, EnCurso, Salida
<1> HIDE DEF t, fila
<1>7. /\ filas' \in [Token -> FilaToken \cup {Nada}]
      /\ \A x \in Token : x # t => filas'[x] = filas[x]
      /\ filas'[t] = fila /\ nuevo'[c] = t
      /\ \A d \in Llamada : d # c => nuevo'[d] = nuevo[d]
      /\ emitidos' \subseteq Token /\ t \in emitidos' \ emitidos
  BY <1>1, <1>2, <1>4, <1>5 DEF TypeOK
<1>8. ASSUME paso'[c] = s, salida'[c] = r, UNCHANGED <<galleta, llamada, previas>>
      PROVE  Responde(c) /\ Avanza(c) /\ Deja(c) /\ Tablas /\ Ordenada(c)'
  <2>1. Responde(c) /\ Avanza(c)
    BY <1>1, <1>6, <1>8 DEF Responde, Avanza
  <2>2. Deja(c)
    BY <1>1, <1>5, <1>6, <1>7, <1>8 DEF Deja
  <2>3. Tablas
    <3>1. emitidos \subseteq emitidos'
      BY <1>5
    <3> QED BY <1>1, <1>3, <1>4, <1>5, <1>7, <1>8, <3>1 DEF Tablas
  <2>4. Ordenada(c)'
    BY <1>1, <1>5, <1>6, <1>8 DEF Ordenada, EnCurso, Pasos
  <2> QED BY <2>1, <2>2, <2>3, <2>4
<1>9. /\ cuenta' \in [Usuario -> Contrasena \cup {Nada}]
      /\ enlaces' \in [Enlace -> FilaEnlace \cup {Nada}]
      /\ reusos' \subseteq Llamada
      /\ leida' = leida /\ masivas' = masivas
  BY <1>1, <1>5 DEF TypeOK
<1>10. Ir(c, s) /\ salida' = [salida EXCEPT ![c] = r]
  BY <1>6
<1> QED BY <1>1, <1>2, <1>5, <1>7, <1>8, <1>9, <1>10, AlAvanzar

\* Reuse detected: no row of the user is left open.
LEMMA AlRevocarTodos ==
  ASSUME Base, NEW c \in Llamada, RevocarTodos(c)
  PROVE  Base' /\ Cambio
<1>1. /\ TypeOK /\ Ordenada(c) /\ paso[c] = "revocarTodos" /\ paso[c] \in EnCurso
      /\ llamada[c].op = "refresh" /\ leida[c] \in Usuario
      /\ salida = [salida EXCEPT ![c] = "ninguna"] /\ salida[c] = "ninguna"
  BY DeQuien DEF Base, RevocarTodos, EnCurso, Ordenada, TypeOK
<1>2. /\ masivas' = masivas \cup {c}
      /\ UNCHANGED <<cuenta, enlaces, reusos, leida, nuevo, emitidos>>
  BY DEF RevocarTodos
<1>3. Ir(c, "auditar") /\ salida' = [salida EXCEPT ![c] = "ninguna"]
  BY <1>1 DEF RevocarTodos, Seguir
<1>4. filas' = [t \in Token |->
                  IF filas[t] # Nada /\ filas[t].usuario = leida[c]
                  THEN [filas[t] EXCEPT !.revocado = TRUE] ELSE filas[t]]
  BY DEF RevocarTodos
<1>5. \A t \in Token :
        \/ /\ filas[t] \in FilaToken /\ filas'[t] \in FilaToken
           /\ filas'[t].usuario = filas[t].usuario /\ filas'[t].usuario = leida[c]
           /\ filas'[t].revocado
        \/ filas'[t] = filas[t] /\ filas[t] # Nada /\ filas[t].usuario # leida[c]
        \/ filas'[t] = filas[t] /\ filas[t] = Nada
  <2>1. TAKE t \in Token
  <2>2. CASE filas[t] # Nada /\ filas[t].usuario = leida[c]
    <3>1. filas[t] \in FilaToken
      BY <1>1, <2>2 DEF TypeOK
    <3>2. filas'[t] = [filas[t] EXCEPT !.revocado = TRUE]
      BY <1>4, <2>2
    <3> QED BY <2>2, <3>1, <3>2 DEF FilaToken
  <2>3. CASE ~(filas[t] # Nada /\ filas[t].usuario = leida[c])
    BY <1>4, <2>3
  <2> QED BY <2>2, <2>3
<1>6. filas' \in [Token -> FilaToken \cup {Nada}]
  <2>1. \A t \in Token : filas'[t] \in FilaToken \cup {Nada}
    BY <1>1, <1>5 DEF TypeOK
  <2>2. filas' = [t \in Token |-> filas'[t]]
    BY <1>4
  <2> QED BY <2>1, <2>2
<1>7. ASSUME paso'[c] = "auditar", salida'[c] = "ninguna", UNCHANGED <<galleta, llamada, previas>>
      PROVE  Responde(c) /\ Avanza(c) /\ Deja(c) /\ Tablas /\ Ordenada(c)'
  <2>1. Responde(c) /\ Avanza(c)
    BY <1>1, <1>7 DEF Responde, Avanza
  <2>2. Deja(c)
    BY <1>1, <1>2, <1>5, <1>7 DEF Deja
  <2>3. Tablas
    BY <1>2, <1>5, <1>7, NadaNoEsFila DEF Tablas
  <2>4. Ordenada(c)'
    BY <1>1, <1>2, <1>7 DEF Ordenada, EnCurso, Pasos
  <2> QED BY <2>1, <2>2, <2>3, <2>4
<1>8. /\ cuenta' \in [Usuario -> Contrasena \cup {Nada}]
      /\ enlaces' \in [Enlace -> FilaEnlace \cup {Nada}]
      /\ reusos' \subseteq Llamada /\ emitidos' \subseteq Token
      /\ leida' = leida /\ nuevo' = nuevo
  BY <1>1, <1>2 DEF TypeOK
<1>9. "auditar" \in EnCurso \cup {"fin"} /\ "ninguna" \in Salida
  BY DEF EnCurso, Salida
<1> QED BY <1>1, <1>2, <1>3, <1>6, <1>7, <1>8, <1>9, AlAvanzar

\* The row of the token is revoked by the request that spends it.
LEMMA AlGastar ==
  ASSUME Base, NEW c \in Llamada, Rotar(c) \/ Revocar(c)
  PROVE  Base' /\ Cambio
<1> DEFINE t == llamada[c].token
<1>1. /\ TypeOK /\ Ordenada(c) /\ paso[c] \in {"rotar", "revocar"} /\ paso[c] \in EnCurso
      /\ paso[c] = "rotar" => llamada[c].op = "refresh"
      /\ paso[c] = "revocar" => llamada[c].op = "logout"
      /\ salida[c] = "ninguna"
  BY DeQuien DEF Base, Rotar, Revocar, EnCurso, Ordenada, TypeOK
<1>2. Presenta(c) /\ t \in Token
  BY <1>1 DEF Presenta, Ordenada, TypeOK, Peticion
<1>3. UNCHANGED <<cuenta, enlaces, reusos, leida, nuevo, emitidos, masivas>>
  BY DEF Rotar, Revocar
<1>4. PICK r \in Salida :
        /\ Ir(c, "fin") /\ salida' = [salida EXCEPT ![c] = r]
        /\ \/ filas[t] = Nada /\ UNCHANGED filas /\ r = "errorInterno"
           \/ /\ filas[t] # Nada /\ r \in {"renovada", "cerrada"}
              /\ r = "renovada" => paso[c] = "rotar"
              /\ \/ filas' = [filas EXCEPT ![t].revocado = TRUE, ![t].reemplazo = nuevo[c]]
                 \/ filas' = [filas EXCEPT ![t].revocado = TRUE]
  BY DEF Rotar, Revocar, Acabar, Salida
<1> HIDE DEF t
<1>5. /\ filas' \in [Token -> FilaToken \cup {Nada}]
      /\ \A x \in Token : x # t => filas'[x] = filas[x]
      /\ \/ UNCHANGED filas /\ r = "errorInterno"
         \/ /\ filas[t] # Nada /\ r \in {"renovada", "cerrada"}
            /\ filas'[t].usuario = filas[t].usuario /\ filas'[t].revocado
  <2>1. CASE UNCHANGED filas /\ r = "errorInterno"
    BY <1>1, <2>1 DEF TypeOK
  <2>2. CASE /\ filas[t] # Nada /\ r \in {"renovada", "cerrada"}
             /\ filas' = [filas EXCEPT ![t].revocado = TRUE, ![t].reemplazo = nuevo[c]]
    <3> DEFINE f == [[filas[t] EXCEPT !.revocado = TRUE] EXCEPT !.reemplazo = nuevo[c]]
    <3>1. filas[t] \in FilaToken /\ nuevo[c] \in Token \cup {Nada}
      BY <1>1, <1>2, <2>2 DEF TypeOK
    <3>2. filas' = [filas EXCEPT ![t] = f]
      BY <1>1, <1>2, <2>2 DEF TypeOK
    <3>3. f \in FilaToken /\ f.revocado /\ f.usuario = filas[t].usuario
      BY <3>1 DEF FilaToken
    <3> HIDE DEF f
    <3> QED BY <1>1, <1>2, <2>2, <3>2, <3>3 DEF TypeOK
  <2>3. CASE /\ filas[t] # Nada /\ r \in {"renovada", "cerrada"}
             /\ filas' = [filas EXCEPT ![t].revocado = TRUE]
    <3> DEFINE f == [filas[t] EXCEPT !.revocado = TRUE]
    <3>1. filas[t] \in FilaToken
      BY <1>1, <1>2, <2>3 DEF TypeOK
    <3>2. filas' = [filas EXCEPT ![t] = f]
      BY <2>3
    <3>3. f \in FilaToken /\ f.revocado /\ f.usuario = filas[t].usuario
      BY <3>1 DEF FilaToken
    <3> HIDE DEF f
    <3> QED BY <1>1, <1>2, <2>3, <3>2, <3>3 DEF TypeOK
  <2> QED BY <1>4, <2>1, <2>2, <2>3
<1>6. r = "renovada" => paso[c] = "rotar"
  BY <1>4
<1>7. ASSUME paso'[c] = "fin", salida'[c] = r, UNCHANGED <<galleta, llamada, previas>>
      PROVE  Responde(c) /\ Avanza(c) /\ Deja(c) /\ Tablas /\ Ordenada(c)'
  <2>1. Responde(c)
    BY <1>1, <1>5, <1>6, <1>7 DEF Responde, Gastado, t
  <2>2. Avanza(c) /\ Deja(c)
    BY <1>1, <1>3, <1>7 DEF Avanza, Deja
  <2>3. ASSUME NEW x \in Token, x = t, r \in {"renovada", "cerrada"}
        PROVE  \E d \in Llamada : Gasta(d, x)'
    BY <1>2, <1>7, <2>3 DEF Gasta, Presenta, t
  <2>4. Tablas
    BY <1>2, <1>3, <1>5, <1>7, <2>3 DEF Tablas
  <2>5. Ordenada(c)'
    BY <1>1, <1>3, <1>5, <1>7 DEF Ordenada, EnCurso, Pasos
  <2> QED BY <2>1, <2>2, <2>4, <2>5
<1>8. /\ cuenta' \in [Usuario -> Contrasena \cup {Nada}]
      /\ enlaces' \in [Enlace -> FilaEnlace \cup {Nada}]
      /\ reusos' \subseteq Llamada /\ emitidos' \subseteq Token
      /\ leida' = leida /\ nuevo' = nuevo /\ masivas' = masivas
  BY <1>1, <1>3 DEF TypeOK
<1>9. Ir(c, "fin") /\ salida' = [salida EXCEPT ![c] = r] /\ "fin" \in EnCurso \cup {"fin"}
  BY <1>4
<1> QED BY <1>1, <1>5, <1>7, <1>8, <1>9, AlAvanzar

\* The browser takes the cookie of the answer.
LEMMA AlEntregar ==
  ASSUME Base, NEW c \in Llamada, Entregar(c)
  PROVE  Base' /\ Cambio
<1> DEFINE n == llamada[c].navegador
<1>1. /\ TypeOK /\ Ordenada(c) /\ paso[c] = "fin" /\ n \in Navegador
  BY DEF Base, Entregar, TypeOK, Peticion
<1>2. /\ paso' = [paso EXCEPT ![c] = "entregada"]
      /\ UNCHANGED <<varsTablas, llamada, leida, nuevo, salida, varsHistoria>>
  BY DEF Entregar
<1>3. \/ /\ salida[c] \in {"sesion", "renovada"} /\ galleta' = [galleta EXCEPT ![n] = nuevo[c]]
      \/ salida[c] = "cerrada" /\ galleta' = [galleta EXCEPT ![n] = Nada]
      \/ salida[c] \notin {"sesion", "renovada", "cerrada"} /\ galleta' = galleta
  BY DEF Entregar
<1> HIDE DEF n
<1>4. /\ galleta' \in [Navegador -> Token \cup {Nada}]
      /\ \A x \in Navegador : galleta'[x] \in {galleta[x], Nada, nuevo[c]}
      /\ salida[c] = "renovada" => galleta'[n] = nuevo[c]
      /\ salida[c] = "cerrada" => galleta'[n] = Nada
  <2>1. galleta \in [Navegador -> Token \cup {Nada}] /\ nuevo[c] \in Token \cup {Nada}
    BY <1>1 DEF TypeOK
  <2> QED BY <1>1, <1>3, <2>1
<1>5. /\ paso' \in [Llamada -> EnCurso \cup {"libre", "fin", "entregada"}]
      /\ \A d \in Llamada : d # c => paso'[d] = paso[d]
      /\ paso'[c] = "entregada"
  BY <1>1, <1>2 DEF TypeOK
<1>6. TypeOK'
  BY <1>1, <1>2, <1>4, <1>5 DEF TypeOK, varsTablas, varsHistoria
<1>7. \A d \in Llamada \ {c} : Quieta(d)
  BY <1>2, <1>5 DEF Quieta, varsHistoria
<1>8. Sigue(c) /\ Empieza(c)
  BY <1>1, <1>2, <1>5 DEF Sigue, Empieza, Comienza, Terminada, varsHistoria
<1>9. Responde(c) /\ Avanza(c)
  BY <1>1, <1>2, <1>5 DEF Responde, Avanza
<1>10. Deja(c)
  BY <1>1, <1>2, <1>4, <1>5 DEF Deja, varsHistoria, n
<1>11. Tablas
  BY <1>1, <1>2, <1>4, <1>5 DEF Tablas, varsTablas, varsHistoria
<1>12. Ordenada(c)'
  BY <1>1, <1>2, <1>5 DEF Ordenada, EnCurso, varsTablas, varsHistoria
<1> QED BY <1>6, <1>7, <1>8, <1>9, <1>10, <1>11, <1>12, PasoDeUno

\* Time and the nightly job touch no request.
LEMMA AlEntorno ==
  ASSUME Base, TypeOK', Tablas, UNCHANGED <<paso, llamada, leida, nuevo, salida, varsHistoria>>
  PROVE  Base' /\ Cambio
<1>1. \A d \in Llamada : Quieta(d)
  BY DEF Quieta, varsHistoria
<1>2. Cambio
  BY <1>1, QuietaCambia DEF Cambio
<1>3. \A d \in Llamada : Ordenada(d)'
  BY <1>1, QuietaOrdenada DEF Base
<1>4. Tokens' /\ \A d \in Llamada : Enterada(d)'
  BY <1>2, TokensSigue, EnteradaSigue
<1> QED BY <1>2, <1>3, <1>4 DEF Base

LEMMA AlVencerToken ==
  ASSUME Base, NEW t \in Token, VencerToken(t)
  PROVE  Base' /\ Cambio
<1> DEFINE f == [filas[t] EXCEPT !.vencido = TRUE]
<1>1. TypeOK /\ filas[t] # Nada
  BY DEF Base, VencerToken
<1>2. filas' = [filas EXCEPT ![t] = f]
      /\ UNCHANGED <<cuenta, enlaces, reusos, galleta, paso, llamada, leida, nuevo, salida,
                     varsHistoria>>
  BY DEF VencerToken
<1>3. f \in FilaToken /\ f.usuario = filas[t].usuario /\ f.revocado = filas[t].revocado
  <2>1. filas[t] \in FilaToken
    BY <1>1 DEF TypeOK
  <2> QED BY <2>1 DEF FilaToken
<1> HIDE DEF f
<1>4. /\ filas' \in [Token -> FilaToken \cup {Nada}] /\ filas'[t] = f
      /\ \A x \in Token : x # t => filas'[x] = filas[x]
  BY <1>1, <1>2, <1>3 DEF TypeOK
<1>5. TypeOK'
  BY <1>1, <1>2, <1>4 DEF TypeOK, varsHistoria
<1>6. Tablas
  BY <1>1, <1>2, <1>3, <1>4 DEF Tablas, varsHistoria
<1> QED BY <1>2, <1>5, <1>6, AlEntorno

LEMMA AlVencerEnlace ==
  ASSUME Base, NEW e \in Enlace, VencerEnlace(e)
  PROVE  Base' /\ Cambio
<1> DEFINE f == [enlaces[e] EXCEPT !.vencido = TRUE]
<1>1. TypeOK /\ enlaces[e] # Nada
  BY DEF Base, VencerEnlace
<1>2. enlaces' = [enlaces EXCEPT ![e] = f]
      /\ UNCHANGED <<cuenta, filas, reusos, galleta, paso, llamada, leida, nuevo, salida,
                     varsHistoria>>
  BY DEF VencerEnlace
<1>3. f \in FilaEnlace /\ f # Nada /\ f.usado = enlaces[e].usado
  <2>1. enlaces[e] \in FilaEnlace
    BY <1>1 DEF TypeOK
  <2>2. f \in FilaEnlace /\ f.usado = enlaces[e].usado
    BY <2>1 DEF FilaEnlace
  <2> QED BY <2>2, NadaNoEsFila
<1> HIDE DEF f
<1>4. /\ enlaces' \in [Enlace -> FilaEnlace \cup {Nada}] /\ enlaces'[e] = f
      /\ \A x \in Enlace : x # e => enlaces'[x] = enlaces[x]
  BY <1>1, <1>2, <1>3 DEF TypeOK
<1>5. TypeOK'
  BY <1>1, <1>2, <1>4 DEF TypeOK, varsHistoria
<1>6. Tablas
  BY <1>1, <1>2, <1>3, <1>4 DEF Tablas, varsHistoria
<1> QED BY <1>2, <1>5, <1>6, AlEntorno

LEMMA AlLimpiar ==
  ASSUME Base, limpiarTokensExpirados
  PROVE  Base' /\ Cambio
<1>1. /\ TypeOK
      /\ filas' = [t \in Token |-> IF filas[t] # Nada /\ filas[t].vencido THEN Nada ELSE filas[t]]
      /\ UNCHANGED <<cuenta, enlaces, reusos, galleta, paso, llamada, leida, nuevo, salida,
                     varsHistoria>>
  BY DEF Base, limpiarTokensExpirados
<1>2. \A t \in Token : filas'[t] = Nada \/ filas'[t] = filas[t]
  BY <1>1
<1>3. filas' \in [Token -> FilaToken \cup {Nada}]
  <2>1. \A t \in Token : filas[t] \in FilaToken \cup {Nada}
    BY <1>1 DEF TypeOK
  <2> QED BY <1>1, <2>1
<1>4. TypeOK'
  BY <1>1, <1>3 DEF TypeOK, varsHistoria
<1>5. Tablas
  BY <1>1, <1>2 DEF Tablas, varsHistoria
<1> QED BY <1>1, <1>4, <1>5, AlEntorno

\* Every step is a change as described, and keeps what the handlers rely on.
LEMMA PasoCambia ==
  ASSUME Base, [Next]_varsSesiones
  PROVE  Base' /\ Cambio
<1>1. ASSUME NEW c \in Llamada, Paso(c)
      PROVE  Base' /\ Cambio
  BY <1>1, AlLeerCuenta, AlCrearCuenta, AlCrearToken, AlLeerToken, AlRevocarTodos, AlAuditar,
     AlGastar, AlLeerCierre, AlCrearEnlace, AlLeerEnlace, AlCambiarClave, AlMarcarUsado DEF Paso
<1>2. ASSUME NEW c \in Llamada, Recibir(c) \/ Entregar(c)
      PROVE  Base' /\ Cambio
  BY <1>2, AlRecibir, AlEntregar
<1>3. CASE (\E t \in Token : VencerToken(t)) \/ (\E e \in Enlace : VencerEnlace(e))
           \/ limpiarTokensExpirados
  BY <1>3, AlVencerToken, AlVencerEnlace, AlLimpiar
<1>4. CASE UNCHANGED varsSesiones
  <2>1. UNCHANGED <<cuenta, filas, enlaces, reusos, galleta, paso, llamada, leida, nuevo, salida,
                    varsHistoria>>
    BY <1>4 DEF varsSesiones, varsTablas
  <2>2. TypeOK'
    BY <2>1 DEF Base, TypeOK, varsHistoria
  <2>3. Tablas
    BY <2>1 DEF Tablas, varsHistoria
  <2> QED BY <2>1, <2>2, <2>3, AlEntorno
<1> QED BY <1>1, <1>2, <1>3, <1>4 DEF Next
------------------------------------------------------------------------------

LEMMA Inicial == Init => IInv
<1> SUFFICES ASSUME Init
             PROVE  IInv
  OBVIOUS
<1>1. PICK abiertas \in SUBSET Navegador, de \in [Navegador -> Usuario] :
        /\ galleta = [n \in Navegador |-> IF n \in abiertas THEN Previa[n] ELSE Nada]
        /\ emitidos = {Previa[n] : n \in abiertas}
        /\ filas = [t \in Token |->
                      IF t \in emitidos
                      THEN FilaNueva(de[CHOOSE n \in abiertas : Previa[n] = t])
                      ELSE Nada]
  BY DEF Init
<1>2. /\ cuenta \in [Usuario -> Contrasena \cup {Nada}]
      /\ enlaces = [e \in Enlace |-> Nada] /\ reusos = {}
      /\ paso = [c \in Llamada |-> "libre"] /\ llamada = [c \in Llamada |-> SinPeticion]
      /\ leida = [c \in Llamada |-> Nada] /\ nuevo = [c \in Llamada |-> Nada]
      /\ salida = [c \in Llamada |-> "ninguna"] /\ masivas = {}
      /\ previas = [c \in Llamada |-> {}] /\ llegadas = [c \in Llamada |-> {}]
  BY DEF Init
<1>3. emitidos \subseteq Token /\ galleta \in [Navegador -> Token \cup {Nada}]
  BY <1>1, SesionesConstantes
<1>4. \A t \in Token : \/ filas[t] = Nada
                       \/ t \in emitidos /\ filas[t] \in FilaToken /\ ~filas[t].revocado
  <2>1. TAKE t \in Token
  <2>2. CASE t \in emitidos
    <3>1. \E n \in abiertas : Previa[n] = t
      BY <1>1, <2>2
    <3>2. de[CHOOSE n \in abiertas : Previa[n] = t] \in Usuario
      BY <3>1
    <3>3. filas[t] = FilaNueva(de[CHOOSE n \in abiertas : Previa[n] = t])
      BY <1>1, <2>2
    <3> QED BY <2>2, <3>2, <3>3 DEF FilaNueva, FilaToken
  <2>3. CASE t \notin emitidos
    BY <1>1, <2>3
  <2> QED BY <2>2, <2>3
<1>5. filas \in [Token -> FilaToken \cup {Nada}]
  <2>1. \A t \in Token : filas[t] \in FilaToken \cup {Nada}
    BY <1>4
  <2>2. filas = [t \in Token |-> filas[t]]
    BY <1>1
  <2> QED BY <2>1, <2>2
<1>6. TypeOK
  <2>1. SinPeticion \in Peticion
    BY DEF SinPeticion, Peticion, Operacion
  <2> QED BY <1>2, <1>3, <1>5, <2>1 DEF TypeOK, Salida
<1>7. ASSUME NEW c \in Llamada
      PROVE  Ordenada(c) /\ Enterada(c) /\ ~Presenta(c) /\ llamada[c].op = "refresh"
  <2>1. /\ paso[c] = "libre" /\ llamada[c] = SinPeticion /\ salida[c] = "ninguna"
        /\ leida[c] = Nada /\ nuevo[c] = Nada /\ previas[c] = {} /\ llegadas[c] = {}
        /\ c \notin masivas
    BY <1>2
  <2>2. llamada[c].op = "refresh" /\ llamada[c].token = Nada
    BY <2>1 DEF SinPeticion
  <2> QED BY <2>1, <2>2 DEF Ordenada, Enterada, Presenta, EnCurso
<1>8. Tokens
  <2>1. \A n \in Navegador : galleta[n] # Nada => galleta[n] \in emitidos
    BY <1>1
  <2>2. \A c \in Llamada : nuevo[c] = Nada
    BY <1>2
  <2> QED BY <1>4, <1>7, <2>1, <2>2 DEF Tokens, Presenta
<1>9. \A c \in Llamada : salida[c] = "ninguna" /\ paso[c] = "libre" /\ masivas = {}
  BY <1>2
<1>10. GastoFirme /\ GalletaFirme
  BY <1>7 DEF GastoFirme, GalletaFirme, Gasta
<1>11. EnlaceFirme /\ CuentaFirme /\ AlarmaFundada
  BY <1>9 DEF EnlaceFirme, CuentaFirme, AlarmaFundada
<1>12. MasivaFirme /\ RevocadaPorAlguien
  BY <1>2, <1>4 DEF MasivaFirme, RevocadaPorAlguien
<1> QED BY <1>6, <1>7, <1>8, <1>10, <1>11, <1>12 DEF IInv, Base

LEMMA PasoInvariante == IInv /\ [Next]_varsSesiones => IInv'
<1> SUFFICES ASSUME IInv, [Next]_varsSesiones
             PROVE  IInv'
  OBVIOUS
<1>1. Base /\ Base' /\ Cambio
  BY PasoCambia DEF IInv
<1>2. TypeOK'
  BY <1>1 DEF Base
<1>3. GastoFirme' /\ EnlaceFirme' /\ CuentaFirme' /\ MasivaFirme'
  BY <1>1, <1>2, GastoFirmeSigue, EnlaceFirmeSigue, CuentaFirmeSigue, MasivaFirmeSigue DEF IInv
<1>4. RevocadaPorAlguien' /\ GalletaFirme' /\ AlarmaFundada'
  BY <1>1, RevocadaSigue, GalletaFirmeSigue, AlarmaFundadaSigue DEF IInv
<1> QED BY <1>1, <1>3, <1>4 DEF IInv

\* The inductive invariant: what is spent stays spent in the tables, in the handlers that
\* are under way and in the cookies, and what is revoked has who revoked it.
THEOREM Invariante == Spec => []IInv
BY Inicial, PasoInvariante, PTL DEF Spec

\* Rows, cookies and requests keep their types, whatever requests interleave.
THEOREM TiposSesiones == Spec => []TypeOK
<1>1. IInv => TypeOK
  BY DEF IInv, Base
<1> QED BY Invariante, <1>1, PTL

\* refresh and logout: a token that a finished request exchanged or closed is never
\* exchanged again by a request that begins later.
THEOREM TokenGastadoNoSirveSiempre == Spec => []TokenGastadoNoSirve
<1>1. IInv => TokenGastadoNoSirve
  <2> SUFFICES ASSUME IInv, NEW c \in Llamada, NEW d \in Llamada,
                      llamada[c].op \in {"refresh", "logout"}, llamada[d].op = "refresh",
                      llamada[c].token # Nada, llamada[c].token = llamada[d].token,
                      salida[c] \in {"renovada", "cerrada"}, c \in previas[d]
               PROVE  salida[d] # "renovada"
    BY DEF TokenGastadoNoSirve
  <2>1. llamada[c].token \in Token
    BY DEF IInv, Base, TypeOK, Peticion
  <2>2. Gasta(c, llamada[c].token)
    BY DEF Gasta, Presenta
  <2> QED BY <2>1, <2>2 DEF IInv, GastoFirme
<1> QED BY <1>1, Invariante, PTL

\* refresh, when it detects a reuse: the sessions of the user that are still open come from
\* requests that had not ended when the detecting one began.
THEOREM ReusoCierraSesionesSiempre == Spec => []ReusoCierraSesiones
<1>1. IInv => ReusoCierraSesiones
  BY DEF IInv, Base, Ordenada, MasivaFirme, ReusoCierraSesiones
<1> QED BY <1>1, Invariante, PTL

\* refresh: nobody is accused of reuse without another request that presented the token,
\* or an earlier accusation of the same user.
THEOREM SinFalsaAlarmaSiempre == Spec => []SinFalsaAlarma
<1>1. IInv => SinFalsaAlarma
  BY DEF IInv, AlarmaFundada, Gasta, Presenta, SinFalsaAlarma
<1> QED BY <1>1, Invariante, PTL

\* register: the account is of the one registration that succeeded, until it is reset.
THEOREM CuentaDeQuienRegistroSiempre == Spec => []CuentaDeQuienRegistro
<1>1. IInv => CuentaDeQuienRegistro
  BY DEF IInv, CuentaFirme, CuentaDeQuienRegistro
<1> QED BY <1>1, Invariante, PTL

\* resetPassword: a link that changed the password changes it no more, for requests that
\* begin later.
THEOREM EnlaceGastadoNoSirveSiempre == Spec => []EnlaceGastadoNoSirve
<1>1. IInv => EnlaceGastadoNoSirve
  BY DEF IInv, EnlaceFirme, EnlaceGastadoNoSirve
<1> QED BY <1>1, Invariante, PTL
================================================================================
