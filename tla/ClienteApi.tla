----------------------------- MODULE ClienteApi -----------------------------
(***************************************************************************)
(* client/src/app/core/api-client (generated) with the interceptor of      *)
(* app.config.ts: what a page asks for, and what it can be told.           *)
(*                                                                         *)
(* A request is the record of the options of an sdk function; a response   *)
(* keeps what `request` looks at.  What a page sees is one of three:       *)
(*   "datos"      response.data                                            *)
(*   "error"      response.error, which is never falsy                     *)
(*   "excepcion"  the promise rejects: a body that breaks off, or that is  *)
(*                not the JSON it says it is                               *)
(* so that a page that only looks at response.error, and one that only has *)
(* a catch, each miss something.                                           *)
(*                                                                         *)
(* Abstracted: the text of a URL, of a header and of a body.               *)
(***************************************************************************)
EXTENDS Naturals, Sequences, FiniteSets

CONSTANT Nada     \* no value: undefined, null, the empty option of a select

\* The operations with a `security` entry, as sdk.gen.ts lists them.
ProtegidasDeVps ==
  {"logout", "vps.findAll", "vps.create", "vps.remove", "vps.findOne", "vps.regenerateToken",
   "vps.getMetricas"}
Protegidas ==
  ProtegidasDeVps \cup
  {"bloqueos.findAll", "bloqueos.create", "bloqueos.remove", "configuracion.findByVps",
   "configuracion.update", "alertas.findAll", "alertas.findOne", "alertas.updateEstado",
   "whitelist.findAll", "whitelist.create", "whitelist.remove"}
------------------------------------------------------------------------------
(* The request *)

\* A parameter with no value is left out of the query.
createQuerySerializer(query) ==
  [n \in {m \in DOMAIN query : query[m] # Nada} |-> query[n]]

getUrl(o) == [op |-> o.op, path |-> o.path, query |-> createQuerySerializer(o.query)]

\* Without a body there is none, and no Content-Type either.
getValidRequestBody(o) == o.body

\* setAuthParams adds nothing: there is no callback that knows the token.
getAuthToken(callback) == callback
setAuthParams(headers, callback) ==
  IF getAuthToken(callback) = Nada THEN headers ELSE headers \cup {"Authorization"}

beforeRequest(o) ==
  [url |-> getUrl(o), body |-> getValidRequestBody(o),
   headers |-> LET tipo == IF o.body = Nada THEN {} ELSE {"Content-Type"} IN
               IF o.op \in Protegidas THEN setAuthParams(tipo, Nada) ELSE tipo]

\* The interceptor: the token of localStorage, for every operation.
interceptor(p, token) ==
  IF token THEN [p EXCEPT !.headers = @ \cup {"Authorization"}] ELSE p

Peticion(o, token) == interceptor(beforeRequest(o), token)
------------------------------------------------------------------------------
(* The response *)

\* No answer at all is Nada.  tipo is the Content-Type, vacia a 204 or a length of 0.
Respuesta ==
  [ok : BOOLEAN, tipo : {"json", "texto", Nada}, vacia : BOOLEAN,
   cuerpo : {"entero", "no_json", "roto"}] \cup {Nada}

getParseAs(tipo) == CASE tipo = Nada -> "stream" [] tipo = "json" -> "json" [] OTHER -> "text"

\* What makes the reading of an accepted answer throw.
NoSeLee(r) ==
  CASE getParseAs(r.tipo) = "stream" -> FALSE
    [] getParseAs(r.tipo) = "json" -> ~r.vacia /\ r.cuerpo # "entero"
    [] OTHER -> r.cuerpo = "roto"

\* JSON.parse of an error may fail, not the reading of its text.
request(r) ==
  CASE r = Nada -> "error"
    [] r # Nada /\ r.ok -> IF NoSeLee(r) THEN "excepcion" ELSE "datos"
    [] OTHER -> IF r.cuerpo = "roto" THEN "excepcion" ELSE "error"

\* The server answers JSON, and accepts what it did; a guard refuses a protected operation
\* without its header.  Whatever it did, the answer may be lost or break off.
RespuestasA(p, hecho) ==
  LET aceptable == hecho /\ (p.url.op \in Protegidas => "Authorization" \in p.headers) IN
  {Nada} \cup {r \in Respuesta \ {Nada} :
                 /\ r.ok => aceptable
                 /\ r.tipo = "json" /\ ~r.vacia /\ r.cuerpo # "no_json"}

Desenlaces(p, hecho) == {request(r) : r \in RespuestasA(p, hecho)}

\* What a page asked for goes on when the page is destroyed, and so does the promise that
\* waits for it; requests are sets of records with the field propia, of this page.
Ajenas(pedidas) == {[x EXCEPT !.propia = FALSE] : x \in pedidas}

\* The server has done x, and has not said so yet.
Hecha(pedidas, x) == (pedidas \ {x}) \cup {[x EXCEPT !.hecho = TRUE]}

\* VpsService throws what request returns as an error: its callers see an answer or not.
vpsService(p, hecho) == {d = "datos" : d \in Desenlaces(p, hecho)}
==============================================================================
