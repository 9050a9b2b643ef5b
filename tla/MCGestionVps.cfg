SPECIFICATION SpecJusta
CONSTANTS
  c1 = c1
  c2 = c2
  u1 = u1
  u2 = u2
  v1 = v1
  v2 = v2
  i1 = i1
  Nada = Nada
  Llamada <- MCLlamada
  Usuario <- MCUsuario
  Vps <- MCVps
  Agente <- MCAgente
  Ip <- MCIp
  Inicios <- MCInicios
  Operaciones <- MCOperaciones
INVARIANTS
  UnVpsActivoPorIp
  TrasBorrarRechazado
  TokenReemplazadoNoSirve
PROPERTIES
  PropiedadRespetada
  LatidoReactiva
