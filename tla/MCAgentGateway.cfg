SPECIFICATION SpecGatewayJusta
CONSTANTS
  v1 = v1
  s1 = s1
  s2 = s2
  p1 = p1
  p2 = p2
  p3 = p3
  k1 = k1
  k2 = k2
  Nada = Nada
  Entorno <- Eventos
  Vps <- MCVps
  Socket <- MCSocket
  Peticion <- MCDosPeticiones
  Clave <- MCClave
INVARIANTS
  EsperaConTemporizador
  PendienteVivo
  OrdenUnicaConservaRespuesta
PROPERTIES
  TodaOrdenSeResuelve
  DesconexionPropia
