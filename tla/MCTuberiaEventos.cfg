SPECIFICATION SpecJusta
CONSTANTS
  m1 = m1
  m2 = m2
  Monitor <- MCMonitor
  MaxCola = 1
  Lote = 2
  MaxReintentos = 2
  ConSender = TRUE
  MaxEventos = 3
  MaxHallazgos = 2
  MaxArranques = 1
  Entorno <- EventosTuberia
INVARIANTS
  VaciadoATiempo
  EnviadoEstaGuardado
PROPERTIES
  SinReenvio
  CumpleEntrega
  ApagadoTermina
