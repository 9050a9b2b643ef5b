SPECIFICATION Spec
CONSTANTS
  a1 = a1
  a2 = a2
  f1 = f1
  f2 = f2
  e1 = e1
  e2 = e2
  s1 = s1
  s2 = s2
  s3 = s3
  vpsId = s3
  Nuevos <- MCNuevos
  c1 = c1
  c2 = c2
  Nada = Nada
  Alerta <- MCAlerta
  Filtros <- MCFiltros
  Canales = 2
  Conexiones = 2
  Copias = 2
  Fila <- MCFila
  limit = 1
  Listados = 3
  Entrada <- MCEntrada
  Servidor <- MCServidor
  Campo <- MCCampo
  Valor = {0, 1}
  Defecto <- MCDefecto
  Tokens = 2
  EnVuelo = 2
  Entornos <- MCEntornos
INVARIANTS
  RegistroCompleto
  UltimaEnVivoVisible
  PaginasFieles
  BlancaFiel
  NoPisaConfiguracion
PROPERTIES
  SinSesionNoSeEntra
  BotonResponde
CHECK_DEADLOCK FALSE
