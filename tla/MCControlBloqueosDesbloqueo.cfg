SPECIFICATION Spec
CONSTANTS
  v1 = v1
  s1 = s1
  p1 = p1
  p2 = p2
  k1 = k1
  k2 = k2
  i1 = i1
  u1 = u1
  Nada = Nada
  Entorno <- MCEntornoNada
  MaxProcesados = 10
  Vps <- MCVps
  Socket <- MCUnSocket
  Peticion <- MCDosPeticiones
  Clave <- MCClave
  Ip <- MCIp
  Usuario <- MCUsuario
  Duenio <- MCDuenio
INVARIANTS
  DesbloqueoCumplido
