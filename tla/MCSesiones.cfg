SPECIFICATION Spec
CONSTANTS
  c1 = c1
  c2 = c2
  c3 = c3
  u1 = u1
  n1 = n1
  e1 = e1
  w1 = w1
  w2 = w2
  Nada = Nada
  Entorno <- EventosSesion
  Llamada <- MCLlamada
  Usuario <- MCUsuario
  Navegador <- MCNavegador
  Token <- MCToken
  Previa <- MCPrevia
  Enlace <- MCEnlace
  Contrasena <- MCContrasena
SYMMETRY Simetria
INVARIANTS
  TokenGastadoNoSirve
  ReusoCierraSesiones
  SinFalsaAlarma
  CuentaDeQuienRegistro
  EnlaceGastadoNoSirve
