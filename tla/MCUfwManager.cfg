SPECIFICATION Spec
CONSTANTS
  c1 = c1
  c2 = c2
  a = a
  b = b
  p = p
  Invalida = Invalida
  Nadie = Nadie
  Llamada <- MCLlamada
  Red <- MCRed
  Protegida <- MCProtegida
  MaxReglas = 1
  RateLimitOps = 1
  Ventana = 1
  MaxReloj = 2
INVARIANTS
  TypeOK
  VentanaDeCuota
  DecisionVigente
  CupoDeReglas
  NuncaProtegida
PROPERTIES
  CumplePromesa
SYMMETRY Simetria
