CONSTANTS
  Sessoes = {s1, s2}
  Escritores = {}
  Destinos <- Variados
  MaxLinhas = 3
  MaxPedidos = 1
  MaxFalhas = 0
SPECIFICATION Spec
CHECK_DEADLOCK FALSE
INVARIANT EspelhaHistorico
