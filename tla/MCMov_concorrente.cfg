CONSTANTS
  Sessoes = {s1, s2}
  Escritores <- SemFormulario
  Destinos <- Variados
  MaxLinhas = 2
  MaxPedidos = 0
  MaxFalhas = 0
SPECIFICATION Spec
CHECK_DEADLOCK FALSE
PROPERTY NaoRebobina
SYMMETRY Simetria
