CONSTANTS
  Sessoes = {s1, s2}
  Escritores <- SemDecisao
  Destinos <- Extremos
  MaxLinhas = 2
  MaxPedidos = 1
  MaxFalhas = 1
SPECIFICATION Spec
CHECK_DEADLOCK FALSE
INVARIANTS TypeOK UmaLinhaPorPedido
PROPERTY LinhasLegais
SYMMETRY Simetria
