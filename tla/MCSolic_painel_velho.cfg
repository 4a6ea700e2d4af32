CONSTANTS
  Solicitantes = {sol}
  Gestores = {ges}
  Aprovador = apr
  Sessoes = {s1}
  Tipos <- TodosOsTipos
  MaxPedidos = 1
  MaxVersao = 2
  MaxFalhas = 0
SPECIFICATION Spec
INVARIANT AplicaOQueFoiVisto
