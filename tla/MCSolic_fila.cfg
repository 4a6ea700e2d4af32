CONSTANTS
  Solicitantes = {sol}
  Gestores = {ges}
  Aprovador = apr
  Sessoes = {}
  Tipos <- TodosOsTipos
  MaxPedidos = 2
  MaxVersao = 2
  MaxFalhas = 0
SPECIFICATION Spec
INVARIANTS TypeOK SoAplicaAprovado AplicaNoMaximoUmaVez NinguemFicaParado
