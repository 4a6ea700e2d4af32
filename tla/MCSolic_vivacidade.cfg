CONSTANTS
  Solicitantes = {sol}
  Gestores = {ges}
  Aprovador = apr
  Sessoes = {}
  Tipos <- TodosOsTipos
  MaxPedidos = 2
  MaxVersao = 1
  MaxFalhas = 1
SPECIFICATION SpecJusta
PROPERTIES DrenaFila WorkerResponde
