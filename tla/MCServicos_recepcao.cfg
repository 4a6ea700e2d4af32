CONSTANTS
  Servicos = {"recepcao"}
  Sessoes = {s1}
  Escritores = {}
  Destinos <- DestinosVariados
  MaxLinhas = 3
  MaxPedidos = 1
  MaxFalhas = 1
  i1 = i1
  i2 = i2
  Instancias = {i1, i2}
  Admin = adm
  Processos = {1, 2}
  TipoDe <- TipoDoEmail
  MaxMovs = 2
  MaxVinculos = 5
  Cenarios <- CenariosProt
  Agendadores = {a1, a2}
  Maos = {m1, m2}
  Horarios = {1}
  Janela = 2
  Correios = {e1}
  Alvos = {1, 2}
  MaxMinuto = 3
  Orcamentos <- OrcamentosRot
  Cliques = {k1, k2}
  MaxTarefas = 2
  MaxPanes = 2
  Lotes = {1}
  Blocos = 2
  MaxRodadas = 2
  MaxFalhasClaro = 3
  Varreduras = {v1, v2}
  Textos = {t1}
  Conexoes = {c1, c2}
  MaxVarreduras = 3
  MaxQuedasRec = 1
  Chamadas = {p1, p2, p3}
  Lugares = 1
  Pessoas = {u1, u2}
  Admins = {u1}
  TarefasT = {1, 2}
  ProtocoloDe <- MesmoProtocolo
  MaxMudancas = 1
  MaxACaminho = 1
  MaxPerdas = 1
  Gravadores = {g1, g2}
  Dias = {1, 2, 3}
  SemFim = 99
  Percentuais = {10, 20}
  MaxVigencias = 3
  MaxCorrecoes = 1
SPECIFICATION ServicosSpec
CHECK_DEADLOCK FALSE
INVARIANT UmAvisoPorTexto
