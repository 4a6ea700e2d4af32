CONSTANTS
  Partes = {"motor", "painel"}
  Leitores = {r1, r2}
  Chaves = {fde}
  Aquecedor = aquecedor
  ChaveAquecida = todos
  TTL = 2
  Periodo = 1
  Varredura = 1
  MaxTempo = 3
  MaxDados = 1
  Paineis <- PaineisAcer
  ComRejeicao = {"painel"}
  Apontamentos = {f1}
  MaxSelecoes = 2
  MaxErros = 1
SPECIFICATION MemoriaSpec
CHECK_DEADLOCK FALSE
INVARIANTS TypeOK VooUnico IdadeLimitada PainelEmDia
PROPERTY TodosSaoAtendidos
