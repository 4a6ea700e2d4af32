---------------------------- MODULE Solicitacoes ----------------------------
(* The queue FT_SOLICITACOES: requests written in the chat, handled by HTTP  *)
(* handlers (backend/handlers/solicitacoes.go), by the executor that cron    *)
(* starts every minute (backend/cmd/executor_solicitacoes/main.go), by       *)
(* run_jobs.py (host tasks) and by the tier-2 worker (run_worker.sh).        *)
(* They share nothing but the table. Each statement that reaches MySQL on    *)
(* its own is a step of its own; a handler that reads and later writes keeps *)
(* what it read in its session.                                              *)
EXTENDS Integers, FiniteSets

CONSTANTS Solicitantes,  \* users whose profile is read-only
          Gestores,      \* users that podeAlterar accepts
          Aprovador,     \* the user that ehAprovador accepts
          Sessoes,       \* HTTP handlers in flight at the same time
          Tipos,         \* what a text may turn out to be, see TodosTipos
          MaxPedidos,    \* bound: rows ever created
          MaxVersao,     \* bound: texts a row goes through
          MaxFalhas      \* bound: crashes, lost updates and kills

TodosTipos == {"relatorio", "edicao", "job",  \* Montar builds an action
               "consulta",                    \* free text, no write verb
               "livre"}                       \* free text, with a write verb
Usuarios == Solicitantes \cup Gestores \cup {Aprovador}
Ids      == 1..MaxPedidos
Versoes  == 1..MaxVersao

ASSUME ConstantesOK ==
  /\ MaxPedidos \in Nat \ {0}
  /\ MaxVersao \in Nat \ {0}
  /\ MaxFalhas \in Nat
  /\ Tipos \subseteq TodosTipos
  /\ Aprovador \notin Solicitantes

VARIABLES
  linha,     \* the row of each id; status "ausente" when there is none
  proximo,   \* AUTO_INCREMENT
  backup,    \* has the id rows of FT_EXECUTOR_BACKUP not yet reverted?
  sessao,    \* what each HTTP handler in flight has read
  tela,      \* the text of each pending row on the approver's panel, 0 if none
  executor,  \* the executor process: its queue in memory and its phase
  worker,    \* the rows the tier-2 worker listed and has not answered
  tarefa,    \* the row run_jobs.py is running, id 0 if none
  falhas     \* failures so far
VARIABLES      \* history, read by the properties only
  aplicada,  \* how many times the executor wrote each text of each row
  iniciada,  \* how many times run_jobs started each text of each row
  tratadas,  \* the texts of each row that some actor has worked through
  aprovadas  \* what the approver let through, and what his panel showed then

tabela  == <<linha, proximo, backup>>
atores  == <<sessao, tela, executor, worker, tarefa, falhas>>
historia == <<aplicada, iniciada, tratadas, aprovadas>>
vars == <<tabela, atores, historia>>

SemAcao == [op |-> "nenhuma", versao |-> 0]
Acoes   == {SemAcao} \cup [op : {"relatorio", "edicao", "job"}, versao : Versoes]
Status  == {"ausente", "pendente", "aprovado", "revisao", "executando",
            "preciso_confirmar", "executado", "erro", "revertido"}
Linhas  == [dono : Usuarios, versao : Versoes, tipo : TodosTipos, acao : Acoes,
            status : Status, executado : BOOLEAN,
            resultado : {"outro", "naoReconhecido", "decisaoHumana", "portal"}]
Itens   == [id : Ids, versao : Versoes, acao : Acoes]
Marcas  == {"executado", "erro", "revisao"}
Sessao  == [op : {"livre", "verificou", "reabriu", "leu", "restaurou"},
            id : Ids, versao : Versoes, tipo : TodosTipos]

LinhaAusente == [dono |-> Aprovador, versao |-> 1, tipo |-> "livre",
                 acao |-> SemAcao, status |-> "ausente", executado |-> FALSE,
                 resultado |-> "outro"]
SessaoLivre  == [op |-> "livre", id |-> 1, versao |-> 1, tipo |-> "livre"]
SemTarefa    == [id |-> 0, versao |-> 1]
Parado       == [fase |-> "parado", fila |-> {},
                 marca |-> [status |-> "executado", resultado |-> "outro"]]

Existe(id)     == linha[id].status # "ausente"
PodeAlterar(u) == u \in Gestores \cup {Aprovador}
EhLeitura(t)   == t \in {"relatorio", "consulta"}
\* the structured action that Montar makes of the text v, of kind t
Montar(t, v)   == IF t \in {"relatorio", "edicao", "job"}
                  THEN [op |-> t, versao |-> v] ELSE SemAcao
\* mutant: every user who may alter data approves himself
PortaDeGestor(u, t) == IF t = "relatorio" THEN "aprovado"
                       ELSE IF t = "consulta" THEN "revisao"
                       ELSE IF PodeAlterar(u) THEN "aprovado" ELSE "pendente"
\* the status a request enters the queue with
Porta(u, t) == IF t = "relatorio" THEN "aprovado"
               ELSE IF t = "consulta" THEN "revisao"
               ELSE IF u = Aprovador THEN "aprovado" ELSE "pendente"
\* the text that would be carried out: the one the action was built from, or,
\* without an action, the text of the row itself
Alvo(r) == IF r.acao.op = "nenhuma" THEN r.versao ELSE r.acao.versao
Escreve(r) == r.acao.op # "relatorio"

Aprova(id, alvo, vista) ==
  aprovadas' = aprovadas \cup {[id |-> id, alvo |-> alvo, vista |-> vista]}

Init ==
  /\ linha = [i \in Ids |-> LinhaAusente]
  /\ proximo = 1
  /\ backup = [i \in Ids |-> FALSE]
  /\ sessao = [s \in Sessoes |-> SessaoLivre]
  /\ tela = [i \in Ids |-> 0]
  /\ executor = Parado
  /\ worker = {}
  /\ tarefa = SemTarefa
  /\ falhas = 0
  /\ aplicada = [i \in Ids |-> [v \in Versoes |-> 0]]
  /\ iniciada = [i \in Ids |-> [v \in Versoes |-> 0]]
  /\ tratadas = [i \in Ids |-> {}]
  /\ aprovadas = {}

-----------------------------------------------------------------------------
(* HTTP handlers                                                             *)

CriarSolicitacao(u, t) ==
  /\ proximo \in Ids
  /\ EhLeitura(t) \/ PodeAlterar(u)
  /\ linha' = [linha EXCEPT ![proximo] =
        [LinhaAusente EXCEPT !.dono = u, !.tipo = t, !.acao = Montar(t, 1),
                             !.status = Porta(u, t)]]
  /\ proximo' = proximo + 1
  /\ IF u = Aprovador /\ ~EhLeitura(t) THEN Aprova(proximo, 1, 1)
                                       ELSE UNCHANGED aprovadas
  /\ UNCHANGED <<backup, atores, aplicada, iniciada, tratadas>>

\* the panel polls the pending rows every 15 seconds
ListarSolicitacoes ==
  /\ tela' = [i \in Ids |-> IF linha[i].status = "pendente"
                            THEN linha[i].versao ELSE 0]
  /\ UNCHANGED <<tabela, sessao, executor, worker, tarefa, falhas, historia>>

\* the button exists for a row on the panel; the UPDATE only asks the status
AprovarSolicitacao(id) ==
  /\ tela[id] # 0
  /\ linha[id].status = "pendente"
  /\ linha' = [linha EXCEPT ![id].status = "aprovado"]
  /\ Aprova(id, Alvo(linha[id]), tela[id])
  /\ UNCHANGED <<proximo, backup, atores, aplicada, iniciada, tratadas>>

RejeitarSolicitacao(id) ==
  /\ Existe(id)
  /\ linha' = [linha EXCEPT ![id] = LinhaAusente]
  /\ UNCHANGED <<proximo, backup, atores, historia>>

\* mutant: executado_em survives the answer
ResponderSemReabrir(id, t) ==
  /\ linha[id].status = "preciso_confirmar"
  /\ linha[id].versao < MaxVersao
  /\ linha' = [linha EXCEPT ![id].versao = @ + 1, ![id].tipo = t,
                            ![id].status = "revisao", ![id].resultado = "outro"]
  /\ UNCHANGED <<proximo, backup, atores, historia>>
\* mutant: the answer sends the row back to the executor
ResponderAoExecutor(id, t) ==
  /\ linha[id].status = "preciso_confirmar"
  /\ linha[id].versao < MaxVersao
  /\ linha' = [linha EXCEPT ![id].versao = @ + 1, ![id].tipo = t,
                            ![id].status = "aprovado", ![id].executado = FALSE,
                            ![id].resultado = "outro"]
  /\ UNCHANGED <<proximo, backup, atores, historia>>

ResponderConfirmacao(id, t) ==
  /\ linha[id].status = "preciso_confirmar"
  /\ linha[id].versao < MaxVersao
  /\ linha' = [linha EXCEPT ![id].versao = @ + 1, ![id].tipo = t,
                            ![id].status = "revisao", ![id].executado = FALSE,
                            ![id].resultado = "outro"]
  /\ UNCHANGED <<proximo, backup, atores, historia>>

\* CorrigirSolicitacao, first SELECT: owner and text; a read-only user is
\* stopped here when text and correction together (kind t) ask for a write
CorrigirVerifica(s, id, t) ==
  /\ sessao[s].op = "livre"
  /\ Existe(id)
  /\ linha[id].versao
       + Cardinality({x \in Sessoes : sessao[x].op = "verificou"
                                      /\ sessao[x].id = id}) < MaxVersao
  /\ PodeAlterar(linha[id].dono) \/ EhLeitura(t)
  /\ sessao' = [sessao EXCEPT ![s] = [op |-> "verificou", id |-> id,
                                      versao |-> linha[id].versao, tipo |-> t]]
  /\ UNCHANGED <<tabela, tela, executor, worker, tarefa, falhas, historia>>

\* mutant: the corrected row keeps its status, an approval included
ReabreSemPendente(s, t) ==
  LET id == sessao[s].id IN
  /\ sessao[s].op = "verificou"
  /\ linha[id].versao = sessao[s].versao => t = sessao[s].tipo
  /\ linha[id].versao < MaxVersao
  /\ linha' = IF ~Existe(id) THEN linha
              ELSE [linha EXCEPT ![id].versao = @ + 1, ![id].tipo = t,
                                 ![id].acao = SemAcao, ![id].executado = FALSE]
  /\ sessao' = [sessao EXCEPT ![s].op = "reabriu"]
  /\ UNCHANGED <<proximo, backup, tela, executor, worker, tarefa, falhas, historia>>

\* mutant: the corrected row is pending again only if it was not closed yet
ReabreSoAberta(s, t) ==
  LET id == sessao[s].id
      r  == linha[id]
  IN
  /\ sessao[s].op = "verificou"
  /\ r.versao = sessao[s].versao => t = sessao[s].tipo
  /\ r.versao < MaxVersao
  /\ linha' = IF ~Existe(id) THEN linha
              ELSE [linha EXCEPT ![id].versao = @ + 1, ![id].tipo = t, ![id].acao = SemAcao,
                                 ![id].status = IF r.executado THEN @ ELSE "pendente"]
  /\ sessao' = [sessao EXCEPT ![s].op = "reabriu"]
  /\ UNCHANGED <<proximo, backup, tela, executor, worker, tarefa, falhas, historia>>
\* first UPDATE: the text grows, the row is pending and without action again
CorrigirReabre(s, t) ==
  LET id == sessao[s].id IN
  /\ sessao[s].op = "verificou"
  /\ linha[id].versao = sessao[s].versao => t = sessao[s].tipo
  /\ linha[id].versao < MaxVersao
  /\ linha' = IF ~Existe(id) THEN linha
              ELSE [linha EXCEPT ![id].versao = @ + 1, ![id].tipo = t,
                                 ![id].status = "pendente", ![id].acao = SemAcao,
                                 ![id].executado = FALSE]
  /\ sessao' = [sessao EXCEPT ![s].op = "reabriu"]
  /\ UNCHANGED <<proximo, backup, tela, executor, worker, tarefa, falhas, historia>>

\* second SELECT, and Montar on what it returned
CorrigirReinterpreta(s) ==
  LET r == linha[sessao[s].id] IN
  /\ sessao[s].op = "reabriu"
  /\ sessao' = [sessao EXCEPT ![s].op = "leu", ![s].versao = r.versao,
                              ![s].tipo = r.tipo]
  /\ UNCHANGED <<tabela, tela, executor, worker, tarefa, falhas, historia>>

\* second UPDATE: action and status, whatever the row has become meanwhile
CorrigirGrava(s) ==
  LET p  == sessao[s]
      r  == linha[p.id]
      r2 == [r EXCEPT !.acao = Montar(p.tipo, p.versao),
                      !.status = Porta(r.dono, p.tipo)]
  IN
  /\ p.op = "leu"
  /\ sessao' = [sessao EXCEPT ![s] = SessaoLivre]
  /\ linha' = IF Existe(p.id) THEN [linha EXCEPT ![p.id] = r2] ELSE linha
  /\ IF Existe(p.id) /\ r.dono = Aprovador /\ ~EhLeitura(p.tipo)
     THEN Aprova(p.id, Alvo(r2), Alvo(r2)) ELSE UNCHANGED aprovadas
  /\ UNCHANGED <<proximo, backup, tela, executor, worker, tarefa, falhas,
                 aplicada, iniciada, tratadas>>

\* ReverterSolicitacao: the rows of the backup are put back one by one
\* (a failure leaves the loop and the row as it was), then the row is marked
ReverterRestaura(s, id, falhou) ==
  /\ sessao[s].op = "livre"
  /\ backup[id]
  /\ falhou => falhas < MaxFalhas
  /\ falhas' = IF falhou THEN falhas + 1 ELSE falhas
  /\ \E resta \in {FALSE, falhou} : backup' = [backup EXCEPT ![id] = resta]
  /\ sessao' = IF falhou THEN sessao
               ELSE [sessao EXCEPT ![s] = [SessaoLivre EXCEPT
                                             !.op = "restaurou", !.id = id]]
  /\ UNCHANGED <<linha, proximo, tela, executor, worker, tarefa, historia>>

ReverterMarca(s) ==
  LET id == sessao[s].id IN
  /\ sessao[s].op = "restaurou"
  /\ linha' = IF Existe(id) THEN [linha EXCEPT ![id].status = "revertido"] ELSE linha
  /\ sessao' = [sessao EXCEPT ![s] = SessaoLivre]
  /\ UNCHANGED <<proximo, backup, tela, executor, worker, tarefa, falhas, historia>>

\* the backend stops, or the connection is lost, between two statements
SessaoMorre(s) ==
  /\ sessao[s].op # "livre"
  /\ falhas < MaxFalhas
  /\ falhas' = falhas + 1
  /\ sessao' = [sessao EXCEPT ![s] = SessaoLivre]
  /\ UNCHANGED <<tabela, tela, executor, worker, tarefa, historia>>

-----------------------------------------------------------------------------
(* The executor: one at a time (flock), the whole queue read at the start    *)

Item(id)   == [id |-> id, versao |-> linha[id].versao, acao |-> linha[id].acao]
NaFila(id) == linha[id].status = "aprovado" /\ ~linha[id].executado

ExecutorInicia ==
  /\ executor.fase = "parado"
  /\ \E id \in Ids : NaFila(id)
  /\ executor' = [Parado EXCEPT !.fase = "rodando",
                                !.fila = {Item(id) : id \in {i \in Ids : NaFila(i)}}]
  /\ UNCHANGED <<tabela, sessao, tela, worker, tarefa, falhas, historia>>

\* the item it is at (ORDER BY id)
Atual(it)   == it \in executor.fila /\ \A x \in executor.fila : it.id <= x.id
Avanca(it)  == LET resto == executor.fila \ {it} IN
               IF resto = {} THEN Parado
               ELSE [Parado EXCEPT !.fase = "rodando", !.fila = resto]

\* mutant: the empty status of handle() is written like any other
MarcaTarefaVazia(it) ==
  /\ executor.fase = "rodando" /\ Atual(it)
  /\ it.acao.op = "job"
  /\ linha' = IF Existe(it.id) THEN [linha EXCEPT ![it.id].status = ""] ELSE linha
  /\ executor' = Avanca(it)
  /\ UNCHANGED <<proximo, backup, sessao, tela, worker, tarefa, falhas, historia>>

ExecutorPulaTarefa(it) ==
  /\ executor.fase = "rodando" /\ Atual(it)
  /\ it.acao.op = "job"
  /\ executor' = Avanca(it)
  /\ UNCHANGED <<tabela, sessao, tela, worker, tarefa, falhas, historia>>

\* what handle() may answer. Without an action the text is searched for
\* "repasse": found, the repasse is filled in; otherwise nobody recognises it.
Respostas(op) ==
  {[status |-> st, resultado |-> "outro"] : st \in {"executado", "erro"}}
  \cup (IF op = "relatorio" THEN {} ELSE {[status |-> "revisao", resultado |-> "outro"]})
  \cup (IF op = "nenhuma" THEN {[status |-> "revisao", resultado |-> "naoReconhecido"]} ELSE {})

\* handle(): its transactions commit here, before the row is marked
ExecutorAplica(it, m, gravou) ==
  /\ executor.fase = "rodando" /\ Atual(it)
  /\ it.acao.op # "job"
  /\ m \in Respostas(it.acao.op)
  /\ gravou => Escreve(it) /\ m.status # "revisao"
  /\ executor' = [executor EXCEPT !.fase = "aplicou", !.marca = m]
  /\ IF gravou
     THEN /\ aplicada' = [aplicada EXCEPT ![it.id][Alvo(it)] = @ + 1]
          /\ backup' = [backup EXCEPT ![it.id] = TRUE]
     ELSE UNCHANGED <<aplicada, backup>>
  /\ tratadas' = IF m.status = "revisao" THEN tratadas
                 ELSE [tratadas EXCEPT ![it.id] = @ \cup {Alvo(it)}]
  /\ UNCHANGED <<linha, proximo, sessao, tela, worker, tarefa, falhas, iniciada,
                 aprovadas>>

\* mutant: an error leaves the row in the queue, to be tried again
MarcaSemErro(it, falhou) ==
  LET m == executor.marca IN
  /\ executor.fase = "aplicou" /\ Atual(it)
  /\ falhou => falhas < MaxFalhas
  /\ falhas' = IF falhou THEN falhas + 1 ELSE falhas
  /\ linha' = IF falhou \/ ~Existe(it.id) \/ m.status = "erro" THEN linha
              ELSE [linha EXCEPT ![it.id].status = m.status,
                                 ![it.id].resultado = m.resultado,
                                 ![it.id].executado = @ \/ m.status # "revisao"]
  /\ executor' = Avanca(it)
  /\ UNCHANGED <<proximo, backup, sessao, tela, worker, tarefa, historia>>
\* mutant: on an error only executado_em is written
MarcaSoExecutado(it, falhou) ==
  LET m == executor.marca IN
  /\ executor.fase = "aplicou" /\ Atual(it)
  /\ falhou => falhas < MaxFalhas
  /\ falhas' = IF falhou THEN falhas + 1 ELSE falhas
  /\ linha' = IF falhou \/ ~Existe(it.id) THEN linha
              ELSE [linha EXCEPT ![it.id].status = IF m.status = "erro" THEN @ ELSE m.status,
                                 ![it.id].executado = @ \/ m.status # "revisao"]
  /\ executor' = Avanca(it)
  /\ UNCHANGED <<proximo, backup, sessao, tela, worker, tarefa, historia>>

\* UPDATE ... WHERE id=?: the row is not looked at again; 'revisao' leaves
\* executado_em alone. The update may fail, and the loop goes on.
ExecutorMarca(it, falhou) ==
  LET m == executor.marca IN
  /\ executor.fase = "aplicou" /\ Atual(it)
  /\ falhou => falhas < MaxFalhas
  /\ falhas' = IF falhou THEN falhas + 1 ELSE falhas
  /\ linha' = IF falhou \/ ~Existe(it.id) THEN linha
              ELSE [linha EXCEPT ![it.id].status = m.status,
                                 ![it.id].resultado = m.resultado,
                                 ![it.id].executado = @ \/ m.status # "revisao"]
  /\ executor' = Avanca(it)
  /\ UNCHANGED <<proximo, backup, sessao, tela, worker, tarefa, historia>>

ExecutorMorre ==
  /\ executor.fase # "parado"
  /\ falhas < MaxFalhas
  /\ falhas' = falhas + 1
  /\ executor' = Parado
  /\ UNCHANGED <<tabela, sessao, tela, worker, tarefa, historia>>

-----------------------------------------------------------------------------
(* run_jobs.py: reserves a task, runs it, then writes its end by id          *)

EhTarefa(id) == NaFila(id) /\ linha[id].acao.op = "job"

\* mutant: the task starts without reserving its row
PegaSemReservar(id) ==
  /\ tarefa.id = 0
  /\ EhTarefa(id) /\ \A j \in Ids : EhTarefa(j) => id <= j
  /\ tarefa' = [id |-> id, versao |-> Alvo(linha[id])]
  /\ iniciada' = [iniciada EXCEPT ![id][Alvo(linha[id])] = @ + 1]
  /\ UNCHANGED <<tabela, sessao, tela, executor, worker, falhas,
                 aplicada, tratadas, aprovadas>>

TarefaPega(id) ==
  /\ tarefa.id = 0
  /\ EhTarefa(id) /\ \A j \in Ids : EhTarefa(j) => id <= j
  /\ linha' = [linha EXCEPT ![id].status = "executando"]
  /\ tarefa' = [id |-> id, versao |-> Alvo(linha[id])]
  /\ iniciada' = [iniciada EXCEPT ![id][Alvo(linha[id])] = @ + 1]
  /\ UNCHANGED <<proximo, backup, sessao, tela, executor, worker, falhas,
                 aplicada, tratadas, aprovadas>>

\* the list of tasks is the same in Go and in Python: rodar does not meet an
\* unknown one, and ends in 'executado' or 'erro'
TarefaFinaliza(st) ==
  LET id == tarefa.id IN
  /\ id # 0
  /\ linha' = IF ~Existe(id) THEN linha
              ELSE [linha EXCEPT ![id].status = st, ![id].executado = TRUE,
                                 ![id].resultado = "outro"]
  /\ tratadas' = [tratadas EXCEPT ![id] = @ \cup {tarefa.versao}]
  /\ tarefa' = SemTarefa
  /\ UNCHANGED <<proximo, backup, sessao, tela, executor, worker, falhas,
                 aplicada, iniciada, aprovadas>>

TarefaMorre ==
  /\ tarefa.id # 0
  /\ falhas < MaxFalhas
  /\ falhas' = falhas + 1
  /\ tarefa' = SemTarefa
  /\ UNCHANGED <<tabela, sessao, tela, executor, worker, historia>>

-----------------------------------------------------------------------------
(* The tier-2 worker: lists the rows of has_work.py, answers them by id      *)

VisivelAoWorker(r) == /\ r.status = "revisao"
                      /\ ~r.executado \/ r.resultado = "naoReconhecido"
                      /\ r.resultado # "decisaoHumana"

\* mutant: the list is limited to its first row
ListaSoPrimeira ==
  /\ worker = {}
  /\ \E id \in Ids :
       /\ VisivelAoWorker(linha[id])
       /\ \A j \in Ids : VisivelAoWorker(linha[j]) => id <= j
       /\ worker' = {[id |-> id, versao |-> linha[id].versao]}
  /\ UNCHANGED <<tabela, sessao, tela, executor, tarefa, falhas, historia>>

WorkerLista ==
  /\ worker = {}
  /\ \E id \in Ids : VisivelAoWorker(linha[id])
  /\ worker' = {[id |-> i, versao |-> linha[i].versao] :
                  i \in {j \in Ids : VisivelAoWorker(linha[j])}}
  /\ UNCHANGED <<tabela, sessao, tela, executor, tarefa, falhas, historia>>

\* ResultadoSolicitacao, or the same UPDATE from the worker's own connection
WorkerConclui(w, st) ==
  /\ w \in worker
  /\ worker' = worker \ {w}
  /\ linha' = IF ~Existe(w.id) THEN linha
              ELSE [linha EXCEPT ![w.id].status = st, ![w.id].executado = TRUE,
                                 ![w.id].resultado = "outro"]
  /\ tratadas' = IF st = "preciso_confirmar" THEN tratadas
                 ELSE [tratadas EXCEPT ![w.id] = @ \cup {w.versao}]
  /\ UNCHANGED <<proximo, backup, sessao, tela, executor, tarefa, falhas,
                 aplicada, iniciada, aprovadas>>

\* not a read, or a portal that asks for a person: only the result is written
WorkerDevolve(w, res) ==
  /\ w \in worker
  /\ worker' = worker \ {w}
  /\ linha' = IF Existe(w.id) THEN [linha EXCEPT ![w.id].resultado = res] ELSE linha
  /\ UNCHANGED <<proximo, backup, sessao, tela, executor, tarefa, falhas, historia>>

\* timeout of 900 seconds, or the machine goes down
WorkerMorre ==
  /\ worker # {}
  /\ falhas < MaxFalhas
  /\ falhas' = falhas + 1
  /\ worker' = {}
  /\ UNCHANGED <<tabela, sessao, tela, executor, tarefa, historia>>

-----------------------------------------------------------------------------
PassoDoSite ==
  \/ \E u \in Usuarios, t \in Tipos : CriarSolicitacao(u, t)
  \/ ListarSolicitacoes
  \/ \E id \in Ids : AprovarSolicitacao(id)
  \/ \E id \in Ids : RejeitarSolicitacao(id)
  \/ \E id \in Ids, t \in Tipos : ResponderConfirmacao(id, t)

PassoDaSessao(s) ==
  \/ \E id \in Ids, t \in Tipos : CorrigirVerifica(s, id, t)
  \/ \E t \in Tipos : CorrigirReabre(s, t)
  \/ CorrigirReinterpreta(s)
  \/ CorrigirGrava(s)
  \/ \E id \in Ids, falhou \in BOOLEAN : ReverterRestaura(s, id, falhou)
  \/ ReverterMarca(s)

PassoDoExecutor ==
  \/ ExecutorInicia
  \/ \E it \in executor.fila :
       \/ ExecutorPulaTarefa(it)
       \/ \E m \in Respostas(it.acao.op), gravou \in BOOLEAN : ExecutorAplica(it, m, gravou)
       \/ \E falhou \in BOOLEAN : ExecutorMarca(it, falhou)

PassoDeRunJobs ==
  \/ \E id \in Ids : TarefaPega(id)
  \/ \E st \in {"executado", "erro"} : TarefaFinaliza(st)

PassoDoWorker ==
  \/ WorkerLista
  \/ \E w \in worker :
       \/ \E st \in {"executado", "erro", "preciso_confirmar"} : WorkerConclui(w, st)
       \/ \E res \in {"decisaoHumana", "portal"} : WorkerDevolve(w, res)

Queda == ExecutorMorre \/ TarefaMorre \/ WorkerMorre \/ \E s \in Sessoes : SessaoMorre(s)

Next == \/ PassoDoSite
        \/ \E s \in Sessoes : PassoDaSessao(s)
        \/ PassoDoExecutor \/ PassoDeRunJobs \/ PassoDoWorker
        \/ Queda

Spec == Init /\ [][Next]_vars

\* cron starts the three programs again and again and a handler in flight
\* runs to its end; nobody is obliged to create, approve, correct or answer
Justica == /\ WF_vars(PassoDoExecutor) /\ WF_vars(PassoDeRunJobs)
           /\ WF_vars(PassoDoWorker)
           /\ \A s \in Sessoes :
                /\ WF_vars(\E t \in Tipos : CorrigirReabre(s, t))
                /\ WF_vars(CorrigirReinterpreta(s))
                /\ WF_vars(CorrigirGrava(s))
                /\ WF_vars(ReverterMarca(s))
SpecJusta == Spec /\ Justica
-----------------------------------------------------------------------------
(* Properties                                                                *)

TypeOK ==
  /\ linha \in [Ids -> Linhas] /\ proximo \in 1..(MaxPedidos + 1)
  /\ backup \in [Ids -> BOOLEAN]
  /\ sessao \in [Sessoes -> Sessao]
  /\ tela \in [Ids -> 0..MaxVersao]
  /\ executor \in [fase : {"parado", "rodando", "aplicou"}, fila : SUBSET Itens,
                   marca : [status : Marcas, resultado : {"outro", "naoReconhecido"}]]
  /\ worker \in SUBSET [id : Ids, versao : Versoes]
  /\ tarefa \in [id : 0..MaxPedidos, versao : Versoes]
  /\ falhas \in 0..MaxFalhas
  /\ aplicada \in [Ids -> [Versoes -> Nat]] /\ iniciada \in [Ids -> [Versoes -> Nat]]
  /\ tratadas \in [Ids -> SUBSET Versoes]
  /\ aprovadas \in SUBSET [id : Ids, alvo : Versoes, vista : Versoes]

Gravado(id, v)  == aplicada[id][v] + iniciada[id][v]
Aprovado(id, v) == \E a \in aprovadas : a.id = id /\ a.alvo = v

\* Nothing is written to the database on behalf of a request, by the executor
\* or by a host task, unless the approver let exactly that text through (his
\* button, or a request of his own): "Nada e' executado sem aprovacao do
\* gestor". The write happens long after the approval, from a copy in memory.
SoAplicaAprovado ==
  \A id \in Ids, v \in Versoes :
    Gravado(id, v) > 0 => Aprovado(id, v)

\* Why SoAplicaAprovado holds although the write comes long after the approval:
\* every copy of a request that may still write, in the table or in the memory
\* of the executor, was approved for exactly what it carries. Only a row with
\* status 'aprovado' is ever copied, and each UPDATE that changes what a row
\* carries also takes that status away or is the approver's own request.
Autorizado(id, r) == Escreve(r) => Aprovado(id, Alvo(r))
CopiasAutorizadas ==
  /\ \A id \in Ids : linha[id].status = "aprovado" => Autorizado(id, linha[id])
  /\ \A it \in executor.fila : Autorizado(it.id, it)

\* The same text of the same request is applied at most once: executor main.go,
\* "nunca roda o mesmo pedido 2x".
AplicaNoMaximoUmaVez ==
  \A id \in Ids, v \in Versoes : Gravado(id, v) <= 1

\* A host task never starts twice for the same text, not even across a crash
\* of run_jobs.py: pegar reserves the row before the task starts.
TarefaNoMaximoUmaVez ==
  \A id \in Ids, v \in Versoes : iniciada[id][v] <= 1

\* Every row that is not at its end is in front of somebody who will move it:
\* the executor or run_jobs sees it, run_jobs is running it, the worker sees
\* it, or a person does. A row between two filters is never looked at again.
NinguemFicaParado ==
  \A id \in Ids :
    /\ linha[id].status = "aprovado" => ~linha[id].executado
    /\ linha[id].status = "executando" => tarefa.id = id
    /\ linha[id].status = "revisao" => \/ VisivelAoWorker(linha[id])
                                      \/ linha[id].resultado = "decisaoHumana"

\* A row that is approved can be picked up: main.go and run_jobs.py both ask
\* executado_em IS NULL.
AprovadoEhPego ==
  \A id \in Ids : linha[id].status = "aprovado" => ~linha[id].executado

\* What is applied is what the approver had on his panel when he approved:
\* "aprovou = feito".
AplicaOQueFoiVisto ==
  \A id \in Ids, v \in Versoes :
    Gravado(id, v) > 0
      => \E a \in aprovadas : a.id = id /\ a.alvo = v /\ a.vista = v

\* Whatever is approved leaves that state, in spite of crashes and lost marks:
\* the next run of cron picks the row up again.
DrenaFila ==
  \A id \in Ids : linha[id].status = "aprovado" ~> linha[id].status # "aprovado"

\* A free question in sight of the worker is answered, asked back or handed to
\* a person, in spite of the timeout that kills the worker.
WorkerResponde ==
  \A id \in Ids :
    VisivelAoWorker(linha[id]) ~> \/ ~VisivelAoWorker(linha[id])
                                 \/ linha[id].resultado = "portal"
=============================================================================
