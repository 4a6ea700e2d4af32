# TLA+ models of the ressarcimento system (SURE)

Specifications of the parts of this repository in which several programs, or
several requests, write the same data, with TLC configurations that check them
on small instances and TLAPS proofs of what holds for every size. Paths are
relative to `src/`. Names in the modules follow the code (`CriarSolicitacao`,
`MovimentarCoreHist`, `motorComputeMu`); comments are in English.

## 1. The system

The Go backend (gin, MySQL) serves a React frontend. Around it, on the same
host, cron starts small programs that talk to the backend only through tables.

| Part | State | Operations | Talks to |
|---|---|---|---|
| Request queue, `backend/handlers/solicitacoes.go` | `FT_SOLICITACOES`, `FT_SOLICITACOES_MSGS` | create, list, approve, reject, answer, correct, result, revert | the chat, the panel, the three programs below |
| Executor, `backend/cmd/executor_solicitacoes` | its queue in memory, `FT_EXECUTOR_BACKUP` | read approved rows, apply, mark | table; calls `MovimentarCoreHist` as a library |
| `worker/run_jobs.py` | host processes, state files | reserve, run, finish, follow background tasks | table |
| Tier-2 worker, `worker/run_worker.sh`, `has_work.py` | none of its own | list `revisao`, answer, ask back, hand over | table, portal endpoint |
| Board, `backend/handlers/v2/movimentar.go`, `writes_common.go` | `FT_PROCESSOS`, `FT_HISTORICO_MOVIMENTACOES` | create from triage, move | executor, forms |
| Forms, `backend/handlers/v2/writes.go` | deferimento, faturamento, repasse, encerramento tables and `FT_PROCESSOS` | save, update everything | board |
| Deviation engine, `backend/handlers/desvio_handler.go` and the rules F01 to F05 | a map in memory with two mutexes | scan, warm, invalidate | `PatchFatura`, reprocessing |
| Panels of findings, `energia_regras.go`, `acer_painel.go`, `acer_regras.go`, `usinas_regras.go` | one result per panel in memory, each with a mutex and a counter `geracao`; `DM_REGRAS_CONJUNTO`, `FATURA_REANALISES` | request, calculate in the background, save a selection of rules, reject a finding | rules, deviation engine |
| ANEEL protocols, `backend/protocolos` | `FT_PROTOCOLOS_ANEEL`, `FT_PROTOCOLO_EVENTOS`, `FT_TAREFAS` | a round every 15 minutes, import from the site, link and unlink by hand | history rows, mailbox, tasks |
| Tasks and notices, `avisos_handler.go`, `protocolos_aneel_handler.go` | `FT_TAREFAS`, `FT_ALERTAS` | redirect, acknowledge, assume, conclude | protocols, the bell of the screen |
| Routines of the chat, `backend/rotinas` | `FT_ROTINAS`, `FT_ROTINA_EXECUCOES`, `FT_EMAILS_PROCESSO` | approve, run what is due every minute, undo | e-mails, calendar, notices |
| Background tasks of the host, `tarefas_handler.go`, `worker/run_jobs.py`, `job_pdf_pipeline.sh` | rows of the queue, state files, pids | click, start, follow, close | request queue |
| Claro lots, `claro_fila_handler.go`, `backend/claro`, `worker/job_claro.sh`, `extensao_aneel/claro_bg.js` | a folder of zips, marks and state files | download, send in parts, extract, copy to the Drive, close | portal of Claro, invoices |
| Reception of e-mails, `backend/services/agente_recepcao_service.go` | `AGENTE_RECEPCAO_LOG`, a named lock | sweep, decide, alert | mailbox, managers |
| Percentages, `backend/handlers/v2/empresa_percentual.go` | `DM_EMPRESA_PERCENTUAL` | new period, correct, deactivate | deferimento |
| Gate of the language model, `backend/handlers/ocr_handler.go` | a channel made on first use | enter, give up, leave | OCR and chat handlers |
| Magic link, SSE hubs, rate limiter and the rest | one-use rows, maps | see `components` in PROJECT.json | |

What makes them hard:

* the queue is shared by five kinds of actor that never lock a row across two
  statements, and marks are written by id long after the row was read;
* a transaction of the executor commits before its row is marked;
* the board validates on a snapshot taken outside the transaction that writes;
* a reversal runs statement by statement without a transaction;
* the cache of the engine is emptied while a scan that read the old data is
  still running;
* the panels take a minute to calculate behind the page, while the selection of
  rules they were started with is replaced;
* more than one backend may point at the database (a developer's and the
  server's), each with its own schedulers, and only unique keys order them;
* a file is written by two programs under two locks, and whatever dies leaves
  marks that the next run has to read right;
* locks of MySQL are taken through a pool of sessions.

What makes each part correct: nothing is written without approval of exactly
that text; every open row is in front of somebody; a correction is not lost;
process and history agree and the terminal stage is terminal; a preview is
executed on the state it showed; no answer of the engine is older than its TTL
and a scan; a
panel that was asked after a selection was saved does not show an older one; an e-mail of ANEEL becomes one event and, where nothing fails, one task; a routine
runs once per slot and only after approval; a background task is closed after it
ended, and in the end always; a lot is closed only when it is whole; a company
has one open percentage; nobody else's button silences a notice. Section 4 says which of these hold and which do not.

## 2. Modules

| Module | Models |
|---|---|
| `Solicitacoes` | the queue with handlers, executor, run_jobs and worker |
| `Correcoes` | `Solicitacoes` with a memory of which texts were written while somebody held an older copy |
| `SolicitacoesProofs` | the theorems of `Solicitacoes`: type, approval, host tasks that start once, the queue without corrections |
| `Quadro` | abstract: what moving a process on the board promises |
| `Movimentacao` | the board in detail, its V2 writers of stage and decision, the live v1 movement and the copy-back of the history, the executor's `opMovimentar` and the reversal |
| `MovimentacaoProofs` | its theorems, and that it implements `Quadro` |
| `MotorCache` | the cache of the deviation engine |
| `MotorCacheProofs` | the theorems of `MotorCache` and of `Painel` |
| `Painel` | the panels of Energia and Acer, calculated behind the page |
| `Protocolos`, `ProtocolosProofs` | one ANEEL protocol under two backends and the administrator |
| `TarefasAvisos`, `TarefasAvisosProofs` | tasks, who answers for them, and the notices |
| `Rotinas`, `RotinasProofs` | one routine, the board and overlapping runs of the scheduler |
| `TarefasVPS` | the background task of the host |
| `FilaClaro`, `FilaClaroProofs` | the lots of Claro from the portal to the Drive |
| `Recepcao` | the sweep of received e-mails and its named lock |
| `PortaoIA` | the gate in front of the language model |
| `Vigencias` | the percentages of a company by period |
| `ServicosProofs` | the theorems of these four |
| `MCServicos` | nine of these side by side, for TLC |
| `MCMotorCache` | the two caches in memory side by side, for TLC |
| other `MC...` | the values TLC uses |

Definitions marked `mutant` in a comment are wrong variants of the definition
after them, kept to show that each property can fail. No specification uses them.

### Solicitacoes

A step is one statement that reaches MySQL on its own. `CriarSolicitacao` is one
INSERT; `CorrigirSolicitacao` is four steps (`CorrigirVerifica`, `Reabre`,
`Reinterpreta`, `Grava`), each on the row as it is then, with what was read kept
in `sessao`. The text of a request is a version number: version 1 is the text
it was created with, every answer or correction makes the next. An action that
`procedit.Montar` builds carries the version it was built from, so a property can
ask which text was really applied (`Alvo`). Of the text itself only its kind is
kept: a report, an edit, a host task, a free question, a free text that asks for
a write. The kind fixes profile check, entry status (`Porta`) and who takes it.
The owner's role stands for the caller's: only the owner corrects a request.

The executor keeps its queue in memory (`executor.fila`), works in id order,
commits (`ExecutorAplica`) and marks (`ExecutorMarca`) in two steps, and can die
between any two. `flock` in `run_executor.sh` keeps it single. A text without an
action may still write: `handle` fills in a repasse it recognises.
`tela` is the approver's panel, refreshed by polling. `aplicada`, `iniciada`,
`tratadas` and `aprovadas` are history variables.

`Correcoes` adds one more, `cruzadas`: the texts of an answer or a correction that
were written while the executor, run_jobs, the worker or another handler held
the row as it was before (`EmMaos`). Every mark goes by id and looks at nothing
else, so such a text is closed by the end of the old one. `CorrecaoSoSePerdeCruzada`
says that no other text is: whatever crashes, a row marked executed has had its
present text worked through, or that text crossed a copy.

Left out: errors of MySQL that `CorrigirSolicitacao` ignores on its two UPDATEs
(the death of the handler at the same points is modelled, `SessaoMorre`);
`FT_SOLICITACOES_MSGS`; feedback; `RodarTarefaVPS` and background tasks, which
are in `TarefasVPS` (one task at a time here). `rodar` in run_jobs cannot answer `revisao`, since the lists of
tasks in Go and Python are the same.

### Quadro and Movimentacao

One process. A state is its stage (1 to 6) and decision (none, granted, denied);
instance and status are written in the same statements and are left out.
`Quadro` says that a movement is one step from where the process really is to
where `validarTransicao` allows, with a history row that says just that.
`Movimentacao` has the snapshot (`LeSnapshot`), the INSERT that takes the row id
(`InsereLinha`), the UPDATE and COMMIT (`Efetiva`) as steps of their own, for
several calls at once. There is no foreign key from the history to
`FT_PROCESSOS`, so the INSERT does not lock the process. `ExecutorConfere` and
`ExecutorCopia` are what the executor does before and after the core;
`ReverterColuna` is one statement of a reversal, in the order of the backup ids.
`Escritores` selects which other writers are in use, so that a run can ask what
holds without them: `SalvarEncerramento`, `SalvarDeferimento`,
`AtualizarProcessoCompleto`, the reversal, `AdminDeleteHistorico`, and `legado`.

`legado` is the v1 code that is still registered and writes the same tables
(`routes.go:588`). `MovimentarProcesso` (v1) writes the stage that was named, asks
no rule and leaves the decision as it is; so a process can stand in Conciliacao
or Encerramento without a decision, and no invariant on stage and decision is
stated. `SincronizarStatusProcesso` copies the latest history row back to the
process when it is newer than `data_movimentacao` (`Sincroniza`; `sincronizada` is
the row that date comes from), which may take back what a closing or a decision
wrote. It is called in the v1 movement and in the saving of a request
(`UpdateRequisicaoCompleta`). Two dates of the same second, and a suspended
process, leave the process as it is, so every call may also do nothing.

The other v1 handlers that write the stage are left out for what they can do to
the V2 schema. `DescartarProcesso` asks for a stage 'Indeferido', which is none of
the six, and answers 500. `SuspenderProcesso` sets `suspenso`, and its row has no
new stage; `RetomarProcesso` names the columns `id_coluna` and `nome_coluna`, which
the V2 table has not, so its UPDATE fails whenever there is a stage to restore;
the automatic advance of v1 names them too. The remaining callers of
`SincronizarStatusProcesso` insert a row of their own first, with the present stage
or none, and so leave the process where it is. A deadlock between a v1
transaction and one of the core counts as a failure of the core (`Desiste`).

### MotorCache

`motorCacheMu` makes a look at the map atomic, so it has no variable.
`motorComputeMu` is `trava`. Invoices are a version number; a scan notes the
version and the time at which its SELECT begins, and is stored and dated when it
ends. The second read of `filtrarPorProcessosExistentes` is counted as part of
the scan. `PatchFatura` commits (`PatchConfirma`) and then empties the cache
(`PatchInvalida`). `Reprocessa` stands for everything that changes invoices
and tells nobody, rejections included: `InvalidarMotorCache` has one caller.
Time passes in ticks; a scan takes at most `Varredura` and the ticker is punctual.

### Painel

One set of rules, its panels in the order in which `limparCacheRegras` clears
them, on one backend. A calculation (`calculo[p]`) notes the counter when it
starts, reads the selection, for some panels also the rejections, and stores its
result if the counter is still the same; every look at the memory of a panel is
under its mutex. A selection is its version. `SalvarRegras` is the commit and
`LimparCache` one panel cleared, so a calculation may start, finish or be asked
for between any two of them. A read that fails is no error in the code: the
default selection is used and the rejections are skipped, which `lido` remembers.
`valendo` is the newest selection whose request was answered and `tirados` the
findings taken out that no calculation under way can bring back.

### Protocolos

One protocol number; its rows are a sequence in the order of id. An e-mail is its
place in the order of `received_at`, with its `tipo`. `rodada[i]` is what the
round of backend i has read and not yet used, and every statement is a step:
`CapturarDoHistorico`, `ProcurarSemProcesso`, the count of events
(`primeira`: no protocol has an event of an e-mail, `outros` included), the list of
e-mails without event, and for each e-mail the search, the look for a row
(`OlhaLinha`), the row without process (`GaranteLinha`), `linhas` (`LeLinhas`), the
event (`INSERT IGNORE`) with its number, the situation and each task.
`VincularSeNovo` is a step per statement as well, for rounds and for the
administrator alike. The processes that a text leads to are any subset of
`Processos`. `mu` is `rodada[i].fase # "parada"`. The site's import runs under the
same lock; its date has no hour, so it falls before or after any e-mail.

Statements fail (`Tropeca`), and what then happens is what the code does with the
error, which is mostly nothing: a failed count makes it a first round, a failed
read of the lines gives those read so far, a failed read of the event's number
leaves 0, a failed count of the tasks leaves 0, a failed INSERT of a task is
logged. `percalcos` remembers what went wrong, and about which e-mail;
`dispensados` the e-mails that were meant to leave no task when nothing went wrong.
A failed UPDATE of a link or of a situation leaves the row as it is.

### TarefasAvisos

A notice is its reader, the task its text speaks of, and its kind; the handlers
find it by reader and protocol only, as `darCienteAvisosDaTarefa` does with its
LIKE. Each handler is cut where it talks to MySQL again: a new task is its row
(`TarefaNasce`) and later its notices (`aCaminho`, `NasceNotifica`). A notice whose
INSERT fails is only logged (`perdidos`), and a backend that dies before it is the
same to the reader. `quemCiente`, `apertou`, `lidosUm` and `perdidos` are history
variables.

### Rotinas

One routine. `agenda[a]` is a run of `RodarDevidas`; several may overlap, in one
backend or in two. `mao[m]` is `MudarStatus` between its SELECT and its UPDATE,
which names the row by id alone. A recurrent routine is due at `Horarios`, a
routine of one run at the minute it was approved. `lembretes` and `vezes` count;
`autorizada` remembers that an administrator let it run. `Minuto` says that the
scheduler is never down for as long as it looks back: beyond that the code makes
no promise.

### TarefasVPS

`filaVPS` holds the rows of the one background task in the order of id. A click
looks and then inserts. `run_jobs` is single (flock); its background process has
a life of its own. A pid may be taken over by another script of the host whose
command line has `job_` in it, which `vivo` cannot tell apart, and is freed
later. What the log says at the end is any of the closing statuses.

### FilaClaro

A zip is a sequence of blocks, and 0 is a hole: the server writes at its own
offset, the extension appends, and a truncation by one under the other is what
`NoLugar` models. A rename takes the server's descriptor along
(`servidor[l].fd`). `lote` holds the folder, the state file and the mark of each
lot; `inteira` remembers whether the folder came from an intact zip and `marcado` which lots ever had a mark. The job is
single (flock); `processar.py` runs inside the backend's container and dies with
it. An extension that runs twice, a failed download, a crash and a refused upload
all draw on `MaxFalhasClaro`.

### Recepcao, PortaoIA, Vigencias

`Recepcao`: GET_LOCK and RELEASE_LOCK are given to any session of the pool; a lock
is re-entrant in its session. `PortaoIA`: the test for nil, the assignment and
the read in the select are three steps, since nothing guards the variable.
`Vigencias`: an UPDATE of the open period locks rows and gap until commit, an
INSERT waits for the gaps of others, and what a transaction changed is visible when
it commits; days are numbers and an open period ends at `SemFim`.

### MCServicos

These modules share no variable, so nothing is lost by running one at a time:
`ativo` says which one a behaviour runs, and the others keep their first state.
The reachable states are the sum, not the product, of the nine. `MCMotorCache`
does the same for `MotorCache` and `Painel`. `Cenarios` and `Orcamentos` do it
inside `Protocolos` and `Rotinas`: an initial state chooses which backends and
e-mails there are and how many acts, undos and crashes may happen, so that each
mixture is checked without their product.

## 3. Runs

| Run | Instance | Result |
|---|---|---|
| `solic_fila` | 2 requests, all kinds, 3 users, no failures, no corrections in flight | type, approval, at most once, nobody waits unseen |
| `solic_quedas` | 1 request of every kind, 1 session, 1 failure, the history of `Correcoes` | approval, authorised copies, a host task starts once, a correction is lost only to a copy that it crossed |
| `solic_vivacidade` | 2 requests, 1 failure, fairness | approved rows leave the queue, the worker answers |
| `servicos` | board: 1 call, executor, 1 failure | refines `Quadro`; terminal stage; preview |
| | `Protocolos`: 2 backends, 3 kinds of e-mail, 2 processes, six scenarios with crashes, failed statements and other protocols | two tasks of an e-mail, or none, only by what failed; a movement never turns a link on; every e-mail becomes an event |
| | `Rotinas`: 2 runs of the scheduler, 2 requests of the board, clock to 3, four budgets | once per slot; only authorised; no slot lost; a link found is left alone |
| | `TarefasVPS`: 2 clicks, 2 requests, 2 failures | closed after the end; closed in the end |
| | `FilaClaro`: 1 lot of 2 blocks, 2 runs of the extension, 3 failures | closed whole; every ready zip is resolved |
| | `Recepcao`: 2 sweeps at once, 3 in all, 2 sessions, 1 failure | repeats only without the lock |
| | `PortaoIA`: 3 requests, 1 place | no place lost, excess bounded by the channels made |
| | `TarefasAvisos`: 2 people, 2 tasks of one protocol, 1 redirection, 1 lost notice | acknowledged by the responsible; the responsible has his notice |
| | `Vigencias`: 2 writers, 3 days, 3 periods, 1 correction | one open period; the past keeps its percentage |
| `mov_concorrente` | 2 calls, closings, decisions, v1 movements | no rewinding |
| `mov_reversao` | 2 calls, executor, full-form updates, deletions, reversal, v1 writers, 1 failure | type; a request leaves one row, none once reverted, one more per failure; every row of the core is a legal movement |
| `motor_cache` | 2 requests, warmer, TTL 2, ticker 1, scan 1, clock to 3, fairness | type, single flight, bounded age, whoever waits is answered |
| | `Painel`: 2 panels of Acer, 2 selections saved, 1 finding, 1 failed read | no selection older than the one answered; what was taken out stays out |
| `solic_aprovado_preso` | 1 report, 1 correction in flight | `AprovadoEhPego` is violated |
| `solic_painel_velho` | 1 request of every kind, 1 correction in flight | `AplicaOQueFoiVisto` is violated |
| `mov_dessincroniza` | 2 calls, no other writer | `EspelhaHistorico` is violated |
| `motor_na_hora` | as `motor_cache` | `CorrecaoNaHora` is violated |
| `recepcao_repete` | `Recepcao` alone, as above | `UmAvisoPorTexto` is violated |

Deadlock is checked in the runs of `Solicitacoes`. `Movimentacao` ends when its
row ids and requests are used up, `MotorCache` when its clock is and the services
when their bounds are, so their configurations do not check it.

### Bounds

`MaxPedidos`, `MaxVersao`, `MaxFalhas`, `MaxLinhas`, `MaxTempo` and `MaxDados`
are bounds of the check and appear in guards. Two requests are enough for the
executor to hold one in memory while it works on another; two texts and one
session put a correction between any two steps of the others; one failure reaches
every point between two statements. Two history rows let two movements cross, and in
`mov_dessincroniza` and `servicos` three let a third come before them. Two selections of rules may be cleared panel by panel
at once and in either order. The TTL is longer than the ticker, as 120 s is longer
than 90 s; with the clock to 3 an entry can be stored, age to its last tick and
expire.
In the services, two of each actor put any step of one between any two steps of
the other; two e-mails of one protocol are enough for a later one to be taken
before an earlier one's tasks exist; two rows of the background task are what
two clicks can leave open at once, and two failures allow a crash followed by a
reused pid or a reboot; a zip of two blocks can have the right size and the
wrong content, and three failures reach the third attempt, after which a lot is
refused; three periods let a retroactive one fall between two others.
`Janela` is 2 instead of 10 minutes: the first, the last and the minute after the
window all occur.
`MaxVinculos` is never reached in the scenarios of `Protocolos`; `MaxACaminho` lets
one task at a time be between its row and its notices.
The proofs of section 5 show that no safety or action property of these runs
depends on the bounds, nor does the refinement of `Quadro`, with one exception:
`CorrecaoSoSePerdeCruzada` and the properties under fairness rest on the
instances alone.

Some properties are checked only where they hold, and the instance says where that
is. `AplicaNoMaximoUmaVez` and `NinguemFicaParado` belong to `solic_fila`, without
failures and corrections in flight; `ImplementaQuadro`, `ExecutaAPrevia` and
`EncerramentoTerminal` to `servicos`, with one call at a time and no other writer,
v1 or V2, where the first contains `EspelhaHistorico`. `TarefaNoMaximoUmaVez`
belongs to `solic_quedas`, with one correction at a time, and `NaoRebobina` to
`mov_concorrente`, without reversals and full forms, either of which may put the
first stage there by itself. The theorems about them carry the same restriction as
a named hypothesis (`SemFalhas`, `SemCorrecoes`, `UmaSessao`, `UmaChamada`,
`SemVolta` and the like), or a weaker one where the proof showed that less is
needed. `LinhasLegais` and `UmaLinhaPorPedido` are checked, and proved, with no
such restriction. Section 4 says what happens outside.

### Fairness

Cron starts executor, run_jobs and worker again and again, so weak fairness of
each program's next step; a handler in flight runs to its end. Nobody has to
create, approve, correct or answer. In `MotorCache`, goroutines that are past the
lock run on (weak), and `sync.Mutex` hands the lock to a waiter that starves,
hence strong fairness of `Tranca`; nothing forces time, patches or requests.

In `servicos`: the scheduler of each backend keeps starting its round (gocron,
every 15 minutes) and a round goes on (`PassoDaRodada`, weak, one per backend);
cron starts run_jobs and job_claro every minute and each goes on, `run_jobs`
with `PassoRunJobs` and the Claro job with `PassoDoJob`, both weak; a background
process ends and a pid taken over is freed (`PassoDoHost`). Nobody has to click,
send a zip, move a process or write an e-mail, and crashes are bounded.

## 4. Where code and comments disagree

Five runs end in a counterexample of one property, which quotes the code's own
promise.

| Run | What happens |
|---|---|
| `solic_aprovado_preso` | the executor's mark between the two UPDATEs of a correction leaves an approved row that no program selects |
| `solic_painel_velho` | a correction between two refreshes of the panel is approved and applied unseen |
| `mov_dessincroniza` | two movements insert in one order and update in the other: process and latest row differ |
| `motor_na_hora` | a scan begun before a correction is stored after the invalidation, and is fresh for a whole TTL |
| `recepcao_repete` | a second sweep gets from the pool the session that holds the lock, and alerts the managers of the same e-mail again |

More can be had from the same modules by changing a configuration:

* `MCSolic_fila.cfg` with `MaxFalhas = 1`: `AplicaNoMaximoUmaVez` fails. The
  executor commits, its mark is lost (`main.go:131`), the next run applies the
  same text again.
* `MCSolic_quedas.cfg` with the last disjunct of `CorrecaoSoSePerdeCruzada` taken
  out: it fails. A request corrected while its old text is being applied is closed
  as executed, and the new text is never worked through.
* `MCSolic_quedas.cfg` with two sessions and `MaxVersao = 3`:
  `TarefaNoMaximoUmaVez` fails. Two corrections of one request both read its new
  text and build the same host task; run_jobs reserves the row after the first
  has written; the second writes 'aprovado' over the reservation; run_jobs dies
  (or ends), and the task starts again.
* `MCServicos.cfg` with `Servicos = {"movimentacao"}` and two sessions: `EncerramentoTerminal` fails (a movement
  validated before another closed the process takes it out of Encerramento), and
  so does `ExecutaAPrevia` (a movement between the comparison with the preview and
  the snapshot).
* the same with one session, `Escritores = {"encerramento"}` and the invariant
  `EspelhaHistorico` added: it fails, since `SalvarEncerramento` writes no history row.
* `MCMov_concorrente.cfg` with an invariant that a process in Encerramento has a
  decision: it fails, since the v1 movement asks no rule (`processo_handler.go:611-641`).
  A closing is also taken back by the next saving of a request, when the latest
  movement is newer than `data_movimentacao` (`coluna_helper.go:238`).

Seen while modelling, without a property: `CorrigirSolicitacao` does not clear
`resultado`, so a corrected question that had been handed to a person stays
outside the worker's filter; the warmer stores under `empresa|gate` while requests
look up `tabela|empresa|gate`, so nobody reads what it keeps warm
(`ChaveAquecida` is not one of `Chaves`); the backup of a movement fails silently
after the commit (`ExecutorCopia` with `gravou = FALSE`); `CorrigirSolicitacao`
does not renew `preview`; the combined text that the profile check saw can differ from the one
stored when two corrections overlap; a task whose run_jobs died stays
`executando`, and then `RodarTarefaVPS` answers 409 for that task from then on;
`auth_magic.go:10` says a link is valid for 15 minutes and `magicTTL` is 30.

In the services, likewise without a property, because no mechanism of the code
is meant to prevent it:

* Protocols: the mark MAX(id_historico_origem) skips a movement that commits
  later with a lower id; two `VincularSeNovo` at once leave two active links, none
  marked 'confirmar'; a conclusion seen on the site and then in an e-mail gives
  two tasks; a link turned off by hand is turned on again by an e-mail or the
  site. The task of an e-mail is lost by a crash between event and task, and by a
  failed statement whose error is dropped: the count of events (411), the lines
  (276 and 451), the task itself (606). An e-mail of a protocol with several rows
  gives two tasks if the number of its event (481) or the count of its tasks (593)
  could not be read.
* Routines: a routine of one run whose execution crashed never runs again; a
  reactivated one may run slots up to nine minutes before; undoing also undoes a
  later link by hand to the same process; a crash before `detalhe_json` is
  written leaves links that cannot be undone.
* Panels: a rejection that arrives after the running calculation read the
  rejections comes back with its result, since a rejection does not move the
  counter; a selection saved on one backend clears no panel of another; a failed
  read of the selection silently calculates with the default one; an error of
  the calculation is cleared by the next request, which starts another, so the
  page keeps saying it is being calculated (`energia_regras.go:546-573`).
* Background task: two clicks insert two rows; a run_jobs that dies between
  Popen and the state file leaves its request 'executando', and the button
  answers 409, forever.
* Claro: `_flush` gives up after four reconnections and says the rows will be
  extracted again (`extrair_claro.py:211`), but the lot is then closed and its
  PDFs are deleted; a crash between the removal of the busy mark and `_falhou`
  leaves a zip without a mark, which the extension then takes as present; a
  refused lot below the last one done is never listed again; an upload that
  keeps failing holds back every other lot.
* Reception: a lock released on another session stays held until its session
  closes; a failed INSERT into the log is only printed.
* Gate: first requests that race make several channels, and the limit is then
  exceeded by what the extra channels hold.
* Notices: `DirecionarTarefa` notifies also when the task was concluded and
  nothing was updated; acknowledging one task closes one's notices of every task
  of the same protocol; a notice that cannot be inserted is only logged.
* Percentages: a retroactive period overlaps a closed one that starts later,
  which still wins on its days; deactivating the open period leaves days without
  a percentage; a correction of a first day may overlap anything.

## 5. Proofs

`SolicitacoesProofs` (any sets of users and sessions, any bounds):

* `TipoCorreto`: `Spec => []TypeOK`.
* `CopiasSempreAutorizadas`: `Spec => []CopiasAutorizadas`, and
  `SoSeAplicaAprovado`: `Spec => []SoAplicaAprovado`. The second is not
  inductive: the executor writes from a copy made long before. The strengthening
  says that every copy that may still write is authorised, that the item being
  applied is one of the queue, and that a task under way was authorised when it
  was reserved. A row becomes `aprovado` only by the approver's button or by his own request,
  and both record the very text the row then carries; every UPDATE that changes
  what a row carries also takes `aprovado` away. `aprovadas` never shrinks, so
  what was authorised when it was copied still is when it is written.
* `TarefaUmaVez` (`UmaSessao`: at most one correction or reversal in flight, on
  whatever row): `TarefaNoMaximoUmaVez`, with any number of crashes. The
  invariant says that a text still to be started, in the table or in the hands of
  a correction, has not been started, and that the correction in flight builds
  its action of a text no newer than the row's.
* `FilaAplicaUmaVez` and `FilaNinguemParado` (no correction in flight, no failure).
  One invariant (`FilaInv`) ties the copies to the row: an item of the executor is
  still approved with the same text and action, what the worker listed is still
  at the worker, the reserved row is the task that runs, and nothing has been
  written for a row on its way but what the executor is about to mark. A lost
  mark breaks the last part and a correction the first ones, hence the
  hypotheses.

`MotorCacheProofs` (any requests, keys, TTL, period, length of scan, bounds):

* `CacheBemFormado`, `SempreVooUnico`, `SempreIdadeLimitada`. The invariant says
  that the lock is held exactly by who is between taking it and its last step
  (`ComTrava`), that entries and scans are at most one scan old where they must
  be (`Relogios`), and that no request scans what is fresh (`SoVarreVelho`): only
  the holder of the lock stores, and entries only get older.

The same module has, for any panels, findings and bounds, `PainelBemFormado` and
`SemprePainelEmDia`. A result, or a calculation whose counter is still the
panel's, uses a selection at least as new as every saving that has already
cleared that panel, and leaves out every finding in `tirados`. A calculation that
was overtaken may hold anything, since `CalculoGuarda` throws it away; a request
is answered only when it has cleared the last panel, hence all of them.

`TarefasAvisosProofs` (any people, tasks and protocols): `AvisosBemFormados`,
`CienteSempreDoResponsavel`, `SempreResponsavelAvisado`. A button that closes
notices closes those of its presser, so whoever presses leaves the others'
alone. The type part says that a screen in the middle of a request speaks of
exactly one task, which is what makes its second statement hit the row of its
first; with it both properties are inductive. A notice on its way leaves `aCaminho` only
into the table or into `perdidos`.

`ServicosProofs` has four services. `TarefasVPS` (any clicks, requests, failures):
`SempreFechaDepoisDoFim`. The invariant ties every row that may be closed to a process that is not running:
one with a state file has been started, one that is not yet started has no file,
and run_jobs holds at most one between the two.

`Recepcao` (any sweeps, texts, sessions): `SempreRepeteSoSemTrava`. Without
re-entry and failure a lock has one holder and one level, so at most one sweep is
between the second look and the log of a text, and what was alerted is in the log
or in that sweep's hands.

`PortaoIA` (any requests and places): `SempreNoLimite`. The tokens of
all channels are counted as one set of pairs (channel, place), so that a token
taken from the wrong channel is still one taken: there are never fewer tokens
than requests in flight, and at most places times channels; the current channel
never has more tokens than there are requests in flight, since a release takes
from it. The counting rests on the cardinality lemmas of the library.

`Vigencias` (any writers, days, percentages): `VigBemFormada`,
`SempreUmaAberta`, `SempreSoParaFrente`. A transaction between its UPDATE and its
INSERT holds every row and the gap, so the open periods it read are those there
are when it commits; closing a period the day before touches no earlier day.

`FilaClaroProofs` (any lots, sizes, runs and failures): `SempreConcluiInteiro`. The
invariant says which phases of the job may see a folder and that a folder with a
state file, or one the job is past `Descompacta` with, came from an intact zip.

`MovimentacaoProofs` (any number of calls, requests, rows and failures, unless a
hypothesis says otherwise; `Escritores` are the other writers that are in use):

| Theorem | Property | Hypothesis |
|---|---|---|
| `MovTipo` | `TypeOK` | none |
| `MovUmaLinhaPorPedido` | `UmaLinhaPorPedido` | none |
| `MovLinhasLegais` | `LinhasLegais` | none |
| `MovNaoRebobina` | `NaoRebobina` | `SemVolta`: no reversal and no full form; closings, decisions, deletions and the v1 writers |
| `MovExecutaAPrevia` | `ExecutaAPrevia` | `UmaChamada`: one call at a time; `SemAvulsos`: deletions and reversals only |
| `MovEncerramentoTerminal` | `EncerramentoTerminal` | `UmaChamada`; `SoMovimentos`: deletions only |
| `MovEspelhaHistorico` | `EspelhaHistorico` | `UmaChamada`, no other writer |
| `MovImplementaQuadro` | `ImplementaQuadro` | `UmaChamada`, no other writer |

A reversal and a full form may write the first stage themselves: hence `SemVolta`. A
closing, a decision, a full form and the v1 writers write the process without
looking at a movement in flight: hence `SemAvulsos` and `SoMovimentos`. The runs
check these properties where the hypotheses hold, and the counterexamples of
section 4 are outside of them. The argument is layered. `IdsUnicos`: the id a call
has taken is nobody else's. `LegalInv`: what a call is about to write is allowed
from what it read, with the decision its stage needs, and no other writer touches
that; it holds whatever the process has become. `PapeisInv` and `ContaInv`: one executor holds a request at a
time, and a request has left at each point of its life at most one row more than
there were failures, and no more than the failures once its row is deleted; the
row a reversal deletes is the one the backup names. `SerialInv` and `NucleoInv`, for one call at a time:
the state a call read is still the process's, what it is about to write is
allowed from there, and its row is the latest. With them `Efetiva` and
`CriarProcessoDeRequisicao` are steps of `Quadro`, and every other action a
stutter.

`RotinasProofs` (any schedulers, acts of the board, day, window): `RotBemFormada`,
`RotUmaRodadaPorHorario` (whoever is about to execute a slot has its row, alone,
and the slot has not been executed), `RotSoRodaAutorizada` (without an
authorisation the routine is not active, no act in flight would make it so on
its owner's word, and no scheduler has work for it), `RotHorarioNaoSePerde`
(every slot since the routine is active and before the last list was taken by
that list or an earlier one, and the last list is no older than the window; that
is where the `Minuto` of section 2 is used) and `RotNuncaSobrescreve`.

`ProtocolosProofs` (any backends, processes, e-mails, imports, crashes and failed
statements): `ProtUmaTarefaPorEvento`, `ProtTarefaSoSePerdeEmFalha` and
`ProtHistoricoNaoReliga`, without hypotheses. Only the backend whose INSERT put
the event in creates tasks, and it carries the number of the event or 0
(`NumeroInv`), so a task of an e-mail has that number, or the e-mail has a failed
read on record (`FichaInv`); an e-mail whose event is in and that was not meant
to be silent has its task, is the head of the list of such a backend, or has on
record what lost it. The sorted list of e-mails of a round is left untyped: the
community operator that sorts it is a CHOOSE whose witness needs an induction,
and no property depends on what the list holds.

Each invariant is shown to hold initially, to survive each action (one lemma per
action or per kind of action) and to imply the property. Assumptions are the
named ASSUME of the component.

Only checked: the properties under fairness (`DrenaFila`, `WorkerResponde`,
`TodosSaoAtendidos`, `TodaTarefaFecha`, `TodoLoteSeResolve`,
`TodoEmailVemAoHistorico`), since fairness is ENABLED and out of the prover's
reach, and `CorrecaoSoSePerdeCruzada`. What a theorem with hypotheses promises outside of them is nothing, and
section 4 shows for which of them it could not.

## 6. Not modelled, and what could follow

* Weaker hypotheses: `TarefaUmaVez` should need one correction at a time for each
  row rather than for the whole table, and `FilaNinguemParado` no more than that no
  failure and no correction meets the row it speaks of.
* A proof of `CorrecaoSoSePerdeCruzada`: an invariant that ties every copy to the
  text it was made of, with corrections in flight.
* The remaining operations of the executor with their backups, over the forms.
* Magic link, SSE hubs, rate limiter: each is a few statements under one lock or
  one unique key, with nothing between them that another actor could use.
* The rules F01 to F05, the parser, periods and decimals: sequential code over
  data with table tests; the invoices are floating-point numbers, which TLC has
  not.
* Dashboards, reports, the mailbox, WhatsApp, OCR, chat, Microsoft login: queries
  or calls to services outside, without state of their own that a property could
  relate. `docs/docs.go` and `zz_swagger_rotas_gen.go`, a fifth of the Go lines,
  are generated.
* Migrations, backups and deployment run once or by hand.

PROJECT.json gives the reason for each component.
