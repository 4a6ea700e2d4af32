---------------------------- MODULE Movimentacao ----------------------------
(* One process of the board and what writes its stage and decision in the V2 *)
(* schema: the HTTP handler Movimentar and the executor's opMovimentar (both  *)
(* through MovimentarCoreHist), SalvarEncerramento, SalvarDeferimento,        *)
(* AtualizarProcessoCompleto, ReverterSolicitacao, AdminDeleteHistorico, and  *)
(* of the v1 handlers that are still registered MovimentarProcesso and the    *)
(* saving of a request, which copies the latest history row back. The core    *)
(* reads the process before its transaction begins; the transaction inserts   *)
(* the history row, updates the process and commits. A row takes its id when  *)
(* it is inserted, and it is there for the others when it is committed.       *)
EXTENDS Integers, FiniteSets

CONSTANTS Sessoes,     \* calls of the core in flight: handlers and the executor
          Escritores,  \* which of the other writers are in use, see TodosEscritores
          Destinos,    \* the states that requests ask for
          MaxLinhas,   \* bound: ids of FT_HISTORICO_MOVIMENTACOES
          MaxPedidos,  \* bound: movements asked for in the chat
          MaxFalhas    \* bound: crashes, rollbacks and lost statements

VARIABLES
  existe, processo,  \* the row of FT_PROCESSOS
  historico,         \* its committed rows in FT_HISTORICO_MOVIMENTACOES
  proxLinha,         \* AUTO_INCREMENT
  sincronizada,      \* the row FT_PROCESSOS.data_movimentacao comes from, 0 if NULL
  pedido,            \* the chat's movements: preview, then fate
  copia,             \* FT_EXECUTOR_BACKUP: what each request may still revert
  sessao,            \* what each call in flight has read
  falhas             \* failures so far

quadroVars == <<existe, processo, historico, proxLinha, sincronizada>>
vars == <<quadroVars, pedido, copia, sessao, falhas>>

\* the rules of the board, and the abstract specification
Ultimo == IF historico = {} THEN [de |-> [etapa |-> 1, aprov |-> 0],
                                  para |-> [etapa |-> 1, aprov |-> 0]]
          ELSE LET r == CHOOSE x \in historico : \A y \in historico : y.id <= x.id
               IN [de |-> r.de, para |-> r.para]
Q == INSTANCE Quadro WITH ultimo <- Ultimo

TodosEscritores == {"encerramento", "deferimento", "completo", "reversao", "exclusao", "legado"}
Pedidos == 1..MaxPedidos
Colunas == {"linha", "etapa", "aprov"}
\* "manual" is what the core writes in tipo_movimentacao
TiposDeLinha == {"manual", "movimentacao"}
Linhas  == [id : 1..MaxLinhas, tipo : TiposDeLinha, de : Q!Estados, para : Q!Estados,
            pedido : 0..MaxPedidos]
Fases   == {"livre", "ausente", "chamou", "leu", "inseriu", "semCopia", "revertendo"}

ASSUME ConstantesOK ==
  /\ Escritores \subseteq TodosEscritores
  /\ Destinos \subseteq Q!Estados
  /\ MaxLinhas \in Nat /\ MaxPedidos \in Nat /\ MaxFalhas \in Nat

Livre     == [fase |-> "livre", pedido |-> 0, para |-> Q!Inicial, de |-> Q!Inicial,
              linha |-> 0, colunas |-> {}]
SemPedido == [fase |-> "nenhum", antes |-> Q!Inicial, para |-> Q!Inicial,
              linha |-> 0]

Init ==
  /\ existe = FALSE /\ processo = Q!Inicial
  /\ historico = {} /\ proxLinha = 1 /\ sincronizada = 0
  /\ pedido = [k \in Pedidos |-> SemPedido]
  /\ copia = [k \in Pedidos |-> {}]
  /\ sessao = [s \in Sessoes |-> Livre]
  /\ falhas = 0

Muda(s, f) == sessao' = [sessao EXCEPT ![s].fase = f]
Falha      == falhas < MaxFalhas /\ falhas' = falhas + 1
-----------------------------------------------------------------------------
(* The handler Movimentar, and "Criar processo" of the triage                *)

MovimentarPede(s, p) ==
  /\ sessao[s].fase = "livre"
  /\ sessao' = [sessao EXCEPT ![s] =
        [Livre EXCEPT !.fase = IF existe THEN "chamou" ELSE "ausente", !.para = p]]
  /\ UNCHANGED <<quadroVars, pedido, copia, falhas>>

\* mutant: ON DUPLICATE KEY UPDATE
CriarOuRebobinar(s) ==
  /\ sessao[s].fase = "ausente"
  /\ existe' = TRUE /\ processo' = Q!Inicial /\ Muda(s, "chamou")
  /\ UNCHANGED <<historico, proxLinha, sincronizada, pedido, copia, falhas>>
\* INSERT ... SELECT: a second INSERT of the same id fails and answers 404
CriarProcessoDeRequisicao(s) ==
  /\ sessao[s].fase = "ausente"
  /\ IF existe THEN UNCHANGED <<existe, processo>> /\ sessao' = [sessao EXCEPT ![s] = Livre]
               ELSE existe' = TRUE /\ processo' = Q!Inicial /\ Muda(s, "chamou")
  /\ UNCHANGED <<historico, proxLinha, sincronizada, pedido, copia, falhas>>

(* MovimentarCoreHist                                                        *)

\* mutant: the rules are asked before the decision is frozen, and only asked
LeSemCongelar(s) ==
  LET k == sessao[s].pedido IN
  /\ sessao[s].fase = "chamou"
  /\ IF Q!Valida(processo, sessao[s].para)
     THEN /\ sessao' = [sessao EXCEPT ![s].fase = "leu", ![s].de = processo]
          /\ UNCHANGED pedido
     ELSE /\ sessao' = [sessao EXCEPT ![s] = Livre]
          /\ pedido' = [i \in Pedidos |-> IF i = k THEN [pedido[i] EXCEPT !.fase = "revisao"]
                                                   ELSE pedido[i]]
  /\ UNCHANGED <<quadroVars, copia, falhas>>
\* loadSnapshot, outside the transaction, and validarTransicao on what it read
LeSnapshot(s) ==
  LET para == Q!Congela(sessao[s].para)
      k    == sessao[s].pedido
  IN
  /\ sessao[s].fase = "chamou"
  /\ IF Q!Valida(processo, para)
     THEN /\ sessao' = [sessao EXCEPT ![s].fase = "leu", ![s].de = processo, ![s].para = para]
          /\ UNCHANGED pedido
     ELSE /\ sessao' = [sessao EXCEPT ![s] = Livre]
          /\ pedido' = [i \in Pedidos |-> IF i = k THEN [pedido[i] EXCEPT !.fase = "revisao"]
                                                   ELSE pedido[i]]
  /\ UNCHANGED <<quadroVars, copia, falhas>>

\* mutant: what the row says it left is read again, inside the transaction
InsereRelendo(s) ==
  /\ sessao[s].fase = "leu"
  /\ proxLinha <= MaxLinhas
  /\ proxLinha' = proxLinha + 1
  /\ sessao' = [sessao EXCEPT ![s].fase = "inseriu", ![s].linha = proxLinha,
                             ![s].de = processo]
  /\ UNCHANGED <<existe, processo, historico, sincronizada, pedido, copia, falhas>>
\* INSERT of the history row: the id is taken, nobody sees the row yet
InsereLinha(s) ==
  /\ sessao[s].fase = "leu"
  /\ proxLinha <= MaxLinhas
  /\ proxLinha' = proxLinha + 1
  /\ sessao' = [sessao EXCEPT ![s].fase = "inseriu", ![s].linha = proxLinha]
  /\ UNCHANGED <<existe, processo, historico, sincronizada, pedido, copia, falhas>>

\* UPDATE ... WHERE id_processo = ?, and COMMIT
Efetiva(s) ==
  LET x == sessao[s] IN
  /\ x.fase = "inseriu"
  /\ processo' = x.para
  /\ historico' = historico \cup
        {[id |-> x.linha, tipo |-> "manual", de |-> x.de, para |-> x.para,
          pedido |-> x.pedido]}
  /\ sessao' = [sessao EXCEPT ![s] = IF x.pedido = 0 THEN Livre
                                     ELSE [x EXCEPT !.fase = "semCopia"]]
  /\ UNCHANGED <<existe, proxLinha, sincronizada, pedido, copia, falhas>>

\* the call dies or its transaction is rolled back
Desiste(s) ==
  /\ sessao[s].fase # "livre"
  /\ Falha
  /\ sessao' = [sessao EXCEPT ![s] = Livre]
  /\ UNCHANGED <<quadroVars, pedido, copia>>
-----------------------------------------------------------------------------
(* A movement asked for in the chat                                          *)

\* montarMov: the preview keeps the state it was made on
MontarMov(k, p) ==
  LET para == Q!Congela(p) IN
  /\ existe /\ pedido[k].fase = "nenhum"
  /\ Q!Valida(processo, para) /\ para # processo
  /\ pedido' = [pedido EXCEPT ![k] = [SemPedido EXCEPT !.fase = "previa",
                                                     !.antes = processo, !.para = para]]
  /\ UNCHANGED <<quadroVars, copia, sessao, falhas>>

\* mutant: only the decision is compared with the preview
ConfereSoDecisao(s, k) ==
  /\ sessao[s].fase = "livre" /\ pedido[k].fase = "previa"
  /\ \A z \in Sessoes : sessao[z].fase = "revertendo" \/ sessao[z].pedido = 0
  /\ IF processo.aprov = pedido[k].antes.aprov
     THEN /\ sessao' = [sessao EXCEPT ![s] =
               [Livre EXCEPT !.fase = "chamou", !.pedido = k, !.para = pedido[k].para]]
          /\ UNCHANGED pedido
     ELSE pedido' = [pedido EXCEPT ![k].fase = "revisao"] /\ UNCHANGED sessao
  /\ UNCHANGED <<quadroVars, copia, falhas>>
\* opMovimentar: is the process still as the preview found it? One executor at a time.
ExecutorConfere(s, k) ==
  /\ sessao[s].fase = "livre" /\ pedido[k].fase = "previa"
  /\ \A z \in Sessoes : sessao[z].fase = "revertendo" \/ sessao[z].pedido = 0
  /\ IF processo = pedido[k].antes
     THEN /\ sessao' = [sessao EXCEPT ![s] =
               [Livre EXCEPT !.fase = "chamou", !.pedido = k, !.para = pedido[k].para]]
          /\ UNCHANGED pedido
     ELSE pedido' = [pedido EXCEPT ![k].fase = "revisao"] /\ UNCHANGED sessao
  /\ UNCHANGED <<quadroVars, copia, falhas>>

\* the backup: a transaction of its own, after the movement is committed; its
\* errors are not looked at
ExecutorCopia(s, gravou) ==
  LET k == sessao[s].pedido IN
  /\ sessao[s].fase = "semCopia"
  /\ IF gravou THEN copia' = [copia EXCEPT ![k] = Colunas] /\ UNCHANGED falhas
               ELSE Falha /\ UNCHANGED copia
  /\ pedido' = [pedido EXCEPT ![k].fase = "executado", ![k].linha = sessao[s].linha]
  /\ sessao' = [sessao EXCEPT ![s] = Livre]
  /\ UNCHANGED quadroVars
-----------------------------------------------------------------------------
(* The other writers                                                         *)

\* SalvarEncerramento: stage 6 with the final decision, and no history row
SalvarEncerramento(a) ==
  /\ "encerramento" \in Escritores /\ existe
  /\ processo' = [etapa |-> 6, aprov |-> a]
  /\ UNCHANGED <<existe, historico, proxLinha, sincronizada, pedido, copia, sessao, falhas>>

\* SalvarDeferimento: the decision that came, and the stage stays
SalvarDeferimento(a) ==
  /\ "deferimento" \in Escritores /\ existe
  /\ processo' = [processo EXCEPT !.aprov = a]
  /\ UNCHANGED <<existe, historico, proxLinha, sincronizada, pedido, copia, sessao, falhas>>

\* AtualizarProcessoCompleto: the columns that came, whatever they are
AtualizarProcessoCompleto(p, vieram) ==
  /\ "completo" \in Escritores /\ existe
  /\ processo' = [etapa |-> IF "etapa" \in vieram THEN p.etapa ELSE processo.etapa,
                  aprov |-> IF "aprov" \in vieram THEN p.aprov ELSE processo.aprov]
  /\ UNCHANGED <<existe, historico, proxLinha, sincronizada, pedido, copia, sessao, falhas>>

\* AdminDeleteHistorico
AdminDeleteHistorico(r) ==
  /\ "exclusao" \in Escritores
  /\ historico' = historico \ {r}
  /\ UNCHANGED <<existe, processo, proxLinha, sincronizada, pedido, copia, sessao, falhas>>

\* SincronizarStatusProcesso: the latest row goes back to the process, what is
\* NULL in it excepted, unless data_movimentacao is as recent. It also stays as it
\* is when the process is suspended or the two dates fall in the same second.
Reposto(p, r) == [etapa |-> r.para.etapa,
                  aprov |-> IF r.para.aprov = 0 THEN p.aprov ELSE r.para.aprov]
Sincroniza(x, H) ==
  {x} \cup {[proc |-> Reposto(x.proc, r), sinc |-> r.id] :
             r \in {q \in H : q.id > x.sinc /\ \A y \in H : y.id <= q.id}}
\* its reading of the history waits for the rows not yet committed
SemLinhaAberta == \A s \in Sessoes : sessao[s].fase # "inseriu"

\* MovimentarProcesso, v1: the stage alone, with no rule asked; what it synchronises
\* first is the row before its own, whose columns for the decision stay NULL
MovimentarProcesso(e) ==
  LET linha == [id |-> proxLinha, tipo |-> "movimentacao", pedido |-> 0,
                de |-> [etapa |-> processo.etapa, aprov |-> 0],
                para |-> [etapa |-> e, aprov |-> 0]]
      agora == [proc |-> [processo EXCEPT !.etapa = e], sinc |-> sincronizada]
  IN
  /\ "legado" \in Escritores /\ existe /\ SemLinhaAberta
  /\ proxLinha <= MaxLinhas /\ proxLinha' = proxLinha + 1
  /\ historico' = historico \cup {linha}
  /\ \E x \in Sincroniza(agora, historico) : \E y \in Sincroniza(x, historico') :
       processo' = y.proc /\ sincronizada' = y.sinc
  /\ UNCHANGED <<existe, pedido, copia, sessao, falhas>>

\* UpdateRequisicaoCompleta: its own rows are dated three hours back, so the row
\* it synchronises is the latest movement
UpdateRequisicaoCompleta ==
  /\ "legado" \in Escritores /\ existe /\ SemLinhaAberta
  /\ \E x \in Sincroniza([proc |-> processo, sinc |-> sincronizada], historico) :
       processo' = x.proc /\ sincronizada' = x.sinc
  /\ UNCHANGED <<existe, historico, proxLinha, pedido, copia, sessao, falhas>>

\* ReverterSolicitacao: reads what is not reverted yet ...
ReverterComeca(s, k) ==
  /\ "reversao" \in Escritores
  /\ sessao[s].fase = "livre" /\ copia[k] # {}
  /\ sessao' = [sessao EXCEPT ![s] =
        [Livre EXCEPT !.fase = "revertendo", !.pedido = k, !.colunas = copia[k]]]
  /\ UNCHANGED <<quadroVars, pedido, copia, falhas>>

\* ... and undoes it one statement at a time, in the order it was saved; the
\* statement that marks the saved value as reverted may be lost
Proxima(c, cs) == /\ c \in cs
                  /\ c = "etapa" => "linha" \notin cs
                  /\ c = "aprov" => cs = {"aprov"}
\* mutant: the DELETE takes the latest row of the process
ReverteUltimaLinha(s, c, marcou) ==
  LET k == sessao[s].pedido
      a == pedido[k].antes
  IN
  /\ sessao[s].fase = "revertendo" /\ Proxima(c, sessao[s].colunas)
  /\ CASE c = "linha" -> /\ historico' = {r \in historico : \E y \in historico : y.id > r.id}
                         /\ UNCHANGED processo
       [] c = "etapa" -> processo' = [processo EXCEPT !.etapa = a.etapa] /\ UNCHANGED historico
       [] c = "aprov" -> processo' = [processo EXCEPT !.aprov = a.aprov] /\ UNCHANGED historico
  /\ IF marcou THEN copia' = [copia EXCEPT ![k] = @ \ {c}] /\ UNCHANGED falhas
               ELSE Falha /\ UNCHANGED copia
  /\ sessao' = [sessao EXCEPT ![s].colunas = @ \ {c}]
  /\ UNCHANGED <<existe, proxLinha, sincronizada, pedido>>
\* mutant: the empty value saved for a stage is put back as 0
ReverteParaZero(s, c, marcou) ==
  LET k == sessao[s].pedido IN
  /\ sessao[s].fase = "revertendo" /\ Proxima(c, sessao[s].colunas)
  /\ IF c = "linha"
     THEN historico' = {r \in historico : r.id # pedido[k].linha} /\ UNCHANGED processo
     ELSE processo' = [processo EXCEPT ![c] = 0] /\ UNCHANGED historico
  /\ IF marcou THEN copia' = [copia EXCEPT ![k] = @ \ {c}] /\ UNCHANGED falhas
               ELSE Falha /\ UNCHANGED copia
  /\ sessao' = [sessao EXCEPT ![s].colunas = @ \ {c}]
  /\ UNCHANGED <<existe, proxLinha, sincronizada, pedido>>
ReverterColuna(s, c, marcou) ==
  LET k == sessao[s].pedido
      a == pedido[k].antes
  IN
  /\ sessao[s].fase = "revertendo" /\ Proxima(c, sessao[s].colunas)
  /\ CASE c = "linha" -> /\ historico' = {r \in historico : r.id # pedido[k].linha}
                         /\ UNCHANGED processo
       [] c = "etapa" -> processo' = [processo EXCEPT !.etapa = a.etapa] /\ UNCHANGED historico
       [] c = "aprov" -> processo' = [processo EXCEPT !.aprov = a.aprov] /\ UNCHANGED historico
  /\ IF marcou THEN copia' = [copia EXCEPT ![k] = @ \ {c}] /\ UNCHANGED falhas
               ELSE Falha /\ UNCHANGED copia
  /\ sessao' = [sessao EXCEPT ![s].colunas = @ \ {c}]
  /\ UNCHANGED <<existe, proxLinha, sincronizada, pedido>>

ReverterTermina(s) ==
  /\ sessao[s].fase = "revertendo" /\ sessao[s].colunas = {}
  /\ pedido' = [pedido EXCEPT ![sessao[s].pedido].fase = "revertido"]
  /\ sessao' = [sessao EXCEPT ![s] = Livre]
  /\ UNCHANGED <<quadroVars, copia, falhas>>
-----------------------------------------------------------------------------
PassoDoNucleo(s) == LeSnapshot(s) \/ InsereLinha(s) \/ Efetiva(s) \/ Desiste(s)
PassoDoQuadro(s) == (\E p \in Destinos : MovimentarPede(s, p)) \/ CriarProcessoDeRequisicao(s)
PassoDoChat(s) ==
  \/ \E k \in Pedidos : ExecutorConfere(s, k)
  \/ \E gravou \in BOOLEAN : ExecutorCopia(s, gravou)
PassoDaReversao(s) ==
  \/ \E k \in Pedidos : ReverterComeca(s, k)
  \/ \E c \in Colunas, marcou \in BOOLEAN : ReverterColuna(s, c, marcou)
  \/ ReverterTermina(s)
OutroEscritor ==
  \/ \E a \in {1, 2} : SalvarEncerramento(a) \/ SalvarDeferimento(a)
  \/ \E p \in Destinos, vieram \in SUBSET {"etapa", "aprov"} :
        AtualizarProcessoCompleto(p, vieram)
  \/ \E r \in historico : AdminDeleteHistorico(r)
  \/ \E p \in Destinos : MovimentarProcesso(p.etapa)
  \/ UpdateRequisicaoCompleta

Next ==
  \/ \E s \in Sessoes :
       PassoDoNucleo(s) \/ PassoDoQuadro(s) \/ PassoDoChat(s) \/ PassoDaReversao(s)
  \/ \E k \in Pedidos, p \in Destinos : MontarMov(k, p)
  \/ OutroEscritor

Spec == Init /\ [][Next]_vars
-----------------------------------------------------------------------------
(* Properties                                                                *)

TypeOK ==
  /\ existe \in BOOLEAN /\ processo \in Q!Estados
  /\ historico \subseteq Linhas /\ proxLinha \in 1..(MaxLinhas + 1)
  /\ sincronizada \in 0..MaxLinhas
  /\ pedido \in [Pedidos -> [fase : {"nenhum", "previa", "revisao", "executado", "revertido"},
                             antes : Q!Estados, para : Q!Estados, linha : 0..MaxLinhas]]
  /\ copia \in [Pedidos -> SUBSET Colunas]
  /\ sessao \in [Sessoes -> [fase : Fases, pedido : 0..MaxPedidos, para : Q!Estados,
                             de : Q!Estados, linha : 0..MaxLinhas, colunas : SUBSET Colunas]]
  /\ falhas \in 0..MaxFalhas

\* Status and stage "NUNCA dessincronizam do historico": the process is where
\* its latest history row left it.
EspelhaHistorico == historico # {} => processo = Ultimo.para

\* "Encerramento NAO pode voltar (terminal)".
EncerramentoTerminal == [][existe /\ processo.etapa = 6 => processo'.etapa = 6]_vars

\* What is left of the rules when snapshots are stale and every other writer is
\* at work: each row the core commits, read by itself, is a movement the rules
\* allow from the state it says it left, with the decision the stage stands for,
\* and it is where that call left the process. A movement validated on one state
\* and recorded from another would break it.
LinhasLegais ==
  [][\A r \in historico' \ historico : r.tipo = "manual" =>
       /\ Q!Valida(r.de, r.para) /\ r.para = Q!Congela(r.para)
       /\ processo' = r.para]_vars

\* A process never finds itself back at the beginning without a movement that
\* says so, its own or the one a v1 handler copies back, however many calls create
\* it at the same time: criarProcesso..., "nem risco de rebobinar um processo
\* existente".
NaoRebobina ==
  [][existe /\ processo # Q!Inicial /\ processo' = Q!Inicial
       => \E r \in historico' :
            r.para = Q!Inicial /\ (r \notin historico \/ sincronizada' = r.id)]_vars

\* The executor moves a process only from the state the approver saw in the
\* preview: "o processo mudou entre a previa e a execucao? nao sobrescreve".
ExecutaAPrevia ==
  \A r \in historico : r.pedido # 0 => r.de = pedido[r.pedido].antes

\* A request asked once in the chat moves the process once and, once it is
\* reverted, none of its movements is left, whatever else happens meanwhile; a
\* failure (the executor dies before the request is marked) costs one more row.
UmaLinhaPorPedido ==
  \A k \in Pedidos :
    Cardinality({r \in historico : r.pedido = k})
      <= falhas + IF pedido[k].fase = "revertido" THEN 0 ELSE 1

\* Every movement, creation included, is a step of the board of Quadro.
ImplementaQuadro == Q!Spec
=============================================================================
