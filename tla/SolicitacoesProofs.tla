----------------------- MODULE SolicitacoesProofs -----------------------
(* Proofs about the queue: its types, approval, the host tasks that start    *)
(* once, and what holds of the queue while no correction is in flight. For   *)
(* any number of users, rows, texts and failures, and of sessions where a    *)
(* theorem does not say otherwise.                                           *)
EXTENDS Solicitacoes, TLAPS

-----------------------------------------------------------------------------
(* Facts about the operators of the specification                            *)

\* The action Montar builds for a text is a well-formed action, and what it
\* carries out is that text.
LEMMA MontarTipo ==
  ASSUME NEW t \in TodosTipos, NEW v \in Versoes
  PROVE  Montar(t, v) \in Acoes
BY DEF Montar, Acoes, SemAcao

\* Every status the door gives a request is one of the statuses of the table.
LEMMA PortaTipo ==
  ASSUME NEW u, NEW t
  PROVE  Porta(u, t) \in {"aprovado", "revisao", "pendente"}
BY DEF Porta

\* The text that a row or a queued copy would carry out is one of its texts.
LEMMA AlvoTipo ==
  ASSUME NEW r, r.versao \in Versoes, r.acao \in Acoes
  PROVE  Alvo(r) \in Versoes
BY DEF Alvo, Acoes, SemAcao

\* Counting one more write of a text keeps the counters well formed.
LEMMA ContaMaisUm ==
  ASSUME NEW f \in [Ids -> [Versoes -> Nat]], NEW i \in Ids, NEW v \in Versoes
  PROVE  [f EXCEPT ![i][v] = @ + 1] \in [Ids -> [Versoes -> Nat]]
OBVIOUS

\* There is a first text, whatever the bound.
LEMMA PrimeiroTexto == 1 \in Versoes
BY ConstantesOK DEF Versoes, ConstantesOK
\* There is a first row, whatever the bound.
LEMMA PrimeiroId == 1 \in Ids
BY ConstantesOK DEF Ids, ConstantesOK

\* A row that does not exist still has the form of a row.
LEMMA LinhaAusenteTipo == LinhaAusente \in Linhas
BY PrimeiroTexto DEF LinhaAusente, Linhas, Usuarios, TodosTipos, Acoes, Status
\* The executor that does not run has the form of an executor.
LEMMA ParadoTipo ==
  Parado \in [fase : {"parado", "rodando", "aplicou"}, fila : SUBSET Itens,
              marca : [status : Marcas, resultado : {"outro", "naoReconhecido"}]]
BY DEF Parado, Marcas
\* A session that serves nobody has the form of a session.
LEMMA SessaoLivreTipo == SessaoLivre \in Sessao
BY PrimeiroTexto, PrimeiroId DEF SessaoLivre, Sessao, TodosTipos
-----------------------------------------------------------------------------
(* Type correctness                                                          *)

\* The empty table, with every program at rest, is well formed.
LEMMA TypeInit == Init => TypeOK
BY ConstantesOK, PrimeiroTexto, PrimeiroId, LinhaAusenteTipo, ParadoTipo, SessaoLivreTipo
DEF Init, TypeOK, ConstantesOK, SemTarefa, Versoes, Ids

\* CriarSolicitacao writes a well-formed row and a well-formed approval.
LEMMA TypeCriar ==
  ASSUME TypeOK, NEW u \in Usuarios, NEW t \in Tipos, CriarSolicitacao(u, t)
  PROVE  TypeOK'
<1> USE ConstantesOK DEF ConstantesOK, CriarSolicitacao
<1>1. t \in TodosTipos /\ 1 \in Versoes
  BY PrimeiroTexto
<1>2. [LinhaAusente EXCEPT !.dono = u, !.tipo = t, !.acao = Montar(t, 1),
                           !.status = Porta(u, t)] \in Linhas
  BY <1>1, LinhaAusenteTipo, MontarTipo, PortaTipo DEF Linhas, Status
<1>3. linha' \in [Ids -> Linhas] /\ proximo' \in 1..(MaxPedidos + 1)
  BY <1>2 DEF TypeOK, Ids
<1>4. aprovadas' \in SUBSET [id : Ids, alvo : Versoes, vista : Versoes]
  BY <1>1 DEF TypeOK, Aprova
<1> QED BY <1>3, <1>4 DEF TypeOK, atores

\* The handlers of one statement keep everything well formed.
LEMMA TypeSite ==
  ASSUME TypeOK, PassoDoSite
  PROVE  TypeOK'
<1> USE ConstantesOK DEF ConstantesOK
<1>1. ASSUME NEW u \in Usuarios, NEW t \in Tipos, CriarSolicitacao(u, t)
      PROVE  TypeOK'
  BY <1>1, TypeCriar
<1>2. CASE ListarSolicitacoes
  <2>1. \A i \in Ids : linha[i].versao \in 0..MaxVersao
    BY DEF TypeOK, Linhas, Versoes
  <2>2. tela' \in [Ids -> 0..MaxVersao]
    BY <1>2, <2>1 DEF ListarSolicitacoes
  <2> QED BY <1>2, <2>2 DEF ListarSolicitacoes, TypeOK, tabela, historia
<1>3. ASSUME NEW id \in Ids, AprovarSolicitacao(id)
      PROVE  TypeOK'
  <2>1. linha[id] \in Linhas /\ tela[id] \in Versoes
    BY <1>3 DEF AprovarSolicitacao, TypeOK, Versoes
  <2>2. Alvo(linha[id]) \in Versoes
    BY <2>1, AlvoTipo DEF Linhas
  <2>3. linha' \in [Ids -> Linhas]
    BY <1>3, <2>1 DEF AprovarSolicitacao, TypeOK, Linhas, Status
  <2> QED BY <1>3, <2>1, <2>2, <2>3 DEF AprovarSolicitacao, Aprova, TypeOK, atores
<1>4. ASSUME NEW id \in Ids, RejeitarSolicitacao(id)
      PROVE  TypeOK'
  BY <1>4, LinhaAusenteTipo DEF RejeitarSolicitacao, TypeOK, atores, historia
<1>5. ASSUME NEW id \in Ids, NEW t \in Tipos, ResponderConfirmacao(id, t)
      PROVE  TypeOK'
  <2>1. linha[id] \in Linhas /\ t \in TodosTipos
    BY DEF TypeOK
  <2>2. linha' \in [Ids -> Linhas]
    BY <1>5, <2>1 DEF ResponderConfirmacao, TypeOK, Linhas, Status, Versoes
  <2> QED BY <1>5, <2>2 DEF ResponderConfirmacao, TypeOK, atores, historia
<1> QED BY <1>1, <1>2, <1>3, <1>4, <1>5 DEF PassoDoSite

\* So do the handlers of several statements, each statement on its own.
LEMMA TypeSessao ==
  ASSUME TypeOK, NEW s \in Sessoes, PassoDaSessao(s)
  PROVE  TypeOK'
<1> USE ConstantesOK DEF ConstantesOK
<1> DEFINE p == sessao[s]
           r == linha[p.id]
<1>0. p \in Sessao /\ p.id \in Ids /\ r \in Linhas
  BY DEF TypeOK, Sessao
<1>1. ASSUME NEW id \in Ids, NEW t \in Tipos, CorrigirVerifica(s, id, t)
      PROVE  TypeOK'
  <2>1. linha[id].versao \in Versoes /\ t \in TodosTipos
    BY DEF TypeOK, Linhas
  <2>2. sessao' \in [Sessoes -> Sessao]
    BY <1>1, <2>1 DEF CorrigirVerifica, TypeOK, Sessao
  <2> QED BY <1>1, <2>2 DEF CorrigirVerifica, TypeOK, tabela, historia
<1>2. ASSUME NEW t \in Tipos, CorrigirReabre(s, t)
      PROVE  TypeOK'
  <2>1. t \in TodosTipos /\ SemAcao \in Acoes
    BY DEF Acoes
  <2>2. linha' \in [Ids -> Linhas]
    <3>1. r.versao + 1 \in Versoes
      BY <1>0, <1>2 DEF CorrigirReabre, Linhas, Versoes
    <3>2. [r EXCEPT !.versao = @ + 1, !.tipo = t, !.status = "pendente",
                    !.acao = SemAcao, !.executado = FALSE] \in Linhas
      BY <1>0, <2>1, <3>1 DEF Linhas, Status
    <3>3. linha \in [Ids -> Linhas]
      BY DEF TypeOK
    <3>4. linha' = linha \/ linha' = [linha EXCEPT ![p.id] =
               [r EXCEPT !.versao = @ + 1, !.tipo = t, !.status = "pendente",
                         !.acao = SemAcao, !.executado = FALSE]]
      BY <1>0, <1>2, <3>3 DEF CorrigirReabre
    <3> QED BY <1>0, <3>2, <3>3, <3>4
  <2>3. sessao' \in [Sessoes -> Sessao]
    BY <1>0, <1>2 DEF CorrigirReabre, TypeOK, Sessao
  <2> QED BY <1>2, <2>2, <2>3 DEF CorrigirReabre, TypeOK, historia
<1>3. CASE CorrigirReinterpreta(s)
  <2>1. r.versao \in Versoes /\ r.tipo \in TodosTipos
    BY <1>0 DEF Linhas
  <2>2. sessao' \in [Sessoes -> Sessao]
    BY <1>0, <1>3, <2>1 DEF CorrigirReinterpreta, TypeOK, Sessao
  <2> QED BY <1>3, <2>2 DEF CorrigirReinterpreta, TypeOK, tabela, historia
<1>4. CASE CorrigirGrava(s)
  <2> DEFINE r2 == [r EXCEPT !.acao = Montar(p.tipo, p.versao),
                             !.status = Porta(r.dono, p.tipo)]
  <2>1. Montar(p.tipo, p.versao) \in Acoes /\ Porta(r.dono, p.tipo) \in Status
    BY <1>0, MontarTipo, PortaTipo DEF Sessao, Status
  <2>2. r2 \in Linhas
    BY <1>0, <2>1 DEF Linhas
  <2>3. Alvo(r2) \in Versoes
    BY <2>2, AlvoTipo DEF Linhas
  <2>4. linha' \in [Ids -> Linhas]
    BY <1>4, <2>2 DEF CorrigirGrava, TypeOK
  <2>5. sessao' \in [Sessoes -> Sessao]
    BY <1>4, SessaoLivreTipo DEF CorrigirGrava, TypeOK
  <2>6. aprovadas' \in SUBSET [id : Ids, alvo : Versoes, vista : Versoes]
    BY <1>0, <1>4, <2>3 DEF CorrigirGrava, Aprova, TypeOK
  <2> QED BY <1>4, <2>4, <2>5, <2>6 DEF CorrigirGrava, TypeOK
<1>5. ASSUME NEW id \in Ids, NEW falhou \in BOOLEAN, ReverterRestaura(s, id, falhou)
      PROVE  TypeOK'
  <2>1. sessao' \in [Sessoes -> Sessao]
    BY <1>5, SessaoLivreTipo DEF ReverterRestaura, TypeOK, Sessao
  <2>2. backup' \in [Ids -> BOOLEAN] /\ falhas' \in 0..MaxFalhas
    <3>1. \E resta \in BOOLEAN : backup' = [backup EXCEPT ![id] = resta]
      BY <1>5 DEF ReverterRestaura
    <3>2. backup' \in [Ids -> BOOLEAN]
      BY <3>1 DEF TypeOK
    <3>3. falhas' \in 0..MaxFalhas
      BY <1>5 DEF ReverterRestaura, TypeOK
    <3> QED BY <3>2, <3>3
  <2> QED BY <1>5, <2>1, <2>2 DEF ReverterRestaura, TypeOK, historia
<1>6. CASE ReverterMarca(s)
  <2>1. linha' \in [Ids -> Linhas]
    BY <1>0, <1>6 DEF ReverterMarca, TypeOK, Linhas, Status
  <2>2. sessao' \in [Sessoes -> Sessao]
    BY <1>6, SessaoLivreTipo DEF ReverterMarca, TypeOK
  <2> QED BY <1>6, <2>1, <2>2 DEF ReverterMarca, TypeOK, historia
<1> QED BY <1>1, <1>2, <1>3, <1>4, <1>5, <1>6 DEF PassoDaSessao

\* What a step of the executor writes in the table, in its own state and in the
\* history is well formed.
LEMMA TypeExecutor ==
  ASSUME TypeOK, PassoDoExecutor
  PROVE  TypeOK'
<1> USE ConstantesOK DEF ConstantesOK
<1> DEFINE Executores == [fase : {"parado", "rodando", "aplicou"}, fila : SUBSET Itens,
              marca : [status : Marcas, resultado : {"outro", "naoReconhecido"}]]
<1>1. CASE ExecutorInicia
  <2>1. \A id \in Ids : Item(id) \in Itens
    BY DEF Item, Itens, TypeOK, Linhas
  <2>2. executor' \in Executores
    BY <1>1, <2>1, ParadoTipo DEF ExecutorInicia
  <2> QED BY <1>1, <2>2 DEF ExecutorInicia, TypeOK, tabela, historia
<1>2. ASSUME NEW it \in executor.fila
      PROVE  it \in Itens /\ it.id \in Ids /\ Alvo(it) \in Versoes
             /\ linha[it.id] \in Linhas /\ Avanca(it) \in Executores
  <2>1. it \in Itens /\ it.id \in Ids /\ linha[it.id] \in Linhas
    BY DEF TypeOK, Itens
  <2>2. Alvo(it) \in Versoes
    BY <2>1, AlvoTipo DEF Itens
  <2>3. Avanca(it) \in Executores
    BY ParadoTipo DEF Avanca, TypeOK
  <2> QED BY <2>1, <2>2, <2>3
<1>3. ASSUME NEW it \in executor.fila, ExecutorPulaTarefa(it)
      PROVE  TypeOK'
  BY <1>2, <1>3 DEF ExecutorPulaTarefa, TypeOK, tabela, historia
<1>4. ASSUME NEW it \in executor.fila, NEW m \in Respostas(it.acao.op),
             NEW gravou \in BOOLEAN, ExecutorAplica(it, m, gravou)
      PROVE  TypeOK'
  <2>1. m \in [status : Marcas, resultado : {"outro", "naoReconhecido"}]
    BY DEF Respostas, Marcas
  <2>2. executor' \in Executores
    BY <1>4, <2>1 DEF ExecutorAplica, TypeOK
  <2>3. aplicada' \in [Ids -> [Versoes -> Nat]] /\ backup' \in [Ids -> BOOLEAN]
    <3>1. /\ aplicada \in [Ids -> [Versoes -> Nat]] /\ backup \in [Ids -> BOOLEAN]
          /\ aplicada[it.id] \in [Versoes -> Nat] /\ aplicada[it.id][Alvo(it)] \in Nat
      BY <1>2 DEF TypeOK
    <3>2. /\ \/ aplicada' = aplicada
             \/ aplicada' = [aplicada EXCEPT ![it.id][Alvo(it)] = @ + 1]
          /\ backup' = backup \/ backup' = [backup EXCEPT ![it.id] = TRUE]
      BY <1>4 DEF ExecutorAplica
    <3>3. aplicada' \in [Ids -> [Versoes -> Nat]]
      <4>1. [aplicada EXCEPT ![it.id][Alvo(it)] = @ + 1] \in [Ids -> [Versoes -> Nat]]
        BY <1>2, <3>1, ContaMaisUm
      <4> QED BY <3>1, <3>2, <4>1
    <3>4. backup' \in [Ids -> BOOLEAN]
      BY <1>2, <3>1, <3>2
    <3> QED BY <3>3, <3>4
  <2>4. tratadas' \in [Ids -> SUBSET Versoes]
    BY <1>2, <1>4 DEF ExecutorAplica, TypeOK
  <2> QED BY <1>4, <2>2, <2>3, <2>4 DEF ExecutorAplica, TypeOK
<1>5. ASSUME NEW it \in executor.fila, NEW falhou \in BOOLEAN, ExecutorMarca(it, falhou)
      PROVE  TypeOK'
  <2>1. /\ executor.marca.status \in Status
        /\ executor.marca.resultado \in {"outro", "naoReconhecido"}
    BY DEF TypeOK, Marcas, Status
  <2>2. linha[it.id].executado \in BOOLEAN
    BY <1>2 DEF Linhas
  <2>3. linha' \in [Ids -> Linhas]
    <3> DEFINE m == executor.marca
               r2 == [linha[it.id] EXCEPT !.status = m.status, !.resultado = m.resultado,
                                          !.executado = @ \/ m.status # "revisao"]
    <3>1. (linha[it.id].executado \/ m.status # "revisao") \in BOOLEAN
      BY <2>2
    <3>2. r2 \in Linhas
      BY <1>2, <2>1, <3>1 DEF Linhas
    <3>3. linha \in [Ids -> Linhas]
      BY DEF TypeOK
    <3>4. linha' = linha \/ linha' = [linha EXCEPT ![it.id] = r2]
      BY <1>2, <1>5, <3>3 DEF ExecutorMarca
    <3> QED BY <1>2, <3>2, <3>3, <3>4
  <2>4. falhas' \in 0..MaxFalhas
    BY <1>5 DEF ExecutorMarca, TypeOK
  <2> QED BY <1>2, <1>5, <2>3, <2>4 DEF ExecutorMarca, TypeOK, historia
<1> QED BY <1>1, <1>3, <1>4, <1>5 DEF PassoDoExecutor

\* What run_jobs.py reserves and writes is well formed.
LEMMA TypeRunJobs ==
  ASSUME TypeOK, PassoDeRunJobs
  PROVE  TypeOK'
<1>1. ASSUME NEW id \in Ids, TarefaPega(id)
      PROVE  TypeOK'
  <2>1. linha[id] \in Linhas
    BY DEF TypeOK
  <2>2. Alvo(linha[id]) \in Versoes
    BY <2>1, AlvoTipo DEF Linhas
  <2>3. linha' \in [Ids -> Linhas]
    BY <1>1, <2>1 DEF TarefaPega, TypeOK, Linhas, Status
  <2>4. /\ tarefa' \in [id : 0..MaxPedidos, versao : Versoes]
        /\ iniciada' \in [Ids -> [Versoes -> Nat]]
    BY <1>1, <2>2, ConstantesOK DEF TarefaPega, TypeOK, Ids, ConstantesOK
  <2> QED BY <1>1, <2>3, <2>4 DEF TarefaPega, TypeOK
<1>2. ASSUME NEW st \in {"executado", "erro"}, TarefaFinaliza(st)
      PROVE  TypeOK'
  <2>1. tarefa.id \in Ids /\ tarefa.versao \in Versoes
    BY <1>2, ConstantesOK DEF TarefaFinaliza, TypeOK, Ids, ConstantesOK
  <2>2. linha' \in [Ids -> Linhas]
    <3> DEFINE r2 == [linha[tarefa.id] EXCEPT !.status = st, !.executado = TRUE,
                                              !.resultado = "outro"]
    <3>1. linha \in [Ids -> Linhas] /\ linha[tarefa.id] \in Linhas
      BY <2>1 DEF TypeOK
    <3>2. r2 \in Linhas
      BY <3>1 DEF Linhas, Status
    <3>3. linha' = linha \/ linha' = [linha EXCEPT ![tarefa.id] = r2]
      BY <1>2, <2>1, <3>1 DEF TarefaFinaliza
    <3> QED BY <2>1, <3>1, <3>2, <3>3
  <2>3. tratadas' \in [Ids -> SUBSET Versoes]
    BY <1>2, <2>1 DEF TarefaFinaliza, TypeOK
  <2>4. tarefa' \in [id : 0..MaxPedidos, versao : Versoes]
    BY <1>2, PrimeiroTexto, ConstantesOK DEF TarefaFinaliza, SemTarefa, ConstantesOK
  <2> QED BY <1>2, <2>2, <2>3, <2>4 DEF TarefaFinaliza, TypeOK
<1> QED BY <1>1, <1>2 DEF PassoDeRunJobs

\* What the worker lists and answers is well formed.
LEMMA TypeWorker ==
  ASSUME TypeOK, PassoDoWorker
  PROVE  TypeOK'
<1>1. CASE WorkerLista
  <2>1. worker' \in SUBSET [id : Ids, versao : Versoes]
    BY <1>1 DEF WorkerLista, TypeOK, Linhas
  <2> QED BY <1>1, <2>1 DEF WorkerLista, TypeOK, tabela, historia
<1>2. ASSUME NEW w \in worker
      PROVE  w.id \in Ids /\ w.versao \in Versoes /\ linha[w.id] \in Linhas
  BY DEF TypeOK
<1>3. ASSUME NEW w \in worker, NEW st \in {"executado", "erro", "preciso_confirmar"},
             WorkerConclui(w, st)
      PROVE  TypeOK'
  <2>1. linha' \in [Ids -> Linhas]
    <3> DEFINE r2 == [linha[w.id] EXCEPT !.status = st, !.executado = TRUE,
                                         !.resultado = "outro"]
    <3>1. linha \in [Ids -> Linhas]
      BY DEF TypeOK
    <3>2. r2 \in Linhas
      BY <1>2 DEF Linhas, Status
    <3>3. linha' = linha \/ linha' = [linha EXCEPT ![w.id] = r2]
      BY <1>2, <1>3, <3>1 DEF WorkerConclui
    <3> QED BY <1>2, <3>1, <3>2, <3>3
  <2>2. tratadas' \in [Ids -> SUBSET Versoes]
    BY <1>2, <1>3 DEF WorkerConclui, TypeOK
  <2> QED BY <1>3, <2>1, <2>2 DEF WorkerConclui, TypeOK
<1>4. ASSUME NEW w \in worker, NEW res \in {"decisaoHumana", "portal"},
             WorkerDevolve(w, res)
      PROVE  TypeOK'
  <2>1. linha' \in [Ids -> Linhas]
    <3> DEFINE r2 == [linha[w.id] EXCEPT !.resultado = res]
    <3>1. linha \in [Ids -> Linhas]
      BY DEF TypeOK
    <3>2. r2 \in Linhas
      BY <1>2 DEF Linhas
    <3>3. linha' = linha \/ linha' = [linha EXCEPT ![w.id] = r2]
      BY <1>2, <1>4, <3>1 DEF WorkerDevolve
    <3> QED BY <1>2, <3>1, <3>2, <3>3
  <2> QED BY <1>4, <2>1 DEF WorkerDevolve, TypeOK, historia
<1> QED BY <1>1, <1>3, <1>4 DEF PassoDoWorker

\* A program that dies leaves everything well formed.
LEMMA TypeQueda ==
  ASSUME TypeOK, Queda
  PROVE  TypeOK'
<1> USE ConstantesOK DEF ConstantesOK
<1>1. CASE ExecutorMorre
  BY <1>1, ParadoTipo DEF ExecutorMorre, TypeOK, tabela, historia
<1>2. CASE TarefaMorre
  BY <1>2, PrimeiroTexto DEF TarefaMorre, SemTarefa, TypeOK, tabela, historia
<1>3. CASE WorkerMorre
  BY <1>3 DEF WorkerMorre, TypeOK, tabela, historia
<1>4. ASSUME NEW s \in Sessoes, SessaoMorre(s)
      PROVE  TypeOK'
  BY <1>4, SessaoLivreTipo DEF SessaoMorre, TypeOK, tabela, historia
<1> QED BY <1>1, <1>2, <1>3, <1>4 DEF Queda

\* Every step keeps everything well formed.
LEMMA TypeStep ==
  ASSUME TypeOK, [Next]_vars
  PROVE  TypeOK'
<1>1. CASE UNCHANGED vars
  BY <1>1 DEF TypeOK, vars, tabela, atores, historia
<1> QED BY <1>1, TypeSite, TypeSessao, TypeExecutor, TypeRunJobs, TypeWorker,
           TypeQueda DEF Next

\* In every run of the queue each row, session, queue in memory and mark is one
\* of the forms the code can produce.
THEOREM TipoCorreto == Spec => []TypeOK
BY TypeInit, TypeStep, PTL DEF Spec
-----------------------------------------------------------------------------
(* Nothing is applied without approval                                       *)

\* The inductive invariant: every copy that may still write is approved, and
\* so is all that was written. The approvals in aprovadas are never withdrawn.
Inv == TypeOK /\ CopiasAutorizadas /\ SoAplicaAprovado

\* Most steps neither raise a row to 'aprovado' nor change what an approved row
\* carries, put nothing in the queue of the executor, and write nothing.
NaoPromove ==
  \A id \in Ids : linha'[id].status = "aprovado" =>
     /\ linha[id].status = "aprovado"
     /\ linha'[id].acao = linha[id].acao /\ linha'[id].versao = linha[id].versao
FilaNaoCresce == executor'.fila \subseteq executor.fila
NadaGravado   == aplicada' = aplicada /\ iniciada' = iniciada
LinhasAutorizadas == \A id \in Ids : linha[id].status = "aprovado" => Autorizado(id, linha[id])
FilaAutorizada    == \A it \in executor.fila : Autorizado(it.id, it)

\* A step that promotes no row leaves every approved row covered.
LEMMA LinhasFicam ==
  ASSUME LinhasAutorizadas, NaoPromove, aprovadas \subseteq aprovadas'
  PROVE  LinhasAutorizadas'
BY DEF LinhasAutorizadas, NaoPromove, Autorizado, Aprovado, Escreve, Alvo

\* A step that queues nothing leaves every queued copy covered.
LEMMA FilaFica ==
  ASSUME FilaAutorizada, FilaNaoCresce, aprovadas \subseteq aprovadas'
  PROVE  FilaAutorizada'
BY DEF FilaAutorizada, FilaNaoCresce, Autorizado, Aprovado, Escreve, Alvo

\* A step that writes nothing leaves everything written covered.
LEMMA GravadoFica ==
  ASSUME SoAplicaAprovado, NadaGravado, aprovadas \subseteq aprovadas'
  PROVE  SoAplicaAprovado'
BY DEF SoAplicaAprovado, NadaGravado, Gravado, Aprovado

\* The handlers of the site: a row is created or approved together with the
\* record of its approval, and all other handlers take 'aprovado' away.
LEMMA InvSite ==
  ASSUME Inv, PassoDoSite
  PROVE  LinhasAutorizadas' /\ FilaNaoCresce /\ NadaGravado /\ aprovadas \subseteq aprovadas'
<1>0. TypeOK /\ LinhasAutorizadas /\ linha \in [Ids -> Linhas]
  BY DEF Inv, CopiasAutorizadas, LinhasAutorizadas, TypeOK
<1>1. ASSUME NEW u \in Usuarios, NEW t \in Tipos, CriarSolicitacao(u, t)
      PROVE  LinhasAutorizadas' /\ FilaNaoCresce /\ NadaGravado /\ aprovadas \subseteq aprovadas'
  <2> DEFINE r == [LinhaAusente EXCEPT !.dono = u, !.tipo = t, !.acao = Montar(t, 1),
                                       !.status = Porta(u, t)]
  <2>1. /\ linha' = [linha EXCEPT ![proximo] = r] /\ proximo \in Ids
        /\ FilaNaoCresce /\ NadaGravado /\ aprovadas \subseteq aprovadas'
    BY <1>1 DEF CriarSolicitacao, Aprova, FilaNaoCresce, NadaGravado, atores
  <2>2. r.versao = 1 /\ r.acao = Montar(t, 1) /\ r.status = Porta(u, t)
    BY DEF LinhaAusente
  <2>3. ASSUME r.status = "aprovado", Escreve(r)
        PROVE  u = Aprovador /\ ~EhLeitura(t) /\ Alvo(r) = 1
    BY <2>2, <2>3 DEF Porta, Escreve, Montar, EhLeitura, Alvo, SemAcao
  <2>4. r.status = "aprovado" /\ Escreve(r) => \E a \in aprovadas' : a.id = proximo /\ a.alvo = Alvo(r)
    <3> SUFFICES ASSUME r.status = "aprovado", Escreve(r)
                 PROVE  \E a \in aprovadas' : a.id = proximo /\ a.alvo = Alvo(r)
      OBVIOUS
    <3> DEFINE b == [id |-> proximo, alvo |-> 1, vista |-> 1]
    <3>1. b \in aprovadas'
      BY <1>1, <2>3 DEF CriarSolicitacao, Aprova
    <3>2. b.id = proximo /\ b.alvo = Alvo(r)
      BY <2>3
    <3> HIDE DEF b
    <3> QED BY <3>1, <3>2
  <2>5. ASSUME NEW id \in Ids, linha'[id].status = "aprovado"
        PROVE  Autorizado(id, linha[id])'
    <3>1. CASE id = proximo
      <4>1. linha'[id] = r
        BY <1>0, <2>1, <3>1
      <4> QED BY <2>4, <2>5, <3>1, <4>1 DEF Autorizado, Aprovado, Escreve, Alvo
    <3>2. CASE id # proximo
      <4>1. linha'[id] = linha[id]
        BY <1>0, <2>1, <3>2
      <4>2. Autorizado(id, linha[id])
        BY <1>0, <2>5, <4>1 DEF LinhasAutorizadas
      <4> QED BY <2>1, <4>1, <4>2 DEF Autorizado, Aprovado, Escreve, Alvo
    <3> QED BY <3>1, <3>2
  <2> QED BY <2>1, <2>5 DEF LinhasAutorizadas
<1>2. CASE ListarSolicitacoes
  BY <1>0, <1>2, LinhasFicam
  DEF ListarSolicitacoes, tabela, historia, NaoPromove, FilaNaoCresce, NadaGravado
<1>3. ASSUME NEW id \in Ids, AprovarSolicitacao(id)
      PROVE  LinhasAutorizadas' /\ FilaNaoCresce /\ NadaGravado /\ aprovadas \subseteq aprovadas'
  <2>1. /\ FilaNaoCresce /\ NadaGravado /\ aprovadas \subseteq aprovadas'
        /\ \E a \in aprovadas' : a.id = id /\ a.alvo = Alvo(linha[id])
        /\ linha' = [linha EXCEPT ![id].status = "aprovado"]
    <3>1. /\ FilaNaoCresce /\ NadaGravado
          /\ linha' = [linha EXCEPT ![id].status = "aprovado"]
      BY <1>3 DEF AprovarSolicitacao, FilaNaoCresce, NadaGravado, atores
    <3> DEFINE b == [id |-> id, alvo |-> Alvo(linha[id]), vista |-> tela[id]]
    <3>2. aprovadas' = aprovadas \cup {b}
      BY <1>3 DEF AprovarSolicitacao, Aprova
    <3>3. b.id = id /\ b.alvo = Alvo(linha[id])
      OBVIOUS
    <3> HIDE DEF b
    <3> QED BY <3>1, <3>2, <3>3
  <2>2. \A i \in Ids : /\ linha'[i].acao = linha[i].acao /\ linha'[i].versao = linha[i].versao
                       /\ i # id => linha'[i] = linha[i]
    BY <1>0, <2>1 DEF Linhas
  <2>3. ASSUME NEW i \in Ids, linha'[i].status = "aprovado"
        PROVE  Autorizado(i, linha[i])'
    <3>1. Alvo(linha[i])' = Alvo(linha[i]) /\ (Escreve(linha[i])' <=> Escreve(linha[i]))
      BY <2>2 DEF Alvo, Escreve
    <3>2. CASE i = id
      BY <2>1, <3>1, <3>2 DEF Autorizado, Aprovado
    <3>3. CASE i # id
      BY <1>0, <2>1, <2>2, <2>3, <3>1, <3>3 DEF LinhasAutorizadas, Autorizado, Aprovado
    <3> QED BY <3>2, <3>3
  <2> QED BY <2>1, <2>3 DEF LinhasAutorizadas
<1>4. ASSUME NEW id \in Ids, RejeitarSolicitacao(id)
      PROVE  LinhasAutorizadas' /\ FilaNaoCresce /\ NadaGravado /\ aprovadas \subseteq aprovadas'
  <2>1. NaoPromove
    BY <1>0, <1>4 DEF RejeitarSolicitacao, NaoPromove, LinhaAusente
  <2> QED BY <1>0, <1>4, <2>1, LinhasFicam
      DEF RejeitarSolicitacao, atores, historia, FilaNaoCresce, NadaGravado
<1>5. ASSUME NEW id \in Ids, NEW t \in Tipos, ResponderConfirmacao(id, t)
      PROVE  LinhasAutorizadas' /\ FilaNaoCresce /\ NadaGravado /\ aprovadas \subseteq aprovadas'
  <2>1. NaoPromove
    BY <1>0, <1>5 DEF ResponderConfirmacao, NaoPromove, Linhas
  <2> QED BY <1>0, <1>5, <2>1, LinhasFicam
      DEF ResponderConfirmacao, atores, historia, FilaNaoCresce, NadaGravado
<1> QED BY <1>1, <1>2, <1>3, <1>4, <1>5 DEF PassoDoSite

\* The handlers that take several steps: the second UPDATE of a correction may
\* raise the row to 'aprovado', and then it records the approval it stands for.
LEMMA InvSessao ==
  ASSUME Inv, NEW s \in Sessoes, PassoDaSessao(s)
  PROVE  LinhasAutorizadas' /\ FilaNaoCresce /\ NadaGravado /\ aprovadas \subseteq aprovadas'
<1> DEFINE Meta == LinhasAutorizadas' /\ FilaNaoCresce /\ NadaGravado
                   /\ aprovadas \subseteq aprovadas'
           p == sessao[s]
           r == linha[p.id]
<1>0. /\ TypeOK /\ LinhasAutorizadas /\ linha \in [Ids -> Linhas]
      /\ p \in Sessao /\ p.id \in Ids /\ r \in Linhas
  BY DEF Inv, CopiasAutorizadas, LinhasAutorizadas, TypeOK, Sessao
<1>1. ASSUME NEW id \in Ids, NEW t \in Tipos, CorrigirVerifica(s, id, t)
      PROVE  Meta
  BY <1>0, <1>1, LinhasFicam
  DEF CorrigirVerifica, tabela, historia, NaoPromove, FilaNaoCresce, NadaGravado
<1>2. ASSUME NEW t \in Tipos, CorrigirReabre(s, t)
      PROVE  Meta
  <2>1. NaoPromove
    BY <1>0, <1>2 DEF CorrigirReabre, NaoPromove, Linhas
  <2> QED BY <1>0, <1>2, <2>1, LinhasFicam
      DEF CorrigirReabre, historia, FilaNaoCresce, NadaGravado
<1>3. CASE CorrigirReinterpreta(s)
  BY <1>0, <1>3, LinhasFicam
  DEF CorrigirReinterpreta, tabela, historia, NaoPromove, FilaNaoCresce, NadaGravado
<1>4. CASE CorrigirGrava(s)
  <2> DEFINE r2 == [r EXCEPT !.acao = Montar(p.tipo, p.versao),
                             !.status = Porta(r.dono, p.tipo)]
  <2>1. FilaNaoCresce /\ NadaGravado /\ aprovadas \subseteq aprovadas'
    BY <1>4 DEF CorrigirGrava, Aprova, FilaNaoCresce, NadaGravado
  <2>2. /\ r2.acao = Montar(p.tipo, p.versao) /\ r2.versao = r.versao
        /\ r2.status = Porta(r.dono, p.tipo)
    BY <1>0 DEF Linhas
  <2>3. CASE ~Existe(p.id)
    <3>1. NaoPromove
      BY <1>4, <2>3 DEF CorrigirGrava, NaoPromove
    <3> QED BY <1>0, <2>1, <3>1, LinhasFicam
  <2>4. CASE Existe(p.id)
    <3>1. linha' = [linha EXCEPT ![p.id] = r2]
      BY <1>4, <2>4 DEF CorrigirGrava
    <3>2. ASSUME r2.status = "aprovado", Escreve(r2)
          PROVE  r.dono = Aprovador /\ ~EhLeitura(p.tipo)
      BY <2>2, <3>2 DEF Porta, Escreve, Montar, EhLeitura
    <3>3. r2.status = "aprovado" /\ Escreve(r2)
            => \E a \in aprovadas' : a.id = p.id /\ a.alvo = Alvo(r2)
      <4> SUFFICES ASSUME r2.status = "aprovado", Escreve(r2)
                   PROVE  \E a \in aprovadas' : a.id = p.id /\ a.alvo = Alvo(r2)
        OBVIOUS
      <4> DEFINE b == [id |-> p.id, alvo |-> Alvo(r2), vista |-> Alvo(r2)]
      <4>1. b \in aprovadas'
        BY <1>4, <2>4, <3>2 DEF CorrigirGrava, Aprova
      <4>2. b.id = p.id /\ b.alvo = Alvo(r2)
        OBVIOUS
      <4> HIDE DEF b
      <4> QED BY <4>1, <4>2
    <3>4. ASSUME NEW id \in Ids, linha'[id].status = "aprovado"
          PROVE  Autorizado(id, linha[id])'
      <4>1. CASE id = p.id
        <5>1. linha'[id] = r2
          BY <1>0, <3>1, <4>1
        <5> QED BY <3>3, <3>4, <4>1, <5>1 DEF Autorizado, Aprovado, Escreve, Alvo
      <4>2. CASE id # p.id
        <5>1. linha'[id] = linha[id]
          BY <1>0, <3>1, <4>2
        <5> QED BY <1>0, <2>1, <3>4, <5>1 DEF LinhasAutorizadas, Autorizado, Aprovado, Escreve, Alvo
      <4> QED BY <4>1, <4>2
    <3> QED BY <2>1, <3>4 DEF LinhasAutorizadas
  <2> QED BY <2>3, <2>4
<1>5. ASSUME NEW id \in Ids, NEW falhou \in BOOLEAN, ReverterRestaura(s, id, falhou)
      PROVE  Meta
  BY <1>0, <1>5, LinhasFicam
  DEF ReverterRestaura, historia, NaoPromove, FilaNaoCresce, NadaGravado
<1>6. CASE ReverterMarca(s)
  <2>1. NaoPromove
    BY <1>0, <1>6 DEF ReverterMarca, NaoPromove, Linhas
  <2> QED BY <1>0, <1>6, <2>1, LinhasFicam
      DEF ReverterMarca, historia, FilaNaoCresce, NadaGravado
<1> QED BY <1>1, <1>2, <1>3, <1>4, <1>5, <1>6 DEF PassoDaSessao

\* The executor: it copies approved rows only, and writes what a copy carries.
LEMMA InvExecutor ==
  ASSUME Inv, PassoDoExecutor
  PROVE  NaoPromove /\ FilaAutorizada' /\ SoAplicaAprovado' /\ aprovadas \subseteq aprovadas'
<1> DEFINE Meta == NaoPromove /\ FilaAutorizada' /\ SoAplicaAprovado'
                   /\ aprovadas \subseteq aprovadas'
<1>0. /\ TypeOK /\ LinhasAutorizadas /\ FilaAutorizada /\ SoAplicaAprovado
      /\ linha \in [Ids -> Linhas] /\ executor.fila \subseteq Itens
  BY DEF Inv, CopiasAutorizadas, LinhasAutorizadas, FilaAutorizada, TypeOK
<1>1. CASE ExecutorInicia
  <2>1. NaoPromove /\ NadaGravado /\ aprovadas' = aprovadas
    BY <1>1 DEF ExecutorInicia, tabela, historia, NaoPromove, NadaGravado
  <2>2. executor'.fila = {Item(id) : id \in {i \in Ids : NaFila(i)}}
    BY <1>1 DEF ExecutorInicia, Parado
  <2>3. ASSUME NEW it \in executor'.fila
        PROVE  Autorizado(it.id, it)
    <3>1. PICK id \in Ids : NaFila(id) /\ it = Item(id)
      BY <2>2
    <3>2. Autorizado(id, linha[id])
      BY <1>0, <3>1 DEF LinhasAutorizadas, NaFila
    <3> QED BY <3>1, <3>2 DEF Item, Autorizado, Escreve, Alvo
  <2>4. FilaAutorizada'
    BY <2>1, <2>3 DEF FilaAutorizada, Autorizado, Aprovado
  <2> QED BY <1>0, <2>1, <2>4, GravadoFica
<1>2. \A it \in executor.fila : Avanca(it).fila \subseteq executor.fila
  BY DEF Avanca, Parado
<1>3. ASSUME NEW it \in executor.fila, ExecutorPulaTarefa(it)
      PROVE  Meta
  <2>1. NaoPromove /\ NadaGravado /\ FilaNaoCresce /\ aprovadas' = aprovadas
    BY <1>2, <1>3 DEF ExecutorPulaTarefa, tabela, historia, NaoPromove, NadaGravado,
                      FilaNaoCresce
  <2> QED BY <1>0, <2>1, FilaFica, GravadoFica
<1>4. ASSUME NEW it \in executor.fila, NEW m \in Respostas(it.acao.op),
             NEW gravou \in BOOLEAN, ExecutorAplica(it, m, gravou)
      PROVE  Meta
  <2>1. NaoPromove /\ aprovadas' = aprovadas /\ executor'.fila = executor.fila
    BY <1>0, <1>4 DEF ExecutorAplica, NaoPromove, TypeOK
  <2>2. FilaAutorizada'
    BY <1>0, <2>1, FilaFica DEF FilaNaoCresce
  <2>3. CASE ~gravou
    BY <1>0, <1>4, <2>1, <2>2, <2>3, GravadoFica DEF ExecutorAplica, NadaGravado
  <2>4. CASE gravou
    <3>1. /\ aplicada' = [aplicada EXCEPT ![it.id][Alvo(it)] = @ + 1]
          /\ iniciada' = iniciada /\ Escreve(it)
      BY <1>4, <2>4 DEF ExecutorAplica
    <3>2. Aprovado(it.id, Alvo(it))
      BY <1>0, <3>1 DEF FilaAutorizada, Autorizado
    <3>3. aplicada \in [Ids -> [Versoes -> Nat]]
      BY DEF Inv, TypeOK
    <3>4. ASSUME NEW id \in Ids, NEW v \in Versoes, Gravado(id, v)' > 0
          PROVE  Aprovado(id, v)'
      <4>1. CASE id = it.id /\ v = Alvo(it)
        BY <2>1, <3>2, <4>1 DEF Aprovado
      <4>2. CASE ~(id = it.id /\ v = Alvo(it))
        <5>1. aplicada'[id][v] = aplicada[id][v]
          BY <3>1, <3>3, <4>2
        <5>2. Gravado(id, v) > 0
          BY <3>1, <3>4, <5>1 DEF Gravado
        <5> QED BY <1>0, <2>1, <5>2 DEF SoAplicaAprovado, Aprovado
      <4> QED BY <4>1, <4>2
    <3> QED BY <2>1, <2>2, <3>4 DEF SoAplicaAprovado
  <2> QED BY <2>3, <2>4
<1>5. ASSUME NEW it \in executor.fila, NEW falhou \in BOOLEAN, ExecutorMarca(it, falhou)
      PROVE  Meta
  <2>1. executor.marca.status # "aprovado"
    BY <1>0 DEF TypeOK, Marcas
  <2>2. NaoPromove
    BY <1>0, <1>5, <2>1 DEF ExecutorMarca, NaoPromove, Linhas
  <2>3. NadaGravado /\ FilaNaoCresce /\ aprovadas' = aprovadas
    BY <1>2, <1>5 DEF ExecutorMarca, historia, NadaGravado, FilaNaoCresce
  <2> QED BY <1>0, <2>2, <2>3, FilaFica, GravadoFica
<1> QED BY <1>1, <1>3, <1>4, <1>5 DEF PassoDoExecutor

\* run_jobs.py: it starts only what it finds approved.
LEMMA InvRunJobs ==
  ASSUME Inv, PassoDeRunJobs
  PROVE  NaoPromove /\ FilaNaoCresce /\ SoAplicaAprovado' /\ aprovadas \subseteq aprovadas'
<1>0. /\ TypeOK /\ LinhasAutorizadas /\ SoAplicaAprovado /\ linha \in [Ids -> Linhas]
  BY DEF Inv, CopiasAutorizadas, LinhasAutorizadas, TypeOK
<1>1. ASSUME NEW id \in Ids, TarefaPega(id)
      PROVE  NaoPromove /\ FilaNaoCresce /\ SoAplicaAprovado' /\ aprovadas \subseteq aprovadas'
  <2> DEFINE v0 == Alvo(linha[id])
  <2>1. NaoPromove /\ FilaNaoCresce /\ aprovadas' = aprovadas /\ aplicada' = aplicada
    BY <1>0, <1>1 DEF TarefaPega, NaoPromove, FilaNaoCresce, Linhas
  <2>2. Aprovado(id, v0)
    BY <1>0, <1>1 DEF TarefaPega, EhTarefa, NaFila, LinhasAutorizadas, Autorizado, Escreve
  <2>3. iniciada' = [iniciada EXCEPT ![id][v0] = @ + 1] /\ iniciada \in [Ids -> [Versoes -> Nat]]
    BY <1>0, <1>1 DEF TarefaPega, TypeOK
  <2>4. ASSUME NEW i \in Ids, NEW v \in Versoes, Gravado(i, v)' > 0
        PROVE  Aprovado(i, v)'
    <3>1. CASE i = id /\ v = v0
      BY <2>1, <2>2, <3>1 DEF Aprovado
    <3>2. CASE ~(i = id /\ v = v0)
      <4>1. iniciada'[i][v] = iniciada[i][v]
        BY <2>3, <3>2
      <4>2. Gravado(i, v) > 0
        BY <2>1, <2>4, <4>1 DEF Gravado
      <4> QED BY <1>0, <2>1, <4>2 DEF SoAplicaAprovado, Aprovado
    <3> QED BY <3>1, <3>2
  <2> QED BY <2>1, <2>4 DEF SoAplicaAprovado
<1>2. ASSUME NEW st \in {"executado", "erro"}, TarefaFinaliza(st)
      PROVE  NaoPromove /\ FilaNaoCresce /\ SoAplicaAprovado' /\ aprovadas \subseteq aprovadas'
  <2>1. tarefa.id \in Ids
    BY <1>0, <1>2, ConstantesOK DEF TarefaFinaliza, TypeOK, Ids, ConstantesOK
  <2>2. NaoPromove
    BY <1>0, <1>2, <2>1 DEF TarefaFinaliza, NaoPromove, Linhas
  <2>3. FilaNaoCresce /\ NadaGravado /\ aprovadas' = aprovadas
    BY <1>2 DEF TarefaFinaliza, FilaNaoCresce, NadaGravado
  <2> QED BY <1>0, <2>2, <2>3, GravadoFica
<1> QED BY <1>1, <1>2 DEF PassoDeRunJobs

\* The worker answers free questions: it approves nothing and writes nothing.
\* Neither does a program that dies.
LEMMA InvWorker ==
  ASSUME Inv, PassoDoWorker \/ Queda
  PROVE  NaoPromove /\ FilaNaoCresce /\ NadaGravado /\ aprovadas \subseteq aprovadas'
<1> DEFINE Meta == NaoPromove /\ FilaNaoCresce /\ NadaGravado
                   /\ aprovadas \subseteq aprovadas'
<1>0. linha \in [Ids -> Linhas] /\ \A w \in worker : w.id \in Ids
  BY DEF Inv, TypeOK
<1>1. CASE WorkerLista
  BY <1>1 DEF WorkerLista, tabela, historia, NaoPromove, FilaNaoCresce, NadaGravado
<1>2. ASSUME NEW w \in worker, NEW st \in {"executado", "erro", "preciso_confirmar"},
             WorkerConclui(w, st)
      PROVE  Meta
  BY <1>0, <1>2 DEF WorkerConclui, NaoPromove, FilaNaoCresce, NadaGravado, Linhas
<1>3. ASSUME NEW w \in worker, NEW res \in {"decisaoHumana", "portal"}, WorkerDevolve(w, res)
      PROVE  Meta
  BY <1>0, <1>3 DEF WorkerDevolve, historia, NaoPromove, FilaNaoCresce, NadaGravado, Linhas
<1>4. CASE Queda
  BY <1>4 DEF Queda, ExecutorMorre, TarefaMorre, WorkerMorre, SessaoMorre, Parado, tabela,
              historia, NaoPromove, FilaNaoCresce, NadaGravado
<1> QED BY <1>1, <1>2, <1>3, <1>4 DEF PassoDoWorker

\* Nothing is approved, copied or written at the beginning.
LEMMA InvInit == Init => Inv
<1> SUFFICES ASSUME Init PROVE Inv
  OBVIOUS
<1>1. \A id \in Ids : linha[id].status = "ausente"
  BY DEF Init, LinhaAusente
<1>2. CopiasAutorizadas
  BY <1>1 DEF Init, CopiasAutorizadas, Parado
<1>3. SoAplicaAprovado
  BY DEF Init, SoAplicaAprovado, Gravado
<1> QED BY <1>2, <1>3, TypeInit DEF Inv

\* Every step keeps rows and copies authorised, and writes only what they carry.
LEMMA InvStep ==
  ASSUME Inv, [Next]_vars
  PROVE  Inv'
<1>0. TypeOK /\ LinhasAutorizadas /\ FilaAutorizada /\ SoAplicaAprovado
  BY DEF Inv, CopiasAutorizadas, LinhasAutorizadas, FilaAutorizada
<1>1. TypeOK'
  BY <1>0, TypeStep
<1>2. LinhasAutorizadas' /\ FilaAutorizada' /\ SoAplicaAprovado'
  <2>1. CASE UNCHANGED vars
    BY <1>0, <2>1, LinhasFicam, FilaFica, GravadoFica
    DEF vars, tabela, atores, historia, NaoPromove, FilaNaoCresce, NadaGravado
  <2>2. CASE PassoDoSite
    BY <1>0, <2>2, InvSite, FilaFica, GravadoFica
  <2>3. ASSUME NEW s \in Sessoes, PassoDaSessao(s)
        PROVE  LinhasAutorizadas' /\ FilaAutorizada' /\ SoAplicaAprovado'
    BY <1>0, <2>3, InvSessao, FilaFica, GravadoFica
  <2>4. CASE PassoDoExecutor
    BY <1>0, <2>4, InvExecutor, LinhasFicam
  <2>5. CASE PassoDeRunJobs
    BY <1>0, <2>5, InvRunJobs, LinhasFicam, FilaFica
  <2>6. CASE PassoDoWorker \/ Queda
    BY <1>0, <2>6, InvWorker, LinhasFicam, FilaFica, GravadoFica
  <2> QED BY <2>1, <2>2, <2>3, <2>4, <2>5, <2>6 DEF Next
<1> QED BY <1>1, <1>2 DEF Inv, CopiasAutorizadas, LinhasAutorizadas, FilaAutorizada

\* Whatever may still write was approved for what it carries: the invariant on
\* rows and copies.
THEOREM CopiasSempreAutorizadas == Spec => []CopiasAutorizadas
<1>1. Inv => CopiasAutorizadas
  BY DEF Inv
<1> QED BY <1>1, InvInit, InvStep, PTL DEF Spec

\* Nothing is written for a request unless the approver let exactly that text
\* through, whatever the interleaving of handlers, executor, tasks and worker,
\* and whatever crashes.
THEOREM SoSeAplicaAprovado == Spec => []SoAplicaAprovado
<1>1. Inv => SoAplicaAprovado
  BY DEF Inv
<1> QED BY <1>1, InvInit, InvStep, PTL DEF Spec
-----------------------------------------------------------------------------
(* A host task starts once for each text                                     *)

\* At most one handler that takes several statements is in flight. Two
\* corrections of one request that both read its text write the same action
\* twice, and the second UPDATE puts back 'aprovado' over the reservation of
\* run_jobs.py (solicitacoes.go looks at the row no more before it writes).
UmaSessao == \A a, b \in Sessoes : a = b

\* The text a correction in flight will make its action of: the one it has
\* read, or, before it reads, the one of the row.
ALer(s) == IF sessao[s].op = "leu" THEN sessao[s].versao ELSE linha[sessao[s].id].versao
Abertas == {"pendente", "aprovado"}

\* Ids not given yet have no row and no task.
Vazias ==
  \A i \in Ids : ~(i < proximo) =>
    linha[i].status = "ausente" /\ \A v \in Versoes : iniciada[i][v] = 0

\* A row never carries a text newer than its own, its newer texts have not
\* started, nor has the task it still waits to be started for.
LinhaUmaVez(i) ==
  /\ linha[i].acao.versao <= linha[i].versao
  /\ \A v \in Versoes : v > linha[i].versao => iniciada[i][v] = 0
  /\ linha[i].status \in Abertas /\ linha[i].acao.op = "job"
       => iniciada[i][linha[i].acao.versao] = 0
LinhasUmaVez == \A i \in Ids : Existe(i) => LinhaUmaVez(i)

\* Between its two UPDATEs a correction speaks of a row without a task, whose
\* text has not started.
SessaoUmaVez(s) ==
  /\ sessao[s].op \in {"verificou", "reabriu", "leu"} => sessao[s].id < proximo
  /\ sessao[s].op \in {"reabriu", "leu"} /\ Existe(sessao[s].id) =>
       /\ linha[sessao[s].id].acao.op # "job"
       /\ ALer(s) <= linha[sessao[s].id].versao
       /\ iniciada[sessao[s].id][ALer(s)] = 0
SessoesUmaVez == \A s \in Sessoes : SessaoUmaVez(s)

VezInv == TypeOK /\ TarefaNoMaximoUmaVez /\ Vazias /\ LinhasUmaVez /\ SessoesUmaVez

\* Most steps start no task, give no row another action and open none for one;
\* an answer may give it a newer text.
SoMarca ==
  /\ iniciada' = iniciada /\ proximo' = proximo
  /\ \A i \in Ids : linha'[i].status # "ausente" =>
       /\ Existe(i) /\ linha'[i].acao = linha[i].acao /\ linha'[i].versao >= linha[i].versao
       /\ linha'[i].status \in Abertas => linha[i].status \in Abertas
SessoesFicam ==
  \A s \in Sessoes : sessao'[s] = sessao[s] \/ sessao'[s].op \in {"livre", "restaurou"}

\* What the type says of a row and of a session, as numbers.
LEMMA Numeros ==
  ASSUME TypeOK
  PROVE  /\ proximo \in Nat /\ Ids \subseteq Nat /\ Versoes \subseteq Nat
         /\ linha \in [Ids -> Linhas] /\ sessao \in [Sessoes -> Sessao]
         /\ iniciada \in [Ids -> [Versoes -> Nat]]
         /\ \A i \in Ids : /\ linha[i] \in Linhas /\ linha[i].versao \in Versoes
                           /\ linha[i].acao.versao \in Nat
                           /\ linha[i].acao.op = "job" => linha[i].acao.versao \in Versoes
         /\ \A s \in Sessoes : /\ sessao[s] \in Sessao /\ sessao[s].id \in Ids
                               /\ sessao[s].versao \in Versoes /\ ALer(s) \in Versoes
<1>1. proximo \in Nat /\ Ids \subseteq Nat /\ Versoes \subseteq Nat
  BY ConstantesOK DEF TypeOK, Ids, Versoes, ConstantesOK
<1>2. /\ linha \in [Ids -> Linhas] /\ sessao \in [Sessoes -> Sessao]
      /\ iniciada \in [Ids -> [Versoes -> Nat]]
  BY DEF TypeOK
<1>3. ASSUME NEW i \in Ids
      PROVE  /\ linha[i] \in Linhas /\ linha[i].versao \in Versoes
             /\ linha[i].acao.versao \in Nat
             /\ linha[i].acao.op = "job" => linha[i].acao.versao \in Versoes
  <2>1. linha[i] \in Linhas /\ linha[i].versao \in Versoes /\ linha[i].acao \in Acoes
    BY <1>2 DEF Linhas
  <2>2. CASE linha[i].acao = SemAcao
    BY <2>1, <2>2 DEF SemAcao
  <2>3. CASE linha[i].acao \in [op : {"relatorio", "edicao", "job"}, versao : Versoes]
    BY <1>1, <2>1, <2>3
  <2> QED BY <2>1, <2>2, <2>3 DEF Acoes
<1>4. ASSUME NEW s \in Sessoes
      PROVE  /\ sessao[s] \in Sessao /\ sessao[s].id \in Ids
             /\ sessao[s].versao \in Versoes /\ ALer(s) \in Versoes
  BY <1>2, <1>3 DEF Sessao, ALer
<1> QED BY <1>1, <1>2, <1>3, <1>4

\* A row that is left alone, while no task starts, keeps its promise.
LEMMA LinhaIgual ==
  ASSUME VezInv, NEW j \in Ids, linha'[j] = linha[j], iniciada' = iniciada,
         linha'[j].status # "ausente"
  PROVE  LinhaUmaVez(j)'
<1>1. Existe(j)
  BY DEF Existe
<1>2. LinhaUmaVez(j)
  BY <1>1 DEF VezInv, LinhasUmaVez
<1> QED BY <1>2 DEF LinhaUmaVez

\* Where no task starts and no text goes back, rows keep their promise.
LEMMA LinhasVez ==
  ASSUME VezInv, TypeOK', SoMarca
  PROVE  TarefaNoMaximoUmaVez' /\ Vazias' /\ LinhasUmaVez'
<1>0. /\ \A i \in Ids : /\ linha[i].versao \in Nat /\ linha'[i].versao \in Nat
                        /\ linha[i].acao.versao \in Nat
      /\ Versoes \subseteq Nat
  <2>1. TypeOK
    BY DEF VezInv
  <2>2. \A i \in Ids : linha'[i].versao \in Versoes
    BY DEF TypeOK, Linhas
  <2> QED BY <2>1, <2>2, Numeros
<1>1. TarefaNoMaximoUmaVez'
  BY DEF VezInv, TarefaNoMaximoUmaVez, SoMarca
<1>2. Vazias'
  BY DEF VezInv, Vazias, SoMarca, Existe
<1>3. ASSUME NEW i \in Ids, Existe(i)'
      PROVE  LinhaUmaVez(i)'
  <2>1. /\ iniciada' = iniciada /\ LinhaUmaVez(i)
        /\ linha'[i].acao = linha[i].acao /\ linha'[i].versao >= linha[i].versao
        /\ linha'[i].status \in Abertas => linha[i].status \in Abertas
    BY <1>3 DEF SoMarca, Existe, VezInv, LinhasUmaVez
  <2>2. linha'[i].acao.versao <= linha'[i].versao
    BY <1>0, <2>1 DEF LinhaUmaVez
  <2>3. \A v \in Versoes : v > linha'[i].versao => v > linha[i].versao
    BY <1>0, <2>1
  <2> QED BY <2>1, <2>2, <2>3 DEF LinhaUmaVez
<1> QED BY <1>1, <1>2, <1>3 DEF LinhasUmaVez

\* So does a correction in flight that does nothing itself.
LEMMA SessaoVez ==
  ASSUME VezInv, TypeOK', SoMarca, NEW s \in Sessoes, sessao'[s] = sessao[s]
  PROVE  SessaoUmaVez(s)'
<1> DEFINE i == sessao[s].id
<1>0. /\ i \in Ids /\ linha[i].versao \in Nat /\ linha'[i].versao \in Versoes
      /\ linha'[i].versao \in Nat /\ ALer(s) \in Nat /\ sessao'[s].id = i
  <2>1. TypeOK
    BY DEF VezInv
  <2>2. \A j \in Ids : linha'[j].versao \in Versoes
    BY DEF TypeOK, Linhas
  <2> QED BY <2>1, <2>2, Numeros
<1>1. SessaoUmaVez(s) /\ iniciada' = iniciada /\ proximo' = proximo
  BY DEF VezInv, SessoesUmaVez, SoMarca
<1>2. ASSUME sessao[s].op \in {"reabriu", "leu"}, linha'[i].status # "ausente"
      PROVE  /\ linha'[i].acao.op # "job"
             /\ ALer(s)' <= linha'[i].versao
             /\ iniciada'[i][ALer(s)'] = 0
  <2>1. /\ Existe(i) /\ linha'[i].acao = linha[i].acao /\ linha'[i].versao >= linha[i].versao
    BY <1>0, <1>2 DEF SoMarca
  <2>2. /\ linha[i].acao.op # "job" /\ ALer(s) <= linha[i].versao /\ iniciada[i][ALer(s)] = 0
    BY <1>1, <1>2, <2>1 DEF SessaoUmaVez
  <2>3. CASE sessao[s].op = "leu"
    <3>1. ALer(s)' = ALer(s)
      BY <1>0, <2>3 DEF ALer
    <3>2. ALer(s) <= linha'[i].versao
      BY <1>0, <2>1, <2>2
    <3> QED BY <1>1, <2>1, <2>2, <3>1, <3>2
  <2>4. CASE sessao[s].op # "leu"
    <3>1. ALer(s)' = linha'[i].versao /\ ALer(s) = linha[i].versao
      <4>1. sessao'[s] = sessao[s]
        OBVIOUS
      <4> QED BY <2>4, <4>1 DEF ALer
    <3>2. linha'[i].versao > linha[i].versao => iniciada[i][linha'[i].versao] = 0
      BY <1>0, <2>1 DEF VezInv, LinhasUmaVez, LinhaUmaVez
    <3>3. iniciada[i][linha'[i].versao] = 0
      <4> DEFINE n == linha'[i].versao
      <4>1. n = linha[i].versao \/ n > linha[i].versao
        BY <1>0, <2>1
      <4> QED BY <2>2, <3>1, <3>2, <4>1
    <3>4. linha'[i].versao <= linha'[i].versao
      BY <1>0
    <3> QED BY <1>1, <2>1, <2>2, <3>1, <3>3, <3>4
  <2> QED BY <2>3, <2>4
<1> QED BY <1>0, <1>1, <1>2 DEF SessaoUmaVez, Existe

\* Together: the steps that only mark.
LEMMA MarcaVez ==
  ASSUME VezInv, TypeOK', SoMarca, SessoesFicam
  PROVE  VezInv'
<1>1. ASSUME NEW s \in Sessoes
      PROVE  SessaoUmaVez(s)'
  <2>1. CASE sessao'[s] = sessao[s]
    BY <2>1, SessaoVez
  <2>2. CASE sessao'[s].op \in {"livre", "restaurou"}
    BY <2>2 DEF SessaoUmaVez
  <2> QED BY <2>1, <2>2 DEF SessoesFicam
<1> QED BY <1>1, LinhasVez DEF VezInv, SessoesUmaVez

\* The handlers of one statement: a new row has a new id, and everything else
\* they write only marks.
LEMMA VezSite ==
  ASSUME VezInv, TypeOK', PassoDoSite
  PROVE  VezInv'
<1>0. TypeOK /\ linha \in [Ids -> Linhas]
  BY DEF VezInv, TypeOK
<1>1. ASSUME NEW u \in Usuarios, NEW t \in Tipos, CriarSolicitacao(u, t)
      PROVE  VezInv'
  <2> DEFINE n == proximo
             r == [LinhaAusente EXCEPT !.dono = u, !.tipo = t, !.acao = Montar(t, 1),
                                       !.status = Porta(u, t)]
  <2>1. /\ n \in Ids /\ n \in Nat /\ proximo' = n + 1 /\ iniciada' = iniciada
        /\ sessao' = sessao /\ linha' = [linha EXCEPT ![n] = r]
    BY <1>0, <1>1, Numeros DEF CriarSolicitacao, atores
  <2>2. r.versao = 1 /\ r.acao = Montar(t, 1)
    BY DEF LinhaAusente
  <2> HIDE DEF r
  <2>3. /\ linha'[n] = r /\ linha[n].status = "ausente"
        /\ \A v \in Versoes : iniciada[n][v] = 0
        /\ \A i \in Ids : i # n => linha'[i] = linha[i]
    BY <1>0, <2>1 DEF VezInv, Vazias
  <2>4. ASSUME NEW k \in Ids, k = n
        PROVE  LinhaUmaVez(k)'
    <3>1. r.acao.versao <= r.versao /\ (r.acao.op = "job" => r.acao.versao = 1)
      BY <2>2 DEF Montar, SemAcao
    <3>2. /\ linha'[k].acao.versao <= linha'[k].versao
          /\ linha'[k].acao.op = "job" => iniciada'[k][linha'[k].acao.versao] = 0
      BY <2>1, <2>3, <2>4, <3>1, PrimeiroTexto
    <3> QED BY <2>1, <2>3, <2>4, <3>2 DEF LinhaUmaVez
  <2>5. ASSUME NEW i \in Ids, Existe(i)'
        PROVE  LinhaUmaVez(i)'
    <3>1. CASE i = n
      BY <2>4, <3>1
    <3>2. CASE i # n
      BY <2>1, <2>3, <2>5, <3>2, LinhaIgual DEF Existe
    <3> QED BY <3>1, <3>2
  <2>6. Vazias'
    <3> SUFFICES ASSUME NEW i \in Ids, ~(i < n + 1)
                 PROVE  linha'[i].status = "ausente" /\ \A v \in Versoes : iniciada[i][v] = 0
      BY <2>1 DEF Vazias
    <3>1. i # n /\ ~(i < n)
      BY <1>0, <2>1, Numeros
    <3> QED BY <2>3, <3>1 DEF VezInv, Vazias
  <2>7. ASSUME NEW s \in Sessoes
        PROVE  SessaoUmaVez(s)'
    <3>1. SessaoUmaVez(s) /\ sessao'[s] = sessao[s] /\ sessao[s].id \in Ids
      BY <1>0, <2>1, Numeros DEF VezInv, SessoesUmaVez
    <3>2. sessao[s].id < n => sessao[s].id < n + 1 /\ sessao[s].id # n
      <4>1. n \in Nat /\ sessao[s].id \in Nat
        BY <1>0, <2>1, <3>1, Numeros
      <4> QED BY <4>1
    <3>3. CASE sessao[s].op \notin {"verificou", "reabriu", "leu"}
      BY <3>1, <3>3 DEF SessaoUmaVez
    <3>4. CASE sessao[s].op \in {"verificou", "reabriu", "leu"}
      <4>1. linha'[sessao[s].id] = linha[sessao[s].id] /\ sessao[s].id < proximo'
        BY <2>1, <2>3, <3>1, <3>2, <3>4 DEF SessaoUmaVez
      <4>2. ALer(s)' = ALer(s)
        BY <3>1, <4>1 DEF ALer
      <4> QED BY <2>1, <3>1, <4>1, <4>2 DEF SessaoUmaVez, Existe
    <3> QED BY <3>3, <3>4
  <2>8. TarefaNoMaximoUmaVez'
    BY <2>1 DEF VezInv, TarefaNoMaximoUmaVez
  <2> QED BY <2>5, <2>6, <2>7, <2>8 DEF VezInv, LinhasUmaVez, SessoesUmaVez
<1>2. \A i \in Ids : linha[i].versao \in Nat /\ linha[i] \in Linhas
  BY <1>0, Numeros
<1>3. CASE ListarSolicitacoes
  <2>1. SoMarca /\ SessoesFicam
    BY <1>2, <1>3 DEF ListarSolicitacoes, tabela, historia, SoMarca, SessoesFicam, Existe
  <2> QED BY <2>1, MarcaVez
<1>4. ASSUME NEW id \in Ids, AprovarSolicitacao(id)
      PROVE  VezInv'
  <2>1. SoMarca /\ SessoesFicam
    BY <1>0, <1>2, <1>4
    DEF AprovarSolicitacao, atores, SoMarca, SessoesFicam, Existe, Abertas, Linhas
  <2> QED BY <2>1, MarcaVez
<1>5. ASSUME NEW id \in Ids, RejeitarSolicitacao(id)
      PROVE  VezInv'
  <2>1. SoMarca /\ SessoesFicam
    BY <1>0, <1>2, <1>5
    DEF RejeitarSolicitacao, atores, historia, SoMarca, SessoesFicam, Existe, LinhaAusente
  <2> QED BY <2>1, MarcaVez
<1>6. ASSUME NEW id \in Ids, NEW t \in Tipos, ResponderConfirmacao(id, t)
      PROVE  VezInv'
  <2>1. SoMarca /\ SessoesFicam
    BY <1>0, <1>2, <1>6
    DEF ResponderConfirmacao, atores, historia, SoMarca, SessoesFicam, Existe, Abertas, Linhas
  <2> QED BY <2>1, MarcaVez
<1> QED BY <1>1, <1>3, <1>4, <1>5, <1>6 DEF PassoDoSite

\* The handlers of several statements, one at a time: the first UPDATE takes
\* the action away and makes a new text, so the action the second one writes is
\* of a text that has not started.
LEMMA VezSessao ==
  ASSUME UmaSessao, VezInv, TypeOK', NEW s \in Sessoes, PassoDaSessao(s)
  PROVE  VezInv'
<1> DEFINE p == sessao[s]
           i == p.id
           r == linha[i]
<1>0. /\ TypeOK /\ linha \in [Ids -> Linhas] /\ sessao \in [Sessoes -> Sessao]
      /\ p \in Sessao /\ i \in Ids /\ r \in Linhas /\ r.versao \in Versoes /\ r.versao \in Nat
      /\ p.versao \in Versoes
      /\ \A j \in Ids : linha[j].versao \in Nat /\ linha[j] \in Linhas
      /\ Versoes \subseteq Nat /\ \A a \in Sessoes : a = s
  <2>1. TypeOK
    BY DEF VezInv
  <2> QED BY <2>1, Numeros DEF UmaSessao
<1>1. ASSUME NEW id \in Ids, NEW t \in Tipos, CorrigirVerifica(s, id, t)
      PROVE  VezInv'
  <2>1. SoMarca
    BY <1>0, <1>1 DEF CorrigirVerifica, tabela, historia, SoMarca, Existe
  <2>2. sessao'[s].op = "verificou" /\ sessao'[s].id = id /\ proximo' = proximo
    BY <1>0, <1>1 DEF CorrigirVerifica, tabela
  <2>3. id < proximo
    BY <1>1 DEF CorrigirVerifica, VezInv, Vazias, Existe
  <2>4. SessaoUmaVez(s)'
    BY <2>2, <2>3 DEF SessaoUmaVez
  <2> QED BY <1>0, <2>1, <2>4, LinhasVez DEF VezInv, SessoesUmaVez
<1>2. ASSUME NEW t \in Tipos, CorrigirReabre(s, t)
      PROVE  VezInv'
  <2> DEFINE r2 == [r EXCEPT !.versao = @ + 1, !.tipo = t, !.status = "pendente",
                             !.acao = SemAcao, !.executado = FALSE]
  <2>1. /\ p.op = "verificou" /\ iniciada' = iniciada /\ proximo' = proximo
        /\ r.versao + 1 \in Versoes
        /\ sessao'[s].op = "reabriu" /\ sessao'[s].id = i /\ i < proximo
    <3>1. /\ p.op = "verificou" /\ iniciada' = iniciada /\ proximo' = proximo
          /\ r.versao < MaxVersao /\ sessao' = [sessao EXCEPT ![s].op = "reabriu"]
      BY <1>2 DEF CorrigirReabre, historia
    <3>2. r.versao + 1 \in Versoes
      BY <1>0, <3>1, ConstantesOK DEF Versoes, ConstantesOK
    <3>3. sessao'[s].op = "reabriu" /\ sessao'[s].id = i
      BY <1>0, <3>1 DEF Sessao
    <3>4. i < proximo
      BY <3>1 DEF VezInv, SessoesUmaVez, SessaoUmaVez
    <3> QED BY <3>1, <3>2, <3>3, <3>4
  <2>2. r2.versao = r.versao + 1 /\ r2.acao = SemAcao
    BY <1>0 DEF Linhas
  <2>3. CASE ~Existe(i)
    <3>1. linha' = linha
      BY <1>2, <2>3 DEF CorrigirReabre
    <3>2. SoMarca
      BY <1>0, <2>1, <3>1 DEF SoMarca, Existe
    <3>3. SessaoUmaVez(s)'
      BY <2>1, <2>3, <3>1 DEF SessaoUmaVez, Existe
    <3> QED BY <1>0, <3>2, <3>3, LinhasVez DEF VezInv, SessoesUmaVez
  <2>4. CASE Existe(i)
    <3>1. linha' = [linha EXCEPT ![i] = r2]
      BY <1>0, <1>2, <2>4 DEF CorrigirReabre
    <3> HIDE DEF r2
    <3>2. linha'[i] = r2 /\ \A j \in Ids : j # i => linha'[j] = linha[j]
      BY <1>0, <3>1
    <3>3. LinhaUmaVez(i)
      BY <1>0, <2>4 DEF VezInv, LinhasUmaVez
    <3>4. iniciada[i][r.versao + 1] = 0
      BY <1>0, <2>1, <3>3 DEF LinhaUmaVez
    <3>5. ASSUME NEW k \in Ids, k = i
          PROVE  LinhaUmaVez(k)'
      <4>1. 0 <= r.versao + 1 /\ \A v \in Versoes : v > r.versao + 1 => v > r.versao
        BY <1>0
      <4> QED BY <2>1, <2>2, <3>2, <3>3, <3>5, <4>1 DEF LinhaUmaVez, SemAcao
    <3>6. ASSUME NEW j \in Ids, Existe(j)'
          PROVE  LinhaUmaVez(j)'
      <4>1. CASE j = i
        BY <3>5, <4>1
      <4>2. CASE j # i
        BY <2>1, <3>2, <3>6, <4>2, LinhaIgual DEF Existe
      <4> QED BY <4>1, <4>2
    <3>7. Vazias'
      BY <2>1, <3>2 DEF VezInv, Vazias
    <3>8. SessaoUmaVez(s)'
      <4>1. ALer(s)' = r.versao + 1
        BY <2>1, <2>2, <3>2 DEF ALer
      <4>2. r.versao + 1 <= r.versao + 1
        BY <1>0
      <4> QED BY <2>1, <2>2, <3>2, <3>4, <4>1, <4>2 DEF SessaoUmaVez, SemAcao
    <3> QED BY <1>0, <2>1, <3>6, <3>7, <3>8
        DEF VezInv, LinhasUmaVez, SessoesUmaVez, TarefaNoMaximoUmaVez
  <2> QED BY <2>3, <2>4
<1>3. CASE CorrigirReinterpreta(s)
  <2>1. SoMarca /\ linha' = linha /\ iniciada' = iniciada /\ proximo' = proximo
    BY <1>0, <1>3 DEF CorrigirReinterpreta, tabela, historia, SoMarca, Existe
  <2>2. /\ p.op = "reabriu" /\ sessao'[s].op = "leu" /\ sessao'[s].id = i
        /\ sessao'[s].versao = r.versao
    BY <1>0, <1>3 DEF CorrigirReinterpreta, Sessao
  <2>3. ALer(s) = r.versao /\ ALer(s)' = r.versao
    BY <2>2 DEF ALer
  <2>4. SessaoUmaVez(s)'
    BY <2>1, <2>2, <2>3 DEF SessaoUmaVez, VezInv, SessoesUmaVez, Existe
  <2> QED BY <1>0, <2>1, <2>4, LinhasVez DEF VezInv, SessoesUmaVez
<1>4. CASE CorrigirGrava(s)
  <2> DEFINE r2 == [r EXCEPT !.acao = Montar(p.tipo, p.versao),
                             !.status = Porta(r.dono, p.tipo)]
  <2>1. /\ p.op = "leu" /\ sessao'[s].op = "livre" /\ iniciada' = iniciada
        /\ proximo' = proximo /\ ALer(s) = p.versao
    BY <1>0, <1>4 DEF CorrigirGrava, SessaoLivre, ALer
  <2>2. SessaoUmaVez(s)'
    BY <2>1 DEF SessaoUmaVez
  <2>3. CASE ~Existe(i)
    <3>1. SoMarca
      BY <1>0, <1>4, <2>1, <2>3 DEF CorrigirGrava, SoMarca, Existe
    <3> QED BY <1>0, <2>2, <3>1, LinhasVez DEF VezInv, SessoesUmaVez
  <2>4. CASE Existe(i)
    <3>1. linha' = [linha EXCEPT ![i] = r2]
      BY <1>4, <2>4 DEF CorrigirGrava
    <3>2. r2.versao = r.versao /\ r2.acao = Montar(p.tipo, p.versao)
      BY <1>0 DEF Linhas
    <3> HIDE DEF r2
    <3>3. linha'[i] = r2 /\ \A j \in Ids : j # i => linha'[j] = linha[j]
      BY <1>0, <3>1
    <3>4. /\ LinhaUmaVez(i) /\ p.versao <= r.versao /\ iniciada[i][p.versao] = 0
      BY <1>0, <2>1, <2>4 DEF VezInv, LinhasUmaVez, SessoesUmaVez, SessaoUmaVez
    <3>5. r2.acao.versao <= r2.versao /\ (r2.acao.op = "job" => r2.acao.versao = p.versao)
      BY <1>0, <3>2, <3>4 DEF Montar, SemAcao
    <3>6. ASSUME NEW k \in Ids, k = i
          PROVE  LinhaUmaVez(k)'
      BY <2>1, <3>2, <3>3, <3>4, <3>5, <3>6 DEF LinhaUmaVez
    <3>7. ASSUME NEW j \in Ids, Existe(j)'
          PROVE  LinhaUmaVez(j)'
      <4>1. CASE j = i
        BY <3>6, <4>1
      <4>2. CASE j # i
        BY <2>1, <3>3, <3>7, <4>2, LinhaIgual DEF Existe
      <4> QED BY <4>1, <4>2
    <3>8. Vazias'
      BY <2>1, <2>4, <3>3 DEF VezInv, Vazias, Existe
    <3> QED BY <1>0, <2>1, <2>2, <3>7, <3>8
        DEF VezInv, LinhasUmaVez, SessoesUmaVez, TarefaNoMaximoUmaVez
  <2> QED BY <2>3, <2>4
<1>5. ASSUME NEW id \in Ids, NEW falhou \in BOOLEAN, ReverterRestaura(s, id, falhou)
      PROVE  VezInv'
  <2>1. SoMarca
    BY <1>0, <1>5 DEF ReverterRestaura, historia, SoMarca, Existe
  <2>2. SessoesFicam
    BY <1>0, <1>5 DEF ReverterRestaura, SessoesFicam, SessaoLivre
  <2> QED BY <2>1, <2>2, MarcaVez
<1>6. CASE ReverterMarca(s)
  <2>1. SoMarca
    BY <1>0, <1>6 DEF ReverterMarca, historia, SoMarca, Existe, Abertas, Linhas
  <2>2. SessoesFicam
    BY <1>0, <1>6 DEF ReverterMarca, SessoesFicam, SessaoLivre
  <2> QED BY <2>1, <2>2, MarcaVez
<1> QED BY <1>1, <1>2, <1>3, <1>4, <1>5, <1>6 DEF PassoDaSessao

\* The executor and the worker mark rows, and whoever dies marks nothing.
LEMMA VezProgramas ==
  ASSUME VezInv, TypeOK', PassoDoExecutor \/ PassoDoWorker \/ Queda
  PROVE  VezInv'
<1>0. /\ TypeOK /\ linha \in [Ids -> Linhas]
      /\ \A j \in Ids : linha[j].versao \in Nat /\ linha[j] \in Linhas
      /\ \A w \in worker : w.id \in Ids
      /\ \A it \in executor.fila : it.id \in Ids
      /\ executor.marca.status \notin Abertas
  <2>1. TypeOK
    BY DEF VezInv
  <2>2. executor.marca.status \notin Abertas
    BY <2>1 DEF TypeOK, Marcas, Abertas
  <2>3. \A w \in worker : w.id \in Ids
    BY <2>1 DEF TypeOK
  <2>4. \A it \in executor.fila : it.id \in Ids
    BY <2>1 DEF TypeOK, Itens
  <2> QED BY <2>1, <2>2, <2>3, <2>4, Numeros
<1>1. SoMarca /\ SessoesFicam
  <2>1. CASE ExecutorInicia
    BY <1>0, <2>1 DEF ExecutorInicia, tabela, historia, SoMarca, SessoesFicam, Existe
  <2>2. ASSUME NEW it \in executor.fila, ExecutorPulaTarefa(it)
        PROVE  SoMarca /\ SessoesFicam
    BY <1>0, <2>2 DEF ExecutorPulaTarefa, tabela, historia, SoMarca, SessoesFicam, Existe
  <2>3. ASSUME NEW it \in executor.fila, NEW m \in Respostas(it.acao.op),
               NEW gravou \in BOOLEAN, ExecutorAplica(it, m, gravou)
        PROVE  SoMarca /\ SessoesFicam
    BY <1>0, <2>3 DEF ExecutorAplica, SoMarca, SessoesFicam, Existe
  <2>4. ASSUME NEW it \in executor.fila, NEW falhou \in BOOLEAN, ExecutorMarca(it, falhou)
        PROVE  SoMarca /\ SessoesFicam
    BY <1>0, <2>4 DEF ExecutorMarca, historia, SoMarca, SessoesFicam, Existe, Linhas
  <2>5. CASE WorkerLista
    BY <1>0, <2>5 DEF WorkerLista, tabela, historia, SoMarca, SessoesFicam, Existe
  <2>6. ASSUME NEW w \in worker, NEW st \in {"executado", "erro", "preciso_confirmar"},
               WorkerConclui(w, st)
        PROVE  SoMarca /\ SessoesFicam
    BY <1>0, <2>6 DEF WorkerConclui, SoMarca, SessoesFicam, Existe, Abertas, Linhas
  <2>7. ASSUME NEW w \in worker, NEW res \in {"decisaoHumana", "portal"},
               WorkerDevolve(w, res)
        PROVE  SoMarca /\ SessoesFicam
    BY <1>0, <2>7 DEF WorkerDevolve, historia, SoMarca, SessoesFicam, Existe, Linhas
  <2>8. CASE Queda
    <3>1. linha' = linha /\ proximo' = proximo /\ iniciada' = iniciada
      BY <2>8 DEF Queda, ExecutorMorre, TarefaMorre, WorkerMorre, SessaoMorre, tabela, historia
    <3>2. SoMarca
      BY <1>0, <3>1 DEF SoMarca, Existe
    <3>3. sessao \in [Sessoes -> Sessao]
      BY <1>0, Numeros
    <3>4. SessoesFicam
      BY <2>8, <3>3 DEF Queda, ExecutorMorre, TarefaMorre, WorkerMorre, SessaoMorre,
                        SessoesFicam, SessaoLivre
    <3> QED BY <3>2, <3>4
  <2> QED BY <2>1, <2>2, <2>3, <2>4, <2>5, <2>6, <2>7, <2>8
          DEF PassoDoExecutor, PassoDoWorker
<1> QED BY <1>1, MarcaVez

\* run_jobs.py: the task it reserves had not started, and once it is reserved
\* nobody finds it again.
LEMMA VezRunJobs ==
  ASSUME VezInv, TypeOK', PassoDeRunJobs
  PROVE  VezInv'
<1>0. /\ TypeOK /\ linha \in [Ids -> Linhas] /\ iniciada \in [Ids -> [Versoes -> Nat]]
      /\ \A j \in Ids : linha[j].versao \in Nat /\ linha[j] \in Linhas
      /\ Versoes \subseteq Nat
  <2>1. TypeOK
    BY DEF VezInv
  <2> QED BY <2>1, Numeros
<1>1. ASSUME NEW id \in Ids, TarefaPega(id)
      PROVE  VezInv'
  <2> DEFINE v0 == linha[id].acao.versao
  <2>1. /\ linha[id].status = "aprovado" /\ linha[id].acao.op = "job"
        /\ Alvo(linha[id]) = v0 /\ v0 \in Versoes /\ Existe(id)
        /\ proximo' = proximo /\ sessao' = sessao
        /\ linha' = [linha EXCEPT ![id].status = "executando"]
        /\ iniciada' = [iniciada EXCEPT ![id][v0] = @ + 1]
    <3>1. linha[id].status = "aprovado" /\ linha[id].acao.op = "job"
      BY <1>1 DEF TarefaPega, EhTarefa, NaFila
    <3>2. v0 \in Versoes
      BY <1>0, <3>1, Numeros
    <3> QED BY <1>1, <3>1, <3>2 DEF TarefaPega, Alvo, Existe
  <2>2. /\ linha'[id].status = "executando" /\ linha'[id].versao = linha[id].versao
        /\ linha'[id].acao = linha[id].acao
        /\ \A j \in Ids : j # id => linha'[j] = linha[j]
    BY <1>0, <2>1 DEF Linhas
  <2>3. /\ iniciada'[id][v0] = iniciada[id][v0] + 1
        /\ \A j \in Ids, v \in Versoes : (j # id \/ v # v0) => iniciada'[j][v] = iniciada[j][v]
    BY <1>0, <2>1
  <2>4. LinhaUmaVez(id) /\ iniciada[id][v0] = 0 /\ v0 <= linha[id].versao
    BY <2>1 DEF VezInv, LinhasUmaVez, LinhaUmaVez, Abertas
  <2>5. TarefaNoMaximoUmaVez'
    <3> SUFFICES ASSUME NEW j \in Ids, NEW v \in Versoes
                 PROVE  iniciada'[j][v] <= 1
      BY DEF TarefaNoMaximoUmaVez
    <3>1. CASE j = id /\ v = v0
      BY <2>3, <2>4, <3>1
    <3>2. CASE j # id \/ v # v0
      BY <2>3, <3>2 DEF VezInv, TarefaNoMaximoUmaVez
    <3> QED BY <3>1, <3>2
  <2>6. Vazias'
    BY <2>1, <2>2, <2>3 DEF VezInv, Vazias, Existe
  <2>7. LinhaUmaVez(id)'
    <3>1. \A v \in Versoes : v > linha[id].versao => v # v0
      BY <1>0, <2>4
    <3>2. \A v \in Versoes : v > linha[id].versao => iniciada'[id][v] = 0
      BY <2>3, <2>4, <3>1 DEF LinhaUmaVez
    <3> QED BY <2>2, <2>4, <3>2 DEF LinhaUmaVez, Abertas
  <2>8. ASSUME NEW j \in Ids, linha'[j].status # "ausente"
        PROVE  LinhaUmaVez(j)'
    <3>1. CASE j = id
      BY <2>7, <3>1
    <3>2. CASE j # id
      <4>1. LinhaUmaVez(j) /\ linha'[j] = linha[j]
        BY <2>2, <2>8, <3>2 DEF VezInv, LinhasUmaVez, Existe
      <4>2. \A v \in Versoes : iniciada'[j][v] = iniciada[j][v]
        BY <2>3, <3>2
      <4>3. linha[j].acao.op = "job" => linha[j].acao.versao \in Versoes
        BY <1>0, Numeros
      <4> QED BY <4>1, <4>2, <4>3 DEF LinhaUmaVez
    <3> QED BY <3>1, <3>2
  <2>9. ASSUME NEW s \in Sessoes
        PROVE  SessaoUmaVez(s)'
    <3>1. SessaoUmaVez(s) /\ sessao'[s] = sessao[s] /\ sessao[s].id \in Ids /\ ALer(s) \in Versoes
      BY <1>0, <2>1, Numeros DEF VezInv, SessoesUmaVez
    <3>2. ALer(s)' = ALer(s)
      BY <2>2, <3>1 DEF ALer
    <3>3. CASE sessao[s].op \in {"reabriu", "leu"} /\ Existe(sessao[s].id)
      <4>1. sessao[s].id # id
        BY <2>1, <3>1, <3>3 DEF SessaoUmaVez
      <4>2. /\ linha'[sessao[s].id] = linha[sessao[s].id]
            /\ iniciada'[sessao[s].id][ALer(s)] = iniciada[sessao[s].id][ALer(s)]
        BY <2>2, <2>3, <3>1, <4>1
      <4> QED BY <2>1, <3>1, <3>2, <3>3, <4>2 DEF SessaoUmaVez
    <3>4. CASE ~(sessao[s].op \in {"reabriu", "leu"} /\ Existe(sessao[s].id))
      <4>1. linha'[sessao[s].id].status # "ausente" => Existe(sessao[s].id)
        BY <2>1, <2>2, <3>1 DEF Existe
      <4> QED BY <2>1, <3>1, <3>4, <4>1 DEF SessaoUmaVez, Existe
    <3> QED BY <3>3, <3>4
  <2> QED BY <2>5, <2>6, <2>8, <2>9 DEF VezInv, LinhasUmaVez, SessoesUmaVez, Existe
<1>2. ASSUME NEW st \in {"executado", "erro"}, TarefaFinaliza(st)
      PROVE  VezInv'
  <2>1. tarefa.id \in Ids
    BY <1>0, <1>2, ConstantesOK DEF TarefaFinaliza, TypeOK, Ids, ConstantesOK
  <2>2. SoMarca /\ SessoesFicam
    BY <1>0, <1>2, <2>1 DEF TarefaFinaliza, SoMarca, SessoesFicam, Existe, Abertas, Linhas
  <2> QED BY <2>2, MarcaVez
<1> QED BY <1>1, <1>2 DEF PassoDeRunJobs

\* Nothing has started at the beginning.
LEMMA VezInit == Init => VezInv
<1> SUFFICES ASSUME Init PROVE VezInv
  OBVIOUS
<1>1. \A i \in Ids : linha[i].status = "ausente" /\ \A v \in Versoes : iniciada[i][v] = 0
  BY DEF Init, LinhaAusente
<1>2. \A s \in Sessoes : sessao[s].op = "livre"
  BY DEF Init, SessaoLivre
<1> QED BY <1>1, <1>2, TypeInit
    DEF VezInv, TarefaNoMaximoUmaVez, Vazias, LinhasUmaVez, Existe, SessoesUmaVez, SessaoUmaVez

\* Every step keeps it.
LEMMA VezStep ==
  ASSUME UmaSessao, VezInv, [Next]_vars
  PROVE  VezInv'
<1>1. TypeOK /\ TypeOK'
  BY TypeStep DEF VezInv
<1>2. CASE UNCHANGED vars
  <2>1. SoMarca /\ SessoesFicam
    BY <1>1, <1>2, Numeros DEF vars, tabela, atores, historia, SoMarca, SessoesFicam, Existe
  <2> QED BY <1>1, <2>1, MarcaVez
<1> QED BY <1>1, <1>2, VezSite, VezSessao, VezProgramas, VezRunJobs DEF Next

\* With at most one correction or reversal in flight, a host task never starts
\* twice for the same text, whatever crashes and whoever answers meanwhile.
THEOREM TarefaUmaVez ==
  ASSUME UmaSessao
  PROVE  Spec => []TarefaNoMaximoUmaVez
<1>1. VezInv => TarefaNoMaximoUmaVez
  BY DEF VezInv
<1>2. VezInv /\ [Next]_vars => VezInv'
  BY VezStep
<1> QED BY <1>1, <1>2, VezInit, PTL DEF Spec

-----------------------------------------------------------------------------
(* The queue without corrections in flight                                   *)

\* No correction or reversal in flight, and nothing crashes. With a correction
\* a late mark of the executor swallows the new text; with a failure a mark is
\* lost after the transaction committed, or a task stays reserved.
SemCorrecoes == Sessoes = {}
SemFalhas    == MaxFalhas = 0

\* The executor has applied row i and has not marked it yet.
EmMaos(i)  == /\ executor.fase = "aplicou"
              /\ \E it \in executor.fila : Atual(it) /\ it.id = i
\* Nothing was written for row i.
Intacta(i) == \A v \in Versoes : Gravado(i, v) = 0

\* A row on its way to be carried out still carries its own text, is not marked
\* and nothing was written for it but what the executor is about to mark; a
\* reserved one is the task that runs; one at the worker is not marked.
LinhaEmOrdem(i) ==
  /\ linha[i].status \in Abertas =>
       /\ ~linha[i].executado /\ linha[i].versao = Alvo(linha[i])
       /\ SemFalhas /\ ~EmMaos(i) => Intacta(i)
  /\ SemFalhas /\ linha[i].status = "executando" =>
       tarefa.id = i /\ tarefa.versao = linha[i].versao
  /\ linha[i].status = "revisao" => ~linha[i].executado
  /\ linha[i].status = "executado" => linha[i].versao \in tratadas[i]

\* A copy in the memory of the executor is the row, while the row exists.
ItemEmOrdem(it) ==
  /\ it.id < proximo
  /\ it.acao.op # "job" =>
       /\ Existe(it.id) => /\ linha[it.id].status = "aprovado"
                           /\ linha[it.id].acao = it.acao
                           /\ linha[it.id].versao = it.versao
       /\ SemFalhas /\ ~EmMaos(it.id) => Intacta(it.id)

\* So is what the worker listed, and what run_jobs.py reserved.
ListadoEmOrdem(w) ==
  /\ w.id < proximo
  /\ Existe(w.id) => linha[w.id].status = "revisao" /\ linha[w.id].versao = w.versao
TarefaEmOrdem ==
  /\ tarefa.id < proximo
  /\ tarefa.id # 0 /\ Existe(tarefa.id) =>
       linha[tarefa.id].status = "executando" /\ linha[tarefa.id].versao = tarefa.versao

ExecutorEmOrdem ==
  /\ \A a, b \in executor.fila : a.id = b.id => a = b
  /\ executor.fase = "parado" => executor.fila = {}
  /\ executor.fase = "aplicou" => \A it \in executor.fila : Atual(it) =>
       /\ it.acao.op # "job"
       /\ executor.marca.status # "revisao" => Alvo(it) \in tratadas[it.id]

UmaVezSemFalhas == SemFalhas => AplicaNoMaximoUmaVez
NovasIntactas == \A i \in Ids : ~(i < proximo) => linha[i].status = "ausente" /\ Intacta(i)
LinhasEmOrdem == \A i \in Ids : LinhaEmOrdem(i)
ItensEmOrdem  == \A it \in executor.fila : ItemEmOrdem(it)
WorkerEmOrdem == /\ \A a, b \in worker : a.id = b.id => a = b
                 /\ \A w \in worker : ListadoEmOrdem(w)

FilaInv == /\ TypeOK /\ UmaVezSemFalhas
           /\ NovasIntactas /\ LinhasEmOrdem /\ ItensEmOrdem /\ ExecutorEmOrdem
           /\ WorkerEmOrdem /\ TarefaEmOrdem

\* What the type says of the copies of a row.
LEMMA Copias ==
  ASSUME TypeOK
  PROVE  /\ linha \in [Ids -> Linhas] /\ Ids \subseteq Nat \ {0} /\ proximo \in Nat
         /\ \A it \in executor.fila : /\ it \in Itens /\ it.id \in Ids /\ it.id \in Nat
                                      /\ it.acao \in Acoes
         /\ \A w \in worker : w.id \in Ids
         /\ tarefa.id \in Nat /\ (tarefa.id # 0 => tarefa.id \in Ids)
         /\ tratadas \in [Ids -> SUBSET Versoes]
         /\ aplicada \in [Ids -> [Versoes -> Nat]] /\ iniciada \in [Ids -> [Versoes -> Nat]]
<1>1. linha \in [Ids -> Linhas] /\ Ids \subseteq Nat \ {0} /\ proximo \in Nat
  BY ConstantesOK DEF TypeOK, Ids, ConstantesOK
<1>2. \A it \in executor.fila : it \in Itens /\ it.id \in Ids /\ it.acao \in Acoes
  BY DEF TypeOK, Itens
<1>3. \A it \in executor.fila : it.id \in Nat
  BY <1>1, <1>2
<1>4. tarefa.id \in Nat /\ (tarefa.id # 0 => tarefa.id \in Ids)
  BY ConstantesOK DEF TypeOK, Ids, ConstantesOK
<1>5. \A w \in worker : w.id \in Ids
  BY DEF TypeOK
<1> QED BY <1>1, <1>2, <1>3, <1>4, <1>5 DEF TypeOK

\* There is one first item of the queue, up to its id.
LEMMA UmAtual ==
  ASSUME TypeOK, NEW a \in executor.fila, NEW b \in executor.fila, Atual(a), Atual(b)
  PROVE  a.id = b.id
<1>1. a.id \in Nat /\ b.id \in Nat
  BY Copias
<1>2. a.id <= b.id /\ b.id <= a.id
  BY DEF Atual
<1> QED BY <1>1, <1>2

\* A row that is left alone stays in order, when what the executor holds of it
\* stays in its hands and no task of it ends.
LEMMA LinhaFica ==
  ASSUME NEW j \in Ids, LinhaEmOrdem(j), linha'[j] = linha[j],
         Intacta(j) => Intacta(j)', EmMaos(j) => EmMaos(j)',
         tratadas[j] \subseteq tratadas'[j],
         SemFalhas /\ linha[j].status = "executando" => tarefa' = tarefa
  PROVE  LinhaEmOrdem(j)'
BY DEF LinhaEmOrdem, Alvo

\* So does a copy of a row that is left alone, or deleted.
LEMMA ItemFica ==
  ASSUME NEW it, ItemEmOrdem(it), TypeOK, it.id \in Ids, proximo' \in Nat, proximo' >= proximo,
         \/ linha'[it.id] = linha[it.id]
         \/ it.acao.op = "job"
         \/ linha'[it.id].status = "ausente",
         Intacta(it.id) => Intacta(it.id)', EmMaos(it.id) => EmMaos(it.id)'
  PROVE  ItemEmOrdem(it)'
<1>1. it.id < proximo'
  <2>1. it.id \in Nat /\ proximo \in Nat
    BY Copias
  <2> QED BY <2>1 DEF ItemEmOrdem
<1> QED BY <1>1 DEF ItemEmOrdem, Existe

\* So does what the worker listed.
LEMMA ListadoFica ==
  ASSUME NEW w, ListadoEmOrdem(w), TypeOK, w.id \in Ids, proximo' \in Nat, proximo' >= proximo,
         linha'[w.id] = linha[w.id] \/ linha'[w.id].status = "ausente"
  PROVE  ListadoEmOrdem(w)'
<1>1. w.id < proximo'
  <2>1. w.id \in Nat /\ proximo \in Nat
    BY Copias
  <2> QED BY <2>1 DEF ListadoEmOrdem
<1> QED BY <1>1 DEF ListadoEmOrdem, Existe

\* Where neither executor nor task writes, what was written stays.
NadaEscrito == aplicada' = aplicada /\ iniciada' = iniciada
LEMMA IntactaFica ==
  ASSUME NadaEscrito, NEW j
  PROVE  Intacta(j)' <=> Intacta(j)
BY DEF NadaEscrito, Intacta, Gravado

\* One row at most is written by somebody other than the executor, who holds
\* no copy of it that may still be applied.
SoLinha(i) ==
  /\ NadaEscrito /\ executor' = executor /\ proximo' = proximo
  /\ \A j \in Ids : j # i => linha'[j] = linha[j]
  /\ \A j \in Ids : tratadas[j] \subseteq tratadas'[j]
  /\ \/ linha'[i] = linha[i]
     \/ linha'[i].status = "ausente"
     \/ Existe(i) /\ linha[i].status # "aprovado"

\* Such a step leaves what is written and the executor in order.
LEMMA ExecutorQuieto ==
  ASSUME FilaInv, TypeOK', NEW i \in Ids, SoLinha(i), linha'[i] = linha[i] \/ i < proximo
  PROVE  UmaVezSemFalhas' /\ NovasIntactas' /\ ItensEmOrdem' /\ ExecutorEmOrdem'
<1>0. /\ TypeOK /\ proximo \in Nat /\ proximo' = proximo /\ executor' = executor /\ NadaEscrito
      /\ \A it \in executor.fila : it.id \in Ids
      /\ \A j : EmMaos(j)' <=> EmMaos(j)
  BY Copias DEF FilaInv, SoLinha, EmMaos, Atual
<1>1. UmaVezSemFalhas'
  BY <1>0 DEF FilaInv, UmaVezSemFalhas, AplicaNoMaximoUmaVez, NadaEscrito, Gravado
<1>2. NovasIntactas'
  <2> SUFFICES ASSUME NEW j \in Ids, ~(j < proximo)
               PROVE  linha'[j].status = "ausente" /\ Intacta(j)'
    BY <1>0 DEF NovasIntactas
  <2>1. linha[j].status = "ausente" /\ Intacta(j)
    BY DEF FilaInv, NovasIntactas
  <2>2. linha'[j] = linha[j]
    BY DEF SoLinha
  <2> QED BY <1>0, <2>1, <2>2, IntactaFica
<1>3. ASSUME NEW it \in executor.fila
      PROVE  ItemEmOrdem(it)'
  <2>1. ItemEmOrdem(it) /\ it.id \in Ids
    BY <1>0 DEF FilaInv, ItensEmOrdem
  <2>2. \/ linha'[it.id] = linha[it.id]
        \/ it.acao.op = "job"
        \/ linha'[it.id].status = "ausente"
    BY <2>1 DEF SoLinha, ItemEmOrdem
  <2>3. Intacta(it.id) => Intacta(it.id)'
    BY <1>0, IntactaFica
  <2>4. proximo' \in Nat /\ proximo' >= proximo
    BY <1>0
  <2> QED BY <1>0, <2>1, <2>2, <2>3, <2>4, ItemFica
<1>4. ExecutorEmOrdem'
  <2>1. ExecutorEmOrdem /\ \A it \in executor.fila : Atual(it)' <=> Atual(it)
    BY <1>0 DEF FilaInv, Atual
  <2>2. \A it \in executor.fila : tratadas[it.id] \subseteq tratadas'[it.id]
    BY <1>0 DEF SoLinha
  <2> QED BY <1>0, <2>1, <2>2 DEF ExecutorEmOrdem
<1> QED BY <1>0, <1>1, <1>2, <1>3, <1>4 DEF ItensEmOrdem

\* It leaves every other row in order, when the task that runs goes on.
LEMMA OutrasLinhas ==
  ASSUME FilaInv, NEW i \in Ids, SoLinha(i), tarefa' = tarefa \/ tarefa.id = i
  PROVE  \A j \in Ids : j # i => LinhaEmOrdem(j)'
<1> SUFFICES ASSUME NEW j \in Ids, j # i
             PROVE  LinhaEmOrdem(j)'
  OBVIOUS
<1>1. /\ LinhaEmOrdem(j) /\ linha'[j] = linha[j] /\ tratadas[j] \subseteq tratadas'[j]
      /\ NadaEscrito /\ executor' = executor
  BY DEF FilaInv, LinhasEmOrdem, SoLinha
<1>2. SemFalhas /\ linha[j].status = "executando" => tarefa' = tarefa
  BY <1>1 DEF LinhaEmOrdem
<1>3. EmMaos(j) => EmMaos(j)'
  BY <1>1 DEF EmMaos, Atual
<1>4. Intacta(j) => Intacta(j)'
  BY <1>1, IntactaFica
<1> QED BY <1>1, <1>2, <1>3, <1>4, LinhaFica

\* It leaves the worker in order, when who had listed the row answers it.
LEMMA WorkerQuieto ==
  ASSUME FilaInv, NEW i \in Ids, SoLinha(i), worker' \subseteq worker,
         \/ linha'[i] = linha[i]
         \/ linha'[i].status = "ausente"
         \/ linha[i].status # "revisao" /\ Existe(i)
         \/ \A w \in worker' : w.id # i
  PROVE  WorkerEmOrdem'
<1>0. TypeOK /\ WorkerEmOrdem /\ proximo \in Nat /\ proximo' = proximo
  BY Copias DEF FilaInv, SoLinha
<1>1. ASSUME NEW w \in worker'
      PROVE  ListadoEmOrdem(w)'
  <2>1. ListadoEmOrdem(w) /\ w.id \in Ids
    BY <1>0, Copias DEF WorkerEmOrdem
  <2>2. linha'[w.id] = linha[w.id] \/ linha'[w.id].status = "ausente"
    BY <2>1 DEF SoLinha, ListadoEmOrdem
  <2>3. proximo' \in Nat /\ proximo' >= proximo
    BY <1>0
  <2> QED BY <1>0, <2>1, <2>2, <2>3, ListadoFica
<1> QED BY <1>0, <1>1 DEF WorkerEmOrdem

\* It leaves the task that runs in order, when it ends or its row is not the one.
LEMMA TarefaQuieta ==
  ASSUME FilaInv, NEW i \in Ids, SoLinha(i),
         \/ tarefa' = SemTarefa
         \/ /\ tarefa' = tarefa
            /\ \/ linha'[i] = linha[i]
               \/ linha'[i].status = "ausente"
               \/ linha[i].status # "executando" /\ Existe(i)
  PROVE  TarefaEmOrdem'
<1>0. /\ TypeOK /\ TarefaEmOrdem /\ proximo \in Nat /\ proximo' = proximo /\ tarefa.id \in Nat
      /\ tarefa.id # 0 => tarefa.id \in Ids
  BY Copias DEF FilaInv, SoLinha
<1>1. CASE tarefa' = SemTarefa
  <2>1. 0 < proximo
    BY <1>0 DEF TarefaEmOrdem
  <2>2. tarefa'.id = 0
    BY <1>1 DEF SemTarefa
  <2> QED BY <1>0, <2>1, <2>2 DEF TarefaEmOrdem
<1>2. CASE tarefa' = tarefa /\ tarefa.id = i
  <2>1. i # 0
    BY <1>0, Copias
  <2>2. tarefa # SemTarefa
    BY <1>2, <2>1 DEF SemTarefa
  <2>3. linha'[i].status # "ausente" => linha'[i] = linha[i]
    BY <1>0, <1>2, <2>1, <2>2 DEF TarefaEmOrdem
  <2> QED BY <1>0, <1>2, <2>3 DEF TarefaEmOrdem, Existe
<1>3. CASE tarefa' = tarefa /\ tarefa.id # i
  <2>1. tarefa.id # 0 => linha'[tarefa.id] = linha[tarefa.id]
    BY <1>0, <1>3 DEF SoLinha
  <2> QED BY <1>0, <1>3, <2>1 DEF TarefaEmOrdem, Existe
<1> QED BY <1>1, <1>2, <1>3

\* Ids in use are below the next one.
LEMMA EmUso ==
  ASSUME FilaInv, NEW i \in Ids, Existe(i)
  PROVE  i < proximo
BY DEF FilaInv, NovasIntactas, Existe

\* A new row is in order, and nobody holds a copy of it.
LEMMA FilaCriar ==
  ASSUME FilaInv, TypeOK', NEW u \in Usuarios, NEW t \in Tipos, CriarSolicitacao(u, t)
  PROVE  FilaInv'
<1> DEFINE r == [LinhaAusente EXCEPT !.dono = u, !.tipo = t, !.acao = Montar(t, 1),
                                     !.status = Porta(u, t)]
<1>1. /\ proximo \in Ids /\ proximo' = proximo + 1 /\ linha' = [linha EXCEPT ![proximo] = r]
      /\ NadaEscrito /\ executor' = executor /\ worker' = worker /\ tarefa' = tarefa
      /\ tratadas' = tratadas
  BY DEF CriarSolicitacao, atores, NadaEscrito
<1>2. /\ TypeOK /\ linha \in [Ids -> Linhas] /\ proximo \in Nat
      /\ \A it \in executor.fila : it.id \in Ids
      /\ \A w \in worker : w.id \in Ids
      /\ tarefa.id \in Nat /\ (tarefa.id # 0 => tarefa.id \in Ids)
      /\ proximo' \in Nat /\ proximo' >= proximo
  <2>1. TypeOK
    BY DEF FilaInv
  <2>2. proximo \in Nat
    BY <2>1, Copias
  <2>3. proximo' \in Nat /\ proximo' >= proximo
    BY <1>1, <2>2
  <2> QED BY <2>1, <2>2, <2>3, Copias
<1>3. /\ r.versao = 1 /\ r.acao = Montar(t, 1) /\ r.status = Porta(u, t) /\ r.executado = FALSE
  BY DEF LinhaAusente
<1>4. Alvo(r) = 1 /\ r.status \in {"aprovado", "revisao", "pendente"}
  BY <1>3, PortaTipo DEF Alvo, Montar, SemAcao
<1> HIDE DEF r
<1>5. linha'[proximo] = r /\ \A j \in Ids : j # proximo => linha'[j] = linha[j]
  BY <1>1, <1>2
<1>6. UmaVezSemFalhas'
  BY <1>1 DEF FilaInv, UmaVezSemFalhas, AplicaNoMaximoUmaVez, NadaEscrito, Gravado
<1>7. NovasIntactas'
  <2> SUFFICES ASSUME NEW j \in Ids, ~(j < proximo + 1)
               PROVE  linha'[j].status = "ausente" /\ Intacta(j)'
    BY <1>1 DEF NovasIntactas
  <2>1. j # proximo /\ ~(j < proximo)
    BY <1>2, Copias
  <2>2. linha[j].status = "ausente" /\ Intacta(j)
    BY <2>1 DEF FilaInv, NovasIntactas
  <2> QED BY <1>1, <1>5, <2>1, <2>2, IntactaFica
<1>8. ASSUME NEW j \in Ids
      PROVE  LinhaEmOrdem(j)'
  <2>1. CASE j = proximo
    <3>1. Intacta(j)
      BY <1>2, <2>1 DEF FilaInv, NovasIntactas
    <3>2. Intacta(j)'
      BY <1>1, <3>1, IntactaFica
    <3>3. linha'[j] = r
      BY <1>5, <2>1
    <3> QED BY <1>3, <1>4, <3>2, <3>3 DEF LinhaEmOrdem, Alvo
  <2>2. CASE j # proximo
    <3>1. /\ LinhaEmOrdem(j) /\ linha'[j] = linha[j]
          /\ tratadas[j] \subseteq tratadas'[j] /\ tarefa' = tarefa
      BY <1>1, <1>5, <2>2 DEF FilaInv, LinhasEmOrdem
    <3>2. Intacta(j) => Intacta(j)'
      BY <1>1, IntactaFica
    <3>3. EmMaos(j) => EmMaos(j)'
      BY <1>1 DEF EmMaos, Atual
    <3> QED BY <3>1, <3>2, <3>3, LinhaFica
  <2> QED BY <2>1, <2>2
<1>9. ASSUME NEW it \in executor.fila
      PROVE  ItemEmOrdem(it)'
  <2>1. ItemEmOrdem(it) /\ it.id \in Ids
    BY <1>2 DEF FilaInv, ItensEmOrdem
  <2>2. linha'[it.id] = linha[it.id]
    <3>1. it.id # proximo
      BY <1>2, <2>1 DEF ItemEmOrdem
    <3> QED BY <1>5, <2>1, <3>1
  <2>3. Intacta(it.id) => Intacta(it.id)'
    BY <1>1, IntactaFica
  <2>4. EmMaos(it.id) => EmMaos(it.id)'
    BY <1>1 DEF EmMaos, Atual
  <2> QED BY <1>2, <2>1, <2>2, <2>3, <2>4, ItemFica
<1>10. ASSUME NEW w \in worker
       PROVE  ListadoEmOrdem(w)'
  <2>1. ListadoEmOrdem(w) /\ w.id \in Ids
    BY <1>2 DEF FilaInv, WorkerEmOrdem
  <2>2. linha'[w.id] = linha[w.id]
    <3>1. w.id # proximo
      BY <1>2, <2>1 DEF ListadoEmOrdem
    <3> QED BY <1>5, <2>1, <3>1
  <2> QED BY <1>2, <2>1, <2>2, ListadoFica
<1>11. TarefaEmOrdem'
  <2>1. tarefa.id < proximo /\ TarefaEmOrdem
    BY DEF FilaInv, TarefaEmOrdem
  <2>2. tarefa.id # proximo /\ tarefa.id < proximo'
    BY <1>1, <1>2, <2>1
  <2>3. tarefa.id # 0 => linha'[tarefa.id] = linha[tarefa.id]
    BY <1>2, <1>5, <2>2
  <2> QED BY <1>1, <2>1, <2>2, <2>3 DEF TarefaEmOrdem, Existe
<1>12. ExecutorEmOrdem'
  BY <1>1 DEF FilaInv, ExecutorEmOrdem, Atual
<1> QED BY <1>1, <1>6, <1>7, <1>8, <1>9, <1>10, <1>11, <1>12
        DEF FilaInv, LinhasEmOrdem, ItensEmOrdem, WorkerEmOrdem

\* The other handlers of one statement write one row that nobody holds.
LEMMA FilaSite ==
  ASSUME FilaInv, TypeOK', PassoDoSite
  PROVE  FilaInv'
<1>0. TypeOK /\ linha \in [Ids -> Linhas] /\ \A j \in Ids : linha[j] \in Linhas
  BY DEF FilaInv, TypeOK
<1>1. ASSUME NEW u \in Usuarios, NEW t \in Tipos, CriarSolicitacao(u, t)
      PROVE  FilaInv'
  BY <1>1, FilaCriar
<1>2. CASE ListarSolicitacoes
  <2>1. /\ linha' = linha /\ SoLinha(1) /\ tarefa' = tarefa /\ worker' = worker
        /\ tratadas' = tratadas
    BY <1>2 DEF ListarSolicitacoes, tabela, historia, SoLinha, NadaEscrito
  <2>2. LinhaEmOrdem(1)'
    BY <2>1, PrimeiroId, IntactaFica
    DEF FilaInv, LinhasEmOrdem, LinhaEmOrdem, SoLinha, EmMaos, Atual, Alvo
  <2>3. \A j \in Ids : LinhaEmOrdem(j)'
    BY <2>1, <2>2, PrimeiroId, OutrasLinhas
  <2> QED BY <2>1, <2>3, PrimeiroId, ExecutorQuieto, WorkerQuieto, TarefaQuieta
          DEF FilaInv, LinhasEmOrdem
<1>3. ASSUME NEW id \in Ids, AprovarSolicitacao(id)
      PROVE  FilaInv'
  <2>1. /\ linha[id].status = "pendente" /\ Existe(id) /\ tarefa' = tarefa
        /\ worker' = worker /\ tratadas' = tratadas /\ NadaEscrito /\ executor' = executor
        /\ proximo' = proximo /\ linha' = [linha EXCEPT ![id].status = "aprovado"]
    BY <1>3 DEF AprovarSolicitacao, atores, NadaEscrito, Existe
  <2>2. SoLinha(id)
    BY <1>0, <2>1 DEF SoLinha
  <2>3. /\ linha'[id].status = "aprovado" /\ linha'[id].versao = linha[id].versao
        /\ linha'[id].acao = linha[id].acao /\ linha'[id].executado = linha[id].executado
    BY <1>0, <2>1 DEF Linhas
  <2>4. LinhaEmOrdem(id)'
    <3>1. /\ ~linha[id].executado /\ linha[id].versao = Alvo(linha[id])
          /\ SemFalhas /\ ~EmMaos(id) => Intacta(id)
      BY <2>1 DEF FilaInv, LinhasEmOrdem, LinhaEmOrdem, Abertas
    <3>2. Alvo(linha[id])' = Alvo(linha[id])
      BY <2>3 DEF Alvo
    <3>3. SemFalhas /\ ~EmMaos(id)' => Intacta(id)'
      BY <2>1, <3>1, IntactaFica DEF EmMaos, Atual
    <3> QED BY <2>3, <3>1, <3>2, <3>3 DEF LinhaEmOrdem
  <2>5. id < proximo
    BY <2>1, EmUso
  <2>6. \A j \in Ids : LinhaEmOrdem(j)'
    BY <2>1, <2>2, <2>4, OutrasLinhas
  <2> QED BY <2>1, <2>2, <2>5, <2>6, ExecutorQuieto, WorkerQuieto, TarefaQuieta
          DEF FilaInv, LinhasEmOrdem
<1>4. ASSUME NEW id \in Ids, RejeitarSolicitacao(id)
      PROVE  FilaInv'
  <2>1. /\ Existe(id) /\ tarefa' = tarefa /\ worker' = worker /\ tratadas' = tratadas
        /\ NadaEscrito /\ executor' = executor /\ proximo' = proximo
        /\ linha' = [linha EXCEPT ![id] = LinhaAusente]
    BY <1>4 DEF RejeitarSolicitacao, atores, historia, NadaEscrito
  <2>2. linha'[id].status = "ausente"
    BY <1>0, <2>1 DEF LinhaAusente
  <2>3. SoLinha(id)
    BY <1>0, <2>1, <2>2 DEF SoLinha
  <2>4. LinhaEmOrdem(id)'
    BY <2>2 DEF LinhaEmOrdem, Abertas
  <2>5. id < proximo
    BY <2>1, EmUso
  <2>6. \A j \in Ids : LinhaEmOrdem(j)'
    BY <2>1, <2>3, <2>4, OutrasLinhas
  <2> QED BY <2>1, <2>2, <2>3, <2>5, <2>6, ExecutorQuieto, WorkerQuieto, TarefaQuieta
          DEF FilaInv, LinhasEmOrdem
<1>5. ASSUME NEW id \in Ids, NEW t \in Tipos, ResponderConfirmacao(id, t)
      PROVE  FilaInv'
  <2>1. /\ linha[id].status = "preciso_confirmar" /\ Existe(id) /\ tarefa' = tarefa
        /\ worker' = worker /\ tratadas' = tratadas /\ NadaEscrito /\ executor' = executor
        /\ proximo' = proximo
        /\ linha' = [linha EXCEPT ![id].versao = @ + 1, ![id].tipo = t,
                       ![id].status = "revisao", ![id].executado = FALSE,
                       ![id].resultado = "outro"]
    BY <1>5 DEF ResponderConfirmacao, atores, historia, NadaEscrito, Existe
  <2>2. SoLinha(id)
    BY <1>0, <2>1 DEF SoLinha
  <2>3. linha'[id].status = "revisao" /\ linha'[id].executado = FALSE
    BY <1>0, <2>1 DEF Linhas
  <2>4. LinhaEmOrdem(id)'
    BY <2>3 DEF LinhaEmOrdem, Abertas
  <2>5. id < proximo
    BY <2>1, EmUso
  <2>6. \A j \in Ids : LinhaEmOrdem(j)'
    BY <2>1, <2>2, <2>4, OutrasLinhas
  <2> QED BY <2>1, <2>2, <2>5, <2>6, ExecutorQuieto, WorkerQuieto, TarefaQuieta
          DEF FilaInv, LinhasEmOrdem
<1> QED BY <1>1, <1>2, <1>3, <1>4, <1>5 DEF PassoDoSite

\* The worker answers the rows it listed, each once.
LEMMA FilaWorker ==
  ASSUME FilaInv, TypeOK', PassoDoWorker
  PROVE  FilaInv'
<1>0. TypeOK /\ linha \in [Ids -> Linhas] /\ \A j \in Ids : linha[j] \in Linhas
  BY DEF FilaInv, TypeOK
<1>1. CASE WorkerLista
  <2>1. /\ linha' = linha /\ SoLinha(1) /\ tarefa' = tarefa /\ tratadas' = tratadas
        /\ proximo' = proximo
        /\ worker' = {[id |-> i, versao |-> linha[i].versao] :
                        i \in {j \in Ids : VisivelAoWorker(linha[j])}}
    BY <1>1 DEF WorkerLista, tabela, historia, SoLinha, NadaEscrito
  <2>2. LinhaEmOrdem(1)'
    BY <2>1, PrimeiroId, IntactaFica
    DEF FilaInv, LinhasEmOrdem, LinhaEmOrdem, SoLinha, EmMaos, Atual, Alvo
  <2>3. \A j \in Ids : LinhaEmOrdem(j)'
    BY <2>1, <2>2, PrimeiroId, OutrasLinhas
  <2>4. ASSUME NEW w \in worker'
        PROVE  ListadoEmOrdem(w)' /\ w = [id |-> w.id, versao |-> linha[w.id].versao]
    <3>1. PICK i \in Ids : /\ VisivelAoWorker(linha[i])
                           /\ w = [id |-> i, versao |-> linha[i].versao]
      BY <2>1
    <3>2. w.id = i /\ w.versao = linha[i].versao /\ linha[i].status = "revisao"
      BY <3>1 DEF VisivelAoWorker
    <3>3. i < proximo
      BY <3>2, EmUso DEF Existe
    <3> QED BY <2>1, <3>1, <3>2, <3>3 DEF ListadoEmOrdem
  <2>5. WorkerEmOrdem'
    BY <2>4 DEF WorkerEmOrdem
  <2> QED BY <2>1, <2>3, <2>5, PrimeiroId, ExecutorQuieto, TarefaQuieta
          DEF FilaInv, LinhasEmOrdem
<1>2. ASSUME NEW w \in worker
      PROVE  /\ w.id \in Ids /\ ListadoEmOrdem(w)
             /\ \A x \in worker \ {w} : x.id # w.id
             /\ Existe(w.id) => linha[w.id].status = "revisao"
  BY <1>0, Copias DEF FilaInv, WorkerEmOrdem, ListadoEmOrdem
<1>3. ASSUME NEW w \in worker, NEW st \in {"executado", "erro", "preciso_confirmar"},
             WorkerConclui(w, st)
      PROVE  FilaInv'
  <2> DEFINE i == w.id
  <2>1. /\ i \in Ids /\ worker' = worker \ {w} /\ tarefa' = tarefa /\ NadaEscrito
        /\ executor' = executor /\ proximo' = proximo
        /\ linha' = IF ~Existe(i) THEN linha
                    ELSE [linha EXCEPT ![i].status = st, ![i].executado = TRUE,
                                       ![i].resultado = "outro"]
        /\ tratadas' = IF st = "preciso_confirmar" THEN tratadas
                       ELSE [tratadas EXCEPT ![i] = @ \cup {w.versao}]
    BY <1>2, <1>3 DEF WorkerConclui, NadaEscrito
  <2>2. Existe(i) => /\ linha[i].status = "revisao" /\ linha[i].versao = w.versao
                     /\ linha'[i].status = st /\ linha'[i].versao = linha[i].versao
    BY <1>0, <1>2, <2>1 DEF ListadoEmOrdem, Linhas
  <2>3. \A j \in Ids : tratadas[j] \subseteq tratadas'[j]
    BY <1>0, <2>1 DEF TypeOK
  <2>4. SoLinha(i)
    BY <1>0, <2>1, <2>2, <2>3 DEF SoLinha, Existe
  <2>5. st = "executado" => w.versao \in tratadas'[i]
    BY <1>0, <2>1 DEF TypeOK
  <2>6. LinhaEmOrdem(i)'
    <3>1. CASE Existe(i)
      BY <2>2, <2>5, <3>1 DEF LinhaEmOrdem, Abertas
    <3>2. CASE ~Existe(i)
      BY <2>1, <3>2 DEF LinhaEmOrdem, Abertas, Existe
    <3> QED BY <3>1, <3>2
  <2>7. linha'[i] = linha[i] \/ (Existe(i) /\ i < proximo)
    <3>1. Existe(i) => i < proximo
      BY <2>1, EmUso
    <3>2. ~Existe(i) => linha' = linha
      BY <2>1
    <3> QED BY <3>1, <3>2
  <2>8. \A j \in Ids : LinhaEmOrdem(j)'
    BY <2>1, <2>4, <2>6, OutrasLinhas
  <2>9. WorkerEmOrdem' /\ TarefaEmOrdem'
    <3>1. worker' \subseteq worker /\ \A x \in worker' : x.id # i
      BY <1>2, <2>1
    <3>2. \/ linha'[i] = linha[i]
          \/ linha[i].status # "executando" /\ Existe(i)
      BY <2>2, <2>7
    <3> QED BY <2>1, <2>4, <3>1, <3>2, WorkerQuieto, TarefaQuieta
  <2> QED BY <2>1, <2>4, <2>7, <2>8, <2>9, ExecutorQuieto DEF FilaInv, LinhasEmOrdem
<1>4. ASSUME NEW w \in worker, NEW res \in {"decisaoHumana", "portal"}, WorkerDevolve(w, res)
      PROVE  FilaInv'
  <2> DEFINE i == w.id
  <2>1. /\ i \in Ids /\ worker' = worker \ {w} /\ tarefa' = tarefa /\ NadaEscrito
        /\ executor' = executor /\ proximo' = proximo /\ tratadas' = tratadas
        /\ linha' = IF Existe(i) THEN [linha EXCEPT ![i].resultado = res] ELSE linha
    BY <1>2, <1>4 DEF WorkerDevolve, historia, NadaEscrito
  <2>2. Existe(i) => /\ linha[i].status = "revisao" /\ linha'[i].status = "revisao"
                     /\ linha'[i].executado = linha[i].executado
    BY <1>0, <1>2, <2>1 DEF Linhas
  <2>3. SoLinha(i)
    BY <1>0, <2>1, <2>2 DEF SoLinha, Existe
  <2>4. LinhaEmOrdem(i)'
    <3>1. CASE Existe(i)
      BY <2>1, <2>2, <3>1 DEF LinhaEmOrdem, Abertas, FilaInv, LinhasEmOrdem
    <3>2. CASE ~Existe(i)
      BY <2>1, <3>2 DEF LinhaEmOrdem, Abertas, Existe
    <3> QED BY <3>1, <3>2
  <2>5. linha'[i] = linha[i] \/ (Existe(i) /\ i < proximo)
    <3>1. Existe(i) => i < proximo
      BY <2>1, EmUso
    <3>2. ~Existe(i) => linha' = linha
      BY <2>1
    <3> QED BY <3>1, <3>2
  <2>6. \A j \in Ids : LinhaEmOrdem(j)'
    BY <2>1, <2>3, <2>4, OutrasLinhas
  <2>7. WorkerEmOrdem' /\ TarefaEmOrdem'
    <3>1. worker' \subseteq worker /\ \A x \in worker' : x.id # i
      BY <1>2, <2>1
    <3>2. \/ linha'[i] = linha[i]
          \/ linha[i].status # "executando" /\ Existe(i)
      BY <2>2, <2>5
    <3> QED BY <2>1, <2>3, <3>1, <3>2, WorkerQuieto, TarefaQuieta
  <2> QED BY <2>1, <2>3, <2>5, <2>6, <2>7, ExecutorQuieto DEF FilaInv, LinhasEmOrdem
<1> QED BY <1>1, <1>3, <1>4 DEF PassoDoWorker

\* run_jobs.py: what it reserves nobody has written for, nor will; what it ends
\* it has worked through.
LEMMA FilaRunJobs ==
  ASSUME FilaInv, TypeOK', PassoDeRunJobs
  PROVE  FilaInv'
<1>0. /\ TypeOK /\ linha \in [Ids -> Linhas] /\ \A j \in Ids : linha[j] \in Linhas
      /\ Ids \subseteq Nat \ {0} /\ proximo \in Nat
      /\ iniciada \in [Ids -> [Versoes -> Nat]] /\ aplicada \in [Ids -> [Versoes -> Nat]]
      /\ \A it \in executor.fila : it.id \in Ids
  <2>1. TypeOK
    BY DEF FilaInv
  <2>2. \A j \in Ids : linha[j] \in Linhas
    BY <2>1, Copias
  <2> QED BY <2>1, <2>2, Copias
<1>1. ASSUME NEW id \in Ids, TarefaPega(id)
      PROVE  FilaInv'
  <2> DEFINE v0 == Alvo(linha[id])
  <2>1. /\ tarefa.id = 0 /\ tarefa' = [id |-> id, versao |-> v0]
        /\ linha[id].status = "aprovado" /\ linha[id].acao.op = "job" /\ Existe(id)
        /\ executor' = executor /\ worker' = worker /\ proximo' = proximo
        /\ tratadas' = tratadas /\ aplicada' = aplicada
        /\ linha' = [linha EXCEPT ![id].status = "executando"]
        /\ iniciada' = [iniciada EXCEPT ![id][v0] = @ + 1]
    BY <1>1 DEF TarefaPega, EhTarefa, NaFila, Existe
  <2>2. v0 \in Versoes
    BY <1>0, AlvoTipo DEF Linhas
  <2>3. /\ linha'[id].status = "executando" /\ linha'[id].versao = linha[id].versao
        /\ \A j \in Ids : j # id => linha'[j] = linha[j]
    BY <1>0, <2>1 DEF Linhas
  <2>4. \A it \in executor.fila : it.id = id => it.acao.op = "job"
    BY <2>1 DEF FilaInv, ItensEmOrdem, ItemEmOrdem
  <2>5. ~EmMaos(id)
    BY <2>4 DEF EmMaos, FilaInv, ExecutorEmOrdem
  <2>6. (SemFalhas => Intacta(id)) /\ linha[id].versao = v0
    BY <2>1, <2>5 DEF FilaInv, LinhasEmOrdem, LinhaEmOrdem, Abertas
  <2>7. \A j \in Ids : j # id => (Intacta(j)' <=> Intacta(j))
    <3>1. \A j \in Ids : j # id => iniciada'[j] = iniciada[j]
      BY <1>0, <2>1
    <3> QED BY <2>1, <3>1 DEF Intacta, Gravado
  <2>8. UmaVezSemFalhas'
    <3> SUFFICES ASSUME SemFalhas, NEW j \in Ids, NEW v \in Versoes
                 PROVE  aplicada'[j][v] + iniciada'[j][v] <= 1
      BY DEF UmaVezSemFalhas, AplicaNoMaximoUmaVez, Gravado
    <3>1. aplicada[j][v] + iniciada[j][v] <= 1 /\ aplicada[j][v] \in Nat /\ iniciada[j][v] \in Nat
      BY <1>0 DEF FilaInv, UmaVezSemFalhas, AplicaNoMaximoUmaVez, Gravado
    <3>2. CASE j = id /\ v = v0
      <4>1. aplicada[j][v] + iniciada[j][v] = 0
        BY <2>6, <3>2 DEF Intacta, Gravado
      <4>2. iniciada'[j][v] = iniciada[j][v] + 1
        BY <1>0, <2>1, <2>2, <3>2
      <4> QED BY <2>1, <3>1, <4>1, <4>2
    <3>3. CASE ~(j = id /\ v = v0)
      <4>1. iniciada'[j][v] = iniciada[j][v]
        BY <1>0, <2>1, <3>3
      <4> QED BY <2>1, <3>1, <4>1
    <3> QED BY <3>2, <3>3
  <2>9. \A j : EmMaos(j)' <=> EmMaos(j)
    BY <2>1 DEF EmMaos, Atual
  <2>10. id < proximo
    BY <2>1, EmUso
  <2>11. NovasIntactas'
    BY <2>1, <2>3, <2>7, <2>10 DEF FilaInv, NovasIntactas
  <2>12. ASSUME NEW j \in Ids
         PROVE  LinhaEmOrdem(j)'
    <3>1. CASE j = id
      BY <2>1, <2>3, <2>6, <3>1 DEF LinhaEmOrdem, Abertas
    <3>2. CASE j # id
      <4>1. /\ LinhaEmOrdem(j) /\ linha'[j] = linha[j] /\ tratadas[j] \subseteq tratadas'[j]
            /\ Intacta(j) => Intacta(j)'
        BY <2>1, <2>3, <2>7, <3>2 DEF FilaInv, LinhasEmOrdem
      <4>2. ~(SemFalhas /\ linha[j].status = "executando")
        BY <1>0, <2>1, <4>1 DEF LinhaEmOrdem
      <4> QED BY <2>9, <4>1, <4>2, LinhaFica
    <3> QED BY <3>1, <3>2
  <2>13. ASSUME NEW it \in executor.fila
         PROVE  ItemEmOrdem(it)'
    <3>1. ItemEmOrdem(it) /\ it.id \in Ids /\ proximo' \in Nat /\ proximo' >= proximo
      BY <1>0, <2>1 DEF FilaInv, ItensEmOrdem
    <3>2. CASE it.id = id
      BY <2>1, <2>4, <3>1, <3>2 DEF ItemEmOrdem
    <3>3. CASE it.id # id
      <4>1. linha'[it.id] = linha[it.id] /\ (Intacta(it.id) => Intacta(it.id)')
        BY <2>3, <2>7, <3>1, <3>3
      <4> QED BY <1>0, <2>9, <3>1, <4>1, ItemFica
    <3> QED BY <3>2, <3>3
  <2>14. ASSUME NEW w \in worker
         PROVE  ListadoEmOrdem(w)'
    <3>1. ListadoEmOrdem(w) /\ w.id \in Ids
      BY <1>0, Copias DEF FilaInv, WorkerEmOrdem
    <3>2. w.id # id
      BY <2>1, <3>1 DEF ListadoEmOrdem
    <3> QED BY <2>1, <2>3, <3>1, <3>2 DEF ListadoEmOrdem, Existe
  <2>15. TarefaEmOrdem'
    BY <2>1, <2>3, <2>6, <2>10 DEF TarefaEmOrdem
  <2>16. ExecutorEmOrdem'
    BY <2>1 DEF FilaInv, ExecutorEmOrdem, Atual
  <2> QED BY <2>1, <2>8, <2>11, <2>12, <2>13, <2>14, <2>15, <2>16
          DEF FilaInv, LinhasEmOrdem, ItensEmOrdem, WorkerEmOrdem
<1>2. ASSUME NEW st \in {"executado", "erro"}, TarefaFinaliza(st)
      PROVE  FilaInv'
  <2> DEFINE i == tarefa.id
  <2>1. /\ i \in Ids /\ tarefa' = SemTarefa /\ worker' = worker /\ NadaEscrito
        /\ executor' = executor /\ proximo' = proximo
        /\ linha' = IF ~Existe(i) THEN linha
                    ELSE [linha EXCEPT ![i].status = st, ![i].executado = TRUE,
                                       ![i].resultado = "outro"]
        /\ tratadas' = [tratadas EXCEPT ![i] = @ \cup {tarefa.versao}]
    BY <1>0, <1>2, Copias DEF TarefaFinaliza, NadaEscrito
  <2>2. Existe(i) => /\ linha[i].status = "executando" /\ linha[i].versao = tarefa.versao
                     /\ linha'[i].status = st /\ linha'[i].versao = linha[i].versao
    <3>1. i # 0
      BY <1>0, <2>1
    <3> QED BY <1>0, <2>1, <3>1 DEF FilaInv, TarefaEmOrdem, Linhas
  <2>3. tarefa.versao \in tratadas'[i] /\ \A j \in Ids : tratadas[j] \subseteq tratadas'[j]
    BY <1>0, <2>1 DEF TypeOK
  <2>4. SoLinha(i)
    BY <1>0, <2>1, <2>2, <2>3 DEF SoLinha, Existe
  <2>5. ASSUME NEW k \in Ids, k = i
        PROVE  LinhaEmOrdem(k)'
    <3>1. CASE Existe(i)
      BY <2>2, <2>3, <2>5, <3>1 DEF LinhaEmOrdem, Abertas
    <3>2. CASE ~Existe(i)
      BY <2>1, <2>5, <3>2 DEF LinhaEmOrdem, Abertas, Existe
    <3> QED BY <3>1, <3>2
  <2>6. linha'[i] = linha[i] \/ (Existe(i) /\ i < proximo)
    <3>1. Existe(i) => i < proximo
      BY <2>1, EmUso
    <3>2. ~Existe(i) => linha' = linha
      BY <2>1
    <3> QED BY <3>1, <3>2
  <2>7. \A j \in Ids : LinhaEmOrdem(j)'
    <3>1. \A j \in Ids : j # i => LinhaEmOrdem(j)'
      BY <2>1, <2>4, OutrasLinhas
    <3> QED BY <2>5, <3>1
  <2>8. WorkerEmOrdem' /\ TarefaEmOrdem'
    <3>1. \/ linha'[i] = linha[i]
          \/ linha[i].status # "revisao" /\ Existe(i)
      BY <2>2, <2>6
    <3> QED BY <2>1, <2>4, <3>1, WorkerQuieto, TarefaQuieta
  <2> QED BY <2>1, <2>4, <2>6, <2>7, <2>8, ExecutorQuieto DEF FilaInv, LinhasEmOrdem
<1> QED BY <1>1, <1>2 DEF PassoDeRunJobs

\* The executor copies rows that are in order, writes for the first of its
\* copies what it had not written, and marks it.
LEMMA FilaExecutor ==
  ASSUME FilaInv, TypeOK', PassoDoExecutor
  PROVE  FilaInv'
<1>0. /\ TypeOK /\ linha \in [Ids -> Linhas] /\ \A j \in Ids : linha[j] \in Linhas
      /\ Ids \subseteq Nat \ {0} /\ proximo \in Nat
      /\ iniciada \in [Ids -> [Versoes -> Nat]] /\ aplicada \in [Ids -> [Versoes -> Nat]]
      /\ \A it \in executor.fila : it \in Itens /\ it.id \in Ids
  <2>1. TypeOK
    BY DEF FilaInv
  <2>2. \A j \in Ids : linha[j] \in Linhas
    BY <2>1, Copias
  <2> QED BY <2>1, <2>2, Copias
<1>1. CASE ExecutorInicia
  <2>1. /\ executor.fase = "parado" /\ executor'.fase = "rodando"
        /\ executor'.fila = {Item(id) : id \in {i \in Ids : NaFila(i)}}
        /\ linha' = linha /\ proximo' = proximo /\ worker' = worker /\ tarefa' = tarefa
        /\ NadaEscrito /\ tratadas' = tratadas
    BY <1>1 DEF ExecutorInicia, Parado, tabela, historia, NadaEscrito
  <2>2. \A j : ~EmMaos(j) /\ ~EmMaos(j)'
    BY <2>1 DEF EmMaos
  <2>3. \A j : Intacta(j)' <=> Intacta(j)
    BY <2>1, IntactaFica
  <2>4. ASSUME NEW it \in executor'.fila
        PROVE  ItemEmOrdem(it)' /\ it = [id |-> it.id, versao |-> linha[it.id].versao,
                                         acao |-> linha[it.id].acao]
    <3>1. PICK i \in Ids : NaFila(i) /\ it = Item(i)
      BY <2>1
    <3>2. it.id = i /\ it.versao = linha[i].versao /\ it.acao = linha[i].acao
          /\ linha[i].status = "aprovado"
      BY <3>1 DEF Item, NaFila
    <3>3. i < proximo
      BY <3>2, EmUso DEF Existe
    <3>4. SemFalhas => Intacta(i)
      BY <2>2, <3>2 DEF FilaInv, LinhasEmOrdem, LinhaEmOrdem, Abertas
    <3>5. ItemEmOrdem(it)'
      BY <2>1, <2>3, <3>2, <3>3, <3>4 DEF ItemEmOrdem
    <3> QED BY <3>1, <3>2, <3>5 DEF Item
  <2>5. ASSUME NEW j \in Ids
        PROVE  LinhaEmOrdem(j)'
    <3>1. LinhaEmOrdem(j) /\ linha'[j] = linha[j] /\ tratadas[j] \subseteq tratadas'[j]
      BY <2>1 DEF FilaInv, LinhasEmOrdem
    <3> QED BY <2>1, <2>2, <2>3, <3>1, LinhaFica
  <2>6. NovasIntactas'
    BY <2>1, <2>3 DEF FilaInv, NovasIntactas
  <2>7. ExecutorEmOrdem'
    BY <2>1, <2>4 DEF ExecutorEmOrdem
  <2>8. UmaVezSemFalhas'
    BY <2>1 DEF FilaInv, UmaVezSemFalhas, AplicaNoMaximoUmaVez, NadaEscrito, Gravado
  <2>9. WorkerEmOrdem' /\ TarefaEmOrdem'
    BY <2>1 DEF FilaInv, WorkerEmOrdem, ListadoEmOrdem, TarefaEmOrdem, Existe
  <2> QED BY <2>4, <2>5, <2>6, <2>7, <2>8, <2>9 DEF FilaInv, LinhasEmOrdem, ItensEmOrdem
<1>2. ASSUME NEW it \in executor.fila
      PROVE  /\ Avanca(it).fila \subseteq executor.fila \ {it}
             /\ Avanca(it).fase \in {"parado", "rodando"}
             /\ Avanca(it).fase = "parado" => Avanca(it).fila = {}
  BY DEF Avanca, Parado
<1>3. ASSUME NEW it \in executor.fila, ExecutorPulaTarefa(it)
      PROVE  FilaInv'
  <2>1. /\ executor.fase = "rodando" /\ executor' = Avanca(it)
        /\ linha' = linha /\ proximo' = proximo /\ worker' = worker /\ tarefa' = tarefa
        /\ NadaEscrito /\ tratadas' = tratadas
    BY <1>3 DEF ExecutorPulaTarefa, tabela, historia, NadaEscrito
  <2>2. \A j : ~EmMaos(j) /\ ~EmMaos(j)'
    BY <1>2, <2>1 DEF EmMaos
  <2>3. \A j : Intacta(j)' <=> Intacta(j)
    BY <2>1, IntactaFica
  <2>4. ASSUME NEW x \in executor'.fila
        PROVE  ItemEmOrdem(x)'
    <3>1. ItemEmOrdem(x)
      BY <1>2, <2>1 DEF FilaInv, ItensEmOrdem
    <3> QED BY <2>1, <2>2, <2>3, <3>1 DEF ItemEmOrdem, Existe
  <2>5. ASSUME NEW j \in Ids
        PROVE  LinhaEmOrdem(j)'
    <3>1. LinhaEmOrdem(j) /\ linha'[j] = linha[j] /\ tratadas[j] \subseteq tratadas'[j]
      BY <2>1 DEF FilaInv, LinhasEmOrdem
    <3> QED BY <2>1, <2>2, <2>3, <3>1, LinhaFica
  <2>6. NovasIntactas'
    BY <2>1, <2>3 DEF FilaInv, NovasIntactas
  <2>7. ExecutorEmOrdem'
    BY <1>2, <2>1 DEF FilaInv, ExecutorEmOrdem
  <2>8. UmaVezSemFalhas'
    BY <2>1 DEF FilaInv, UmaVezSemFalhas, AplicaNoMaximoUmaVez, NadaEscrito, Gravado
  <2>9. WorkerEmOrdem' /\ TarefaEmOrdem'
    BY <2>1 DEF FilaInv, WorkerEmOrdem, ListadoEmOrdem, TarefaEmOrdem, Existe
  <2> QED BY <2>4, <2>5, <2>6, <2>7, <2>8, <2>9 DEF FilaInv, LinhasEmOrdem, ItensEmOrdem
<1>4. ASSUME NEW it \in executor.fila, NEW m \in Respostas(it.acao.op),
             NEW gravou \in BOOLEAN, ExecutorAplica(it, m, gravou)
      PROVE  FilaInv'
  <2> DEFINE v0 == Alvo(it)
  <2>1. /\ executor.fase = "rodando" /\ Atual(it) /\ it.acao.op # "job"
        /\ executor'.fase = "aplicou" /\ executor'.fila = executor.fila /\ executor'.marca = m
        /\ linha' = linha /\ proximo' = proximo /\ worker' = worker /\ tarefa' = tarefa
        /\ iniciada' = iniciada
        /\ aplicada' = IF gravou THEN [aplicada EXCEPT ![it.id][v0] = @ + 1] ELSE aplicada
        /\ tratadas' = IF m.status = "revisao" THEN tratadas
                       ELSE [tratadas EXCEPT ![it.id] = @ \cup {v0}]
    BY <1>0, <1>4 DEF ExecutorAplica, TypeOK
  <2>2. /\ it.id \in Ids /\ v0 \in Versoes /\ it.id < proximo
        /\ SemFalhas => Intacta(it.id)
    <3>1. it.id \in Ids /\ v0 \in Versoes
      BY <1>0, AlvoTipo DEF Itens
    <3>2. ~EmMaos(it.id)
      BY <2>1 DEF EmMaos
    <3> QED BY <2>1, <3>1, <3>2 DEF FilaInv, ItensEmOrdem, ItemEmOrdem
  <2>3. \A x \in executor.fila : Atual(x)' <=> Atual(x)
    BY <2>1 DEF Atual
  <2>4. \A j : ~EmMaos(j) /\ (EmMaos(j)' <=> j = it.id)
    <3>1. \A x \in executor.fila : Atual(x) => x.id = it.id
      BY <1>0, <2>1, UmAtual
    <3> QED BY <2>1, <2>3, <3>1 DEF EmMaos
  <2>5. \A j \in Ids : j # it.id => (Intacta(j)' <=> Intacta(j))
    <3>1. \A j \in Ids : j # it.id => aplicada'[j] = aplicada[j]
      BY <1>0, <2>1
    <3> QED BY <2>1, <3>1 DEF Intacta, Gravado
  <2>6. \A j \in Ids : tratadas[j] \subseteq tratadas'[j]
    BY <1>0, <2>1 DEF TypeOK
  <2>7. UmaVezSemFalhas'
    <3> SUFFICES ASSUME SemFalhas, NEW j \in Ids, NEW v \in Versoes
                 PROVE  aplicada'[j][v] + iniciada'[j][v] <= 1
      BY DEF UmaVezSemFalhas, AplicaNoMaximoUmaVez, Gravado
    <3>1. aplicada[j][v] + iniciada[j][v] <= 1 /\ aplicada[j][v] \in Nat /\ iniciada[j][v] \in Nat
      BY <1>0 DEF FilaInv, UmaVezSemFalhas, AplicaNoMaximoUmaVez, Gravado
    <3>2. CASE j = it.id /\ v = v0
      <4>1. aplicada[j][v] + iniciada[j][v] = 0
        BY <2>2, <3>2 DEF Intacta, Gravado
      <4>2. aplicada'[j][v] \in {aplicada[j][v], aplicada[j][v] + 1}
        BY <1>0, <2>1, <2>2, <3>2
      <4> QED BY <2>1, <3>1, <4>1, <4>2
    <3>3. CASE ~(j = it.id /\ v = v0)
      <4>1. aplicada'[j][v] = aplicada[j][v]
        BY <1>0, <2>1, <2>2, <3>3
      <4> QED BY <2>1, <3>1, <4>1
    <3> QED BY <3>2, <3>3
  <2>8. NovasIntactas'
    BY <2>1, <2>2, <2>5 DEF FilaInv, NovasIntactas
  <2>9. ASSUME NEW j \in Ids
        PROVE  LinhaEmOrdem(j)'
    <3>1. LinhaEmOrdem(j) /\ linha'[j] = linha[j] /\ tratadas[j] \subseteq tratadas'[j]
      BY <2>1, <2>6 DEF FilaInv, LinhasEmOrdem
    <3>2. CASE j = it.id
      <4>1. EmMaos(j)'
        BY <2>4, <3>2
      <4> QED BY <2>1, <3>1, <4>1 DEF LinhaEmOrdem, Alvo
    <3>3. CASE j # it.id
      BY <2>1, <2>4, <2>5, <3>1, <3>3, LinhaFica
    <3> QED BY <3>2, <3>3
  <2>10. ASSUME NEW x \in executor.fila
         PROVE  ItemEmOrdem(x)'
    <3>1. ItemEmOrdem(x) /\ x.id \in Ids /\ proximo' = proximo /\ linha' = linha
      BY <1>0, <2>1 DEF FilaInv, ItensEmOrdem
    <3>2. ~EmMaos(x.id)' => (Intacta(x.id)' <=> Intacta(x.id))
      BY <2>4, <2>5, <3>1
    <3> QED BY <2>4, <3>1, <3>2 DEF ItemEmOrdem, Existe
  <2>11. ExecutorEmOrdem'
    <3>1. m.status # "revisao" => v0 \in tratadas'[it.id]
      BY <1>0, <2>1, <2>2 DEF TypeOK
    <3>2. \A x \in executor.fila : Atual(x)' => x = it
      BY <1>0, <2>1, <2>3, UmAtual DEF FilaInv, ExecutorEmOrdem
    <3> QED BY <2>1, <3>1, <3>2 DEF FilaInv, ExecutorEmOrdem
  <2>12. WorkerEmOrdem' /\ TarefaEmOrdem'
    BY <2>1 DEF FilaInv, WorkerEmOrdem, ListadoEmOrdem, TarefaEmOrdem, Existe
  <2> QED BY <2>1, <2>7, <2>8, <2>9, <2>10, <2>11, <2>12
          DEF FilaInv, LinhasEmOrdem, ItensEmOrdem
<1>5. ASSUME NEW it \in executor.fila, NEW falhou \in BOOLEAN, ExecutorMarca(it, falhou)
      PROVE  FilaInv'
  <2> DEFINE m == executor.marca
             i == it.id
  <2>1. /\ executor.fase = "aplicou" /\ Atual(it) /\ executor' = Avanca(it)
        /\ SemFalhas => ~falhou
        /\ linha' = IF falhou \/ ~Existe(i) THEN linha
                    ELSE [linha EXCEPT ![i].status = m.status, ![i].resultado = m.resultado,
                                       ![i].executado = @ \/ m.status # "revisao"]
        /\ proximo' = proximo /\ worker' = worker /\ tarefa' = tarefa
        /\ NadaEscrito /\ tratadas' = tratadas
    <3>1. SemFalhas => ~falhou
      BY <1>0, <1>5 DEF ExecutorMarca, SemFalhas, TypeOK
    <3> QED BY <1>5, <3>1 DEF ExecutorMarca, historia, NadaEscrito
  <2>2. /\ i \in Ids /\ it.acao.op # "job" /\ m.status \in Marcas
        /\ m.status # "revisao" => Alvo(it) \in tratadas[i]
    BY <1>0, <2>1 DEF FilaInv, ExecutorEmOrdem, TypeOK
  <2>3. Existe(i) => /\ linha[i].status = "aprovado" /\ ~linha[i].executado
                     /\ linha[i].versao = Alvo(it)
    <3>1. ItemEmOrdem(it) /\ LinhaEmOrdem(i)
      BY <2>2 DEF FilaInv, ItensEmOrdem, LinhasEmOrdem
    <3> QED BY <2>2, <3>1 DEF ItemEmOrdem, LinhaEmOrdem, Abertas, Alvo
  <2>4. /\ \A j \in Ids : j # i => linha'[j] = linha[j]
        /\ ~falhou /\ Existe(i) =>
              /\ linha'[i].status = m.status /\ linha'[i].versao = linha[i].versao
              /\ linha'[i].executado = (linha[i].executado \/ m.status # "revisao")
    <3>1. linha[i] \in Linhas
      BY <1>0, <2>2
    <3>2. \A j \in Ids : j # i => linha'[j] = linha[j]
      BY <1>0, <2>1
    <3>3. ~falhou /\ Existe(i) => linha'[i] = [linha[i] EXCEPT !.status = m.status,
                           !.resultado = m.resultado, !.executado = @ \/ m.status # "revisao"]
      BY <1>0, <2>1, <2>2
    <3> QED BY <3>1, <3>2, <3>3 DEF Linhas
  <2>5. \A j : ~EmMaos(j)' /\ (EmMaos(j) => j = i)
    <3>1. \A x \in executor.fila : Atual(x) => x.id = i
      BY <1>0, <2>1, UmAtual
    <3> QED BY <1>2, <2>1, <3>1 DEF EmMaos
  <2>6. \A j : Intacta(j)' <=> Intacta(j)
    BY <2>1, IntactaFica
  <2>7. ASSUME NEW j \in Ids
        PROVE  LinhaEmOrdem(j)'
    <3>1. CASE j = i /\ Existe(i) /\ ~falhou
      BY <2>1, <2>2, <2>3, <2>4, <3>1 DEF LinhaEmOrdem, Abertas, Marcas
    <3>2. CASE j = i /\ ~Existe(i)
      BY <2>1, <3>2 DEF LinhaEmOrdem, Abertas, Existe
    <3>3. CASE j # i
      <4>1. LinhaEmOrdem(j) /\ linha'[j] = linha[j] /\ tratadas[j] \subseteq tratadas'[j]
        BY <2>1, <2>4, <3>3 DEF FilaInv, LinhasEmOrdem
      <4> QED BY <2>1, <2>5, <2>6, <3>3, <4>1, LinhaFica
    <3>4. CASE j = i /\ Existe(i) /\ falhou
      <4>1. linha' = linha /\ ~SemFalhas /\ LinhaEmOrdem(j)
        BY <2>1, <3>4 DEF FilaInv, LinhasEmOrdem
      <4> QED BY <2>1, <4>1 DEF LinhaEmOrdem, Alvo
    <3> QED BY <3>1, <3>2, <3>3, <3>4
  <2>8. ASSUME NEW x \in executor'.fila
        PROVE  ItemEmOrdem(x)'
    <3>1. ItemEmOrdem(x) /\ x.id \in Ids /\ x # it /\ x \in executor.fila
      BY <1>0, <1>2, <2>1 DEF FilaInv, ItensEmOrdem
    <3>2. x.id # i
      BY <3>1 DEF FilaInv, ExecutorEmOrdem
    <3>3. linha'[x.id] = linha[x.id] /\ ~EmMaos(x.id)
      BY <2>4, <2>5, <3>1, <3>2
    <3> QED BY <2>1, <2>5, <2>6, <3>1, <3>3 DEF ItemEmOrdem, Existe
  <2>9. NovasIntactas'
    <3> SUFFICES ASSUME NEW j \in Ids, ~(j < proximo)
                 PROVE  linha'[j].status = "ausente" /\ Intacta(j)'
      BY <2>1 DEF NovasIntactas
    <3>1. linha[j].status = "ausente" /\ Intacta(j)
      BY DEF FilaInv, NovasIntactas
    <3>2. linha'[j] = linha[j]
      BY <2>1, <2>4, <3>1 DEF Existe
    <3> QED BY <2>6, <3>1, <3>2
  <2>10. ExecutorEmOrdem'
    BY <1>2, <2>1 DEF FilaInv, ExecutorEmOrdem
  <2>11. UmaVezSemFalhas'
    BY <2>1 DEF FilaInv, UmaVezSemFalhas, AplicaNoMaximoUmaVez, NadaEscrito, Gravado
  <2>12. ASSUME NEW w \in worker
         PROVE  ListadoEmOrdem(w)'
    <3>1. ListadoEmOrdem(w) /\ w.id \in Ids
      BY <1>0, Copias DEF FilaInv, WorkerEmOrdem
    <3>2. CASE Existe(i) /\ w.id = i
      BY <2>3, <3>1, <3>2 DEF ListadoEmOrdem
    <3>3. CASE ~(Existe(i) /\ w.id = i)
      <4>1. linha'[w.id] = linha[w.id]
        BY <2>1, <2>4, <3>1, <3>3
      <4> QED BY <2>1, <3>1, <4>1 DEF ListadoEmOrdem, Existe
    <3> QED BY <3>2, <3>3
  <2>13. TarefaEmOrdem'
    <3>1. TarefaEmOrdem /\ (tarefa.id # 0 => tarefa.id \in Ids)
      BY <1>0, Copias DEF FilaInv
    <3>2. CASE Existe(i) /\ tarefa.id = i
      <4>1. i # 0
        BY <1>0, <2>2
      <4> QED BY <2>3, <3>1, <3>2, <4>1 DEF TarefaEmOrdem
    <3>3. CASE ~(Existe(i) /\ tarefa.id = i)
      <4>1. tarefa.id # 0 => linha'[tarefa.id] = linha[tarefa.id]
        BY <2>1, <2>4, <3>1, <3>3
      <4> QED BY <2>1, <3>1, <4>1 DEF TarefaEmOrdem, Existe
    <3> QED BY <3>2, <3>3
  <2> QED BY <2>1, <2>7, <2>8, <2>9, <2>10, <2>11, <2>12, <2>13
          DEF FilaInv, LinhasEmOrdem, ItensEmOrdem, WorkerEmOrdem
<1> QED BY <1>1, <1>3, <1>4, <1>5 DEF PassoDoExecutor

\* The empty table is in order.
LEMMA FilaInit == Init => FilaInv
<1> SUFFICES ASSUME Init PROVE FilaInv
  OBVIOUS
<1>1. /\ TypeOK /\ proximo = 1 /\ executor.fila = {} /\ worker = {} /\ tarefa.id = 0
      /\ \A i \in Ids : linha[i].status = "ausente" /\ Intacta(i)
  BY TypeInit DEF Init, LinhaAusente, Parado, SemTarefa, Intacta, Gravado
<1>2. UmaVezSemFalhas
  BY <1>1 DEF UmaVezSemFalhas, AplicaNoMaximoUmaVez, Intacta
<1>3. NovasIntactas /\ LinhasEmOrdem
  BY <1>1 DEF NovasIntactas, LinhasEmOrdem, LinhaEmOrdem, Abertas
<1>4. ItensEmOrdem /\ ExecutorEmOrdem /\ WorkerEmOrdem /\ TarefaEmOrdem
  BY <1>1 DEF ItensEmOrdem, ExecutorEmOrdem, WorkerEmOrdem, TarefaEmOrdem
<1> QED BY <1>1, <1>2, <1>3, <1>4 DEF FilaInv

\* A crash of the executor loses its copies, one of the worker its list, one of
\* run_jobs.py the task it ran; the rows stay as they are.
LEMMA FilaQueda ==
  ASSUME SemCorrecoes, FilaInv, TypeOK', Queda
  PROVE  FilaInv'
<1>0. TypeOK /\ ~SemFalhas
  BY DEF FilaInv, SemFalhas, TypeOK, Queda, ExecutorMorre, TarefaMorre, WorkerMorre, SessaoMorre
<1>1. /\ linha' = linha /\ proximo' = proximo /\ NadaEscrito /\ tratadas' = tratadas
      /\ \/ executor' = executor
         \/ executor'.fase = "parado" /\ executor'.fila = {}
      /\ worker' = worker \/ worker' = {}
      /\ tarefa' = tarefa \/ tarefa'.id = 0
  BY DEF Queda, ExecutorMorre, TarefaMorre, WorkerMorre, SemCorrecoes, tabela, historia,
         NadaEscrito, Parado, SemTarefa
<1>2. NovasIntactas'
  BY <1>1, IntactaFica DEF FilaInv, NovasIntactas
<1>3. LinhasEmOrdem'
  BY <1>0, <1>1 DEF FilaInv, LinhasEmOrdem, LinhaEmOrdem, Alvo
<1>4. ItensEmOrdem' /\ ExecutorEmOrdem'
  <2>1. CASE executor' = executor
    BY <1>0, <1>1, <2>1 DEF FilaInv, ItensEmOrdem, ItemEmOrdem, ExecutorEmOrdem, Atual, Existe
  <2>2. CASE executor'.fase = "parado" /\ executor'.fila = {}
    BY <2>2 DEF ItensEmOrdem, ExecutorEmOrdem
  <2> QED BY <1>1, <2>1, <2>2
<1>5. WorkerEmOrdem'
  BY <1>1 DEF FilaInv, WorkerEmOrdem, ListadoEmOrdem, Existe
<1>6. TarefaEmOrdem'
  <2>1. CASE tarefa' = tarefa
    BY <1>1, <2>1 DEF FilaInv, TarefaEmOrdem, Existe
  <2>2. CASE tarefa'.id = 0
    <3>1. tarefa.id < proximo /\ tarefa.id \in Nat /\ proximo \in Nat
      BY <1>0, Copias DEF FilaInv, TarefaEmOrdem
    <3> QED BY <1>1, <2>2, <3>1 DEF TarefaEmOrdem
  <2> QED BY <1>1, <2>1, <2>2
<1> QED BY <1>0, <1>2, <1>3, <1>4, <1>5, <1>6 DEF FilaInv, UmaVezSemFalhas

\* Every step keeps it in order.
LEMMA FilaStep ==
  ASSUME SemCorrecoes, FilaInv, [Next]_vars
  PROVE  FilaInv'
<1>1. TypeOK /\ TypeOK'
  BY TypeStep DEF FilaInv
<1>2. CASE UNCHANGED vars
  <2>1. TypeOK'
    BY <1>1
  <2> QED BY <1>2, <2>1
      DEF vars, tabela, atores, historia, FilaInv, UmaVezSemFalhas, AplicaNoMaximoUmaVez,
          NovasIntactas, LinhasEmOrdem, LinhaEmOrdem, ItensEmOrdem, ItemEmOrdem, ExecutorEmOrdem,
          WorkerEmOrdem, ListadoEmOrdem, TarefaEmOrdem, EmMaos, Intacta, Gravado, Existe, Atual,
          Alvo
<1> QED BY <1>1, <1>2, FilaSite, FilaExecutor, FilaRunJobs, FilaWorker, FilaQueda
        DEF Next, SemCorrecoes

\* The invariant, for the three theorems.
LEMMA FilaSempre ==
  ASSUME SemCorrecoes
  PROVE  Spec => []FilaInv
<1>1. FilaInv /\ [Next]_vars => FilaInv'
  BY FilaStep
<1> QED BY <1>1, FilaInit, PTL DEF Spec

\* Without a failure and without a correction in flight, no text of a request
\* is applied twice (executor main.go, "nunca roda o mesmo pedido 2x").
THEOREM FilaAplicaUmaVez ==
  ASSUME SemCorrecoes, SemFalhas
  PROVE  Spec => []AplicaNoMaximoUmaVez
<1>1. FilaInv => AplicaNoMaximoUmaVez
  BY DEF FilaInv, UmaVezSemFalhas
<1> QED BY <1>1, FilaSempre, PTL

\* Nor does any row get stuck between two filters.
THEOREM FilaNinguemParado ==
  ASSUME SemCorrecoes, SemFalhas
  PROVE  Spec => []NinguemFicaParado
<1>1. FilaInv => NinguemFicaParado
  BY DEF FilaInv, LinhasEmOrdem, LinhaEmOrdem, Abertas, NinguemFicaParado, VisivelAoWorker
<1> QED BY <1>1, FilaSempre, PTL
=============================================================================
