------------------------------ MODULE Correcoes ------------------------------
(* Solicitacoes with one more history variable: which texts were written      *)
(* while some program, or another correction, had an older copy of the row.   *)
(* The step that writes a text is not the step that later closes the row, so  *)
(* the property needs to remember how they met.                               *)
EXTENDS Solicitacoes

VARIABLE cruzadas

varsC == <<vars, cruzadas>>

\* somebody holds a copy of the row and will write the row by its id
EmMaos(id) ==
  \/ \E it \in executor.fila : it.id = id
  \/ tarefa.id = id
  \/ \E w \in worker : w.id = id
  \/ \E s \in Sessoes : sessao[s].op \in {"reabriu", "leu"} /\ sessao[s].id = id

Cruza == cruzadas' = cruzadas \cup
  {[id |-> i, versao |-> linha'[i].versao] :
     i \in {j \in Ids : EmMaos(j) /\ linha'[j].versao > linha[j].versao}}

InitC == Init /\ cruzadas = {}
NextC == Next /\ Cruza
SpecC == InitC /\ [][NextC]_varsC

\* A correction, or an answer, that nobody's old copy crosses is never swallowed:
\* a row is marked executed only after its present text was worked through,
\* unless that text was written while the executor, run_jobs, the worker or
\* another handler held the row as it was before. Marks go by id and do not look
\* at the row (main.go:131, run_jobs.py, ResultadoSolicitacao), so with a copy in
\* somebody's hands the code promises no more.
CorrecaoSoSePerdeCruzada ==
  \A id \in Ids :
    linha[id].status = "executado" =>
      \/ linha[id].versao \in tratadas[id]
      \/ [id |-> id, versao |-> linha[id].versao] \in cruzadas
=============================================================================
