--------------------------- MODULE MCMovimentacao ---------------------------
(* Small instances of Movimentacao for TLC.                                  *)
EXTENDS Movimentacao, TLC

Estado(e, a) == [etapa |-> e, aprov |-> a]
\* the beginning, a neighbour, Conciliacao with a wrong decision, a skipped
\* stage, the end with and without a decision
Variados  == {Estado(1, 0), Estado(2, 0), Estado(3, 2), Estado(5, 0), Estado(6, 0),
              Estado(6, 2)}
\* the two ends of the board, with a decision
Extremos  == {Estado(1, 2), Estado(6, 2)}
\* no full form: it may put a process back at the beginning by itself
SemFormulario == {"encerramento", "deferimento", "legado"}
\* what a closing or a decision alone writes, a full form writes as well
SemDecisao    == TodosEscritores \ {"encerramento", "deferimento"}
Simetria  == Permutations(Sessoes)
=============================================================================
