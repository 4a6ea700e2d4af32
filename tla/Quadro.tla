------------------------------- MODULE Quadro -------------------------------
(* What moving a process on the board promises: the process exists once, and *)
(* each movement takes it, in a single step, from the state it is really in  *)
(* to one the rules allow, leaving a history row that says just that.        *)
EXTENDS Integers

VARIABLES existe,    \* has the process been created?
          processo,  \* its stage and decision
          ultimo     \* the latest history row: from where, to where

quadro == <<existe, processo, ultimo>>

Etapas     == 1..6
Aprovacoes == 0..2    \* none, Deferido, Indeferido
Deferido   == 1
Estados    == [etapa : Etapas, aprov : Aprovacoes]
Inicial    == [etapa |-> 1, aprov |-> 0]
SemLinha   == [de |-> Inicial, para |-> Inicial]

\* mutant: the terminal stage is forgotten
ValidaSemTerminal(atual, alvo) ==
  /\ alvo.etapa = 6 => alvo.aprov # 0
  /\ alvo.etapa \in {3, 6} \/ alvo.etapa - atual.etapa \in {-1, 0, 1}

\* validarTransicao: stage 6 is final, is reached from anywhere with a decision,
\* Conciliacao (3) is reached from anywhere, all else goes to a neighbour
Valida(atual, alvo) ==
  /\ atual.etapa = 6 => alvo.etapa = 6
  /\ alvo.etapa = 6 => alvo.aprov # 0
  /\ alvo.etapa \in {3, 6} \/ alvo.etapa - atual.etapa \in {-1, 0, 1}

\* Conciliacao freezes the decision
Congela(p) == IF p.etapa = 3 THEN [p EXCEPT !.aprov = Deferido] ELSE p

Init == ~existe /\ processo = Inicial /\ ultimo = SemLinha

Criar == /\ ~existe /\ existe'
         /\ UNCHANGED <<processo, ultimo>>

Mover == /\ existe
         /\ \E p \in Estados :
              /\ Valida(processo, p) /\ p = Congela(p)
              /\ processo' = p
              /\ ultimo' = [de |-> processo, para |-> p]
         /\ UNCHANGED existe

Next == Criar \/ Mover
Spec == Init /\ [][Next]_quadro
=============================================================================
