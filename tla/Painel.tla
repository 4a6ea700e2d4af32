------------------------------- MODULE Painel -------------------------------
(* The panels that are calculated behind the page: Energia, Acer and the     *)
(* findings of Acer keep their result in memory, a request that finds it old *)
(* starts a calculation, and a selection of rules that is saved meanwhile    *)
(* makes its result worthless. One set of rules and one backend; a finding,  *)
(* one rule on one invoice, stays rejected once it is. Each look at a panel  *)
(* is under its mutex and so one step.                                       *)
EXTENDS Integers, Sequences

CONSTANTS Paineis,     \* the panels of the set of rules, as limparCacheRegras clears them
          ComRejeicao, \* those that leave rejected findings out
          Apontamentos, \* findings that somebody may reject
          MaxSelecoes, MaxErros   \* bounds: selections saved, reads that fail

VARIABLES
  selecao,     \* version of the selection in DM_REGRAS_CONJUNTO
  salvando,    \* requests that committed one: its version, the next panel to clear
  rejeitados,  \* findings rejected in FATURA_REANALISES
  rejeitando,  \* of these, the ones not yet taken out of the panels
  painel,      \* the result in memory: selection used, findings taken out, all read?
  geracao,     \* counts the times each panel was cleared
  calculo,     \* the calculation of each panel: one at a time
  errosLeitura,
  valendo,     \* history: the newest selection whose request was answered
  tirados      \* history: findings no calculation under way can bring back

painelVars == <<selecao, salvando, rejeitados, rejeitando, painel, geracao, calculo,
                errosLeitura, valendo, tirados>>

Telas   == {Paineis[k] : k \in DOMAIN Paineis}
ASSUME PainelOK ==
  /\ Paineis \in Seq(STRING) /\ Paineis # <<>>
  /\ \A j, k \in DOMAIN Paineis : Paineis[j] = Paineis[k] => j = k
  /\ ComRejeicao \subseteq Telas /\ MaxSelecoes \in Nat /\ MaxErros \in Nat

SemResultado == [cheio |-> FALSE, sel |-> 0, sem |-> {}, lido |-> FALSE]
SemCalculo   == [fase |-> "parado", ger |-> 0, sel |-> 0, sem |-> {}, lido |-> TRUE]

PainelInit ==
  /\ selecao = 0 /\ salvando = {} /\ valendo = 0
  /\ rejeitados = {} /\ rejeitando = {} /\ tirados = [p \in Telas |-> {}]
  /\ painel = [p \in Telas |-> SemResultado] /\ geracao = [p \in Telas |-> 0]
  /\ calculo = [p \in Telas |-> SemCalculo] /\ errosLeitura = 0
-----------------------------------------------------------------------------
(* A request of the panel. It is old when empty, on demand, or after its two  *)
(* hours, which may be over at any request: the time is not kept             *)

Pedir(p, renova) ==
  /\ calculo[p].fase = "parado"
  /\ calculo' = [calculo EXCEPT ![p] = [SemCalculo EXCEPT !.fase = "selecao", !.ger = geracao[p]]]
  /\ painel' = IF renova THEN [painel EXCEPT ![p] = SemResultado] ELSE painel
  /\ UNCHANGED <<selecao, salvando, rejeitados, rejeitando, geracao, errosLeitura, valendo, tirados>>

\* a read that fails is not an error of the calculation: the selection becomes
\* the default one and the rejections are skipped
Leu(ok) == ok \/ errosLeitura < MaxErros
Anota(ok) == errosLeitura' = IF ok THEN errosLeitura ELSE errosLeitura + 1

\* selecaoRegras
CalculoLeSelecao(p, ok) ==
  /\ calculo[p].fase = "selecao" /\ Leu(ok) /\ Anota(ok)
  /\ calculo' = [calculo EXCEPT ![p].fase = IF p \in ComRejeicao THEN "rejeicoes" ELSE "pronto",
                                ![p].sel = IF ok THEN selecao ELSE 0, ![p].lido = ok]
  /\ UNCHANGED <<selecao, salvando, rejeitados, rejeitando, painel, geracao, valendo, tirados>>
\* CarregarRejeicoes, after the engine and the rules
CalculoLeRejeicoes(p, ok) ==
  /\ calculo[p].fase = "rejeicoes" /\ Leu(ok) /\ Anota(ok)
  /\ calculo' = [calculo EXCEPT ![p].fase = "pronto", ![p].sem = IF ok THEN rejeitados ELSE {},
                                ![p].lido = @ /\ ok]
  /\ UNCHANGED <<selecao, salvando, rejeitados, rejeitando, painel, geracao, valendo, tirados>>

Resultado(p) == [cheio |-> TRUE, sel |-> calculo[p].sel, sem |-> calculo[p].sem, lido |-> calculo[p].lido]
Encerra(p) == calculo' = [calculo EXCEPT ![p] = SemCalculo]
\* mutant: whatever was calculated is kept
GuardaSempre(p) ==
  /\ calculo[p].fase = "pronto" /\ Encerra(p)
  /\ painel' = [painel EXCEPT ![p] = Resultado(p)]
  /\ UNCHANGED <<selecao, salvando, rejeitados, rejeitando, geracao, errosLeitura, valendo, tirados>>
\* the result is kept unless the panel was cleared meanwhile
CalculoGuarda(p) ==
  /\ calculo[p].fase = "pronto" /\ Encerra(p)
  /\ painel' = IF calculo[p].ger = geracao[p] THEN [painel EXCEPT ![p] = Resultado(p)] ELSE painel
  /\ UNCHANGED <<selecao, salvando, rejeitados, rejeitando, geracao, errosLeitura, valendo, tirados>>
\* an error of the calculation leaves what was there
CalculoFalha(p) ==
  /\ calculo[p].fase \in {"rejeicoes", "pronto"} /\ Leu(FALSE) /\ Anota(FALSE)
  /\ Encerra(p)
  /\ UNCHANGED <<selecao, salvando, rejeitados, rejeitando, painel, geracao, valendo, tirados>>
-----------------------------------------------------------------------------
(* SalvarRegrasConjunto: commit, then clear one panel after the other        *)

SalvarRegras ==
  /\ selecao < MaxSelecoes /\ selecao' = selecao + 1
  /\ salvando' = salvando \cup {[versao |-> selecao + 1, passo |-> 1]}
  /\ UNCHANGED <<rejeitados, rejeitando, painel, geracao, calculo, errosLeitura, valendo, tirados>>

LimparCache(x) ==
  LET p == Paineis[x.passo] IN
  /\ painel' = [painel EXCEPT ![p] = SemResultado]
  /\ geracao' = [geracao EXCEPT ![p] = @ + 1]
  /\ IF x.passo = Len(Paineis)
     THEN salvando' = salvando \ {x} /\ valendo' = IF x.versao > valendo THEN x.versao ELSE valendo
     ELSE salvando' = (salvando \ {x}) \cup {[x EXCEPT !.passo = @ + 1]} /\ UNCHANGED valendo
  /\ UNCHANGED <<selecao, rejeitados, rejeitando, calculo, errosLeitura, tirados>>

(* RejeitarApontamento: INSERT, then take the finding out of the result      *)

RejeitarGrava(f) ==
  /\ rejeitados' = rejeitados \cup {f} /\ rejeitando' = rejeitando \cup {f}
  /\ UNCHANGED <<selecao, salvando, painel, geracao, calculo, errosLeitura, valendo, tirados>>

\* a calculation that has read the rejections without this one will bring it back
Escapa(p, f) == calculo[p].fase = "pronto" /\ f \notin calculo[p].sem
SoQuemTem(f) == [p \in Telas |-> IF p \in ComRejeicao /\ painel[p].cheio
                                 THEN [painel[p] EXCEPT !.sem = @ \cup {f}] ELSE painel[p]]
AplicarRejeicao(f) ==
  /\ f \in rejeitando /\ rejeitando' = rejeitando \ {f}
  /\ painel' = SoQuemTem(f)
  /\ tirados' = [p \in Telas |-> IF p \in ComRejeicao /\ ~Escapa(p, f) THEN tirados[p] \cup {f} ELSE tirados[p]]
  /\ UNCHANGED <<selecao, salvando, rejeitados, geracao, calculo, errosLeitura, valendo>>
-----------------------------------------------------------------------------
PassoDoCalculo(p) ==
  \/ \E ok \in BOOLEAN : CalculoLeSelecao(p, ok) \/ CalculoLeRejeicoes(p, ok)
  \/ CalculoGuarda(p) \/ CalculoFalha(p)
PainelNext ==
  \/ \E p \in Telas : (\E renova \in BOOLEAN : Pedir(p, renova)) \/ PassoDoCalculo(p)
  \/ SalvarRegras \/ (\E x \in salvando : LimparCache(x))
  \/ \E f \in Apontamentos : RejeitarGrava(f) \/ AplicarRejeicao(f)
PainelSpec == PainelInit /\ [][PainelNext]_painelVars
-----------------------------------------------------------------------------
(* "selecao salva: a proxima leitura recalcula" and "selecao mudou no meio"   *)
(* (acer_regras.go:391-396, 496-509): once SalvarRegrasConjunto has answered, *)
(* no panel shows the result of an older selection, however calculations,    *)
(* savings and clearings cross; what escapes is a selection that could not be *)
(* read. A finding once taken out of the panel stays out, unless a           *)
(* calculation under way had already read the rejections without it          *)
(* (energia_regras.go:763-769).                                              *)
PainelEmDia ==
  \A p \in Telas : painel[p].cheio /\ painel[p].lido =>
    /\ painel[p].sel >= valendo
    /\ p \in ComRejeicao => tirados[p] \subseteq painel[p].sem
=============================================================================
