------------------------------- MODULE Vigencias -------------------------------
(* The percentages of a company by period: a new period closes the open one  *)
(* and opens itself in one transaction; the value of a date is looked up     *)
(* among the active periods. One company, days as numbers, under the row and *)
(* gap locks of InnoDB.                                                      *)
EXTENDS Integers, Sequences, FiniteSets

CONSTANTS Gravadores,            \* requests under way
          Dias, Percentuais,
          SemFim,                \* last day of an open period: NULL in the table
          MaxVigencias, MaxCorrecoes   \* bounds

VARIABLES
  vigencias,   \* rows: first day, last day (SemFim when open), percent, ativo
  transacao,   \* each CriarVigenciaEmpresa: between its UPDATE and its INSERT
  travadas,    \* rows (and the gap after them, 0) each transaction holds
  correcoesVig

vigVars == <<vigencias, transacao, travadas, correcoesVig>>

ASSUME VigenciasOK == SemFim \in Nat /\ Dias \subseteq 1..(SemFim - 1) /\ MaxVigencias \in Nat /\ MaxCorrecoes \in Nat

SemTransacao == [fase |-> "parada", dia |-> 0, pct |-> 0, fecha |-> {}]
VigInit ==
  /\ vigencias = <<>>
  /\ transacao = [g \in Gravadores |-> SemTransacao]
  /\ travadas = [g \in Gravadores |-> {}]
  /\ correcoesVig = 0

\* a row lock excludes; gap locks do not, but an insert waits for the others' gaps
SemTrava(g, R) == \A h \in Gravadores \ {g} : travadas[h] \cap R = {}
Lacuna == 0
Periodos == DOMAIN vigencias

EmAberto == {k \in Periodos : vigencias[k].ativo /\ vigencias[k].fim = SemFim}
Periodo(i, f, p, a) == [ini |-> i, fim |-> f, pct |-> p, ativo |-> a]
AteODia(v, d) == Periodo(v.ini, d, v.pct, v.ativo)
\* the UPDATE: last day = the day before
\* mutant: the old period loses one day more
FechaAntes(S, dia) == [k \in Periodos |-> IF k \in S THEN AteODia(vigencias[k], dia - 2) ELSE vigencias[k]]
Fecha(S, dia) == [k \in Periodos |-> IF k \in S THEN AteODia(vigencias[k], dia - 1) ELSE vigencias[k]]

\* mutant: each statement commits by itself
CriarFechaSemTx(g) ==
  /\ transacao[g].fase = "parada" /\ Len(vigencias) < MaxVigencias
  /\ SemTrava(g, Periodos)
  /\ \E d \in Dias, p \in Percentuais :
       transacao' = [transacao EXCEPT ![g] = [fase |-> "insere", dia |-> d, pct |-> p, fecha |-> EmAberto]]
  /\ UNCHANGED <<vigencias, travadas, correcoesVig>>
CriarFecha(g) ==
  /\ transacao[g].fase = "parada" /\ Len(vigencias) < MaxVigencias
  /\ SemTrava(g, Periodos)
  /\ \E d \in Dias, p \in Percentuais :
       transacao' = [transacao EXCEPT ![g] = [fase |-> "insere", dia |-> d, pct |-> p, fecha |-> EmAberto]]
  /\ travadas' = [travadas EXCEPT ![g] = Periodos \cup {Lacuna}]
  /\ UNCHANGED <<vigencias, correcoesVig>>

\* INSERT and commit: what the UPDATE closed becomes visible with it
Nova(g) == Periodo(transacao[g].dia, SemFim, transacao[g].pct, TRUE)
Solto(g) == /\ transacao' = [transacao EXCEPT ![g] = SemTransacao]
            /\ travadas' = [travadas EXCEPT ![g] = {}]
CriarInsere(g) ==
  /\ transacao[g].fase = "insere" /\ SemTrava(g, {Lacuna})
  /\ vigencias' = Append(Fecha(transacao[g].fecha, transacao[g].dia), Nova(g))
  /\ Solto(g)
  /\ UNCHANGED correcoesVig
\* an error, a client that left, or the victim of a deadlock: Rollback
CriarDesfaz(g) ==
  /\ transacao[g].fase = "insere"
  /\ Solto(g)
  /\ UNCHANGED <<vigencias, correcoesVig>>

Corrige == correcoesVig < MaxCorrecoes /\ correcoesVig' = correcoesVig + 1
\* AtualizarVigencia corrects percent and first day of any row
AtualizarVigencia(g) ==
  /\ Corrige
  /\ \E k \in Periodos, d \in Dias, p \in Percentuais :
       /\ SemTrava(g, {k}) /\ k \notin travadas[g]
       /\ vigencias' = [vigencias EXCEPT ![k] = Periodo(d, @.fim, p, @.ativo)]
  /\ UNCHANGED <<transacao, travadas>>
DesativarVigencia(g) ==
  /\ Corrige
  /\ \E k \in Periodos :
       /\ SemTrava(g, {k}) /\ k \notin travadas[g] /\ vigencias[k].ativo
       /\ vigencias' = [vigencias EXCEPT ![k] = Periodo(@.ini, @.fim, @.pct, FALSE)]
  /\ UNCHANGED <<transacao, travadas>>

VigNext == \E g \in Gravadores : CriarFecha(g) \/ CriarInsere(g) \/ CriarDesfaz(g)
                                \/ AtualizarVigencia(g) \/ DesativarVigencia(g)
VigSpec == VigInit /\ [][VigNext]_vigVars
-----------------------------------------------------------------------------
\* recomputeRepasse and autoPersistRepasse: the active period of the day with
\* the latest first day; none is no percentage
Cobre(v, d) == {k \in DOMAIN v : v[k].ativo /\ v[k].ini <= d /\ d <= v[k].fim}
Percentual(v, d) == {v[k].pct : k \in {j \in Cobre(v, d) : \A i \in Cobre(v, d) : v[i].ini <= v[j].ini}}

(* A company has at most one open active period, which is what the list of   *)
(* present percentages counts on: one row per company                        *)
(* (empresa_percentual.go:29, 220-245).                                      *)
UmaAberta == Cardinality(EmAberto) <= 1

(* A new period changes no percentage of a day before its first one, however *)
(* many retroactive ones and corrections came before                         *)
(* (empresa_percentual.go:220-245, writes.go:222-230).                       *)
MudancaSoParaFrente ==
  [][\A d \in Dias : (Len(vigencias') > Len(vigencias) /\ d < vigencias'[Len(vigencias')].ini)
                      => Percentual(vigencias', d) = Percentual(vigencias, d)]_vigVars
=============================================================================
