------------------------------- MODULE PortaoIA -------------------------------
(* The gate in front of the language model: a channel with OPENAI_MAX_       *)
(* CONCURRENCY places, created by the first request without a lock. Who      *)
(* finds it nil makes a channel of its own, and a release takes a token from *)
(* whatever channel is the current one.                                      *)
EXTENDS Integers, Sequences, FiniteSets

CONSTANTS Chamadas,  \* requests to the model
          Lugares    \* places of a channel

VARIABLES
  chamada,   \* where each request is
  canalDe,   \* the channel its select is on
  atual,     \* openAISlots: 0 is nil, the others are places of canais
  canais     \* tokens in each channel made so far

iaVars == <<chamada, canalDe, atual, canais>>

ASSUME PortaoOK == Lugares \in Nat \ {0} /\ IsFiniteSet(Chamadas)

PortaoInit ==
  /\ chamada = [p \in Chamadas |-> "fora"]
  /\ canalDe = [p \in Chamadas |-> 0]
  /\ atual = 0
  /\ canais = <<>>

\* acquireSlot: the check for nil, the assignment and the read in the select
\* are three accesses to a variable nobody guards
OlhaNil(p) ==
  /\ chamada[p] = "fora"
  /\ chamada' = [chamada EXCEPT ![p] = IF atual = 0 THEN "cria" ELSE "escolhe"]
  /\ UNCHANGED <<canalDe, atual, canais>>
CriaCanal(p) ==
  /\ chamada[p] = "cria"
  /\ canais' = Append(canais, 0) /\ atual' = Len(canais) + 1
  /\ chamada' = [chamada EXCEPT ![p] = "escolhe"]
  /\ UNCHANGED canalDe
EscolheCanal(p) ==
  /\ chamada[p] = "escolhe"
  /\ canalDe' = [canalDe EXCEPT ![p] = atual]
  /\ chamada' = [chamada EXCEPT ![p] = "espera"]
  /\ UNCHANGED <<atual, canais>>
Entra(p) ==
  /\ chamada[p] = "espera" /\ canais[canalDe[p]] < Lugares
  /\ canais' = [canais EXCEPT ![canalDe[p]] = @ + 1]
  /\ chamada' = [chamada EXCEPT ![p] = "voando"]
  /\ UNCHANGED <<canalDe, atual>>
\* ctx.Done(): 429, and no release
DesisteIA(p) ==
  /\ chamada[p] = "espera"
  /\ chamada' = [chamada EXCEPT ![p] = "fim"]
  /\ UNCHANGED <<canalDe, atual, canais>>

\* defer releaseSlot: every way out of the handler passes here
\* mutant: an error of the model leaves without the release
DevolveSeDeuCerto == canais' \in {canais, [canais EXCEPT ![atual] = IF @ > 0 THEN @ - 1 ELSE 0]}
Devolve == canais' = [canais EXCEPT ![atual] = IF @ > 0 THEN @ - 1 ELSE 0]
Sai(p) ==
  /\ chamada[p] = "voando"
  /\ Devolve
  /\ chamada' = [chamada EXCEPT ![p] = "fim"]
  /\ UNCHANGED <<canalDe, atual>>

PortaoNext ==
  \E p \in Chamadas : OlhaNil(p) \/ CriaCanal(p) \/ EscolheCanal(p) \/ Entra(p) \/ DesisteIA(p) \/ Sai(p)

PortaoSpec == PortaoInit /\ [][PortaoNext]_iaVars
-----------------------------------------------------------------------------
EmVoo == {p \in Chamadas : chamada[p] = "voando"}

(* However the first requests race for the channel, no place is lost (a      *)
(* token of the current channel always has a request in flight) and the      *)
(* requests in flight are at most the places of the channels that were made: *)
(* the limit is exact when there is one (ocr_handler.go:114-136).            *)
PortaoNoLimite ==
  /\ atual # 0 => canais[atual] <= Cardinality(EmVoo)
  /\ Cardinality(EmVoo) <= Lugares * Len(canais)
=============================================================================
