---------------------------- MODULE RotinasProofs ----------------------------
(* Rotinas for any number of schedulers, requests of the board, e-mails and  *)
(* processes, any length of the day, and any budget of acts and crashes.     *)
EXTENDS Rotinas, WellFoundedInduction, TLAPS

Pares  == Correios \X Alvos
Fases  == {"parado", "desativa", "lista", "fila", "lembrete", "emails", "vincula", "fim",
           "conclui"}
Agenda == [fase : Fases, fila : SUBSET Minutos, slot : Minutos, orfaos : SUBSET Correios,
           feitos : SUBSET Pares]
Mao    == [fase : {"livre", "dono", "admin"}, acao : Acoes, lido : Status]

RotTipo ==
  /\ rotina \in [status : Status, aprovada : Int] /\ donoAtivo \in BOOLEAN
  /\ minuto \in Minutos /\ rotina.aprovada <= minuto
  /\ execucao \in [Minutos -> [st : {"nao", "rodando", "ok", "desfeita"}, vinc : SUBSET Pares]]
  /\ correio \in [Correios -> Alvos \cup {SemAlvo}]
  /\ mao \in [Maos -> Mao]
  /\ agenda \in [Agendadores -> Agenda]
  /\ desfaz \in [fase : {"livre", "leu"}, slot : Minutos, vinc : SUBSET Pares]
  /\ vezes \in [Minutos -> Nat] /\ lembretes \in [Minutos -> Nat]
  /\ autorizada \in BOOLEAN
  /\ ultima \in [lista : Nat, ativa : Nat]
  /\ verba \in [tipo : {"recorrente", "unica"}, op : {"emails", "lembrete"}, atos : Nat,
                desfazer : Nat, quedas : Nat, caiu : BOOLEAN]

(* Who is about to execute a slot has its row, alone, and has not begun.     *)
NaMao(a)  == agenda[a].fase \in {"lembrete", "emails"}
RodadaInv ==
  /\ \A s \in Minutos :
       /\ vezes[s] <= 1
       /\ execucao[s].st = "nao" => vezes[s] = 0
  /\ \A a \in Agendadores : NaMao(a) =>
       execucao[agenda[a].slot].st # "nao" /\ vezes[agenda[a].slot] = 0
  /\ \A a, b \in Agendadores : NaMao(a) /\ NaMao(b) /\ agenda[a].slot = agenda[b].slot => a = b

(* Without an authorisation the routine is not active, no request that would *)
(* make it so is the owner's, and no scheduler has a slot of it.             *)
TemServico(a) == agenda[a].fila # {} \/ NaMao(a)
AutorInv ==
  /\ rotina.status = "nenhuma" =>
       /\ ~autorizada /\ \A m \in Maos : mao[m].fase = "livre"
       /\ \A a \in Agendadores : agenda[a].fase # "desativa"
  /\ rotina.status = "ativa" => autorizada
  /\ \A m \in Maos : mao[m].fase = "dono" => ~SoAdmin(mao[m].acao)
  /\ \A a \in Agendadores : TemServico(a) => autorizada
  /\ SoRodaAutorizada

(* Every slot since the routine is active and before the last list was taken *)
(* by then, and the last list is no older than the window.                   *)
Tomado(s) == execucao[s].st # "nao" \/ \E a \in Agendadores : s \in agenda[a].fila
JanelaInv ==
  /\ ultima.lista <= minuto /\ minuto - ultima.lista < Janela
  /\ ultima.ativa <= minuto /\ rotina.aprovada <= ultima.ativa
  /\ \A a \in Agendadores : agenda[a].fase \in {"parado", "desativa", "lista"} => agenda[a].fila = {}
  /\ verba.tipo = "recorrente" /\ rotina.status = "ativa" /\ ~verba.caiu =>
       \A s \in Horarios : ultima.ativa <= s /\ s < ultima.lista => Tomado(s)
-----------------------------------------------------------------------------
(* What each action of a scheduler does to what it has in hand               *)
OutrasAgendas(a) == agenda' \in [Agendadores -> Agenda]
                    /\ \A b \in Agendadores \ {a} : agenda'[b] = agenda[b]

LEMMA Bases ==
  /\ 0 \in Minutos /\ \A s \in Minutos : s \in Nat /\ s <= MaxMinuto
  /\ Parado \in Agenda /\ Parado.fase = "parado" /\ Parado.fila = {}
  /\ Solta \in Mao /\ Solta.fase = "livre"
  /\ NaoUsa \in [fase : {"livre", "leu"}, slot : Minutos, vinc : SUBSET Pares]
PROOF
<1>1. 0 \in Minutos /\ \A s \in Minutos : s \in Nat /\ s <= MaxMinuto
  BY RotinasOK DEF Minutos
<1> QED BY <1>1 DEF Parado, Agenda, Fases, Solta, Mao, Acoes, Status, NaoUsa

LEMMA GastaVerba ==
  ASSUME RotTipo, NEW q \in {"atos", "desfazer"}, Usa(q)
  PROVE  /\ verba' \in [tipo : {"recorrente", "unica"}, op : {"emails", "lembrete"}, atos : Nat,
                         desfazer : Nat, quedas : Nat, caiu : BOOLEAN]
         /\ verba'.tipo = verba.tipo /\ verba'.op = verba.op /\ verba'.caiu = verba.caiu
  BY DEF RotTipo, Usa

\* an agenda of one scheduler is replaced
LEMMA TrocaAgenda ==
  ASSUME RotTipo, NEW a \in Agendadores, NEW v \in Agenda, agenda' = [agenda EXCEPT ![a] = v]
  PROVE  OutrasAgendas(a) /\ agenda'[a] = v
  BY DEF RotTipo, OutrasAgendas

LEMMA MudaFase ==
  ASSUME RotTipo, NEW a \in Agendadores, NEW f \in Fases, Passa(a, f)
  PROVE  /\ OutrasAgendas(a) /\ agenda'[a].fase = f /\ agenda'[a].fila = agenda[a].fila
         /\ agenda'[a].slot = agenda[a].slot
PROOF
<1> DEFINE v == [agenda[a] EXCEPT !.fase = f]
<1>1. agenda[a] \in Agenda
  BY DEF RotTipo
<1>2. v \in Agenda /\ v.fase = f /\ v.fila = agenda[a].fila /\ v.slot = agenda[a].slot
  BY <1>1 DEF Agenda
<1>3. agenda' = [agenda EXCEPT ![a] = v]
  BY DEF Passa
<1> HIDE DEF v
<1> QED BY <1>2, <1>3, TrocaAgenda

LEMMA SlotsTipo == RotTipo => Slots \subseteq Minutos
PROOF
<1> SUFFICES ASSUME RotTipo PROVE Slots \subseteq Minutos
  OBVIOUS
<1>1. Devidas \subseteq Minutos
  BY RotinasOK DEF Devidas
<1>2. rotina.aprovada >= 0 => rotina.aprovada \in Minutos
  BY RotinasOK DEF RotTipo, Minutos
<1>3. minuto \in Minutos
  BY DEF RotTipo
<1> QED BY <1>1, <1>2, <1>3 DEF Slots

LEMMA EfeitoLista ==
  ASSUME RotTipo, NEW a \in Agendadores, AgendaLista(a)
  PROVE  /\ UNCHANGED <<rotina, donoAtivo, minuto, execucao, correio, mao, desfaz, feitos, verba>>
         /\ agenda[a].fase = "lista" /\ OutrasAgendas(a)
         /\ agenda'[a].fase = "fila" /\ agenda'[a].fila = Slots
         /\ ultima' \in [lista : Nat, ativa : Nat]
         /\ ultima'.lista = minuto /\ ultima'.ativa = ultima.ativa
PROOF
<1> DEFINE v == [Parado EXCEPT !.fase = "fila", !.fila = Slots]
<1>1. v \in Agenda /\ v.fase = "fila" /\ v.fila = Slots
  BY Bases, SlotsTipo DEF Agenda, Fases, Parado
<1>2. agenda' = [agenda EXCEPT ![a] = v] /\ agenda \in [Agendadores -> Agenda]
  BY DEF AgendaLista, RotTipo
<1> HIDE DEF v
<1>3. OutrasAgendas(a) /\ agenda'[a].fase = "fila" /\ agenda'[a].fila = Slots
  BY <1>1, <1>2 DEF OutrasAgendas
<1>4. /\ ultima' \in [lista : Nat, ativa : Nat]
      /\ ultima'.lista = minuto /\ ultima'.ativa = ultima.ativa
  BY Bases DEF AgendaLista, RotTipo
<1> QED BY <1>3, <1>4 DEF AgendaLista

LEMMA MaiorPertence ==
  ASSUME NEW S \in SUBSET Minutos, S # {}
  PROVE  (CHOOSE x \in S : \A y \in S : y <= x) \in S
PROOF
<1> DEFINE R == OpToRel(<, Nat)
           T == {MaxMinuto - x : x \in S}
<1>1. R = {p \in Nat \X Nat : p[1] < p[2]}
  BY Zenon DEF OpToRel
<1>2. IsWellFoundedOn(R, Nat)
  BY Zenon, NatLessThanWellFounded
<1>3. \A x \in S : x \in Nat /\ MaxMinuto - x \in Nat
  BY Bases, RotinasOK
<1>4. T \subseteq Nat /\ T # {}
  BY <1>3
<1> HIDE DEF R, T
<1>5. \E t \in T : \A u \in T : ~(<<u, t>> \in R)
  BY ONLY <1>2, <1>4, WFMin, Zenon
<1>6. PICK t \in T : \A u \in T : ~(<<u, t>> \in R)
  BY <1>5
<1>7. PICK x \in S : t = MaxMinuto - x
  BY <1>6 DEF T
<1>8. ASSUME NEW y \in S PROVE y <= x
  <2>1. MaxMinuto - y \in T /\ MaxMinuto - y \in Nat /\ t \in Nat
    BY <1>3, <1>4 DEF T
  <2>2. ~(MaxMinuto - y < t)
    BY <1>1, <1>6, <2>1
  <2> QED BY <1>3, <1>7, <2>2, RotinasOK
<1> QED BY <1>8

LEMMA EfeitoReserva ==
  ASSUME RotTipo, NEW a \in Agendadores, Reservar(a)
  PROVE  /\ UNCHANGED <<rotina, donoAtivo, minuto, correio, mao, desfaz, feitos, ultima, verba>>
         /\ agenda[a].fase = "fila" /\ agenda[a].fila # {} /\ OutrasAgendas(a)
         /\ \E s \in Minutos :
              /\ agenda'[a].fila = agenda[a].fila \ {s}
              /\ \/ /\ execucao[s].st = "nao" /\ execucao' = [execucao EXCEPT ![s].st = "rodando"]
                    /\ agenda'[a].fase = verba.op /\ agenda'[a].slot = s
                 \/ execucao[s].st # "nao" /\ UNCHANGED execucao /\ agenda'[a].fase = "fila"
PROOF
<1> DEFINE s == CHOOSE x \in agenda[a].fila : \A y \in agenda[a].fila : y <= x
<1>1. agenda[a] \in Agenda /\ agenda[a].fila \in SUBSET Minutos /\ agenda[a].fila # {}
  BY DEF RotTipo, Agenda, Reservar
<1>2. s \in agenda[a].fila /\ s \in Minutos
  BY <1>1, MaiorPertence
<1>3. IF execucao[s].st = "nao"
      THEN /\ execucao' = [execucao EXCEPT ![s].st = "rodando"]
           /\ agenda' = [agenda EXCEPT ![a].fase = verba.op, ![a].slot = s, ![a].fila = @ \ {s}]
      ELSE agenda' = [agenda EXCEPT ![a].fila = @ \ {s}] /\ UNCHANGED execucao
  BY DEF Reservar, Reserva
<1>4. verba.op \in Fases
  BY DEF RotTipo, Fases
<1>5. agenda[a].fase = "fila"
  BY DEF Reservar
<1> HIDE DEF s
<1> DEFINE v == [agenda[a] EXCEPT !.fase = verba.op, !.slot = s, !.fila = @ \ {s}]
           w == [agenda[a] EXCEPT !.fila = @ \ {s}]
<1>6. v \in Agenda /\ v.fase = verba.op /\ v.slot = s /\ v.fila = agenda[a].fila \ {s}
  BY <1>1, <1>2, <1>4 DEF Agenda
<1>7. w \in Agenda /\ w.fase = "fila" /\ w.fila = agenda[a].fila \ {s}
  BY <1>1, <1>2, <1>5 DEF Agenda
<1>8. CASE execucao[s].st = "nao"
  <2>1. agenda' = [agenda EXCEPT ![a] = v] /\ execucao' = [execucao EXCEPT ![s].st = "rodando"]
    BY <1>3, <1>8
  <2> HIDE DEF v, w
  <2>2. OutrasAgendas(a) /\ agenda'[a] = v
    BY <2>1, <1>6, TrocaAgenda
  <2> QED BY <1>2, <1>5, <1>6, <1>8, <2>1, <2>2 DEF Reservar
<1>9. CASE execucao[s].st # "nao"
  <2>1. agenda' = [agenda EXCEPT ![a] = w] /\ UNCHANGED execucao
    BY <1>3, <1>9
  <2> HIDE DEF v, w
  <2>2. OutrasAgendas(a) /\ agenda'[a] = w
    BY <2>1, <1>7, TrocaAgenda
  <2> QED BY <1>2, <1>5, <1>7, <1>9, <2>1, <2>2 DEF Reservar
<1> QED BY <1>8, <1>9

\* a slot begins: it is counted, once
LEMMA EfeitoExecuta ==
  ASSUME RotTipo, NEW a \in Agendadores, ExecutaLembrete(a) \/ ListaOrfaos(a)
  PROVE  /\ UNCHANGED <<rotina, donoAtivo, minuto, execucao, correio, mao, desfaz, autorizada,
                        ultima, verba>>
         /\ NaMao(a) /\ OutrasAgendas(a)
         /\ agenda'[a].fase \in {"fim", "vincula"} /\ agenda'[a].fila = agenda[a].fila
         /\ agenda[a].slot \in Minutos
         /\ vezes' = [vezes EXCEPT ![agenda[a].slot] = @ + 1]
         /\ vezes' \in [Minutos -> Nat] /\ lembretes' \in [Minutos -> Nat]
PROOF
<1>1. agenda[a] \in Agenda /\ agenda[a].slot \in Minutos
  BY DEF RotTipo, Agenda
<1>2. vezes \in [Minutos -> Nat] /\ lembretes \in [Minutos -> Nat]
  BY DEF RotTipo
<1>3. CASE ExecutaLembrete(a)
  <2>1. OutrasAgendas(a) /\ agenda'[a].fase = "fim" /\ agenda'[a].fila = agenda[a].fila
    BY <1>3, MudaFase DEF ExecutaLembrete, Fases
  <2>2. vezes' \in [Minutos -> Nat] /\ lembretes' \in [Minutos -> Nat]
    BY <1>1, <1>2, <1>3 DEF ExecutaLembrete
  <2> QED BY <1>1, <1>3, <2>1, <2>2 DEF ExecutaLembrete, NaMao
<1>4. CASE ListaOrfaos(a)
  <2> DEFINE o == {e \in Correios : correio[e] = SemAlvo}
             v == [agenda[a] EXCEPT !.fase = "vincula", !.orfaos = o]
  <2>1. v \in Agenda /\ v.fase = "vincula" /\ v.fila = agenda[a].fila
    <3> o \in SUBSET Correios
      OBVIOUS
    <3> HIDE DEF o
    <3> QED BY <1>1 DEF Agenda, Fases
  <2>2. agenda' = [agenda EXCEPT ![a] = v]
    BY <1>4 DEF ListaOrfaos
  <2> HIDE DEF v
  <2>3. OutrasAgendas(a) /\ agenda'[a] = v
    BY <2>1, <2>2, TrocaAgenda
  <2>4. vezes' \in [Minutos -> Nat]
    BY <1>1, <1>2, <1>4 DEF ListaOrfaos
  <2> QED BY <1>1, <1>2, <1>4, <2>1, <2>3, <2>4 DEF ListaOrfaos, NaMao
<1> QED BY <1>3, <1>4

\* an e-mail is looked at: it is linked only if it has no process
LEMMA EfeitoVincula ==
  ASSUME RotTipo, NEW a \in Agendadores, VinculaOrfao(a)
  PROVE  /\ UNCHANGED <<rotina, donoAtivo, minuto, execucao, mao, desfaz, feitos, ultima, verba>>
         /\ agenda[a].fase = "vincula" /\ OutrasAgendas(a)
         /\ agenda'[a].fase = "vincula" /\ agenda'[a].fila = agenda[a].fila
         /\ correio' \in [Correios -> Alvos \cup {SemAlvo}]
         /\ \A e \in Correios : correio[e] # SemAlvo => correio'[e] = correio[e]
PROOF
<1>1. agenda[a] \in Agenda /\ agenda[a].fase = "vincula"
  BY DEF RotTipo, VinculaOrfao
<1>2. PICK e \in agenda[a].orfaos :
         \/ /\ agenda' = [agenda EXCEPT ![a].orfaos = @ \ {e}]
            /\ UNCHANGED correio
         \/ \E p \in Alvos :
              /\ EscreveOrfao(e, p)
              /\ agenda' = [agenda EXCEPT ![a].orfaos = @ \ {e},
                    ![a].feitos = IF correio[e] = SemAlvo THEN @ \cup {<<e, p>>} ELSE @]
  BY DEF VinculaOrfao
<1>3. e \in Correios
  BY <1>1 DEF Agenda
<1>4. correio \in [Correios -> Alvos \cup {SemAlvo}]
  BY DEF RotTipo
<1>5. CASE agenda' = [agenda EXCEPT ![a].orfaos = @ \ {e}] /\ UNCHANGED correio
  <2> DEFINE v == [agenda[a] EXCEPT !.orfaos = @ \ {e}]
  <2>1. v \in Agenda /\ v.fase = "vincula" /\ v.fila = agenda[a].fila
    BY <1>1 DEF Agenda
  <2>2. agenda' = [agenda EXCEPT ![a] = v]
    BY <1>5
  <2> HIDE DEF v
  <2>3. OutrasAgendas(a) /\ agenda'[a] = v
    BY <2>1, <2>2, TrocaAgenda
  <2> QED BY <1>1, <1>4, <1>5, <2>1, <2>3 DEF VinculaOrfao
<1>6. ASSUME NEW p \in Alvos, EscreveOrfao(e, p),
             agenda' = [agenda EXCEPT ![a].orfaos = @ \ {e},
                    ![a].feitos = IF correio[e] = SemAlvo THEN @ \cup {<<e, p>>} ELSE @]
      PROVE  /\ OutrasAgendas(a) /\ agenda'[a].fase = "vincula" /\ agenda'[a].fila = agenda[a].fila
             /\ correio' \in [Correios -> Alvos \cup {SemAlvo}]
             /\ \A c \in Correios : correio[c] # SemAlvo => correio'[c] = correio[c]
  <2> DEFINE g == IF correio[e] = SemAlvo THEN agenda[a].feitos \cup {<<e, p>>} ELSE agenda[a].feitos
             v == [agenda[a] EXCEPT !.orfaos = @ \ {e}, !.feitos = g]
  <2>1. g \in SUBSET Pares
    BY <1>1, <1>3 DEF Agenda, Pares
  <2>2. agenda' = [agenda EXCEPT ![a] = v]
    BY <1>6
  <2> HIDE DEF g
  <2>3. v \in Agenda /\ v.fase = "vincula" /\ v.fila = agenda[a].fila
    BY <1>1, <2>1 DEF Agenda
  <2> HIDE DEF v
  <2>4. OutrasAgendas(a) /\ agenda'[a] = v
    BY <2>2, <2>3, TrocaAgenda
  <2>5. /\ correio' \in [Correios -> Alvos \cup {SemAlvo}]
        /\ \A c \in Correios : correio[c] # SemAlvo => correio'[c] = correio[c]
    BY <1>3, <1>4, <1>6 DEF EscreveOrfao
  <2> QED BY <2>3, <2>4, <2>5
<1>7. UNCHANGED <<rotina, donoAtivo, minuto, execucao, mao, desfaz, feitos, ultima, verba>>
  BY DEF VinculaOrfao
<1>8. /\ OutrasAgendas(a) /\ agenda'[a].fase = "vincula" /\ agenda'[a].fila = agenda[a].fila
      /\ correio' \in [Correios -> Alvos \cup {SemAlvo}]
      /\ \A c \in Correios : correio[c] # SemAlvo => correio'[c] = correio[c]
  BY <1>2, <1>5, <1>6
<1> QED BY <1>1, <1>7, <1>8

\* an execution ends: its row says so
LEMMA EfeitoTermina ==
  ASSUME RotTipo, NEW a \in Agendadores, ExecucaoTermina(a)
  PROVE  /\ UNCHANGED <<rotina, donoAtivo, minuto, correio, mao, desfaz, feitos, ultima, verba>>
         /\ agenda[a].fase \in {"fim", "vincula"} /\ OutrasAgendas(a)
         /\ agenda'[a].fase \in {"conclui", "fila"} /\ agenda'[a].fila = agenda[a].fila
         /\ \E s \in Minutos, r \in [st : {"ok"}, vinc : SUBSET Pares] :
              execucao' = [execucao EXCEPT ![s] = r]
PROOF
<1>1. agenda[a] \in Agenda
  BY DEF RotTipo
<1> DEFINE f == IF verba.tipo = "unica" THEN "conclui" ELSE "fila"
           v == [agenda[a] EXCEPT !.feitos = {}, !.slot = 0, !.fase = f]
<1>2. f \in {"conclui", "fila"} /\ agenda' = [agenda EXCEPT ![a] = v]
  BY DEF ExecucaoTermina
<1> HIDE DEF f
<1>3. v \in Agenda /\ v.fase = f /\ v.fila = agenda[a].fila
  BY <1>1, <1>2, Bases DEF Agenda, Fases
<1> HIDE DEF v
<1>4. OutrasAgendas(a) /\ agenda'[a] = v
  BY <1>2, <1>3, TrocaAgenda
<1>5. /\ agenda[a].slot \in Minutos
      /\ [st |-> "ok", vinc |-> agenda[a].feitos] \in [st : {"ok"}, vinc : SUBSET Pares]
  BY <1>1 DEF Agenda
<1>6. execucao' = [execucao EXCEPT ![agenda[a].slot] = [st |-> "ok", vinc |-> agenda[a].feitos]]
  BY DEF ExecucaoTermina
<1>7. UNCHANGED <<rotina, donoAtivo, minuto, correio, mao, desfaz, feitos, ultima, verba>>
  BY DEF ExecucaoTermina
<1>8. agenda[a].fase \in {"fim", "vincula"}
  BY DEF ExecucaoTermina
<1> QED BY <1>2, <1>3, <1>4, <1>5, <1>6, <1>7, <1>8

\* the rows of the executions, when one of them is rewritten
LEMMA TrocaExecucao ==
  ASSUME RotTipo, NEW s \in Minutos,
         NEW r \in [st : {"rodando", "ok", "desfeita"}, vinc : SUBSET Pares],
         execucao' = [execucao EXCEPT ![s] = r]
  PROVE  /\ execucao' \in [Minutos -> [st : {"nao", "rodando", "ok", "desfeita"}, vinc : SUBSET Pares]]
         /\ execucao'[s].st # "nao"
         /\ \A t \in Minutos : execucao'[t].st = "nao" => execucao[t].st = "nao"
PROOF
<1>1. execucao \in [Minutos -> [st : {"nao", "rodando", "ok", "desfeita"}, vinc : SUBSET Pares]]
  BY DEF RotTipo
<1>2. r \in [st : {"nao", "rodando", "ok", "desfeita"}, vinc : SUBSET Pares] /\ r.st # "nao"
  OBVIOUS
<1>3. execucao'[s] = r /\ \A t \in Minutos \ {s} : execucao'[t] = execucao[t]
  BY <1>1
<1> QED BY <1>1, <1>2, <1>3

\* its state alone is rewritten
LEMMA TrocaSt ==
  ASSUME RotTipo, NEW s \in Minutos, NEW x \in {"rodando", "desfeita"},
         execucao' = [execucao EXCEPT ![s].st = x]
  PROVE  /\ execucao' \in [Minutos -> [st : {"nao", "rodando", "ok", "desfeita"}, vinc : SUBSET Pares]]
         /\ execucao'[s].st # "nao"
         /\ \A t \in Minutos : execucao'[t].st = "nao" => execucao[t].st = "nao"
PROOF
<1> DEFINE r == [execucao[s] EXCEPT !.st = x]
<1>1. execucao[s] \in [st : {"nao", "rodando", "ok", "desfeita"}, vinc : SUBSET Pares]
  BY DEF RotTipo
<1>2. r \in [st : {"rodando", "ok", "desfeita"}, vinc : SUBSET Pares]
  BY <1>1
<1>3. execucao' = [execucao EXCEPT ![s] = r]
  OBVIOUS
<1> HIDE DEF r
<1> QED BY <1>2, <1>3, TrocaExecucao

\* the UPDATE of MudarStatus
LEMMA EfeitoAplica ==
  ASSUME RotTipo, NEW acao \in Acoes, Aplica(acao)
  PROVE  /\ rotina' \in [status : Status \ {"nenhuma"}, aprovada : Int]
         /\ ultima' \in [lista : Nat, ativa : Nat] /\ ultima'.lista = ultima.lista
         /\ rotina'.status = Novo(acao) /\ (rotina'.status = "ativa" => SoAdmin(acao))
         /\ \/ rotina'.aprovada \in {minuto, rotina.aprovada} /\ ultima'.ativa = minuto
            \/ /\ rotina'.status # "ativa" /\ ultima' = ultima
               /\ rotina'.aprovada = rotina.aprovada
PROOF
<1>1. minuto \in Nat /\ minuto \in Int
  BY Bases DEF RotTipo
<1>2. /\ Novo(acao) \in Status \ {"nenhuma"}
      /\ Novo(acao) = "ativa" <=> acao \in {"aprovar", "reativar"}
  BY DEF Acoes, Novo, Status
<1>3. /\ rotina' = [status |-> Novo(acao),
                    aprovada |-> IF acao = "aprovar" THEN minuto ELSE rotina.aprovada]
      /\ ultima' = IF Novo(acao) = "ativa" THEN [ultima EXCEPT !.ativa = minuto] ELSE ultima
  BY DEF Aplica
<1>4. rotina.aprovada \in Int /\ ultima \in [lista : Nat, ativa : Nat]
  BY DEF RotTipo
<1>5. /\ rotina' \in [status : Status \ {"nenhuma"}, aprovada : Int]
      /\ rotina'.status = Novo(acao)
      /\ rotina'.aprovada = IF acao = "aprovar" THEN minuto ELSE rotina.aprovada
  BY <1>1, <1>2, <1>3, <1>4
<1>6. CASE Novo(acao) = "ativa"
  <2>1. ultima' = [ultima EXCEPT !.ativa = minuto]
    BY <1>3, <1>6
  <2>2. /\ ultima' \in [lista : Nat, ativa : Nat] /\ ultima'.lista = ultima.lista
        /\ ultima'.ativa = minuto
    BY <1>1, <1>4, <2>1
  <2> QED BY <1>2, <1>5, <1>6, <2>2 DEF SoAdmin
<1>7. CASE Novo(acao) # "ativa"
  BY <1>2, <1>3, <1>4, <1>5, <1>7
<1> QED BY <1>6, <1>7

\* the owner of the routine has left: it is deactivated
LEMMA EfeitoDesativa ==
  ASSUME RotTipo, NEW a \in Agendadores, AgendaDesativa(a)
  PROVE  /\ UNCHANGED <<donoAtivo, minuto, execucao, correio, mao, desfaz, feitos, verba>>
         /\ agenda[a].fase = "desativa" /\ OutrasAgendas(a)
         /\ agenda'[a].fase = "lista" /\ agenda'[a].fila = agenda[a].fila
         /\ UNCHANGED <<rotina, ultima>> \/ Aplica("desativar")
  BY MudaFase DEF AgendaDesativa, Fases
-----------------------------------------------------------------------------
(* Type correctness                                                          *)

LEMMA TipoInicial == RotInit => RotTipo
PROOF
<1> SUFFICES ASSUME RotInit PROVE RotTipo
  OBVIOUS
<1>1. minuto = 0 /\ 0 \in Minutos /\ rotina = [status |-> "nenhuma", aprovada |-> -1]
  BY Bases DEF RotInit
<1>2. verba \in [tipo : {"recorrente", "unica"}, op : {"emails", "lembrete"}, atos : Nat,
                 desfazer : Nat, quedas : Nat, caiu : BOOLEAN]
  BY RotinasOK DEF RotInit
<1>3. /\ execucao \in [Minutos -> [st : {"nao", "rodando", "ok", "desfeita"}, vinc : SUBSET Pares]]
      /\ correio \in [Correios -> Alvos \cup {SemAlvo}]
      /\ vezes \in [Minutos -> Nat] /\ lembretes \in [Minutos -> Nat]
      /\ ultima \in [lista : Nat, ativa : Nat]
  BY DEF RotInit
<1>4. mao \in [Maos -> Mao] /\ agenda \in [Agendadores -> Agenda]
  BY Bases DEF RotInit
<1>5. rotina \in [status : Status, aprovada : Int] /\ rotina.aprovada <= minuto
  BY <1>1 DEF Status
<1>6. /\ minuto \in Minutos /\ donoAtivo \in BOOLEAN /\ autorizada \in BOOLEAN
      /\ desfaz \in [fase : {"livre", "leu"}, slot : Minutos, vinc : SUBSET Pares]
  BY Bases DEF RotInit
<1> QED BY <1>2, <1>3, <1>4, <1>5, <1>6 DEF RotTipo

LEMMA TipoAgenda ==
  ASSUME RotTipo, NEW a \in Agendadores, PassoDaAgenda(a) \/ AgendaCai(a)
  PROVE  RotTipo'
PROOF
<1>1. CASE AgendaComeca(a)
  <2> DEFINE f == IF ~donoAtivo /\ rotina.status \in {"ativa", "aguardando", "pausada"}
                  THEN "desativa" ELSE "lista"
  <2>1. f \in Fases /\ Passa(a, f)
    BY <1>1 DEF AgendaComeca, Fases
  <2> HIDE DEF f
  <2>2. OutrasAgendas(a)
    BY <2>1, MudaFase
  <2> QED BY <1>1, <2>2 DEF AgendaComeca, OutrasAgendas, RotTipo, feitos
<1>2. CASE AgendaDesativa(a)
  <2>1. UNCHANGED <<rotina, ultima>> => RotTipo'
    BY <1>2, EfeitoDesativa DEF OutrasAgendas, RotTipo, feitos
  <2>2. ASSUME Aplica("desativar") PROVE RotTipo'
    <3>1. "desativar" \in Acoes
      BY DEF Acoes
    <3>2. /\ rotina' \in [status : Status, aprovada : Int] /\ rotina'.aprovada \in {minuto, rotina.aprovada}
          /\ ultima' \in [lista : Nat, ativa : Nat]
      BY <2>2, <3>1, EfeitoAplica
    <3>3. minuto \in Nat /\ rotina.aprovada <= minuto
      BY Bases DEF RotTipo
    <3>4. rotina'.aprovada <= minuto
      BY <3>2, <3>3
    <3> QED BY <1>2, <3>2, <3>4, EfeitoDesativa DEF OutrasAgendas, RotTipo, feitos
  <2> QED BY <1>2, <2>1, <2>2, EfeitoDesativa
<1>3. CASE AgendaLista(a)
  BY <1>3, EfeitoLista DEF OutrasAgendas, RotTipo, feitos
<1>4. CASE Reservar(a)
  <2>1. PICK s \in Minutos :
          \/ execucao[s].st = "nao" /\ execucao' = [execucao EXCEPT ![s].st = "rodando"]
          \/ UNCHANGED execucao
    BY <1>4, EfeitoReserva
  <2>2. execucao' \in [Minutos -> [st : {"nao", "rodando", "ok", "desfeita"}, vinc : SUBSET Pares]]
    <3>1. CASE execucao' = [execucao EXCEPT ![s].st = "rodando"]
      BY <3>1, TrocaSt
    <3>2. CASE UNCHANGED execucao
      BY <3>2 DEF RotTipo
    <3> QED BY <2>1, <3>1, <3>2
  <2> QED BY <1>4, <2>2, EfeitoReserva DEF OutrasAgendas, RotTipo, feitos
<1>5. CASE ExecutaLembrete(a) \/ ListaOrfaos(a)
  BY <1>5, EfeitoExecuta DEF OutrasAgendas, RotTipo
<1>6. CASE VinculaOrfao(a)
  BY <1>6, EfeitoVincula DEF OutrasAgendas, RotTipo, feitos
<1>7. CASE ExecucaoTermina(a)
  <2>1. PICK s \in Minutos, r \in [st : {"ok"}, vinc : SUBSET Pares] :
          execucao' = [execucao EXCEPT ![s] = r]
    BY <1>7, EfeitoTermina
  <2>2. execucao' \in [Minutos -> [st : {"nao", "rodando", "ok", "desfeita"}, vinc : SUBSET Pares]]
    BY <2>1, TrocaExecucao
  <2> QED BY <1>7, <2>2, EfeitoTermina DEF OutrasAgendas, RotTipo, feitos
<1>8. CASE ConcluiUnica(a)
  <2>1. OutrasAgendas(a)
    BY <1>8, MudaFase DEF ConcluiUnica, Fases
  <2>2. rotina' \in [status : Status, aprovada : Int] /\ rotina'.aprovada = rotina.aprovada
    BY <1>8 DEF ConcluiUnica, RotTipo, Status
  <2> QED BY <1>8, <2>1, <2>2 DEF ConcluiUnica, OutrasAgendas, RotTipo, feitos
<1>9. CASE AgendaTermina(a)
  BY <1>9, Bases, TrocaAgenda DEF AgendaTermina, OutrasAgendas, RotTipo, feitos
<1>10. CASE AgendaCai(a)
  <2>1. OutrasAgendas(a)
    BY <1>10, Bases, TrocaAgenda DEF AgendaCai
  <2>2. verba' \in [tipo : {"recorrente", "unica"}, op : {"emails", "lembrete"}, atos : Nat,
                    desfazer : Nat, quedas : Nat, caiu : BOOLEAN]
    <3>1. verba \in [tipo : {"recorrente", "unica"}, op : {"emails", "lembrete"}, atos : Nat,
                     desfazer : Nat, quedas : Nat, caiu : BOOLEAN]
      BY DEF RotTipo
    <3>2. /\ verba.quedas - 1 \in Nat
          /\ verba' = [verba EXCEPT !.quedas = verba.quedas - 1, !.caiu = TRUE]
      BY <1>10, <3>1 DEF AgendaCai
    <3> DEFINE k == verba.quedas - 1
    <3>3. k \in Nat /\ verba' = [verba EXCEPT !.quedas = k, !.caiu = TRUE]
      BY <3>2
    <3> HIDE DEF k
    <3> QED BY <3>1, <3>3
  <2> QED BY <1>10, <2>1, <2>2 DEF AgendaCai, OutrasAgendas, RotTipo, feitos
<1> QED BY <1>1, <1>2, <1>3, <1>4, <1>5, <1>6, <1>7, <1>8, <1>9, <1>10 DEF PassoDaAgenda

LEMMA TipoPedido ==
  ASSUME RotTipo, NEW m \in Maos, NEW acao \in Acoes, NEW admin \in BOOLEAN,
         AcaoLe(m, acao, admin) \/ AcaoGrava(m)
  PROVE  RotTipo'
PROOF
<1>1. CASE AcaoLe(m, acao, admin)
  <2> DEFINE v == [fase |-> IF admin THEN "admin" ELSE "dono", acao |-> acao, lido |-> rotina.status]
  <2>1. v \in Mao
    BY DEF Mao, RotTipo
  <2>2. mao' = [mao EXCEPT ![m] = v]
    BY <1>1 DEF AcaoLe
  <2> HIDE DEF v
  <2>3. mao' \in [Maos -> Mao]
    BY <2>1, <2>2 DEF RotTipo
  <2>4. verba' \in [tipo : {"recorrente", "unica"}, op : {"emails", "lembrete"}, atos : Nat,
                    desfazer : Nat, quedas : Nat, caiu : BOOLEAN]
    BY <1>1, GastaVerba DEF AcaoLe
  <2> QED BY <1>1, <2>3, <2>4 DEF AcaoLe, RotTipo, feitos
<1>2. CASE AcaoGrava(m)
  <2>1. mao[m].acao \in Acoes /\ Aplica(mao[m].acao)
    BY <1>2 DEF AcaoGrava, RotTipo, Mao
  <2>2. /\ rotina' \in [status : Status, aprovada : Int] /\ rotina'.aprovada \in {minuto, rotina.aprovada}
        /\ ultima' \in [lista : Nat, ativa : Nat]
    BY <2>1, EfeitoAplica
  <2>3. minuto \in Nat /\ rotina.aprovada <= minuto
    BY Bases DEF RotTipo
  <2>4. rotina'.aprovada <= minuto
    BY <2>2, <2>3
  <2>5. mao' \in [Maos -> Mao]
    BY <1>2, Bases DEF AcaoGrava, RotTipo
  <2>6. autorizada' \in BOOLEAN
    BY <1>2 DEF AcaoGrava
  <2> QED BY <1>2, <2>2, <2>4, <2>5, <2>6 DEF AcaoGrava, RotTipo
<1> QED BY <1>1, <1>2

LEMMA TipoPasso == RotTipo /\ [RotNext]_rotVars => RotTipo'
PROOF
<1> SUFFICES ASSUME RotTipo, [RotNext]_rotVars PROVE RotTipo'
  OBVIOUS
<1>1. ASSUME NEW admin \in BOOLEAN, Criar(admin) PROVE RotTipo'
  <2>1. minuto \in Nat /\ rotina.aprovada <= minuto
    BY Bases DEF RotTipo
  <2>2. rotina' \in [status : Status, aprovada : Int] /\ rotina'.aprovada <= minuto
    BY <1>1, <2>1 DEF Criar, RotTipo, Status
  <2>3. ultima' \in [lista : Nat, ativa : Nat]
    BY <1>1, <2>1 DEF Criar, RotTipo
  <2> QED BY <1>1, <2>2, <2>3 DEF Criar, RotTipo
<1>2. ASSUME NEW m \in Maos, AcaoGrava(m) PROVE RotTipo'
  BY <1>2, TipoPedido DEF Acoes
<1>3. ASSUME NEW m \in Maos, NEW acao \in Acoes, NEW admin \in BOOLEAN, AcaoLe(m, acao, admin)
      PROVE  RotTipo'
  BY <1>3, TipoPedido
<1>4. CASE DonoMuda
  BY <1>4, GastaVerba DEF DonoMuda, RotTipo, feitos
<1>5. CASE Minuto
  <2>1. minuto' \in Minutos /\ rotina.aprovada <= minuto'
    BY <1>5, RotinasOK DEF Minuto, Minutos, RotTipo
  <2> QED BY <1>5, <2>1 DEF Minuto, RotTipo, feitos
<1>6. ASSUME NEW a \in Agendadores, PassoDaAgenda(a) \/ AgendaCai(a) PROVE RotTipo'
  BY <1>6, TipoAgenda
<1>7. ASSUME NEW s \in Minutos, DesfazerLe(s) PROVE RotTipo'
  <2>1. desfaz' \in [fase : {"livre", "leu"}, slot : Minutos, vinc : SUBSET Pares]
    BY <1>7 DEF DesfazerLe, RotTipo
  <2>2. verba' \in [tipo : {"recorrente", "unica"}, op : {"emails", "lembrete"}, atos : Nat,
                    desfazer : Nat, quedas : Nat, caiu : BOOLEAN]
    BY <1>7, GastaVerba DEF DesfazerLe
  <2> QED BY <1>7, <2>1, <2>2 DEF DesfazerLe, RotTipo, feitos
<1>8. CASE DesfazerUm
  <2>1. PICK v \in desfaz.vinc :
          /\ correio' = IF correio[v[1]] = v[2] THEN [correio EXCEPT ![v[1]] = SemAlvo] ELSE correio
          /\ desfaz' = [desfaz EXCEPT !.vinc = @ \ {v}]
    BY <1>8 DEF DesfazerUm
  <2>2. correio' \in [Correios -> Alvos \cup {SemAlvo}]
    BY <2>1 DEF RotTipo
  <2>3. desfaz' \in [fase : {"livre", "leu"}, slot : Minutos, vinc : SUBSET Pares]
    BY <2>1 DEF RotTipo
  <2> QED BY <1>8, <2>2, <2>3 DEF DesfazerUm, RotTipo, feitos
<1>9. CASE DesfazerMarca
  <2>1. desfaz.slot \in Minutos /\ execucao' = [execucao EXCEPT ![desfaz.slot].st = "desfeita"]
    BY <1>9 DEF DesfazerMarca, RotTipo
  <2>2. execucao' \in [Minutos -> [st : {"nao", "rodando", "ok", "desfeita"}, vinc : SUBSET Pares]]
    BY <2>1, TrocaSt
  <2> QED BY <1>9, <2>2, Bases DEF DesfazerMarca, RotTipo, feitos
<1>10. ASSUME NEW e \in Correios, NEW p \in Alvos, Vincula(e, p) PROVE RotTipo'
  <2>1. correio' \in [Correios -> Alvos \cup {SemAlvo}]
    BY <1>10 DEF Vincula, RotTipo
  <2>2. verba' \in [tipo : {"recorrente", "unica"}, op : {"emails", "lembrete"}, atos : Nat,
                    desfazer : Nat, quedas : Nat, caiu : BOOLEAN]
    BY <1>10, GastaVerba DEF Vincula
  <2> QED BY <1>10, <2>1, <2>2 DEF Vincula, RotTipo, feitos
<1>11. CASE UNCHANGED rotVars
  BY <1>11 DEF rotVars, RotTipo
<1> QED BY <1>1, <1>2, <1>3, <1>4, <1>5, <1>6, <1>7, <1>8, <1>9, <1>10, <1>11 DEF RotNext

(* The state keeps its shape; a routine is never approved in the future.     *)
THEOREM RotBemFormada == RotSpec => []RotTipo
  BY TipoInicial, TipoPasso, PTL DEF RotSpec
-----------------------------------------------------------------------------
(* Who has a slot in hand                                                    *)

LEMMA RodadaInicial == RotInit => RodadaInv
  BY DEF RotInit, RodadaInv, Parado, NaMao

\* nobody new has a slot, and no row of a slot goes
LEMMA RodadaMantem ==
  ASSUME RotTipo, RodadaInv, UNCHANGED vezes,
         \A s \in Minutos : execucao'[s].st = "nao" => execucao[s].st = "nao",
         \A a \in Agendadores : NaMao(a)' => NaMao(a) /\ agenda'[a].slot = agenda[a].slot
  PROVE  RodadaInv'
PROOF
<1>1. /\ \A s \in Minutos : vezes'[s] <= 1 /\ (execucao'[s].st = "nao" => vezes'[s] = 0)
  BY DEF RodadaInv
<1>2. ASSUME NEW a \in Agendadores, NaMao(a)'
      PROVE  execucao'[agenda'[a].slot].st # "nao" /\ vezes'[agenda'[a].slot] = 0
  BY <1>2 DEF RodadaInv, RotTipo, Agenda
<1>3. ASSUME NEW a \in Agendadores, NEW b \in Agendadores, NaMao(a)', NaMao(b)',
             agenda'[a].slot = agenda'[b].slot
      PROVE  a = b
  BY <1>3 DEF RodadaInv
<1> QED BY <1>1, <1>2, <1>3 DEF RodadaInv

LEMMA RodadaAgenda ==
  ASSUME RotTipo, RodadaInv, NEW a \in Agendadores, PassoDaAgenda(a) \/ AgendaCai(a)
  PROVE  RodadaInv'
PROOF
<1>0. ASSUME OutrasAgendas(a), ~NaMao(a)', UNCHANGED vezes,
             \A s \in Minutos : execucao'[s].st = "nao" => execucao[s].st = "nao"
      PROVE  RodadaInv'
  BY <1>0, RodadaMantem DEF OutrasAgendas, NaMao
<1>1. CASE AgendaComeca(a)
  <2> DEFINE f == IF ~donoAtivo /\ rotina.status \in {"ativa", "aguardando", "pausada"}
                  THEN "desativa" ELSE "lista"
  <2>1. f \in {"desativa", "lista"} /\ f \in Fases /\ Passa(a, f)
    BY <1>1 DEF AgendaComeca, Fases
  <2> HIDE DEF f
  <2> QED BY <1>0, <1>1, <2>1, MudaFase DEF AgendaComeca, NaMao, feitos
<1>2. CASE AgendaDesativa(a)
  BY <1>0, <1>2, EfeitoDesativa DEF NaMao, feitos
<1>3. CASE AgendaLista(a)
  BY <1>0, <1>3, EfeitoLista DEF NaMao, feitos
<1>4. CASE Reservar(a)
  <2>1. PICK s \in Minutos :
          \/ /\ execucao[s].st = "nao" /\ execucao' = [execucao EXCEPT ![s].st = "rodando"]
             /\ agenda'[a].fase = verba.op /\ agenda'[a].slot = s
          \/ UNCHANGED execucao /\ agenda'[a].fase = "fila"
    BY <1>4, EfeitoReserva
  <2>2. OutrasAgendas(a) /\ UNCHANGED vezes
    BY <1>4, EfeitoReserva DEF feitos
  <2>3. CASE UNCHANGED execucao /\ agenda'[a].fase = "fila"
    BY <1>0, <2>2, <2>3 DEF NaMao
  <2>4. CASE /\ execucao[s].st = "nao" /\ execucao' = [execucao EXCEPT ![s].st = "rodando"]
             /\ agenda'[a].slot = s
    <3>1. /\ execucao'[s].st # "nao" /\ vezes[s] = 0
          /\ \A t \in Minutos : execucao'[t].st = "nao" => execucao[t].st = "nao"
      BY <2>4, TrocaSt DEF RodadaInv
    <3>2. ASSUME NEW b \in Agendadores \ {a}, NaMao(b)'
          PROVE  /\ NaMao(b) /\ agenda'[b].slot = agenda[b].slot /\ agenda[b].slot # s
                 /\ agenda[b].slot \in Minutos
      BY <2>2, <2>4, <3>2 DEF OutrasAgendas, NaMao, RodadaInv, RotTipo, Agenda
    <3>3. \A t \in Minutos : vezes'[t] <= 1 /\ (execucao'[t].st = "nao" => vezes'[t] = 0)
      BY <2>2, <3>1 DEF RodadaInv
    <3>4. ASSUME NEW b \in Agendadores, NaMao(b)'
          PROVE  execucao'[agenda'[b].slot].st # "nao" /\ vezes'[agenda'[b].slot] = 0
      <4>1. CASE b = a
        BY <2>2, <2>4, <3>1, <4>1
      <4>2. CASE b # a
        BY <2>2, <3>1, <3>2, <3>4, <4>2 DEF RodadaInv
      <4> QED BY <4>1, <4>2
    <3>5. ASSUME NEW b \in Agendadores, NEW c \in Agendadores, NaMao(b)', NaMao(c)',
                 agenda'[b].slot = agenda'[c].slot
          PROVE  b = c
      BY <2>4, <3>2, <3>5 DEF RodadaInv
    <3> QED BY <3>3, <3>4, <3>5 DEF RodadaInv
  <2> QED BY <2>1, <2>3, <2>4
<1>5. CASE ExecutaLembrete(a) \/ ListaOrfaos(a)
  <2>1. /\ NaMao(a) /\ OutrasAgendas(a) /\ agenda[a].slot \in Minutos /\ UNCHANGED execucao
        /\ agenda'[a].fase \in {"fim", "vincula"}
        /\ vezes' = [vezes EXCEPT ![agenda[a].slot] = @ + 1]
    BY <1>5, EfeitoExecuta
  <2> DEFINE s == agenda[a].slot
  <2>2. /\ s \in Minutos /\ vezes[s] = 0 /\ execucao[s].st # "nao"
        /\ vezes \in [Minutos -> Nat]
    BY <2>1 DEF RodadaInv, RotTipo
  <2>3. vezes' = [vezes EXCEPT ![s] = @ + 1]
    BY <2>1
  <2> HIDE DEF s
  <2>4. \A t \in Minutos : vezes'[t] <= 1 /\ (execucao'[t].st = "nao" => vezes'[t] = 0)
    BY <2>1, <2>2, <2>3 DEF RodadaInv
  <2>5. ASSUME NEW b \in Agendadores, NaMao(b)'
        PROVE  NaMao(b) /\ b # a /\ agenda'[b] = agenda[b]
    BY <2>1, <2>5 DEF OutrasAgendas, NaMao
  <2>6. ASSUME NEW b \in Agendadores, NaMao(b)'
        PROVE  execucao'[agenda'[b].slot].st # "nao" /\ vezes'[agenda'[b].slot] = 0
    <3>1. NaMao(b) /\ b # a /\ agenda'[b] = agenda[b]
      BY <2>5, <2>6
    <3>2. agenda[b].slot # s /\ agenda[b].slot \in Minutos
      BY <2>1, <3>1 DEF RodadaInv, RotTipo, Agenda, s
    <3>3. execucao[agenda[b].slot].st # "nao" /\ vezes[agenda[b].slot] = 0
      BY <3>1 DEF RodadaInv
    <3> QED BY <2>1, <2>2, <2>3, <3>1, <3>2, <3>3
  <2>7. ASSUME NEW b \in Agendadores, NEW c \in Agendadores, NaMao(b)', NaMao(c)',
               agenda'[b].slot = agenda'[c].slot
        PROVE  b = c
    BY <2>5, <2>7 DEF RodadaInv
  <2> QED BY <2>4, <2>6, <2>7 DEF RodadaInv
<1>6. CASE VinculaOrfao(a)
  BY <1>0, <1>6, EfeitoVincula DEF NaMao, feitos
<1>7. CASE ExecucaoTermina(a)
  <2>1. PICK s \in Minutos, r \in [st : {"ok"}, vinc : SUBSET Pares] :
          execucao' = [execucao EXCEPT ![s] = r]
    BY <1>7, EfeitoTermina
  <2>2. \A t \in Minutos : execucao'[t].st = "nao" => execucao[t].st = "nao"
    BY <2>1, TrocaExecucao
  <2> QED BY <1>0, <1>7, <2>2, EfeitoTermina DEF NaMao, feitos
<1>8. CASE ConcluiUnica(a)
  BY <1>0, <1>8, MudaFase DEF ConcluiUnica, Fases, NaMao, feitos
<1>9. CASE AgendaTermina(a)
  BY <1>0, <1>9, Bases, TrocaAgenda DEF AgendaTermina, NaMao, feitos
<1>10. CASE AgendaCai(a)
  BY <1>0, <1>10, Bases, TrocaAgenda DEF AgendaCai, NaMao, feitos
<1> QED BY <1>1, <1>2, <1>3, <1>4, <1>5, <1>6, <1>7, <1>8, <1>9, <1>10 DEF PassoDaAgenda

LEMMA RodadaPasso == RotTipo /\ RodadaInv /\ [RotNext]_rotVars => RodadaInv'
PROOF
<1> SUFFICES ASSUME RotTipo, RodadaInv, [RotNext]_rotVars PROVE RodadaInv'
  OBVIOUS
<1>0. ASSUME UNCHANGED <<execucao, agenda, vezes>> PROVE RodadaInv'
  BY <1>0, RodadaMantem DEF NaMao
<1>1. ASSUME NEW admin \in BOOLEAN, Criar(admin) PROVE RodadaInv'
  BY <1>0, <1>1 DEF Criar
<1>2. ASSUME NEW m \in Maos, AcaoGrava(m) PROVE RodadaInv'
  BY <1>0, <1>2 DEF AcaoGrava
<1>3. ASSUME NEW m \in Maos, NEW acao \in Acoes, NEW admin \in BOOLEAN, AcaoLe(m, acao, admin)
      PROVE  RodadaInv'
  BY <1>0, <1>3 DEF AcaoLe, feitos
<1>4. CASE DonoMuda \/ Minuto
  BY <1>0, <1>4 DEF DonoMuda, Minuto, feitos
<1>5. ASSUME NEW a \in Agendadores, PassoDaAgenda(a) \/ AgendaCai(a) PROVE RodadaInv'
  BY <1>5, RodadaAgenda
<1>6. ASSUME NEW s \in Minutos, DesfazerLe(s) PROVE RodadaInv'
  BY <1>0, <1>6 DEF DesfazerLe, feitos
<1>7. CASE DesfazerUm
  BY <1>0, <1>7 DEF DesfazerUm, feitos
<1>8. CASE DesfazerMarca
  <2>1. desfaz.slot \in Minutos /\ execucao' = [execucao EXCEPT ![desfaz.slot].st = "desfeita"]
    BY <1>8 DEF DesfazerMarca, RotTipo
  <2>2. \A t \in Minutos : execucao'[t].st = "nao" => execucao[t].st = "nao"
    BY <2>1, TrocaSt
  <2>3. UNCHANGED <<agenda, vezes>>
    BY <1>8 DEF DesfazerMarca, feitos
  <2> QED BY <2>2, <2>3, RodadaMantem DEF NaMao
<1>9. ASSUME NEW e \in Correios, NEW p \in Alvos, Vincula(e, p) PROVE RodadaInv'
  BY <1>0, <1>9 DEF Vincula, feitos
<1>10. CASE UNCHANGED rotVars
  BY <1>0, <1>10 DEF rotVars
<1> QED BY <1>1, <1>2, <1>3, <1>4, <1>5, <1>6, <1>7, <1>8, <1>9, <1>10 DEF RotNext

(* A slot is executed at most once, however many schedulers list it and      *)
(* whatever crashes (rotinas.go:388).                                        *)
THEOREM RotUmaRodadaPorHorario == RotSpec => []UmaRodadaPorHorario
PROOF
<1>1. RodadaInv => UmaRodadaPorHorario
  BY DEF RodadaInv, UmaRodadaPorHorario
<1> QED BY TipoInicial, TipoPasso, RodadaInicial, RodadaPasso, <1>1, PTL DEF RotSpec
-----------------------------------------------------------------------------
(* Who let the routine run                                                   *)

LEMMA AutorInicial == RotInit => AutorInv
PROOF
<1> SUFFICES ASSUME RotInit PROVE AutorInv
  OBVIOUS
<1>1. \A m \in Maos : mao[m].fase = "livre"
  BY DEF RotInit, Solta
<1>2. \A a \in Agendadores : agenda[a].fase = "parado" /\ agenda[a].fila = {}
  BY DEF RotInit, Parado
<1>3. ~autorizada /\ rotina.status = "nenhuma" /\ \A s \in Minutos : ~(vezes[s] > 0)
  BY DEF RotInit
<1> QED BY <1>1, <1>2, <1>3 DEF AutorInv, TemServico, NaMao, SoRodaAutorizada

\* no new work, and no new way to become active
LEMMA AutorMantem ==
  ASSUME AutorInv, UNCHANGED <<mao, autorizada>>,
         rotina'.status = "nenhuma" => rotina.status = "nenhuma",
         rotina'.status = "ativa" => rotina.status = "ativa",
         \A a \in Agendadores : agenda'[a].fase = "desativa" =>
            agenda[a].fase = "desativa" \/ rotina'.status # "nenhuma",
         \A a \in Agendadores : TemServico(a)' => TemServico(a) \/ autorizada,
         UNCHANGED vezes \/ autorizada
  PROVE  AutorInv'
PROOF
<1>1. SoRodaAutorizada'
  BY DEF AutorInv, SoRodaAutorizada
<1>2. \A a \in Agendadores : TemServico(a)' => autorizada'
  BY DEF AutorInv
<1>3. rotina'.status = "nenhuma" =>
        /\ ~autorizada' /\ \A m \in Maos : mao'[m].fase = "livre"
        /\ \A a \in Agendadores : agenda'[a].fase # "desativa"
  BY DEF AutorInv
<1>4. /\ rotina'.status = "ativa" => autorizada'
      /\ \A m \in Maos : mao'[m].fase = "dono" => ~SoAdmin(mao'[m].acao)
  BY DEF AutorInv
<1> QED BY <1>1, <1>2, <1>3, <1>4 DEF AutorInv, SoAdmin

LEMMA AutorAgenda ==
  ASSUME RotTipo, AutorInv, NEW a \in Agendadores, PassoDaAgenda(a) \/ AgendaCai(a)
  PROVE  AutorInv'
PROOF
<1>0. ASSUME OutrasAgendas(a), UNCHANGED <<mao, autorizada>>,
             rotina'.status = "nenhuma" => rotina.status = "nenhuma",
             rotina'.status = "ativa" => rotina.status = "ativa",
             agenda'[a].fase = "desativa" => rotina'.status # "nenhuma",
             TemServico(a)' => TemServico(a) \/ autorizada,
             UNCHANGED vezes \/ autorizada
      PROVE  AutorInv'
  <2>1. \A b \in Agendadores \ {a} : TemServico(b)' => TemServico(b)
    BY <1>0 DEF OutrasAgendas, TemServico, NaMao
  <2>2. \A b \in Agendadores \ {a} : agenda'[b].fase = agenda[b].fase
    BY <1>0 DEF OutrasAgendas
  <2>3. \A b \in Agendadores : TemServico(b)' => TemServico(b) \/ autorizada
    BY <1>0, <2>1
  <2>4. \A b \in Agendadores : agenda'[b].fase = "desativa" =>
           agenda[b].fase = "desativa" \/ rotina'.status # "nenhuma"
    BY <1>0, <2>2
  <2> QED BY <1>0, <2>3, <2>4, AutorMantem
<1>1. CASE AgendaComeca(a)
  <2> DEFINE f == IF ~donoAtivo /\ rotina.status \in {"ativa", "aguardando", "pausada"}
                  THEN "desativa" ELSE "lista"
  <2>1. /\ f \in {"desativa", "lista"} /\ f \in Fases /\ Passa(a, f)
        /\ f = "desativa" => rotina.status # "nenhuma"
    BY <1>1 DEF AgendaComeca, Fases
  <2> HIDE DEF f
  <2> QED BY <1>0, <1>1, <2>1, MudaFase DEF AgendaComeca, TemServico, NaMao, feitos
<1>2. CASE AgendaDesativa(a)
  <2>1. /\ rotina'.status = "nenhuma" => rotina.status = "nenhuma"
        /\ rotina'.status = "ativa" => rotina.status = "ativa"
    <3>1. CASE UNCHANGED <<rotina, ultima>>
      BY <3>1
    <3>2. CASE Aplica("desativar")
      <4>1. rotina'.status = Novo("desativar")
        BY <3>2 DEF Aplica
      <4> QED BY <4>1 DEF Novo
    <3> QED BY <1>2, <3>1, <3>2, EfeitoDesativa
  <2> QED BY <1>0, <1>2, <2>1, EfeitoDesativa DEF TemServico, NaMao, feitos
<1>3. CASE AgendaLista(a)
  <2>1. agenda'[a].fila # {} => autorizada
    BY <1>3, EfeitoLista DEF Slots, AutorInv
  <2> QED BY <1>0, <1>3, <2>1, EfeitoLista DEF TemServico, NaMao, feitos
<1>4. CASE Reservar(a)
  <2>1. TemServico(a) /\ agenda'[a].fase \in {"emails", "lembrete", "fila"}
    BY <1>4, EfeitoReserva DEF TemServico, RotTipo
  <2> QED BY <1>0, <1>4, <2>1, EfeitoReserva DEF feitos
<1>5. CASE ExecutaLembrete(a) \/ ListaOrfaos(a)
  <2>1. autorizada
    BY <1>5, EfeitoExecuta DEF AutorInv, TemServico
  <2> QED BY <1>0, <1>5, <2>1, EfeitoExecuta
<1>6. CASE VinculaOrfao(a)
  BY <1>0, <1>6, EfeitoVincula DEF TemServico, NaMao, feitos
<1>7. CASE ExecucaoTermina(a)
  BY <1>0, <1>7, EfeitoTermina DEF TemServico, NaMao, feitos
<1>8. CASE ConcluiUnica(a)
  <2>1. /\ rotina'.status = "nenhuma" => rotina.status = "nenhuma"
        /\ rotina'.status = "ativa" => rotina.status = "ativa"
    BY <1>8 DEF ConcluiUnica, RotTipo
  <2> QED BY <1>0, <1>8, <2>1, MudaFase DEF ConcluiUnica, Fases, TemServico, NaMao, feitos
<1>9. CASE AgendaTermina(a)
  BY <1>0, <1>9, Bases, TrocaAgenda DEF AgendaTermina, TemServico, NaMao, feitos
<1>10. CASE AgendaCai(a)
  BY <1>0, <1>10, Bases, TrocaAgenda DEF AgendaCai, TemServico, NaMao, feitos
<1> QED BY <1>1, <1>2, <1>3, <1>4, <1>5, <1>6, <1>7, <1>8, <1>9, <1>10 DEF PassoDaAgenda

LEMMA AutorPasso == RotTipo /\ AutorInv /\ [RotNext]_rotVars => AutorInv'
PROOF
<1> SUFFICES ASSUME RotTipo, AutorInv, [RotNext]_rotVars PROVE AutorInv'
  OBVIOUS
<1>0. ASSUME UNCHANGED <<rotina, agenda, mao, autorizada, vezes>> PROVE AutorInv'
  BY <1>0, AutorMantem DEF TemServico, NaMao
<1>1. ASSUME NEW admin \in BOOLEAN, Criar(admin) PROVE AutorInv'
  <2>1. /\ rotina.status = "nenhuma" /\ UNCHANGED <<mao, agenda, vezes>>
        /\ autorizada' = admin /\ rotina'.status = IF admin THEN "ativa" ELSE "aguardando"
    BY <1>1 DEF Criar, RotTipo
  <2>2. /\ ~autorizada /\ \A m \in Maos : mao'[m].fase = "livre"
        /\ \A a \in Agendadores : ~TemServico(a)'
        /\ ~(\E s \in Minutos : vezes'[s] > 0)
    BY <2>1 DEF AutorInv, TemServico, NaMao, SoRodaAutorizada
  <2>3. rotina'.status = "ativa" => autorizada'
    BY <2>1
  <2> QED BY <2>1, <2>2, <2>3 DEF AutorInv, SoRodaAutorizada
<1>2. ASSUME NEW m \in Maos, AcaoGrava(m) PROVE AutorInv'
  <2>1. /\ mao[m] \in Mao /\ mao[m].fase # "livre" /\ Aplica(mao[m].acao)
        /\ autorizada' = (autorizada \/ (mao[m].fase = "admin" /\ Novo(mao[m].acao) = "ativa"))
        /\ mao' = [mao EXCEPT ![m] = Solta] /\ UNCHANGED <<agenda, vezes>>
    BY <1>2 DEF AcaoGrava, RotTipo
  <2>2. /\ rotina'.status # "nenhuma" /\ rotina'.status = Novo(mao[m].acao)
        /\ rotina'.status = "ativa" => SoAdmin(mao[m].acao)
    BY <2>1, EfeitoAplica DEF Mao
  <2>3. rotina'.status = "ativa" => autorizada'
    BY <2>1, <2>2 DEF AutorInv, Mao
  <2>4. \A k \in Maos : mao'[k].fase = "dono" => ~SoAdmin(mao'[k].acao)
    <3>1. mao'[m] = Solta /\ \A k \in Maos \ {m} : mao'[k] = mao[k]
      BY <2>1 DEF RotTipo
    <3> QED BY <3>1, Bases DEF AutorInv
  <2>5. \A a \in Agendadores : TemServico(a)' => autorizada'
    BY <2>1 DEF AutorInv, TemServico, NaMao
  <2>6. SoRodaAutorizada'
    BY <2>1 DEF AutorInv, SoRodaAutorizada
  <2> QED BY <2>2, <2>3, <2>4, <2>5, <2>6 DEF AutorInv, SoAdmin
<1>3. ASSUME NEW m \in Maos, NEW acao \in Acoes, NEW admin \in BOOLEAN, AcaoLe(m, acao, admin)
      PROVE  AutorInv'
  <2>1. /\ rotina.status # "nenhuma" /\ (SoAdmin(acao) => admin)
        /\ UNCHANGED <<rotina, agenda, autorizada, vezes>>
        /\ mao' = [mao EXCEPT ![m] = [fase |-> IF admin THEN "admin" ELSE "dono", acao |-> acao,
                                      lido |-> rotina.status]]
    BY <1>3 DEF AcaoLe, feitos
  <2>2. \A k \in Maos : mao'[k].fase = "dono" => ~SoAdmin(mao'[k].acao)
    <3>1. /\ mao'[m].fase = (IF admin THEN "admin" ELSE "dono") /\ mao'[m].acao = acao
          /\ \A k \in Maos \ {m} : mao'[k] = mao[k]
      BY <2>1 DEF RotTipo
    <3> QED BY <2>1, <3>1 DEF AutorInv
  <2>3. \A a \in Agendadores : TemServico(a)' => autorizada'
    BY <2>1 DEF AutorInv, TemServico, NaMao
  <2>4. SoRodaAutorizada'
    BY <2>1 DEF AutorInv, SoRodaAutorizada
  <2>5. rotina'.status # "nenhuma" /\ (rotina'.status = "ativa" => autorizada')
    BY <2>1 DEF AutorInv
  <2> QED BY <2>2, <2>3, <2>4, <2>5 DEF AutorInv, SoAdmin
<1>4. CASE DonoMuda \/ Minuto
  BY <1>0, <1>4 DEF DonoMuda, Minuto, feitos
<1>5. ASSUME NEW a \in Agendadores, PassoDaAgenda(a) \/ AgendaCai(a) PROVE AutorInv'
  BY <1>5, AutorAgenda
<1>6. ASSUME NEW s \in Minutos, DesfazerLe(s) PROVE AutorInv'
  BY <1>0, <1>6 DEF DesfazerLe, feitos
<1>7. CASE DesfazerUm \/ DesfazerMarca
  BY <1>0, <1>7 DEF DesfazerUm, DesfazerMarca, feitos
<1>8. ASSUME NEW e \in Correios, NEW p \in Alvos, Vincula(e, p) PROVE AutorInv'
  BY <1>0, <1>8 DEF Vincula, feitos
<1>9. CASE UNCHANGED rotVars
  BY <1>0, <1>9 DEF rotVars
<1> QED BY <1>1, <1>2, <1>3, <1>4, <1>5, <1>6, <1>7, <1>8, <1>9 DEF RotNext

(* A routine runs only after an administrator let it, whatever requests of   *)
(* the board cross each other and the scheduler (rotinas_handler.go:149,     *)
(* rotinas.go:220-236).                                                      *)
THEOREM RotSoRodaAutorizada == RotSpec => []SoRodaAutorizada
PROOF
<1>1. AutorInv => SoRodaAutorizada
  BY DEF AutorInv
<1> QED BY TipoInicial, TipoPasso, AutorInicial, AutorPasso, <1>1, PTL DEF RotSpec
-----------------------------------------------------------------------------
(* The window                                                                *)

LEMMA JanelaInicial == RotInit => JanelaInv
PROOF
<1> SUFFICES ASSUME RotInit PROVE JanelaInv
  OBVIOUS
<1>1. /\ minuto = 0 /\ ultima.lista = 0 /\ ultima.ativa = 0 /\ rotina.aprovada = -1
      /\ rotina.status = "nenhuma" /\ \A a \in Agendadores : agenda[a].fila = {}
  BY DEF RotInit, Parado
<1> QED BY <1>1, RotinasOK DEF JanelaInv

\* the clock stands still, the routine is active since then or since now, and what
\* was taken remains taken
LEMMA JanelaMantem ==
  ASSUME RotTipo, JanelaInv, UNCHANGED minuto, ultima'.lista = ultima.lista,
         ultima'.ativa <= minuto, rotina'.aprovada <= ultima'.ativa,
         \A a \in Agendadores : agenda'[a].fase \in {"parado", "desativa", "lista"} =>
            agenda'[a].fila = {},
         verba'.tipo = verba.tipo, verba.caiu => verba'.caiu,
         rotina'.status = "ativa" =>
            ultima'.ativa = minuto \/ (rotina.status = "ativa" /\ ultima'.ativa = ultima.ativa),
         ~verba'.caiu => \A s \in Minutos : Tomado(s) => Tomado(s)'
  PROVE  JanelaInv'
PROOF
<1>1. minuto \in Nat /\ ultima.lista \in Nat /\ ultima.ativa \in Nat /\ Horarios \subseteq Minutos
  BY RotinasOK, Bases DEF RotTipo
<1>2. ASSUME verba'.tipo = "recorrente", rotina'.status = "ativa", ~verba'.caiu,
             NEW s \in Horarios, ultima'.ativa <= s, s < ultima'.lista
      PROVE  Tomado(s)'
  <2>1. s \in Minutos /\ s \in Nat
    BY <1>1, Bases
  <2>2. ultima'.ativa # minuto
    BY <1>1, <1>2, <2>1 DEF JanelaInv
  <2>3. rotina.status = "ativa" /\ ultima'.ativa = ultima.ativa
    BY <1>2, <2>2
  <2>4. Tomado(s)
    BY <1>2, <2>3 DEF JanelaInv
  <2> QED BY <1>2, <2>1, <2>4
<1> QED BY <1>2 DEF JanelaInv

\* what was taken remains taken, when a scheduler moves
LEMMA TomadoFica ==
  ASSUME NEW a \in Agendadores, OutrasAgendas(a),
         \A s \in Minutos : execucao'[s].st = "nao" => execucao[s].st = "nao",
         \A s \in agenda[a].fila : s \in agenda'[a].fila \/ execucao'[s].st # "nao"
  PROVE  \A s \in Minutos : Tomado(s) => Tomado(s)'
PROOF
<1> SUFFICES ASSUME NEW s \in Minutos, Tomado(s) PROVE Tomado(s)'
  OBVIOUS
<1>1. CASE execucao[s].st # "nao"
  BY <1>1 DEF Tomado
<1>2. ASSUME NEW b \in Agendadores, s \in agenda[b].fila PROVE Tomado(s)'
  BY <1>2 DEF Tomado, OutrasAgendas
<1> QED BY <1>1, <1>2 DEF Tomado

LEMMA JanelaLista ==
  ASSUME RotTipo, JanelaInv, NEW a \in Agendadores, AgendaLista(a)
  PROVE  JanelaInv'
PROOF
<1>1. /\ minuto \in Nat /\ ultima.lista \in Nat /\ ultima.ativa \in Nat /\ rotina.aprovada \in Int
      /\ Horarios \subseteq Minutos /\ Janela \in Nat /\ Janela > 0
  BY RotinasOK, Bases DEF RotTipo
<1>2. /\ UNCHANGED <<rotina, minuto, execucao, verba>> /\ agenda[a].fase = "lista"
      /\ OutrasAgendas(a) /\ agenda'[a].fase = "fila" /\ agenda'[a].fila = Slots
      /\ ultima'.lista = minuto /\ ultima'.ativa = ultima.ativa
  BY EfeitoLista
<1>3. agenda[a].fila = {}
  BY <1>2 DEF JanelaInv
<1>4. \A s \in Minutos : Tomado(s) => Tomado(s)'
  BY <1>2, <1>3, TomadoFica
<1>5. ASSUME verba.tipo = "recorrente", rotina.status = "ativa", ~verba.caiu,
             NEW s \in Horarios, ultima.ativa <= s, s < minuto
      PROVE  Tomado(s)'
  <2>1. s \in Minutos /\ s \in Nat
    BY <1>1, Bases
  <2>2. CASE s < ultima.lista
    BY <1>4, <1>5, <2>1, <2>2 DEF JanelaInv
  <2>3. CASE ultima.lista <= s
    <3>1. minuto - Janela < s /\ s <= minuto /\ rotina.aprovada <= s
      BY <1>1, <1>5, <2>1, <2>3 DEF JanelaInv
    <3>2. s \in Slots
      BY <1>5, <3>1 DEF Slots, Devidas
    <3> QED BY <1>2, <3>2 DEF Tomado
  <2> QED BY <1>1, <2>1, <2>2, <2>3
<1>6. \A b \in Agendadores : agenda'[b].fase \in {"parado", "desativa", "lista"} =>
         agenda'[b].fila = {}
  BY <1>2 DEF OutrasAgendas, JanelaInv
<1>7. minuto <= minuto /\ minuto - minuto < Janela
  BY <1>1
<1> QED BY <1>2, <1>5, <1>6, <1>7 DEF JanelaInv

LEMMA JanelaAgenda ==
  ASSUME RotTipo, JanelaInv, NEW a \in Agendadores, PassoDaAgenda(a) \/ AgendaCai(a)
  PROVE  JanelaInv'
PROOF
<1>0. ASSUME OutrasAgendas(a), UNCHANGED <<minuto, ultima, verba>>,
             rotina'.aprovada = rotina.aprovada,
             rotina'.status = "ativa" => rotina.status = "ativa",
             agenda'[a].fase \in {"parado", "desativa", "lista"} => agenda'[a].fila = {},
             \A s \in Minutos : execucao'[s].st = "nao" => execucao[s].st = "nao",
             \A s \in agenda[a].fila : s \in agenda'[a].fila \/ execucao'[s].st # "nao"
      PROVE  JanelaInv'
  <2>1. \A s \in Minutos : Tomado(s) => Tomado(s)'
    BY <1>0, TomadoFica
  <2>2. \A b \in Agendadores : agenda'[b].fase \in {"parado", "desativa", "lista"} =>
           agenda'[b].fila = {}
    BY <1>0 DEF OutrasAgendas, JanelaInv
  <2>3. ultima.ativa <= minuto /\ rotina.aprovada <= ultima.ativa
    BY DEF JanelaInv
  <2> QED BY <1>0, <2>1, <2>2, <2>3, JanelaMantem
<1>1. CASE AgendaComeca(a)
  <2> DEFINE f == IF ~donoAtivo /\ rotina.status \in {"ativa", "aguardando", "pausada"}
                  THEN "desativa" ELSE "lista"
  <2>1. f \in Fases /\ Passa(a, f) /\ agenda[a].fase = "parado"
    BY <1>1 DEF AgendaComeca, Fases
  <2> HIDE DEF f
  <2>2. agenda'[a].fila = {} /\ agenda[a].fila = {}
    BY <2>1, MudaFase DEF JanelaInv
  <2> QED BY <1>0, <1>1, <2>1, <2>2, MudaFase DEF AgendaComeca
<1>2. CASE AgendaDesativa(a)
  <2>1. agenda[a].fila = {} /\ agenda'[a].fila = {}
    BY <1>2, EfeitoDesativa DEF JanelaInv
  <2>2. UNCHANGED <<minuto, execucao, verba>> /\ OutrasAgendas(a)
    BY <1>2, EfeitoDesativa
  <2>3. CASE UNCHANGED <<rotina, ultima>>
    BY <1>0, <2>1, <2>2, <2>3
  <2>4. CASE Aplica("desativar")
    <3>1. rotina'.status = "desativada" /\ rotina'.aprovada = rotina.aprovada /\ UNCHANGED ultima
      BY <2>4 DEF Aplica, Novo
    <3> QED BY <1>0, <2>1, <2>2, <3>1
  <2> QED BY <1>2, <2>3, <2>4, EfeitoDesativa
<1>3. CASE AgendaLista(a)
  BY <1>3, JanelaLista
<1>4. CASE Reservar(a)
  <2>1. PICK s \in Minutos :
          /\ agenda'[a].fila = agenda[a].fila \ {s}
          /\ \/ /\ execucao[s].st = "nao" /\ execucao' = [execucao EXCEPT ![s].st = "rodando"]
                /\ agenda'[a].fase = verba.op
             \/ execucao[s].st # "nao" /\ UNCHANGED execucao /\ agenda'[a].fase = "fila"
    BY <1>4, EfeitoReserva
  <2>2. /\ execucao'[s].st # "nao"
        /\ \A t \in Minutos : execucao'[t].st = "nao" => execucao[t].st = "nao"
    BY <2>1, TrocaSt
  <2>3. agenda'[a].fase \notin {"parado", "desativa", "lista"}
    BY <2>1 DEF RotTipo
  <2> QED BY <1>0, <1>4, <2>1, <2>2, <2>3, EfeitoReserva
<1>5. CASE ExecutaLembrete(a) \/ ListaOrfaos(a)
  BY <1>0, <1>5, EfeitoExecuta
<1>6. CASE VinculaOrfao(a)
  BY <1>0, <1>6, EfeitoVincula
<1>7. CASE ExecucaoTermina(a)
  <2>1. PICK s \in Minutos, r \in [st : {"ok"}, vinc : SUBSET Pares] :
          execucao' = [execucao EXCEPT ![s] = r]
    BY <1>7, EfeitoTermina
  <2>2. \A t \in Minutos : execucao'[t].st = "nao" => execucao[t].st = "nao"
    BY <2>1, TrocaExecucao
  <2> QED BY <1>0, <1>7, <2>2, EfeitoTermina
<1>8. CASE ConcluiUnica(a)
  <2>1. rotina'.aprovada = rotina.aprovada /\ (rotina'.status = "ativa" => rotina.status = "ativa")
    BY <1>8 DEF ConcluiUnica, RotTipo
  <2>2. OutrasAgendas(a) /\ agenda'[a].fase = "fila" /\ agenda'[a].fila = agenda[a].fila
    BY <1>8, MudaFase DEF ConcluiUnica, Fases
  <2> QED BY <1>0, <1>8, <2>1, <2>2 DEF ConcluiUnica
<1>9. CASE AgendaTermina(a)
  <2>1. OutrasAgendas(a) /\ agenda'[a] = Parado /\ agenda[a].fila = {}
    BY <1>9, Bases, TrocaAgenda DEF AgendaTermina
  <2> QED BY <1>0, <1>9, <2>1, Bases DEF AgendaTermina
<1>10. CASE AgendaCai(a)
  <2>1. OutrasAgendas(a) /\ agenda'[a] = Parado
    BY <1>10, Bases, TrocaAgenda DEF AgendaCai
  <2>2. verba'.caiu /\ verba'.tipo = verba.tipo /\ UNCHANGED <<minuto, ultima, rotina>>
    BY <1>10 DEF AgendaCai, RotTipo
  <2>3. \A b \in Agendadores : agenda'[b].fase \in {"parado", "desativa", "lista"} =>
           agenda'[b].fila = {}
    BY <2>1, Bases DEF OutrasAgendas, JanelaInv
  <2>4. ultima.ativa <= minuto /\ rotina.aprovada <= ultima.ativa
    BY DEF JanelaInv
  <2> QED BY <2>2, <2>3, <2>4, JanelaMantem
<1> QED BY <1>1, <1>2, <1>3, <1>4, <1>5, <1>6, <1>7, <1>8, <1>9, <1>10 DEF PassoDaAgenda

LEMMA JanelaPasso == RotTipo /\ JanelaInv /\ [RotNext]_rotVars => JanelaInv'
PROOF
<1> SUFFICES ASSUME RotTipo, JanelaInv, [RotNext]_rotVars PROVE JanelaInv'
  OBVIOUS
<1>0. ASSUME UNCHANGED <<minuto, agenda, execucao>>, ultima'.lista = ultima.lista,
             ultima'.ativa <= minuto, rotina'.aprovada <= ultima'.ativa,
             verba'.tipo = verba.tipo, verba'.caiu = verba.caiu,
             rotina'.status = "ativa" =>
               ultima'.ativa = minuto \/ (rotina.status = "ativa" /\ ultima'.ativa = ultima.ativa)
      PROVE  JanelaInv'
  <2>1. \A s \in Minutos : Tomado(s) => Tomado(s)'
    BY <1>0 DEF Tomado
  <2>2. \A a \in Agendadores : agenda'[a].fase \in {"parado", "desativa", "lista"} =>
           agenda'[a].fila = {}
    BY <1>0 DEF JanelaInv
  <2> QED BY <1>0, <2>1, <2>2, JanelaMantem
<1>a. /\ minuto \in Nat /\ rotina.aprovada \in Int /\ rotina.aprovada <= minuto
      /\ ultima.ativa \in Nat /\ ultima.lista \in Nat
      /\ ultima.ativa <= minuto /\ rotina.aprovada <= ultima.ativa
  BY Bases DEF RotTipo, JanelaInv
<1>b. ASSUME UNCHANGED <<minuto, agenda, execucao, ultima, rotina>>,
             verba'.tipo = verba.tipo, verba'.caiu = verba.caiu
      PROVE  JanelaInv'
  BY <1>0, <1>a, <1>b
<1>1. ASSUME NEW admin \in BOOLEAN, Criar(admin) PROVE JanelaInv'
  <2>1. rotina'.aprovada \in {minuto, rotina.aprovada}
    BY <1>1 DEF Criar, RotTipo
  <2>2. ultima'.ativa = minuto /\ ultima'.lista = ultima.lista /\ UNCHANGED <<minuto, agenda, execucao, verba>>
    BY <1>1 DEF Criar, RotTipo
  <2>3. ultima'.ativa <= minuto /\ rotina'.aprovada <= ultima'.ativa
    BY <1>a, <2>1, <2>2
  <2> QED BY <1>0, <2>2, <2>3
<1>2. ASSUME NEW m \in Maos, AcaoGrava(m) PROVE JanelaInv'
  <2>1. mao[m].acao \in Acoes /\ Aplica(mao[m].acao) /\ UNCHANGED <<minuto, agenda, execucao, verba>>
    BY <1>2 DEF AcaoGrava, RotTipo, Mao
  <2>2. /\ ultima'.lista = ultima.lista
        /\ \/ rotina'.aprovada \in {minuto, rotina.aprovada} /\ ultima'.ativa = minuto
           \/ /\ rotina'.status # "ativa" /\ ultima' = ultima
              /\ rotina'.aprovada = rotina.aprovada
    BY <2>1, EfeitoAplica
  <2>3. ultima'.ativa <= minuto /\ rotina'.aprovada <= ultima'.ativa
    BY <1>a, <2>2
  <2> QED BY <1>0, <2>1, <2>2, <2>3
<1>3. ASSUME NEW m \in Maos, NEW acao \in Acoes, NEW admin \in BOOLEAN, AcaoLe(m, acao, admin)
      PROVE  JanelaInv'
  <2>1. verba'.tipo = verba.tipo /\ verba'.caiu = verba.caiu
    BY <1>3, GastaVerba DEF AcaoLe
  <2> QED BY <1>b, <1>3, <2>1 DEF AcaoLe
<1>4. CASE DonoMuda
  <2>1. verba'.tipo = verba.tipo /\ verba'.caiu = verba.caiu
    BY <1>4, GastaVerba DEF DonoMuda
  <2> QED BY <1>b, <1>4, <2>1 DEF DonoMuda
<1>5. CASE Minuto
  <2>1. /\ minuto' = minuto + 1 /\ minuto + 1 - ultima.lista < Janela
        /\ UNCHANGED <<rotina, execucao, agenda, ultima, verba>>
    BY <1>5 DEF Minuto
  <2>2. ultima.lista <= minuto' /\ minuto' - ultima.lista < Janela /\ ultima.ativa <= minuto'
    BY <1>a, <2>1 DEF JanelaInv
  <2>3. ASSUME NEW s \in Minutos, Tomado(s) PROVE Tomado(s)'
    BY <2>1, <2>3 DEF Tomado
  <2>4. Horarios \subseteq Minutos
    BY RotinasOK
  <2> QED BY <2>1, <2>2, <2>3, <2>4 DEF JanelaInv
<1>6. ASSUME NEW a \in Agendadores, PassoDaAgenda(a) \/ AgendaCai(a) PROVE JanelaInv'
  BY <1>6, JanelaAgenda
<1>7. ASSUME NEW s \in Minutos, DesfazerLe(s) PROVE JanelaInv'
  <2>1. verba'.tipo = verba.tipo /\ verba'.caiu = verba.caiu
    BY <1>7, GastaVerba DEF DesfazerLe
  <2> QED BY <1>b, <1>7, <2>1 DEF DesfazerLe
<1>8. CASE DesfazerUm
  BY <1>b, <1>8 DEF DesfazerUm
<1>9. CASE DesfazerMarca
  <2>1. desfaz.slot \in Minutos /\ execucao' = [execucao EXCEPT ![desfaz.slot].st = "desfeita"]
    BY <1>9 DEF DesfazerMarca, RotTipo
  <2>2. \A t \in Minutos : execucao'[t].st = "nao" => execucao[t].st = "nao"
    BY <2>1, TrocaSt
  <2>3. UNCHANGED <<minuto, agenda, ultima, rotina, verba>>
    BY <1>9 DEF DesfazerMarca
  <2>4. \A s \in Minutos : Tomado(s) => Tomado(s)'
    BY <2>2, <2>3 DEF Tomado
  <2>5. \A a \in Agendadores : agenda'[a].fase \in {"parado", "desativa", "lista"} =>
           agenda'[a].fila = {}
    BY <2>3 DEF JanelaInv
  <2> QED BY <1>a, <2>3, <2>4, <2>5, JanelaMantem
<1>10. ASSUME NEW e \in Correios, NEW p \in Alvos, Vincula(e, p) PROVE JanelaInv'
  <2>1. verba'.tipo = verba.tipo /\ verba'.caiu = verba.caiu
    BY <1>10, GastaVerba DEF Vincula
  <2> QED BY <1>b, <1>10, <2>1 DEF Vincula
<1>11. CASE UNCHANGED rotVars
  BY <1>b, <1>11 DEF rotVars
<1> QED BY <1>1, <1>2, <1>3, <1>4, <1>5, <1>6, <1>7, <1>8, <1>9, <1>10, <1>11 DEF RotNext

(* No slot of an active routine slips out of the window untaken, whatever    *)
(* the day, the window and the number of schedulers (rotinas.go:386-388,     *)
(* 417-428).                                                                 *)
THEOREM RotHorarioNaoSePerde == RotSpec => []HorarioNaoSePerde
PROOF
<1>1. RotTipo /\ JanelaInv => HorarioNaoSePerde
  <2> SUFFICES ASSUME RotTipo, JanelaInv, verba.tipo = "recorrente", rotina.status = "ativa",
                      ~verba.caiu, NEW s \in Horarios, ultima.ativa <= s, s + Janela <= minuto
               PROVE  Tomado(s)
    BY DEF HorarioNaoSePerde, Tomado
  <2>1. /\ minuto \in Nat /\ ultima.lista \in Nat /\ Janela \in Nat /\ s \in Nat
    BY RotinasOK, Bases DEF RotTipo
  <2>2. minuto - ultima.lista < Janela
    BY DEF JanelaInv
  <2>3. s < ultima.lista
    BY <2>1, <2>2
  <2> QED BY <2>3 DEF JanelaInv
<1> QED BY TipoInicial, TipoPasso, JanelaInicial, JanelaPasso, <1>1, PTL DEF RotSpec
-----------------------------------------------------------------------------
(* A step of a scheduler changes no link it finds: only VinculaOrfao writes  *)
(* the e-mails, and its UPDATE repeats the condition of the list             *)
(* (rotinas.go:607).                                                         *)
THEOREM RotNuncaSobrescreve == RotSpec => NuncaSobrescreveVinculo
PROOF
<1> DEFINE Preserva == agenda' # agenda =>
             \A e \in Correios : correio[e] # SemAlvo => correio'[e] = correio[e]
<1>1. RotTipo /\ [RotNext]_rotVars => [Preserva]_rotVars
  <2> SUFFICES ASSUME RotTipo, RotNext PROVE Preserva
    BY DEF rotVars
  <2>1. ASSUME NEW a \in Agendadores, PassoDaAgenda(a) \/ AgendaCai(a) PROVE Preserva
    <3>1. CASE VinculaOrfao(a)
      BY <3>1, EfeitoVincula
    <3>2. CASE ~VinculaOrfao(a)
      <4>1. UNCHANGED correio
        BY <2>1, <3>2 DEF PassoDaAgenda, AgendaComeca, AgendaDesativa, AgendaLista, Reservar,
           ExecutaLembrete, ListaOrfaos, ExecucaoTermina, ConcluiUnica, AgendaTermina, AgendaCai
      <4> QED BY <4>1
    <3> QED BY <3>1, <3>2
  <2>2. ASSUME ~(\E a \in Agendadores : PassoDaAgenda(a) \/ AgendaCai(a)) PROVE UNCHANGED agenda
    BY <2>2 DEF RotNext, Criar, AcaoGrava, AcaoLe, DonoMuda, Minuto, DesfazerLe, DesfazerUm,
       DesfazerMarca, Vincula
  <2> QED BY <2>1, <2>2
<1> HIDE DEF Preserva
<1>2. RotSpec => [][Preserva]_rotVars
  BY TipoInicial, TipoPasso, <1>1, PTL DEF RotSpec
<1> QED BY <1>2 DEF NuncaSobrescreveVinculo, Preserva
=============================================================================
