------------------------------- MODULE Rotinas -------------------------------
(* One routine asked for in the chat: its approval, the runs of the scheduler *)
(* that execute it, what an execution does to the e-mails and how it is       *)
(* undone. RodarDevidas starts every minute in every backend that points at   *)
(* the database, and a run may still be busy when the next one starts.        *)
EXTENDS Integers, FiniteSets

CONSTANTS Agendadores,  \* runs of RodarDevidas that may be under way at once
          Maos,         \* requests of the board that may be under way at once
          Horarios,     \* minutes at which a recurrent routine is due
          Janela,       \* minutes RodarDevidas looks back, 10 in the code
          Correios,     \* rows of FT_EMAILS_PROCESSO the routine looks at
          Alvos,        \* processes an e-mail may be linked to, positive numbers
          MaxMinuto,    \* bound: the clock
          Orcamentos    \* bound: kind of routine, and how many acts, acts of undoing
                        \* and crashes

VARIABLES
  rotina,     \* the row of FT_ROTINAS
  donoAtivo,  \* DM_USUARIO.usuario_ativo of its owner
  minuto,     \* the clock of Brasilia
  execucao,   \* FT_ROTINA_EXECUCOES, by slot
  correio,    \* id_processo of each e-mail
  mao,        \* MudarStatus between its SELECT and its UPDATE
  agenda,     \* what each run of the scheduler has in hand
  desfaz,     \* DesfazerExecucao between its SELECT and its last UPDATE
  vezes,      \* how often each slot was executed
  lembretes,  \* how many reminders each slot has put in the calendar
  autorizada, \* the administrator let the routine run: created, approved, reactivated
  ultima,     \* when the scheduler last listed, and since when the routine is active
  verba       \* what is left of the budget, and whether a backend has crashed

rotVars  == <<rotina, donoAtivo, minuto, execucao, correio, mao, agenda, desfaz,
              vezes, lembretes, autorizada, ultima, verba>>
feitos   == <<vezes, lembretes, autorizada>>

Minutos == 0..MaxMinuto
SemAlvo == 0
Status  == {"nenhuma", "aguardando", "ativa", "pausada", "desativada", "rejeitada",
            "concluida"}
Acoes   == {"aprovar", "rejeitar", "pausar", "reativar", "desativar"}

ASSUME RotinasOK ==
  /\ Horarios \subseteq Minutos /\ MaxMinuto \in Nat
  /\ Janela \in Nat \ {0} /\ Alvos \subseteq Nat \ {SemAlvo}
  /\ Orcamentos \subseteq [tipo : {"recorrente", "unica"}, op : {"emails", "lembrete"},
                           atos : Nat, desfazer : Nat, quedas : Nat, caiu : {FALSE}]

Parado == [fase |-> "parado", fila |-> {}, slot |-> 0, orfaos |-> {}, feitos |-> {}]
Solta  == [fase |-> "livre", acao |-> "pausar", lido |-> "nenhuma"]
NaoUsa == [fase |-> "livre", slot |-> 0, vinc |-> {}]

RotInit ==
  /\ rotina = [status |-> "nenhuma", aprovada |-> -1]
  /\ donoAtivo = TRUE /\ minuto = 0
  /\ execucao = [s \in Minutos |-> [st |-> "nao", vinc |-> {}]]
  /\ correio = [e \in Correios |-> SemAlvo]
  /\ mao = [m \in Maos |-> Solta]
  /\ agenda = [a \in Agendadores |-> Parado]
  /\ desfaz = NaoUsa
  /\ vezes = [s \in Minutos |-> 0] /\ lembretes = [s \in Minutos |-> 0]
  /\ autorizada = FALSE
  /\ ultima = [lista |-> 0, ativa |-> 0]
  /\ verba \in Orcamentos

Usa(q) == verba[q] > 0 /\ verba' = [verba EXCEPT ![q] = @ - 1]
-----------------------------------------------------------------------------
(* Criar and the board                                                       *)

Criar(admin) ==
  /\ rotina.status = "nenhuma"
  /\ rotina' = IF admin THEN [status |-> "ativa", aprovada |-> minuto]
               ELSE [rotina EXCEPT !.status = "aguardando"]
  /\ autorizada' = admin
  /\ ultima' = [ultima EXCEPT !.ativa = minuto]
  /\ UNCHANGED <<donoAtivo, minuto, execucao, correio, mao, agenda, desfaz, vezes,
                 lembretes, verba>>

\* the transitions of MudarStatus
Permite(acao, st) ==
  CASE acao \in {"aprovar", "rejeitar"} -> st = "aguardando"
    [] acao = "pausar"    -> st = "ativa"
    [] acao = "reativar"  -> st \in {"pausada", "desativada"} /\ donoAtivo
    [] acao = "desativar" -> st # "desativada"
Novo(acao) == CASE acao \in {"aprovar", "reativar"} -> "ativa"
                [] acao = "rejeitar"  -> "rejeitada"
                [] acao = "pausar"    -> "pausada"
                [] acao = "desativar" -> "desativada"

\* mutant: whoever owns the routine may reactivate it
SoDecidir(acao) == acao \in {"aprovar", "rejeitar"}
SoAdmin(acao) == acao \in {"aprovar", "rejeitar", "reativar"}

\* AcaoRotinaHandler and DesativarTodasDoUsuario, up to the SELECT of MudarStatus
AcaoLe(m, acao, admin) ==
  /\ mao[m].fase = "livre" /\ rotina.status # "nenhuma" /\ Usa("atos")
  /\ SoAdmin(acao) => admin
  /\ Permite(acao, rotina.status)
  /\ mao' = [mao EXCEPT ![m] = [fase |-> IF admin THEN "admin" ELSE "dono", acao |-> acao,
                                lido |-> rotina.status]]
  /\ UNCHANGED <<rotina, donoAtivo, minuto, execucao, correio, agenda, desfaz, feitos, ultima>>

\* the UPDATE goes by the id alone
Aplica(acao) ==
  /\ rotina' = [status |-> Novo(acao),
                aprovada |-> IF acao = "aprovar" THEN minuto ELSE rotina.aprovada]
  /\ ultima' = IF Novo(acao) = "ativa" THEN [ultima EXCEPT !.ativa = minuto] ELSE ultima
AcaoGrava(m) ==
  /\ mao[m].fase # "livre"
  /\ Aplica(mao[m].acao)
  /\ autorizada' = (autorizada \/ (mao[m].fase = "admin" /\ Novo(mao[m].acao) = "ativa"))
  /\ mao' = [mao EXCEPT ![m] = Solta]
  /\ UNCHANGED <<donoAtivo, minuto, execucao, correio, agenda, desfaz, vezes, lembretes, verba>>

DonoMuda ==
  /\ Usa("atos") /\ donoAtivo' = ~donoAtivo
  /\ UNCHANGED <<rotina, minuto, execucao, correio, mao, agenda, desfaz, feitos, ultima>>
-----------------------------------------------------------------------------
(* RodarDevidas                                                              *)

Passa(a, f) == agenda' = [agenda EXCEPT ![a].fase = f]

\* the routine of an owner who left is deactivated before the list
AgendaComeca(a) ==
  /\ agenda[a].fase = "parado"
  /\ Passa(a, IF ~donoAtivo /\ rotina.status \in {"ativa", "aguardando", "pausada"}
              THEN "desativa" ELSE "lista")
  /\ UNCHANGED <<rotina, donoAtivo, minuto, execucao, correio, mao, desfaz, feitos, ultima, verba>>
AgendaDesativa(a) ==
  /\ agenda[a].fase = "desativa"
  /\ IF Permite("desativar", rotina.status) THEN Aplica("desativar")
     ELSE UNCHANGED <<rotina, ultima>>
  /\ Passa(a, "lista")
  /\ UNCHANGED <<donoAtivo, minuto, execucao, correio, mao, desfaz, feitos, verba>>

\* the slots of the last Janela minutes, none before the approval; a routine of
\* one run has the minute of its approval
\* mutant: one minute less
DevidasCurtas == {s \in Horarios : minuto - Janela + 1 < s /\ s <= minuto /\ rotina.aprovada <= s}
Devidas == {s \in Horarios : minuto - Janela < s /\ s <= minuto /\ rotina.aprovada <= s}
Slots == IF rotina.status # "ativa" THEN {}
         ELSE IF verba.tipo = "recorrente" THEN Devidas
         ELSE {IF rotina.aprovada >= 0 THEN rotina.aprovada ELSE minuto}

AgendaLista(a) ==
  /\ agenda[a].fase = "lista"
  /\ agenda' = [agenda EXCEPT ![a] = [Parado EXCEPT !.fase = "fila", !.fila = Slots]]
  /\ ultima' = [ultima EXCEPT !.lista = minuto]
  /\ UNCHANGED <<rotina, donoAtivo, minuto, execucao, correio, mao, desfaz, feitos, verba>>

\* mutant: a run that did not end may be taken over
ReservarSeNaoAcabou(a, s) == execucao[s].st \in {"nao", "rodando"}
\* INSERT IGNORE under UNIQUE(id_rotina, slot)
Reserva(a, s) == execucao[s].st = "nao"

\* newest slot first; whoever inserts the row executes
Reservar(a) ==
  /\ agenda[a].fase = "fila" /\ agenda[a].fila # {}
  /\ LET s == CHOOSE x \in agenda[a].fila : \A y \in agenda[a].fila : y <= x IN
     IF Reserva(a, s)
     THEN /\ execucao' = [execucao EXCEPT ![s].st = "rodando"]
          /\ agenda' = [agenda EXCEPT ![a].fase = verba.op, ![a].slot = s, ![a].fila = @ \ {s}]
     ELSE /\ agenda' = [agenda EXCEPT ![a].fila = @ \ {s}] /\ UNCHANGED execucao
  /\ UNCHANGED <<rotina, donoAtivo, minuto, correio, mao, desfaz, feitos, ultima, verba>>

\* executar with a reminder: CriarLembrete
ExecutaLembrete(a) ==
  /\ agenda[a].fase = "lembrete"
  /\ lembretes' = [lembretes EXCEPT ![agenda[a].slot] = @ + 1]
  /\ vezes' = [vezes EXCEPT ![agenda[a].slot] = @ + 1]
  /\ Passa(a, "fim")
  /\ UNCHANGED <<rotina, donoAtivo, minuto, execucao, correio, mao, desfaz, autorizada,
                 ultima, verba>>

\* executar with e-mails: SincronizarEmails lists those without process, and links
\* them one by one
ListaOrfaos(a) ==
  /\ agenda[a].fase = "emails"
  /\ vezes' = [vezes EXCEPT ![agenda[a].slot] = @ + 1]
  /\ agenda' = [agenda EXCEPT ![a].fase = "vincula",
                  ![a].orfaos = {e \in Correios : correio[e] = SemAlvo}]
  /\ UNCHANGED <<rotina, donoAtivo, minuto, execucao, correio, mao, desfaz, lembretes,
                 autorizada, ultima, verba>>

\* mutant: UPDATE ... WHERE id_email = ?
EscreveSempre(e, p) == correio' = [correio EXCEPT ![e] = p]
\* UPDATE ... WHERE id_email = ? AND id_processo IS NULL
EscreveOrfao(e, p) == correio' = IF correio[e] = SemAlvo THEN [correio EXCEPT ![e] = p]
                                 ELSE correio

VinculaOrfao(a) ==
  /\ agenda[a].fase = "vincula" /\ agenda[a].orfaos # {}
  /\ \E e \in agenda[a].orfaos :
       \/ /\ agenda' = [agenda EXCEPT ![a].orfaos = @ \ {e}]   \* no evidence
          /\ UNCHANGED correio
       \/ \E p \in Alvos :
            /\ EscreveOrfao(e, p)
            /\ agenda' = [agenda EXCEPT ![a].orfaos = @ \ {e},
                  ![a].feitos = IF correio[e] = SemAlvo THEN @ \cup {<<e, p>>} ELSE @]
  /\ UNCHANGED <<rotina, donoAtivo, minuto, execucao, mao, desfaz, feitos, ultima, verba>>

ExecucaoTermina(a) ==
  /\ agenda[a].fase = "fim" \/ (agenda[a].fase = "vincula" /\ agenda[a].orfaos = {})
  /\ execucao' = [execucao EXCEPT ![agenda[a].slot] = [st |-> "ok", vinc |-> agenda[a].feitos]]
  /\ agenda' = [agenda EXCEPT ![a].feitos = {}, ![a].slot = 0,
                  ![a].fase = IF verba.tipo = "unica" THEN "conclui" ELSE "fila"]
  /\ UNCHANGED <<rotina, donoAtivo, minuto, correio, mao, desfaz, feitos, ultima, verba>>
ConcluiUnica(a) ==
  /\ agenda[a].fase = "conclui"
  /\ rotina' = IF rotina.status = "ativa" THEN [rotina EXCEPT !.status = "concluida"] ELSE rotina
  /\ Passa(a, "fila")
  /\ UNCHANGED <<donoAtivo, minuto, execucao, correio, mao, desfaz, feitos, ultima, verba>>
AgendaTermina(a) ==
  /\ agenda[a].fase = "fila" /\ agenda[a].fila = {}
  /\ agenda' = [agenda EXCEPT ![a] = Parado]
  /\ UNCHANGED <<rotina, donoAtivo, minuto, execucao, correio, mao, desfaz, feitos, ultima, verba>>

AgendaCai(a) ==
  /\ agenda[a].fase # "parado" /\ verba.quedas > 0
  /\ verba' = [verba EXCEPT !.quedas = @ - 1, !.caiu = TRUE]
  /\ agenda' = [agenda EXCEPT ![a] = Parado]
  /\ UNCHANGED <<rotina, donoAtivo, minuto, execucao, correio, mao, desfaz, feitos, ultima>>
-----------------------------------------------------------------------------
(* DesfazerExecucao                                                          *)

DesfazerLe(s) ==
  /\ desfaz.fase = "livre" /\ execucao[s].st # "desfeita" /\ execucao[s].vinc # {}
  /\ Usa("desfazer")
  /\ desfaz' = [fase |-> "leu", slot |-> s, vinc |-> execucao[s].vinc]
  /\ UNCHANGED <<rotina, donoAtivo, minuto, execucao, correio, mao, agenda, feitos, ultima>>
DesfazerUm ==
  /\ desfaz.fase = "leu"
  /\ \E v \in desfaz.vinc :
       /\ correio' = IF correio[v[1]] = v[2] THEN [correio EXCEPT ![v[1]] = SemAlvo] ELSE correio
       /\ desfaz' = [desfaz EXCEPT !.vinc = @ \ {v}]
  /\ UNCHANGED <<rotina, donoAtivo, minuto, execucao, mao, agenda, feitos, ultima, verba>>
DesfazerMarca ==
  /\ desfaz.fase = "leu" /\ desfaz.vinc = {}
  /\ execucao' = [execucao EXCEPT ![desfaz.slot].st = "desfeita"]
  /\ desfaz' = NaoUsa
  /\ UNCHANGED <<rotina, donoAtivo, minuto, correio, mao, agenda, feitos, ultima, verba>>
-----------------------------------------------------------------------------
\* an e-mail gets its process by other means
Vincula(e, p) ==
  /\ correio[e] # p /\ Usa("atos")
  /\ correio' = [correio EXCEPT ![e] = p]
  /\ UNCHANGED <<rotina, donoAtivo, minuto, execucao, mao, agenda, desfaz, feitos, ultima>>

\* the scheduler is down for less than it looks back
Minuto ==
  /\ minuto < MaxMinuto /\ minuto + 1 - ultima.lista < Janela
  /\ minuto' = minuto + 1
  /\ UNCHANGED <<rotina, donoAtivo, execucao, correio, mao, agenda, desfaz, feitos, ultima, verba>>

PassoDaAgenda(a) ==
  \/ AgendaComeca(a) \/ AgendaDesativa(a) \/ AgendaLista(a) \/ Reservar(a)
  \/ ExecutaLembrete(a) \/ ListaOrfaos(a) \/ VinculaOrfao(a) \/ ExecucaoTermina(a)
  \/ ConcluiUnica(a) \/ AgendaTermina(a)

RotNext ==
  \/ \E admin \in BOOLEAN : Criar(admin)
  \/ \E m \in Maos : \/ AcaoGrava(m)
                     \/ \E acao \in Acoes, admin \in BOOLEAN : AcaoLe(m, acao, admin)
  \/ DonoMuda \/ Minuto
  \/ \E a \in Agendadores : PassoDaAgenda(a) \/ AgendaCai(a)
  \/ \E s \in Minutos : DesfazerLe(s)
  \/ DesfazerUm \/ DesfazerMarca
  \/ \E e \in Correios, p \in Alvos : Vincula(e, p)

RotSpec == RotInit /\ [][RotNext]_rotVars
-----------------------------------------------------------------------------
(* A slot is executed at most once, with two runs of the scheduler under way *)
(* and whatever crashes (rotinas.go:388, "UNIQUE(id_rotina, slot) garante    *)
(* uma só rodada por horário").                                              *)
UmaRodadaPorHorario == \A s \in Minutos : vezes[s] <= 1

(* Whatever two requests of the board read and write across each other, and  *)
(* across the scheduler, a routine has run only after an administrator let   *)
(* it run (rotinas_handler.go:149, rotinas.go:220-236).                      *)
SoRodaAutorizada == (\E s \in Minutos : vezes[s] > 0) => autorizada

(* A slot that leaves the window was taken, if the routine was active all    *)
(* along and no backend crashed with the slot in hand (rotinas.go:386-388,   *)
(* 417-428).                                                                 *)
HorarioNaoSePerde ==
  verba.tipo = "recorrente" /\ rotina.status = "ativa" /\ ~verba.caiu =>
    \A s \in Horarios : ultima.ativa <= s /\ s + Janela <= minuto =>
      \/ execucao[s].st # "nao"
      \/ \E a \in Agendadores : s \in agenda[a].fila

(* The automation changes no link it finds: between its list and its UPDATE  *)
(* an e-mail may have got one (rotinas.go:607, "Nunca mexe em e-mail que já  *)
(* tem vínculo").                                                            *)
NuncaSobrescreveVinculo ==
  [][agenda' # agenda => \A e \in Correios : correio[e] # SemAlvo => correio'[e] = correio[e]]_rotVars
=============================================================================
