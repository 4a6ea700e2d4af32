----------------------------- MODULE TarefasAvisos -----------------------------
(* The tasks that a change of an ANEEL protocol creates, who answers for     *)
(* them, and the notices on the screen. A notice carries no task: it is a    *)
(* text, and handlers find "the task's" notices by the protocol in it.       *)
EXTENDS Integers, FiniteSets

CONSTANTS Pessoas, Admins, TarefasT,
          ProtocoloDe,    \* protocol of each task
          MaxMudancas,    \* bound: redirections
          MaxACaminho,    \* bound: notices under way when a task is born
          MaxPerdas       \* bound: notices that are not written

VARIABLES
  tarefaT,    \* FT_TAREFAS: responsible, ciente_em, status
  avisosT,    \* unread rows of FT_ALERTAS: reader, task they speak of, kind
  aCaminho,   \* notices of a new task that are still to be written
  perdidos,   \* "nova" notices whose INSERT failed, or whose backend died before it
  tela,       \* each person's request between two of its statements
  quemCiente, \* who pressed the button that set ciente_em
  apertou,    \* <<person, protocol>> of every TarefaCiente or TarefaAssumir
  lidosUm,    \* "nova" notices read one by one
  mudancas

avVars == <<tarefaT, avisosT, aCaminho, perdidos, tela, quemCiente,
            apertou, lidosUm, mudancas>>

NinguemT == "ninguem"
ASSUME AvisosOK ==
  /\ Admins \subseteq Pessoas /\ NinguemT \notin Pessoas
  /\ DOMAIN ProtocoloDe = TarefasT
  /\ MaxMudancas \in Nat /\ MaxACaminho \in Nat /\ MaxPerdas \in Nat

Aviso(u, t, k) == [quem |-> u, tarefa |-> t, tipo |-> k]
TelaLivre == [passo |-> "livre", tarefa |-> {}, para |-> NinguemT]
Naquela(u, p, t, para) == tela' = [tela EXCEPT ![u] = [passo |-> p, tarefa |-> {t}, para |-> para]]
LiberaTela(u) == tela' = [tela EXCEPT ![u] = TelaLivre]
TarefaDe(u) == CHOOSE t \in TarefasT : t \in tela[u].tarefa

AvInit ==
  /\ tarefaT = [t \in TarefasT |-> [resp |-> NinguemT, ciente |-> FALSE, status |-> "nenhum"]]
  /\ avisosT = {} /\ aCaminho = {} /\ perdidos = {}
  /\ tela = [u \in Pessoas |-> TelaLivre]
  /\ quemCiente = [t \in TarefasT |-> NinguemT]
  /\ apertou = {} /\ lidosUm = {} /\ mudancas = 0

\* NotificarNoSistema: an INSERT that fails is only logged
Notifica(n) ==
  \/ /\ avisosT' = avisosT \cup {n} /\ lidosUm' = lidosUm \ {n}
     /\ perdidos' = perdidos \ {n}
  \/ /\ Cardinality(perdidos) < MaxPerdas
     /\ perdidos' = perdidos \cup {x \in {n} : x.tipo = "nova"}
     /\ UNCHANGED <<avisosT, lidosUm>>

\* tarefaDaMudanca: the row, and then the notice to the responsible or to each admin
TarefaNasce(t) ==
  /\ tarefaT[t].status = "nenhum" /\ Cardinality(aCaminho) < MaxACaminho
  /\ \E r \in Pessoas \cup {NinguemT} :
       /\ tarefaT' = [tarefaT EXCEPT ![t] = [resp |-> r, ciente |-> FALSE, status |-> "aberta"]]
       /\ aCaminho' = aCaminho \cup
            (IF r = NinguemT THEN {Aviso(a, t, "sem responsavel") : a \in Admins}
             ELSE {Aviso(r, t, "nova")})
  /\ UNCHANGED <<avisosT, perdidos, tela, quemCiente, apertou, lidosUm, mudancas>>
NasceNotifica ==
  /\ \E n \in aCaminho : Notifica(n) /\ aCaminho' = aCaminho \ {n}
  /\ UNCHANGED <<tarefaT, tela, quemCiente, apertou, mudancas>>

\* DirecionarTarefa: the UPDATE, and then the notice, also when nothing was updated
DirecionaTarefa(a, t, r) ==
  /\ a \in Admins /\ tela[a] = TelaLivre /\ tarefaT[t].status # "nenhum"
  /\ mudancas < MaxMudancas /\ mudancas' = mudancas + 1
  /\ tarefaT' = IF tarefaT[t].status = "concluida" THEN tarefaT
                ELSE [tarefaT EXCEPT ![t] = [resp |-> r, ciente |-> FALSE, status |-> "aberta"]]
  /\ Naquela(a, "notifica", t, r)
  /\ UNCHANGED <<aCaminho, perdidos, avisosT, quemCiente, apertou, lidosUm>>
DirecionaNotifica(a) ==
  /\ tela[a].passo = "notifica"
  /\ Notifica(Aviso(tela[a].para, TarefaDe(a), "nova"))
  /\ LiberaTela(a)
  /\ UNCHANGED <<tarefaT, aCaminho, quemCiente, apertou, mudancas>>

ConcluiTarefa(u, t) ==
  /\ tela[u] = TelaLivre /\ tarefaT[t].status = "aberta"
  /\ u \in Admins \/ tarefaT[t].resp = u
  /\ tarefaT' = [tarefaT EXCEPT ![t].status = "concluida"]
  /\ UNCHANGED <<aCaminho, perdidos, avisosT, tela, quemCiente, apertou, lidosUm, mudancas>>

\* TarefaCiente: the responsible is read, the UPDATE names him again, and then the notices
CienteLe(u, t) ==
  /\ tela[u] = TelaLivre /\ tarefaT[t].resp = u
  /\ Naquela(u, "ciente", t, u)
  /\ UNCHANGED <<aCaminho, perdidos, tarefaT, avisosT, quemCiente, apertou, lidosUm, mudancas>>
\* mutant: the UPDATE trusts what was read
CienteConfia(u) ==
  /\ tela[u].passo = "ciente"
  /\ LET t == TarefaDe(u) IN
     IF ~tarefaT[t].ciente
     THEN /\ tarefaT' = [tarefaT EXCEPT ![t].ciente = TRUE]
          /\ quemCiente' = [quemCiente EXCEPT ![t] = u]
     ELSE UNCHANGED <<tarefaT, quemCiente>>
  /\ Naquela(u, "avisos", TarefaDe(u), u)
  /\ UNCHANGED <<aCaminho, perdidos, avisosT, apertou, lidosUm, mudancas>>
CienteGrava(u) ==
  /\ tela[u].passo = "ciente"
  /\ LET t == TarefaDe(u) IN
     IF tarefaT[t].resp = u /\ ~tarefaT[t].ciente
     THEN /\ tarefaT' = [tarefaT EXCEPT ![t].ciente = TRUE]
          /\ quemCiente' = [quemCiente EXCEPT ![t] = u]
     ELSE UNCHANGED <<tarefaT, quemCiente>>
  /\ Naquela(u, "avisos", TarefaDe(u), u)
  /\ UNCHANGED <<aCaminho, perdidos, avisosT, apertou, lidosUm, mudancas>>
\* mutant: darCienteAvisosDaTarefa without the reader
DoProtocoloDeTodos(u, p) == {a \in avisosT : ProtocoloDe[a.tarefa] = p}
DoProtocolo(u, p) == {a \in avisosT : a.quem = u /\ ProtocoloDe[a.tarefa] = p}
CienteAvisos(u) ==
  /\ tela[u].passo = "avisos"
  /\ LET p == ProtocoloDe[TarefaDe(u)] IN
     /\ avisosT' = avisosT \ DoProtocolo(u, p)
     /\ apertou' = apertou \cup {<<u, p>>}
  /\ LiberaTela(u)
  /\ UNCHANGED <<aCaminho, perdidos, tarefaT, quemCiente, lidosUm, mudancas>>

\* TarefaAssumir: the row if nobody has it, the admins' notices, one's own notices
TarefaAssumir(u, t) ==
  /\ tela[u] = TelaLivre /\ tarefaT[t].status = "aberta" /\ tarefaT[t].resp = NinguemT
  /\ tarefaT' = [tarefaT EXCEPT ![t] = [@ EXCEPT !.resp = u, !.ciente = TRUE]]
  /\ quemCiente' = [quemCiente EXCEPT ![t] = u]
  /\ Naquela(u, "assumiu", t, u)
  /\ UNCHANGED <<aCaminho, perdidos, avisosT, apertou, lidosUm, mudancas>>
AssumeAvisos(u) ==
  /\ tela[u].passo = "assumiu"
  /\ LET p == ProtocoloDe[TarefaDe(u)] IN
     avisosT' = avisosT \ {a \in avisosT : a.tipo = "sem responsavel" /\ ProtocoloDe[a.tarefa] = p}
  /\ Naquela(u, "avisos", TarefaDe(u), u)
  /\ UNCHANGED <<aCaminho, perdidos, tarefaT, quemCiente, apertou, lidosUm, mudancas>>

\* AvisoCiente: one at a time, by its owner
AvisoCiente(u) ==
  /\ tela[u] = TelaLivre
  /\ \E a \in avisosT :
       /\ a.quem = u /\ avisosT' = avisosT \ {a}
       /\ lidosUm' = lidosUm \cup {x \in {a} : x.tipo = "nova"}
  /\ UNCHANGED <<aCaminho, perdidos, tarefaT, tela, quemCiente, apertou, mudancas>>

AvNext ==
  \/ NasceNotifica
  \/ \E t \in TarefasT : TarefaNasce(t)
  \/ \E u \in Pessoas, t \in TarefasT :
       \/ (\E r \in Pessoas : DirecionaTarefa(u, t, r))
       \/ ConcluiTarefa(u, t) \/ CienteLe(u, t) \/ TarefaAssumir(u, t)
  \/ \E u \in Pessoas : DirecionaNotifica(u) \/ CienteGrava(u) \/ CienteAvisos(u)
                        \/ AssumeAvisos(u) \/ AvisoCiente(u)

AvSpec == AvInit /\ [][AvNext]_avVars
-----------------------------------------------------------------------------
(* The "ciente" on a task is the present responsible's own, though the task  *)
(* may be redirected between the check and the UPDATE                        *)
(* (avisos_handler.go:98-119, 123-143, protocolos_aneel_handler.go:495).     *)
CienteDoResponsavel == \A t \in TarefasT : tarefaT[t].ciente => quemCiente[t] = tarefaT[t].resp

(* The responsible of an open task he has not acknowledged has a notice      *)
(* waiting, unless it is on its way to him, could not be written, or he      *)
(* himself closed notices of that protocol: nobody else's button silences    *)
(* him (avisos_handler.go:85-93, protocolos_aneel_handler.go:495-513,        *)
(* protocolos.go:606-620, rotinas.go:140-151).                               *)
ResponsavelAvisado ==
  \A t \in TarefasT :
    LET r == tarefaT[t].resp IN
    (tarefaT[t].status = "aberta" /\ r # NinguemT /\ ~tarefaT[t].ciente) =>
      \/ Aviso(r, t, "nova") \in avisosT \cup lidosUm \cup aCaminho \cup perdidos
      \/ <<r, ProtocoloDe[t]>> \in apertou
      \/ \E a \in Admins : tela[a] = [passo |-> "notifica", tarefa |-> {t}, para |-> r]
=============================================================================
