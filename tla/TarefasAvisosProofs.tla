-------------------------- MODULE TarefasAvisosProofs --------------------------
(* TarefasAvisos for any people, tasks, protocols and number of              *)
(* redirections and of notices under way or not written: an acknowledgement  *)
(* is the responsible's own, and nobody else's button leaves him without a   *)
(* notice.                                                                   *)
EXTENDS TarefasAvisos, TLAPS

Alguem == Pessoas \cup {NinguemT}
TarefaTipo == [resp : Alguem, ciente : BOOLEAN, status : {"nenhum", "aberta", "concluida"}]
TelaTipo == [passo : {"livre", "notifica", "ciente", "avisos", "assumiu"},
             tarefa : {{}} \cup {{t} : t \in TarefasT}, para : Alguem]

(* Tasks, screens and acknowledgements keep their form.                      *)
AvTipo ==
  /\ tarefaT \in [TarefasT -> TarefaTipo]
  /\ tela \in [Pessoas -> TelaTipo]
  /\ quemCiente \in [TarefasT -> Alguem]
  /\ \A u \in Pessoas : tela[u].passo # "livre" => \E t \in TarefasT : tela[u].tarefa = {t}

(* A screen that is in the middle of something speaks of exactly one task.   *)
LEMMA UmaTarefa ==
  ASSUME NEW u \in Pessoas, NEW t \in TarefasT, tela[u].tarefa = {t}
  PROVE  TarefaDe(u) = t
BY DEF TarefaDe

(* What a screen shows in the middle of its request keeps the form of tela.  *)
LEMMA TelaMuda ==
  ASSUME AvTipo, NEW u \in Pessoas, NEW t \in TarefasT, NEW r \in Alguem,
         NEW p \in {"notifica", "ciente", "avisos", "assumiu"}, Naquela(u, p, t, r)
  PROVE  /\ tela' \in [Pessoas -> TelaTipo]
         /\ \A v \in Pessoas : tela'[v].passo # "livre" => \E x \in TarefasT : tela'[v].tarefa = {x}
<1>1. [passo |-> p, tarefa |-> {t}, para |-> r] \in TelaTipo
  BY DEF TelaTipo
<1>2. tela' \in [Pessoas -> TelaTipo]
  BY <1>1 DEF AvTipo, Naquela
<1>3. tela'[u].tarefa = {t} /\ \A v \in Pessoas \ {u} : tela'[v] = tela[v]
  BY DEF AvTipo, Naquela
<1> QED
  BY <1>2, <1>3 DEF AvTipo

\* A screen that goes back to rest is well formed.
LEMMA TelaVolta ==
  ASSUME AvTipo, NEW u \in Pessoas, LiberaTela(u)
  PROVE  /\ tela' \in [Pessoas -> TelaTipo]
         /\ \A v \in Pessoas : tela'[v].passo # "livre" => \E x \in TarefasT : tela'[v].tarefa = {x}
<1>1. TelaLivre \in TelaTipo /\ TelaLivre.passo = "livre"
  BY DEF TelaTipo, TelaLivre, Alguem
<1>2. tela' = [tela EXCEPT ![u] = TelaLivre]
  BY DEF LiberaTela
<1> QED
  BY <1>1, <1>2 DEF AvTipo

(* Every step keeps the form of the rows and of the screens                  *)
(* (avisos_handler.go, protocolos_aneel_handler.go).                         *)
THEOREM AvisosBemFormados == AvSpec => []AvTipo
<1> USE DEF Alguem
<1>1. AvInit => AvTipo
  BY DEF AvInit, AvTipo, TarefaTipo, TelaTipo, TelaLivre
<1>2. AvTipo /\ [AvNext]_avVars => AvTipo'
  <2> SUFFICES ASSUME AvTipo, [AvNext]_avVars PROVE AvTipo'
    OBVIOUS
  <2>1. CASE UNCHANGED avVars
    BY <2>1 DEF AvTipo, avVars
  <2>2. ASSUME NEW t \in TarefasT, TarefaNasce(t) PROVE AvTipo'
    <3>1. PICK r \in Alguem : tarefaT' = [tarefaT EXCEPT ![t] = [resp |-> r, ciente |-> FALSE, status |-> "aberta"]]
      BY <2>2 DEF TarefaNasce
    <3>2. [resp |-> r, ciente |-> FALSE, status |-> "aberta"] \in TarefaTipo
      BY DEF TarefaTipo
    <3> QED
      BY <2>2, <3>1, <3>2 DEF AvTipo, TarefaNasce
  <2>3. ASSUME NEW a \in Pessoas, NEW t \in TarefasT, NEW r \in Pessoas, DirecionaTarefa(a, t, r)
        PROVE AvTipo'
    <3>1. tarefaT' \in [TarefasT -> TarefaTipo]
      BY <2>3 DEF AvTipo, DirecionaTarefa, TarefaTipo
    <3> QED
      BY <2>3, <3>1, TelaMuda DEF AvTipo, DirecionaTarefa
  <2>4. ASSUME NEW u \in Pessoas, NEW t \in TarefasT, ConcluiTarefa(u, t) PROVE AvTipo'
    BY <2>4 DEF AvTipo, ConcluiTarefa, TarefaTipo
  <2>5. ASSUME NEW u \in Pessoas, NEW t \in TarefasT, CienteLe(u, t) PROVE AvTipo'
    BY <2>5, TelaMuda DEF AvTipo, CienteLe
  <2>6. ASSUME NEW u \in Pessoas, NEW t \in TarefasT, TarefaAssumir(u, t) PROVE AvTipo'
    <3>1. tarefaT' \in [TarefasT -> TarefaTipo] /\ quemCiente' \in [TarefasT -> Alguem]
      BY <2>6 DEF AvTipo, TarefaAssumir, TarefaTipo
    <3> QED
      BY <2>6, <3>1, TelaMuda DEF AvTipo, TarefaAssumir
  <2>7. ASSUME NEW u \in Pessoas, DirecionaNotifica(u) PROVE AvTipo'
    BY <2>7, TelaVolta DEF AvTipo, DirecionaNotifica
  <2>8. ASSUME NEW u \in Pessoas, CienteGrava(u) PROVE AvTipo'
    <3>1. PICK t \in TarefasT : tela[u].tarefa = {t}
      BY <2>8 DEF AvTipo, CienteGrava
    <3>2. TarefaDe(u) = t
      BY <3>1, UmaTarefa
    <3>3. tarefaT' \in [TarefasT -> TarefaTipo] /\ quemCiente' \in [TarefasT -> Alguem]
      <4>1. \/ /\ tarefaT' = [tarefaT EXCEPT ![t].ciente = TRUE]
               /\ quemCiente' = [quemCiente EXCEPT ![t] = u]
            \/ tarefaT' = tarefaT /\ quemCiente' = quemCiente
        BY <2>8, <3>2 DEF CienteGrava
      <4>2. [tarefaT EXCEPT ![t].ciente = TRUE] \in [TarefasT -> TarefaTipo]
        BY DEF AvTipo, TarefaTipo
      <4>3. [quemCiente EXCEPT ![t] = u] \in [TarefasT -> Alguem]
        BY DEF AvTipo
      <4> QED
        BY <4>1, <4>2, <4>3 DEF AvTipo
    <3> QED
      BY <2>8, <3>2, <3>3, TelaMuda DEF AvTipo, CienteGrava
  <2>9. ASSUME NEW u \in Pessoas, CienteAvisos(u) PROVE AvTipo'
    BY <2>9, TelaVolta DEF AvTipo, CienteAvisos
  <2>10. ASSUME NEW u \in Pessoas, AssumeAvisos(u) PROVE AvTipo'
    <3>1. PICK t \in TarefasT : tela[u].tarefa = {t}
      BY <2>10 DEF AvTipo, AssumeAvisos
    <3>2. TarefaDe(u) = t
      BY <3>1, UmaTarefa
    <3> QED
      BY <2>10, <3>2, TelaMuda DEF AvTipo, AssumeAvisos
  <2>11. ASSUME NEW u \in Pessoas, AvisoCiente(u) PROVE AvTipo'
    BY <2>11 DEF AvTipo, AvisoCiente
  <2>12. CASE NasceNotifica
    BY <2>12 DEF AvTipo, NasceNotifica
  <2> QED
    BY <2>1, <2>2, <2>3, <2>4, <2>5, <2>6, <2>7, <2>8, <2>9, <2>10, <2>11, <2>12 DEF AvNext
<1> QED
  BY <1>1, <1>2, PTL DEF AvSpec

(* Whoever acknowledged is who answers for the task now: a redirection       *)
(* between the check and the UPDATE does not let the old responsible's click *)
(* count (avisos_handler.go:98-119, protocolos_aneel_handler.go:495).        *)
THEOREM CienteSempreDoResponsavel == AvSpec => []CienteDoResponsavel
<1>1. AvInit => CienteDoResponsavel
  BY DEF AvInit, CienteDoResponsavel
<1>2. AvTipo /\ CienteDoResponsavel /\ [AvNext]_avVars => CienteDoResponsavel'
  <2> SUFFICES ASSUME AvTipo, CienteDoResponsavel, [AvNext]_avVars PROVE CienteDoResponsavel'
    OBVIOUS
  <2>1. CASE tarefaT' = tarefaT /\ quemCiente' = quemCiente
    BY <2>1 DEF CienteDoResponsavel
  <2> USE DEF CienteDoResponsavel, AvTipo
  <2>2. ASSUME NEW t \in TarefasT, TarefaNasce(t) PROVE CienteDoResponsavel'
    <3>1. PICK r \in Alguem : tarefaT' = [tarefaT EXCEPT ![t] = [resp |-> r, ciente |-> FALSE, status |-> "aberta"]]
      BY <2>2 DEF TarefaNasce, Alguem
    <3>2. quemCiente' = quemCiente
      BY <2>2 DEF TarefaNasce
    <3> QED
      BY <3>1, <3>2
  <2>3. ASSUME NEW a \in Pessoas, NEW t \in TarefasT, NEW r \in Pessoas, DirecionaTarefa(a, t, r)
        PROVE CienteDoResponsavel'
    BY <2>3 DEF DirecionaTarefa
  <2>4. ASSUME NEW u \in Pessoas, NEW t \in TarefasT, ConcluiTarefa(u, t) PROVE CienteDoResponsavel'
    <3> DEFINE D == [tarefaT EXCEPT ![t].status = "concluida"]
    <3>1. \A x \in TarefasT : D[x].ciente = tarefaT[x].ciente /\ D[x].resp = tarefaT[x].resp
      BY DEF TarefaTipo
    <3>2. tarefaT' = D /\ quemCiente' = quemCiente
      BY <2>4 DEF ConcluiTarefa
    <3> QED
      BY <3>1, <3>2
  <2>5. ASSUME NEW u \in Pessoas, NEW t \in TarefasT, TarefaAssumir(u, t) PROVE CienteDoResponsavel'
    <3> DEFINE D == [tarefaT EXCEPT ![t] = [@ EXCEPT !.resp = u, !.ciente = TRUE]]
    <3>1. D[t].resp = u /\ \A x \in TarefasT \ {t} : D[x] = tarefaT[x]
      BY DEF TarefaTipo
    <3>2. tarefaT' = D /\ quemCiente' = [quemCiente EXCEPT ![t] = u]
      BY <2>5 DEF TarefaAssumir
    <3> QED
      BY <3>1, <3>2
  <2>6. ASSUME NEW u \in Pessoas, CienteGrava(u) PROVE CienteDoResponsavel'
    <3>1. PICK t \in TarefasT : tela[u].tarefa = {t}
      BY <2>6 DEF CienteGrava
    <3>2. TarefaDe(u) = t
      BY <3>1, UmaTarefa
    <3>3. CASE tarefaT[t].resp = u /\ ~tarefaT[t].ciente
      <4> DEFINE D == [tarefaT EXCEPT ![t].ciente = TRUE]
      <4>1. D[t].resp = u /\ \A x \in TarefasT \ {t} : D[x] = tarefaT[x]
        BY <3>3 DEF TarefaTipo
      <4>2. tarefaT' = D /\ quemCiente' = [quemCiente EXCEPT ![t] = u]
        BY <2>6, <3>2, <3>3 DEF CienteGrava
      <4> QED
        BY <4>1, <4>2
    <3>4. CASE ~(tarefaT[t].resp = u /\ ~tarefaT[t].ciente)
      BY <2>1, <2>6, <3>2, <3>4 DEF CienteGrava
    <3> QED
      BY <3>3, <3>4
  <2> QED
    BY <2>1, <2>2, <2>3, <2>4, <2>5, <2>6
       DEF AvNext, avVars, NasceNotifica, CienteLe, DirecionaNotifica, CienteAvisos, AssumeAvisos,
           AvisoCiente
<1> QED
  BY <1>1, <1>2, AvisosBemFormados, PTL DEF AvSpec

(* A notice that is written stays somewhere, and one that is not is          *)
(* remembered (rotinas.go:140-151).                                          *)
LEMMA NotificaGuarda ==
  ASSUME NEW n, Notifica(n)
  PROVE  /\ avisosT \cup lidosUm \cup perdidos \subseteq avisosT' \cup lidosUm' \cup perdidos'
         /\ n.tipo = "nova" => n \in avisosT' \cup perdidos'
<1>1. CASE /\ avisosT' = avisosT \cup {n} /\ lidosUm' = lidosUm \ {n}
           /\ perdidos' = perdidos \ {n}
  BY <1>1
<1>2. CASE /\ perdidos' = perdidos \cup {x \in {n} : x.tipo = "nova"}
           /\ UNCHANGED <<avisosT, lidosUm>>
  BY <1>2
<1> QED
  BY <1>1, <1>2 DEF Notifica

(* The responsible of an open task that he has not acknowledged has its      *)
(* notice, or it is on its way to him, or could not be written, or he        *)
(* pressed a button for that protocol (avisos_handler.go:85-181).            *)
THEOREM SempreResponsavelAvisado == AvSpec => []ResponsavelAvisado
<1>1. AvInit => ResponsavelAvisado
  BY DEF AvInit, ResponsavelAvisado
<1>2. AvTipo /\ ResponsavelAvisado /\ [AvNext]_avVars => ResponsavelAvisado'
  <2> SUFFICES ASSUME AvTipo, ResponsavelAvisado, [AvNext]_avVars, NEW t \in TarefasT,
                      (tarefaT[t].status = "aberta" /\ tarefaT[t].resp # NinguemT /\ ~tarefaT[t].ciente)',
                      AvisosOK
               PROVE  (\/ Aviso(tarefaT[t].resp, t, "nova") \in avisosT \cup lidosUm \cup aCaminho \cup perdidos
                       \/ <<tarefaT[t].resp, ProtocoloDe[t]>> \in apertou
                       \/ \E a \in Admins : tela[a] = [passo |-> "notifica", tarefa |-> {t},
                                                       para |-> tarefaT[t].resp])'
    BY AvisosOK DEF ResponsavelAvisado
  <2> DEFINE R == tarefaT[t].resp
             Pendente == tarefaT[t].status = "aberta" /\ R # NinguemT /\ ~tarefaT[t].ciente
             Aviso1 == Aviso(R, t, "nova") \in avisosT \cup lidosUm \cup aCaminho \cup perdidos
             Guardados == aCaminho' = aCaminho /\ perdidos' = perdidos
             Apertou1 == <<R, ProtocoloDe[t]>> \in apertou
             ACaminho == \E a \in Admins : tela[a] = [passo |-> "notifica", tarefa |-> {t}, para |-> R]
             Certo == Aviso1 \/ Apertou1 \/ ACaminho
  <2>0. SUFFICES Certo'
    OBVIOUS
  <2>1. Pendente => Certo
    BY DEF ResponsavelAvisado
  \* a screen that begins or ends another request than "notifica" changes no notice on its way
  <2>2. ASSUME NEW u \in Pessoas, tela[u].passo # "notifica", tarefaT'[t].resp = R, ACaminho,
               \A v \in Pessoas \ {u} : tela'[v] = tela[v]
        PROVE  ACaminho'
    <3>1. PICK a \in Admins : tela[a] = [passo |-> "notifica", tarefa |-> {t}, para |-> R]
      BY <2>2
    <3>2. a \in Pessoas \ {u}
      BY <2>2, <3>1 DEF AvisosOK
    <3> QED
      BY <2>2, <3>1, <3>2
  <2>3. CASE UNCHANGED avVars
    BY <2>1, <2>3 DEF avVars
  <2>4. ASSUME NEW x \in TarefasT, TarefaNasce(x) PROVE Certo'
    <3>1. PICK r \in Alguem :
             /\ tarefaT' = [tarefaT EXCEPT ![x] = [resp |-> r, ciente |-> FALSE, status |-> "aberta"]]
             /\ aCaminho' = aCaminho \cup (IF r = NinguemT THEN {Aviso(a, x, "sem responsavel") : a \in Admins}
                                           ELSE {Aviso(r, x, "nova")})
      BY <2>4 DEF TarefaNasce, Alguem
    <3>2. /\ tela' = tela /\ apertou' = apertou /\ lidosUm' = lidosUm
          /\ avisosT' = avisosT /\ perdidos' = perdidos
      BY <2>4 DEF TarefaNasce
    <3>3. CASE x = t
      <4>1. tarefaT'[t].resp = r
        BY <3>1, <3>3 DEF AvTipo
      <4>2. r # NinguemT
        BY <4>1
      <4>3. Aviso(r, t, "nova") \in aCaminho'
        BY <3>1, <3>3, <4>2
      <4> QED
        BY <4>1, <4>3
    <3>4. CASE x # t
      BY <2>1, <3>1, <3>2, <3>4 DEF AvTipo
    <3> QED
      BY <3>3, <3>4
  <2>5. ASSUME NEW u \in Pessoas, NEW x \in TarefasT, NEW r \in Pessoas, DirecionaTarefa(u, x, r)
        PROVE Certo'
    <3>1. /\ tela' = [tela EXCEPT ![u] = [passo |-> "notifica", tarefa |-> {x}, para |-> r]]
          /\ u \in Admins /\ tela[u].passo # "notifica"
          /\ avisosT' = avisosT /\ apertou' = apertou /\ lidosUm' = lidosUm /\ Guardados
      BY <2>5 DEF DirecionaTarefa, Naquela, TelaLivre
    <3>2. \A v \in Pessoas \ {u} : tela'[v] = tela[v]
      BY <3>1 DEF AvTipo
    <3>3. CASE x = t /\ tarefaT[t].status # "concluida"
      <4>1. tarefaT'[t].resp = r
        BY <2>5, <3>3 DEF DirecionaTarefa, AvTipo
      <4>2. tela'[u] = [passo |-> "notifica", tarefa |-> {t}, para |-> r]
        BY <3>1, <3>3 DEF AvTipo
      <4> QED
        BY <3>1, <4>1, <4>2
    <3>4. CASE ~(x = t /\ tarefaT[t].status # "concluida")
      <4>1. tarefaT'[t] = tarefaT[t]
        BY <2>5, <3>4 DEF DirecionaTarefa, AvTipo
      <4> QED
        BY <2>1, <2>2, <3>1, <3>2, <4>1
    <3> QED
      BY <3>3, <3>4
  <2>6. ASSUME NEW u \in Pessoas, DirecionaNotifica(u) PROVE Certo'
    <3>1. PICK x \in TarefasT : tela[u].tarefa = {x}
      BY <2>6 DEF AvTipo, DirecionaNotifica
    <3>2. TarefaDe(u) = x
      BY <3>1, UmaTarefa
    <3> DEFINE novo == Aviso(tela[u].para, x, "nova")
    <3>3. /\ Notifica(novo) /\ tela' = [tela EXCEPT ![u] = TelaLivre]
          /\ tarefaT' = tarefaT /\ apertou' = apertou /\ aCaminho' = aCaminho
      BY <2>6, <3>2 DEF DirecionaNotifica, LiberaTela
    <3>a. /\ avisosT \cup lidosUm \cup perdidos \subseteq avisosT' \cup lidosUm' \cup perdidos'
          /\ novo \in avisosT' \cup perdidos'
      <4>1. novo.tipo = "nova"
        BY DEF Aviso
      <4> HIDE DEF novo
      <4> QED
        BY <3>3, <4>1, NotificaGuarda
    <3>4. CASE Aviso1 \/ Apertou1
      BY <3>3, <3>a, <3>4
    <3>5. CASE ACaminho
      <4>1. PICK a \in Admins : tela[a] = [passo |-> "notifica", tarefa |-> {t}, para |-> R]
        BY <3>5
      <4>2. CASE a = u
        <5>1. x = t /\ tela[u].para = R
          BY <3>1, <4>1, <4>2
        <5> QED
          BY <3>3, <3>a, <5>1
      <4>3. CASE a # u
        <5>1. tela'[a] = tela[a]
          BY <3>3, <4>3 DEF AvTipo, AvisosOK
        <5> QED
          BY <3>3, <4>1, <5>1
      <4> QED
        BY <4>2, <4>3
    <3> QED
      BY <2>1, <3>3, <3>4, <3>5
  <2>7. ASSUME NEW u \in Pessoas, NEW x \in TarefasT, ConcluiTarefa(u, x) PROVE Certo'
    <3>1. /\ tarefaT' = [tarefaT EXCEPT ![x].status = "concluida"]
          /\ avisosT' = avisosT /\ apertou' = apertou /\ lidosUm' = lidosUm /\ Guardados /\ tela' = tela
      BY <2>7 DEF ConcluiTarefa
    <3>2. x # t
      BY <3>1 DEF AvTipo, TarefaTipo
    <3>3. tarefaT'[t] = tarefaT[t]
      BY <3>1, <3>2 DEF AvTipo
    <3>4. avisosT' = avisosT /\ apertou' = apertou /\ lidosUm' = lidosUm /\ Guardados /\ tela' = tela
      BY <3>1
    <3> QED
      BY <2>1, <3>3, <3>4
  <2>8. ASSUME NEW u \in Pessoas, NEW x \in TarefasT, CienteLe(u, x) PROVE Certo'
    <3>1. /\ tela' = [tela EXCEPT ![u] = [passo |-> "ciente", tarefa |-> {x}, para |-> u]]
          /\ tela[u].passo # "notifica"
          /\ avisosT' = avisosT /\ apertou' = apertou /\ lidosUm' = lidosUm /\ Guardados /\ tarefaT' = tarefaT
      BY <2>8 DEF CienteLe, Naquela, TelaLivre
    <3> QED
      BY <2>1, <2>2, <3>1 DEF AvTipo
  <2>9. ASSUME NEW u \in Pessoas, NEW x \in TarefasT, TarefaAssumir(u, x) PROVE Certo'
    <3> DEFINE D == [tarefaT EXCEPT ![x] = [@ EXCEPT !.resp = u, !.ciente = TRUE]]
    <3>1. /\ tela' = [tela EXCEPT ![u] = [passo |-> "assumiu", tarefa |-> {x}, para |-> u]]
          /\ tela[u].passo # "notifica" /\ tarefaT' = D
          /\ avisosT' = avisosT /\ apertou' = apertou /\ lidosUm' = lidosUm /\ Guardados
      BY <2>9 DEF TarefaAssumir, Naquela, TelaLivre
    <3>2. D[x].ciente
      BY DEF AvTipo, TarefaTipo
    <3>3. x # t
      BY <3>1, <3>2
    <3>4. tarefaT'[t] = tarefaT[t]
      BY <3>1, <3>3 DEF AvTipo
    <3>5. /\ avisosT' = avisosT /\ apertou' = apertou /\ lidosUm' = lidosUm /\ Guardados
          /\ tela[u].passo # "notifica" /\ \A v \in Pessoas \ {u} : tela'[v] = tela[v]
      BY <3>1 DEF AvTipo
    <3>6. ACaminho => ACaminho'
      BY <2>2, <3>4, <3>5
    <3> HIDE DEF D
    <3> QED
      BY <2>1, <3>4, <3>5, <3>6
  <2>10. ASSUME NEW u \in Pessoas, CienteGrava(u) PROVE Certo'
    <3>1. PICK x \in TarefasT : tela[u].tarefa = {x}
      BY <2>10 DEF AvTipo, CienteGrava
    <3>2. TarefaDe(u) = x
      BY <3>1, UmaTarefa
    <3>3. /\ tela' = [tela EXCEPT ![u] = [passo |-> "avisos", tarefa |-> {x}, para |-> u]]
          /\ tela[u].passo # "notifica"
          /\ avisosT' = avisosT /\ apertou' = apertou /\ lidosUm' = lidosUm /\ Guardados
      BY <2>10, <3>2 DEF CienteGrava, Naquela
    <3>4. tarefaT'[t] = tarefaT[t]
      <4>1. \/ tarefaT' = [tarefaT EXCEPT ![x].ciente = TRUE]
            \/ tarefaT' = tarefaT
        BY <2>10, <3>2 DEF CienteGrava
      <4>2. [tarefaT EXCEPT ![x].ciente = TRUE][x].ciente
        BY DEF AvTipo, TarefaTipo
      <4> QED
        BY <4>1, <4>2 DEF AvTipo
    <3> QED
      BY <2>1, <2>2, <3>3, <3>4 DEF AvTipo
  <2>11. ASSUME NEW u \in Pessoas, CienteAvisos(u) PROVE Certo'
    <3>1. PICK x \in TarefasT : tela[u].tarefa = {x}
      BY <2>11 DEF AvTipo, CienteAvisos
    <3>2. TarefaDe(u) = x
      BY <3>1, UmaTarefa
    <3>3. /\ avisosT' = avisosT \ DoProtocolo(u, ProtocoloDe[x])
          /\ apertou' = apertou \cup {<<u, ProtocoloDe[x]>>}
          /\ tela' = [tela EXCEPT ![u] = TelaLivre] /\ tela[u].passo # "notifica"
          /\ tarefaT' = tarefaT /\ lidosUm' = lidosUm /\ Guardados
      BY <2>11, <3>2 DEF CienteAvisos, LiberaTela
    <3>4. CASE Aviso1
      <4>1. CASE Aviso(R, t, "nova") \in DoProtocolo(u, ProtocoloDe[x])
        <5>1. u = R /\ ProtocoloDe[x] = ProtocoloDe[t]
          BY <4>1 DEF DoProtocolo, Aviso
        <5> QED
          BY <3>3, <5>1
      <4>2. CASE Aviso(R, t, "nova") \notin DoProtocolo(u, ProtocoloDe[x])
        BY <3>3, <3>4, <4>2
      <4> QED
        BY <4>1, <4>2
    <3>5. CASE ACaminho
      BY <2>2, <3>3, <3>5 DEF AvTipo
    <3> QED
      BY <2>1, <3>3, <3>4, <3>5
  <2>12. ASSUME NEW u \in Pessoas, AssumeAvisos(u) PROVE Certo'
    <3>1. PICK x \in TarefasT : tela[u].tarefa = {x}
      BY <2>12 DEF AvTipo, AssumeAvisos
    <3>2. /\ tela' = [tela EXCEPT ![u] = [passo |-> "avisos", tarefa |-> {TarefaDe(u)}, para |-> u]]
          /\ tela[u].passo # "notifica"
          /\ avisosT' = avisosT \ {a \in avisosT : a.tipo = "sem responsavel"
                                   /\ ProtocoloDe[a.tarefa] = ProtocoloDe[TarefaDe(u)]}
          /\ tarefaT' = tarefaT /\ apertou' = apertou /\ lidosUm' = lidosUm /\ Guardados
      BY <2>12 DEF AssumeAvisos, Naquela
    <3>3. Aviso(R, t, "nova").tipo # "sem responsavel"
      BY DEF Aviso
    <3>4. Aviso1 => Aviso1'
      BY <3>2, <3>3
    <3>5. ACaminho => ACaminho'
      BY <2>2, <3>2 DEF AvTipo
    <3> QED
      BY <2>1, <3>2, <3>4, <3>5
  <2>13. ASSUME NEW u \in Pessoas, AvisoCiente(u) PROVE Certo'
    <3>1. PICK a \in avisosT : /\ avisosT' = avisosT \ {a}
                               /\ lidosUm' = lidosUm \cup {x \in {a} : x.tipo = "nova"}
      BY <2>13 DEF AvisoCiente
    <3>2. tela' = tela /\ tarefaT' = tarefaT /\ apertou' = apertou /\ Guardados
      BY <2>13 DEF AvisoCiente
    <3>3. Aviso(R, t, "nova").tipo = "nova"
      BY DEF Aviso
    <3>4. Aviso1 => Aviso1'
      BY <3>1, <3>2, <3>3
    <3> QED
      BY <2>1, <3>2, <3>4
  <2>14. CASE NasceNotifica
    <3>1. PICK n \in aCaminho : Notifica(n) /\ aCaminho' = aCaminho \ {n}
      BY <2>14 DEF NasceNotifica
    <3>2. tela' = tela /\ tarefaT' = tarefaT /\ apertou' = apertou
      BY <2>14 DEF NasceNotifica
    <3>3. Aviso(R, t, "nova").tipo = "nova"
      BY DEF Aviso
    <3>4. /\ avisosT \cup lidosUm \cup perdidos \subseteq avisosT' \cup lidosUm' \cup perdidos'
          /\ n.tipo = "nova" => n \in avisosT' \cup perdidos'
      BY <3>1, NotificaGuarda
    <3>5. Aviso1 => Aviso1'
      BY <3>1, <3>2, <3>3, <3>4
    <3> QED
      BY <2>1, <3>2, <3>5
  <2> QED
    BY <2>3, <2>4, <2>5, <2>6, <2>7, <2>8, <2>9, <2>10, <2>11, <2>12, <2>13, <2>14 DEF AvNext
<1> QED
  BY <1>1, <1>2, AvisosBemFormados, PTL DEF AvSpec
=============================================================================
