--------------------------- MODULE ProtocolosProofs ---------------------------
(* Protocolos for any number of backends, processes, e-mails, movements,     *)
(* crashes and failed statements. The queue of a round is sorted by an       *)
(* operator nothing can be proved of here, so nothing below depends on what  *)
(* the queue holds.                                                          *)
EXTENDS Protocolos, TLAPS

(* What is never said by a type: a sequence of any elements, the rows with   *)
(* their fields, and the backends of the scenario.                           *)
Meio == {"situacao", "tarefas"}
EhSeq(s) == s \in Seq({s[k] : k \in DOMAIN s})
EhLinha(x) == x = [proc |-> x.proc, ativo |-> x.ativo, sit |-> x.sit, quando |-> x.quando,
                   hist |-> x.hist]
EhFicha(x) == x = [tipo |-> x.tipo, email |-> x.email, evento |-> x.evento, proc |-> x.proc,
                   aberta |-> x.aberta]
EhRodada(x) == /\ x = [fase |-> x.fase, fila |-> x.fila, primeira |-> x.primeira,
                       linhas |-> x.linhas, achados |-> x.achados, depois |-> x.depois,
                       evento |-> x.evento, alvo |-> x.alvo, sit |-> x.sit, mudou |-> x.mudou]
               /\ x.depois \notin Meio
EhPasso(x) == x = [fase |-> x.fase, proc |-> x.proc, origem |-> x.origem, hist |-> x.hist,
                   semProc |-> x.semProc]
TipoSaldo == [backends : SUBSET Instancias, emails : SUBSET Emails, movs : Nat, site : Nat,
              atos : Nat, quedas : Nat, falhas : Nat, outros : Nat]

VinculosForma == EhSeq(vinculos) /\ \A k \in DOMAIN vinculos : EhLinha(vinculos[k])
FichasForma   == EhSeq(fichas) /\ \A k \in DOMAIN fichas : EhFicha(fichas[k])
RodadaForma   == rodada = [i \in Instancias |-> rodada[i]]
                 /\ \A i \in Instancias : EhRodada(rodada[i])
PassoForma    == passo = [a \in Atores |-> passo[a]] /\ \A a \in Atores : EhPasso(passo[a])
ProtForma     == /\ VinculosForma /\ FichasForma /\ RodadaForma /\ PassoForma
                 /\ saldo \in TipoSaldo

(* Only the administrator turns a link on without having looked, and never   *)
(* for a movement.                                                           *)
AfirmaInv == /\ passo[Admin].origem # "historico"
             /\ \A a \in Atores : passo[a].fase = "afirma" => a = Admin

(* Something of O went wrong with e-mail e.                                  *)
Sofreu(e, O) == \E x \in percalcos : x.e = e /\ x.o \in O

(* Between its event and its tasks, an e-mail is the head of a queue, with   *)
(* the number of its event unless that could not be read.                    *)
NumeroInv ==
  \A i \in Instancias : \A e : rodada[i].fase \in Meio /\ EmailDe(i) = e =>
    rodada[i].evento = e \/ (rodada[i].evento = 0 /\ Sofreu(e, {"evento"}))
FichaInv ==
  \A k \in DOMAIN fichas :
    /\ fichas[k].evento # 0 => fichas[k].email = fichas[k].evento
    /\ fichas[k].email \in Emails =>
         fichas[k].evento = fichas[k].email \/ Sofreu(fichas[k].email, {"evento"})

Antes == /\ ProtForma /\ AfirmaInv /\ NumeroInv /\ FichaInv
         /\ UmaTarefaPorEvento /\ TarefaSoSePerdeEmFalha
-----------------------------------------------------------------------------
(* Sequences of any elements                                                 *)

LEMMA Indices ==
  ASSUME NEW s, EhSeq(s)
  PROVE  Len(s) \in Nat /\ DOMAIN s = 1..Len(s) /\ Len(s) + 1 \notin DOMAIN s
  BY DEF EhSeq

LEMMA Acrescenta ==
  ASSUME NEW s, NEW x, EhSeq(s)
  PROVE  /\ EhSeq(Append(s, x)) /\ DOMAIN Append(s, x) = DOMAIN s \cup {Len(s) + 1}
         /\ Append(s, x)[Len(s) + 1] = x
         /\ \A k \in DOMAIN s : Append(s, x)[k] = s[k]
PROOF
<1> DEFINE S == {s[k] : k \in DOMAIN s} \cup {x}
<1>1. s \in Seq(S) /\ x \in S /\ Len(s) \in Nat /\ DOMAIN s = 1..Len(s)
  BY DEF EhSeq
<1> HIDE DEF S
<1>2. /\ Append(s, x) \in Seq(S) /\ Len(Append(s, x)) = Len(s) + 1
      /\ DOMAIN Append(s, x) = 1..(Len(s) + 1)
      /\ Append(s, x)[Len(s) + 1] = x
      /\ \A k \in 1..Len(s) : Append(s, x)[k] = s[k]
  BY <1>1
<1> DEFINE t == Append(s, x)
<1>3. t \in Seq(S)
  BY <1>2
<1> HIDE DEF t
<1>4. t \in Seq({t[k] : k \in DOMAIN t})
  BY <1>3
<1>5. 1..(Len(s) + 1) = 1..Len(s) \cup {Len(s) + 1}
  BY <1>1
<1> QED BY <1>1, <1>2, <1>4, <1>5 DEF EhSeq, t

LEMMA Mapa ==
  ASSUME NEW s, EhSeq(s), NEW t, t = [k \in DOMAIN s |-> t[k]]
  PROVE  EhSeq(t) /\ DOMAIN t = DOMAIN s
PROOF
<1>1. Len(s) \in Nat /\ DOMAIN s = 1..Len(s)
  BY Indices
<1>2. DOMAIN t = 1..Len(s)
  BY <1>1
<1>3. t \in [1..Len(s) -> {t[k] : k \in DOMAIN t}]
  BY <1>1, <1>2
<1> QED BY <1>1, <1>2, <1>3 DEF EhSeq
-----------------------------------------------------------------------------
(* What a round has in hand                                                  *)
OutrasRodadas(i) == /\ rodada' = [j \in Instancias |-> rodada'[j]]
                    /\ \A j \in Instancias \ {i} : rodada'[j] = rodada[j]

LEMMA TrocaRodada ==
  ASSUME RodadaForma, NEW i \in Instancias, NEW v, EhRodada(v),
         rodada' = [rodada EXCEPT ![i] = v]
  PROVE  OutrasRodadas(i) /\ rodada'[i] = v /\ RodadaForma'
PROOF
<1>1. rodada' = [j \in Instancias |-> IF j = i THEN v ELSE rodada[j]]
  BY DEF RodadaForma
<1> QED BY <1>1 DEF OutrasRodadas, RodadaForma

LEMMA UmCampo ==
  ASSUME NEW x, EhRodada(x), NEW v
  PROVE
    /\ EhRodada([x EXCEPT !.fase = v])
    /\ EhRodada([x EXCEPT !.fila = v])
    /\ EhRodada([x EXCEPT !.primeira = v])
    /\ EhRodada([x EXCEPT !.linhas = v])
    /\ EhRodada([x EXCEPT !.achados = v])
    /\ v \notin Meio => EhRodada([x EXCEPT !.depois = v])
    /\ EhRodada([x EXCEPT !.evento = v])
    /\ EhRodada([x EXCEPT !.alvo = v])
    /\ EhRodada([x EXCEPT !.sit = v])
    /\ EhRodada([x EXCEPT !.mudou = v])
PROOF
<1>0. /\ x = [fase |-> x.fase, fila |-> x.fila, primeira |-> x.primeira,
              linhas |-> x.linhas, achados |-> x.achados, depois |-> x.depois,
              evento |-> x.evento, alvo |-> x.alvo, sit |-> x.sit, mudou |-> x.mudou]
      /\ x.depois \notin Meio
  BY DEF EhRodada
<1>1. EhRodada([x EXCEPT !.fase = v])
  BY <1>0 DEF EhRodada
<1>2. EhRodada([x EXCEPT !.fila = v])
  BY <1>0 DEF EhRodada
<1>3. EhRodada([x EXCEPT !.primeira = v])
  BY <1>0 DEF EhRodada
<1>4. EhRodada([x EXCEPT !.linhas = v])
  BY <1>0 DEF EhRodada
<1>5. EhRodada([x EXCEPT !.achados = v])
  BY <1>0 DEF EhRodada
<1>6. ASSUME v \notin Meio PROVE EhRodada([x EXCEPT !.depois = v])
  BY <1>0, <1>6 DEF EhRodada
<1>7. EhRodada([x EXCEPT !.evento = v])
  BY <1>0 DEF EhRodada
<1>8. EhRodada([x EXCEPT !.alvo = v])
  BY <1>0 DEF EhRodada
<1>9. EhRodada([x EXCEPT !.sit = v])
  BY <1>0 DEF EhRodada
<1>10. EhRodada([x EXCEPT !.mudou = v])
  BY <1>0 DEF EhRodada
<1> QED BY <1>1, <1>2, <1>3, <1>4, <1>5, <1>6, <1>7, <1>8, <1>9, <1>10

\* what the next phase keeps
LEMMA SoAFase ==
  ASSUME NEW x, EhRodada(x), NEW f, NEW v
  PROVE  /\ [x EXCEPT !.fase = f].fase = f
         /\ [x EXCEPT !.fase = f].fila = x.fila
         /\ [x EXCEPT !.fase = f].evento = x.evento
         /\ [x EXCEPT !.linhas = v].fase = x.fase /\ [x EXCEPT !.linhas = v].fila = x.fila
         /\ [x EXCEPT !.achados = v].fase = x.fase /\ [x EXCEPT !.achados = v].fila = x.fila
         /\ [x EXCEPT !.depois = v].fase = x.fase /\ [x EXCEPT !.depois = v].fila = x.fila
         /\ [x EXCEPT !.primeira = v].fase = x.fase /\ [x EXCEPT !.primeira = v].fila = x.fila
         /\ [x EXCEPT !.alvo = v].fase = x.fase /\ [x EXCEPT !.alvo = v].fila = x.fila
         /\ [x EXCEPT !.sit = v].fase = x.fase /\ [x EXCEPT !.sit = v].fila = x.fila
         /\ [x EXCEPT !.mudou = v].fase = x.fase /\ [x EXCEPT !.mudou = v].fila = x.fila
         /\ [x EXCEPT !.linhas = v].evento = x.evento
         /\ [x EXCEPT !.fila = v].fase = x.fase /\ [x EXCEPT !.evento = v].fase = x.fase
         /\ [x EXCEPT !.evento = v].evento = v /\ [x EXCEPT !.evento = v].fila = x.fila
BY DEF EhRodada

\* the three that rounds change alone
LEMMA TrocaUm ==
  ASSUME NEW x, EhRodada(x), NEW v
  PROVE  /\ EhRodada([x EXCEPT !.fase = v]) /\ [x EXCEPT !.fase = v].fase = v
         /\ EhRodada([x EXCEPT !.fila = v]) /\ [x EXCEPT !.fila = v].fase = x.fase
         /\ EhRodada([x EXCEPT !.achados = v]) /\ [x EXCEPT !.achados = v].fase = x.fase
PROOF
<1>1. /\ EhRodada([x EXCEPT !.fase = v]) /\ EhRodada([x EXCEPT !.fila = v])
      /\ EhRodada([x EXCEPT !.achados = v])
  BY UmCampo
<1>2. [x EXCEPT !.fase = v].fase = v
  BY SoAFase
<1>3. [x EXCEPT !.fila = v].fase = x.fase
  BY DEF EhRodada
<1>4. [x EXCEPT !.achados = v].fase = x.fase
  BY SoAFase
<1> QED BY <1>1, <1>2, <1>3, <1>4

\* several fields at a time
LEMMA ComFila ==
  ASSUME NEW x, EhRodada(x), NEW f, NEW q
  PROVE  /\ EhRodada([x EXCEPT !.fase = f, !.fila = q])
         /\ [x EXCEPT !.fase = f, !.fila = q].fase = f
PROOF
<1> DEFINE y1 == [x EXCEPT !.fase = f]
<1>1. EhRodada(y1)
  BY UmCampo
<1>2. y1.fase = f /\ y1.fila = x.fila /\ y1.evento = x.evento
  BY SoAFase
<1> HIDE DEF y1
<1> DEFINE y2 == [y1 EXCEPT !.fila = q]
<1>3. EhRodada(y2)
  BY <1>1, UmCampo
<1>4. y2.fase = f
  BY <1>1, <1>2, SoAFase
<1> HIDE DEF y2
<1> QED BY <1>3, <1>4 DEF y1, y2

LEMMA ComLista ==
  ASSUME NEW x, EhRodada(x), NEW f, NEW b, NEW q
  PROVE  /\ EhRodada([x EXCEPT !.fase = f, !.primeira = b, !.fila = q])
         /\ [x EXCEPT !.fase = f, !.primeira = b, !.fila = q].fase = f
PROOF
<1> DEFINE y1 == [x EXCEPT !.fase = f]
<1>1. EhRodada(y1)
  BY UmCampo
<1>2. y1.fase = f /\ y1.fila = x.fila /\ y1.evento = x.evento
  BY SoAFase
<1> HIDE DEF y1
<1> DEFINE y2 == [y1 EXCEPT !.primeira = b]
<1>3. EhRodada(y2)
  BY <1>1, UmCampo
<1>4. y2.fase = f
  BY <1>1, <1>2, SoAFase
<1> HIDE DEF y2
<1> DEFINE y3 == [y2 EXCEPT !.fila = q]
<1>5. EhRodada(y3)
  BY <1>3, UmCampo
<1>6. y3.fase = f
  BY <1>3, <1>4, SoAFase
<1> HIDE DEF y3
<1> QED BY <1>5, <1>6 DEF y1, y2, y3

LEMMA ComSite ==
  ASSUME NEW x, EhRodada(x), NEW f, NEW q, NEW L, NEW b
  PROVE  /\ EhRodada([x EXCEPT !.fase = f, !.sit = q, !.linhas = L, !.mudou = b])
         /\ [x EXCEPT !.fase = f, !.sit = q, !.linhas = L, !.mudou = b].fase = f
PROOF
<1> DEFINE y1 == [x EXCEPT !.fase = f]
<1>1. EhRodada(y1)
  BY UmCampo
<1>2. y1.fase = f /\ y1.fila = x.fila /\ y1.evento = x.evento
  BY SoAFase
<1> HIDE DEF y1
<1> DEFINE y2 == [y1 EXCEPT !.sit = q]
<1>3. EhRodada(y2)
  BY <1>1, UmCampo
<1>4. y2.fase = f
  BY <1>1, <1>2, SoAFase
<1> HIDE DEF y2
<1> DEFINE y3 == [y2 EXCEPT !.linhas = L]
<1>5. EhRodada(y3)
  BY <1>3, UmCampo
<1>6. y3.fase = f
  BY <1>3, <1>4, SoAFase
<1> HIDE DEF y3
<1> DEFINE y4 == [y3 EXCEPT !.mudou = b]
<1>7. EhRodada(y4)
  BY <1>5, UmCampo
<1>8. y4.fase = f
  BY <1>5, <1>6, SoAFase
<1> HIDE DEF y4
<1> QED BY <1>7, <1>8 DEF y1, y2, y3, y4

LEMMA ComLinhas ==
  ASSUME NEW x, EhRodada(x), NEW f, NEW L
  PROVE  /\ EhRodada([x EXCEPT !.fase = f, !.linhas = L])
         /\ [x EXCEPT !.fase = f, !.linhas = L].fase = f
         /\ [x EXCEPT !.fase = f, !.linhas = L].fila = x.fila
         /\ [x EXCEPT !.fase = f, !.linhas = L].evento = x.evento
PROOF
<1> DEFINE y1 == [x EXCEPT !.fase = f]
<1>1. EhRodada(y1)
  BY UmCampo
<1>2. y1.fase = f /\ y1.fila = x.fila /\ y1.evento = x.evento
  BY SoAFase
<1> HIDE DEF y1
<1> DEFINE y2 == [y1 EXCEPT !.linhas = L]
<1>3. EhRodada(y2)
  BY <1>1, UmCampo
<1>4. y2.fase = f /\ y2.fila = x.fila /\ y2.evento = x.evento
  BY <1>1, <1>2, SoAFase
<1> HIDE DEF y2
<1> QED BY <1>3, <1>4 DEF y1, y2

LEMMA ComEvento ==
  ASSUME NEW x, EhRodada(x), NEW f, NEW q
  PROVE  /\ EhRodada([x EXCEPT !.fase = f, !.evento = q])
         /\ [x EXCEPT !.fase = f, !.evento = q].fase = f
         /\ [x EXCEPT !.fase = f, !.evento = q].fila = x.fila
         /\ [x EXCEPT !.fase = f, !.evento = q].evento = q
PROOF
<1> DEFINE y1 == [x EXCEPT !.fase = f]
<1>1. EhRodada(y1)
  BY UmCampo
<1>2. y1.fase = f /\ y1.fila = x.fila /\ y1.evento = x.evento
  BY SoAFase
<1> HIDE DEF y1
<1> DEFINE y2 == [y1 EXCEPT !.evento = q]
<1>3. EhRodada(y2)
  BY <1>1, UmCampo
<1>4. y2.fase = f /\ y2.fila = x.fila /\ y2.evento = q
  BY <1>1, <1>2, SoAFase
<1> HIDE DEF y2
<1> QED BY <1>3, <1>4 DEF y1, y2

LEMMA ComAchados ==
  ASSUME NEW x, EhRodada(x), NEW f, NEW L, NEW d, d \notin Meio
  PROVE  /\ EhRodada([x EXCEPT !.fase = f, !.achados = L, !.depois = d])
         /\ [x EXCEPT !.fase = f, !.achados = L, !.depois = d].fase = f
PROOF
<1> DEFINE y1 == [x EXCEPT !.fase = f]
<1>1. EhRodada(y1)
  BY UmCampo
<1>2. y1.fase = f /\ y1.fila = x.fila /\ y1.evento = x.evento
  BY SoAFase
<1> HIDE DEF y1
<1> DEFINE y2 == [y1 EXCEPT !.achados = L]
<1>3. EhRodada(y2)
  BY <1>1, UmCampo
<1>4. y2.fase = f
  BY <1>1, <1>2, SoAFase
<1> HIDE DEF y2
<1> DEFINE y3 == [y2 EXCEPT !.depois = d]
<1>5. EhRodada(y3)
  BY <1>3, UmCampo
<1>6. y3.fase = f
  BY <1>3, <1>4, SoAFase
<1> HIDE DEF y3
<1> QED BY <1>5, <1>6 DEF y1, y2, y3

LEMMA ComAlvo ==
  ASSUME NEW x, EhRodada(x), NEW f, NEW L, NEW d, NEW b, d \notin Meio
  PROVE  /\ EhRodada([x EXCEPT !.fase = f, !.achados = L, !.depois = d, !.alvo = b])
         /\ [x EXCEPT !.fase = f, !.achados = L, !.depois = d, !.alvo = b].fase = f
PROOF
<1> DEFINE y1 == [x EXCEPT !.fase = f]
<1>1. EhRodada(y1)
  BY UmCampo
<1>2. y1.fase = f /\ y1.fila = x.fila /\ y1.evento = x.evento
  BY SoAFase
<1> HIDE DEF y1
<1> DEFINE y2 == [y1 EXCEPT !.achados = L]
<1>3. EhRodada(y2)
  BY <1>1, UmCampo
<1>4. y2.fase = f
  BY <1>1, <1>2, SoAFase
<1> HIDE DEF y2
<1> DEFINE y3 == [y2 EXCEPT !.depois = d]
<1>5. EhRodada(y3)
  BY <1>3, UmCampo
<1>6. y3.fase = f
  BY <1>3, <1>4, SoAFase
<1> HIDE DEF y3
<1> DEFINE y4 == [y3 EXCEPT !.alvo = b]
<1>7. EhRodada(y4)
  BY <1>5, UmCampo
<1>8. y4.fase = f
  BY <1>5, <1>6, SoAFase
<1> HIDE DEF y4
<1> QED BY <1>7, <1>8 DEF y1, y2, y3, y4

LEMMA Paradas == EhRodada(Parada) /\ Parada.fase = "parada"
  BY DEF Parada, EhRodada, Meio
-----------------------------------------------------------------------------
(* What goes wrong is never forgotten                                        *)

LEMMA PercalcoFica ==
  ASSUME NEW f \in BOOLEAN, NEW o, NEW S, Percalco(f, o, S)
  PROVE  /\ percalcos \subseteq percalcos'
         /\ f => \A e \in S : \A O : o \in O => Sofreu(e, O)'
PROOF
<1>1. percalcos' = IF f THEN percalcos \cup [o : {o}, e : S] ELSE percalcos
  BY DEF Percalco
<1>2. ASSUME f, NEW e \in S, NEW O, o \in O PROVE Sofreu(e, O)'
  <2> DEFINE x == [o |-> o, e |-> e]
  <2>1. x \in [o : {o}, e : S] /\ x.e = e /\ x.o = o
    OBVIOUS
  <2> HIDE DEF x
  <2>2. x \in percalcos'
    BY <1>1, <1>2, <2>1
  <2> QED BY <1>2, <2>1, <2>2 DEF Sofreu
<1> QED BY <1>1, <1>2

LEMMA SofreuFica ==
  ASSUME percalcos \subseteq percalcos', NEW e, NEW O, Sofreu(e, O)
  PROVE  Sofreu(e, O)'
  BY DEF Sofreu
-----------------------------------------------------------------------------
(* The tasks                                                                 *)

\* every task there was is there, and the ones that are new may be
FichasBem ==
  /\ FichasForma' /\ FichaInv' /\ UmaTarefaPorEvento'
  /\ \A k \in DOMAIN fichas : k \in DOMAIN fichas' /\ fichas'[k].email = fichas[k].email
TemFicha(e) == \E k \in DOMAIN fichas : fichas[k].email = e

LEMMA UmaTarefaDepois ==
  UmaTarefaPorEvento' <=>
    \A j, k \in DOMAIN fichas' :
      j # k /\ fichas'[j].email = fichas'[k].email /\ fichas'[j].email \in Emails =>
        \E x \in percalcos' : x.e = fichas'[j].email /\ x.o \in {"evento", "contagem"}
  BY DEF UmaTarefaPorEvento

LEMMA FichaNova ==
  ASSUME FichasForma, FichaInv, UmaTarefaPorEvento, percalcos \subseteq percalcos',
         NEW t, NEW e, NEW n, NEW p, fichas' = Append(fichas, Ficha(t, e, n, p)),
         n = 0 \/ n = e,
         e \in Emails => /\ n = e \/ Sofreu(e, {"evento"})'
                         /\ TemFicha(e) => Sofreu(e, {"evento", "contagem"})'
  PROVE  FichasBem /\ TemFicha(e)'
PROOF
<1> DEFINE x == Ficha(t, e, n, p)
           m == Len(fichas) + 1
<1>1. EhFicha(x) /\ x.email = e /\ x.evento = n
  BY DEF Ficha, EhFicha
<1>2. EhSeq(fichas) /\ fichas' = Append(fichas, x)
  BY DEF FichasForma
<1> HIDE DEF x
<1>3. /\ EhSeq(fichas') /\ DOMAIN fichas' = DOMAIN fichas \cup {m} /\ fichas'[m] = x
      /\ \A k \in DOMAIN fichas : fichas'[k] = fichas[k]
  BY <1>2, Acrescenta
<1>4. m \notin DOMAIN fichas
  BY <1>2, Indices
<1> HIDE DEF m
<1>5. FichasForma'
  BY <1>1, <1>3 DEF FichasForma
<1>6. FichaInv'
  <2> SUFFICES ASSUME NEW k \in DOMAIN fichas'
               PROVE  /\ fichas'[k].evento # 0 => fichas'[k].email = fichas'[k].evento
                      /\ fichas'[k].email \in Emails =>
                           \/ fichas'[k].evento = fichas'[k].email
                           \/ Sofreu(fichas[k].email, {"evento"})'
    BY DEF FichaInv
  <2>1. CASE k = m
    <3>1. fichas'[k].email = e /\ fichas'[k].evento = n
      BY <1>1, <1>3, <2>1
    <3>2. e \in Emails => n = e \/ \E y \in percalcos' : y.e = e /\ y.o \in {"evento"}
      BY DEF Sofreu
    <3> QED BY <3>1, <3>2 DEF Sofreu
  <2>2. CASE k # m
    <3>1. k \in DOMAIN fichas /\ fichas'[k] = fichas[k]
      BY <1>3, <2>2
    <3> QED BY <3>1 DEF FichaInv, Sofreu
  <2> QED BY <2>1, <2>2
<1>7. UmaTarefaPorEvento'
  <2> SUFFICES ASSUME NEW j \in DOMAIN fichas', NEW k \in DOMAIN fichas', j # k,
                      fichas'[j].email = fichas'[k].email, fichas'[j].email \in Emails
               PROVE  \E y \in percalcos' : /\ y.e = fichas'[j].email
                                            /\ y.o \in {"evento", "contagem"}
    BY UmaTarefaDepois
  <2>1. CASE j # m /\ k # m
    <3>1. /\ j \in DOMAIN fichas /\ fichas'[j] = fichas[j]
          /\ k \in DOMAIN fichas /\ fichas'[k] = fichas[k]
      BY <1>3, <2>1
    <3> QED BY <3>1 DEF UmaTarefaPorEvento
  <2>2. CASE j = m \/ k = m
    <3>1. \E i \in DOMAIN fichas : fichas[i].email = e
      BY <1>1, <1>3, <2>2
    <3>2. fichas'[j].email = e
      BY <1>1, <1>3, <2>2
    <3>3. Sofreu(e, {"evento", "contagem"})'
      BY <3>1, <3>2 DEF TemFicha
    <3> QED BY <3>2, <3>3 DEF Sofreu
  <2> QED BY <2>1, <2>2
<1>8. TemFicha(e)'
  BY <1>1, <1>3 DEF TemFicha
<1> QED BY <1>3, <1>5, <1>6, <1>7, <1>8 DEF FichasBem

\* tarefaDaMudanca for e-mail e, and what goes wrong in it
LEMMA EfeitoTarefa ==
  ASSUME FichasForma, FichaInv, UmaTarefaPorEvento, percalcos \subseteq percalcos',
         NEW t, NEW e, NEW n, NEW p, NEW o, TarefaDaMudanca(t, e, n, p, o),
         n = 0 \/ n = e,
         e \in Emails => /\ n = e \/ Sofreu(e, {"evento"})
                         /\ o = "contagem" => Sofreu(e, {"contagem"})'
  PROVE  FichasBem /\ (TemFicha(e)' \/ o = "tarefa")
PROOF
<1>0. e \in Emails => e > 0
  BY ProtocolosOK DEF Emails
<1>1. CASE o = "tarefa" \/ (n > 0 /\ o # "contagem" /\ \E k \in DOMAIN fichas : fichas[k].evento = n)
  <2>1. fichas' = fichas
    BY <1>1 DEF TarefaDaMudanca
  <2>2. FichasForma' /\ FichaInv' /\ UmaTarefaPorEvento'
    BY <2>1 DEF FichasForma, FichaInv, UmaTarefaPorEvento, Sofreu
  <2>3. o # "tarefa" => TemFicha(e)'
    <3> SUFFICES ASSUME o # "tarefa" PROVE \E k \in DOMAIN fichas : fichas[k].email = e
      BY <2>1 DEF TemFicha
    <3>1. PICK k \in DOMAIN fichas : fichas[k].evento = n
      BY <1>1
    <3>2. n # 0 /\ n = e
      BY <1>1
    <3> QED BY <3>1, <3>2 DEF FichaInv
  <2> QED BY <2>1, <2>2, <2>3 DEF FichasBem
<1>2. CASE ~(o = "tarefa" \/ (n > 0 /\ o # "contagem" /\ \E k \in DOMAIN fichas : fichas[k].evento = n))
  <2>1. fichas' = Append(fichas, Ficha(t, e, n, p))
    BY <1>2 DEF TarefaDaMudanca
  <2>2. ASSUME e \in Emails PROVE n = e \/ Sofreu(e, {"evento"})'
    BY <2>2, SofreuFica
  <2>3. ASSUME e \in Emails, TemFicha(e) PROVE Sofreu(e, {"evento", "contagem"})'
    <3>1. CASE o = "contagem"
      <4>1. Sofreu(e, {"contagem"})'
        BY <2>3, <3>1
      <4> QED BY <4>1 DEF Sofreu
    <3>2. CASE o # "contagem" /\ n = e
      <4>1. e > 0 /\ ~(\E k \in DOMAIN fichas : fichas[k].evento = e)
        BY <1>0, <1>2, <2>3, <3>2
      <4>2. PICK k \in DOMAIN fichas : fichas[k].email = e
        BY <2>3 DEF TemFicha
      <4>3. Sofreu(e, {"evento"})
        BY <2>3, <4>1, <4>2 DEF FichaInv
      <4> QED BY <4>3 DEF Sofreu
    <3>3. CASE n # e
      <4>1. Sofreu(e, {"evento"})
        BY <2>3, <3>3
      <4> QED BY <4>1 DEF Sofreu
    <3> QED BY <3>1, <3>2, <3>3
  <2> QED BY <2>1, <2>2, <2>3, FichaNova
<1> QED BY <1>1, <1>2

\* the tasks keep their e-mails and the numbers of their events
LEMMA FichasIguais ==
  ASSUME FichasForma, FichaInv, UmaTarefaPorEvento, percalcos \subseteq percalcos',
         fichas' = [k \in DOMAIN fichas |-> fichas'[k]],
         \A k \in DOMAIN fichas : /\ EhFicha(fichas'[k]) /\ fichas'[k].email = fichas[k].email
                                  /\ fichas'[k].evento = fichas[k].evento
  PROVE  FichasBem
PROOF
<1>1. EhSeq(fichas') /\ DOMAIN fichas' = DOMAIN fichas
  BY Mapa DEF FichasForma
<1>2. FichaInv'
  BY <1>1 DEF FichaInv, Sofreu
<1>3. UmaTarefaPorEvento'
  BY <1>1 DEF UmaTarefaPorEvento
<1>4. FichasForma'
  BY <1>1 DEF FichasForma
<1> QED BY <1>1, <1>2, <1>3, <1>4 DEF FichasBem

LEMMA FichasParadas ==
  ASSUME FichasForma, FichaInv, UmaTarefaPorEvento, percalcos \subseteq percalcos',
         UNCHANGED fichas
  PROVE  FichasBem
  BY DEF FichasBem, FichasForma, FichaInv, UmaTarefaPorEvento, Sofreu

LEMMA TrocaFicha ==
  ASSUME NEW x, EhFicha(x), NEW v
  PROVE  /\ EhFicha([x EXCEPT !.proc = v]) /\ EhFicha([x EXCEPT !.aberta = v])
         /\ [x EXCEPT !.proc = v].email = x.email /\ [x EXCEPT !.proc = v].evento = x.evento
         /\ [x EXCEPT !.aberta = v].email = x.email /\ [x EXCEPT !.aberta = v].evento = x.evento
PROOF
<1>1. x = [tipo |-> x.tipo, email |-> x.email, evento |-> x.evento, proc |-> x.proc,
           aberta |-> x.aberta]
  BY DEF EhFicha
<1>2. EhFicha([x EXCEPT !.proc = v])
  BY <1>1 DEF EhFicha
<1>3. EhFicha([x EXCEPT !.aberta = v])
  BY <1>1 DEF EhFicha
<1>4. [x EXCEPT !.proc = v].email = x.email /\ [x EXCEPT !.proc = v].evento = x.evento
  BY <1>1
<1>5. [x EXCEPT !.aberta = v].email = x.email /\ [x EXCEPT !.aberta = v].evento = x.evento
  BY <1>1
<1> QED BY <1>2, <1>3, <1>4, <1>5

LEMMA CamposFicha ==
  ASSUME NEW x, EhFicha(x), NEW p
  PROVE  \A y : y = Fechada(x, p) \/ y = Atribuida(x, p) =>
           EhFicha(y) /\ y.email = x.email /\ y.evento = x.evento
PROOF
<1> DEFINE y1 == [x EXCEPT !.proc = p]
           y2 == [y1 EXCEPT !.aberta = FALSE]
<1>1. EhFicha(y1) /\ y1.email = x.email /\ y1.evento = x.evento
  BY TrocaFicha
<1>2. Fechada(x, p) = x \/ Fechada(x, p) = y2
  BY DEF Fechada
<1>3. Atribuida(x, p) = x \/ Atribuida(x, p) = y1
  BY DEF Atribuida
<1> HIDE DEF y1
<1>4. EhFicha(y2) /\ y2.email = y1.email /\ y2.evento = y1.evento
  BY <1>1, TrocaFicha
<1> HIDE DEF y2
<1> QED BY <1>1, <1>2, <1>3, <1>4
-----------------------------------------------------------------------------
(* The links                                                                 *)

\* every row there was is there, and none comes back
Calmo ==
  /\ VinculosForma'
  /\ \A k \in DOMAIN vinculos : k \in DOMAIN vinculos' /\ (vinculos'[k].ativo => vinculos[k].ativo)

LEMMA LinhaNova ==
  ASSUME VinculosForma, NEW x, EhLinha(x), vinculos' = Append(vinculos, x)
  PROVE  Calmo
PROOF
<1> DEFINE n == Len(vinculos) + 1
<1>1. /\ EhSeq(vinculos') /\ DOMAIN vinculos' = DOMAIN vinculos \cup {n} /\ vinculos'[n] = x
      /\ \A k \in DOMAIN vinculos : vinculos'[k] = vinculos[k]
  BY Acrescenta DEF VinculosForma
<1> HIDE DEF n
<1> QED BY <1>1 DEF Calmo, VinculosForma

LEMMA LinhasTrocadas ==
  ASSUME VinculosForma, vinculos' = [k \in DOMAIN vinculos |-> vinculos'[k]],
         \A k \in DOMAIN vinculos :
           EhLinha(vinculos'[k]) /\ (vinculos'[k].ativo => vinculos[k].ativo)
  PROVE  Calmo
PROOF
<1>1. EhSeq(vinculos') /\ DOMAIN vinculos' = DOMAIN vinculos
  BY Mapa DEF VinculosForma
<1> QED BY <1>1 DEF Calmo, VinculosForma

LEMMA LinhasParadas ==
  ASSUME VinculosForma, UNCHANGED vinculos
  PROVE  Calmo
  BY DEF Calmo, VinculosForma

LEMMA CamposLinha ==
  ASSUME NEW x, EhLinha(x), NEW v, NEW w
  PROVE  /\ EhLinha([x EXCEPT !.ativo = v]) /\ [x EXCEPT !.ativo = v].ativo = v
         /\ EhLinha([x EXCEPT !.proc = v]) /\ [x EXCEPT !.proc = v].ativo = x.ativo
         /\ EhLinha([x EXCEPT !.hist = v]) /\ [x EXCEPT !.hist = v].ativo = x.ativo
         /\ EhLinha([x EXCEPT !.sit = v]) /\ [x EXCEPT !.sit = v].ativo = x.ativo
         /\ EhLinha([x EXCEPT !.quando = v]) /\ [x EXCEPT !.quando = v].ativo = x.ativo
         /\ EhLinha([proc |-> v, ativo |-> TRUE, sit |-> w, quando |-> 0, hist |-> 0])
PROOF
<1>1. x = [proc |-> x.proc, ativo |-> x.ativo, sit |-> x.sit, quando |-> x.quando,
           hist |-> x.hist]
  BY DEF EhLinha
<1>2. EhLinha([x EXCEPT !.ativo = v]) /\ [x EXCEPT !.ativo = v].ativo = v
  BY <1>1 DEF EhLinha
<1>3. EhLinha([x EXCEPT !.proc = v]) /\ [x EXCEPT !.proc = v].ativo = x.ativo
  BY <1>1 DEF EhLinha
<1>4. EhLinha([x EXCEPT !.hist = v]) /\ [x EXCEPT !.hist = v].ativo = x.ativo
  BY <1>1 DEF EhLinha
<1>5. EhLinha([x EXCEPT !.sit = v]) /\ [x EXCEPT !.sit = v].ativo = x.ativo
  BY <1>1 DEF EhLinha
<1>6. EhLinha([x EXCEPT !.quando = v]) /\ [x EXCEPT !.quando = v].ativo = x.ativo
  BY <1>1 DEF EhLinha
<1>7. EhLinha([proc |-> v, ativo |-> TRUE, sit |-> w, quando |-> 0, hist |-> 0])
  BY DEF EhLinha
<1> QED BY <1>2, <1>3, <1>4, <1>5, <1>6, <1>7

\* the situation of a row is rewritten
LEMMA LinhaAvanca ==
  ASSUME NEW x, EhLinha(x), NEW v, NEW w
  PROVE  /\ EhLinha([x EXCEPT !.sit = v, !.quando = w])
         /\ [x EXCEPT !.sit = v, !.quando = w].ativo = x.ativo
PROOF
<1> DEFINE y == [x EXCEPT !.sit = v]
<1>1. EhLinha(y) /\ y.ativo = x.ativo
  BY CamposLinha
<1> HIDE DEF y
<1>2. EhLinha([y EXCEPT !.quando = w]) /\ [y EXCEPT !.quando = w].ativo = y.ativo
  BY <1>1, CamposLinha
<1> QED BY <1>1, <1>2 DEF y

\* and so are its process and its movement
LEMMA LinhaAssume ==
  ASSUME NEW x, EhLinha(x), NEW v, NEW w
  PROVE  /\ EhLinha([x EXCEPT !.proc = v, !.hist = w])
         /\ [x EXCEPT !.proc = v, !.hist = w].ativo = x.ativo
PROOF
<1> DEFINE y == [x EXCEPT !.proc = v]
<1>1. EhLinha(y) /\ y.ativo = x.ativo
  BY CamposLinha
<1> HIDE DEF y
<1>2. EhLinha([y EXCEPT !.hist = w]) /\ [y EXCEPT !.hist = w].ativo = y.ativo
  BY <1>1, CamposLinha
<1> QED BY <1>1, <1>2 DEF y
-----------------------------------------------------------------------------
(* VincularSeNovo                                                            *)

\* a movement turns no link on
Religa == \A k \in DOMAIN vinculos : ~vinculos[k].ativo /\ vinculos'[k].ativo =>
            \E a \in Atores : passo[a] # passo'[a] /\ passo[a].origem # "historico"

LEMMA LigaEscreve ==
  ASSUME VinculosForma, NEW p, vinculos' = Liga(p)
  PROVE  VinculosForma'
PROOF
<1>1. \A k \in DOMAIN vinculos : EhLinha([vinculos[k] EXCEPT !.ativo = TRUE])
  BY CamposLinha DEF VinculosForma
<1>2. \A k \in DOMAIN vinculos : EhLinha(vinculos'[k])
  <2> TAKE k \in DOMAIN vinculos
  <2>1. vinculos'[k] = vinculos[k] \/ vinculos'[k] = [vinculos[k] EXCEPT !.ativo = TRUE]
    BY DEF Liga
  <2> QED BY <1>1, <2>1 DEF VinculosForma
<1>3. vinculos' = [k \in DOMAIN vinculos |-> vinculos'[k]]
  BY DEF Liga
<1> QED BY <1>2, <1>3, Mapa DEF VinculosForma

LEMMA ReativaEscreve ==
  ASSUME VinculosForma, NEW v, NEW p, vinculos' = Reativa(v, p)
  PROVE  VinculosForma' /\ (v.origem = "historico" => Calmo)
PROOF
<1>1. vinculos' = [k \in DOMAIN vinculos |->
         IF vinculos[k].proc = p /\ v.origem # "historico"
         THEN [vinculos[k] EXCEPT !.ativo = TRUE] ELSE vinculos[k]]
  BY DEF Reativa
<1>2. \A k \in DOMAIN vinculos : EhLinha([vinculos[k] EXCEPT !.ativo = TRUE])
  BY CamposLinha DEF VinculosForma
<1>3. \A k \in DOMAIN vinculos : EhLinha(vinculos'[k])
  <2> TAKE k \in DOMAIN vinculos
  <2>1. vinculos'[k] = vinculos[k] \/ vinculos'[k] = [vinculos[k] EXCEPT !.ativo = TRUE]
    BY <1>1
  <2> QED BY <1>2, <2>1 DEF VinculosForma
<1>4. vinculos' = [k \in DOMAIN vinculos |-> vinculos'[k]]
  BY <1>1
<1>5. VinculosForma'
  BY <1>3, <1>4, Mapa DEF VinculosForma
<1>6. ASSUME v.origem = "historico" PROVE Calmo
  <2>1. \A k \in DOMAIN vinculos : vinculos'[k] = vinculos[k]
    BY <1>1, <1>6
  <2> QED BY <1>3, <1>4, <2>1, LinhasTrocadas
<1> QED BY <1>5, <1>6

LEMMA AssumeEscreve ==
  ASSUME VinculosForma, NEW v, NEW p, vinculos' = Assume(v, p)
  PROVE  Calmo
PROOF
<1> DEFINE z == v.semProc
           h == IF v.hist = 0 THEN vinculos[z].hist ELSE v.hist
           y == [vinculos[z] EXCEPT !.proc = p, !.hist = h]
<1>1. CASE vinculos' = vinculos
  BY <1>1, LinhasParadas
<1>2. CASE vinculos' = [vinculos EXCEPT ![z].proc = p,
                                        ![z].hist = IF v.hist = 0 THEN @ ELSE v.hist]
  <2>1. CASE z \notin DOMAIN vinculos
    <3>1. vinculos' = [k \in DOMAIN vinculos |-> vinculos'[k]]
      BY <1>2
    <3>2. \A k \in DOMAIN vinculos : vinculos'[k] = vinculos[k]
      BY <1>2, <2>1
    <3> QED BY <3>1, <3>2, LinhasTrocadas DEF VinculosForma
  <2>2. CASE z \in DOMAIN vinculos
    <3>1. EhLinha(vinculos[z])
      BY <2>2 DEF VinculosForma
    <3>2. vinculos' = [vinculos EXCEPT ![z] = y]
      BY <1>2, <2>2, <3>1 DEF EhLinha
    <3> HIDE DEF h, z
    <3>3. EhLinha(y) /\ y.ativo = vinculos[z].ativo
      BY <3>1, LinhaAssume
    <3> HIDE DEF y
    <3>4. vinculos' = [k \in DOMAIN vinculos |-> vinculos'[k]]
      BY <3>2
    <3>5. \A k \in DOMAIN vinculos : vinculos'[k] = IF k = z THEN y ELSE vinculos[k]
      BY <3>2
    <3>6. \A k \in DOMAIN vinculos : EhLinha(vinculos'[k]) /\ (vinculos'[k].ativo => vinculos[k].ativo)
      BY <3>3, <3>5 DEF VinculosForma
    <3> QED BY <3>4, <3>6, LinhasTrocadas
  <2> QED BY <2>1, <2>2
<1> QED BY <1>1, <1>2 DEF Assume

LEMMA InsereEscreve ==
  ASSUME VinculosForma, NEW v, NEW p, vinculos' = Insere(v, p)
  PROVE  Calmo
PROOF
<1> DEFINE ultima == {k \in DOMAIN vinculos : \A j \in DOMAIN vinculos :
                                                vinculos[j].quando <= vinculos[k].quando}
           de == IF ultima = {} THEN [sit |-> "", quando |-> 0] ELSE vinculos[Min(ultima)]
           x == [proc |-> p, ativo |-> TRUE, sit |-> de.sit, quando |-> de.quando, hist |-> v.hist]
<1>1. vinculos' = vinculos \/ vinculos' = Append(vinculos, x)
  BY DEF Insere
<1> HIDE DEF de
<1>2. EhLinha(x)
  BY DEF EhLinha
<1> HIDE DEF x
<1> QED BY <1>1, <1>2, LinhaNova, LinhasParadas
-----------------------------------------------------------------------------
(* One step                                                                  *)
Resulta == Antes' /\ Religa

LEMMA GastaForma ==
  ASSUME saldo \in TipoSaldo,
         NEW q \in {"movs", "site", "atos", "quedas", "falhas", "outros"}, Gasta(q)
  PROVE  saldo' \in TipoSaldo
PROOF
<1> DEFINE n == saldo[q] - 1
<1>1. n \in Nat /\ saldo' = [saldo EXCEPT ![q] = n]
  BY DEF Gasta, TipoSaldo
<1> HIDE DEF n
<1> QED BY <1>1 DEF TipoSaldo

LEMMA TropecaForma ==
  ASSUME saldo \in TipoSaldo, NEW f \in BOOLEAN, Tropeca(f)
  PROVE  saldo' \in TipoSaldo
PROOF
<1>1. CASE f
  BY <1>1, GastaForma DEF Tropeca
<1>2. CASE ~f
  BY <1>2 DEF Tropeca
<1> QED BY <1>1, <1>2

\* an actor moves in VincularSeNovo
LEMMA TrocaPasso ==
  ASSUME PassoForma, AfirmaInv, NEW a \in Atores, NEW v, EhPasso(v),
         passo' = [passo EXCEPT ![a] = v],
         v.fase = "afirma" => a = Admin, a = Admin => v.origem # "historico"
  PROVE  PassoForma' /\ AfirmaInv' /\ passo'[a] = v
PROOF
<1>1. passo' = [b \in Atores |-> IF b = a THEN v ELSE passo[b]]
  BY DEF PassoForma
<1>2. PassoForma' /\ passo'[a] = v
  BY <1>1 DEF PassoForma
<1>3. AfirmaInv'
  BY <1>1 DEF AfirmaInv, Atores
<1> QED BY <1>2, <1>3

LEMMA PassoParado ==
  ASSUME PassoForma, AfirmaInv, UNCHANGED passo
  PROVE  PassoForma' /\ AfirmaInv'
  BY DEF PassoForma, AfirmaInv

LEMMA ChamaForma ==
  ASSUME PassoForma, AfirmaInv, NEW a \in Atores, NEW p, NEW o, NEW h, NEW f,
         Chama(a, p, o, h, f), a = Admin => o # "historico"
  PROVE  PassoForma' /\ AfirmaInv'
PROOF
<1> DEFINE g == IF ~f /\ \E k \in DOMAIN vinculos : vinculos[k].proc = p THEN "religa" ELSE "olha"
           v == [fase |-> g, proc |-> p, origem |-> o, hist |-> h, semProc |-> 0]
<1>1. passo' = [passo EXCEPT ![a] = v] /\ g # "afirma"
  BY DEF Chama
<1> HIDE DEF g
<1>2. EhPasso(v) /\ v.fase # "afirma" /\ v.origem = o
  BY <1>1 DEF EhPasso
<1> HIDE DEF v
<1> QED BY <1>1, <1>2, TrocaPasso

\* no e-mail loses its task, or the round that is about to give it one
LEMMA TarefaMantem ==
  ASSUME Antes, FichasBem, percalcos \subseteq percalcos', dispensados \subseteq dispensados',
         \A e \in eventos' \ eventos : \E i \in Instancias :
           rodada'[i].fase \in Meio /\ Head(rodada'[i].fila) = e,
         \A i \in Instancias : \A e : rodada[i].fase \in Meio /\ EmailDe(i) = e =>
           \/ rodada'[i].fase \in Meio /\ Head(rodada'[i].fila) = e
           \/ e \in dispensados' \/ TemFicha(e)' \/ Sofreu(e, QuePerde)'
  PROVE  TarefaSoSePerdeEmFalha'
PROOF
<1>a. ASSUME NEW i \in Instancias, NEW e
      PROVE  /\ e \in EmMaos(i) <=> rodada[i].fase \in Meio /\ EmailDe(i) = e
             /\ e \in EmMaos(i)' <=> rodada'[i].fase \in Meio /\ Head(rodada'[i].fila) = e
  BY DEF EmMaos, EmailDe, Meio
<1> SUFFICES ASSUME NEW e \in eventos', e \notin dispensados'
             PROVE  \/ TemFicha(e)'
                    \/ \E i \in Instancias : e \in EmMaos(i)'
                    \/ Sofreu(e, QuePerde)'
  BY DEF TarefaSoSePerdeEmFalha, TemFicha, Sofreu
<1>1. CASE e \notin eventos
  BY <1>1, <1>a
<1>2. CASE e \in eventos
  <2>1. \/ TemFicha(e) \/ \E i \in Instancias : e \in EmMaos(i)
        \/ Sofreu(e, QuePerde)
    BY <1>2 DEF Antes, TarefaSoSePerdeEmFalha, TemFicha, Sofreu
  <2>2. CASE TemFicha(e)
    BY <2>2 DEF FichasBem, TemFicha
  <2>3. CASE Sofreu(e, QuePerde)
    BY <2>3, SofreuFica
  <2>4. ASSUME NEW i \in Instancias, e \in EmMaos(i)
        PROVE  \/ TemFicha(e)'
               \/ \E j \in Instancias : e \in EmMaos(j)'
               \/ Sofreu(e, QuePerde)'
    BY <2>4, <1>a
  <2> QED BY <2>1, <2>2, <2>3, <2>4
<1> QED BY <1>1, <1>2

\* no round moves
LEMMA SemRodada ==
  ASSUME Antes, UNCHANGED <<rodada, eventos, dispensados, percalcos>>, FichasBem,
         PassoForma', AfirmaInv', saldo' \in TipoSaldo, VinculosForma', Religa
  PROVE  Resulta
PROOF
<1>1. \A i \in Instancias : \A e : rodada[i].fase \in Meio /\ EmailDe(i) = e =>
        rodada'[i].fase \in Meio /\ Head(rodada'[i].fila) = e
  BY DEF EmailDe
<1>2. TarefaSoSePerdeEmFalha'
  BY <1>1, TarefaMantem
<1>3. RodadaForma' /\ NumeroInv'
  BY DEF Antes, ProtForma, RodadaForma, NumeroInv, EmailDe, Sofreu
<1> QED BY <1>2, <1>3 DEF Resulta, Antes, ProtForma, FichasBem

\* the round of backend i moves
LEMMA Move ==
  ASSUME Antes, NEW i \in Instancias, NEW w, EhRodada(w), rodada' = [rodada EXCEPT ![i] = w],
         percalcos \subseteq percalcos', dispensados \subseteq dispensados',
         FichasBem, PassoForma', AfirmaInv', saldo' \in TipoSaldo, Calmo,
         \A e : w.fase \in Meio /\ Head(w.fila) = e =>
           w.evento = e \/ (w.evento = 0 /\ Sofreu(e, {"evento"})'),
         \A e \in eventos' \ eventos : w.fase \in Meio /\ Head(w.fila) = e,
         \A e : rodada[i].fase \in Meio /\ EmailDe(i) = e =>
           \/ w.fase \in Meio /\ Head(w.fila) = e
           \/ e \in dispensados' \/ TemFicha(e)' \/ Sofreu(e, QuePerde)'
  PROVE  Resulta
PROOF
<1>1. OutrasRodadas(i) /\ rodada'[i] = w /\ RodadaForma'
  BY TrocaRodada DEF Antes, ProtForma
<1>2. NumeroInv'
  <2> SUFFICES ASSUME NEW j \in Instancias, NEW e, rodada'[j].fase \in Meio,
                      Head(rodada'[j].fila) = e
               PROVE  rodada'[j].evento = e \/ (rodada'[j].evento = 0 /\ Sofreu(e, {"evento"})')
    BY DEF NumeroInv, EmailDe
  <2>1. CASE j = i
    BY <1>1, <2>1
  <2>2. CASE j # i
    <3>1. rodada'[j] = rodada[j]
      BY <1>1, <2>2 DEF OutrasRodadas
    <3>2. rodada[j].evento = e \/ (rodada[j].evento = 0 /\ Sofreu(e, {"evento"}))
      BY <3>1 DEF Antes, NumeroInv, EmailDe
    <3> QED BY <3>1, <3>2, SofreuFica
  <2> QED BY <2>1, <2>2
<1>3. ASSUME NEW j \in Instancias, NEW e, rodada[j].fase \in Meio, EmailDe(j) = e
      PROVE  \/ rodada'[j].fase \in Meio /\ Head(rodada'[j].fila) = e
             \/ e \in dispensados' \/ TemFicha(e)' \/ Sofreu(e, QuePerde)'
  <2>1. CASE j = i
    BY <1>1, <1>3, <2>1
  <2>2. CASE j # i
    BY <1>1, <1>3, <2>2 DEF OutrasRodadas, EmailDe
  <2> QED BY <2>1, <2>2
<1>4. TarefaSoSePerdeEmFalha'
  BY <1>1, <1>3, TarefaMantem
<1> QED BY <1>1, <1>2, <1>4 DEF Resulta, Antes, ProtForma, Calmo, FichasBem, Religa

\* and it has no e-mail in hand
LEMMA ForaDoMeio ==
  ASSUME Antes, NEW i \in Instancias, NEW w, EhRodada(w), rodada' = [rodada EXCEPT ![i] = w],
         rodada[i].fase \notin Meio, w.fase \notin Meio, UNCHANGED <<eventos, dispensados>>,
         percalcos \subseteq percalcos', FichasBem, PassoForma', AfirmaInv',
         saldo' \in TipoSaldo, Calmo
  PROVE  Resulta
BY Move

\* and nothing else of interest does
LEMMA SoMove ==
  ASSUME Antes, NEW i \in Instancias, NEW w, EhRodada(w), rodada' = [rodada EXCEPT ![i] = w],
         rodada[i].fase \notin Meio, w.fase \notin Meio,
         UNCHANGED <<vinculos, fichas, eventos, dispensados>>,
         percalcos \subseteq percalcos', PassoForma', AfirmaInv', saldo' \in TipoSaldo
  PROVE  Resulta
PROOF
<1>1. Calmo /\ FichasBem
  BY LinhasParadas, FichasParadas DEF Antes, ProtForma
<1> QED BY <1>1, ForaDoMeio
-----------------------------------------------------------------------------
(* The steps of VincularSeNovo                                               *)

\* what comes back of it
LEMMA RetornaForma ==
  ASSUME Antes, NEW a \in Atores, Retorna(a), passo[a].fase # "livre"
  PROVE  PassoForma' /\ AfirmaInv' /\ passo'[a] # passo[a]
PROOF
<1>0. PassoForma /\ AfirmaInv /\ EhPasso(passo[a])
  BY DEF Antes, ProtForma, PassoForma
<1>1. CASE a = Admin /\ passo[a].fase # "afirma"
  <2> DEFINE v == [passo[a] EXCEPT !.fase = "afirma"]
  <2>1. EhPasso(v)
    BY <1>0 DEF EhPasso
  <2>2. v.fase = "afirma" /\ v.origem = passo[a].origem
    BY <1>0 DEF EhPasso
  <2>3. passo' = [passo EXCEPT ![a] = v]
    BY <1>1 DEF Retorna
  <2> HIDE DEF v
  <2>4. PassoForma' /\ AfirmaInv' /\ passo'[a] = v
    BY <1>0, <1>1, <2>1, <2>2, <2>3, TrocaPasso DEF AfirmaInv
  <2> QED BY <1>1, <2>2, <2>4
<1>2. CASE ~(a = Admin /\ passo[a].fase # "afirma")
  <2>1. passo' = [passo EXCEPT ![a] = SemPasso]
    BY <1>2 DEF Retorna
  <2>2. EhPasso(SemPasso) /\ SemPasso.fase = "livre" /\ SemPasso.origem = "manual"
    BY DEF EhPasso, SemPasso
  <2>3. PassoForma' /\ AfirmaInv' /\ passo'[a] = SemPasso
    BY <1>0, <2>1, <2>2, TrocaPasso
  <2> QED BY <2>2, <2>3
<1> QED BY <1>1, <1>2

\* what stays in it
LEMMA SegueForma ==
  ASSUME Antes, NEW a \in Atores, NEW f, f # "afirma",
         \/ passo' = [passo EXCEPT ![a].fase = f]
         \/ \E z : passo' = [passo EXCEPT ![a].fase = f, ![a].semProc = z]
  PROVE  PassoForma' /\ AfirmaInv'
PROOF
<1>0. PassoForma /\ AfirmaInv /\ EhPasso(passo[a])
  BY DEF Antes, ProtForma, PassoForma
<1> DEFINE v == [passo[a] EXCEPT !.fase = f]
<1>1. EhPasso(v)
  BY <1>0 DEF EhPasso
<1>2. v.fase = f /\ v.origem = passo[a].origem
  BY <1>0 DEF EhPasso
<1>3. CASE passo' = [passo EXCEPT ![a].fase = f]
  <2>1. passo' = [passo EXCEPT ![a] = v]
    BY <1>3
  <2> HIDE DEF v
  <2> QED BY <1>0, <1>1, <1>2, <2>1, TrocaPasso DEF AfirmaInv
<1>4. ASSUME NEW z, passo' = [passo EXCEPT ![a].fase = f, ![a].semProc = z]
      PROVE  PassoForma' /\ AfirmaInv'
  <2> DEFINE y == [v EXCEPT !.semProc = z]
  <2>1. passo' = [passo EXCEPT ![a] = [passo[a] EXCEPT !.fase = f, !.semProc = z]]
    BY <1>0, <1>4 DEF PassoForma
  <2>2. passo' = [passo EXCEPT ![a] = y]
    BY <2>1
  <2> HIDE DEF v
  <2>3. EhPasso(y)
    BY <1>1 DEF EhPasso
  <2>4. y.fase = f /\ y.origem = passo[a].origem
    BY <1>1, <1>2 DEF EhPasso
  <2> HIDE DEF y
  <2> QED BY <1>0, <2>2, <2>3, <2>4, TrocaPasso DEF AfirmaInv
<1> QED BY <1>3, <1>4

LEMMA PassoVincula ==
  ASSUME Antes, NEW a \in Atores, VincularSeNovo(a)
  PROVE  Resulta
PROOF
<1>0. /\ VinculosForma /\ FichasForma /\ FichaInv /\ UmaTarefaPorEvento /\ AfirmaInv
      /\ saldo \in TipoSaldo
  BY DEF Antes, ProtForma
<1>1. PICK f \in BOOLEAN :
        /\ Tropeca(f)
        /\ \/ ReligaVinculo(a, f) \/ OlhaSemProcesso(a, f) \/ InsereVinculo(a, f)
           \/ AssumeVinculo(a, f) \/ FechaRegistro(a, f) \/ AtribuiTarefas(a, f)
           \/ AfirmaVinculo(a, f)
  BY DEF VincularSeNovo
<1>2. UNCHANGED <<eventos, rodada, dispensados, percalcos>>
  BY DEF VincularSeNovo, marcas
<1>3. saldo' \in TipoSaldo /\ percalcos \subseteq percalcos'
  BY <1>0, <1>1, <1>2, TropecaForma
<1>4. UNCHANGED fichas => FichasBem
  BY <1>0, <1>3, FichasParadas
<1>5. UNCHANGED vinculos => Calmo
  BY <1>0, LinhasParadas
<1>6. ASSUME FichasBem, Calmo, PassoForma', AfirmaInv' PROVE Resulta
  BY <1>2, <1>3, <1>6, SemRodada DEF Calmo, Religa
<1>7. CASE ReligaVinculo(a, f)
  <2>1. PassoForma' /\ AfirmaInv' /\ passo'[a] # passo[a]
    BY <1>7, RetornaForma DEF ReligaVinculo
  <2>2. FichasBem
    BY <1>4, <1>7 DEF ReligaVinculo
  <2>3. VinculosForma' /\ (Calmo \/ passo[a].origem # "historico")
    <3>1. CASE f
      BY <1>5, <1>7, <3>1 DEF ReligaVinculo, Calmo
    <3>2. CASE ~f
      <4>1. vinculos' = Reativa(passo[a], passo[a].proc)
        BY <1>7, <3>2 DEF ReligaVinculo
      <4> QED BY <1>0, <4>1, ReativaEscreve
    <3> QED BY <3>1, <3>2
  <2>4. Religa
    BY <2>1, <2>3 DEF Religa, Calmo
  <2> QED BY <1>2, <1>3, <2>1, <2>2, <2>3, <2>4, SemRodada
<1>8. CASE OlhaSemProcesso(a, f)
  <2>1. PassoForma' /\ AfirmaInv'
    <3>1. \/ passo' = [passo EXCEPT ![a].fase = "insere"]
          \/ \E z : passo' = [passo EXCEPT ![a].fase = "assume", ![a].semProc = z]
      BY <1>8 DEF OlhaSemProcesso
    <3> QED BY <3>1, SegueForma
  <2> QED BY <1>4, <1>5, <1>6, <1>8, <2>1 DEF OlhaSemProcesso
<1>9. CASE InsereVinculo(a, f)
  <2>1. PassoForma' /\ AfirmaInv'
    BY <1>9, RetornaForma DEF InsereVinculo
  <2>2. vinculos' = vinculos \/ vinculos' = Insere(passo[a], passo[a].proc)
    BY <1>9 DEF InsereVinculo
  <2>3. Calmo
    BY <1>0, <1>5, <2>2, InsereEscreve
  <2> QED BY <1>4, <1>6, <1>9, <2>1, <2>3 DEF InsereVinculo
<1>10. CASE AssumeVinculo(a, f)
  <2>1. PassoForma' /\ AfirmaInv'
    BY <1>10, SegueForma DEF AssumeVinculo
  <2>2. vinculos' = vinculos \/ vinculos' = Assume(passo[a], passo[a].proc)
    BY <1>10 DEF AssumeVinculo
  <2>3. Calmo
    BY <1>0, <1>5, <2>2, AssumeEscreve
  <2> QED BY <1>4, <1>6, <1>10, <2>1, <2>3 DEF AssumeVinculo
<1>11. CASE FechaRegistro(a, f) \/ AtribuiTarefas(a, f)
  <2>1. PassoForma' /\ AfirmaInv'
    <3>1. CASE FechaRegistro(a, f)
      BY <3>1, SegueForma DEF FechaRegistro
    <3>2. CASE AtribuiTarefas(a, f)
      BY <3>2, RetornaForma DEF AtribuiTarefas
    <3> QED BY <1>11, <3>1, <3>2
  <2>2. FichasBem
    <3>1. CASE UNCHANGED fichas
      BY <1>4, <3>1
    <3>2. CASE \/ fichas' = [k \in DOMAIN fichas |-> Fechada(fichas[k], passo[a].proc)]
               \/ fichas' = [k \in DOMAIN fichas |-> Atribuida(fichas[k], passo[a].proc)]
      <4>1. fichas' = [k \in DOMAIN fichas |-> fichas'[k]]
        BY <3>2
      <4>2. ASSUME NEW k \in DOMAIN fichas
            PROVE  /\ EhFicha(fichas'[k]) /\ fichas'[k].email = fichas[k].email
                   /\ fichas'[k].evento = fichas[k].evento
        <5>1. \/ fichas'[k] = Fechada(fichas[k], passo[a].proc)
              \/ fichas'[k] = Atribuida(fichas[k], passo[a].proc)
          BY <3>2
        <5>2. EhFicha(fichas[k])
          BY <1>0 DEF FichasForma
        <5> QED BY <5>1, <5>2, CamposFicha
      <4> QED BY <1>0, <1>3, <4>1, <4>2, FichasIguais
    <3>3. \/ UNCHANGED fichas
          \/ fichas' = [k \in DOMAIN fichas |-> Fechada(fichas[k], passo[a].proc)]
          \/ fichas' = [k \in DOMAIN fichas |-> Atribuida(fichas[k], passo[a].proc)]
      BY <1>11 DEF FechaRegistro, AtribuiTarefas
    <3> QED BY <3>1, <3>2, <3>3
  <2>3. UNCHANGED vinculos
    BY <1>11 DEF FechaRegistro, AtribuiTarefas
  <2> QED BY <1>5, <1>6, <2>1, <2>2, <2>3
<1>12. CASE AfirmaVinculo(a, f)
  <2>1. PassoForma' /\ AfirmaInv' /\ passo'[a] # passo[a]
    BY <1>12, RetornaForma DEF AfirmaVinculo
  <2>2. passo[a].origem # "historico"
    BY <1>0, <1>12 DEF AfirmaVinculo, AfirmaInv
  <2>3. VinculosForma'
    BY <1>0, <1>5, <1>12, LigaEscreve DEF AfirmaVinculo, Calmo
  <2>4. FichasBem
    BY <1>4, <1>12 DEF AfirmaVinculo
  <2>5. Religa
    BY <2>1, <2>2 DEF Religa
  <2> QED BY <1>2, <1>3, <2>1, <2>3, <2>4, <2>5, SemRodada
<1> QED BY <1>1, <1>7, <1>8, <1>9, <1>10, <1>11, <1>12
-----------------------------------------------------------------------------
(* The steps of a round                                                      *)

LEMMA PassoBusca ==
  ASSUME Antes, NEW i \in Instancias,
         \/ RodadaComeca(i) \/ Captura(i) \/ LigaAchado(i) \/ ProcuraSemProcesso(i)
         \/ ListaEmails(i) \/ ListaFalha(i) \/ ProcuraProcesso(i) \/ RodadaTermina(i)
  PROVE  Resulta
PROOF
<1>0. /\ EhRodada(rodada[i]) /\ PassoForma /\ AfirmaInv /\ saldo \in TipoSaldo
      /\ i \in Atores /\ i # Admin
  BY ProtocolosOK DEF Antes, ProtForma, RodadaForma, Atores
<1>a. EhRodada(Parada) /\ Parada.fase \notin Meio
  BY Paradas DEF Meio
<1>b. UNCHANGED passo => PassoForma' /\ AfirmaInv'
  BY <1>0, PassoParado
<1>c. (\E f \in BOOLEAN : Tropeca(f)) \/ UNCHANGED saldo => saldo' \in TipoSaldo
  BY <1>0, TropecaForma
<1>1. CASE RodadaComeca(i)
  <2>1. PICK f \in BOOLEAN :
          /\ Tropeca(f)
          /\ rodada' = [rodada EXCEPT ![i] = [Parada EXCEPT !.fase = "captura",
               !.fila = SetToSortSeq(Novas(f), LAMBDA x, y : x.id < y.id)]]
    BY <1>1 DEF RodadaComeca
  <2> DEFINE q == SetToSortSeq(Novas(f), LAMBDA x, y : x.id < y.id)
             w == [Parada EXCEPT !.fase = "captura", !.fila = q]
  <2>2. rodada' = [rodada EXCEPT ![i] = w]
    BY <2>1
  <2> HIDE DEF q
  <2>3. EhRodada(w) /\ w.fase \notin Meio
    <3>1. EhRodada(w) /\ w.fase = "captura"
      BY <1>a, ComFila
    <3> QED BY <3>1 DEF Meio
  <2> HIDE DEF w
  <2>4. rodada[i].fase \notin Meio
    BY <1>1 DEF RodadaComeca, Meio
  <2>5. UNCHANGED <<vinculos, fichas, eventos, passo, dispensados, percalcos>>
    BY <1>1 DEF RodadaComeca, tabelas, marcas
  <2> QED BY <1>b, <1>c, <2>1, <2>2, <2>3, <2>4, <2>5, SoMove
<1>2. CASE Captura(i)
  <2>1. PICK f \in BOOLEAN : Tropeca(f) /\ \E p, h : Chama(i, p, "historico", h, f)
    BY <1>2 DEF Captura
  <2> DEFINE w == [rodada[i] EXCEPT !.fila = Tail(@)]
  <2>2. rodada' = [rodada EXCEPT ![i] = w] /\ rodada[i].fase = "captura"
    BY <1>2 DEF Captura
  <2>3. EhRodada(w) /\ w.fase = rodada[i].fase
    BY <1>0, TrocaUm
  <2> HIDE DEF w
  <2>4. rodada[i].fase \notin Meio
    BY <2>2 DEF Meio
  <2>5. PassoForma' /\ AfirmaInv'
    BY <1>0, <2>1, ChamaForma
  <2>6. UNCHANGED <<vinculos, fichas, eventos, dispensados, percalcos>>
    BY <1>2 DEF Captura, tabelas, marcas
  <2> QED BY <1>c, <2>1, <2>2, <2>3, <2>4, <2>5, <2>6, SoMove
<1>3. CASE LigaAchado(i)
  <2>1. rodada[i].fase \notin Meio
    BY <1>3 DEF LigaAchado, Meio
  <2>2. UNCHANGED <<vinculos, fichas, eventos, dispensados, percalcos>>
    BY <1>3 DEF LigaAchado, tabelas, marcas
  <2>3. CASE Vai(i, rodada[i].depois) /\ UNCHANGED <<passo, saldo>>
    <3> DEFINE d == rodada[i].depois
               w == [rodada[i] EXCEPT !.fase = d]
    <3>1. rodada' = [rodada EXCEPT ![i] = w] /\ d \notin Meio
      BY <1>0, <2>3 DEF Vai, EhRodada
    <3> HIDE DEF d
    <3>2. EhRodada(w) /\ w.fase = d
      BY <1>0, TrocaUm
    <3> HIDE DEF w
    <3> QED BY <1>b, <1>c, <2>1, <2>2, <2>3, <3>1, <3>2, SoMove
  <2>4. ASSUME NEW f \in BOOLEAN, NEW p, NEW o \in {"site", "email"}, Tropeca(f),
               Chama(i, p, o, 0, f), rodada' = [rodada EXCEPT ![i].achados = @ \ {p}]
        PROVE  Resulta
    <3> DEFINE w == [rodada[i] EXCEPT !.achados = @ \ {p}]
    <3>1. EhRodada(w) /\ w.fase = rodada[i].fase
      BY <1>0, TrocaUm
    <3>2. rodada' = [rodada EXCEPT ![i] = w]
      BY <2>4
    <3> HIDE DEF w
    <3>3. PassoForma' /\ AfirmaInv'
      BY <1>0, <2>4, ChamaForma
    <3> QED BY <1>c, <2>1, <2>2, <2>4, <3>1, <3>2, <3>3, SoMove
  <2>5. \/ Vai(i, rodada[i].depois) /\ UNCHANGED <<passo, saldo>>
        \/ \E f \in BOOLEAN : \E p : \E o \in {"site", "email"} :
             /\ Tropeca(f) /\ Chama(i, p, o, 0, f)
             /\ rodada' = [rodada EXCEPT ![i].achados = @ \ {p}]
    <3>1. CASE rodada[i].achados = {}
      BY <1>3, <3>1 DEF LigaAchado
    <3>2. CASE rodada[i].achados # {}
      <4>1. PICK f \in BOOLEAN : LET p == Min(rodada[i].achados) IN
              /\ Tropeca(f)
              /\ Chama(i, p, IF rodada[i].depois = "siteTarefas" THEN "site" ELSE "email", 0, f)
              /\ rodada' = [rodada EXCEPT ![i].achados = @ \ {p}]
        BY <1>3, <3>2 DEF LigaAchado
      <4> DEFINE p == Min(rodada[i].achados)
                 o == IF rodada[i].depois = "siteTarefas" THEN "site" ELSE "email"
      <4>2. /\ Tropeca(f) /\ Chama(i, p, o, 0, f) /\ o \in {"site", "email"}
            /\ rodada' = [rodada EXCEPT ![i].achados = @ \ {p}]
        BY <4>1
      <4> HIDE DEF p, o
      <4> QED BY <4>2
    <3> QED BY <3>1, <3>2
  <2> QED BY <2>3, <2>4, <2>5
<1>4. CASE ProcuraSemProcesso(i)
  <2>1. PICK S : rodada' = [rodada EXCEPT ![i].fase = "procura", ![i].achados = S,
                                          ![i].depois = "lista"]
    BY <1>4 DEF ProcuraSemProcesso
  <2> DEFINE w == [rodada[i] EXCEPT !.fase = "procura", !.achados = S, !.depois = "lista"]
  <2>2. rodada' = [rodada EXCEPT ![i] = w]
    BY <1>0, <2>1 DEF EhRodada
  <2>3. EhRodada(w) /\ w.fase \notin Meio
    <3>1. "lista" \notin Meio /\ "procura" \notin Meio
      BY DEF Meio
    <3>2. EhRodada(w)
      BY <1>0, <3>1, ComAchados
    <3>3. w.fase = "procura"
      BY <1>0, <3>1, ComAchados
    <3> QED BY <3>1, <3>2, <3>3
  <2> HIDE DEF w
  <2>4. rodada[i].fase \notin Meio
    BY <1>4 DEF ProcuraSemProcesso, Meio
  <2>5. UNCHANGED <<vinculos, fichas, eventos, passo, saldo, dispensados, percalcos>>
    BY <1>4 DEF ProcuraSemProcesso, tabelas, marcas
  <2> QED BY <1>b, <1>c, <2>2, <2>3, <2>4, <2>5, SoMove
<1>5. CASE ListaEmails(i)
  <2>1. PICK f \in BOOLEAN :
          /\ Tropeca(f) /\ Percalco(f, "marca", chegou \ eventos)
          /\ rodada' = [rodada EXCEPT ![i].fase = "email",
               ![i].primeira = f \/ (eventos = {} /\ ~outros),
               ![i].fila = SetToSortSeq(chegou \ eventos, <)]
    BY <1>5 DEF ListaEmails
  <2> DEFINE q == SetToSortSeq(chegou \ eventos, <)
             b == f \/ (eventos = {} /\ ~outros)
             w == [rodada[i] EXCEPT !.fase = "email", !.primeira = b, !.fila = q]
  <2>2. rodada' = [rodada EXCEPT ![i].fase = "email", ![i].primeira = b, ![i].fila = q]
    BY <2>1
  <2> HIDE DEF q, b
  <2>3. rodada' = [rodada EXCEPT ![i] = w]
    BY <1>0, <2>2 DEF EhRodada
  <2>4. EhRodada(w) /\ w.fase \notin Meio
    <3>1. "email" \notin Meio
      BY DEF Meio
    <3>2. EhRodada(w)
      BY <1>0, <3>1, ComLista
    <3>3. w.fase = "email"
      BY <1>0 DEF EhRodada
    <3> QED BY <3>1, <3>2, <3>3
  <2> HIDE DEF w
  <2>5. rodada[i].fase \notin Meio
    BY <1>5 DEF ListaEmails, Meio
  <2>6. UNCHANGED <<vinculos, fichas, eventos, passo, dispensados>>
    BY <1>5 DEF ListaEmails, tabelas
  <2>7. percalcos \subseteq percalcos'
    BY <2>1, PercalcoFica
  <2> QED BY <1>b, <1>c, <2>1, <2>3, <2>4, <2>5, <2>6, <2>7, SoMove
<1>6. CASE ProcuraProcesso(i)
  <2>1. PICK f \in BOOLEAN : /\ Tropeca(f)
                             /\ \E S : rodada' = [rodada EXCEPT ![i].fase = "procura",
                                         ![i].achados = S, ![i].depois = "linha"]
    BY <1>6 DEF ProcuraProcesso
  <2>2. PICK S : rodada' = [rodada EXCEPT ![i].fase = "procura", ![i].achados = S,
                                          ![i].depois = "linha"]
    BY <2>1
  <2> DEFINE w == [rodada[i] EXCEPT !.fase = "procura", !.achados = S, !.depois = "linha"]
  <2>3. rodada' = [rodada EXCEPT ![i] = w]
    BY <1>0, <2>2 DEF EhRodada
  <2>4. EhRodada(w) /\ w.fase \notin Meio
    <3>1. "linha" \notin Meio /\ "procura" \notin Meio
      BY DEF Meio
    <3>2. EhRodada(w)
      BY <1>0, <3>1, ComAchados
    <3>3. w.fase = "procura"
      BY <1>0, <3>1, ComAchados
    <3> QED BY <3>1, <3>2, <3>3
  <2> HIDE DEF w
  <2>5. rodada[i].fase \notin Meio
    BY <1>6 DEF ProcuraProcesso, Meio
  <2>6. UNCHANGED <<vinculos, fichas, eventos, passo, dispensados, percalcos>>
    BY <1>6 DEF ProcuraProcesso, tabelas, marcas
  <2> QED BY <1>b, <1>c, <2>1, <2>3, <2>4, <2>5, <2>6, SoMove
<1>7. CASE ListaFalha(i) \/ RodadaTermina(i)
  <2>1. rodada' = [rodada EXCEPT ![i] = Parada] /\ rodada[i].fase \notin Meio
    BY <1>7 DEF ListaFalha, RodadaTermina, Meio
  <2>2. UNCHANGED <<vinculos, fichas, eventos, passo, dispensados, percalcos>>
    BY <1>7 DEF ListaFalha, RodadaTermina, tabelas, marcas
  <2>3. saldo' \in TipoSaldo
    BY <1>c, <1>7 DEF ListaFalha, RodadaTermina
  <2> QED BY <1>a, <1>b, <2>1, <2>2, <2>3, SoMove
<1> QED BY <1>1, <1>2, <1>3, <1>4, <1>5, <1>6, <1>7

\* the lines of the protocol
LEMMA PassoLinha ==
  ASSUME Antes, NEW i \in Instancias, OlhaLinha(i) \/ GaranteLinha(i) \/ LeLinhas(i)
  PROVE  Resulta
PROOF
<1>0. EhRodada(rodada[i]) /\ saldo \in TipoSaldo /\ VinculosForma
  BY DEF Antes, ProtForma, RodadaForma
<1>1. /\ rodada[i].fase \notin Meio /\ "le" \notin Meio /\ "cria" \notin Meio /\ "leu" \notin Meio
      /\ UNCHANGED <<eventos, fichas, passo, dispensados>>
  BY DEF OlhaLinha, GaranteLinha, LeLinhas, tabelas, marcas, Meio
<1>2. PassoForma' /\ AfirmaInv'
  BY <1>1, PassoParado DEF Antes, ProtForma
<1>3. CASE OlhaLinha(i)
  <2>1. PICK f \in BOOLEAN : Tropeca(f) /\ \E n \in {"le", "cria"} : Vai(i, n)
    BY <1>3 DEF OlhaLinha
  <2>2. PICK n \in {"le", "cria"} : Vai(i, n)
    BY <2>1
  <2> DEFINE w == [rodada[i] EXCEPT !.fase = n]
  <2>3. rodada' = [rodada EXCEPT ![i] = w]
    BY <2>2 DEF Vai
  <2>a. EhRodada(w)
    BY <1>0, UmCampo
  <2>b. w.fase = n
    BY <1>0, SoAFase
  <2> HIDE DEF w
  <2>4. saldo' \in TipoSaldo
    BY <1>0, <2>1, TropecaForma
  <2>5. UNCHANGED <<vinculos, percalcos>>
    BY <1>3 DEF OlhaLinha, tabelas, marcas
  <2> QED BY <1>1, <1>2, <2>2, <2>3, <2>a, <2>b, <2>4, <2>5, SoMove
<1>4. CASE GaranteLinha(i)
  <2>1. PICK f \in BOOLEAN : /\ Tropeca(f) /\ Percalco(f, "linhas", {EmailDe(i)})
                             /\ vinculos' = IF f THEN vinculos ELSE Append(vinculos, SemProcesso)
    BY <1>4 DEF GaranteLinha
  <2>2. EhLinha(SemProcesso)
    BY DEF EhLinha, SemProcesso
  <2>3. Calmo
    BY <1>0, <2>1, <2>2, LinhaNova, LinhasParadas
  <2> DEFINE w == [rodada[i] EXCEPT !.fase = "le"]
  <2>4. rodada' = [rodada EXCEPT ![i] = w]
    BY <1>4 DEF GaranteLinha, Vai
  <2>a. EhRodada(w)
    BY <1>0, UmCampo
  <2>b. w.fase = "le"
    BY <1>0, SoAFase
  <2> HIDE DEF w
  <2>5. saldo' \in TipoSaldo /\ percalcos \subseteq percalcos'
    BY <1>0, <2>1, TropecaForma, PercalcoFica
  <2>6. FichasBem
    BY <1>1, <2>5, FichasParadas DEF Antes, ProtForma
  <2> QED BY <1>1, <1>2, <2>3, <2>4, <2>a, <2>b, <2>5, <2>6, ForaDoMeio
<1>5. CASE LeLinhas(i)
  <2>1. PICK f \in BOOLEAN : /\ Tropeca(f) /\ Percalco(f, "linhas", {EmailDe(i)})
                             /\ \E L : rodada' = [rodada EXCEPT ![i].fase = "leu", ![i].linhas = L]
    BY <1>5 DEF LeLinhas
  <2>2. PICK L : rodada' = [rodada EXCEPT ![i].fase = "leu", ![i].linhas = L]
    BY <2>1
  <2> DEFINE w == [rodada[i] EXCEPT !.fase = "leu", !.linhas = L]
  <2>3. rodada' = [rodada EXCEPT ![i] = w]
    BY <1>0, <2>2 DEF EhRodada
  <2>4. EhRodada(w) /\ w.fase = "leu"
    <3>1. EhRodada(w)
      BY <1>0, ComLinhas
    <3>2. w.fase = "leu"
      BY <1>0 DEF EhRodada
    <3> QED BY <3>1, <3>2
  <2> HIDE DEF w
  <2>5. saldo' \in TipoSaldo /\ percalcos \subseteq percalcos'
    BY <1>0, <2>1, TropecaForma, PercalcoFica
  <2>6. UNCHANGED vinculos
    BY <1>5 DEF LeLinhas, tabelas
  <2> QED BY <1>1, <1>2, <2>3, <2>4, <2>5, <2>6, SoMove
<1> QED BY <1>3, <1>4, <1>5
-----------------------------------------------------------------------------
(* The part of a round between an event and its tasks                        *)

LEMMA PassoGravaEvento ==
  ASSUME Antes, NEW i \in Instancias, GravaEvento(i)
  PROVE  Resulta
PROOF
<1>0. /\ EhRodada(rodada[i]) /\ saldo \in TipoSaldo /\ VinculosForma
      /\ FichasForma /\ FichaInv /\ UmaTarefaPorEvento
  BY DEF Antes, ProtForma, RodadaForma
<1>1. /\ rodada[i].fase \notin Meio /\ "email" \notin Meio /\ "situacao" \in Meio
      /\ UNCHANGED <<vinculos, fichas, passo, dispensados>>
  BY DEF GravaEvento, Meio
<1>2. PassoForma' /\ AfirmaInv'
  BY <1>1, PassoParado DEF Antes, ProtForma
<1>3. PICK f \in BOOLEAN :
       /\ Tropeca(f)
       /\ \/ /\ f \/ EmailDe(i) \in eventos
             /\ Proximo(i) /\ UNCHANGED <<eventos, percalcos>>
          \/ /\ EmailDe(i) \notin eventos
             /\ eventos' = eventos \cup {EmailDe(i)}
             /\ rodada' = [rodada EXCEPT ![i].fase = "situacao",
                             ![i].evento = IF f THEN 0 ELSE EmailDe(i)]
             /\ Percalco(f, "evento", {EmailDe(i)})
  BY DEF GravaEvento
<1>4. saldo' \in TipoSaldo
  BY <1>0, <1>3, TropecaForma
<1>5. CASE Proximo(i) /\ UNCHANGED <<eventos, percalcos>>
  <2> DEFINE q == Tail(rodada[i].fila)
             w == [rodada[i] EXCEPT !.fase = "email", !.fila = q]
  <2>1. rodada' = [rodada EXCEPT ![i] = w]
    BY <1>0, <1>5 DEF Proximo, EhRodada
  <2> HIDE DEF q
  <2>2. EhRodada(w)
    BY <1>0, ComFila
  <2>3. w.fase = "email"
    BY <1>0 DEF EhRodada
  <2> HIDE DEF w
  <2> QED BY <1>1, <1>2, <1>4, <1>5, <2>1, <2>2, <2>3, SoMove
<1>6. CASE /\ eventos' = eventos \cup {EmailDe(i)}
           /\ rodada' = [rodada EXCEPT ![i].fase = "situacao",
                           ![i].evento = IF f THEN 0 ELSE EmailDe(i)]
           /\ Percalco(f, "evento", {EmailDe(i)})
  <2>1. PICK e : e = EmailDe(i)
    OBVIOUS
  <2> DEFINE n == IF f THEN 0 ELSE e
             w == [rodada[i] EXCEPT !.fase = "situacao", !.evento = n]
  <2>2. percalcos \subseteq percalcos' /\ (n # e => n = 0 /\ Sofreu(e, {"evento"})')
    <3>1. /\ percalcos \subseteq percalcos'
          /\ f => \A x \in {e} : \A O : "evento" \in O => Sofreu(x, O)'
      BY <1>6, <2>1, PercalcoFica
    <3> QED BY <3>1
  <2>3. rodada' = [rodada EXCEPT ![i].fase = "situacao", ![i].evento = n]
    BY <1>6, <2>1
  <2> HIDE DEF n
  <2>4. rodada' = [rodada EXCEPT ![i] = w]
    BY <1>0, <2>3 DEF EhRodada
  <2>5. EhRodada(w)
    BY <1>0, ComEvento
  <2>6. w.fase = "situacao" /\ w.fila = rodada[i].fila /\ w.evento = n
    BY <1>0 DEF EhRodada
  <2> HIDE DEF w
  <2>7. w.fase \in Meio /\ Head(w.fila) = e
    BY <1>1, <2>1, <2>6 DEF EmailDe
  <2>8. FichasBem /\ Calmo
    BY <1>0, <1>1, <2>2, FichasParadas, LinhasParadas
  <2>9. eventos' \ eventos \subseteq {e}
    BY <1>6, <2>1
  <2>10. \A x : Head(w.fila) = x => w.evento = x \/ (w.evento = 0 /\ Sofreu(x, {"evento"})')
    <3> TAKE x
    <3> HAVE Head(w.fila) = x
    <3>1. x = e
      BY <2>7
    <3>2. n = e \/ (n = 0 /\ Sofreu(e, {"evento"})')
      BY <2>2
    <3> QED BY <2>6, <3>1, <3>2
  <2>a. \A x : w.fase \in Meio /\ Head(w.fila) = x =>
          w.evento = x \/ (w.evento = 0 /\ Sofreu(x, {"evento"})')
    BY <2>10
  <2>b. \A x \in eventos' \ eventos : w.fase \in Meio /\ Head(w.fila) = x
    BY <2>7, <2>9
  <2>c. \A x : rodada[i].fase \in Meio /\ EmailDe(i) = x =>
          \/ w.fase \in Meio /\ Head(w.fila) = x
          \/ x \in dispensados' \/ TemFicha(x)' \/ Sofreu(x, QuePerde)'
    BY <1>1
  <2> QED BY <1>1, <1>2, <1>4, <2>2, <2>4, <2>5, <2>8, <2>a, <2>b, <2>c, Move
<1> QED BY <1>3, <1>5, <1>6

LEMMA PassoAvanca ==
  ASSUME Antes, NEW i \in Instancias, AvancaSituacao(i)
  PROVE  Resulta
PROOF
<1>0. /\ EhRodada(rodada[i]) /\ saldo \in TipoSaldo /\ VinculosForma
      /\ FichasForma /\ FichaInv /\ UmaTarefaPorEvento
  BY DEF Antes, ProtForma, RodadaForma
<1>1. UNCHANGED <<eventos, fichas, passo, percalcos>> /\ rodada[i].fase = "situacao"
  BY DEF AvancaSituacao
<1>2. PassoForma' /\ AfirmaInv'
  BY <1>1, PassoParado DEF Antes, ProtForma
<1>3. PICK e : e = EmailDe(i)
  OBVIOUS
<1>4. PICK f \in BOOLEAN :
        /\ Tropeca(f)
        /\ vinculos' = [k \in DOMAIN vinculos |->
             IF ~f /\ Avanca(e, vinculos[k])
             THEN [vinculos[k] EXCEPT !.sit = SituacaoDe(TipoDe[e]), !.quando = e]
             ELSE vinculos[k]]
  BY <1>3 DEF AvancaSituacao
<1>5. saldo' \in TipoSaldo
  BY <1>0, <1>4, TropecaForma
<1>6. Calmo
  <2>1. vinculos' = [k \in DOMAIN vinculos |-> vinculos'[k]]
    BY <1>4
  <2>2. ASSUME NEW k \in DOMAIN vinculos
        PROVE  EhLinha(vinculos'[k]) /\ (vinculos'[k].ativo => vinculos[k].ativo)
    <3>1. EhLinha(vinculos[k])
      BY <1>0 DEF VinculosForma
    <3> DEFINE y == [vinculos[k] EXCEPT !.sit = SituacaoDe(TipoDe[e]), !.quando = e]
    <3>2. EhLinha(y) /\ y.ativo = vinculos[k].ativo
      BY <3>1, LinhaAvanca
    <3>3. vinculos'[k] = y \/ vinculos'[k] = vinculos[k]
      BY <1>4
    <3> HIDE DEF y
    <3> QED BY <3>1, <3>2, <3>3
  <2> QED BY <1>0, <2>1, <2>2, LinhasTrocadas
<1>7. FichasBem
  BY <1>0, <1>1, FichasParadas
<1>8. \/ Proximo(i) /\ Dispensa(e)
      \/ /\ rodada' = [rodada EXCEPT ![i].fase = "tarefas", ![i].linhas = ComTarefa(i, e)]
         /\ UNCHANGED dispensados
  BY <1>3 DEF AvancaSituacao
<1>9. CASE Proximo(i) /\ Dispensa(e)
  <2> DEFINE q == Tail(rodada[i].fila)
             w == [rodada[i] EXCEPT !.fase = "email", !.fila = q]
  <2>1. rodada' = [rodada EXCEPT ![i] = w]
    BY <1>0, <1>9 DEF Proximo, EhRodada
  <2> HIDE DEF q
  <2>2. EhRodada(w)
    BY <1>0, ComFila
  <2>3. w.fase = "email"
    BY <1>0 DEF EhRodada
  <2> HIDE DEF w
  <2>4. w.fase \notin Meio
    BY <2>3 DEF Meio
  <2>5. dispensados \subseteq dispensados' /\ (e \in dispensados' \/ Sofreu(e, QuePerde)')
    <3>1. CASE Sofreu(e, QuePerde)
      <4>1. dispensados' = dispensados
        BY <1>9, <3>1 DEF Dispensa, Sofreu
      <4> QED BY <1>1, <3>1, <4>1, SofreuFica
    <3>2. CASE ~Sofreu(e, QuePerde)
      BY <1>9, <3>2 DEF Dispensa, Sofreu
    <3> QED BY <3>1, <3>2
  <2>6. \A x : EmailDe(i) = x => x \in dispensados' \/ Sofreu(x, QuePerde)'
    <3> TAKE x
    <3> HAVE EmailDe(i) = x
    <3>1. x = e
      BY <1>3
    <3> QED BY <2>5, <3>1
  <2> QED BY <1>1, <1>2, <1>5, <1>6, <1>7, <2>1, <2>2, <2>4, <2>5, <2>6, Move
<1>10. CASE /\ rodada' = [rodada EXCEPT ![i].fase = "tarefas", ![i].linhas = ComTarefa(i, e)]
            /\ UNCHANGED dispensados
  <2> DEFINE L == ComTarefa(i, e)
             w == [rodada[i] EXCEPT !.fase = "tarefas", !.linhas = L]
  <2>1. rodada' = [rodada EXCEPT ![i] = w]
    BY <1>0, <1>10 DEF EhRodada
  <2> HIDE DEF L
  <2>2. EhRodada(w)
    BY <1>0, ComLinhas
  <2>3. w.fase = "tarefas" /\ w.fila = rodada[i].fila /\ w.evento = rodada[i].evento
    BY <1>0 DEF EhRodada
  <2> HIDE DEF w
  <2>4. rodada[i].fase \in Meio
    BY <1>1 DEF Meio
  <2>5. \A x : Head(w.fila) = x <=> EmailDe(i) = x
    BY <2>3 DEF EmailDe
  <2>6. \A x : EmailDe(i) = x => w.evento = x \/ (w.evento = 0 /\ Sofreu(x, {"evento"})')
    <3> TAKE x
    <3> HAVE EmailDe(i) = x
    <3>1. rodada[i].evento = x \/ (rodada[i].evento = 0 /\ Sofreu(x, {"evento"}))
      BY <2>4 DEF Antes, NumeroInv
    <3> QED BY <1>1, <2>3, <3>1, SofreuFica
  <2>7. w.fase \in Meio
    BY <2>3 DEF Meio
  <2>a. \A x : w.fase \in Meio /\ Head(w.fila) = x =>
          w.evento = x \/ (w.evento = 0 /\ Sofreu(x, {"evento"})')
    BY <2>5, <2>6
  <2>b. \A x \in eventos' \ eventos : w.fase \in Meio /\ Head(w.fila) = x
    BY <1>1
  <2>c. \A x : rodada[i].fase \in Meio /\ EmailDe(i) = x =>
          \/ w.fase \in Meio /\ Head(w.fila) = x
          \/ x \in dispensados' \/ TemFicha(x)' \/ Sofreu(x, QuePerde)'
    BY <2>5, <2>7
  <2> QED BY <1>1, <1>2, <1>5, <1>6, <1>7, <1>10, <2>1, <2>2, <2>a, <2>b, <2>c, Move
<1> QED BY <1>8, <1>9, <1>10

LEMMA PassoCriaTarefa ==
  ASSUME Antes, NEW i \in Instancias, CriaTarefa(i)
  PROVE  Resulta
PROOF
<1>0. /\ EhRodada(rodada[i]) /\ saldo \in TipoSaldo /\ VinculosForma
      /\ FichasForma /\ FichaInv /\ UmaTarefaPorEvento
  BY DEF Antes, ProtForma, RodadaForma
<1>1. /\ UNCHANGED <<vinculos, eventos, passo, dispensados>>
      /\ rodada[i].fase = "tarefas" /\ rodada[i].fase \in Meio
  BY DEF CriaTarefa, Meio
<1>2. PassoForma' /\ AfirmaInv' /\ Calmo
  BY <1>0, <1>1, PassoParado, LinhasParadas DEF Antes, ProtForma
<1>3. PICK e, n : e = EmailDe(i) /\ n = rodada[i].evento
  OBVIOUS
<1>4. n = e \/ (n = 0 /\ Sofreu(e, {"evento"}))
  BY <1>1, <1>3 DEF Antes, NumeroInv
<1>5. PICK l \in rodada[i].linhas, o \in Tropecos :
        /\ Tropeca(o # "nada") /\ Percalco(o # "nada", o, {e})
        /\ TarefaDaMudanca(TipoDe[e], e, n, l.proc, o)
        /\ \/ Proximo(i)
           \/ rodada' = [rodada EXCEPT ![i].linhas = @ \ {l}]
  BY <1>3 DEF CriaTarefa
<1>6. saldo' \in TipoSaldo
  BY <1>0, <1>5, TropecaForma
<1>7. percalcos \subseteq percalcos' /\ \A O : o # "nada" /\ o \in O => Sofreu(e, O)'
  <2>1. /\ percalcos \subseteq percalcos'
        /\ o # "nada" => \A x \in {e} : \A O : o \in O => Sofreu(x, O)'
    BY <1>5, PercalcoFica
  <2> QED BY <2>1
<1>8. FichasBem /\ (TemFicha(e)' \/ Sofreu(e, QuePerde)')
  <2>1. o = "contagem" => Sofreu(e, {"contagem"})'
    BY <1>7
  <2>2. FichasBem /\ (TemFicha(e)' \/ o = "tarefa")
    BY <1>0, <1>4, <1>5, <1>7, <2>1, EfeitoTarefa
  <2>3. o = "tarefa" => Sofreu(e, QuePerde)'
    BY <1>7 DEF QuePerde
  <2> QED BY <2>2, <2>3
<1>9. \A x : EmailDe(i) = x => TemFicha(x)' \/ Sofreu(x, QuePerde)'
  <2> TAKE x
  <2> HAVE EmailDe(i) = x
  <2>1. x = e
    BY <1>3
  <2> QED BY <1>8, <2>1
<1>10. CASE Proximo(i)
  <2> DEFINE q == Tail(rodada[i].fila)
             w == [rodada[i] EXCEPT !.fase = "email", !.fila = q]
  <2>1. rodada' = [rodada EXCEPT ![i] = w]
    BY <1>0, <1>10 DEF Proximo, EhRodada
  <2> HIDE DEF q
  <2>2. EhRodada(w)
    BY <1>0, ComFila
  <2>3. w.fase = "email"
    BY <1>0 DEF EhRodada
  <2> HIDE DEF w
  <2>4. w.fase \notin Meio
    BY <2>3 DEF Meio
  <2> QED BY <1>1, <1>2, <1>6, <1>7, <1>8, <1>9, <2>1, <2>2, <2>4, Move
<1>11. CASE rodada' = [rodada EXCEPT ![i].linhas = @ \ {l}]
  <2> DEFINE L == rodada[i].linhas \ {l}
             w == [rodada[i] EXCEPT !.linhas = L]
  <2>1. rodada' = [rodada EXCEPT ![i] = w]
    BY <1>11
  <2> HIDE DEF L
  <2>2. EhRodada(w)
    BY <1>0, UmCampo
  <2>3. w.fila = rodada[i].fila /\ w.evento = rodada[i].evento
    BY <1>0, SoAFase
  <2> HIDE DEF w
  <2>4. \A x : Head(w.fila) = x => w.evento = x \/ (w.evento = 0 /\ Sofreu(x, {"evento"})')
    <3> TAKE x
    <3> HAVE Head(w.fila) = x
    <3>1. x = e
      BY <1>3, <2>3 DEF EmailDe
    <3> QED BY <1>3, <1>4, <1>7, <2>3, <3>1, SofreuFica
  <2>a. \A x : w.fase \in Meio /\ Head(w.fila) = x =>
          w.evento = x \/ (w.evento = 0 /\ Sofreu(x, {"evento"})')
    BY <2>4
  <2>b. \A x \in eventos' \ eventos : w.fase \in Meio /\ Head(w.fila) = x
    BY <1>1
  <2>c. \A x : rodada[i].fase \in Meio /\ EmailDe(i) = x =>
          \/ w.fase \in Meio /\ Head(w.fila) = x
          \/ x \in dispensados' \/ TemFicha(x)' \/ Sofreu(x, QuePerde)'
    BY <1>9
  <2> QED BY <1>1, <1>2, <1>6, <1>7, <1>8, <2>1, <2>2, <2>a, <2>b, <2>c, Move
<1> QED BY <1>5, <1>10, <1>11
-----------------------------------------------------------------------------
(* The site, a crash, the administrator and the world                        *)

LEMMA PassoSite ==
  ASSUME Antes, NEW i \in Instancias,
         \/ \E st \in SituacoesSite : SiteLe(i, st)
         \/ SiteGrava(i) \/ SiteEndereco(i) \/ SiteAvisa(i) \/ SiteTarefas(i)
  PROVE  Resulta
PROOF
<1>0. /\ EhRodada(rodada[i]) /\ VinculosForma /\ FichasForma /\ FichaInv /\ UmaTarefaPorEvento
      /\ saldo \in TipoSaldo
  BY DEF Antes, ProtForma, RodadaForma
<1>a. EhRodada(Parada) /\ Parada.fase \notin Meio
  BY Paradas DEF Meio
<1>b. UNCHANGED passo => PassoForma' /\ AfirmaInv'
  BY PassoParado DEF Antes, ProtForma
<1>c. (UNCHANGED vinculos => Calmo) /\ (UNCHANGED <<fichas, percalcos>> => FichasBem)
  BY <1>0, LinhasParadas, FichasParadas
<1>d. (\E f \in BOOLEAN : Tropeca(f)) \/ UNCHANGED saldo => saldo' \in TipoSaldo
  BY <1>0, TropecaForma
<1>e. 0 \notin Emails
  BY ProtocolosOK DEF Emails
<1>1. ASSUME NEW st \in SituacoesSite, SiteLe(i, st) PROVE Resulta
  <2>1. PICK L, b : rodada' = [rodada EXCEPT ![i] =
                       [Parada EXCEPT !.fase = "site", !.sit = st, !.linhas = L, !.mudou = b]]
    BY <1>1 DEF SiteLe
  <2> DEFINE w == [Parada EXCEPT !.fase = "site", !.sit = st, !.linhas = L, !.mudou = b]
  <2>2. EhRodada(w)
    BY <1>a, ComSite
  <2>3. w.fase = "site"
    BY <1>a DEF EhRodada
  <2> HIDE DEF w
  <2>4. saldo' \in TipoSaldo
    BY <1>0, <1>1, GastaForma DEF SiteLe
  <2>5. /\ UNCHANGED <<vinculos, fichas, eventos, passo, dispensados, percalcos>>
        /\ rodada[i].fase \notin Meio
    BY <1>1 DEF SiteLe, tabelas, marcas, Meio
  <2>6. rodada' = [rodada EXCEPT ![i] = w] /\ w.fase \notin Meio
    BY <2>1, <2>3 DEF w, Meio
  <2> QED BY <1>b, <2>2, <2>4, <2>5, <2>6, SoMove
<1>2. CASE SiteGrava(i)
  <2>1. PICK f \in BOOLEAN, q \in 0..Len(TipoDe) :
          /\ Tropeca(f)
          /\ vinculos' = [k \in DOMAIN vinculos |->
               IF ~f /\ vinculos[k].ativo
               THEN [vinculos[k] EXCEPT !.sit = rodada[i].sit, !.quando = q] ELSE vinculos[k]]
    BY <1>2 DEF SiteGrava
  <2>2. ASSUME NEW k \in DOMAIN vinculos
        PROVE  EhLinha(vinculos'[k]) /\ (vinculos'[k].ativo => vinculos[k].ativo)
    <3>1. EhLinha(vinculos[k])
      BY <1>0 DEF VinculosForma
    <3> DEFINE y == [vinculos[k] EXCEPT !.sit = rodada[i].sit, !.quando = q]
    <3>2. EhLinha(y) /\ y.ativo = vinculos[k].ativo
      BY <3>1, LinhaAvanca
    <3>3. vinculos'[k] = y \/ vinculos'[k] = vinculos[k]
      BY <2>1
    <3> HIDE DEF y
    <3> QED BY <3>1, <3>2, <3>3
  <2>3. vinculos' = [k \in DOMAIN vinculos |-> vinculos'[k]]
    BY <2>1
  <2>4. Calmo
    BY <1>0, <2>2, <2>3, LinhasTrocadas
  <2> DEFINE w == [rodada[i] EXCEPT !.fase = "endereco"]
  <2>5. EhRodada(w)
    BY <1>0, UmCampo
  <2>6. w.fase = "endereco"
    BY <1>0, SoAFase
  <2>7. rodada' = [rodada EXCEPT ![i] = w]
    BY <1>2 DEF SiteGrava, Vai
  <2> HIDE DEF w
  <2>8. /\ UNCHANGED <<fichas, eventos, passo, dispensados, percalcos>>
        /\ rodada[i].fase \notin Meio /\ w.fase \notin Meio
    BY <1>2, <2>6 DEF SiteGrava, marcas, Meio
  <2> QED BY <1>b, <1>c, <1>d, <2>1, <2>4, <2>5, <2>7, <2>8, ForaDoMeio
<1>3. CASE SiteEndereco(i)
  <2>1. PICK f \in BOOLEAN :
          /\ Tropeca(f)
          /\ \E S, b : rodada' = [rodada EXCEPT ![i].fase = "procura", ![i].achados = S,
                                   ![i].depois = "siteTarefas", ![i].alvo = b]
    BY <1>3 DEF SiteEndereco
  <2>2. PICK S, b : rodada' = [rodada EXCEPT ![i].fase = "procura", ![i].achados = S,
                                  ![i].depois = "siteTarefas", ![i].alvo = b]
    BY <2>1
  <2> DEFINE w == [rodada[i] EXCEPT !.fase = "procura", !.achados = S, !.depois = "siteTarefas",
                                    !.alvo = b]
  <2>3. rodada' = [rodada EXCEPT ![i] = w]
    BY <1>0, <2>2 DEF EhRodada
  <2>4. "siteTarefas" \notin Meio
    BY DEF Meio
  <2>5. EhRodada(w)
    BY <1>0, <2>4, ComAlvo
  <2>6. w.fase = "procura"
    BY <1>0 DEF EhRodada
  <2> HIDE DEF w
  <2>7. /\ UNCHANGED <<vinculos, fichas, eventos, passo, dispensados, percalcos>>
        /\ rodada[i].fase \notin Meio /\ w.fase \notin Meio
    BY <1>3, <2>6 DEF SiteEndereco, tabelas, marcas, Meio
  <2> QED BY <1>b, <1>d, <2>1, <2>3, <2>5, <2>7, SoMove
<1>4. CASE SiteAvisa(i)
  <2>1. PICK f \in BOOLEAN :
          /\ Tropeca(f)
          /\ fichas' = IF f THEN fichas
                       ELSE Append(fichas, Ficha("vinculo", 0, 0, rodada[i].alvo))
    BY <1>4 DEF SiteAvisa
  <2>2. /\ UNCHANGED <<vinculos, eventos, passo, dispensados, percalcos>>
        /\ rodada[i].fase \notin Meio
    BY <1>4 DEF SiteAvisa, marcas, Meio
  <2>3. FichasBem
    <3>1. CASE f
      BY <1>c, <2>1, <2>2, <3>1
    <3>2. CASE ~f
      BY <1>0, <1>e, <2>1, <2>2, <3>2, FichaNova
    <3> QED BY <3>1, <3>2
  <2> DEFINE w == [rodada[i] EXCEPT !.alvo = Nenhum]
  <2>4. EhRodada(w)
    BY <1>0, UmCampo
  <2>5. w.fase = rodada[i].fase
    BY <1>0, SoAFase
  <2>6. rodada' = [rodada EXCEPT ![i] = w]
    BY <1>4 DEF SiteAvisa
  <2> HIDE DEF w
  <2> QED BY <1>b, <1>c, <1>d, <2>1, <2>2, <2>3, <2>4, <2>5, <2>6, ForaDoMeio
<1>5. CASE SiteTarefas(i)
  <2>1. /\ UNCHANGED <<vinculos, eventos, passo, dispensados, percalcos>>
        /\ rodada[i].fase \notin Meio
    BY <1>5 DEF SiteTarefas, marcas, Meio
  <2>2. \/ /\ \E l, o, f : f \in BOOLEAN /\ Tropeca(f) /\ TarefaDaMudanca("resposta", 0, 0, l.proc, o)
           /\ \/ rodada' = [rodada EXCEPT ![i] = Parada]
              \/ \E l : rodada' = [rodada EXCEPT ![i].linhas = @ \ {l}]
        \/ rodada' = [rodada EXCEPT ![i] = Parada] /\ UNCHANGED <<fichas, saldo>>
    <3>1. CASE rodada' = [rodada EXCEPT ![i] = Parada] /\ UNCHANGED <<fichas, saldo>>
      BY <3>1
    <3>2. ASSUME NEW l \in rodada[i].linhas, NEW o \in Tropecos \ {"contagem"},
                 Tropeca(o # "nada"), TarefaDaMudanca("resposta", 0, 0, l.proc, o),
                 \/ rodada' = [rodada EXCEPT ![i] = Parada]
                 \/ rodada' = [rodada EXCEPT ![i].linhas = @ \ {l}]
          PROVE  /\ \E m, x, f : /\ f \in BOOLEAN /\ Tropeca(f)
                                 /\ TarefaDaMudanca("resposta", 0, 0, m.proc, x)
                 /\ \/ rodada' = [rodada EXCEPT ![i] = Parada]
                    \/ \E m : rodada' = [rodada EXCEPT ![i].linhas = @ \ {m}]
      <4>1. \E f : f \in BOOLEAN /\ Tropeca(f)
        BY <3>2
      <4> QED BY <3>2, <4>1
    <3>3. \/ rodada' = [rodada EXCEPT ![i] = Parada] /\ UNCHANGED <<fichas, saldo>>
          \/ \E l \in rodada[i].linhas, o \in Tropecos \ {"contagem"} :
               /\ Tropeca(o # "nada") /\ TarefaDaMudanca("resposta", 0, 0, l.proc, o)
               /\ \/ rodada' = [rodada EXCEPT ![i] = Parada]
                  \/ rodada' = [rodada EXCEPT ![i].linhas = @ \ {l}]
      BY <1>5 DEF SiteTarefas
    <3> QED BY <3>1, <3>2, <3>3
  <2>3. FichasBem /\ saldo' \in TipoSaldo
    <3>1. CASE UNCHANGED <<fichas, saldo>>
      BY <1>c, <1>d, <2>1, <3>1
    <3>2. ASSUME NEW l, NEW o, NEW f \in BOOLEAN, Tropeca(f),
                 TarefaDaMudanca("resposta", 0, 0, l.proc, o)
          PROVE  FichasBem /\ saldo' \in TipoSaldo
      BY <1>0, <1>d, <1>e, <2>1, <3>2, EfeitoTarefa
    <3> QED BY <2>2, <3>1, <3>2
  <2>4. ASSUME NEW l, rodada' = [rodada EXCEPT ![i].linhas = @ \ {l}] PROVE Resulta
    <3> DEFINE w == [rodada[i] EXCEPT !.linhas = @ \ {l}]
    <3>1. EhRodada(w)
      BY <1>0, UmCampo
    <3>2. w.fase = rodada[i].fase
      BY <1>0, SoAFase
    <3>3. rodada' = [rodada EXCEPT ![i] = w]
      BY <2>4
    <3> HIDE DEF w
    <3> QED BY <1>b, <1>c, <2>1, <2>3, <3>1, <3>2, <3>3, ForaDoMeio
  <2>5. CASE rodada' = [rodada EXCEPT ![i] = Parada]
    BY <1>a, <1>b, <1>c, <2>1, <2>3, <2>5, ForaDoMeio
  <2> QED BY <2>2, <2>4, <2>5
<1> QED BY <1>1, <1>2, <1>3, <1>4, <1>5

\* the backend dies
LEMMA PassoCai ==
  ASSUME Antes, NEW i \in Instancias, Cai(i)
  PROVE  Resulta
PROOF
<1>0. /\ saldo \in TipoSaldo /\ PassoForma /\ AfirmaInv /\ i \in Atores /\ VinculosForma
      /\ FichasForma /\ FichaInv /\ UmaTarefaPorEvento
  BY DEF Antes, ProtForma, Atores
<1>1. /\ UNCHANGED <<vinculos, fichas, eventos, dispensados>> /\ Gasta("quedas")
      /\ Percalco(TRUE, "queda", EmMaos(i))
      /\ rodada' = [rodada EXCEPT ![i] = Parada]
      /\ passo' = [passo EXCEPT ![i] = SemPasso]
  BY DEF Cai, tabelas
<1>2. EhPasso(SemPasso) /\ SemPasso.fase = "livre" /\ SemPasso.origem = "manual"
  BY DEF EhPasso, SemPasso
<1>3. PassoForma' /\ AfirmaInv'
  BY <1>0, <1>1, <1>2, TrocaPasso
<1>4. saldo' \in TipoSaldo
  BY <1>0, <1>1, GastaForma
<1>5. EhRodada(Parada) /\ Parada.fase \notin Meio
  BY Paradas DEF Meio
<1>6. percalcos \subseteq percalcos' /\ \A x \in EmMaos(i) : Sofreu(x, QuePerde)'
  <2>1. PICK S : S = EmMaos(i)
    OBVIOUS
  <2>2. percalcos \subseteq percalcos' /\ \A x \in S : \A O : "queda" \in O => Sofreu(x, O)'
    BY <1>1, <2>1, PercalcoFica
  <2>3. "queda" \in QuePerde
    BY DEF QuePerde
  <2>4. \A x \in S : Sofreu(x, QuePerde)'
    BY <2>2, <2>3 DEF QuePerde
  <2> QED BY <2>1, <2>2, <2>4
<1>7. Calmo /\ FichasBem
  BY <1>0, <1>1, <1>6, LinhasParadas, FichasParadas
<1>8. \A x : rodada[i].fase \in Meio /\ EmailDe(i) = x => Sofreu(x, QuePerde)'
  BY <1>6 DEF EmMaos, Meio
<1>9. /\ \A x \in eventos' \ eventos : Parada.fase \in Meio /\ Head(Parada.fila) = x
      /\ dispensados \subseteq dispensados'
  BY <1>1
<1> QED BY <1>1, <1>3, <1>4, <1>5, <1>6, <1>7, <1>8, <1>9, Move

LEMMA PassoDeFora ==
  ASSUME Antes,
         \/ SoAcompanha \/ OutroProtocolo
         \/ \E p \in Processos : VinculaManual(p)
         \/ \E k \in DOMAIN vinculos : DesligaVinculo(k)
         \/ \E id \in 1..MaxMovs, p \in Processos : Movimentacao(id, p)
         \/ \E e \in Emails : ChegaEmail(e)
  PROVE  Resulta
PROOF
<1>0. VinculosForma /\ PassoForma /\ AfirmaInv /\ saldo \in TipoSaldo
  BY DEF Antes, ProtForma
<1>a. UNCHANGED <<fichas, percalcos>> => FichasBem
  BY FichasParadas DEF Antes, ProtForma
<1>b. UNCHANGED passo => PassoForma' /\ AfirmaInv'
  BY <1>0, PassoParado
<1>c. ASSUME Calmo PROVE VinculosForma' /\ Religa
  BY <1>c DEF Calmo, Religa
<1>d. UNCHANGED vinculos => VinculosForma' /\ Religa
  BY <1>0, <1>c, LinhasParadas
<1>1. CASE SoAcompanha
  <2>1. EhLinha(SemProcesso) /\ vinculos' = Append(vinculos, SemProcesso)
    BY <1>1 DEF EhLinha, SemProcesso, SoAcompanha
  <2>2. Calmo
    BY <1>0, <2>1, LinhaNova
  <2>3. saldo' \in TipoSaldo
    BY <1>0, <1>1, GastaForma DEF SoAcompanha
  <2>4. UNCHANGED <<eventos, fichas, rodada, passo, dispensados, percalcos>>
    BY <1>1 DEF SoAcompanha, marcas
  <2> QED BY <1>a, <1>b, <1>c, <2>2, <2>3, <2>4, SemRodada
<1>2. ASSUME NEW p \in Processos, VinculaManual(p) PROVE Resulta
  <2>1. PICK f : Chama(Admin, p, "manual", 0, f)
    BY <1>2 DEF VinculaManual
  <2>2. PassoForma' /\ AfirmaInv'
    BY <1>0, <2>1, ChamaForma DEF Atores
  <2>3. saldo' \in TipoSaldo
    BY <1>0, <1>2, GastaForma DEF VinculaManual
  <2>4. UNCHANGED <<vinculos, eventos, fichas, rodada, dispensados, percalcos>>
    BY <1>2 DEF VinculaManual, tabelas, marcas
  <2> QED BY <1>a, <1>d, <2>2, <2>3, <2>4, SemRodada
<1>3. ASSUME NEW k \in DOMAIN vinculos, DesligaVinculo(k) PROVE Resulta
  <2> DEFINE y == [vinculos[k] EXCEPT !.ativo = FALSE]
  <2>0. EhLinha(vinculos[k])
    BY <1>0 DEF VinculosForma
  <2>1. EhLinha(y) /\ y.ativo = FALSE
    <3>1. EhLinha([vinculos[k] EXCEPT !.ativo = FALSE])
      BY <2>0, CamposLinha
    <3>2. [vinculos[k] EXCEPT !.ativo = FALSE].ativo = FALSE
      BY <2>0 DEF EhLinha
    <3> QED BY <3>1, <3>2
  <2>2. vinculos' = [vinculos EXCEPT ![k] = y]
    BY <1>3 DEF DesligaVinculo
  <2> HIDE DEF y
  <2>3. /\ vinculos' = [j \in DOMAIN vinculos |-> vinculos'[j]]
        /\ \A j \in DOMAIN vinculos : vinculos'[j] = IF j = k THEN y ELSE vinculos[j]
    BY <2>2
  <2>4. \A j \in DOMAIN vinculos : EhLinha(vinculos'[j]) /\ (vinculos'[j].ativo => vinculos[j].ativo)
    BY <1>0, <2>1, <2>3 DEF VinculosForma
  <2>5. Calmo
    BY <1>0, <2>3, <2>4, LinhasTrocadas
  <2>6. saldo' \in TipoSaldo
    BY <1>0, <1>3, GastaForma DEF DesligaVinculo
  <2>7. UNCHANGED <<eventos, fichas, rodada, passo, dispensados, percalcos>>
    BY <1>3 DEF DesligaVinculo, marcas
  <2> QED BY <1>a, <1>b, <1>c, <2>5, <2>6, <2>7, SemRodada
<1>4. CASE \/ OutroProtocolo
           \/ \E id \in 1..MaxMovs, p \in Processos : Movimentacao(id, p)
           \/ \E e \in Emails : ChegaEmail(e)
  <2>1. Gasta("outros") \/ Gasta("movs") \/ UNCHANGED saldo
    BY <1>4 DEF OutroProtocolo, Movimentacao, ChegaEmail
  <2>2. saldo' \in TipoSaldo
    BY <1>0, <2>1, GastaForma
  <2>3. UNCHANGED <<vinculos, eventos, fichas, rodada, passo, dispensados, percalcos>>
    BY <1>4 DEF OutroProtocolo, Movimentacao, ChegaEmail, marcas
  <2> QED BY <1>a, <1>b, <1>d, <2>2, <2>3, SemRodada
<1> QED BY <1>1, <1>2, <1>3, <1>4

LEMMA ProtPasso == Antes /\ [ProtNext]_protVars => Resulta
PROOF
<1> SUFFICES ASSUME Antes, [ProtNext]_protVars PROVE Resulta
  OBVIOUS
<1>1. saldo.backends \subseteq Instancias
  BY DEF Antes, ProtForma, TipoSaldo
<1>2. ASSUME NEW i \in saldo.backends, PassoDaRodada(i) PROVE Resulta
  <2>1. i \in Instancias /\ i \in Atores
    BY <1>1 DEF Atores
  <2>2. VincularSeNovo(i) => Resulta
    BY <2>1, PassoVincula
  <2>3. CASE \/ RodadaComeca(i) \/ Captura(i) \/ LigaAchado(i) \/ ProcuraSemProcesso(i)
             \/ ListaEmails(i) \/ ListaFalha(i) \/ ProcuraProcesso(i) \/ RodadaTermina(i)
    BY <2>1, <2>3, PassoBusca
  <2>4. CASE OlhaLinha(i) \/ GaranteLinha(i) \/ LeLinhas(i)
    BY <2>1, <2>4, PassoLinha
  <2>5. (GravaEvento(i) => Resulta) /\ (AvancaSituacao(i) => Resulta) /\ (CriaTarefa(i) => Resulta)
    BY <2>1, PassoGravaEvento, PassoAvanca, PassoCriaTarefa
  <2>6. CASE SiteGrava(i) \/ SiteEndereco(i) \/ SiteAvisa(i) \/ SiteTarefas(i)
    BY <2>1, <2>6, PassoSite
  <2> QED BY <1>2, <2>2, <2>3, <2>4, <2>5, <2>6 DEF PassoDaRodada
<1>3. ASSUME NEW i \in saldo.backends, Cai(i) PROVE Resulta
  BY <1>1, <1>3, PassoCai
<1>4. ASSUME NEW i \in saldo.backends, NEW st \in SituacoesSite, SiteLe(i, st) PROVE Resulta
  BY <1>1, <1>4, PassoSite
<1>5. CASE VincularSeNovo(Admin)
  BY <1>5, PassoVincula DEF Atores
<1>6. CASE \/ SoAcompanha \/ OutroProtocolo
           \/ \E p \in Processos : VinculaManual(p)
           \/ \E k \in DOMAIN vinculos : DesligaVinculo(k)
           \/ \E id \in 1..MaxMovs, p \in Processos : Movimentacao(id, p)
           \/ \E e \in Emails : ChegaEmail(e)
  BY <1>6, PassoDeFora
<1>7. CASE UNCHANGED protVars
  <2>1. UNCHANGED <<vinculos, eventos, fichas, rodada, passo, dispensados, saldo, percalcos>>
    BY <1>7 DEF protVars
  <2>2. Calmo /\ FichasBem
    BY <2>1, LinhasParadas, FichasParadas DEF Antes, ProtForma
  <2>3. PassoForma' /\ AfirmaInv' /\ saldo' \in TipoSaldo
    BY <2>1, PassoParado DEF Antes, ProtForma
  <2> QED BY <2>1, <2>2, <2>3, SemRodada DEF Calmo, Religa
<1> QED BY <1>2, <1>3, <1>4, <1>5, <1>6, <1>7 DEF ProtNext

LEMMA ProtInicial == ProtInit => Antes
PROOF
<1> SUFFICES ASSUME ProtInit PROVE Antes
  OBVIOUS
<1>1. VinculosForma /\ FichasForma /\ FichaInv
  BY DEF ProtInit, VinculosForma, FichasForma, FichaInv, EhSeq
<1>2. RodadaForma /\ NumeroInv
  BY Paradas DEF ProtInit, RodadaForma, NumeroInv, Meio
<1>3. PassoForma /\ AfirmaInv
  <2>1. EhPasso(SemPasso) /\ SemPasso.fase = "livre" /\ SemPasso.origem = "manual"
    BY DEF EhPasso, SemPasso
  <2> QED BY <2>1 DEF ProtInit, PassoForma, AfirmaInv, Atores
<1>4. saldo \in TipoSaldo
  BY ProtocolosOK DEF ProtInit, TipoSaldo
<1>5. UmaTarefaPorEvento /\ TarefaSoSePerdeEmFalha
  BY DEF ProtInit, UmaTarefaPorEvento, TarefaSoSePerdeEmFalha
<1> QED BY <1>1, <1>2, <1>3, <1>4, <1>5 DEF Antes, ProtForma
-----------------------------------------------------------------------------
(* The theorems                                                              *)

LEMMA ProtInvariante == ProtSpec => []Antes
PROOF
<1>1. Antes /\ [ProtNext]_protVars => Antes'
  BY ProtPasso DEF Resulta
<1> QED BY ProtInicial, <1>1, PTL DEF ProtSpec

(* Whatever the backends, the processes, the imports and the crashes, an     *)
(* e-mail of ANEEL gives two tasks only where the number of its event could  *)
(* not be read or its tasks counted (protocolos.go:474-501, 591-597).        *)
THEOREM ProtUmaTarefaPorEvento == ProtSpec => []UmaTarefaPorEvento
PROOF
<1>1. Antes => UmaTarefaPorEvento
  BY DEF Antes
<1> QED BY <1>1, ProtInvariante, PTL

(* A task the round means to give is lost only by a crash with the e-mail in *)
(* hand or by a statement that fails: the count of events, the lines, the    *)
(* task itself (protocolos.go:276, 411, 451, 474, 606).                      *)
THEOREM ProtTarefaSoSePerdeEmFalha == ProtSpec => []TarefaSoSePerdeEmFalha
PROOF
<1>1. Antes => TarefaSoSePerdeEmFalha
  BY DEF Antes
<1> QED BY <1>1, ProtInvariante, PTL

(* A link that was turned off comes back by an e-mail, the site or a hand,   *)
(* never by a movement (protocolos.go:198).                                  *)
THEOREM ProtHistoricoNaoReliga == ProtSpec => HistoricoNaoReliga
PROOF
<1>1. Antes /\ [ProtNext]_protVars => [Religa]_protVars
  BY ProtPasso DEF Resulta
<1> HIDE DEF Religa
<1>2. ProtSpec => [][Religa]_protVars
  BY <1>1, ProtInvariante, PTL DEF ProtSpec
<1> QED BY <1>2 DEF HistoricoNaoReliga, Religa
=============================================================================
