-------------------------- MODULE MovimentacaoProofs --------------------------
(* Movimentacao for any number of calls, requests, rows and failures. What   *)
(* holds only while some writers are not in use, or with one call at a time, *)
(* says so in its hypotheses.                                                *)
EXTENDS Movimentacao, FiniteSetTheorems, TLAPS

Sessao == [fase : Fases, pedido : 0..MaxPedidos, para : Q!Estados,
           de : Q!Estados, linha : 0..MaxLinhas, colunas : SUBSET Colunas]
Pedido == [fase : {"nenhum", "previa", "revisao", "executado", "revertido"},
           antes : Q!Estados, para : Q!Estados, linha : 0..MaxLinhas]

(* A call that commits, or undoes, speaks of a row and a request there are.  *)
SessaoBem ==
  \A s \in Sessoes :
    /\ sessao[s].fase \in {"semCopia", "revertendo"} => sessao[s].pedido \in Pedidos
    /\ sessao[s].fase \in {"inseriu", "semCopia"} => sessao[s].linha \in 1..MaxLinhas
Tipos ==
  /\ existe \in BOOLEAN /\ processo \in Q!Estados
  /\ historico \subseteq Linhas /\ proxLinha \in 1..(MaxLinhas + 1)
  /\ sincronizada \in 0..MaxLinhas
  /\ pedido \in [Pedidos -> Pedido]
  /\ copia \in [Pedidos -> SUBSET Colunas]
  /\ sessao \in [Sessoes -> Sessao]
  /\ falhas \in 0..MaxFalhas
TipoInv == Tipos /\ SessaoBem

(* The ids of the history, the ones taken and not yet committed included.    *)
IdsUnicos ==
  /\ \A r \in historico : r.id < proxLinha
  /\ \A r, q \in historico : r.id = q.id => r = q
  /\ \A s \in Sessoes : sessao[s].fase = "inseriu" =>
       /\ sessao[s].linha < proxLinha
       /\ \A r \in historico : r.id # sessao[s].linha
  /\ \A s, t \in Sessoes :
       (/\ sessao[s].fase = "inseriu" /\ sessao[t].fase = "inseriu"
        /\ sessao[s].linha = sessao[t].linha) => s = t

(* What a call is about to write is a movement the rules allow from what it  *)
(* read, with the decision frozen; nobody undoes where reversals are not in  *)
(* use.                                                                      *)
LegalInv ==
  \A s \in Sessoes :
    /\ sessao[s].fase \in {"leu", "inseriu"} =>
         /\ Q!Valida(sessao[s].de, sessao[s].para)
         /\ sessao[s].para = Q!Congela(sessao[s].para)
    /\ sessao[s].fase = "revertendo" => "reversao" \in Escritores
SemVolta == Escritores \subseteq {"encerramento", "deferimento", "exclusao", "legado"}

(* One call at a time, and no writer that moves a process outside of it: what *)
(* the call read is still so when it writes.                                 *)
UmaChamada == \A s, t \in Sessoes : s = t
SemAvulsos == Escritores \subseteq {"exclusao", "reversao"}
NoNucleo   == {"chamou", "leu", "inseriu"}
SessaoSerial(s) ==
  /\ sessao[s].fase \in {"leu", "inseriu"} => sessao[s].de = processo
  /\ sessao[s].pedido # 0 => pedido[sessao[s].pedido].fase # "nenhum"
  /\ (sessao[s].fase \in NoNucleo /\ sessao[s].pedido # 0) =>
       processo = pedido[sessao[s].pedido].antes
LinhasDaPrevia ==
  \A r \in historico : r.pedido # 0 =>
    pedido[r.pedido].fase # "nenhum" /\ r.de = pedido[r.pedido].antes
SerialInv == LinhasDaPrevia /\ \A s \in Sessoes : SessaoSerial(s)

(* And without reversals: what it is about to write is allowed, and its row  *)
(* is the latest.                                                            *)
SoMovimentos == Escritores \subseteq {"exclusao"}
SessaoNucleo(s) ==
  /\ sessao[s].fase # "revertendo"
  /\ sessao[s].fase \notin {"livre", "ausente"} => existe
  /\ sessao[s].fase \in {"leu", "inseriu"} =>
       Q!Valida(processo, sessao[s].para) /\ sessao[s].para = Q!Congela(sessao[s].para)
  /\ sessao[s].fase = "inseriu" => \A r \in historico : r.id < sessao[s].linha
NucleoInv ==
  /\ ~existe => /\ processo = Q!Inicial /\ historico = {}
                /\ \A k \in Pedidos : pedido[k].fase = "nenhum"
  /\ \A s \in Sessoes : SessaoNucleo(s)

(* The rows a request has left, in all and without the last one.             *)
DoPedido(H, k) == {r \in H : r.pedido = k}
Outras(H, k, l) == {r \in H : r.pedido = k /\ r.id # l}
Movendo == {"chamou", "leu", "inseriu", "semCopia"}

(* The executor is one, and a request is in its hands, done, or being undone *)
(* as its own state says.                                                    *)
PapeisInv ==
  /\ \A s, t \in Sessoes :
       (/\ sessao[s].fase \in Movendo /\ sessao[s].pedido # 0
        /\ sessao[t].fase \in Movendo /\ sessao[t].pedido # 0) => s = t
  /\ \A s \in Sessoes :
       /\ sessao[s].fase \in Movendo /\ sessao[s].pedido # 0 =>
            pedido[sessao[s].pedido].fase = "previa"
       /\ sessao[s].fase = "revertendo" =>
            pedido[sessao[s].pedido].fase \in {"executado", "revertido"}
       /\ sessao[s].fase = "ausente" => sessao[s].pedido = 0
  /\ \A k \in Pedidos : copia[k] # {} => pedido[k].fase \in {"executado", "revertido"}

(* How many rows a request may have left at each point of its life.          *)
SemCopia(s, k) == sessao[s].fase = "semCopia" /\ sessao[s].pedido = k
QuantasDe(k)     == Cardinality(DoPedido(historico, k))
QuantasSem(k, l) == Cardinality(Outras(historico, k, l))
Conta(k) ==
  /\ (pedido[k].fase # "executado" /\ \A s \in Sessoes : ~SemCopia(s, k)) =>
       QuantasDe(k) <= falhas
  /\ pedido[k].fase = "executado" =>
       QuantasDe(k) <= falhas + 1 /\ QuantasSem(k, pedido[k].linha) <= falhas
  /\ \A s \in Sessoes : SemCopia(s, k) =>
       QuantasDe(k) <= falhas + 1 /\ QuantasSem(k, sessao[s].linha) <= falhas
  /\ \A s \in Sessoes :
       (/\ sessao[s].fase = "revertendo" /\ sessao[s].pedido = k
        /\ "linha" \notin sessao[s].colunas) => QuantasDe(k) <= falhas
  /\ (copia[k] # {} /\ "linha" \notin copia[k]) => QuantasDe(k) <= falhas
ContaInv == IsFiniteSet(historico) /\ \A k \in Pedidos : Conta(k)
-----------------------------------------------------------------------------
LEMMA Formas ==
  /\ Q!Inicial \in Q!Estados /\ Livre \in Sessao /\ SemPedido \in Pedido
  /\ \A p \in Q!Estados : Q!Congela(p) \in Q!Estados
PROOF
<1>1. Q!Inicial \in Q!Estados
  BY DEF Q!Inicial, Q!Estados, Q!Etapas, Q!Aprovacoes
<1>2. Livre \in Sessao /\ SemPedido \in Pedido
  BY <1>1, ConstantesOK DEF Livre, SemPedido, Sessao, Pedido, Fases, Colunas
<1>3. ASSUME NEW p \in Q!Estados PROVE Q!Congela(p) \in Q!Estados
  BY DEF Q!Congela, Q!Estados, Q!Etapas, Q!Aprovacoes, Q!Deferido
<1> QED BY <1>1, <1>2, <1>3

LEMMA TipoInicial == Init => TipoInv
PROOF
<1> SUFFICES ASSUME Init PROVE TipoInv
  OBVIOUS
<1>1. Tipos
  <2>1. 1 \in 1..(MaxLinhas + 1) /\ 0 \in 0..MaxFalhas /\ 0 \in 0..MaxLinhas
    BY ConstantesOK
  <2>2. pedido \in [Pedidos -> Pedido] /\ sessao \in [Sessoes -> Sessao]
    BY Formas DEF Init
  <2> QED BY <2>1, <2>2, Formas DEF Init, Tipos
<1>2. SessaoBem
  BY DEF Init, SessaoBem, Livre
<1> QED BY <1>1, <1>2 DEF TipoInv

-----------------------------------------------------------------------------
(* What each action does, field by field. The other calls and requests keep  *)
(* theirs.                                                                   *)
OutrasSessoes(s) == sessao' \in [Sessoes -> Sessao]
                    /\ \A t \in Sessoes \ {s} : sessao'[t] = sessao[t]
OutrosPedidos(k) == pedido' \in [Pedidos -> Pedido]
                    /\ \A i \in Pedidos \ {k} : pedido'[i] = pedido[i]
MesmosDados(k) == pedido'[k].antes = pedido[k].antes /\ pedido'[k].para = pedido[k].para

LEMMA EfeitoLe ==
  ASSUME Tipos, NEW s \in Sessoes, LeSnapshot(s)
  PROVE  /\ UNCHANGED <<quadroVars, copia, falhas>> /\ sessao[s].fase = "chamou"
         /\ OutrasSessoes(s) /\ OutrosPedidos(sessao[s].pedido)
         /\ \/ /\ Q!Valida(processo, Q!Congela(sessao[s].para))
               /\ sessao'[s].fase = "leu" /\ sessao'[s].pedido = sessao[s].pedido
               /\ sessao'[s].de = processo
               /\ sessao'[s].para = Q!Congela(sessao[s].para)
               /\ UNCHANGED pedido
            \/ /\ sessao'[s] = Livre
               /\ \A k \in Pedidos : k = sessao[s].pedido =>
                    pedido'[k].fase = "revisao" /\ MesmosDados(k)
PROOF
<1> DEFINE q == Q!Congela(sessao[s].para)
           k == sessao[s].pedido
<1>1. /\ sessao \in [Sessoes -> Sessao] /\ Livre \in Sessao /\ processo \in Q!Estados
      /\ q \in Q!Estados /\ pedido \in [Pedidos -> Pedido]
  BY Formas DEF Tipos, Sessao
<1>2. CASE Q!Valida(processo, q)
  <2>1. sessao' = [sessao EXCEPT ![s].fase = "leu", ![s].de = processo, ![s].para = q]
    BY <1>2 DEF LeSnapshot
  <2> HIDE DEF q
  <2> DEFINE v == [sessao[s] EXCEPT !.fase = "leu", !.de = processo, !.para = q]
  <2>a. /\ v \in Sessao /\ v.fase = "leu" /\ v.pedido = sessao[s].pedido
        /\ v.de = processo /\ v.para = q
    BY <1>1 DEF Sessao, Fases
  <2>b. sessao' = [sessao EXCEPT ![s] = v]
    BY <1>1, <2>1
  <2> HIDE DEF v
  <2>2. OutrasSessoes(s) /\ sessao'[s].fase = "leu" /\ sessao'[s].pedido = sessao[s].pedido
        /\ sessao'[s].de = processo /\ sessao'[s].para = q
    BY <1>1, <2>a, <2>b DEF OutrasSessoes
  <2>3. UNCHANGED pedido
    BY <1>2 DEF LeSnapshot, q
  <2> QED BY <1>1, <1>2, <2>2, <2>3 DEF LeSnapshot, OutrosPedidos, q
<1>3. CASE ~Q!Valida(processo, q)
  <2>1. sessao' = [sessao EXCEPT ![s] = Livre]
    BY <1>3 DEF LeSnapshot
  <2>2. OutrasSessoes(s) /\ sessao'[s] = Livre
    BY <1>1, <2>1 DEF OutrasSessoes
  <2>3. pedido' = [i \in Pedidos |-> IF i = k THEN [pedido[i] EXCEPT !.fase = "revisao"]
                                               ELSE pedido[i]]
    BY <1>3 DEF LeSnapshot
  <2>4. OutrosPedidos(k)
    BY <1>1, <2>3 DEF Pedido, OutrosPedidos
  <2>5. \A i \in Pedidos : i = k => pedido'[i].fase = "revisao" /\ MesmosDados(i)
    BY <1>1, <2>3 DEF Pedido, MesmosDados
  <2> QED BY <2>2, <2>4, <2>5 DEF LeSnapshot
<1> QED BY <1>2, <1>3

LEMMA EfeitoInsere ==
  ASSUME Tipos, NEW s \in Sessoes, InsereLinha(s)
  PROVE  /\ UNCHANGED <<existe, processo, historico, sincronizada, pedido, copia, falhas>>
         /\ sessao[s].fase = "leu" /\ OutrasSessoes(s)
         /\ proxLinha \in 1..MaxLinhas /\ proxLinha' = proxLinha + 1
         /\ sessao'[s].fase = "inseriu" /\ sessao'[s].linha = proxLinha
         /\ sessao'[s].pedido = sessao[s].pedido /\ sessao'[s].de = sessao[s].de
         /\ sessao'[s].para = sessao[s].para
PROOF
<1> DEFINE v == [sessao[s] EXCEPT !.fase = "inseriu", !.linha = proxLinha]
<1>1. /\ sessao \in [Sessoes -> Sessao]
      /\ proxLinha \in 1..MaxLinhas /\ proxLinha \in 0..MaxLinhas
  BY ConstantesOK DEF Tipos, InsereLinha
<1>2. /\ v \in Sessao /\ v.fase = "inseriu" /\ v.linha = proxLinha
      /\ v.pedido = sessao[s].pedido /\ v.de = sessao[s].de /\ v.para = sessao[s].para
  BY <1>1 DEF Sessao, Fases
<1>3. sessao' = [sessao EXCEPT ![s] = v]
  BY DEF InsereLinha
<1> HIDE DEF v
<1> QED BY <1>1, <1>2, <1>3 DEF InsereLinha, OutrasSessoes

LEMMA EfeitoEfetiva ==
  ASSUME Tipos, NEW s \in Sessoes, Efetiva(s)
  PROVE  /\ UNCHANGED <<existe, proxLinha, sincronizada, pedido, copia, falhas>>
         /\ sessao[s].fase = "inseriu" /\ OutrasSessoes(s)
         /\ processo' = sessao[s].para
         /\ historico' = historico \cup
              {[id |-> sessao[s].linha, tipo |-> "manual", de |-> sessao[s].de,
                para |-> sessao[s].para, pedido |-> sessao[s].pedido]}
         /\ \/ sessao[s].pedido = 0 /\ sessao'[s] = Livre
            \/ /\ sessao[s].pedido # 0 /\ sessao'[s].fase = "semCopia"
               /\ sessao'[s].pedido = sessao[s].pedido /\ sessao'[s].linha = sessao[s].linha
PROOF
<1>1. sessao \in [Sessoes -> Sessao] /\ Livre \in Sessao
  BY Formas DEF Tipos
<1>2. CASE sessao[s].pedido = 0
  <2>1. sessao' = [sessao EXCEPT ![s] = Livre]
    BY <1>2 DEF Efetiva
  <2> QED BY <1>1, <1>2, <2>1 DEF Efetiva, OutrasSessoes
<1>3. CASE sessao[s].pedido # 0
  <2> DEFINE v == [sessao[s] EXCEPT !.fase = "semCopia"]
  <2>1. v \in Sessao /\ v.fase = "semCopia" /\ v.pedido = sessao[s].pedido
        /\ v.linha = sessao[s].linha
    BY <1>1 DEF Sessao, Fases
  <2>2. sessao' = [sessao EXCEPT ![s] = v]
    BY <1>3 DEF Efetiva
  <2> HIDE DEF v
  <2> QED BY <1>1, <1>3, <2>1, <2>2 DEF Efetiva, OutrasSessoes
<1> QED BY <1>2, <1>3

LEMMA EfeitoDesiste ==
  ASSUME Tipos, NEW s \in Sessoes, Desiste(s)
  PROVE  /\ UNCHANGED <<quadroVars, pedido, copia>>
         /\ OutrasSessoes(s) /\ sessao'[s] = Livre
         /\ falhas \in 0..(MaxFalhas - 1) /\ falhas' = falhas + 1
  BY Formas, ConstantesOK DEF Tipos, Desiste, Falha, OutrasSessoes

LEMMA EfeitoPede ==
  ASSUME Tipos, NEW s \in Sessoes, NEW p \in Destinos, MovimentarPede(s, p)
  PROVE  /\ UNCHANGED <<quadroVars, pedido, copia, falhas>>
         /\ sessao[s].fase = "livre" /\ OutrasSessoes(s)
         /\ sessao'[s].fase = IF existe THEN "chamou" ELSE "ausente"
         /\ sessao'[s].pedido = 0 /\ sessao'[s].para = p
PROOF
<1> DEFINE v == [Livre EXCEPT !.fase = IF existe THEN "chamou" ELSE "ausente", !.para = p]
<1>1. sessao \in [Sessoes -> Sessao] /\ Livre \in Sessao /\ p \in Q!Estados
  BY Formas, ConstantesOK DEF Tipos
<1>2. v \in Sessao /\ v.fase = (IF existe THEN "chamou" ELSE "ausente")
      /\ v.pedido = 0 /\ v.para = p
  BY <1>1 DEF Sessao, Fases, Livre
<1>3. sessao' = [sessao EXCEPT ![s] = v]
  BY DEF MovimentarPede
<1> HIDE DEF v
<1> QED BY <1>1, <1>2, <1>3 DEF MovimentarPede, OutrasSessoes

LEMMA EfeitoCria ==
  ASSUME Tipos, NEW s \in Sessoes, CriarProcessoDeRequisicao(s)
  PROVE  /\ UNCHANGED <<historico, proxLinha, sincronizada, pedido, copia, falhas>>
         /\ sessao[s].fase = "ausente" /\ OutrasSessoes(s)
         /\ \/ existe /\ UNCHANGED <<existe, processo>> /\ sessao'[s] = Livre
            \/ /\ ~existe /\ existe' /\ processo' = Q!Inicial
               /\ sessao'[s].fase = "chamou" /\ sessao'[s].pedido = sessao[s].pedido
               /\ sessao'[s].para = sessao[s].para
PROOF
<1>1. sessao \in [Sessoes -> Sessao] /\ Livre \in Sessao
  BY Formas DEF Tipos
<1>2. CASE existe
  <2>1. sessao' = [sessao EXCEPT ![s] = Livre]
    BY <1>2 DEF CriarProcessoDeRequisicao
  <2> QED BY <1>1, <1>2, <2>1 DEF CriarProcessoDeRequisicao, OutrasSessoes
<1>3. CASE ~existe
  <2>1. sessao' = [sessao EXCEPT ![s].fase = "chamou"]
    BY <1>3 DEF CriarProcessoDeRequisicao, Muda
  <2>2. OutrasSessoes(s) /\ sessao'[s].fase = "chamou"
        /\ sessao'[s].pedido = sessao[s].pedido /\ sessao'[s].para = sessao[s].para
    BY <1>1, <2>1 DEF Sessao, Fases, OutrasSessoes
  <2> QED BY <1>3, <2>2 DEF CriarProcessoDeRequisicao
<1> QED BY <1>2, <1>3

LEMMA EfeitoConfere ==
  ASSUME Tipos, NEW s \in Sessoes, NEW k \in Pedidos, ExecutorConfere(s, k)
  PROVE  /\ UNCHANGED <<quadroVars, copia, falhas>>
         /\ sessao[s].fase = "livre" /\ pedido[k].fase = "previa"
         /\ \A z \in Sessoes : sessao[z].fase = "revertendo" \/ sessao[z].pedido = 0
         /\ \/ /\ processo = pedido[k].antes /\ UNCHANGED pedido /\ OutrasSessoes(s)
               /\ sessao'[s].fase = "chamou" /\ sessao'[s].pedido = k
               /\ sessao'[s].para = pedido[k].para
            \/ /\ UNCHANGED sessao /\ OutrosPedidos(k)
               /\ pedido'[k].fase = "revisao" /\ MesmosDados(k)
PROOF
<1>1. sessao \in [Sessoes -> Sessao] /\ Livre \in Sessao /\ pedido \in [Pedidos -> Pedido]
  BY Formas DEF Tipos
<1>2. CASE processo = pedido[k].antes
  <2> DEFINE v == [Livre EXCEPT !.fase = "chamou", !.pedido = k, !.para = pedido[k].para]
  <2>1. k \in 0..MaxPedidos /\ pedido[k].para \in Q!Estados
    BY <1>1, ConstantesOK DEF Pedidos, Pedido
  <2>2. v \in Sessao /\ v.fase = "chamou" /\ v.pedido = k /\ v.para = pedido[k].para
    BY <1>1, <2>1 DEF Sessao, Fases, Livre
  <2>3. sessao' = [sessao EXCEPT ![s] = v]
    BY <1>2 DEF ExecutorConfere
  <2> HIDE DEF v
  <2> QED BY <1>1, <1>2, <2>2, <2>3 DEF ExecutorConfere, OutrasSessoes
<1>3. CASE processo # pedido[k].antes
  <2>1. pedido' = [pedido EXCEPT ![k].fase = "revisao"]
    BY <1>3 DEF ExecutorConfere
  <2>2. OutrosPedidos(k) /\ pedido'[k].fase = "revisao" /\ MesmosDados(k)
    BY <1>1, <2>1 DEF Pedido, OutrosPedidos, MesmosDados
  <2> QED BY <1>3, <2>2 DEF ExecutorConfere
<1> QED BY <1>2, <1>3

LEMMA EfeitoCopia ==
  ASSUME Tipos, SessaoBem, NEW s \in Sessoes, NEW g \in BOOLEAN, ExecutorCopia(s, g)
  PROVE  /\ UNCHANGED quadroVars /\ sessao[s].fase = "semCopia"
         /\ OutrasSessoes(s) /\ sessao'[s] = Livre
         /\ sessao[s].pedido \in Pedidos /\ OutrosPedidos(sessao[s].pedido)
         /\ pedido'[sessao[s].pedido].fase = "executado" /\ MesmosDados(sessao[s].pedido)
         /\ pedido'[sessao[s].pedido].linha = sessao[s].linha
         /\ \/ UNCHANGED falhas /\ copia' = [copia EXCEPT ![sessao[s].pedido] = Colunas]
            \/ UNCHANGED copia /\ falhas \in 0..(MaxFalhas - 1) /\ falhas' = falhas + 1
PROOF
<1> DEFINE k == sessao[s].pedido
<1>1. /\ sessao \in [Sessoes -> Sessao] /\ Livre \in Sessao /\ sessao[s].linha \in 0..MaxLinhas
      /\ pedido \in [Pedidos -> Pedido] /\ k \in Pedidos /\ sessao[s].fase = "semCopia"
  BY Formas DEF Tipos, SessaoBem, ExecutorCopia, Sessao
<1>2. sessao' = [sessao EXCEPT ![s] = Livre]
  BY DEF ExecutorCopia
<1>3. pedido' = [pedido EXCEPT ![k].fase = "executado", ![k].linha = sessao[s].linha]
  BY DEF ExecutorCopia
<1> HIDE DEF k
<1>4. /\ OutrosPedidos(k) /\ pedido'[k].fase = "executado" /\ MesmosDados(k)
      /\ pedido'[k].linha = sessao[s].linha
  BY <1>1, <1>3 DEF Pedido, OutrosPedidos, MesmosDados
<1>5. OutrasSessoes(s) /\ sessao'[s] = Livre
  BY <1>1, <1>2 DEF OutrasSessoes
<1>6. \/ UNCHANGED falhas /\ copia' = [copia EXCEPT ![k] = Colunas]
      \/ UNCHANGED copia /\ falhas \in 0..(MaxFalhas - 1) /\ falhas' = falhas + 1
  BY ConstantesOK DEF ExecutorCopia, Falha, Tipos, k
<1> QED BY <1>1, <1>4, <1>5, <1>6 DEF ExecutorCopia, k

LEMMA EfeitoComeca ==
  ASSUME Tipos, NEW s \in Sessoes, NEW k \in Pedidos, ReverterComeca(s, k)
  PROVE  /\ UNCHANGED <<quadroVars, pedido, copia, falhas>>
         /\ "reversao" \in Escritores /\ sessao[s].fase = "livre" /\ copia[k] # {}
         /\ OutrasSessoes(s)
         /\ sessao'[s].fase = "revertendo" /\ sessao'[s].pedido = k
         /\ sessao'[s].colunas = copia[k]
PROOF
<1> DEFINE v == [Livre EXCEPT !.fase = "revertendo", !.pedido = k, !.colunas = copia[k]]
<1>1. /\ sessao \in [Sessoes -> Sessao] /\ Livre \in Sessao /\ copia[k] \in SUBSET Colunas
      /\ k \in 0..MaxPedidos
  BY Formas, ConstantesOK DEF Tipos, Pedidos
<1>2. v \in Sessao /\ v.fase = "revertendo" /\ v.pedido = k /\ v.colunas = copia[k]
  BY <1>1 DEF Sessao, Fases, Livre
<1>3. sessao' = [sessao EXCEPT ![s] = v]
  BY DEF ReverterComeca
<1> HIDE DEF v
<1> QED BY <1>1, <1>2, <1>3 DEF ReverterComeca, OutrasSessoes

LEMMA EfeitoReverte ==
  ASSUME Tipos, SessaoBem, NEW s \in Sessoes, NEW c \in Colunas, NEW m \in BOOLEAN,
         ReverterColuna(s, c, m)
  PROVE  /\ UNCHANGED <<existe, proxLinha, sincronizada, pedido>> /\ sessao[s].fase = "revertendo"
         /\ OutrasSessoes(s) /\ sessao[s].pedido \in Pedidos
         /\ sessao'[s].fase = "revertendo" /\ sessao'[s].pedido = sessao[s].pedido
         /\ sessao'[s].colunas = sessao[s].colunas \ {c}
         /\ processo' \in Q!Estados
         /\ \/ /\ c = "linha" /\ UNCHANGED processo
               /\ historico' = {r \in historico : r.id # pedido[sessao[s].pedido].linha}
            \/ c # "linha" /\ "linha" \notin sessao[s].colunas /\ UNCHANGED historico
         /\ copia' \in [Pedidos -> SUBSET Colunas]
         /\ \A k \in Pedidos \ {sessao[s].pedido} : copia'[k] = copia[k]
         /\ \/ /\ UNCHANGED falhas
               /\ copia'[sessao[s].pedido] = copia[sessao[s].pedido] \ {c}
            \/ UNCHANGED copia /\ falhas \in 0..(MaxFalhas - 1) /\ falhas' = falhas + 1
PROOF
<1> DEFINE k == sessao[s].pedido
           v == [sessao[s] EXCEPT !.colunas = @ \ {c}]
<1>1. /\ sessao \in [Sessoes -> Sessao] /\ sessao[s].fase = "revertendo" /\ k \in Pedidos
      /\ copia \in [Pedidos -> SUBSET Colunas] /\ pedido[k] \in Pedido
  BY DEF Tipos, SessaoBem, ReverterColuna
<1>2. /\ v \in Sessao /\ v.fase = "revertendo" /\ v.pedido = k
      /\ v.colunas = sessao[s].colunas \ {c}
  BY <1>1 DEF Sessao, Fases
<1>3. sessao' = [sessao EXCEPT ![s] = v]
  BY DEF ReverterColuna
<1>4. OutrasSessoes(s) /\ sessao'[s] = v
  <2> HIDE DEF v
  <2> QED BY <1>1, <1>2, <1>3 DEF OutrasSessoes
<1>5. /\ copia' \in [Pedidos -> SUBSET Colunas]
      /\ \A i \in Pedidos \ {k} : copia'[i] = copia[i]
      /\ \/ UNCHANGED falhas /\ copia'[k] = copia[k] \ {c}
         \/ UNCHANGED copia /\ falhas \in 0..(MaxFalhas - 1) /\ falhas' = falhas + 1
  <2>1. \/ UNCHANGED falhas /\ copia' = [copia EXCEPT ![k] = @ \ {c}]
        \/ UNCHANGED copia /\ falhas < MaxFalhas /\ falhas' = falhas + 1
    BY DEF ReverterColuna, Falha
  <2>2. falhas < MaxFalhas => falhas \in 0..(MaxFalhas - 1)
    BY ConstantesOK DEF Tipos
  <2> HIDE DEF k
  <2> QED BY <1>1, <2>1, <2>2
<1>6. /\ processo' \in Q!Estados
      /\ \/ /\ c = "linha" /\ UNCHANGED processo
            /\ historico' = {r \in historico : r.id # pedido[k].linha}
         \/ c # "linha" /\ "linha" \notin sessao[s].colunas /\ UNCHANGED historico
  <2>1. processo \in Q!Estados /\ pedido[k].antes \in Q!Estados
    BY <1>1 DEF Tipos, Pedido
  <2>2. /\ c = "linha" => UNCHANGED processo
                         /\ historico' = {r \in historico : r.id # pedido[k].linha}
        /\ c = "etapa" => processo' = [processo EXCEPT !.etapa = pedido[k].antes.etapa]
                         /\ UNCHANGED historico
        /\ c = "aprov" => processo' = [processo EXCEPT !.aprov = pedido[k].antes.aprov]
                         /\ UNCHANGED historico
    BY DEF ReverterColuna
  <2>3. processo' \in Q!Estados
    BY <2>1, <2>2 DEF Colunas, Q!Estados
  <2>4. c # "linha" => "linha" \notin sessao[s].colunas
    BY DEF ReverterColuna, Proxima, Colunas
  <2> QED BY <2>2, <2>3, <2>4 DEF Colunas
<1> QED BY <1>1, <1>2, <1>4, <1>5, <1>6 DEF ReverterColuna

LEMMA EfeitoTermina ==
  ASSUME Tipos, SessaoBem, NEW s \in Sessoes, ReverterTermina(s)
  PROVE  /\ UNCHANGED <<quadroVars, copia, falhas>>
         /\ sessao[s].fase = "revertendo" /\ sessao[s].colunas = {}
         /\ OutrasSessoes(s) /\ sessao'[s] = Livre
         /\ sessao[s].pedido \in Pedidos /\ OutrosPedidos(sessao[s].pedido)
         /\ pedido'[sessao[s].pedido].fase = "revertido" /\ MesmosDados(sessao[s].pedido)
PROOF
<1> DEFINE k == sessao[s].pedido
<1>1. /\ sessao \in [Sessoes -> Sessao] /\ Livre \in Sessao /\ k \in Pedidos
      /\ pedido \in [Pedidos -> Pedido]
  BY Formas DEF Tipos, SessaoBem, ReverterTermina
<1>2. sessao' = [sessao EXCEPT ![s] = Livre] /\ pedido' = [pedido EXCEPT ![k].fase = "revertido"]
  BY DEF ReverterTermina
<1> HIDE DEF k
<1>3. OutrosPedidos(k) /\ pedido'[k].fase = "revertido" /\ MesmosDados(k)
  BY <1>1, <1>2 DEF Pedido, OutrosPedidos, MesmosDados
<1> QED BY <1>1, <1>2, <1>3 DEF ReverterTermina, OutrasSessoes, k

LEMMA EfeitoMonta ==
  ASSUME Tipos, NEW k \in Pedidos, NEW p \in Destinos, MontarMov(k, p)
  PROVE  /\ UNCHANGED <<quadroVars, copia, sessao, falhas>>
         /\ existe /\ pedido[k].fase = "nenhum" /\ OutrosPedidos(k)
         /\ pedido'[k].fase = "previa" /\ pedido'[k].antes = processo
PROOF
<1> DEFINE q == Q!Congela(p)
           v == [SemPedido EXCEPT !.fase = "previa", !.antes = processo, !.para = q]
<1>1. /\ pedido \in [Pedidos -> Pedido] /\ SemPedido \in Pedido /\ q \in Q!Estados
      /\ processo \in Q!Estados
  BY Formas, ConstantesOK DEF Tipos
<1>2. pedido' = [pedido EXCEPT ![k] = v]
  BY DEF MontarMov
<1> HIDE DEF q
<1>3. v \in Pedido /\ v.fase = "previa" /\ v.antes = processo
  BY <1>1 DEF Pedido, SemPedido
<1> HIDE DEF v
<1> QED BY <1>1, <1>2, <1>3 DEF MontarMov, OutrosPedidos
-----------------------------------------------------------------------------
\* what SincronizarStatusProcesso leaves: nothing new, or the row that says it
LEMMA EfeitoSincroniza ==
  ASSUME NEW x, x.proc \in Q!Estados, x.sinc \in 0..MaxLinhas,
         NEW H \in SUBSET Linhas, NEW y \in Sincroniza(x, H)
  PROVE  /\ y.proc \in Q!Estados /\ y.sinc \in 0..MaxLinhas
         /\ y.proc = Q!Inicial => \/ y = x
                                 \/ \E r \in H : r.para = Q!Inicial /\ y.sinc = r.id
PROOF
<1>1. CASE y = x
  BY <1>1
<1>2. ASSUME NEW r \in H, y = [proc |-> Reposto(x.proc, r), sinc |-> r.id]
      PROVE  /\ y.proc \in Q!Estados /\ y.sinc \in 0..MaxLinhas
             /\ y.proc = Q!Inicial => r.para = Q!Inicial /\ y.sinc = r.id
  <2>1. r.para \in Q!Estados /\ r.id \in 0..MaxLinhas
    BY ConstantesOK DEF Linhas
  <2>2. y.proc = Reposto(x.proc, r) /\ y.sinc = r.id
    BY <1>2
  <2>3. Reposto(x.proc, r) \in Q!Estados
    BY <2>1 DEF Reposto, Q!Estados
  <2>4. Reposto(x.proc, r) = Q!Inicial => r.para = Q!Inicial
    BY <2>1 DEF Reposto, Q!Estados, Q!Inicial
  <2> QED BY <2>1, <2>2, <2>3, <2>4
<1> QED BY <1>1, <1>2 DEF Sincroniza

\* the v1 movement adds a row of its own, the saving of a request none
LEMMA EfeitoLegado ==
  ASSUME Tipos, NEW e \in Q!Etapas, MovimentarProcesso(e)
  PROVE  \E n \in Linhas :
           /\ n.id = proxLinha /\ n.tipo = "movimentacao" /\ n.pedido = 0
           /\ proxLinha \in 1..MaxLinhas /\ proxLinha' = proxLinha + 1
           /\ historico' = historico \cup {n}
           /\ UNCHANGED <<existe, pedido, copia, sessao, falhas>>
           /\ processo' \in Q!Estados /\ sincronizada' \in 0..MaxLinhas
           /\ (processo # Q!Inicial /\ processo' = Q!Inicial) =>
                \E r \in historico' : r.para = Q!Inicial /\ (r = n \/ sincronizada' = r.id)
PROOF
<1> DEFINE n == [id |-> proxLinha, tipo |-> "movimentacao", pedido |-> 0,
                 de |-> [etapa |-> processo.etapa, aprov |-> 0],
                 para |-> [etapa |-> e, aprov |-> 0]]
           agora == [proc |-> [processo EXCEPT !.etapa = e], sinc |-> sincronizada]
<1>1. /\ proxLinha \in 1..MaxLinhas /\ proxLinha' = proxLinha + 1
      /\ historico' = historico \cup {n}
      /\ UNCHANGED <<existe, pedido, copia, sessao, falhas>>
      /\ \E x \in Sincroniza(agora, historico) : \E y \in Sincroniza(x, historico') :
           processo' = y.proc /\ sincronizada' = y.sinc
  BY ConstantesOK DEF MovimentarProcesso, Tipos
<1>2. n \in Linhas /\ n.id = proxLinha /\ n.tipo = "movimentacao" /\ n.pedido = 0
  BY <1>1, ConstantesOK DEF Tipos, Linhas, TiposDeLinha, Q!Estados, Q!Aprovacoes
<1>3. historico \in SUBSET Linhas /\ historico' \in SUBSET Linhas
  BY <1>1, <1>2 DEF Tipos
<1>4. agora.proc \in Q!Estados /\ agora.sinc \in 0..MaxLinhas
  BY DEF Tipos, Q!Estados
<1>5. agora.proc = Q!Inicial => n.para = Q!Inicial
  BY DEF Q!Inicial, Tipos, Q!Estados
<1> HIDE DEF n, agora
<1>a. PICK x \in Sincroniza(agora, historico) : \E y \in Sincroniza(x, historico') :
        processo' = y.proc /\ sincronizada' = y.sinc
  BY <1>1
<1>6. PICK y \in Sincroniza(x, historico') : processo' = y.proc /\ sincronizada' = y.sinc
  BY <1>a
<1>7. /\ x.proc \in Q!Estados /\ x.sinc \in 0..MaxLinhas
      /\ x.proc = Q!Inicial => \/ x = agora
                              \/ \E r \in historico : r.para = Q!Inicial /\ x.sinc = r.id
  BY <1>3, <1>4, <1>a, EfeitoSincroniza
<1>8. /\ y.proc \in Q!Estados /\ y.sinc \in 0..MaxLinhas
      /\ y.proc = Q!Inicial => \/ y = x
                              \/ \E r \in historico' : r.para = Q!Inicial /\ y.sinc = r.id
  BY <1>3, <1>6, <1>7, EfeitoSincroniza
<1>9. processo' = Q!Inicial =>
        \E r \in historico' : r.para = Q!Inicial /\ (r = n \/ sincronizada' = r.id)
  BY <1>1, <1>5, <1>6, <1>7, <1>8
<1> QED BY <1>1, <1>2, <1>6, <1>8, <1>9

LEMMA EfeitoSalva ==
  ASSUME Tipos, UpdateRequisicaoCompleta
  PROVE  /\ UNCHANGED <<existe, historico, proxLinha, pedido, copia, sessao, falhas>>
         /\ processo' \in Q!Estados /\ sincronizada' \in 0..MaxLinhas
         /\ (processo # Q!Inicial /\ processo' = Q!Inicial) =>
              \E r \in historico' : r.para = Q!Inicial /\ sincronizada' = r.id
PROOF
<1> DEFINE agora == [proc |-> processo, sinc |-> sincronizada]
<1>1. agora.proc \in Q!Estados /\ agora.sinc \in 0..MaxLinhas /\ historico \in SUBSET Linhas
      /\ agora.proc = processo
  BY DEF Tipos
<1>2. PICK x \in Sincroniza(agora, historico) : processo' = x.proc /\ sincronizada' = x.sinc
  BY DEF UpdateRequisicaoCompleta
<1>3. UNCHANGED <<existe, historico, proxLinha, pedido, copia, sessao, falhas>>
  BY DEF UpdateRequisicaoCompleta
<1> HIDE DEF agora
<1>4. /\ x.proc \in Q!Estados /\ x.sinc \in 0..MaxLinhas
      /\ x.proc = Q!Inicial => \/ x = agora
                              \/ \E r \in historico : r.para = Q!Inicial /\ x.sinc = r.id
  BY <1>1, <1>2, EfeitoSincroniza
<1> QED BY <1>1, <1>2, <1>3, <1>4

\* the writers that leave the history alone, or take a row out of it
LEMMA EfeitoAvulso ==
  ASSUME Tipos,
         \/ \E a \in {1, 2} : SalvarEncerramento(a) \/ SalvarDeferimento(a)
         \/ \E p \in Destinos, vieram \in SUBSET {"etapa", "aprov"} :
               AtualizarProcessoCompleto(p, vieram)
         \/ \E r \in historico : AdminDeleteHistorico(r)
  PROVE  /\ UNCHANGED <<existe, proxLinha, sincronizada, pedido, copia, sessao, falhas>>
         /\ historico' \subseteq historico /\ processo' \in Q!Estados
         /\ \/ UNCHANGED processo \/ "completo" \in Escritores
            \/ \E a \in {1, 2} : processo'.aprov = a
PROOF
<1>1. processo \in Q!Estados /\ Destinos \subseteq Q!Estados
  BY ConstantesOK DEF Tipos
<1>2. ASSUME NEW a \in {1, 2}, SalvarEncerramento(a) \/ SalvarDeferimento(a)
      PROVE  /\ UNCHANGED <<existe, historico, proxLinha, sincronizada, pedido, copia, sessao,
                            falhas>>
             /\ processo' \in Q!Estados /\ processo'.aprov = a
  BY <1>1, <1>2 DEF SalvarEncerramento, SalvarDeferimento, Q!Estados, Q!Etapas, Q!Aprovacoes
<1>3. ASSUME NEW p \in Destinos, NEW v, AtualizarProcessoCompleto(p, v)
      PROVE  /\ UNCHANGED <<existe, historico, proxLinha, sincronizada, pedido, copia, sessao,
                            falhas>>
             /\ processo' \in Q!Estados /\ "completo" \in Escritores
  BY <1>1, <1>3 DEF AtualizarProcessoCompleto, Q!Estados
<1>4. ASSUME NEW r, AdminDeleteHistorico(r)
      PROVE  /\ UNCHANGED <<existe, processo, proxLinha, sincronizada, pedido, copia, sessao,
                            falhas>>
             /\ historico' \subseteq historico
  BY <1>4 DEF AdminDeleteHistorico
<1> QED BY <1>1, <1>2, <1>3, <1>4

LEMMA EfeitoOutro ==
  ASSUME Tipos, OutroEscritor
  PROVE  /\ UNCHANGED <<existe, pedido, copia, sessao, falhas>>
         /\ processo' \in Q!Estados /\ sincronizada' \in 0..MaxLinhas
         /\ \/ UNCHANGED proxLinha /\ historico' \subseteq historico
            \/ \E n \in Linhas : /\ n.id = proxLinha /\ n.tipo = "movimentacao" /\ n.pedido = 0
                                /\ proxLinha \in 1..MaxLinhas /\ proxLinha' = proxLinha + 1
                                /\ historico' = historico \cup {n}
PROOF
<1>1. CASE \E p \in Destinos : MovimentarProcesso(p.etapa)
  <2>1. PICK p \in Destinos : MovimentarProcesso(p.etapa)
    BY <1>1
  <2>2. p.etapa \in Q!Etapas
    BY ConstantesOK DEF Q!Estados
  <2> QED BY <2>1, <2>2, EfeitoLegado
<1>2. CASE UpdateRequisicaoCompleta
  BY <1>2, EfeitoSalva
<1>3. CASE \/ \E a \in {1, 2} : SalvarEncerramento(a) \/ SalvarDeferimento(a)
           \/ \E p \in Destinos, vieram \in SUBSET {"etapa", "aprov"} :
                 AtualizarProcessoCompleto(p, vieram)
           \/ \E r \in historico : AdminDeleteHistorico(r)
  <2>1. sincronizada \in 0..MaxLinhas
    BY DEF Tipos
  <2> QED BY <1>3, <2>1, EfeitoAvulso
<1> QED BY <1>1, <1>2, <1>3 DEF OutroEscritor
-----------------------------------------------------------------------------
LEMMA TipoPasso == TipoInv /\ [Next]_vars => TipoInv'
PROOF
<1> SUFFICES ASSUME Tipos, SessaoBem, [Next]_vars PROVE Tipos' /\ SessaoBem'
  BY DEF TipoInv
<1>0. /\ sessao \in [Sessoes -> Sessao] /\ pedido \in [Pedidos -> Pedido]
      /\ Livre.fase = "livre"
  BY DEF Tipos, Livre
<1>1. ASSUME NEW s \in Sessoes, LeSnapshot(s) PROVE Tipos' /\ SessaoBem'
  BY <1>0, <1>1, EfeitoLe DEF Tipos, SessaoBem, OutrasSessoes, OutrosPedidos, quadroVars
<1>2. ASSUME NEW s \in Sessoes, InsereLinha(s) PROVE Tipos' /\ SessaoBem'
  <2>1. proxLinha' \in 1..(MaxLinhas + 1)
    BY <1>2, EfeitoInsere, ConstantesOK
  <2>2. SessaoBem'
    BY <1>0, <1>2, EfeitoInsere DEF SessaoBem, OutrasSessoes
  <2> QED BY <1>2, <2>1, <2>2, EfeitoInsere DEF Tipos, OutrasSessoes
<1>3. ASSUME NEW s \in Sessoes, Efetiva(s) PROVE Tipos' /\ SessaoBem'
  <2>1. sessao[s] \in Sessao /\ sessao[s].linha \in 1..MaxLinhas
    BY <1>0, <1>3, EfeitoEfetiva DEF SessaoBem
  <2>2. processo' \in Q!Estados /\ historico' \subseteq Linhas
    BY <1>3, <2>1, EfeitoEfetiva DEF Tipos, Sessao, Linhas, TiposDeLinha
  <2>3. sessao[s].pedido # 0 => sessao[s].pedido \in Pedidos
    BY <2>1, ConstantesOK DEF Sessao, Pedidos
  <2>4. SessaoBem'
    BY <1>0, <1>3, <2>1, <2>3, EfeitoEfetiva DEF SessaoBem, OutrasSessoes
  <2> QED BY <1>3, <2>2, <2>4, EfeitoEfetiva DEF Tipos, OutrasSessoes
<1>4. ASSUME NEW s \in Sessoes, Desiste(s) PROVE Tipos' /\ SessaoBem'
  <2>1. falhas' \in 0..MaxFalhas
    BY <1>4, EfeitoDesiste, ConstantesOK
  <2> QED BY <1>0, <1>4, <2>1, EfeitoDesiste DEF Tipos, SessaoBem, OutrasSessoes, quadroVars
<1>5. ASSUME NEW s \in Sessoes, NEW p \in Destinos, MovimentarPede(s, p)
      PROVE  Tipos' /\ SessaoBem'
  BY <1>0, <1>5, EfeitoPede DEF Tipos, SessaoBem, OutrasSessoes, quadroVars
<1>6. ASSUME NEW s \in Sessoes, CriarProcessoDeRequisicao(s) PROVE Tipos' /\ SessaoBem'
  BY <1>0, <1>6, EfeitoCria, Formas DEF Tipos, SessaoBem, OutrasSessoes
<1>7. ASSUME NEW s \in Sessoes, NEW k \in Pedidos, ExecutorConfere(s, k)
      PROVE  Tipos' /\ SessaoBem'
  BY <1>0, <1>7, EfeitoConfere DEF Tipos, SessaoBem, OutrasSessoes, OutrosPedidos, quadroVars
<1>8. ASSUME NEW s \in Sessoes, NEW g \in BOOLEAN, ExecutorCopia(s, g)
      PROVE  Tipos' /\ SessaoBem'
  <2>1. falhas' \in 0..MaxFalhas
    BY <1>8, EfeitoCopia, ConstantesOK DEF Tipos
  <2>2. copia' \in [Pedidos -> SUBSET Colunas]
    BY <1>8, EfeitoCopia DEF Tipos
  <2> QED BY <1>0, <1>8, <2>1, <2>2, EfeitoCopia
        DEF Tipos, SessaoBem, OutrasSessoes, OutrosPedidos, quadroVars
<1>9. ASSUME NEW s \in Sessoes, NEW k \in Pedidos, ReverterComeca(s, k)
      PROVE  Tipos' /\ SessaoBem'
  BY <1>0, <1>9, EfeitoComeca DEF Tipos, SessaoBem, OutrasSessoes, quadroVars
<1>10. ASSUME NEW s \in Sessoes, NEW c \in Colunas, NEW m \in BOOLEAN,
              ReverterColuna(s, c, m)
       PROVE  Tipos' /\ SessaoBem'
  <2>1. falhas' \in 0..MaxFalhas
    BY <1>10, EfeitoReverte, ConstantesOK DEF Tipos
  <2>2. historico' \subseteq Linhas
    BY <1>10, EfeitoReverte DEF Tipos
  <2> QED BY <1>0, <1>10, <2>1, <2>2, EfeitoReverte DEF Tipos, SessaoBem, OutrasSessoes
<1>11. ASSUME NEW s \in Sessoes, ReverterTermina(s) PROVE Tipos' /\ SessaoBem'
  BY <1>0, <1>11, EfeitoTermina DEF Tipos, SessaoBem, OutrasSessoes, OutrosPedidos, quadroVars
<1>12. ASSUME NEW k \in Pedidos, NEW p \in Destinos, MontarMov(k, p)
       PROVE  Tipos' /\ SessaoBem'
  BY <1>12, EfeitoMonta DEF Tipos, SessaoBem, OutrosPedidos, quadroVars
<1>13. ASSUME OutroEscritor PROVE Tipos' /\ SessaoBem'
  <2>1. historico' \subseteq Linhas /\ proxLinha' \in 1..(MaxLinhas + 1)
    BY <1>13, EfeitoOutro, ConstantesOK DEF Tipos
  <2> QED BY <1>13, <2>1, EfeitoOutro DEF Tipos, SessaoBem
<1>14. CASE UNCHANGED vars
  BY <1>14 DEF vars, quadroVars, Tipos, SessaoBem
<1> QED BY <1>1, <1>2, <1>3, <1>4, <1>5, <1>6, <1>7, <1>8, <1>9, <1>10, <1>11,
      <1>12, <1>13, <1>14
      DEF Next, PassoDoNucleo, PassoDoQuadro, PassoDoChat, PassoDaReversao

(* The values of every variable, for any number of calls, requests, rows and *)
(* failures.                                                                 *)
THEOREM MovTipo == Spec => []TypeOK
PROOF
<1>1. TipoInv => TypeOK
  BY DEF TipoInv, Tipos, TypeOK, Sessao, Pedido
<1> QED BY TipoInicial, TipoPasso, <1>1, PTL DEF Spec
-----------------------------------------------------------------------------
(* Ids                                                                       *)

LEMMA IdsInicial == Init => IdsUnicos
  BY DEF Init, IdsUnicos, Livre

LEMMA IdsPasso == TipoInv /\ IdsUnicos /\ [Next]_vars => IdsUnicos'
PROOF
<1> SUFFICES ASSUME Tipos, SessaoBem, IdsUnicos, [Next]_vars PROVE IdsUnicos'
  BY DEF TipoInv
<1>0. /\ sessao \in [Sessoes -> Sessao] /\ proxLinha \in Nat /\ Livre.fase = "livre"
      /\ \A r \in historico : r.id \in Nat
  BY ConstantesOK DEF Tipos, Livre, Linhas
<1>a. ASSUME NEW s \in Sessoes, OutrasSessoes(s), sessao'[s].fase # "inseriu",
             historico' \subseteq historico, UNCHANGED proxLinha
      PROVE  IdsUnicos'
  BY <1>0, <1>a DEF IdsUnicos, OutrasSessoes
<1>1. ASSUME NEW s \in Sessoes, LeSnapshot(s) PROVE IdsUnicos'
  BY <1>0, <1>a, <1>1, EfeitoLe DEF quadroVars
<1>2. ASSUME NEW s \in Sessoes, InsereLinha(s) PROVE IdsUnicos'
  <2>1. \A r \in historico' : r.id < proxLinha'
    BY <1>0, <1>2, EfeitoInsere DEF IdsUnicos
  <2>2. \A t \in Sessoes : sessao'[t].fase = "inseriu" =>
          sessao'[t].linha < proxLinha' /\ \A r \in historico' : r.id # sessao'[t].linha
    BY <1>0, <1>2, EfeitoInsere DEF IdsUnicos, OutrasSessoes, Sessao
  <2>3. \A t, z \in Sessoes : (/\ sessao'[t].fase = "inseriu" /\ sessao'[z].fase = "inseriu"
                              /\ sessao'[t].linha = sessao'[z].linha) => t = z
    BY <1>0, <1>2, EfeitoInsere DEF IdsUnicos, OutrasSessoes
  <2> QED BY <1>2, <2>1, <2>2, <2>3, EfeitoInsere DEF IdsUnicos
<1>3. ASSUME NEW s \in Sessoes, Efetiva(s) PROVE IdsUnicos'
  <2> DEFINE n == [id |-> sessao[s].linha, tipo |-> "manual", de |-> sessao[s].de,
                   para |-> sessao[s].para, pedido |-> sessao[s].pedido]
  <2>1. /\ historico' = historico \cup {n} /\ n.id = sessao[s].linha
        /\ sessao[s].fase = "inseriu" /\ sessao'[s].fase # "inseriu" /\ OutrasSessoes(s)
        /\ UNCHANGED proxLinha
    BY <1>0, <1>3, EfeitoEfetiva
  <2> HIDE DEF n
  <2>2. /\ \A r \in historico' : r.id < proxLinha'
        /\ \A r, q \in historico' : r.id = q.id => r = q
    BY <2>1 DEF IdsUnicos
  <2>3. \A t \in Sessoes : sessao'[t].fase = "inseriu" =>
          /\ t # s /\ sessao'[t] = sessao[t]
          /\ sessao'[t].linha < proxLinha' /\ \A r \in historico' : r.id # sessao'[t].linha
    BY <2>1 DEF IdsUnicos, OutrasSessoes
  <2> QED BY <2>2, <2>3 DEF IdsUnicos
<1>4. ASSUME NEW s \in Sessoes, Desiste(s) PROVE IdsUnicos'
  BY <1>0, <1>a, <1>4, EfeitoDesiste DEF quadroVars
<1>5. ASSUME NEW s \in Sessoes, NEW p \in Destinos, MovimentarPede(s, p) PROVE IdsUnicos'
  BY <1>a, <1>5, EfeitoPede DEF quadroVars
<1>6. ASSUME NEW s \in Sessoes, CriarProcessoDeRequisicao(s) PROVE IdsUnicos'
  BY <1>0, <1>a, <1>6, EfeitoCria
<1>7. ASSUME NEW s \in Sessoes, NEW k \in Pedidos, ExecutorConfere(s, k) PROVE IdsUnicos'
  <2>1. UNCHANGED <<historico, proxLinha>>
    BY <1>7, EfeitoConfere DEF quadroVars
  <2>2. CASE UNCHANGED sessao
    BY <2>1, <2>2 DEF IdsUnicos
  <2>3. CASE OutrasSessoes(s) /\ sessao'[s].fase = "chamou"
    BY <1>a, <2>1, <2>3
  <2> QED BY <1>7, <2>2, <2>3, EfeitoConfere
<1>8. ASSUME NEW s \in Sessoes, NEW g \in BOOLEAN, ExecutorCopia(s, g) PROVE IdsUnicos'
  BY <1>0, <1>a, <1>8, EfeitoCopia DEF quadroVars
<1>9. ASSUME NEW s \in Sessoes, NEW k \in Pedidos, ReverterComeca(s, k) PROVE IdsUnicos'
  BY <1>a, <1>9, EfeitoComeca DEF quadroVars
<1>10. ASSUME NEW s \in Sessoes, NEW c \in Colunas, NEW m \in BOOLEAN,
              ReverterColuna(s, c, m)
       PROVE  IdsUnicos'
  BY <1>a, <1>10, EfeitoReverte
<1>11. ASSUME NEW s \in Sessoes, ReverterTermina(s) PROVE IdsUnicos'
  BY <1>0, <1>a, <1>11, EfeitoTermina DEF quadroVars
<1>12. ASSUME NEW k \in Pedidos, NEW p \in Destinos, MontarMov(k, p) PROVE IdsUnicos'
  BY <1>12, EfeitoMonta DEF quadroVars, IdsUnicos
<1>13. ASSUME OutroEscritor PROVE IdsUnicos'
  <2>1. UNCHANGED sessao
    BY <1>13, EfeitoOutro
  <2>2. CASE UNCHANGED proxLinha /\ historico' \subseteq historico
    BY <2>1, <2>2 DEF IdsUnicos
  <2>3. ASSUME NEW n, n.id = proxLinha, proxLinha' = proxLinha + 1,
               historico' = historico \cup {n}
        PROVE  IdsUnicos'
    <3>1. \A r \in historico : r.id < proxLinha /\ r.id < proxLinha' /\ r.id # proxLinha
      BY <1>0, <2>3 DEF IdsUnicos
    <3>2. /\ \A r \in historico' : r.id < proxLinha'
          /\ \A r, q \in historico' : r.id = q.id => r = q
      BY <1>0, <2>3, <3>1 DEF IdsUnicos
    <3>3. \A t \in Sessoes : sessao[t].fase = "inseriu" =>
            sessao[t].linha < proxLinha' /\ sessao[t].linha # proxLinha
      BY <1>0, <2>3, ConstantesOK DEF IdsUnicos, Sessao
    <3> QED BY <2>1, <2>3, <3>2, <3>3 DEF IdsUnicos
  <2> QED BY <1>13, <2>2, <2>3, EfeitoOutro
<1>14. CASE UNCHANGED vars
  BY <1>14 DEF vars, quadroVars, IdsUnicos
<1> QED BY <1>1, <1>2, <1>3, <1>4, <1>5, <1>6, <1>7, <1>8, <1>9, <1>10, <1>11,
      <1>12, <1>13, <1>14
      DEF Next, PassoDoNucleo, PassoDoQuadro, PassoDoChat, PassoDaReversao
-----------------------------------------------------------------------------
(* What the core writes                                                      *)

LEMMA CongelaDuas == \A p : Q!Congela(Q!Congela(p)) = Q!Congela(p)
PROOF
<1> SUFFICES ASSUME NEW p PROVE Q!Congela(Q!Congela(p)) = Q!Congela(p)
  OBVIOUS
<1>1. CASE p.etapa # 3
  BY <1>1 DEF Q!Congela
<1>2. CASE p.etapa = 3
  BY <1>2 DEF Q!Congela
<1> QED BY <1>1, <1>2

LEMMA LegalInicial == Init => LegalInv
  BY DEF Init, LegalInv, Livre

LEMMA LegalPasso == TipoInv /\ LegalInv /\ [Next]_vars => LegalInv'
PROOF
<1> SUFFICES ASSUME Tipos, SessaoBem, LegalInv, [Next]_vars PROVE LegalInv'
  BY DEF TipoInv
<1>0. sessao \in [Sessoes -> Sessao] /\ Livre.fase = "livre"
  BY DEF Tipos, Livre
<1>a. ASSUME NEW s \in Sessoes, OutrasSessoes(s),
             sessao'[s].fase \notin {"revertendo", "leu", "inseriu"}
      PROVE  LegalInv'
  BY <1>a DEF LegalInv, OutrasSessoes
<1>1. ASSUME NEW s \in Sessoes, LeSnapshot(s) PROVE LegalInv'
  <2>1. CASE sessao'[s] = Livre
    BY <1>0, <1>1, <1>a, <2>1, EfeitoLe
  <2>2. CASE sessao'[s] # Livre
    <3>1. /\ sessao'[s].fase = "leu" /\ sessao'[s].de = processo
          /\ sessao'[s].para = Q!Congela(sessao[s].para)
          /\ Q!Valida(processo, Q!Congela(sessao[s].para))
      BY <1>1, <2>2, EfeitoLe
    <3>2. OutrasSessoes(s)
      BY <1>1, EfeitoLe
    <3>3. sessao'[s].para = Q!Congela(sessao'[s].para)
      BY <3>1, CongelaDuas
    <3>4. Q!Valida(sessao'[s].de, sessao'[s].para)
      BY <3>1
    <3> QED BY <3>1, <3>2, <3>3, <3>4 DEF LegalInv, OutrasSessoes
  <2> QED BY <2>1, <2>2
<1>2. ASSUME NEW s \in Sessoes, InsereLinha(s) PROVE LegalInv'
  BY <1>2, EfeitoInsere DEF LegalInv, OutrasSessoes
<1>3. ASSUME NEW s \in Sessoes, Efetiva(s) PROVE LegalInv'
  BY <1>0, <1>a, <1>3, EfeitoEfetiva
<1>4. ASSUME NEW s \in Sessoes, Desiste(s) PROVE LegalInv'
  BY <1>0, <1>a, <1>4, EfeitoDesiste
<1>5. ASSUME NEW s \in Sessoes, NEW p \in Destinos, MovimentarPede(s, p) PROVE LegalInv'
  BY <1>a, <1>5, EfeitoPede
<1>6. ASSUME NEW s \in Sessoes, CriarProcessoDeRequisicao(s) PROVE LegalInv'
  BY <1>0, <1>a, <1>6, EfeitoCria
<1>7. ASSUME NEW s \in Sessoes, NEW k \in Pedidos, ExecutorConfere(s, k) PROVE LegalInv'
  <2>1. CASE UNCHANGED sessao
    BY <2>1 DEF LegalInv
  <2>2. CASE OutrasSessoes(s) /\ sessao'[s].fase = "chamou"
    BY <1>a, <2>2
  <2> QED BY <1>7, <2>1, <2>2, EfeitoConfere
<1>8. ASSUME NEW s \in Sessoes, NEW g \in BOOLEAN, ExecutorCopia(s, g) PROVE LegalInv'
  BY <1>0, <1>a, <1>8, EfeitoCopia
<1>9. ASSUME NEW s \in Sessoes, NEW k \in Pedidos, ReverterComeca(s, k) PROVE LegalInv'
  BY <1>9, EfeitoComeca DEF LegalInv, OutrasSessoes
<1>10. ASSUME NEW s \in Sessoes, NEW c \in Colunas, NEW m \in BOOLEAN,
              ReverterColuna(s, c, m)
       PROVE  LegalInv'
  BY <1>10, EfeitoReverte DEF LegalInv, OutrasSessoes
<1>11. ASSUME NEW s \in Sessoes, ReverterTermina(s) PROVE LegalInv'
  BY <1>0, <1>a, <1>11, EfeitoTermina
<1>12. ASSUME NEW k \in Pedidos, NEW p \in Destinos, MontarMov(k, p) PROVE LegalInv'
  BY <1>12, EfeitoMonta DEF LegalInv
<1>13. ASSUME OutroEscritor PROVE LegalInv'
  BY <1>13, EfeitoOutro DEF LegalInv
<1>14. CASE UNCHANGED vars
  BY <1>14 DEF vars, LegalInv
<1> QED BY <1>1, <1>2, <1>3, <1>4, <1>5, <1>6, <1>7, <1>8, <1>9, <1>10, <1>11,
      <1>12, <1>13, <1>14
      DEF Next, PassoDoNucleo, PassoDoQuadro, PassoDoChat, PassoDaReversao

\* a row of the core comes from a commit, and no other writer leaves one
LEMMA LinhaManual ==
  ASSUME Tipos, SessaoBem, Next, NEW r \in historico' \ historico, r.tipo = "manual"
  PROVE  \E s \in Sessoes : Efetiva(s)
PROOF
<1> SUFFICES ASSUME \A s \in Sessoes : ~Efetiva(s) PROVE historico' \subseteq historico
  BY DEF Tipos
<1>1. ASSUME NEW s \in Sessoes, PassoDoNucleo(s) PROVE historico' \subseteq historico
  BY <1>1 DEF PassoDoNucleo, LeSnapshot, InsereLinha, Desiste, quadroVars
<1>2. ASSUME NEW s \in Sessoes, PassoDoQuadro(s) PROVE historico' \subseteq historico
  BY <1>2 DEF PassoDoQuadro, MovimentarPede, CriarProcessoDeRequisicao, quadroVars
<1>3. ASSUME NEW s \in Sessoes, PassoDoChat(s) PROVE historico' \subseteq historico
  BY <1>3 DEF PassoDoChat, ExecutorConfere, ExecutorCopia, quadroVars
<1>4. ASSUME NEW s \in Sessoes, PassoDaReversao(s) PROVE historico' \subseteq historico
  <2>1. CASE \E k \in Pedidos : ReverterComeca(s, k)
    BY <2>1 DEF ReverterComeca, quadroVars
  <2>2. CASE \E c \in Colunas, m \in BOOLEAN : ReverterColuna(s, c, m)
    BY <2>2, EfeitoReverte
  <2>3. CASE ReverterTermina(s)
    BY <2>3 DEF ReverterTermina, quadroVars
  <2> QED BY <1>4, <2>1, <2>2, <2>3 DEF PassoDaReversao
<1>5. ASSUME NEW k \in Pedidos, NEW p \in Destinos, MontarMov(k, p)
      PROVE  historico' \subseteq historico
  BY <1>5 DEF MontarMov, quadroVars
<1>6. ASSUME OutroEscritor PROVE historico' \subseteq historico
  <2>1. ASSUME NEW n, n.tipo = "movimentacao", historico' = historico \cup {n} PROVE FALSE
    BY <2>1
  <2> QED BY <1>6, <2>1, EfeitoOutro
<1> QED BY <1>1, <1>2, <1>3, <1>4, <1>5, <1>6 DEF Next

(* Whatever calls, reversals, other writers and failures are interleaved,    *)
(* each row the core commits says a movement the rules allow, with its       *)
(* decision frozen, and is where that commit leaves the process.             *)
THEOREM MovLinhasLegais == Spec => LinhasLegais
PROOF
<1> DEFINE Legais == \A r \in historico' \ historico : r.tipo = "manual" =>
                       /\ Q!Valida(r.de, r.para) /\ r.para = Q!Congela(r.para)
                       /\ processo' = r.para
<1>1. ASSUME TipoInv, LegalInv, [Next]_vars PROVE [Legais]_vars
  <2> SUFFICES ASSUME Next, NEW r \in historico' \ historico, r.tipo = "manual"
               PROVE  /\ Q!Valida(r.de, r.para) /\ r.para = Q!Congela(r.para)
                      /\ processo' = r.para
    BY <1>1
  <2>0. Tipos /\ SessaoBem
    BY <1>1 DEF TipoInv
  <2>1. PICK s \in Sessoes : Efetiva(s)
    BY <2>0, LinhaManual
  <2>2. /\ sessao[s].fase = "inseriu" /\ processo' = sessao[s].para
        /\ r = [id |-> sessao[s].linha, tipo |-> "manual", de |-> sessao[s].de,
                para |-> sessao[s].para, pedido |-> sessao[s].pedido]
    BY <2>0, <2>1, EfeitoEfetiva
  <2>3. r.de = sessao[s].de /\ r.para = sessao[s].para
    BY <2>2
  <2> QED BY <1>1, <2>2, <2>3 DEF LegalInv
<1>2. TipoInv /\ LegalInv /\ [Next]_vars => [Legais]_vars
  BY <1>1
<1>3. [][Legais]_vars => LinhasLegais
  BY PTL DEF LinhasLegais
<1> QED BY <1>2, <1>3, TipoInicial, TipoPasso, LegalInicial, LegalPasso, PTL DEF Spec

(* Where nobody reverts and the full form is not in use, a process goes back *)
(* to the beginning only by a movement that says so: a new row, whose id     *)
(* nobody else took, or the one a v1 handler has just copied back.           *)
THEOREM MovNaoRebobina ==
  ASSUME SemVolta
  PROVE  Spec => NaoRebobina
PROOF
<1> DEFINE Rebobina == existe /\ processo # Q!Inicial /\ processo' = Q!Inicial
           Registra == \E r \in historico' :
             r.para = Q!Inicial /\ (r \notin historico \/ sincronizada' = r.id)
<1>1. ASSUME TipoInv, IdsUnicos, LegalInv, [Next]_vars PROVE [Rebobina => Registra]_vars
  <2> SUFFICES ASSUME Rebobina, Next PROVE Registra
    BY <1>1
  <2>0. Tipos /\ SessaoBem
    BY <1>1 DEF TipoInv
  <2>1. ASSUME NEW s \in Sessoes, Efetiva(s) PROVE Registra
    <3> DEFINE n == [id |-> sessao[s].linha, tipo |-> "manual", de |-> sessao[s].de,
                     para |-> sessao[s].para, pedido |-> sessao[s].pedido]
    <3>1. n \in historico' /\ n.id = sessao[s].linha /\ n.para = Q!Inicial
          /\ sessao[s].fase = "inseriu"
      BY <2>0, <2>1, EfeitoEfetiva
    <3>2. n \notin historico
      BY <1>1, <3>1 DEF IdsUnicos
    <3> QED BY <3>1, <3>2
  <2>2. ASSUME NEW s \in Sessoes, PassoDoNucleo(s) PROVE Registra
    BY <2>1, <2>2 DEF PassoDoNucleo, LeSnapshot, InsereLinha, Desiste, quadroVars
  <2>3. ASSUME NEW s \in Sessoes, PassoDoQuadro(s) PROVE Registra
    BY <2>3 DEF PassoDoQuadro, MovimentarPede, CriarProcessoDeRequisicao, quadroVars
  <2>4. ASSUME NEW s \in Sessoes, PassoDoChat(s) PROVE Registra
    BY <2>4 DEF PassoDoChat, ExecutorConfere, ExecutorCopia, quadroVars
  <2>5. ASSUME NEW s \in Sessoes, PassoDaReversao(s) PROVE Registra
    <3>1. sessao[s].fase # "revertendo" /\ "reversao" \notin Escritores
      BY <1>1 DEF LegalInv, SemVolta
    <3> QED BY <2>5, <3>1 DEF PassoDaReversao, ReverterComeca, ReverterColuna, ReverterTermina
  <2>6. ASSUME NEW k \in Pedidos, NEW p \in Destinos, MontarMov(k, p) PROVE Registra
    BY <2>6 DEF MontarMov, quadroVars
  <2>7. ASSUME NEW p \in Destinos, MovimentarProcesso(p.etapa) PROVE Registra
    <3>1. p.etapa \in Q!Etapas
      BY ConstantesOK DEF Q!Estados
    <3>2. \A r \in historico : r.id # proxLinha
      BY <1>1, <2>0, ConstantesOK DEF IdsUnicos, Tipos, Linhas
    <3> QED BY <2>0, <2>7, <3>1, <3>2, EfeitoLegado
  <2>8. ASSUME UpdateRequisicaoCompleta PROVE Registra
    BY <2>0, <2>8, EfeitoSalva
  <2>9. CASE \/ \E a \in {1, 2} : SalvarEncerramento(a) \/ SalvarDeferimento(a)
             \/ \E p \in Destinos, vieram \in SUBSET {"etapa", "aprov"} :
                   AtualizarProcessoCompleto(p, vieram)
             \/ \E r \in historico : AdminDeleteHistorico(r)
    <3>1. processo' = processo \/ \E a \in {1, 2} : processo'.aprov = a
      BY <2>0, <2>9, EfeitoAvulso DEF SemVolta
    <3> QED BY <3>1 DEF Q!Inicial
  <2>10. ASSUME OutroEscritor PROVE Registra
    BY <2>7, <2>8, <2>9, <2>10 DEF OutroEscritor
  <2> QED BY <2>2, <2>3, <2>4, <2>5, <2>6, <2>10 DEF Next
<1>2. TipoInv /\ IdsUnicos /\ LegalInv /\ [Next]_vars => [Rebobina => Registra]_vars
  BY <1>1
<1>3. [][Rebobina => Registra]_vars => NaoRebobina
  BY PTL DEF NaoRebobina
<1> QED BY <1>2, <1>3, TipoInicial, TipoPasso, IdsInicial, IdsPasso, LegalInicial,
      LegalPasso, PTL DEF Spec
-----------------------------------------------------------------------------
(* One row for one request                                                   *)

LEMMA PapeisInicial == Init => PapeisInv
  BY DEF Init, PapeisInv, Livre, Movendo, SemPedido

LEMMA PapeisPasso == TipoInv /\ PapeisInv /\ [Next]_vars => PapeisInv'
PROOF
<1> SUFFICES ASSUME Tipos, SessaoBem, PapeisInv, [Next]_vars PROVE PapeisInv'
  BY DEF TipoInv
<1>0. /\ sessao \in [Sessoes -> Sessao] /\ pedido \in [Pedidos -> Pedido]
      /\ Livre.fase = "livre" /\ Livre.pedido = 0 /\ copia \in [Pedidos -> SUBSET Colunas]
      /\ \A s \in Sessoes : sessao[s].pedido # 0 => sessao[s].pedido \in Pedidos
  BY ConstantesOK DEF Tipos, Livre, Sessao, Pedidos
<1>a. ASSUME NEW s \in Sessoes, OutrasSessoes(s), UNCHANGED <<pedido, copia>>,
             \/ sessao'[s].fase = "livre"
             \/ sessao'[s].pedido = 0 /\ sessao'[s].fase # "revertendo"
             \/ /\ sessao'[s].pedido = sessao[s].pedido
                /\ sessao[s].fase \in Movendo /\ sessao'[s].fase \in Movendo
      PROVE  PapeisInv'
  BY <1>a DEF PapeisInv, OutrasSessoes, Movendo
<1>1. ASSUME NEW s \in Sessoes, LeSnapshot(s) PROVE PapeisInv'
  <2> DEFINE k == sessao[s].pedido
  <2>1. CASE UNCHANGED pedido /\ sessao'[s].fase = "leu" /\ sessao'[s].pedido = k
    BY <1>a, <1>1, <2>1, EfeitoLe DEF Movendo, quadroVars
  <2>2. CASE sessao'[s] = Livre /\ k \notin Pedidos
    <3>1. UNCHANGED pedido
      BY <1>0, <1>1, <2>2, EfeitoLe DEF OutrosPedidos
    <3> QED BY <1>0, <1>a, <1>1, <2>2, <3>1, EfeitoLe DEF quadroVars
  <2>3. CASE sessao'[s] = Livre /\ k \in Pedidos /\ pedido'[k].fase = "revisao"
    <3>1. UNCHANGED copia /\ OutrasSessoes(s) /\ OutrosPedidos(k) /\ sessao[s].fase = "chamou"
      BY <1>1, EfeitoLe
    <3>2. pedido[k].fase = "previa" /\ k # 0
      BY <2>3, <3>1, ConstantesOK DEF PapeisInv, Movendo, Pedidos
    <3> HIDE DEF k
    <3>3. \A t \in Sessoes : sessao'[t].fase \in Movendo /\ sessao'[t].pedido # 0
            => t # s /\ sessao'[t] = sessao[t] /\ sessao[t].pedido # k
      BY <1>0, <2>3, <3>1, <3>2 DEF PapeisInv, OutrasSessoes, Movendo, k
    <3>4. \A t \in Sessoes : sessao'[t].fase = "revertendo"
            => t # s /\ sessao'[t] = sessao[t] /\ sessao[t].pedido # k
      BY <1>0, <2>3, <3>1, <3>2 DEF PapeisInv, OutrasSessoes
    <3>5. copia[k] = {}
      BY <2>3, <3>2 DEF PapeisInv
    <3> QED BY <1>0, <2>3, <3>1, <3>3, <3>4, <3>5
          DEF PapeisInv, OutrasSessoes, OutrosPedidos, SessaoBem
  <2> QED BY <1>1, <2>1, <2>2, <2>3, EfeitoLe
<1>2. ASSUME NEW s \in Sessoes, InsereLinha(s) PROVE PapeisInv'
  BY <1>a, <1>2, EfeitoInsere DEF Movendo
<1>3. ASSUME NEW s \in Sessoes, Efetiva(s) PROVE PapeisInv'
  BY <1>0, <1>a, <1>3, EfeitoEfetiva DEF Movendo
<1>4. ASSUME NEW s \in Sessoes, Desiste(s) PROVE PapeisInv'
  BY <1>0, <1>a, <1>4, EfeitoDesiste
<1>5. ASSUME NEW s \in Sessoes, NEW p \in Destinos, MovimentarPede(s, p) PROVE PapeisInv'
  BY <1>a, <1>5, EfeitoPede
<1>6. ASSUME NEW s \in Sessoes, CriarProcessoDeRequisicao(s) PROVE PapeisInv'
  <2>1. sessao[s].pedido = 0
    BY <1>6, EfeitoCria DEF PapeisInv
  <2> QED BY <1>0, <1>a, <1>6, <2>1, EfeitoCria
<1>7. ASSUME NEW s \in Sessoes, NEW k \in Pedidos, ExecutorConfere(s, k) PROVE PapeisInv'
  <2>1. /\ UNCHANGED copia /\ pedido[k].fase = "previa"
        /\ \A z \in Sessoes : sessao[z].fase = "revertendo" \/ sessao[z].pedido = 0
    BY <1>7, EfeitoConfere
  <2>2. CASE UNCHANGED pedido /\ OutrasSessoes(s) /\ sessao'[s].fase = "chamou"
             /\ sessao'[s].pedido = k
    BY <2>1, <2>2 DEF PapeisInv, OutrasSessoes, Movendo
  <2>3. CASE UNCHANGED sessao /\ OutrosPedidos(k) /\ pedido'[k].fase = "revisao"
    <3>1. copia[k] = {} /\ \A t \in Sessoes : sessao[t].fase = "revertendo" => sessao[t].pedido # k
      BY <2>1 DEF PapeisInv
    <3>2. \A t \in Sessoes : ~(sessao[t].fase \in Movendo /\ sessao[t].pedido # 0)
      BY <2>1 DEF Movendo
    <3> QED BY <1>0, <2>1, <2>3, <3>1, <3>2 DEF PapeisInv, OutrosPedidos, SessaoBem
  <2> QED BY <1>7, <2>2, <2>3, EfeitoConfere
<1>8. ASSUME NEW s \in Sessoes, NEW g \in BOOLEAN, ExecutorCopia(s, g) PROVE PapeisInv'
  <2> DEFINE k == sessao[s].pedido
  <2>1. /\ sessao[s].fase = "semCopia" /\ OutrasSessoes(s) /\ sessao'[s].fase = "livre"
        /\ k \in Pedidos /\ k # 0 /\ OutrosPedidos(k) /\ pedido'[k].fase = "executado"
    BY <1>0, <1>8, EfeitoCopia DEF Pedidos
  <2>4. \A i \in Pedidos \ {k} : copia'[i] = copia[i]
    BY <1>0, <1>8, EfeitoCopia
  <2>2. \A t \in Sessoes : sessao'[t].fase \in Movendo
          => t # s /\ sessao'[t] = sessao[t] /\ sessao[t].pedido = 0
    BY <2>1 DEF PapeisInv, OutrasSessoes, Movendo
  <2>3. \A t \in Sessoes : t # s => sessao'[t] = sessao[t]
    BY <2>1 DEF OutrasSessoes
  <2> HIDE DEF k
  <2> QED BY <1>0, <2>1, <2>2, <2>3, <2>4 DEF PapeisInv, OutrosPedidos, SessaoBem
<1>9. ASSUME NEW s \in Sessoes, NEW k \in Pedidos, ReverterComeca(s, k) PROVE PapeisInv'
  BY <1>9, EfeitoComeca DEF PapeisInv, OutrasSessoes, Movendo
<1>10. ASSUME NEW s \in Sessoes, NEW c \in Colunas, NEW m \in BOOLEAN,
              ReverterColuna(s, c, m)
       PROVE  PapeisInv'
  <2>1. \A k \in Pedidos : copia'[k] # {} => copia[k] # {}
    BY <1>10, EfeitoReverte
  <2> QED BY <1>10, <2>1, EfeitoReverte DEF PapeisInv, OutrasSessoes, Movendo
<1>11. ASSUME NEW s \in Sessoes, ReverterTermina(s) PROVE PapeisInv'
  <2> DEFINE k == sessao[s].pedido
  <2>1. /\ sessao[s].fase = "revertendo" /\ OutrasSessoes(s) /\ sessao'[s].fase = "livre"
        /\ k \in Pedidos /\ OutrosPedidos(k) /\ pedido'[k].fase = "revertido"
        /\ UNCHANGED copia
    BY <1>0, <1>11, EfeitoTermina
  <2>2. \A t \in Sessoes : sessao'[t].fase \in Movendo /\ sessao'[t].pedido # 0
          => t # s /\ sessao'[t] = sessao[t] /\ sessao[t].pedido # k
    BY <2>1 DEF PapeisInv, OutrasSessoes, Movendo
  <2>3. \A t \in Sessoes : t # s => sessao'[t] = sessao[t]
    BY <2>1 DEF OutrasSessoes
  <2> HIDE DEF k
  <2> QED BY <1>0, <2>1, <2>2, <2>3 DEF PapeisInv, OutrosPedidos, SessaoBem
<1>12. ASSUME NEW k \in Pedidos, NEW p \in Destinos, MontarMov(k, p) PROVE PapeisInv'
  <2>1. /\ UNCHANGED <<copia, sessao>> /\ pedido[k].fase = "nenhum" /\ OutrosPedidos(k)
    BY <1>12, EfeitoMonta
  <2>2. /\ copia[k] = {}
        /\ \A t \in Sessoes : sessao[t].fase = "revertendo" => sessao[t].pedido # k
        /\ \A t \in Sessoes : sessao[t].fase \in Movendo /\ sessao[t].pedido # 0
             => sessao[t].pedido # k
    BY <2>1 DEF PapeisInv
  <2> QED BY <1>0, <2>1, <2>2 DEF PapeisInv, OutrosPedidos, SessaoBem
<1>13. ASSUME OutroEscritor PROVE PapeisInv'
  BY <1>13, EfeitoOutro DEF PapeisInv
<1>14. CASE UNCHANGED vars
  BY <1>14 DEF vars, quadroVars, PapeisInv
<1> QED BY <1>1, <1>2, <1>3, <1>4, <1>5, <1>6, <1>7, <1>8, <1>9, <1>10, <1>11,
      <1>12, <1>13, <1>14
      DEF Next, PassoDoNucleo, PassoDoQuadro, PassoDoChat, PassoDaReversao

LEMMA Encolhe ==
  ASSUME NEW H, NEW G \in SUBSET H, IsFiniteSet(H)
  PROVE  /\ IsFiniteSet(G)
         /\ \A k, l :
              /\ Cardinality(DoPedido(G, k)) \in Nat /\ Cardinality(Outras(G, k, l)) \in Nat
              /\ Cardinality(DoPedido(H, k)) \in Nat /\ Cardinality(Outras(H, k, l)) \in Nat
              /\ Cardinality(DoPedido(G, k)) <= Cardinality(DoPedido(H, k))
              /\ Cardinality(Outras(G, k, l)) <= Cardinality(Outras(H, k, l))
PROOF
<1>1. IsFiniteSet(G)
  BY FS_Subset
<1>2. ASSUME NEW k, NEW l
      PROVE  /\ DoPedido(G, k) \subseteq DoPedido(H, k) /\ Outras(G, k, l) \subseteq Outras(H, k, l)
             /\ IsFiniteSet(DoPedido(H, k)) /\ IsFiniteSet(Outras(H, k, l))
             /\ IsFiniteSet(DoPedido(G, k)) /\ IsFiniteSet(Outras(G, k, l))
  <2>1. /\ DoPedido(G, k) \subseteq DoPedido(H, k) /\ Outras(G, k, l) \subseteq Outras(H, k, l)
        /\ DoPedido(H, k) \subseteq H /\ Outras(H, k, l) \subseteq H
    BY DEF DoPedido, Outras
  <2>2. IsFiniteSet(DoPedido(H, k)) /\ IsFiniteSet(Outras(H, k, l))
    BY <2>1, FS_Subset
  <2> QED BY <2>1, <2>2, FS_Subset
<1> QED BY <1>1, <1>2, FS_Subset, FS_CardinalityType

\* one more row counts for its request only, and not at all without itself
LEMMA MaisUma ==
  ASSUME NEW H, IsFiniteSet(H), NEW n
  PROVE  /\ IsFiniteSet(H \cup {n})
         /\ Cardinality(DoPedido(H \cup {n}, n.pedido)) <= Cardinality(DoPedido(H, n.pedido)) + 1
         /\ Cardinality(Outras(H \cup {n}, n.pedido, n.id)) <= Cardinality(DoPedido(H, n.pedido))
         /\ \A k : k # n.pedido => /\ DoPedido(H \cup {n}, k) = DoPedido(H, k)
                                 /\ \A l : Outras(H \cup {n}, k, l) = Outras(H, k, l)
PROOF
<1>1. IsFiniteSet(H \cup {n}) /\ IsFiniteSet(DoPedido(H, n.pedido))
  BY FS_AddElement, FS_Subset DEF DoPedido
<1>2. DoPedido(H \cup {n}, n.pedido) = DoPedido(H, n.pedido) \cup {n}
  BY DEF DoPedido
<1>3. Cardinality(DoPedido(H, n.pedido) \cup {n}) <= Cardinality(DoPedido(H, n.pedido)) + 1
  <2> DEFINE D == DoPedido(H, n.pedido)
  <2> HIDE DEF D
  <2>1. ASSUME IsFiniteSet(D) PROVE Cardinality(D \cup {n}) <= Cardinality(D) + 1
    <3>1. /\ Cardinality(D) \in Nat
          /\ Cardinality(D \cup {n}) = IF n \in D THEN Cardinality(D) ELSE Cardinality(D) + 1
      BY <2>1, FS_AddElement, FS_CardinalityType
    <3> QED BY <3>1
  <2> QED BY <1>1, <2>1 DEF D
<1>4. Outras(H \cup {n}, n.pedido, n.id) \subseteq DoPedido(H, n.pedido)
  BY DEF Outras, DoPedido
<1>5. Cardinality(Outras(H \cup {n}, n.pedido, n.id)) <= Cardinality(DoPedido(H, n.pedido))
  BY <1>1, <1>4, FS_Subset
<1>6. \A k : k # n.pedido => /\ DoPedido(H \cup {n}, k) = DoPedido(H, k)
                            /\ \A l : Outras(H \cup {n}, k, l) = Outras(H, k, l)
  BY DEF DoPedido, Outras
<1> QED BY <1>1, <1>2, <1>3, <1>5, <1>6

LEMMA ContaInicial == Init => ContaInv
PROOF
<1> SUFFICES ASSUME Init PROVE ContaInv
  OBVIOUS
<1>1. IsFiniteSet(historico) /\ historico = {} /\ falhas = 0
  BY FS_EmptySet DEF Init
<1>2. ASSUME NEW k PROVE QuantasDe(k) = 0
  <2>1. DoPedido(historico, k) = {}
    BY <1>1 DEF DoPedido
  <2> QED BY <2>1, FS_EmptySet DEF QuantasDe
<1>3. /\ \A k \in Pedidos : pedido[k].fase = "nenhum" /\ copia[k] = {}
      /\ \A s \in Sessoes : sessao[s].fase = "livre"
  BY DEF Init, Livre, SemPedido
<1> QED BY <1>1, <1>2, <1>3 DEF ContaInv, Conta, SemCopia

LEMMA ContaPasso == TipoInv /\ PapeisInv /\ ContaInv /\ [Next]_vars => ContaInv'
PROOF
<1> SUFFICES ASSUME Tipos, SessaoBem, PapeisInv, ContaInv, [Next]_vars PROVE ContaInv'
  BY DEF TipoInv
<1>0. /\ sessao \in [Sessoes -> Sessao] /\ pedido \in [Pedidos -> Pedido] /\ falhas \in Nat
      /\ Livre.fase = "livre" /\ copia \in [Pedidos -> SUBSET Colunas]
      /\ \A s \in Sessoes : sessao[s].pedido # 0 => sessao[s].pedido \in Pedidos
      /\ \A k \in Pedidos : Conta(k) /\ k # 0
      /\ \A k, l : QuantasDe(k) \in Nat /\ QuantasSem(k, l) \in Nat
  <2>1. \A k, l : QuantasDe(k) \in Nat /\ QuantasSem(k, l) \in Nat
    BY Encolhe DEF ContaInv, QuantasDe, QuantasSem
  <2> QED BY <2>1, ConstantesOK DEF Tipos, Livre, Sessao, Pedidos, ContaInv
\* a step that adds no row only lowers the counts
<1>e. ASSUME historico' \subseteq historico
      PROVE  /\ IsFiniteSet(historico')
             /\ \A k, l : /\ QuantasDe(k)' \in Nat /\ QuantasSem(k, l)' \in Nat
                          /\ QuantasDe(k)' <= QuantasDe(k) /\ QuantasSem(k, l)' <= QuantasSem(k, l)
  BY <1>e, Encolhe DEF ContaInv, QuantasDe, QuantasSem
\* nor does a call that neither commits nor undoes
<1>a. ASSUME NEW s \in Sessoes, OutrasSessoes(s), UNCHANGED <<pedido, copia, falhas>>,
             historico' \subseteq historico, sessao[s].fase \notin {"semCopia", "revertendo"},
             sessao'[s].fase \notin {"semCopia", "revertendo"}
      PROVE  ContaInv'
  <2>1. ASSUME NEW k \in Pedidos PROVE Conta(k)'
    <3>1. \A t \in Sessoes : SemCopia(t, k)' <=> SemCopia(t, k)
      BY <1>a DEF OutrasSessoes, SemCopia
    <3>2. \A t \in Sessoes : \/ sessao'[t].fase \notin {"semCopia", "revertendo"}
                             \/ sessao'[t] = sessao[t]
      BY <1>a DEF OutrasSessoes
    <3> QED BY <1>0, <1>a, <1>e, <3>1, <3>2 DEF Conta, SemCopia
  <2> QED BY <1>a, <1>e, <2>1 DEF ContaInv
<1>1. ASSUME NEW s \in Sessoes, LeSnapshot(s) PROVE ContaInv'
  <2> PICK k : k = sessao[s].pedido
    OBVIOUS
  <2>0. /\ UNCHANGED <<quadroVars, copia, falhas>> /\ sessao[s].fase = "chamou"
        /\ OutrasSessoes(s) /\ sessao'[s].fase \in {"leu", "livre"} /\ OutrosPedidos(k)
        /\ UNCHANGED pedido \/ \A i \in Pedidos : i = k => pedido'[i].fase = "revisao"
    BY <1>0, <1>1, EfeitoLe
  <2>1. /\ UNCHANGED <<quadroVars, copia, falhas>> /\ sessao[s].fase = "chamou"
        /\ OutrasSessoes(s) /\ sessao'[s].fase \in {"leu", "livre"}
        /\ \A i \in Pedidos : pedido'[i] = pedido[i]
                            \/ (i = k /\ pedido'[i].fase = "revisao")
    <3>1. ASSUME NEW i \in Pedidos
          PROVE  pedido'[i] = pedido[i] \/ (i = k /\ pedido'[i].fase = "revisao")
      BY <2>0 DEF OutrosPedidos
    <3> QED BY <2>0, <3>1
  <2>2. ASSUME NEW i \in Pedidos, i = k
        PROVE  pedido[i].fase = "previa" /\ \A t \in Sessoes : ~SemCopia(t, i)
    BY <1>0, <2>1, <2>2 DEF PapeisInv, Movendo, SemCopia
  <2>3. \A t \in Sessoes : \/ sessao'[t].fase \notin {"semCopia", "revertendo"}
                           \/ sessao'[t] = sessao[t]
    BY <2>1 DEF OutrasSessoes
  <2>4. \A i : \A t \in Sessoes : SemCopia(t, i)' <=> SemCopia(t, i)
    BY <2>1 DEF OutrasSessoes, SemCopia
  <2>5. ASSUME NEW i \in Pedidos PROVE Conta(i)'
    <3>1. UNCHANGED <<QuantasDe(i), falhas, copia>> /\ \A l : QuantasSem(i, l)' = QuantasSem(i, l)
      BY <2>1 DEF quadroVars, QuantasDe, QuantasSem
    <3>2. CASE pedido'[i] = pedido[i]
      <4>1. Conta(i)
        BY <1>0
      <4>2. \A t \in Sessoes : SemCopia(t, i)' => sessao'[t].linha = sessao[t].linha
        BY <2>3 DEF SemCopia
      <4> QED BY <2>3, <2>4, <3>1, <3>2, <4>1, <4>2 DEF Conta
    <3>3. CASE i = k /\ pedido'[i].fase = "revisao"
      BY <1>0, <2>2, <2>3, <2>4, <3>1, <3>3 DEF Conta, SemCopia
    <3> QED BY <2>1, <3>2, <3>3
  <2> QED BY <2>1, <2>5, <1>e DEF ContaInv, quadroVars
<1>2. ASSUME NEW s \in Sessoes, InsereLinha(s) PROVE ContaInv'
  BY <1>a, <1>2, EfeitoInsere
<1>3. ASSUME NEW s \in Sessoes, Efetiva(s) PROVE ContaInv'
  <2>a. PICK n : n = [id |-> sessao[s].linha, tipo |-> "manual", de |-> sessao[s].de,
                     para |-> sessao[s].para, pedido |-> sessao[s].pedido]
    OBVIOUS
  <2> DEFINE k == n.pedido
             l == n.id
  <2>1. /\ UNCHANGED <<pedido, copia, falhas>> /\ sessao[s].fase = "inseriu" /\ OutrasSessoes(s)
        /\ historico' = historico \cup {n} /\ sessao[s].linha = l /\ sessao[s].pedido = k
        /\ \/ k = 0 /\ sessao'[s].fase = "livre"
           \/ /\ k # 0 /\ sessao'[s].fase = "semCopia" /\ sessao'[s].pedido = k
              /\ sessao'[s].linha = l
    BY <1>0, <1>3, <2>a, EfeitoEfetiva
  <2>2. k # 0 => /\ k \in Pedidos /\ pedido[k].fase = "previa" /\ copia[k] = {}
                 /\ \A t \in Sessoes : ~SemCopia(t, k)
                 /\ \A t \in Sessoes : sessao[t].fase = "revertendo" => sessao[t].pedido # k
    BY <1>0, <2>1 DEF PapeisInv, Movendo, SemCopia
  <2>3. /\ IsFiniteSet(historico')
        /\ QuantasDe(k)' <= QuantasDe(k) + 1 /\ QuantasSem(k, l)' <= QuantasDe(k)
        /\ \A i : i # k => QuantasDe(i)' = QuantasDe(i)
                          /\ \A j : QuantasSem(i, j)' = QuantasSem(i, j)
    <3>1. IsFiniteSet(historico) /\ historico' = historico \cup {n}
      BY <2>1 DEF ContaInv
    <3>2. /\ IsFiniteSet(historico \cup {n})
          /\ Cardinality(DoPedido(historico \cup {n}, k)) <= Cardinality(DoPedido(historico, k)) + 1
          /\ Cardinality(Outras(historico \cup {n}, k, l)) <= Cardinality(DoPedido(historico, k))
          /\ \A i : i # k => /\ DoPedido(historico \cup {n}, i) = DoPedido(historico, i)
                            /\ \A j : Outras(historico \cup {n}, i, j) = Outras(historico, i, j)
      BY <3>1, MaisUma
    <3> HIDE DEF k, l
    <3> QED BY <3>1, <3>2 DEF QuantasDe, QuantasSem
  <2>4. \A i, j : QuantasDe(i)' \in Nat /\ QuantasSem(i, j)' \in Nat
    BY <2>3, Encolhe DEF QuantasDe, QuantasSem
  <2> HIDE DEF k, l
  <2>5. \A t \in Sessoes \ {s} : sessao'[t] = sessao[t]
    BY <2>1 DEF OutrasSessoes
  <2>6. ASSUME NEW i \in Pedidos, i # k PROVE Conta(i)'
    BY <1>0, <2>1, <2>3, <2>5, <2>6 DEF Conta, SemCopia
  <2>7. ASSUME NEW i \in Pedidos, i = k PROVE Conta(i)'
    <3>1. QuantasDe(k) <= falhas /\ k # 0
      BY <1>0, <2>2, <2>7 DEF Conta
    <3>2. QuantasDe(k)' <= falhas' + 1 /\ QuantasSem(k, l)' <= falhas'
      <4>1. QuantasDe(k) \in Nat /\ QuantasDe(k)' \in Nat /\ QuantasSem(k, l)' \in Nat
        BY <1>0, <2>4
      <4> QED BY <1>0, <2>1, <2>3, <3>1, <4>1
    <3>4. SemCopia(s, k)' /\ \A t \in Sessoes : SemCopia(t, k)' => t = s
      BY <2>1, <2>2, <2>5, <3>1 DEF SemCopia
    <3>3. \A t \in Sessoes : sessao'[t].fase = "revertendo" => sessao'[t].pedido # k
      BY <2>1, <2>2, <2>5, <3>1
    <3> QED BY <2>1, <2>2, <2>7, <3>1, <3>2, <3>3, <3>4 DEF Conta
  <2> QED BY <2>3, <2>6, <2>7 DEF ContaInv
<1>4. ASSUME NEW s \in Sessoes, Desiste(s) PROVE ContaInv'
  <2>1. /\ UNCHANGED <<historico, pedido, copia>> /\ falhas' = falhas + 1
        /\ OutrasSessoes(s) /\ sessao'[s].fase = "livre"
    BY <1>0, <1>4, EfeitoDesiste DEF quadroVars
  <2>2. \A t \in Sessoes : \/ sessao'[t].fase \notin {"semCopia", "revertendo"}
                           \/ sessao'[t] = sessao[t]
    BY <2>1 DEF OutrasSessoes
  <2>3. ASSUME NEW i \in Pedidos PROVE Conta(i)'
    <3>1. Conta(i) /\ QuantasDe(i)' = QuantasDe(i) /\ \A j : QuantasSem(i, j)' = QuantasSem(i, j)
      BY <1>0, <2>1 DEF QuantasDe, QuantasSem
    <3>2. QuantasDe(i) <= falhas + 1
      <4>1. QuantasDe(i) \in Nat /\ falhas \in Nat
        BY <1>0
      <4>2. QuantasDe(i) <= falhas \/ QuantasDe(i) <= falhas + 1
        BY <3>1 DEF Conta
      <4> QED BY <4>1, <4>2
    <3> QED BY <1>0, <2>1, <2>2, <3>1, <3>2 DEF Conta, SemCopia
  <2> QED BY <1>e, <2>1, <2>3 DEF ContaInv
<1>5. ASSUME NEW s \in Sessoes, NEW p \in Destinos, MovimentarPede(s, p) PROVE ContaInv'
  BY <1>a, <1>5, EfeitoPede DEF quadroVars
<1>6. ASSUME NEW s \in Sessoes, CriarProcessoDeRequisicao(s) PROVE ContaInv'
  BY <1>0, <1>a, <1>6, EfeitoCria
<1>7. ASSUME NEW s \in Sessoes, NEW k \in Pedidos, ExecutorConfere(s, k) PROVE ContaInv'
  <2>1. /\ UNCHANGED <<historico, copia, falhas>> /\ sessao[s].fase = "livre"
        /\ pedido[k].fase = "previa"
        /\ \A z \in Sessoes : sessao[z].fase = "revertendo" \/ sessao[z].pedido = 0
    BY <1>7, EfeitoConfere DEF quadroVars
  <2>2. CASE UNCHANGED pedido /\ OutrasSessoes(s) /\ sessao'[s].fase = "chamou"
    BY <1>a, <2>1, <2>2
  <2>3. CASE UNCHANGED sessao /\ OutrosPedidos(k) /\ pedido'[k].fase = "revisao"
    <3>1. ASSUME NEW i \in Pedidos PROVE Conta(i)'
      <4>1. Conta(i) /\ QuantasDe(i)' = QuantasDe(i)
            /\ \A j : QuantasSem(i, j)' = QuantasSem(i, j)
        BY <1>0, <2>1 DEF QuantasDe, QuantasSem
      <4>2. CASE i # k
        BY <2>1, <2>3, <4>1, <4>2 DEF Conta, SemCopia, OutrosPedidos
      <4>3. CASE i = k
        <5>1. \A t \in Sessoes : ~SemCopia(t, k)
          BY <1>0, <2>1 DEF SemCopia
        <5> QED BY <2>1, <2>3, <4>1, <4>3, <5>1 DEF Conta, SemCopia
      <4> QED BY <4>2, <4>3
    <3> QED BY <1>e, <2>1, <3>1 DEF ContaInv
  <2> QED BY <1>7, <2>2, <2>3, EfeitoConfere
<1>8. ASSUME NEW s \in Sessoes, NEW g \in BOOLEAN, ExecutorCopia(s, g) PROVE ContaInv'
  <2> PICK k : k = sessao[s].pedido
    OBVIOUS
  <2>1. /\ UNCHANGED historico /\ sessao[s].fase = "semCopia" /\ OutrasSessoes(s)
        /\ sessao'[s].fase = "livre" /\ k \in Pedidos /\ OutrosPedidos(k)
        /\ pedido'[k].fase = "executado" /\ pedido'[k].linha = sessao[s].linha
        /\ falhas' \in Nat /\ falhas <= falhas'
    BY <1>0, <1>8, EfeitoCopia DEF quadroVars
  <2>2. /\ \A i \in Pedidos \ {k} : copia'[i] = copia[i]
        /\ copia'[k] = copia[k] \/ copia'[k] = Colunas
    BY <1>0, <1>8, <2>1, EfeitoCopia
  <2>3. /\ pedido[k].fase = "previa" /\ copia[k] = {} /\ SemCopia(s, k)
        /\ \A t \in Sessoes : SemCopia(t, k) => t = s
        /\ \A t \in Sessoes : sessao[t].fase = "revertendo" => sessao[t].pedido # k
    BY <1>0, <2>1 DEF PapeisInv, Movendo, SemCopia
  <2>4. \A t \in Sessoes : t = s \/ sessao'[t] = sessao[t]
    BY <2>1 DEF OutrasSessoes
  <2>5. ASSUME NEW i \in Pedidos PROVE Conta(i)'
    <3>1. /\ Conta(i) /\ QuantasDe(i)' = QuantasDe(i) /\ QuantasDe(i) \in Nat
          /\ \A j : QuantasSem(i, j)' = QuantasSem(i, j) /\ QuantasSem(i, j) \in Nat
      BY <1>0, <2>1 DEF QuantasDe, QuantasSem
    <3>2. CASE i # k
      <4>1. pedido'[i] = pedido[i] /\ copia'[i] = copia[i]
        BY <2>1, <2>2, <3>2 DEF OutrosPedidos
      <4>2. \A t \in Sessoes : SemCopia(t, i)' <=> SemCopia(t, i)
        BY <2>1, <2>4, <3>2 DEF SemCopia
      <4> QED BY <1>0, <2>1, <2>4, <3>1, <4>1, <4>2 DEF Conta, SemCopia
    <3>3. CASE i = k
      <4>1. \A t \in Sessoes : ~SemCopia(t, k)' /\ ~(sessao'[t].fase = "revertendo" /\ sessao'[t].pedido = k)
        BY <2>1, <2>3, <2>4 DEF SemCopia
      <4>2. QuantasDe(k) <= falhas + 1 /\ QuantasSem(k, sessao[s].linha) <= falhas
        BY <2>3, <3>1, <3>3 DEF Conta
      <4>3. QuantasDe(k)' <= falhas' + 1 /\ QuantasSem(k, pedido[k].linha)' <= falhas'
        BY <1>0, <2>1, <3>1, <3>3, <4>2
      <4>4. ~(copia'[k] # {} /\ "linha" \notin copia'[k])
        BY <2>2, <2>3 DEF Colunas
      <4> QED BY <2>1, <3>3, <4>1, <4>3, <4>4 DEF Conta
    <3> QED BY <3>2, <3>3
  <2> QED BY <1>e, <2>1, <2>5 DEF ContaInv
<1>9. ASSUME NEW s \in Sessoes, NEW k \in Pedidos, ReverterComeca(s, k) PROVE ContaInv'
  <2>1. /\ UNCHANGED <<historico, pedido, copia, falhas>> /\ sessao[s].fase = "livre"
        /\ copia[k] # {} /\ OutrasSessoes(s) /\ sessao'[s].fase = "revertendo"
        /\ sessao'[s].pedido = k /\ sessao'[s].colunas = copia[k]
    BY <1>9, EfeitoComeca DEF quadroVars
  <2>2. /\ \A t \in Sessoes : t = s \/ sessao'[t] = sessao[t]
        /\ \A i : \A t \in Sessoes : SemCopia(t, i)' <=> SemCopia(t, i) /\ t # s
    BY <2>1 DEF OutrasSessoes, SemCopia
  <2>3. ASSUME NEW i \in Pedidos PROVE Conta(i)'
    <3>1. Conta(i) /\ QuantasDe(i)' = QuantasDe(i) /\ \A j : QuantasSem(i, j)' = QuantasSem(i, j)
      BY <1>0, <2>1 DEF QuantasDe, QuantasSem
    <3>2. \A t \in Sessoes : SemCopia(t, i) => sessao[t].fase = "semCopia"
      BY DEF SemCopia
    <3> QED BY <2>1, <2>2, <3>1, <3>2 DEF Conta
  <2> QED BY <1>e, <2>1, <2>3 DEF ContaInv
<1>10. ASSUME NEW s \in Sessoes, NEW c \in Colunas, NEW m \in BOOLEAN,
              ReverterColuna(s, c, m)
       PROVE  ContaInv'
  <2> PICK k : k = sessao[s].pedido
    OBVIOUS
  <2>1. /\ UNCHANGED pedido /\ sessao[s].fase = "revertendo" /\ k \in Pedidos
        /\ OutrasSessoes(s) /\ sessao'[s].fase = "revertendo" /\ sessao'[s].pedido = k
        /\ sessao'[s].colunas = sessao[s].colunas \ {c}
        /\ falhas' \in Nat /\ falhas <= falhas'
    BY <1>0, <1>10, EfeitoReverte
  <2>2. /\ \A i \in Pedidos \ {k} : copia'[i] = copia[i]
        /\ copia'[k] = copia[k] \/ copia'[k] = copia[k] \ {c}
    BY <1>10, EfeitoReverte
  <2>3. /\ historico' \subseteq historico
        /\ \/ c = "linha" /\ historico' = {r \in historico : r.id # pedido[k].linha}
           \/ c # "linha" /\ "linha" \notin sessao[s].colunas
    BY <1>10, EfeitoReverte
  <2>4. /\ \A t \in Sessoes : t = s \/ sessao'[t] = sessao[t]
        /\ \A i : \A t \in Sessoes : SemCopia(t, i)' <=> SemCopia(t, i) /\ t # s
    BY <2>1 DEF OutrasSessoes, SemCopia
  <2>5. /\ pedido[k].fase \in {"executado", "revertido"}
        /\ \A t \in Sessoes : ~SemCopia(t, k)
    BY <1>0, <2>1 DEF PapeisInv, SemCopia, Movendo
  <2>6. QuantasDe(k)' <= falhas
    <3>1. CASE c = "linha"
      <4>1. DoPedido(historico', k) = Outras(historico, k, pedido[k].linha)
        BY <2>3, <3>1 DEF DoPedido, Outras
      <4>2. QuantasDe(k)' = QuantasSem(k, pedido[k].linha)
        BY <4>1 DEF QuantasDe, QuantasSem
      <4>3. pedido[k].fase = "executado" => QuantasSem(k, pedido[k].linha) <= falhas
        BY <1>0, <2>1 DEF Conta
      <4>4. pedido[k].fase # "executado" => QuantasDe(k) <= falhas
        BY <1>0, <2>1, <2>5 DEF Conta
      <4>5. QuantasDe(k)' <= QuantasDe(k) /\ QuantasDe(k)' \in Nat
        BY <1>e, <2>3
      <4>6. QuantasDe(k) \in Nat /\ falhas \in Nat
        BY <1>0
      <4> QED BY <4>2, <4>3, <4>4, <4>5, <4>6
    <3>2. CASE c # "linha"
      <4>1. "linha" \notin sessao[s].colunas
        BY <2>3, <3>2
      <4>2. QuantasDe(k) <= falhas
        BY <1>0, <2>1, <4>1 DEF Conta
      <4>3. QuantasDe(k)' <= QuantasDe(k) /\ QuantasDe(k)' \in Nat
        BY <1>e, <2>3
      <4> QED BY <1>0, <4>2, <4>3
    <3> QED BY <3>1, <3>2
  <2>7. ASSUME NEW i \in Pedidos PROVE Conta(i)'
    <3>1. /\ Conta(i) /\ QuantasDe(i)' <= QuantasDe(i) /\ QuantasDe(i)' \in Nat
          /\ QuantasDe(i) \in Nat
          /\ \A j : /\ QuantasSem(i, j)' <= QuantasSem(i, j) /\ QuantasSem(i, j)' \in Nat
                   /\ QuantasSem(i, j) \in Nat
      BY <1>0, <1>e, <2>3
    <3>2. CASE i # k
      <4>1. copia'[i] = copia[i] /\ pedido'[i] = pedido[i]
        BY <2>1, <2>2, <3>2
      <4>2. \A t \in Sessoes : sessao'[t].pedido = i => sessao'[t] = sessao[t]
        BY <2>1, <2>4, <3>2
      <4> QED BY <1>0, <2>1, <2>4, <3>1, <4>1, <4>2 DEF Conta, SemCopia
    <3>3. CASE i = k
      <4>1. QuantasDe(k)' <= falhas' /\ QuantasDe(k)' \in Nat
        BY <1>0, <2>1, <2>6, <3>1, <3>3
      <4>2. QuantasSem(k, pedido[k].linha)' <= QuantasDe(k)'
        <5>1. IsFiniteSet(DoPedido(historico', k))
              /\ Outras(historico', k, pedido'[k].linha) \subseteq DoPedido(historico', k)
          BY <1>e, <2>3, FS_Subset DEF DoPedido, Outras
        <5> QED BY <5>1, FS_Subset DEF QuantasDe, QuantasSem
      <4>3. QuantasSem(k, pedido[k].linha)' \in Nat
        BY <1>e, <2>3
      <4>4. \A t \in Sessoes : ~SemCopia(t, k)'
        BY <2>4, <2>5
      <4> QED BY <2>1, <3>3, <4>1, <4>2, <4>3, <4>4 DEF Conta
    <3> QED BY <3>2, <3>3
  <2> QED BY <1>e, <2>3, <2>7 DEF ContaInv
<1>11. ASSUME NEW s \in Sessoes, ReverterTermina(s) PROVE ContaInv'
  <2> PICK k : k = sessao[s].pedido
    OBVIOUS
  <2>1. /\ UNCHANGED <<historico, copia, falhas>> /\ sessao[s].fase = "revertendo"
        /\ sessao[s].colunas = {} /\ OutrasSessoes(s) /\ sessao'[s].fase = "livre"
        /\ k \in Pedidos /\ OutrosPedidos(k) /\ pedido'[k].fase = "revertido"
    BY <1>0, <1>11, EfeitoTermina DEF quadroVars
  <2>2. QuantasDe(k) <= falhas
    BY <1>0, <2>1 DEF Conta
  <2>3. \A t \in Sessoes : \/ sessao'[t].fase \notin {"semCopia", "revertendo"}
                           \/ sessao'[t] = sessao[t]
    BY <2>1 DEF OutrasSessoes
  <2>4. /\ pedido[k].fase \in {"executado", "revertido"}
        /\ \A t \in Sessoes : ~SemCopia(t, k)
    BY <1>0, <2>1 DEF PapeisInv, SemCopia, Movendo
  <2>5. \A i : \A t \in Sessoes : SemCopia(t, i)' <=> SemCopia(t, i)
    BY <2>1 DEF OutrasSessoes, SemCopia
  <2>6. ASSUME NEW i \in Pedidos PROVE Conta(i)'
    <3>1. Conta(i) /\ QuantasDe(i)' = QuantasDe(i) /\ \A j : QuantasSem(i, j)' = QuantasSem(i, j)
      BY <1>0, <2>1 DEF QuantasDe, QuantasSem
    <3>2. CASE i # k
      <4>1. pedido'[i] = pedido[i]
        BY <2>1, <3>2 DEF OutrosPedidos
      <4>2. \A t \in Sessoes : SemCopia(t, i)' =>
              SemCopia(t, i) /\ sessao'[t].linha = sessao[t].linha
        BY <2>3, <2>5 DEF SemCopia
      <4> QED BY <2>1, <2>3, <2>5, <3>1, <4>1, <4>2 DEF Conta
    <3>3. CASE i = k
      BY <2>1, <2>2, <2>4, <2>5, <3>1, <3>3 DEF Conta
    <3> QED BY <3>2, <3>3
  <2> QED BY <1>e, <2>1, <2>6 DEF ContaInv
<1>12. ASSUME NEW k \in Pedidos, NEW p \in Destinos, MontarMov(k, p) PROVE ContaInv'
  <2>1. /\ UNCHANGED <<historico, copia, sessao, falhas>> /\ pedido[k].fase = "nenhum"
        /\ OutrosPedidos(k) /\ pedido'[k].fase = "previa"
    BY <1>12, EfeitoMonta DEF quadroVars
  <2>2. \A t \in Sessoes : ~SemCopia(t, k)
    BY <1>0, <2>1 DEF PapeisInv, SemCopia, Movendo
  <2>3. ASSUME NEW i \in Pedidos PROVE Conta(i)'
    <3>1. Conta(i) /\ QuantasDe(i)' = QuantasDe(i) /\ \A j : QuantasSem(i, j)' = QuantasSem(i, j)
      BY <1>0, <2>1 DEF QuantasDe, QuantasSem
    <3>2. CASE i # k
      <4>1. pedido'[i] = pedido[i]
        BY <2>1, <3>2 DEF OutrosPedidos
      <4> QED BY <2>1, <3>1, <4>1 DEF Conta, SemCopia
    <3>3. CASE i = k
      BY <2>1, <2>2, <3>1, <3>3 DEF Conta, SemCopia
    <3> QED BY <3>2, <3>3
  <2> QED BY <1>e, <2>1, <2>3 DEF ContaInv
<1>13. ASSUME UNCHANGED <<pedido, copia, sessao, falhas>>, historico' \subseteq historico
       PROVE  ContaInv'
  <2>1. ASSUME NEW i \in Pedidos PROVE Conta(i)'
    <3>1. /\ Conta(i) /\ falhas \in Nat
          /\ QuantasDe(i) \in Nat /\ QuantasDe(i)' \in Nat /\ QuantasDe(i)' <= QuantasDe(i)
          /\ \A j : /\ QuantasSem(i, j) \in Nat /\ QuantasSem(i, j)' \in Nat
                   /\ QuantasSem(i, j)' <= QuantasSem(i, j)
      BY <1>0, <1>e, <1>13
    <3>2. \A t \in Sessoes : SemCopia(t, i)' <=> SemCopia(t, i)
      BY <1>13 DEF SemCopia
    <3>3. /\ \A n : QuantasDe(i) <= n /\ n \in Nat => QuantasDe(i)' <= n
          /\ \A j, n : QuantasSem(i, j) <= n /\ n \in Nat => QuantasSem(i, j)' <= n
      BY <3>1
    <3> QED BY SMTT(30), <1>13, <3>1, <3>2, <3>3 DEF Conta
  <2> QED BY <1>e, <1>13, <2>1 DEF ContaInv
<1>14. CASE OutroEscritor
  <2>0. UNCHANGED <<pedido, copia, sessao, falhas>>
    BY <1>14, EfeitoOutro
  <2>1. ASSUME NEW n, n.pedido = 0, historico' = historico \cup {n} PROVE ContaInv'
    <3>1. /\ IsFiniteSet(historico \cup {n})
          /\ \A i : i # 0 => /\ DoPedido(historico \cup {n}, i) = DoPedido(historico, i)
                            /\ \A j : Outras(historico \cup {n}, i, j) = Outras(historico, i, j)
      BY <2>1, MaisUma DEF ContaInv
    <3>2. \A i \in Pedidos : /\ QuantasDe(i)' = QuantasDe(i)
                            /\ \A j : QuantasSem(i, j)' = QuantasSem(i, j)
      BY <1>0, <2>1, <3>1 DEF QuantasDe, QuantasSem
    <3>3. ASSUME NEW i \in Pedidos PROVE Conta(i)'
      <4>1. Conta(i) /\ QuantasDe(i)' = QuantasDe(i) /\ \A j : QuantasSem(i, j)' = QuantasSem(i, j)
        BY <1>0, <3>2
      <4>2. \A t \in Sessoes : SemCopia(t, i)' <=> SemCopia(t, i)
        BY <2>0 DEF SemCopia
      <4> QED BY <2>0, <4>1, <4>2 DEF Conta
    <3> QED BY <2>1, <3>1, <3>3 DEF ContaInv
  <2> QED BY <1>13, <1>14, <2>0, <2>1, EfeitoOutro
<1>15. CASE UNCHANGED vars
  BY <1>13, <1>15 DEF vars, quadroVars
<1> QED BY <1>1, <1>2, <1>3, <1>4, <1>5, <1>6, <1>7, <1>8, <1>9, <1>10, <1>11,
      <1>12, <1>14, <1>15
      DEF Next, PassoDoNucleo, PassoDoQuadro, PassoDoChat, PassoDaReversao

(* A request asked once in the chat leaves one movement, and none once it is *)
(* reverted, whatever the board, the other writers and the reversals do      *)
(* meanwhile; each failure costs at most one row more.                       *)
THEOREM MovUmaLinhaPorPedido == Spec => []UmaLinhaPorPedido
PROOF
<1>1. ASSUME TipoInv, PapeisInv, ContaInv PROVE UmaLinhaPorPedido
  <2>1. ASSUME NEW k \in Pedidos
        PROVE  QuantasDe(k) <= falhas + IF pedido[k].fase = "revertido" THEN 0 ELSE 1
    <3>1. Conta(k) /\ QuantasDe(k) \in Nat /\ falhas \in Nat
      BY <1>1, Encolhe, ConstantesOK DEF ContaInv, QuantasDe, TipoInv, Tipos
    <3>2. pedido[k].fase = "revertido" => \A s \in Sessoes : ~SemCopia(s, k)
      BY <1>1, ConstantesOK DEF PapeisInv, SemCopia, Movendo, Pedidos
    <3>3. CASE pedido[k].fase = "revertido"
      BY <3>1, <3>2, <3>3 DEF Conta
    <3>4. CASE pedido[k].fase # "revertido"
      <4>1. QuantasDe(k) <= falhas \/ QuantasDe(k) <= falhas + 1
        BY <3>1 DEF Conta
      <4> QED BY <3>1, <3>4, <4>1
    <3> QED BY <3>3, <3>4
  <2> QED BY <2>1 DEF UmaLinhaPorPedido, QuantasDe, DoPedido
<1>2. TipoInv /\ PapeisInv /\ ContaInv => UmaLinhaPorPedido
  BY <1>1
<1> QED BY <1>2, TipoInicial, TipoPasso, PapeisInicial, PapeisPasso, ContaInicial, ContaPasso,
      PTL DEF Spec
-----------------------------------------------------------------------------
(* One call at a time                                                        *)

LEMMA SerialInicial == Init => SerialInv
  BY DEF Init, SerialInv, SessaoSerial, LinhasDaPrevia, Livre, NoNucleo

LEMMA SerialPasso ==
  ASSUME UmaChamada, SemAvulsos
  PROVE  TipoInv /\ PapeisInv /\ SerialInv /\ [Next]_vars => SerialInv'
PROOF
<1> SUFFICES ASSUME Tipos, SessaoBem, PapeisInv, SerialInv, [Next]_vars PROVE SerialInv'
  BY DEF TipoInv
<1>0. /\ sessao \in [Sessoes -> Sessao] /\ pedido \in [Pedidos -> Pedido]
      /\ historico \subseteq Linhas /\ Livre.fase = "livre" /\ Livre.pedido = 0
      /\ \A s \in Sessoes : sessao[s].pedido # 0 => sessao[s].pedido \in Pedidos
      /\ \A r \in historico : r.pedido # 0 => r.pedido \in Pedidos
  BY ConstantesOK DEF Tipos, Livre, Sessao, Pedidos, Linhas
<1>u. \A s, t \in Sessoes : s = t
  BY DEF UmaChamada
\* what a request shows does not change once it is shown
<1>a. ASSUME historico' \subseteq historico,
             \A k \in Pedidos : pedido[k].fase # "nenhum" =>
               pedido'[k].fase # "nenhum" /\ pedido'[k].antes = pedido[k].antes
      PROVE  LinhasDaPrevia'
  BY <1>0, <1>a DEF SerialInv, LinhasDaPrevia
<1>1. ASSUME NEW s \in Sessoes, LeSnapshot(s) PROVE SerialInv'
  <2>1. UNCHANGED processo /\ historico' \subseteq historico
    BY <1>1, EfeitoLe DEF quadroVars
  <2>2. ASSUME NEW k \in Pedidos
        PROVE  \/ pedido'[k] = pedido[k]
               \/ pedido'[k].fase = "revisao" /\ pedido'[k].antes = pedido[k].antes
    BY <1>1, EfeitoLe DEF OutrosPedidos, MesmosDados
  <2>3. LinhasDaPrevia'
    BY <1>a, <2>1, <2>2
  <2>4. SessaoSerial(s)'
    <3>1. CASE sessao'[s] = Livre
      BY <1>0, <3>1 DEF SessaoSerial, NoNucleo
    <3>2. CASE sessao'[s] # Livre
      <4>1. /\ sessao[s].fase = "chamou" /\ UNCHANGED pedido /\ sessao'[s].fase = "leu"
            /\ sessao'[s].pedido = sessao[s].pedido /\ sessao'[s].de = processo
        BY <1>1, <3>2, EfeitoLe
      <4>2. SessaoSerial(s)
        BY DEF SerialInv
      <4> QED BY <2>1, <4>1, <4>2 DEF SessaoSerial, NoNucleo
    <3> QED BY <3>1, <3>2
  <2> QED BY <1>u, <2>3, <2>4 DEF SerialInv
<1>2. ASSUME NEW s \in Sessoes, InsereLinha(s) PROVE SerialInv'
  <2>1. /\ UNCHANGED <<processo, historico, pedido>> /\ sessao[s].fase = "leu"
        /\ sessao'[s].fase = "inseriu" /\ sessao'[s].pedido = sessao[s].pedido
        /\ sessao'[s].de = sessao[s].de
    BY <1>2, EfeitoInsere
  <2>2. SessaoSerial(s)
    BY DEF SerialInv
  <2> QED BY <1>a, <1>u, <2>1, <2>2 DEF SerialInv, SessaoSerial, NoNucleo
<1>3. ASSUME NEW s \in Sessoes, Efetiva(s) PROVE SerialInv'
  <2> PICK n : n = [id |-> sessao[s].linha, tipo |-> "manual", de |-> sessao[s].de,
                    para |-> sessao[s].para, pedido |-> sessao[s].pedido]
    OBVIOUS
  <2>1. /\ UNCHANGED pedido /\ sessao[s].fase = "inseriu" /\ historico' = historico \cup {n}
        /\ n.de = sessao[s].de /\ n.pedido = sessao[s].pedido
        /\ sessao'[s].fase \in {"livre", "semCopia"}
        /\ sessao'[s].pedido # 0 => sessao'[s].pedido = sessao[s].pedido
    BY <1>0, <1>3, EfeitoEfetiva
  <2>2. SessaoSerial(s)
    BY DEF SerialInv
  <2>3. LinhasDaPrevia'
    BY <2>1, <2>2 DEF SerialInv, LinhasDaPrevia, SessaoSerial, NoNucleo
  <2>4. SessaoSerial(s)'
    BY <2>1, <2>2 DEF SessaoSerial, NoNucleo
  <2> QED BY <1>u, <2>3, <2>4 DEF SerialInv
<1>4. ASSUME NEW s \in Sessoes, Desiste(s) PROVE SerialInv'
  <2>1. UNCHANGED <<historico, pedido>> /\ sessao'[s] = Livre
    BY <1>4, EfeitoDesiste DEF quadroVars
  <2> QED BY <1>0, <1>a, <1>u, <2>1 DEF SerialInv, SessaoSerial, NoNucleo
<1>5. ASSUME NEW s \in Sessoes, NEW p \in Destinos, MovimentarPede(s, p) PROVE SerialInv'
  <2>1. /\ UNCHANGED <<historico, pedido>> /\ sessao'[s].pedido = 0
        /\ sessao'[s].fase \in {"chamou", "ausente"}
    BY <1>5, EfeitoPede DEF quadroVars
  <2> QED BY <1>a, <1>u, <2>1 DEF SerialInv, SessaoSerial
<1>6. ASSUME NEW s \in Sessoes, CriarProcessoDeRequisicao(s) PROVE SerialInv'
  <2>1. /\ UNCHANGED <<historico, pedido>> /\ sessao'[s].pedido = 0
        /\ sessao'[s].fase \in {"chamou", "livre"}
    BY <1>0, <1>6, EfeitoCria DEF PapeisInv
  <2> QED BY <1>a, <1>u, <2>1 DEF SerialInv, SessaoSerial
<1>7. ASSUME NEW s \in Sessoes, NEW k \in Pedidos, ExecutorConfere(s, k) PROVE SerialInv'
  <2>1. /\ UNCHANGED <<processo, historico>> /\ sessao[s].fase = "livre"
        /\ pedido[k].fase = "previa"
    BY <1>7, EfeitoConfere DEF quadroVars
  <2>2. CASE /\ processo = pedido[k].antes /\ UNCHANGED pedido
             /\ sessao'[s].fase = "chamou" /\ sessao'[s].pedido = k
    BY <1>a, <1>u, <2>1, <2>2 DEF SerialInv, SessaoSerial
  <2>3. CASE UNCHANGED sessao /\ OutrosPedidos(k) /\ pedido'[k].fase = "revisao" /\ MesmosDados(k)
    <3>1. ASSUME NEW i \in Pedidos
          PROVE  pedido'[i] = pedido[i]
                 \/ (pedido'[i].fase = "revisao" /\ pedido'[i].antes = pedido[i].antes)
      BY <2>3 DEF OutrosPedidos, MesmosDados
    <3>2. LinhasDaPrevia'
      BY <1>a, <2>1, <3>1
    <3>3. SessaoSerial(s) /\ sessao'[s] = sessao[s]
      BY <2>3 DEF SerialInv
    <3>4. SessaoSerial(s)'
      BY <1>0, <2>1, <3>1, <3>3 DEF SessaoSerial, NoNucleo
    <3> QED BY <1>u, <3>2, <3>4 DEF SerialInv
  <2> QED BY <1>7, <2>2, <2>3, EfeitoConfere
<1>8. ASSUME NEW s \in Sessoes, NEW g \in BOOLEAN, ExecutorCopia(s, g) PROVE SerialInv'
  <2>1. /\ UNCHANGED historico /\ sessao'[s] = Livre
        /\ \A k \in Pedidos : pedido'[k] = pedido[k]
              \/ (pedido'[k].fase = "executado" /\ pedido'[k].antes = pedido[k].antes)
    BY <1>8, EfeitoCopia DEF quadroVars, OutrosPedidos, MesmosDados
  <2> QED BY <1>0, <1>a, <1>u, <2>1 DEF SerialInv, SessaoSerial, NoNucleo
<1>9. ASSUME NEW s \in Sessoes, NEW k \in Pedidos, ReverterComeca(s, k) PROVE SerialInv'
  <2>1. /\ UNCHANGED <<historico, pedido>> /\ pedido[k].fase # "nenhum"
        /\ sessao'[s].fase = "revertendo" /\ sessao'[s].pedido = k
    BY <1>9, EfeitoComeca DEF quadroVars, PapeisInv
  <2> QED BY <1>a, <1>u, <2>1 DEF SerialInv, SessaoSerial, NoNucleo
<1>10. ASSUME NEW s \in Sessoes, NEW c \in Colunas, NEW m \in BOOLEAN,
              ReverterColuna(s, c, m)
       PROVE  SerialInv'
  <2>1. /\ UNCHANGED pedido /\ historico' \subseteq historico
        /\ sessao'[s].fase = "revertendo" /\ sessao'[s].pedido = sessao[s].pedido
    BY <1>10, EfeitoReverte
  <2>2. SessaoSerial(s)
    BY DEF SerialInv
  <2> QED BY <1>a, <1>u, <2>1, <2>2 DEF SerialInv, SessaoSerial, NoNucleo
<1>11. ASSUME NEW s \in Sessoes, ReverterTermina(s) PROVE SerialInv'
  <2>1. /\ UNCHANGED historico /\ sessao'[s] = Livre
        /\ \A k \in Pedidos : pedido'[k] = pedido[k]
              \/ (pedido'[k].fase = "revertido" /\ pedido'[k].antes = pedido[k].antes)
    BY <1>11, EfeitoTermina DEF quadroVars, OutrosPedidos, MesmosDados
  <2> QED BY <1>0, <1>a, <1>u, <2>1 DEF SerialInv, SessaoSerial, NoNucleo
<1>12. ASSUME NEW k \in Pedidos, NEW p \in Destinos, MontarMov(k, p) PROVE SerialInv'
  <2>1. /\ UNCHANGED <<processo, historico, sessao>> /\ pedido[k].fase = "nenhum"
        /\ \A i \in Pedidos : pedido[i].fase # "nenhum" => pedido'[i] = pedido[i]
    BY <1>12, EfeitoMonta DEF quadroVars, OutrosPedidos
  <2>2. ASSUME NEW t \in Sessoes PROVE SessaoSerial(t)'
    <3>1. SessaoSerial(t)
      BY DEF SerialInv
    <3> QED BY <1>0, <2>1, <3>1 DEF SessaoSerial
  <2> QED BY <1>a, <2>1, <2>2 DEF SerialInv
<1>13. CASE OutroEscritor
  <2>1. UNCHANGED <<processo, pedido, sessao>> /\ historico' \subseteq historico
    BY <1>13 DEF OutroEscritor, SalvarEncerramento, SalvarDeferimento,
      AtualizarProcessoCompleto, MovimentarProcesso, UpdateRequisicaoCompleta,
      AdminDeleteHistorico, SemAvulsos
  <2> QED BY <1>a, <2>1 DEF SerialInv, SessaoSerial
<1>14. CASE UNCHANGED vars
  BY <1>14 DEF vars, quadroVars, SerialInv, SessaoSerial, LinhasDaPrevia
<1> QED BY <1>1, <1>2, <1>3, <1>4, <1>5, <1>6, <1>7, <1>8, <1>9, <1>10, <1>11,
      <1>12, <1>13, <1>14
      DEF Next, PassoDoNucleo, PassoDoQuadro, PassoDoChat, PassoDaReversao

(* One call at a time, the executor moves a process only from the state the  *)
(* preview showed, reversals and deletions of history rows included.         *)
THEOREM MovExecutaAPrevia ==
  ASSUME UmaChamada, SemAvulsos
  PROVE  Spec => []ExecutaAPrevia
PROOF
<1>1. SerialInv => ExecutaAPrevia
  BY DEF SerialInv, LinhasDaPrevia, ExecutaAPrevia
<1> QED BY <1>1, TipoInicial, TipoPasso, PapeisInicial, PapeisPasso, SerialInicial, SerialPasso,
      PTL DEF Spec
-----------------------------------------------------------------------------
(* The board, one call at a time                                             *)

LEMMA NucleoInicial == Init => NucleoInv
  BY DEF Init, NucleoInv, SessaoNucleo, Livre, SemPedido

LEMMA NucleoPasso ==
  ASSUME UmaChamada, SoMovimentos
  PROVE  TipoInv /\ IdsUnicos /\ NucleoInv /\ [Next]_vars => NucleoInv'
PROOF
<1> SUFFICES ASSUME Tipos, SessaoBem, IdsUnicos, NucleoInv, [Next]_vars PROVE NucleoInv'
  BY DEF TipoInv
<1>0. Livre.fase = "livre"
  BY DEF Livre
<1>u. \A s, t \in Sessoes : s = t
  BY DEF UmaChamada
\* what is left to show once there is a process
<1>e. ASSUME NEW s \in Sessoes, existe', SessaoNucleo(s)' PROVE NucleoInv'
  BY <1>e, <1>u DEF NucleoInv
<1>a. ASSUME NEW s \in Sessoes, UNCHANGED <<existe, processo, pedido>>,
             historico' \subseteq historico, SessaoNucleo(s)'
      PROVE  NucleoInv'
  BY <1>a, <1>u DEF NucleoInv
<1>1. ASSUME NEW s \in Sessoes, LeSnapshot(s) PROVE NucleoInv'
  <2>1. /\ UNCHANGED <<existe, processo, historico>> /\ sessao[s].fase = "chamou"
        /\ \/ sessao'[s].fase = "livre"
           \/ /\ sessao'[s].fase = "leu" /\ sessao'[s].para = Q!Congela(sessao[s].para)
              /\ Q!Valida(processo, sessao'[s].para)
    BY <1>0, <1>1, EfeitoLe DEF quadroVars
  <2>2. existe
    BY <2>1 DEF NucleoInv, SessaoNucleo
  <2>3. sessao'[s].fase = "leu" => sessao'[s].para = Q!Congela(sessao'[s].para)
    BY <2>1, CongelaDuas
  <2>4. SessaoNucleo(s)'
    <3>1. CASE sessao'[s].fase = "livre"
      BY <3>1 DEF SessaoNucleo
    <3>2. CASE sessao'[s].fase = "leu"
      <4>1. Q!Valida(processo, sessao'[s].para) /\ processo' = processo
        BY <2>1, <3>2
      <4>2. Q!Valida(processo', sessao'[s].para)
        BY <4>1
      <4> QED BY <2>1, <2>2, <2>3, <3>2, <4>2 DEF SessaoNucleo
    <3> QED BY <2>1, <3>1, <3>2
  <2> QED BY <1>e, <2>1, <2>2, <2>4
<1>2. ASSUME NEW s \in Sessoes, InsereLinha(s) PROVE NucleoInv'
  <2>1. /\ UNCHANGED <<existe, processo, historico, pedido>> /\ sessao[s].fase = "leu"
        /\ sessao'[s].fase = "inseriu" /\ sessao'[s].para = sessao[s].para
        /\ sessao'[s].linha = proxLinha
    BY <1>2, EfeitoInsere
  <2>2. (\A r \in historico : r.id < proxLinha) /\ SessaoNucleo(s)
    BY DEF IdsUnicos, NucleoInv
  <2>3. Q!Valida(processo', sessao'[s].para) /\ sessao'[s].para = Q!Congela(sessao'[s].para)
    BY <2>1, <2>2 DEF SessaoNucleo
  <2> QED BY <1>a, <2>1, <2>2, <2>3 DEF SessaoNucleo
<1>3. ASSUME NEW s \in Sessoes, Efetiva(s) PROVE NucleoInv'
  <2>1. UNCHANGED existe /\ sessao[s].fase = "inseriu"
        /\ sessao'[s].fase \in {"livre", "semCopia"}
    BY <1>0, <1>3, EfeitoEfetiva
  <2>2. existe
    BY <2>1 DEF NucleoInv, SessaoNucleo
  <2> QED BY <1>e, <2>1, <2>2 DEF SessaoNucleo
<1>4. ASSUME NEW s \in Sessoes, Desiste(s) PROVE NucleoInv'
  <2>1. UNCHANGED <<existe, processo, historico, pedido>> /\ sessao'[s].fase = "livre"
    BY <1>0, <1>4, EfeitoDesiste DEF quadroVars
  <2> QED BY <1>a, <2>1 DEF SessaoNucleo
<1>5. ASSUME NEW s \in Sessoes, NEW p \in Destinos, MovimentarPede(s, p) PROVE NucleoInv'
  <2>1. UNCHANGED <<existe, processo, historico, pedido>>
        /\ sessao'[s].fase = IF existe THEN "chamou" ELSE "ausente"
    BY <1>5, EfeitoPede DEF quadroVars
  <2> QED BY <1>a, <2>1 DEF SessaoNucleo
<1>6. ASSUME NEW s \in Sessoes, CriarProcessoDeRequisicao(s) PROVE NucleoInv'
  <2>1. existe' /\ sessao'[s].fase \in {"livre", "chamou"}
    BY <1>0, <1>6, EfeitoCria
  <2> QED BY <1>e, <2>1 DEF SessaoNucleo
<1>7. ASSUME NEW s \in Sessoes, NEW k \in Pedidos, ExecutorConfere(s, k) PROVE NucleoInv'
  <2>1. /\ UNCHANGED <<existe, processo, historico>> /\ pedido[k].fase = "previa"
        /\ sessao[s].fase = "livre" /\ sessao'[s].fase \in {"chamou", "livre"}
    BY <1>7, EfeitoConfere DEF quadroVars
  <2>2. existe
    BY <2>1 DEF NucleoInv
  <2> QED BY <1>e, <2>1, <2>2 DEF SessaoNucleo
<1>8. ASSUME NEW s \in Sessoes, NEW g \in BOOLEAN, ExecutorCopia(s, g) PROVE NucleoInv'
  <2>1. UNCHANGED existe /\ sessao[s].fase = "semCopia" /\ sessao'[s].fase = "livre"
    BY <1>0, <1>8, EfeitoCopia DEF quadroVars
  <2>2. existe
    BY <2>1 DEF NucleoInv, SessaoNucleo
  <2> QED BY <1>e, <2>1, <2>2 DEF SessaoNucleo
<1>9. ASSUME NEW s \in Sessoes, PassoDaReversao(s) PROVE NucleoInv'
  BY <1>9 DEF PassoDaReversao, ReverterComeca, ReverterColuna, ReverterTermina, SoMovimentos,
    NucleoInv, SessaoNucleo
<1>10. ASSUME NEW k \in Pedidos, NEW p \in Destinos, MontarMov(k, p) PROVE NucleoInv'
  <2>1. existe /\ UNCHANGED <<existe, processo, historico, sessao>>
    BY <1>10, EfeitoMonta DEF quadroVars
  <2> QED BY <2>1 DEF NucleoInv, SessaoNucleo
<1>11. CASE OutroEscritor
  <2>1. UNCHANGED <<existe, processo, pedido, sessao>> /\ historico' \subseteq historico
    BY <1>11 DEF OutroEscritor, SalvarEncerramento, SalvarDeferimento,
      AtualizarProcessoCompleto, MovimentarProcesso, UpdateRequisicaoCompleta,
      AdminDeleteHistorico, SoMovimentos
  <2> QED BY <2>1 DEF NucleoInv, SessaoNucleo
<1>12. CASE UNCHANGED vars
  BY <1>12 DEF vars, quadroVars, NucleoInv, SessaoNucleo
<1> QED BY <1>1, <1>2, <1>3, <1>4, <1>5, <1>6, <1>7, <1>8, <1>9, <1>10, <1>11, <1>12
      DEF Next, PassoDoNucleo, PassoDoQuadro, PassoDoChat

\* Under the same hypotheses the process is written by a creation, while there
\* is none, or by a movement; nothing else touches it.
LEMMA QuemEscreve ==
  ASSUME UmaChamada, SoMovimentos, TipoInv, IdsUnicos, PapeisInv, SerialInv, NucleoInv, [Next]_vars
  PROVE  \/ /\ UNCHANGED <<existe, processo>> /\ historico' \subseteq historico
            /\ Escritores = {} => UNCHANGED historico
         \/ ~existe /\ existe' /\ UNCHANGED <<processo, historico>>
         \/ /\ existe /\ UNCHANGED existe
            /\ \E n \in Linhas :
                 /\ historico' = historico \cup {n} /\ \A r \in historico : r.id < n.id
                 /\ Q!Valida(processo, n.para) /\ n.para = Q!Congela(n.para)
                 /\ n.de = processo /\ processo' = n.para
PROOF
<1>0. Tipos /\ SessaoBem
  BY DEF TipoInv
<1>1. ASSUME NEW s \in Sessoes, CriarProcessoDeRequisicao(s)
      PROVE  /\ UNCHANGED historico
             /\ UNCHANGED <<existe, processo>> \/ (~existe /\ existe' /\ UNCHANGED processo)
  BY <1>0, <1>1, EfeitoCria DEF NucleoInv
<1>2. ASSUME NEW s \in Sessoes, Efetiva(s)
      PROVE  /\ existe /\ UNCHANGED existe
             /\ \E n \in Linhas :
                  /\ historico' = historico \cup {n} /\ \A r \in historico : r.id < n.id
                  /\ Q!Valida(processo, n.para) /\ n.para = Q!Congela(n.para)
                  /\ n.de = processo /\ processo' = n.para
  <2> DEFINE n == [id |-> sessao[s].linha, tipo |-> "manual", de |-> sessao[s].de,
                   para |-> sessao[s].para, pedido |-> sessao[s].pedido]
  <2>1. /\ UNCHANGED existe /\ sessao[s].fase = "inseriu" /\ processo' = n.para
        /\ historico' = historico \cup {n}
    BY <1>0, <1>2, EfeitoEfetiva
  <2>2. n \in Linhas
    <3>1. sessao[s] \in Sessao /\ sessao[s].linha \in 1..MaxLinhas
      BY <1>0, <2>1 DEF Tipos, SessaoBem
    <3> QED BY <3>1 DEF Sessao, Linhas, TiposDeLinha
  <2>3. SessaoSerial(s) /\ SessaoNucleo(s)
    BY DEF SerialInv, NucleoInv
  <2>4. /\ existe /\ \A r \in historico : r.id < n.id
        /\ Q!Valida(processo, n.para) /\ n.para = Q!Congela(n.para) /\ n.de = processo
    BY <2>1, <2>3 DEF SessaoSerial, SessaoNucleo
  <2> HIDE DEF n
  <2> QED BY <2>1, <2>2, <2>4
<1>3. ASSUME NEW s \in Sessoes, PassoDoNucleo(s), ~Efetiva(s)
      PROVE  UNCHANGED <<existe, processo, historico>>
  BY <1>3 DEF PassoDoNucleo, LeSnapshot, InsereLinha, Desiste, quadroVars
<1>4. ASSUME NEW s \in Sessoes, PassoDoQuadro(s), ~CriarProcessoDeRequisicao(s)
      PROVE  UNCHANGED <<existe, processo, historico>>
  BY <1>4 DEF PassoDoQuadro, MovimentarPede, quadroVars
<1>5. ASSUME NEW s \in Sessoes, PassoDoChat(s) PROVE UNCHANGED <<existe, processo, historico>>
  BY <1>5 DEF PassoDoChat, ExecutorConfere, ExecutorCopia, quadroVars
<1>6. ASSUME NEW s \in Sessoes, PassoDaReversao(s) PROVE FALSE
  BY <1>6 DEF PassoDaReversao, ReverterComeca, ReverterColuna, ReverterTermina, SoMovimentos,
    NucleoInv, SessaoNucleo
<1>7. ASSUME NEW k \in Pedidos, NEW p \in Destinos, MontarMov(k, p)
      PROVE  UNCHANGED <<existe, processo, historico>>
  BY <1>7 DEF MontarMov, quadroVars
<1>8. ASSUME OutroEscritor
      PROVE  /\ UNCHANGED <<existe, processo>> /\ historico' \subseteq historico
             /\ Escritores # {}
  BY <1>8 DEF OutroEscritor, SalvarEncerramento, SalvarDeferimento,
    AtualizarProcessoCompleto, MovimentarProcesso, UpdateRequisicaoCompleta,
    AdminDeleteHistorico, SoMovimentos
<1>9. CASE UNCHANGED vars
  BY <1>9 DEF vars, quadroVars
<1> QED BY <1>1, <1>2, <1>3, <1>4, <1>5, <1>6, <1>7, <1>8, <1>9
      DEF Next, PassoDoNucleo, PassoDoQuadro

(* One call at a time, a closed process stays closed.                        *)
THEOREM MovEncerramentoTerminal ==
  ASSUME UmaChamada, SoMovimentos
  PROVE  Spec => EncerramentoTerminal
PROOF
<1> DEFINE Fica == existe /\ processo.etapa = 6 => processo'.etapa = 6
<1>0. SemAvulsos
  BY DEF SoMovimentos, SemAvulsos
<1>1. ASSUME TipoInv, IdsUnicos, PapeisInv, SerialInv, NucleoInv, [Next]_vars PROVE [Fica]_vars
  BY <1>1, QuemEscreve DEF Q!Valida
<1>2. TipoInv /\ IdsUnicos /\ PapeisInv /\ SerialInv /\ NucleoInv /\ [Next]_vars => [Fica]_vars
  BY <1>1
<1>3. [][Fica]_vars => EncerramentoTerminal
  BY PTL DEF EncerramentoTerminal
<1> QED BY <1>0, <1>2, <1>3, TipoInicial, TipoPasso, IdsInicial, IdsPasso, PapeisInicial,
      PapeisPasso, SerialInicial, SerialPasso, NucleoInicial, NucleoPasso, PTL DEF Spec

\* the row with the largest id is the latest
LEMMA UltimoNovo ==
  ASSUME NEW n \in Linhas, historico \subseteq Linhas, historico' = historico \cup {n},
         \A r \in historico : r.id < n.id
  PROVE  Ultimo' = [de |-> n.de, para |-> n.para]
PROOF
<1> DEFINE H == historico \cup {n}
           r == CHOOSE x \in H : \A y \in H : y.id <= x.id
<1>1. \A x \in H : x.id \in Int
  BY DEF Linhas
<1>2. n \in H /\ \A y \in H : y.id <= n.id
  BY <1>1
<1>3. r \in H /\ \A y \in H : y.id <= r.id
  BY <1>2
<1>4. r = n
  <2>1. n.id <= r.id /\ r.id \in Int /\ n.id \in Int
    BY <1>1, <1>2, <1>3
  <2>2. r \notin historico
    BY <2>1
  <2> QED BY <1>3, <2>2
<1>5. Ultimo' = IF historico' = {} THEN [de |-> [etapa |-> 1, aprov |-> 0],
                                         para |-> [etapa |-> 1, aprov |-> 0]]
                ELSE LET x == CHOOSE z \in historico' : \A y \in historico' : y.id <= z.id
                     IN [de |-> x.de, para |-> x.para]
  BY DEF Ultimo
<1> QED BY <1>4, <1>5

LEMMA EspelhoInicial == Init => EspelhaHistorico
  BY DEF Init, EspelhaHistorico

LEMMA EspelhoPasso ==
  ASSUME UmaChamada, Escritores = {}, TipoInv, IdsUnicos, PapeisInv, SerialInv, NucleoInv,
         [Next]_vars
  PROVE  (EspelhaHistorico => EspelhaHistorico') /\ [Q!Next]_(Q!quadro)
PROOF
<1>0. SoMovimentos /\ historico \subseteq Linhas
  BY DEF SoMovimentos, TipoInv, Tipos
<1>1. CASE UNCHANGED <<existe, processo, historico>>
  <2>1. Ultimo' = Ultimo
    BY <1>1 DEF Ultimo
  <2> QED BY <1>1, <2>1 DEF EspelhaHistorico, Q!quadro
<1>2. CASE ~existe /\ existe' /\ UNCHANGED <<processo, historico>>
  <2>1. Ultimo' = Ultimo
    BY <1>2 DEF Ultimo
  <2> QED BY <1>2, <2>1 DEF EspelhaHistorico, Q!Next, Q!Criar
<1>3. ASSUME existe, UNCHANGED existe, NEW n \in Linhas, historico' = historico \cup {n},
             \A r \in historico : r.id < n.id, Q!Valida(processo, n.para),
             n.para = Q!Congela(n.para), n.de = processo, processo' = n.para
      PROVE  (EspelhaHistorico => EspelhaHistorico') /\ [Q!Next]_(Q!quadro)
  <2>1. Ultimo' = [de |-> n.de, para |-> n.para]
    BY <1>0, <1>3, UltimoNovo
  <2>2. EspelhaHistorico'
    BY <1>3, <2>1 DEF EspelhaHistorico
  <2>3. n.para \in Q!Estados
    BY DEF Linhas
  <2>4. Q!Mover
    BY <1>3, <2>1, <2>3 DEF Q!Mover
  <2> QED BY <2>2, <2>4 DEF Q!Next
<1> QED BY <1>0, <1>1, <1>2, <1>3, QuemEscreve

(* One call at a time, and no other writer: the process is where its latest  *)
(* history row left it.                                                      *)
THEOREM MovEspelhaHistorico ==
  ASSUME UmaChamada, Escritores = {}
  PROVE  Spec => []EspelhaHistorico
PROOF
<1>0. SemAvulsos /\ SoMovimentos
  BY DEF SoMovimentos, SemAvulsos
<1>1. TipoInv /\ IdsUnicos /\ PapeisInv /\ SerialInv /\ NucleoInv /\ EspelhaHistorico /\ [Next]_vars
      => EspelhaHistorico'
  BY EspelhoPasso
<1> QED BY <1>0, <1>1, TipoInicial, TipoPasso, IdsInicial, IdsPasso, PapeisInicial, PapeisPasso,
      SerialInicial, SerialPasso, NucleoInicial, NucleoPasso, EspelhoInicial, PTL DEF Spec

(* One call at a time, and no other writer: creating and moving are steps of *)
(* the board of Quadro, and nothing else is visible on it.                   *)
THEOREM MovImplementaQuadro ==
  ASSUME UmaChamada, Escritores = {}
  PROVE  Spec => ImplementaQuadro
PROOF
<1>0. SemAvulsos /\ SoMovimentos
  BY DEF SoMovimentos, SemAvulsos
<1>1. Init => Q!Init
  BY DEF Init, Ultimo, Q!Init, Q!SemLinha, Q!Inicial
<1>2. TipoInv /\ IdsUnicos /\ PapeisInv /\ SerialInv /\ NucleoInv /\ [Next]_vars
      => [Q!Next]_(Q!quadro)
  BY EspelhoPasso
<1> QED BY <1>0, <1>1, <1>2, TipoInicial, TipoPasso, IdsInicial, IdsPasso, PapeisInicial,
      PapeisPasso, SerialInicial, SerialPasso, NucleoInicial, NucleoPasso, PTL
      DEF Spec, ImplementaQuadro, Q!Spec
=============================================================================
