-------------------------- MODULE MotorCacheProofs --------------------------
(* Proofs about the cache of the deviation engine, for any number of         *)
(* requests and keys and any TTL, period and length of a scan, and about the *)
(* panels whose calculations read through it.                                *)
EXTENDS MotorCache, Painel, TLAPS

\* The lock is held exactly by whoever is between Tranca and the end of its turn.
ComTrava == \A p \in Processos : proc[p].pc \in {"dentro", "varrendo"} <=> trava = p
\* An entry is stored at most one scan after the scan began, and a scan that is
\* under way began at most one scan ago.
Relogios ==
  /\ \A k \in TodasChaves : /\ cache[k].desde <= cache[k].em /\ cache[k].em <= agora
                            /\ cache[k].em - cache[k].desde <= Varredura
  /\ \A p \in Processos : proc[p].pc = "varrendo"
       => proc[p].desde <= agora /\ agora - proc[p].desde <= Varredura
\* No request scans what the cache holds fresh.
SoVarreVelho == \A r \in Leitores : proc[r].pc = "varrendo" => ~Fresca(proc[r].chave)

IInv == /\ TypeOK /\ correcoes <= dados
        /\ ComTrava /\ Relogios /\ SoVarreVelho /\ IdadeLimitada

Procs     == [pc : {"livre", "espera", "dentro", "varrendo"}, chave : TodasChaves,
              piso : Versoes, versao : Versoes, desde : Tempo]
Respostas == [idade : Tempo, emDia : BOOLEAN]

-----------------------------------------------------------------------------
(* Facts about the forms of the state                                        *)

\* An idle process has the form of a process, and an empty entry that of one.
LEMMA FormasIniciais == Livre \in Procs /\ Vazia \in Entrada
BY ConstantesOK DEF Livre, Vazia, Procs, Entrada, Versoes, Tempo, TodasChaves, ConstantesOK

\* At the beginning nobody holds the lock and nothing is stored.
LEMMA InvInicio == Init => IInv
<1> SUFFICES ASSUME Init PROVE IInv
  OBVIOUS
<1> USE ConstantesOK DEF ConstantesOK
<1>1. TypeOK
  BY FormasIniciais DEF Init, TypeOK, Procs, Tempo, Versoes
<1>2. \A p \in Processos : proc[p].pc = "livre" /\ trava # p
  BY DEF Init, Livre
<1>3. ComTrava /\ SoVarreVelho
  BY <1>2 DEF ComTrava, SoVarreVelho, Processos
<1>4. Relogios
  BY <1>2 DEF Init, Relogios, Vazia
<1>5. IdadeLimitada /\ correcoes <= dados
  BY DEF Init, IdadeLimitada
<1> QED BY <1>1, <1>3, <1>4, <1>5 DEF IInv
-----------------------------------------------------------------------------
(* One lemma per kind of step                                                *)

\* Waiting, or taking the lock: nothing is stored and nobody begins to scan.
LEMMA InvFila ==
  ASSUME IInv, NEW p \in Processos, Tranca(p) \/ (p = Aquecedor /\ AquecedorAcorda)
  PROVE  IInv'
<1> USE ConstantesOK DEF ConstantesOK
<1>0. /\ TypeOK /\ ComTrava /\ Relogios /\ SoVarreVelho /\ proc \in [Processos -> Procs]
      /\ proc[p] \in Procs /\ proc[p].pc \in {"livre", "espera"}
  BY DEF IInv, TypeOK, Procs, Tranca, AquecedorAcorda
<1>1. \E pc \in {"espera", "dentro"} : proc' = [proc EXCEPT ![p].pc = pc]
  BY DEF Tranca, AquecedorAcorda
<1>2. /\ proc' \in [Processos -> Procs]
      /\ \A q \in Processos : q # p => proc'[q] = proc[q]
      /\ \A q \in Processos : proc'[q].pc = "varrendo" => q # p /\ proc'[q] = proc[q]
  BY <1>0, <1>1 DEF Procs
<1>3. TypeOK'
  <2>1. trava' \in Processos \cup {Ninguem} /\ proxima' \in 0..(MaxTempo + Periodo)
    BY <1>0 DEF Tranca, AquecedorAcorda, TypeOK, Tempo
  <2> QED BY <1>0, <1>2, <2>1 DEF Tranca, AquecedorAcorda, TypeOK, Procs
<1>4. ComTrava'
  <2>1. CASE Tranca(p)
    <3>1. trava = Ninguem /\ trava' = p /\ proc'[p].pc = "dentro"
      BY <1>0, <2>1 DEF Tranca
    <3> QED BY <1>0, <1>2, <3>1 DEF ComTrava
  <2>2. CASE p = Aquecedor /\ AquecedorAcorda
    <3>1. trava' = trava /\ proc'[p].pc = "espera" /\ proc[p].pc = "livre"
      BY <1>0, <2>2 DEF AquecedorAcorda
    <3> QED BY <1>0, <1>2, <3>1 DEF ComTrava
  <2> QED BY <2>1, <2>2
<1>5. Relogios'
  BY <1>0, <1>2 DEF Relogios, Tranca, AquecedorAcorda
<1>6. SoVarreVelho'
  BY <1>0, <1>2 DEF SoVarreVelho, Fresca, Tranca, AquecedorAcorda, Processos
<1>7. IdadeLimitada' /\ (correcoes <= dados)'
  BY DEF IInv, IdadeLimitada, Tranca, AquecedorAcorda
<1> QED BY <1>3, <1>4, <1>5, <1>6, <1>7 DEF IInv

\* The holder of the lock begins to scan: a request only after it has seen that
\* the cache holds nothing fresh.
LEMMA InvComeca ==
  ASSUME IInv, NEW p \in Processos, proc[p].pc = "dentro", Comeca(p),
         p \in Leitores => ~Fresca(proc[p].chave),
         UNCHANGED <<agora, dados, correcoes, corrigido, cache, trava, proxima, resposta>>
  PROVE  IInv'
<1> USE ConstantesOK DEF ConstantesOK
<1>0. /\ TypeOK /\ ComTrava /\ Relogios /\ SoVarreVelho /\ proc \in [Processos -> Procs]
      /\ proc[p] \in Procs /\ dados \in Versoes /\ agora \in Tempo
  BY DEF IInv, TypeOK, Procs
<1>1. /\ proc' \in [Processos -> Procs]
      /\ \A q \in Processos : q # p => proc'[q] = proc[q]
      /\ proc'[p].pc = "varrendo" /\ proc'[p].desde = agora /\ proc'[p].chave = proc[p].chave
  BY <1>0 DEF Comeca, Procs
<1>2. TypeOK'
  BY <1>0, <1>1 DEF TypeOK, Procs
<1>3. ComTrava'
  BY <1>0, <1>1 DEF ComTrava
<1>4. Relogios'
  BY <1>0, <1>1 DEF Relogios, Tempo
<1>5. SoVarreVelho'
  BY <1>0, <1>1 DEF SoVarreVelho, Fresca, Processos
<1>6. IdadeLimitada' /\ (correcoes <= dados)'
  BY DEF IInv, IdadeLimitada
<1> QED BY <1>2, <1>3, <1>4, <1>5, <1>6 DEF IInv

\* A process that gives the lock back, whether it stored a result or not.
LEMMA InvSolta ==
  ASSUME IInv, NEW p \in Processos, proc[p].pc \in {"dentro", "varrendo"},
         proc' = [proc EXCEPT ![p] = Livre], trava' = Ninguem,
         \/ cache' = cache
         \/ proc[p].pc = "varrendo" /\ Guarda(p),
         resposta' \in [Leitores -> Respostas], IdadeLimitada',
         UNCHANGED <<agora, dados, correcoes, corrigido, proxima>>
  PROVE  IInv'
<1> USE ConstantesOK DEF ConstantesOK
<1>0. /\ TypeOK /\ ComTrava /\ Relogios /\ SoVarreVelho /\ proc \in [Processos -> Procs]
      /\ proc[p] \in Procs /\ agora \in Tempo /\ cache \in [TodasChaves -> Entrada]
      /\ Livre \in Procs /\ Livre.pc = "livre"
  BY FormasIniciais DEF IInv, TypeOK, Procs, Livre
<1>1. /\ proc' \in [Processos -> Procs] /\ proc'[p].pc = "livre"
      /\ \A q \in Processos : q # p => proc'[q] = proc[q]
  BY <1>0
<1>2. \A q \in Processos : proc'[q].pc \notin {"dentro", "varrendo"}
  BY <1>0, <1>1 DEF ComTrava
<1>3. cache' \in [TodasChaves -> Entrada]
  <2>1. [cheia |-> TRUE, versao |-> proc[p].versao, desde |-> proc[p].desde,
         em |-> agora] \in Entrada
    BY <1>0 DEF Procs, Entrada
  <2> QED BY <1>0, <2>1 DEF Guarda
<1>4. TypeOK'
  BY <1>0, <1>1, <1>3 DEF TypeOK, Procs, Respostas
<1>5. ComTrava' /\ SoVarreVelho'
  BY <1>2 DEF ComTrava, SoVarreVelho, Processos
<1>6. Relogios'
  <2>1. ASSUME NEW k \in TodasChaves
        PROVE  /\ cache'[k].desde <= cache'[k].em /\ cache'[k].em <= agora
               /\ cache'[k].em - cache'[k].desde <= Varredura
    <3>1. CASE cache' = cache
      BY <1>0, <3>1 DEF Relogios
    <3>2. CASE proc[p].pc = "varrendo" /\ Guarda(p)
      <4>1. \/ cache'[k] = cache[k]
            \/ cache'[k].desde = proc[p].desde /\ cache'[k].em = agora
        BY <1>0, <3>2 DEF Guarda
      <4>2. proc[p].desde <= agora /\ agora - proc[p].desde <= Varredura
        BY <1>0, <3>2 DEF Relogios
      <4>3. agora <= agora
        BY <1>0 DEF Tempo
      <4> QED BY <1>0, <4>1, <4>2, <4>3 DEF Relogios
    <3> QED BY <3>1, <3>2
  <2> QED BY <1>2, <2>1 DEF Relogios
<1>7. (correcoes <= dados)'
  BY DEF IInv
<1> QED BY <1>4, <1>5, <1>6, <1>7 DEF IInv

\* A fresh entry is less than one TTL and one scan old.
LEMMA EntregaFresca ==
  ASSUME IInv, NEW r \in Leitores, NEW k \in TodasChaves, Fresca(k), NEW v \in Versoes,
         Entrega(r, cache[k], v)
  PROVE  resposta' \in [Leitores -> Respostas] /\ IdadeLimitada'
<1> USE ConstantesOK DEF ConstantesOK
<1>1. /\ cache[k] \in Entrada /\ agora \in Tempo /\ resposta \in [Leitores -> Respostas]
      /\ cache[k].desde <= cache[k].em /\ cache[k].em <= agora
      /\ cache[k].em - cache[k].desde <= Varredura /\ agora - cache[k].em < TTL
  BY DEF IInv, TypeOK, Relogios, Fresca, Respostas
<1>2. agora - cache[k].desde \in Tempo /\ agora - cache[k].desde < TTL + Varredura
  BY <1>1 DEF Entrada, Tempo
<1>3. [idade |-> agora - cache[k].desde, emDia |-> cache[k].versao >= v] \in Respostas
  BY <1>2 DEF Respostas
<1>4. resposta' = [resposta EXCEPT ![r] =
        [idade |-> agora - cache[k].desde, emDia |-> cache[k].versao >= v]]
  BY DEF Entrega
<1>5. resposta' \in [Leitores -> Respostas]
  BY <1>1, <1>3, <1>4
<1>6. IdadeLimitada'
  BY <1>1, <1>2, <1>4 DEF IInv, IdadeLimitada
<1> QED BY <1>5, <1>6

\* What a request has just scanned is at most one scan old.
LEMMA EntregaVarrida ==
  ASSUME IInv, NEW r \in Leitores, proc[r].pc = "varrendo",
         Entrega(r, proc[r], proc[r].piso)
  PROVE  resposta' \in [Leitores -> Respostas] /\ IdadeLimitada'
<1> USE ConstantesOK DEF ConstantesOK
<1>1. /\ proc[r] \in Procs /\ agora \in Tempo /\ resposta \in [Leitores -> Respostas]
      /\ proc[r].desde <= agora /\ agora - proc[r].desde <= Varredura
  BY DEF IInv, TypeOK, Relogios, Procs, Processos, Respostas
<1>2. agora - proc[r].desde \in Tempo /\ agora - proc[r].desde < TTL + Varredura
  BY <1>1 DEF Procs, Tempo
<1>3. [idade |-> agora - proc[r].desde, emDia |-> proc[r].versao >= proc[r].piso] \in Respostas
  BY <1>2 DEF Respostas
<1>4. resposta' = [resposta EXCEPT ![r] =
        [idade |-> agora - proc[r].desde, emDia |-> proc[r].versao >= proc[r].piso]]
  BY DEF Entrega
<1>5. resposta' \in [Leitores -> Respostas]
  BY <1>1, <1>3, <1>4
<1>6. IdadeLimitada'
  BY <1>1, <1>2, <1>4 DEF IInv, IdadeLimitada
<1> QED BY <1>5, <1>6

\* A request at the door: answered from the cache, or sent to the queue.
LEMMA InvPede ==
  ASSUME IInv, NEW r \in Leitores, NEW k \in Chaves, Pede(r, k)
  PROVE  IInv'
<1> USE ConstantesOK DEF ConstantesOK
<1>0. /\ TypeOK /\ ComTrava /\ Relogios /\ SoVarreVelho /\ IdadeLimitada
      /\ proc \in [Processos -> Procs] /\ corrigido \in Versoes
      /\ r \in Processos /\ k \in TodasChaves /\ proc[r].pc = "livre" /\ Livre \in Procs
  BY FormasIniciais DEF IInv, TypeOK, Procs, Pede, Processos, TodasChaves
<1>1. CASE Fresca(k)
  <2>1. UNCHANGED <<agora, dados, correcoes, corrigido, cache, trava, proc, proxima>>
    BY <1>1 DEF Pede
  <2>2. resposta' \in [Leitores -> Respostas] /\ IdadeLimitada'
    BY <1>0, <1>1, EntregaFresca DEF Pede
  <2>3. TypeOK'
    BY <1>0, <2>1, <2>2 DEF TypeOK, Respostas
  <2>4. ComTrava' /\ Relogios' /\ SoVarreVelho' /\ (correcoes <= dados)'
    BY <1>0, <2>1 DEF ComTrava, Relogios, SoVarreVelho, Fresca, IInv
  <2> QED BY <2>2, <2>3, <2>4 DEF IInv
<1>2. CASE ~Fresca(k)
  <2> DEFINE novo == [Livre EXCEPT !.pc = "espera", !.chave = k, !.piso = corrigido]
  <2>1. /\ proc' = [proc EXCEPT ![r] = novo]
        /\ UNCHANGED <<agora, dados, correcoes, corrigido, cache, trava, proxima, resposta>>
    BY <1>2 DEF Pede
  <2>2. novo \in Procs /\ novo.pc = "espera"
    BY <1>0 DEF Procs
  <2> HIDE DEF novo
  <2>3. /\ proc' \in [Processos -> Procs] /\ proc'[r].pc = "espera"
        /\ \A q \in Processos : q # r => proc'[q] = proc[q]
    BY <1>0, <2>1, <2>2
  <2>4. TypeOK'
    BY <1>0, <2>1, <2>3 DEF TypeOK, Procs
  <2>5. ComTrava'
    BY <1>0, <2>1, <2>3 DEF ComTrava
  <2>6. Relogios'
    BY <1>0, <2>1, <2>3 DEF Relogios
  <2>7. SoVarreVelho'
    BY <1>0, <2>1, <2>3 DEF SoVarreVelho, Fresca, Processos
  <2>8. IdadeLimitada' /\ (correcoes <= dados)'
    BY <2>1 DEF IInv, IdadeLimitada
  <2> QED BY <2>4, <2>5, <2>6, <2>7, <2>8 DEF IInv
<1> QED BY <1>1, <1>2

\* The second look.
LEMMA InvOlha ==
  ASSUME IInv, NEW r \in Leitores, OlhaOuVarre(r)
  PROVE  IInv'
<1>0. r \in Processos /\ proc[r] \in Procs /\ proc[r].pc = "dentro"
  BY DEF IInv, TypeOK, Procs, OlhaOuVarre, Processos
<1>1. CASE Fresca(proc[r].chave)
  <2>1. resposta' \in [Leitores -> Respostas] /\ IdadeLimitada'
    <3>1. proc[r].chave \in TodasChaves /\ proc[r].piso \in Versoes
      BY <1>0 DEF Procs
    <3> QED BY <1>1, <3>1, EntregaFresca DEF OlhaOuVarre
  <2>2. /\ proc' = [proc EXCEPT ![r] = Livre] /\ trava' = Ninguem
        /\ UNCHANGED <<agora, dados, correcoes, corrigido, cache, proxima>>
    BY <1>1 DEF OlhaOuVarre
  <2> QED BY <1>0, <2>1, <2>2, InvSolta
<1>2. CASE ~Fresca(proc[r].chave)
  <2>1. /\ Comeca(r)
        /\ UNCHANGED <<agora, dados, correcoes, corrigido, cache, trava, proxima, resposta>>
    BY <1>2 DEF OlhaOuVarre
  <2> QED BY <1>0, <1>2, <2>1, InvComeca
<1> QED BY <1>1, <1>2

\* The end of a scan: a request that stores and answers, the warmer that only
\* stores, or an error.
LEMMA InvFimDaVarredura ==
  ASSUME IInv, NEW p \in Processos,
         (p \in Leitores /\ Grava(p)) \/ (p = Aquecedor /\ AquecedorGrava) \/ Falha(p)
  PROVE  IInv'
<1>0. resposta \in [Leitores -> Respostas] /\ IdadeLimitada
  BY DEF IInv, TypeOK, Respostas
<1>1. CASE p \in Leitores /\ Grava(p)
  <2>1. resposta' \in [Leitores -> Respostas] /\ IdadeLimitada'
    BY <1>1, EntregaVarrida DEF Grava
  <2> QED BY <1>1, <2>1, InvSolta DEF Grava
<1>2. CASE p = Aquecedor /\ AquecedorGrava
  <2>1. resposta' = resposta /\ IdadeLimitada'
    BY <1>0, <1>2 DEF AquecedorGrava, IdadeLimitada
  <2> QED BY <1>0, <1>2, <2>1, InvSolta DEF AquecedorGrava
<1>3. CASE Falha(p)
  <2>1. resposta' = resposta /\ IdadeLimitada' /\ cache' = cache
    BY <1>0, <1>3 DEF Falha, IdadeLimitada
  <2> QED BY <1>0, <1>3, <2>1, InvSolta DEF Falha
<1> QED BY <1>1, <1>2, <1>3

\* Whoever changes invoices: the cache stays as it is, or is emptied.
LEMMA InvFaturas ==
  ASSUME IInv, Reprocessa \/ PatchConfirma \/ PatchInvalida
  PROVE  IInv'
<1> USE ConstantesOK DEF ConstantesOK
<1>0. /\ TypeOK /\ ComTrava /\ Relogios /\ SoVarreVelho /\ IdadeLimitada
      /\ correcoes \in Versoes /\ dados \in Versoes /\ correcoes <= dados
      /\ corrigido \in Versoes /\ agora \in Tempo /\ Vazia \in Entrada
      /\ UNCHANGED <<agora, trava, proc, proxima, resposta>>
  BY FormasIniciais DEF IInv, TypeOK, Reprocessa, PatchConfirma, PatchInvalida
<1>1. dados' \in Versoes /\ correcoes' \in Versoes /\ (correcoes <= dados)'
  BY <1>0 DEF Reprocessa, PatchConfirma, PatchInvalida, Versoes
<1>2. corrigido' \in Versoes
  BY <1>0 DEF Reprocessa, PatchConfirma, PatchInvalida
<1>3. cache' = cache \/ cache' = [k \in TodasChaves |-> Vazia]
  BY DEF Reprocessa, PatchConfirma, PatchInvalida
<1>4. TypeOK'
  BY <1>0, <1>1, <1>2, <1>3 DEF TypeOK
<1>5. ComTrava' /\ IdadeLimitada'
  BY <1>0 DEF ComTrava, IdadeLimitada
<1>6. Relogios' /\ SoVarreVelho'
  <2>1. CASE cache' = cache
    BY <1>0, <2>1 DEF Relogios, SoVarreVelho, Fresca
  <2>2. CASE cache' = [k \in TodasChaves |-> Vazia]
    <3>1. \A k \in TodasChaves : cache'[k].desde = 0 /\ cache'[k].em = 0 /\ ~cache'[k].cheia
      BY <2>2 DEF Vazia
    <3>2. \A r \in Leitores : proc[r].chave \in TodasChaves
      BY <1>0 DEF TypeOK, Processos
    <3> QED BY <1>0, <3>1, <3>2 DEF Relogios, SoVarreVelho, Fresca, Tempo
  <2> QED BY <1>3, <2>1, <2>2
<1> QED BY <1>1, <1>4, <1>5, <1>6 DEF IInv

\* Time passes: entries only get older, and no scan outlasts Varredura.
LEMMA InvTique ==
  ASSUME IInv, Tique
  PROVE  IInv'
<1> USE ConstantesOK DEF ConstantesOK
<1>0. /\ TypeOK /\ ComTrava /\ Relogios /\ SoVarreVelho /\ IdadeLimitada
      /\ agora \in Tempo /\ agora' = agora + 1 /\ agora' \in Tempo
      /\ cache \in [TodasChaves -> Entrada] /\ proc \in [Processos -> Procs]
      /\ UNCHANGED <<dados, correcoes, corrigido, cache, trava, proc, proxima, resposta>>
  BY DEF IInv, TypeOK, Tique, Tempo, Procs
<1>1. TypeOK' /\ ComTrava' /\ IdadeLimitada' /\ (correcoes <= dados)'
  BY <1>0 DEF IInv, TypeOK, ComTrava, IdadeLimitada
<1>2. Relogios'
  <2>1. ASSUME NEW k \in TodasChaves
        PROVE  /\ cache'[k].desde <= cache'[k].em /\ cache'[k].em <= agora'
               /\ cache'[k].em - cache'[k].desde <= Varredura
    <3>1. cache[k].em \in Tempo
      BY <1>0 DEF Entrada
    <3> QED BY <1>0, <3>1 DEF Relogios, Tempo
  <2>2. ASSUME NEW p \in Processos, proc'[p].pc = "varrendo"
        PROVE  proc'[p].desde <= agora' /\ agora' - proc'[p].desde <= Varredura
    <3>1. proc[p].desde \in Tempo /\ agora - proc[p].desde < Varredura
      BY <1>0, <2>2 DEF Procs, Tique
    <3> QED BY <1>0, <2>2, <3>1 DEF Relogios, Tempo
  <2> QED BY <2>1, <2>2 DEF Relogios
<1>3. SoVarreVelho'
  <2>1. ASSUME NEW r \in Leitores, proc[r].pc = "varrendo"
        PROVE  ~Fresca(proc[r].chave)'
    <3>1. proc[r].chave \in TodasChaves
      BY <1>0 DEF Procs, Processos
    <3>2. cache[proc[r].chave].em \in Tempo
      BY <1>0, <3>1 DEF Entrada
    <3> QED BY <1>0, <2>1, <3>2 DEF SoVarreVelho, Fresca, Tempo
  <2> QED BY <1>0, <2>1 DEF SoVarreVelho
<1> QED BY <1>1, <1>2, <1>3 DEF IInv
-----------------------------------------------------------------------------
(* The invariant, and what it implies                                        *)

\* Every step keeps the invariant.
LEMMA InvPasso == IInv /\ [Next]_vars => IInv'
<1> SUFFICES ASSUME IInv, [Next]_vars PROVE IInv'
  OBVIOUS
<1>0. Leitores \subseteq Processos /\ Aquecedor \in Processos /\ Aquecedor \notin Leitores
  BY ConstantesOK DEF Processos, ConstantesOK
<1>1. ASSUME NEW r \in Leitores, (\E k \in Chaves : Pede(r, k)) \/ PassoDoLeitor(r)
      PROVE  IInv'
  BY <1>0, <1>1, InvPede, InvOlha, InvFimDaVarredura DEF PassoDoLeitor
<1>2. ASSUME NEW p \in Processos, Tranca(p) PROVE IInv'
  BY <1>2, InvFila
<1>3. CASE PassoDoAquecedor
  <2>1. CASE AquecedorVarre
    BY <1>0, <2>1, InvComeca DEF AquecedorVarre
  <2>2. CASE AquecedorAcorda
    BY <1>0, <2>2, InvFila
  <2>3. CASE AquecedorGrava \/ Falha(Aquecedor)
    BY <1>0, <2>3, InvFimDaVarredura
  <2> QED BY <1>3, <2>1, <2>2, <2>3 DEF PassoDoAquecedor
<1>4. CASE Reprocessa \/ PatchConfirma \/ PatchInvalida
  BY <1>4, InvFaturas
<1>5. CASE Tique
  BY <1>5, InvTique
<1>6. CASE UNCHANGED vars
  BY <1>6 DEF vars, IInv, TypeOK, ComTrava, Relogios, SoVarreVelho, IdadeLimitada, Fresca
<1> QED BY <1>1, <1>2, <1>3, <1>4, <1>5, <1>6 DEF Next

\* The invariant holds in every reachable state.
LEMMA InvSempre == Spec => []IInv
BY InvInicio, InvPasso, PTL DEF Spec

\* The cache, the queue and the answers keep their form, for any number of
\* requests and keys.
THEOREM CacheBemFormado == Spec => []TypeOK
<1>1. IInv => TypeOK
  BY DEF IInv
<1> QED BY <1>1, InvSempre, PTL

\* Single flight: at most one scan at a time, and no request scans what the cache
\* holds fresh, for any number of requests that wait on the lock.
THEOREM SempreVooUnico == Spec => []VooUnico
<1>1. IInv => VooUnico
  BY DEF IInv, ComTrava, SoVarreVelho, VooUnico
<1> QED BY <1>1, InvSempre, PTL

\* No answer is older than one TTL and one scan, for any TTL, ticker and scan.
THEOREM SempreIdadeLimitada == Spec => []IdadeLimitada
<1>1. IInv => IdadeLimitada
  BY DEF IInv
<1> QED BY <1>1, InvSempre, PTL

-----------------------------------------------------------------------------
(* The panels behind the page, for any panels of a set of rules, findings,   *)
(* savings and failed reads                                                  *)

Resultados == [cheio : BOOLEAN, sel : Nat, sem : SUBSET Apontamentos, lido : BOOLEAN]
Calculos   == [fase : {"parado", "selecao", "rejeicoes", "pronto"}, ger : Nat,
               sel : Nat, sem : SUBSET Apontamentos, lido : BOOLEAN]
\* The form of the state.
PainelTipo ==
  /\ selecao \in Nat /\ valendo \in Nat /\ errosLeitura \in Nat
  /\ salvando \subseteq [versao : Nat, passo : DOMAIN Paineis]
  /\ rejeitados \subseteq Apontamentos /\ rejeitando \subseteq rejeitados
  /\ tirados \in [Telas -> SUBSET rejeitados]
  /\ geracao \in [Telas -> Nat]
  /\ painel \in [Telas -> Resultados]
  /\ calculo \in [Telas -> Calculos]

\* selection n is new enough for panel p: it is not older than one that was
\* answered, nor than one whose request has already cleared p
Passou(x, p) == \E k \in DOMAIN Paineis : k < x.passo /\ Paineis[k] = p
Basta(p, n) == n >= valendo /\ \A x \in salvando : Passou(x, p) => n >= x.versao
\* What was committed is not newer than the table.
SelecoesEmOrdem == valendo <= selecao /\ \A x \in salvando : x.versao <= selecao
\* The result in memory is good ...
PainelAtual == \A p \in Telas : painel[p].cheio /\ painel[p].lido =>
  /\ Basta(p, painel[p].sel)
  /\ p \in ComRejeicao => tirados[p] \subseteq painel[p].sem
\* ... and so is what a calculation that nobody overtook will store.
CalculoAtual == \A p \in Telas :
  /\ calculo[p].ger <= geracao[p]
  /\ calculo[p].fase \in {"rejeicoes", "pronto"} /\ calculo[p].lido /\ calculo[p].ger = geracao[p]
       => Basta(p, calculo[p].sel)
  /\ calculo[p].fase = "pronto" /\ calculo[p].lido /\ p \in ComRejeicao
       => tirados[p] \subseteq calculo[p].sem
PainelInv == PainelTipo /\ SelecoesEmOrdem /\ PainelAtual /\ CalculoAtual

\* Savings, panels and calculations keep their form; a result in memory, or one
\* that will be stored, uses a selection no older than any that has cleared its
\* panel, and lacks no finding that was taken out.
THEOREM PainelBemFormado == PainelSpec => []PainelInv
<1>0. /\ SemResultado \in Resultados /\ ~SemResultado.cheio
      /\ SemCalculo \in Calculos /\ SemCalculo.fase = "parado" /\ SemCalculo.ger = 0
  BY DEF SemResultado, SemCalculo, Resultados, Calculos
<1>1. ASSUME PainelInit PROVE PainelInv
  <2>1. PainelTipo
    BY <1>0, <1>1 DEF PainelInit, PainelTipo
  <2>2. \A p \in Telas : painel[p] = SemResultado /\ calculo[p] = SemCalculo /\ geracao[p] = 0
    BY <1>1 DEF PainelInit
  <2>3. SelecoesEmOrdem
    BY <1>1 DEF PainelInit, SelecoesEmOrdem
  <2>4. PainelAtual
    BY <1>0, <2>2 DEF PainelAtual
  <2>5. CalculoAtual
    BY <1>0, <2>2 DEF CalculoAtual
  <2> QED
    BY <2>1, <2>3, <2>4, <2>5 DEF PainelInv
<1>2. PainelInv /\ [PainelNext]_painelVars => PainelInv'
  <2> SUFFICES ASSUME PainelInv, [PainelNext]_painelVars PROVE PainelInv'
    OBVIOUS
  <2> USE DEF PainelInv, SelecoesEmOrdem, PainelAtual, CalculoAtual, Basta, Passou
  <2>1. CASE UNCHANGED painelVars
    BY <2>1 DEF painelVars, PainelTipo
  <2>2. ASSUME NEW p \in Telas, NEW renova \in BOOLEAN, Pedir(p, renova)
        PROVE  PainelInv'
    <3>1. geracao[p] \in Nat /\ UNCHANGED <<selecao, salvando, rejeitados, rejeitando, geracao, errosLeitura, valendo, tirados>>
      BY <2>2 DEF Pedir, PainelTipo
    <3> DEFINE novo == [SemCalculo EXCEPT !.fase = "selecao", !.ger = geracao[p]]
    <3>2. calculo' = [calculo EXCEPT ![p] = novo]
          /\ \A q \in Telas : painel'[q] = painel[q] \/ painel'[q] = SemResultado
      BY <2>2 DEF Pedir, PainelTipo
    <3>3. painel' \in [Telas -> Resultados]
      BY <1>0, <2>2 DEF Pedir, PainelTipo
    <3>4. novo \in Calculos /\ novo.fase = "selecao" /\ novo.ger = geracao[p]
      BY <3>1 DEF Calculos, SemCalculo
    <3> HIDE DEF novo
    <3>5. PainelTipo'
      BY <3>1, <3>2, <3>3, <3>4 DEF PainelTipo
    <3>6. CalculoAtual'
      <4>1. \A q \in Telas : calculo'[q] = IF q = p THEN novo ELSE calculo[q]
        BY <3>2 DEF PainelTipo
      <4> QED
        BY <3>1, <3>4, <4>1 DEF PainelTipo
    <3> QED
      BY <1>0, <3>1, <3>2, <3>5, <3>6
  <2>3. ASSUME NEW p \in Telas, NEW ok \in BOOLEAN, CalculoLeSelecao(p, ok) PROVE PainelInv'
    <3>1. UNCHANGED <<selecao, salvando, rejeitados, rejeitando, painel, geracao, valendo, tirados>>
      BY <2>3 DEF CalculoLeSelecao
    <3>2. /\ calculo'[p].fase = (IF p \in ComRejeicao THEN "rejeicoes" ELSE "pronto")
          /\ calculo'[p].ger = calculo[p].ger /\ calculo'[p].lido = ok
          /\ calculo'[p].sel = (IF ok THEN selecao ELSE 0)
          /\ \A q \in Telas \ {p} : calculo'[q] = calculo[q]
      BY <2>3 DEF CalculoLeSelecao, PainelTipo
    <3>3. PainelTipo'
      <4> DEFINE novo == [calculo[p] EXCEPT !.fase = IF p \in ComRejeicao THEN "rejeicoes" ELSE "pronto",
                                            !.sel = IF ok THEN selecao ELSE 0, !.lido = ok]
      <4>1. novo \in Calculos
        BY DEF PainelTipo, Calculos
      <4>2. calculo' = [calculo EXCEPT ![p] = novo]
        BY <2>3 DEF CalculoLeSelecao, PainelTipo
      <4>3. errosLeitura' \in Nat
        BY <2>3 DEF CalculoLeSelecao, PainelTipo, Anota
      <4> HIDE DEF novo
      <4> QED
        BY <3>1, <4>1, <4>2, <4>3 DEF PainelTipo
    <3> QED
      BY <3>1, <3>2, <3>3 DEF PainelTipo
  <2>4. ASSUME NEW p \in Telas, NEW ok \in BOOLEAN, CalculoLeRejeicoes(p, ok) PROVE PainelInv'
    <3>1. UNCHANGED <<selecao, salvando, rejeitados, rejeitando, painel, geracao, valendo, tirados>>
      BY <2>4 DEF CalculoLeRejeicoes
    <3>2. /\ calculo[p].fase = "rejeicoes" /\ calculo'[p].fase = "pronto"
          /\ calculo'[p].ger = calculo[p].ger /\ calculo'[p].sel = calculo[p].sel
          /\ calculo'[p].lido = (calculo[p].lido /\ ok)
          /\ calculo'[p].sem = (IF ok THEN rejeitados ELSE {})
          /\ \A q \in Telas \ {p} : calculo'[q] = calculo[q]
      BY <2>4 DEF CalculoLeRejeicoes, PainelTipo
    <3>3. PainelTipo'
      <4> DEFINE novo == [calculo[p] EXCEPT !.fase = "pronto", !.sem = IF ok THEN rejeitados ELSE {},
                                            !.lido = @ /\ ok]
      <4>1. novo \in Calculos
        <5>1. (calculo[p].lido /\ ok) \in BOOLEAN
          OBVIOUS
        <5> QED
          BY <5>1 DEF PainelTipo, Calculos
      <4>2. calculo' = [calculo EXCEPT ![p] = novo]
        BY <2>4 DEF CalculoLeRejeicoes, PainelTipo
      <4>3. errosLeitura' \in Nat
        BY <2>4 DEF CalculoLeRejeicoes, PainelTipo, Anota
      <4> HIDE DEF novo
      <4> QED
        BY <3>1, <4>1, <4>2, <4>3 DEF PainelTipo
    <3> QED
      BY <3>1, <3>2, <3>3 DEF PainelTipo
  <2>5. ASSUME NEW p \in Telas, CalculoGuarda(p) PROVE PainelInv'
    <3>1. UNCHANGED <<selecao, salvando, rejeitados, rejeitando, geracao, errosLeitura, valendo, tirados>>
          /\ calculo[p].fase = "pronto" /\ calculo' = [calculo EXCEPT ![p] = SemCalculo]
      BY <2>5 DEF CalculoGuarda, Encerra
    <3>2. /\ \A q \in Telas \ {p} : painel'[q] = painel[q]
          /\ painel'[p] = IF calculo[p].ger = geracao[p] THEN Resultado(p) ELSE painel[p]
      BY <2>5 DEF CalculoGuarda, PainelTipo
    <3>3. Resultado(p) \in Resultados
          /\ Resultado(p).sel = calculo[p].sel /\ Resultado(p).sem = calculo[p].sem
          /\ Resultado(p).lido = calculo[p].lido
      BY DEF Resultado, PainelTipo, Resultados, Calculos
    <3>4. PainelTipo'
      BY <1>0, <2>5, <3>1, <3>3 DEF PainelTipo, CalculoGuarda
    <3>5. CalculoAtual'
      <4>1. \A q \in Telas : calculo'[q] = calculo[q] \/ calculo'[q] = SemCalculo
        BY <3>1 DEF PainelTipo
      <4> QED
        BY <1>0, <3>1, <4>1 DEF PainelTipo
    <3>6. PainelAtual'
      BY <3>1, <3>2, <3>3
    <3> QED
      BY <3>1, <3>4, <3>5, <3>6
  <2>6. ASSUME NEW p \in Telas, CalculoFalha(p) PROVE PainelInv'
    <3>1. UNCHANGED <<selecao, salvando, rejeitados, rejeitando, painel, geracao, valendo, tirados>>
          /\ calculo' = [calculo EXCEPT ![p] = SemCalculo]
      BY <2>6 DEF CalculoFalha, Encerra
    <3>2. PainelTipo'
      BY <1>0, <2>6, <3>1 DEF PainelTipo, CalculoFalha, Anota
    <3>3. CalculoAtual'
      BY <1>0, <3>1 DEF PainelTipo
    <3> QED
      BY <3>1, <3>2, <3>3
  <2>7. CASE SalvarRegras
    <3> DEFINE n == [versao |-> selecao + 1, passo |-> 1]
    <3>1. UNCHANGED <<rejeitados, rejeitando, painel, geracao, calculo, errosLeitura, valendo, tirados>>
          /\ selecao' = selecao + 1 /\ salvando' = salvando \cup {n}
      BY <2>7 DEF SalvarRegras
    <3>2. /\ DOMAIN Paineis = 1..Len(Paineis) /\ Len(Paineis) \in Nat \ {0}
          /\ n \in [versao : Nat, passo : DOMAIN Paineis] /\ n.passo = 1 /\ n.versao = selecao + 1
      BY PainelOK DEF PainelTipo
    <3>3. \A q \in Telas : ~Passou(n, q)
      BY <3>2
    <3> HIDE DEF n
    <3>4. PainelTipo' /\ SelecoesEmOrdem'
      BY <3>1, <3>2 DEF PainelTipo
    <3>5. \A q \in Telas, m \in Nat : Basta(q, m) => Basta(q, m)'
      BY <3>1, <3>3
    <3>6. PainelAtual'
      BY <3>1, <3>3
    <3>7. CalculoAtual'
      BY <3>1, <3>3
    <3> QED
      BY <3>4, <3>6, <3>7
  <2>8. ASSUME NEW x \in salvando, LimparCache(x) PROVE PainelInv'
    <3> DEFINE p == Paineis[x.passo]
               y == [x EXCEPT !.passo = @ + 1]
    <3>1. /\ UNCHANGED <<selecao, rejeitados, rejeitando, calculo, errosLeitura, tirados>>
          /\ painel' = [painel EXCEPT ![p] = SemResultado]
          /\ geracao' = [geracao EXCEPT ![p] = @ + 1]
      BY <2>8 DEF LimparCache
    <3>2. x.passo \in DOMAIN Paineis /\ x.versao \in Nat /\ p \in Telas /\ x.passo \in 1..Len(Paineis)
          /\ Len(Paineis) \in Nat /\ DOMAIN Paineis = 1..Len(Paineis)
      BY PainelOK DEF PainelTipo, Telas
    <3>3. /\ PainelTipo' /\ SelecoesEmOrdem'
          /\ \A q \in Telas \ {p}, m \in Nat : Basta(q, m) => Basta(q, m)'
      <4>1. CASE x.passo = Len(Paineis)
        <5>1. salvando' = salvando \ {x} /\ valendo' = IF x.versao > valendo THEN x.versao ELSE valendo
          BY <2>8, <4>1 DEF LimparCache
        <5>2. \A q \in Telas \ {p} : Passou(x, q)
          BY <3>2, <4>1 DEF Telas
        <5>3. PainelTipo' /\ SelecoesEmOrdem'
          BY <1>0, <3>1, <3>2, <5>1 DEF PainelTipo
        <5> QED
          BY <5>1, <5>2, <5>3
      <4>2. CASE x.passo # Len(Paineis)
        <5>1. salvando' = (salvando \ {x}) \cup {y} /\ valendo' = valendo
          BY <2>8, <4>2 DEF LimparCache
        <5>2. y \in [versao : Nat, passo : DOMAIN Paineis] /\ y.versao = x.versao /\ y.passo = x.passo + 1
          BY <3>2, <4>2 DEF PainelTipo
        <5> HIDE DEF y
        <5>3. \A q \in Telas \ {p} : Passou(y, q) => Passou(x, q)
          BY <3>2, <5>2
        <5>4. PainelTipo' /\ SelecoesEmOrdem'
          BY <1>0, <3>1, <3>2, <5>1, <5>2 DEF PainelTipo
        <5> QED
          BY <5>1, <5>2, <5>3, <5>4
      <4> QED
        BY <4>1, <4>2
    <3>4. PainelAtual'
      <4> SUFFICES ASSUME NEW q \in Telas, painel'[q].cheio, painel'[q].lido
                   PROVE  /\ Basta(q, painel[q].sel)'
                          /\ q \in ComRejeicao => tirados'[q] \subseteq painel'[q].sem
        OBVIOUS
      <4>1. q # p /\ painel'[q] = painel[q] /\ painel[q].sel \in Nat
        BY <1>0, <3>1, <3>2 DEF PainelTipo, Resultados
      <4>2. Basta(q, painel[q].sel) => (\A m \in Nat : m = painel[q].sel => Basta(q, m)')
        BY <3>3, <4>1
      <4> QED
        BY <3>1, <4>1, <4>2
    <3>5. CalculoAtual'
      <4> SUFFICES ASSUME NEW q \in Telas
                   PROVE  /\ calculo'[q].ger <= geracao'[q]
                          /\ calculo'[q].fase \in {"rejeicoes", "pronto"} /\ calculo'[q].lido
                             /\ calculo'[q].ger = geracao'[q] => Basta(q, calculo[q].sel)'
        BY <3>1
      <4>1. calculo[q].ger \in Nat /\ calculo[q].sel \in Nat /\ geracao[q] \in Nat
        BY DEF PainelTipo, Calculos
      <4>2. CASE q = p
        BY <3>1, <4>1, <4>2 DEF PainelTipo
      <4>3. CASE q # p
        <5>1. Basta(q, calculo[q].sel) => (\A m \in Nat : m = calculo[q].sel => Basta(q, m)')
          BY <3>3, <4>1, <4>3
        <5>2. geracao'[q] = geracao[q] /\ calculo' = calculo
          BY <3>1, <4>3 DEF PainelTipo
        <5> QED
          BY <4>1, <5>1, <5>2
      <4> QED
        BY <4>2, <4>3
    <3> QED
      BY <3>3, <3>4, <3>5
  <2>9. ASSUME NEW f \in Apontamentos, RejeitarGrava(f) PROVE PainelInv'
    BY <2>9 DEF RejeitarGrava, PainelTipo
  <2>10. ASSUME NEW f \in Apontamentos, AplicarRejeicao(f) PROVE PainelInv'
    <3>1. /\ UNCHANGED <<selecao, salvando, rejeitados, geracao, calculo, errosLeitura, valendo>>
          /\ rejeitando' = rejeitando \ {f} /\ f \in rejeitados
      BY <2>10 DEF AplicarRejeicao, PainelTipo
    <3>2. \A q \in Telas :
            /\ painel'[q].cheio = painel[q].cheio /\ painel'[q].sel = painel[q].sel
            /\ painel'[q].lido = painel[q].lido /\ painel[q].sem \subseteq painel'[q].sem
            /\ q \in ComRejeicao /\ painel[q].cheio => f \in painel'[q].sem
      BY <2>10 DEF AplicarRejeicao, SoQuemTem, PainelTipo
    <3>3. \A q \in Telas : \/ tirados'[q] = tirados[q]
                           \/ tirados'[q] = tirados[q] \cup {f} /\ ~Escapa(q, f)
      BY <2>10 DEF AplicarRejeicao
    <3>4. PainelTipo'
      <4>1. \A q \in Telas : [painel[q] EXCEPT !.sem = @ \cup {f}] \in Resultados
        BY DEF PainelTipo, Resultados
      <4>2. painel' \in [Telas -> Resultados]
        BY <2>10, <4>1 DEF AplicarRejeicao, SoQuemTem, PainelTipo
      <4>3. tirados' \in [Telas -> SUBSET rejeitados]
        BY <2>10, <3>1 DEF AplicarRejeicao, PainelTipo
      <4> QED
        BY <3>1, <4>2, <4>3 DEF PainelTipo
    <3>5. PainelAtual'
      BY <3>1, <3>2, <3>3
    <3>6. CalculoAtual'
      BY <3>1, <3>3 DEF Escapa
    <3> QED
      BY <3>1, <3>4, <3>5, <3>6
  <2> QED
    BY <2>1, <2>2, <2>3, <2>4, <2>5, <2>6, <2>7, <2>8, <2>9, <2>10 DEF PainelNext, PassoDoCalculo
<1> QED
  BY <1>1, <1>2, PTL DEF PainelSpec

\* No panel shows an older selection than one whose saving was answered, nor a
\* finding that was taken out, however calculations and clearings cross.
THEOREM SemprePainelEmDia == PainelSpec => []PainelEmDia
<1>1. PainelInv => PainelEmDia
  BY DEF PainelInv, PainelAtual, Basta, PainelEmDia
<1> QED
  BY <1>1, PainelBemFormado, PTL
=============================================================================
