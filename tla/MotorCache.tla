----------------------------- MODULE MotorCache -----------------------------
(* The cache of the deviation engine (backend/handlers/desvio_handler.go).   *)
(* A request takes a fresh entry or queues for motorComputeMu, looks again   *)
(* and scans all invoices; a warmer scans in the background; PatchFatura     *)
(* commits a correction and then empties the cache. motorCacheMu only makes  *)
(* each look at the map atomic, so a look is one step.                       *)
EXTENDS Integers

CONSTANTS Leitores,       \* requests in flight
          Chaves,         \* the keys that requests ask for: table, company, gate
          Aquecedor,      \* the goroutine of StartMotorCacheWarmer
          ChaveAquecida,  \* the key that recomputeMotorCache writes
          TTL, Periodo,   \* motorCacheTTL, and the ticker of the warmer
          Varredura,      \* the longest that a scan takes
          MaxTempo,       \* bound: the clock
          MaxDados        \* bound: changes of the invoices

VARIABLES
  agora,      \* the clock
  dados,      \* version of the invoices
  correcoes,  \* PatchFatura calls that have committed and not yet invalidated
  corrigido,  \* history: version of the latest correction that is invalidated
  cache,      \* per key: version found, since when, and when it was stored
  trava,      \* who holds motorComputeMu
  proc,       \* each request and the warmer
  proxima,    \* when the ticker fires next
  resposta    \* history: what each request was last answered

vars == <<agora, dados, correcoes, corrigido, cache, trava, proc, proxima, resposta>>

Processos == Leitores \cup {Aquecedor}
TodasChaves == Chaves \cup {ChaveAquecida}
Tempo   == 0..MaxTempo
Versoes == 0..MaxDados
Ninguem == "ninguem"

ASSUME ConstantesOK ==
  /\ Aquecedor \notin Leitores /\ Ninguem \notin Processos
  /\ TTL \in Nat \ {0} /\ Periodo \in Nat \ {0} /\ Varredura \in Nat
  /\ MaxTempo \in Nat /\ MaxDados \in Nat

Vazia   == [cheia |-> FALSE, versao |-> 0, desde |-> 0, em |-> 0]
Livre   == [pc |-> "livre", chave |-> ChaveAquecida, piso |-> 0, versao |-> 0, desde |-> 0]
Entrada == [cheia : BOOLEAN, versao : Versoes, desde : Tempo, em : Tempo]

Init ==
  /\ agora = 0 /\ dados = 0 /\ correcoes = 0 /\ corrigido = 0
  /\ cache = [k \in TodasChaves |-> Vazia]
  /\ trava = Ninguem
  /\ proc = [p \in Processos |-> Livre]
  /\ proxima = 0
  /\ resposta = [r \in Leitores |-> [idade |-> 0, emDia |-> TRUE]]

\* mutant: an entry lives one tick more
FrescaAteOFim(k) == cache[k].cheia /\ agora - cache[k].em <= TTL
Fresca(k) == cache[k].cheia /\ agora - cache[k].em < TTL

Entrega(r, e, piso) ==
  resposta' = [resposta EXCEPT ![r] = [idade |-> agora - e.desde,
                                       emDia |-> e.versao >= piso]]
-----------------------------------------------------------------------------
(* A request: motorApontamentosCachedT                                       *)

\* the fast path, or to the queue
Pede(r, k) ==
  /\ proc[r].pc = "livre"
  /\ IF Fresca(k)
     THEN Entrega(r, cache[k], corrigido) /\ UNCHANGED proc
     ELSE /\ proc' = [proc EXCEPT ![r] = [Livre EXCEPT !.pc = "espera", !.chave = k,
                                                       !.piso = corrigido]]
          /\ UNCHANGED resposta
  /\ UNCHANGED <<agora, dados, correcoes, corrigido, cache, trava, proxima>>

Tranca(p) ==
  /\ proc[p].pc = "espera" /\ trava = Ninguem
  /\ trava' = p
  /\ proc' = [proc EXCEPT ![p].pc = "dentro"]
  /\ UNCHANGED <<agora, dados, correcoes, corrigido, cache, proxima, resposta>>

Comeca(p) == proc' = [proc EXCEPT ![p].pc = "varrendo", ![p].versao = dados,
                                  ![p].desde = agora]

\* mutant: whoever gets the lock scans
VarreSemOlhar(r) ==
  /\ proc[r].pc = "dentro"
  /\ Comeca(r)
  /\ UNCHANGED <<agora, dados, correcoes, corrigido, cache, trava, proxima, resposta>>

\* the second look, with the lock held; then the SELECT begins
OlhaOuVarre(r) ==
  /\ proc[r].pc = "dentro"
  /\ IF Fresca(proc[r].chave)
     THEN /\ Entrega(r, cache[proc[r].chave], proc[r].piso)
          /\ proc' = [proc EXCEPT ![r] = Livre]
          /\ trava' = Ninguem
     ELSE Comeca(r) /\ UNCHANGED <<trava, resposta>>
  /\ UNCHANGED <<agora, dados, correcoes, corrigido, cache, proxima>>

\* mutant: the entry is dated with its deadline
GuardaPrazo(p) == cache' = [cache EXCEPT ![proc[p].chave] =
  [cheia |-> TRUE, versao |-> proc[p].versao, desde |-> proc[p].desde, em |-> agora + TTL]]
Guarda(p) == cache' = [cache EXCEPT ![proc[p].chave] =
  [cheia |-> TRUE, versao |-> proc[p].versao, desde |-> proc[p].desde, em |-> agora]]

Grava(r) ==
  /\ proc[r].pc = "varrendo"
  /\ Guarda(r) /\ Entrega(r, proc[r], proc[r].piso)
  /\ proc' = [proc EXCEPT ![r] = Livre] /\ trava' = Ninguem
  /\ UNCHANGED <<agora, dados, correcoes, corrigido, proxima>>

\* mutant: the error path forgets the lock
FalhaComTrava(p) ==
  /\ proc[p].pc = "varrendo"
  /\ proc' = [proc EXCEPT ![p] = Livre]
  /\ UNCHANGED <<agora, dados, correcoes, corrigido, cache, trava, proxima, resposta>>
\* the scan ends in an error
Falha(p) ==
  /\ proc[p].pc = "varrendo"
  /\ proc' = [proc EXCEPT ![p] = Livre] /\ trava' = Ninguem
  /\ UNCHANGED <<agora, dados, correcoes, corrigido, cache, proxima, resposta>>
-----------------------------------------------------------------------------
(* The warmer: at the start and at each tick, recomputeMotorCache            *)

AquecedorAcorda ==
  /\ proc[Aquecedor].pc = "livre" /\ agora >= proxima
  /\ proxima' = agora + Periodo
  /\ proc' = [proc EXCEPT ![Aquecedor].pc = "espera"]
  /\ UNCHANGED <<agora, dados, correcoes, corrigido, cache, trava, resposta>>

AquecedorVarre ==
  /\ proc[Aquecedor].pc = "dentro"
  /\ Comeca(Aquecedor)
  /\ UNCHANGED <<agora, dados, correcoes, corrigido, cache, trava, proxima, resposta>>

AquecedorGrava ==
  /\ proc[Aquecedor].pc = "varrendo"
  /\ Guarda(Aquecedor)
  /\ proc' = [proc EXCEPT ![Aquecedor] = Livre] /\ trava' = Ninguem
  /\ UNCHANGED <<agora, dados, correcoes, corrigido, proxima, resposta>>
-----------------------------------------------------------------------------
(* Those who change the invoices                                             *)

\* extraction and reprocessing: nobody tells the cache
Reprocessa ==
  /\ dados < MaxDados /\ dados' = dados + 1
  /\ UNCHANGED <<agora, correcoes, corrigido, cache, trava, proc, proxima, resposta>>

\* PatchFatura: the commit, and after it InvalidarMotorCache
PatchConfirma ==
  /\ dados < MaxDados /\ dados' = dados + 1
  /\ correcoes' = correcoes + 1
  /\ UNCHANGED <<agora, corrigido, cache, trava, proc, proxima, resposta>>

PatchInvalida ==
  /\ correcoes > 0 /\ correcoes' = correcoes - 1
  /\ cache' = [k \in TodasChaves |-> Vazia]
  /\ corrigido' = IF correcoes = 1 THEN dados ELSE corrigido
  /\ UNCHANGED <<agora, dados, trava, proc, proxima, resposta>>

\* time passes, but a scan ends in time and the ticker is not late
Tique ==
  /\ agora < MaxTempo /\ agora' = agora + 1
  /\ \A p \in Processos : proc[p].pc = "varrendo" => agora - proc[p].desde < Varredura
  /\ proc[Aquecedor].pc = "livre" => agora < proxima
  /\ UNCHANGED <<dados, correcoes, corrigido, cache, trava, proc, proxima, resposta>>
-----------------------------------------------------------------------------
PassoDoLeitor(r) == OlhaOuVarre(r) \/ Grava(r) \/ Falha(r)
PassoDoAquecedor == AquecedorAcorda \/ AquecedorVarre \/ AquecedorGrava \/ Falha(Aquecedor)

Next ==
  \/ \E r \in Leitores : (\E k \in Chaves : Pede(r, k)) \/ PassoDoLeitor(r)
  \/ \E p \in Processos : Tranca(p)
  \/ PassoDoAquecedor
  \/ Reprocessa \/ PatchConfirma \/ PatchInvalida \/ Tique

Spec == Init /\ [][Next]_vars

\* goroutines run on; sync.Mutex hands the lock to whoever waits longest once
\* it starves; nobody is obliged to ask, to patch or to reprocess
Justica == /\ \A r \in Leitores : WF_vars(PassoDoLeitor(r))
           /\ \A p \in Processos : SF_vars(Tranca(p))
           /\ WF_vars(AquecedorVarre) /\ WF_vars(AquecedorGrava \/ Falha(Aquecedor))
-----------------------------------------------------------------------------
(* Properties                                                                *)

TypeOK ==
  /\ agora \in Tempo /\ dados \in Versoes
  /\ correcoes \in Versoes /\ corrigido \in Versoes
  /\ cache \in [TodasChaves -> Entrada]
  /\ trava \in Processos \cup {Ninguem}
  /\ proc \in [Processos -> [pc : {"livre", "espera", "dentro", "varrendo"},
                             chave : TodasChaves, piso : Versoes, versao : Versoes,
                             desde : Tempo]]
  /\ proxima \in 0..(MaxTempo + Periodo)
  /\ resposta \in [Leitores -> [idade : Tempo, emDia : BOOLEAN]]

\* motorComputeMu "serializa os calculos" and what was just computed is not
\* computed again: one scan at a time, warmer included, and no request scans
\* what the cache holds fresh, however many wait for the lock.
VooUnico ==
  /\ \A p, q \in Processos : proc[p].pc = "varrendo" /\ proc[q].pc = "varrendo" => p = q
  /\ \A r \in Leitores : proc[r].pc = "varrendo" => ~Fresca(proc[r].chave)

\* How old an answer can be: it shows the invoices of less than one TTL and one
\* scan ago, because an entry is dated when the scan ends and not when it reads.
IdadeLimitada ==
  \A r \in Leitores : resposta[r].idade < TTL + Varredura

\* Whoever waits for the lock is answered, also when scans fail: no request is
\* under way for ever.
TodosSaoAtendidos == \A r \in Leitores : []<>(proc[r].pc = "livre")

\* A correction is seen "na hora, sem esperar o TTL": a request made after
\* PatchFatura has returned is answered with the corrected invoices.
CorrecaoNaHora ==
  \A r \in Leitores : resposta[r].emDia
=============================================================================
