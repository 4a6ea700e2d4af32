------------------------------ MODULE FilaClaro ------------------------------
(* The lots of invoices of Claro: a browser extension asks the backend to    *)
(* download each zip, or sends it in parts when the server could not; a job  *)
(* of the host extracts each ready zip, copies it to the Drive and closes    *)
(* it. The three share a folder: <zip>.part, <zip>, <zip>.rdy,               *)
(* <zip>.rdy.busy, ex/<seq>, ex/<seq>.json, done/<seq>.                      *)
(* A zip is the sequence of its blocks; 0 is a hole.                         *)
EXTENDS Integers, Sequences, FiniteSets, TLC

CONSTANTS Lotes,         \* sequence numbers of the portal
          Blocos,        \* blocks of a zip
          MaxRodadas,    \* bound: runs of the extension
          MaxFalhasClaro \* bound: crashes, failed downloads, uploads and queries

VARIABLES
  zips,      \* content of <<"part", l>> and <<"zip", l>>, of those that exist
  marca,     \* size inside <<"rdy", l>> and <<"busy", l>>, of those that exist
  servidor,  \* claroDL and its goroutine, per lot
  extensao,  \* the browser's loop
  jobClaro,  \* job_claro.sh and processar.py
  lote,      \* sets of lots: with a folder, with a whole folder, with a state file, done, refused,
             \* on the Drive; marcado is history: with a mark at some time
  tentativas, rodadas, falhasClaro

claroVars == <<zips, marca, servidor, extensao, jobClaro, lote, tentativas, rodadas, falhasClaro>>

ASSUME ClaroOK == Lotes \subseteq Nat \ {0} /\ IsFiniteSet(Lotes) /\ Blocos \in Nat \ {0}
                  /\ MaxRodadas \in Nat /\ MaxFalhasClaro \in Nat

Cheio == [b \in 1..Blocos |-> b]
SemDownload == [status |-> "nenhum", n |-> -1, fd |-> "nenhum"]
SemExtensao == [fase |-> "parada", lista |-> {}, l |-> 0, i |-> 0]
SemJob == [fase |-> "parado", l |-> 0]
Menor(S) == CHOOSE x \in S : \A y \in S : x <= y
Sem(f, S) == [x \in DOMAIN f \ S |-> f[x]]
Com(f, x, v) == (x :> v) @@ f

ClaroInit ==
  /\ zips = <<>> /\ marca = <<>>
  /\ servidor = [l \in Lotes |-> SemDownload]
  /\ extensao = SemExtensao /\ jobClaro = SemJob
  /\ lote = [pasta |-> {}, inteira |-> {}, estado |-> {}, feito |-> {}, recusado |-> {}, drive |-> {},
             marcado |-> {}]
  /\ tentativas = [l \in Lotes |-> 0]
  /\ rodadas = 0 /\ falhasClaro = 0

FalhaClaro == falhasClaro < MaxFalhasClaro /\ falhasClaro' = falhasClaro + 1
-----------------------------------------------------------------------------
(* ClaroFilaLink and claroBaixar: the server's own download                  *)

\* start of claroBaixar's file: O_TRUNC
ServidorAbre(l) ==
  /\ servidor[l].status = "baixando" /\ servidor[l].n = -1
  /\ zips' = Com(zips, <<"part", l>>, <<>>)
  /\ servidor' = [servidor EXCEPT ![l] = [@ EXCEPT !.n = 0, !.fd = "part"]]
  /\ UNCHANGED <<marca, extensao, jobClaro, lote, tentativas, rodadas, falhasClaro>>

\* a write at the descriptor's own offset: a file somebody truncated gets a hole
NoLugar(s, n) == [b \in 1..(IF Len(s) > n THEN Len(s) ELSE n) |->
                    IF b = n THEN n ELSE IF b <= Len(s) THEN s[b] ELSE 0]
ServidorEscreve(l) ==
  /\ servidor[l].status = "baixando" /\ servidor[l].n \in 0..(Blocos - 1)
  /\ LET arq == <<servidor[l].fd, l>> IN
     zips' = IF arq \in DOMAIN zips
             THEN [zips EXCEPT ![arq] = NoLugar(@, servidor[l].n + 1)] ELSE zips
  /\ servidor' = [servidor EXCEPT ![l].n = @ + 1]
  /\ UNCHANGED <<marca, extensao, jobClaro, lote, tentativas, rodadas, falhasClaro>>

\* falhar: whoever's .part it is, it goes
ServidorErra(l) ==
  /\ servidor[l].status = "baixando"
  /\ IF servidor[l].n = Blocos /\ servidor[l].fd # "marca" /\ <<"part", l>> \notin DOMAIN zips
     THEN UNCHANGED falhasClaro ELSE FalhaClaro
  /\ servidor' = [servidor EXCEPT ![l] = [SemDownload EXCEPT !.status = "erro"]]
  /\ zips' = Sem(zips, {<<"part", l>>})
  /\ UNCHANGED <<marca, extensao, jobClaro, lote, tentativas, rodadas>>

\* claroMarcarPronto: rename, then the mark with the size
Renomeia(l) == zips' = Com(Sem(zips, {<<"part", l>>}), <<"zip", l>>, zips[<<"part", l>>])
ServidorRenomeia(l) ==
  /\ servidor[l].status = "baixando" /\ servidor[l].n = Blocos /\ servidor[l].fd # "marca"
  /\ <<"part", l>> \in DOMAIN zips
  /\ Renomeia(l)
  /\ servidor' = [servidor EXCEPT ![l].fd = "marca"]
  /\ UNCHANGED <<marca, extensao, jobClaro, lote, tentativas, rodadas, falhasClaro>>
Marca(l) == /\ marca' = Com(marca, <<"rdy", l>>, Blocos)
            /\ lote' = [lote EXCEPT !.marcado = @ \cup {l}]
ServidorMarca(l) ==
  /\ servidor[l].status = "baixando" /\ servidor[l].fd = "marca"
  /\ Marca(l)
  /\ servidor' = [servidor EXCEPT ![l] = [SemDownload EXCEPT !.status = "pronto"]]
  /\ UNCHANGED <<zips, extensao, jobClaro, tentativas, rodadas, falhasClaro>>
-----------------------------------------------------------------------------
(* claro_bg.js, and ClaroFilaParte for what it sends                         *)

\* ClaroFilaEstado: lots with a file or a state file, and the last one done
NaFilaClaro == {l \in Lotes : \E t \in {"part", "zip"} : <<t, l>> \in DOMAIN zips}
               \cup {l \in Lotes : \E t \in {"rdy", "busy"} : <<t, l>> \in DOMAIN marca} \cup lote.estado
UltimoFeito == IF lote.feito = {} THEN 0 ELSE CHOOSE x \in lote.feito : \A y \in lote.feito : y <= x
ExtensaoInicia ==
  /\ extensao.fase = "parada" /\ rodadas < MaxRodadas
  /\ extensao' = [SemExtensao EXCEPT !.fase = "proximo",
                    !.lista = {l \in Lotes : l > UltimoFeito} \ NaFilaClaro]
  /\ rodadas' = rodadas + 1
  /\ UNCHANGED <<zips, marca, servidor, jobClaro, lote, tentativas, falhasClaro>>

\* ClaroFilaLink: one download per name at a time
ExtensaoPede ==
  /\ extensao.fase = "proximo" /\ extensao.lista # {}
  /\ LET l == Menor(extensao.lista) IN
     /\ servidor' = IF servidor[l].status = "baixando" THEN servidor
                    ELSE [servidor EXCEPT ![l] = [SemDownload EXCEPT !.status = "baixando"]]
     /\ extensao' = [extensao EXCEPT !.fase = "espera", !.l = l, !.lista = @ \ {l}]
  /\ UNCHANGED <<zips, marca, jobClaro, lote, tentativas, rodadas, falhasClaro>>

\* ClaroFilaArquivo: the map, or the disk after a restart
Situacao(l) ==
  IF servidor[l].status # "nenhum" THEN servidor[l].status
  ELSE IF <<"rdy", l>> \in DOMAIN marca THEN "pronto" ELSE "desconhecido"
\* ready: next lot; failed, unknown, or no progress for ten minutes: send it from here
ExtensaoVe ==
  /\ extensao.fase = "espera"
  /\ \/ Situacao(extensao.l) = "pronto" /\ extensao' = [extensao EXCEPT !.fase = "proximo"]
        /\ UNCHANGED falhasClaro
     \/ Situacao(extensao.l) \in {"erro", "desconhecido"}
        /\ extensao' = [extensao EXCEPT !.fase = "comeca"] /\ UNCHANGED falhasClaro
     \/ Situacao(extensao.l) = "baixando" /\ FalhaClaro
        /\ extensao' = [extensao EXCEPT !.fase = "comeca"]
  /\ UNCHANGED <<zips, marca, servidor, jobClaro, lote, tentativas, rodadas>>

\* mode=start truncates in place
ParteStart ==
  /\ extensao.fase = "comeca"
  /\ zips' = Com(zips, <<"part", extensao.l>>, <<>>)
  /\ extensao' = [extensao EXCEPT !.fase = "envia", !.i = 1]
  /\ UNCHANGED <<marca, servidor, jobClaro, lote, tentativas, rodadas, falhasClaro>>
ParteAcrescenta ==
  /\ extensao.fase = "envia" /\ extensao.i <= Blocos
  /\ LET arq == <<"part", extensao.l>> IN
     IF arq \in DOMAIN zips
     THEN /\ zips' = [zips EXCEPT ![arq] = Append(@, extensao.i)]
          /\ extensao' = [extensao EXCEPT !.i = @ + 1]
     ELSE extensao' = SemExtensao /\ UNCHANGED zips
  /\ UNCHANGED <<marca, servidor, jobClaro, lote, tentativas, rodadas, falhasClaro>>
\* mode=done: the size must be the announced one; the server's descriptor follows the inode
Seguinte == [part |-> "zip", zip |-> "nenhum", marca |-> "marca", nenhum |-> "nenhum"]
ParteDone ==
  /\ extensao.fase = "envia" /\ extensao.i > Blocos
  /\ LET l == extensao.l
         arq == <<"part", l>> IN
     IF arq \in DOMAIN zips /\ Len(zips[arq]) = Blocos
     THEN /\ Renomeia(l)
          /\ servidor' = [servidor EXCEPT ![l].fd = Seguinte[@]]
          /\ extensao' = [extensao EXCEPT !.fase = "marca"]
     ELSE extensao' = SemExtensao /\ UNCHANGED <<zips, servidor>>
  /\ UNCHANGED <<marca, jobClaro, lote, tentativas, rodadas, falhasClaro>>
ParteMarca ==
  /\ extensao.fase = "marca"
  /\ Marca(extensao.l)
  /\ extensao' = [extensao EXCEPT !.fase = "proximo"]
  /\ UNCHANGED <<zips, servidor, jobClaro, tentativas, rodadas, falhasClaro>>

\* a request failed, the window was closed, the list is over: "para aqui para não pular lotes"
ExtensaoTermina ==
  /\ extensao.fase # "parada"
  /\ IF extensao.fase = "proximo" /\ extensao.lista = {} THEN UNCHANGED falhasClaro ELSE FalhaClaro
  /\ extensao' = SemExtensao
  /\ UNCHANGED <<zips, marca, servidor, jobClaro, lote, tentativas, rodadas>>
-----------------------------------------------------------------------------
(* job_claro.sh (flock) and processar.py                                     *)

PassaJob(f, l) == jobClaro' = [fase |-> f, l |-> l]
Existe(t, l) == <<t, l>> \in DOMAIN marca
RemoveZip(l) ==
  /\ zips' = Sem(zips, {<<"zip", l>>})
  /\ servidor' = [servidor EXCEPT ![l].fd = IF @ = "zip" THEN "nenhum" ELSE @]

\* preparar: first a lot that is extracted and waits for the Drive
Pendentes == {l \in Lotes : l \in lote.estado \cap lote.pasta}
PreparaPendente ==
  /\ jobClaro.fase \in {"parado", "prepara"} /\ Pendentes # {}
  /\ PassaJob("sobe", Menor(Pendentes))
  /\ UNCHANGED <<zips, marca, servidor, extensao, lote, tentativas, rodadas, falhasClaro>>

\* then what a dead run left busy goes back, and the lowest ready one is taken
Recolhida == [x \in {<<"rdy", l>> : l \in {k \in Lotes : Existe("rdy", k) \/ Existe("busy", k)}} |->
                IF Existe("busy", x[2]) THEN marca[<<"busy", x[2]>>] ELSE marca[x]]
Pega1(m) == LET l == Menor({x[2] : x \in {y \in DOMAIN m : y[1] = "rdy"}})
            IN /\ marca' = Com(Sem(m, {<<"rdy", l>>}), <<"busy", l>>, m[<<"rdy", l>>])
               /\ PassaJob("pegou", l)
\* mutant: a busy mark is left where it is
PegaSoPronto ==
  /\ jobClaro.fase \in {"parado", "prepara"} /\ Pendentes = {}
  /\ \E l \in Lotes : Existe("rdy", l)
  /\ Pega1(marca)
  /\ UNCHANGED <<zips, servidor, extensao, lote, tentativas, rodadas, falhasClaro>>
PreparaPega ==
  /\ jobClaro.fase \in {"parado", "prepara"} /\ Pendentes = {} /\ Recolhida # <<>>
  /\ Pega1(Recolhida)
  /\ UNCHANGED <<zips, servidor, extensao, lote, tentativas, rodadas, falhasClaro>>
PreparaNada ==
  /\ jobClaro.fase = "prepara" /\ Pendentes = {} /\ Recolhida = <<>>
  /\ PassaJob("parado", 0)
  /\ UNCHANGED <<zips, marca, servidor, extensao, lote, tentativas, rodadas, falhasClaro>>

\* a lot that is done already: the copy is thrown away
Descarta ==
  /\ jobClaro.fase = "pegou" /\ jobClaro.l \in lote.feito
  /\ RemoveZip(jobClaro.l) /\ marca' = Sem(marca, {<<"busy", jobClaro.l>>})
  /\ PassaJob("parado", 0)
  /\ UNCHANGED <<extensao, lote, tentativas, rodadas, falhasClaro>>

\* size, testzip, extractall
TamanhoBate(l) == <<"zip", l>> \in DOMAIN zips /\ Len(zips[<<"zip", l>>]) = marca[<<"busy", l>>]
\* mutant: the size says it all
IntegroSoTamanho(l) == TamanhoBate(l)
Integro(l) == TamanhoBate(l) /\ zips[<<"zip", l>>] = Cheio
Descompacta ==
  /\ jobClaro.fase = "pegou" /\ jobClaro.l \notin lote.feito /\ Integro(jobClaro.l)
  /\ lote' = [lote EXCEPT !.pasta = @ \cup {jobClaro.l},
       !.inteira = IF zips[<<"zip", jobClaro.l>>] = Cheio THEN @ \cup {jobClaro.l} ELSE @ \ {jobClaro.l}]
  /\ PassaJob("extrai", jobClaro.l)
  /\ UNCHANGED <<zips, marca, servidor, extensao, tentativas, rodadas, falhasClaro>>

\* the mark goes, and then _falhou moves the zip to failed/
Recusa(l) ==
  /\ marca' = Sem(marca, {<<"busy", l>>})
  /\ lote' = [lote EXCEPT !.pasta = @ \ {l}, !.recusado = @ \cup {l}]
  /\ PassaJob("falhou", l)
RecusaRuim ==
  /\ jobClaro.fase = "pegou" /\ jobClaro.l \notin lote.feito /\ ~Integro(jobClaro.l)
  /\ Recusa(jobClaro.l)
  /\ UNCHANGED <<zips, servidor, extensao, tentativas, rodadas, falhasClaro>>
Falhou ==
  /\ jobClaro.fase = "falhou" /\ RemoveZip(jobClaro.l)
  /\ PassaJob("parado", 0)
  /\ UNCHANGED <<marca, extensao, lote, tentativas, rodadas, falhasClaro>>

\* extrair_pasta returns, also when _flush gave up on some of its rows
ExtraiNoBanco ==
  /\ jobClaro.fase = "extrai"
  /\ tentativas' = [tentativas EXCEPT ![jobClaro.l] = 0]
  /\ PassaJob("estado", jobClaro.l)
  /\ UNCHANGED <<zips, marca, servidor, extensao, lote, rodadas, falhasClaro>>
\* no database: back to the queue, and refused at the third time
ExtraiErra ==
  /\ jobClaro.fase = "extrai" /\ FalhaClaro
  /\ LET l == jobClaro.l IN
     IF tentativas[l] + 1 >= 3
     THEN Recusa(l) /\ tentativas' = [tentativas EXCEPT ![l] = 0]
     ELSE /\ lote' = [lote EXCEPT !.pasta = @ \ {l}]
          /\ tentativas' = [tentativas EXCEPT ![l] = @ + 1]
          /\ marca' = Com(Sem(marca, {<<"busy", l>>}), <<"rdy", l>>, marca[<<"busy", l>>])
          /\ PassaJob("parado", 0)
  /\ UNCHANGED <<zips, servidor, extensao, rodadas>>

\* the state file, and only then zip and mark go
GravaEstadoClaro ==
  /\ jobClaro.fase = "estado"
  /\ lote' = [lote EXCEPT !.estado = @ \cup {jobClaro.l}]
  /\ PassaJob("libera", jobClaro.l)
  /\ UNCHANGED <<zips, marca, servidor, extensao, tentativas, rodadas, falhasClaro>>
LiberaDisco ==
  /\ jobClaro.fase = "libera"
  /\ RemoveZip(jobClaro.l) /\ marca' = Sem(marca, {<<"busy", jobClaro.l>>})
  /\ PassaJob("sobe", jobClaro.l)
  /\ UNCHANGED <<extensao, lote, tentativas, rodadas, falhasClaro>>

\* rclone copy and lsf; when one fails the round is over
Sobe ==
  /\ jobClaro.fase = "sobe"
  /\ \/ /\ lote' = [lote EXCEPT !.drive = @ \cup {jobClaro.l}]
        /\ PassaJob("conclui", jobClaro.l) /\ UNCHANGED falhasClaro
     \/ FalhaClaro /\ PassaJob("parado", 0) /\ UNCHANGED lote
  /\ UNCHANGED <<zips, marca, servidor, extensao, tentativas, rodadas>>

\* concluir: the links, done/<seq>, and then the cleaning
Conclui ==
  /\ jobClaro.fase = "conclui"
  /\ IF jobClaro.l \in lote.estado
     THEN \/ /\ lote' = [lote EXCEPT !.feito = @ \cup {jobClaro.l}]
             /\ PassaJob("limpa", jobClaro.l) /\ UNCHANGED falhasClaro
          \/ FalhaClaro /\ PassaJob("parado", 0) /\ UNCHANGED lote
     ELSE PassaJob("parado", 0) /\ UNCHANGED <<lote, falhasClaro>>
  /\ UNCHANGED <<zips, marca, servidor, extensao, tentativas, rodadas>>
Limpa ==
  /\ jobClaro.fase = "limpa"
  /\ \/ /\ jobClaro.l \in lote.pasta
        /\ lote' = [lote EXCEPT !.pasta = @ \ {jobClaro.l}] /\ UNCHANGED jobClaro
     \/ /\ jobClaro.l \notin lote.pasta
        /\ lote' = [lote EXCEPT !.estado = @ \ {jobClaro.l}] /\ PassaJob("prepara", 0)
  /\ UNCHANGED <<zips, marca, servidor, extensao, tentativas, rodadas, falhasClaro>>

\* the backend restarts: the map and its goroutines are gone, and so is processar.py inside it
NoContainer == {"pegou", "extrai", "estado", "libera", "falhou", "conclui", "limpa"}
BackendReinicia ==
  /\ FalhaClaro
  /\ servidor' = [l \in Lotes |-> SemDownload]
  /\ jobClaro' = IF jobClaro.fase \in NoContainer THEN SemJob ELSE jobClaro
  /\ UNCHANGED <<zips, marca, extensao, lote, tentativas, rodadas>>
JobMorre ==
  /\ jobClaro.fase # "parado" /\ FalhaClaro
  /\ jobClaro' = SemJob
  /\ UNCHANGED <<zips, marca, servidor, extensao, lote, tentativas, rodadas>>

PassoDoJob ==
  \/ PreparaPendente \/ PreparaPega \/ PreparaNada \/ Descarta \/ Descompacta \/ RecusaRuim \/ Falhou
  \/ ExtraiNoBanco \/ ExtraiErra \/ GravaEstadoClaro \/ LiberaDisco \/ Sobe \/ Conclui \/ Limpa
ClaroNext ==
  \/ \E l \in Lotes : ServidorAbre(l) \/ ServidorEscreve(l) \/ ServidorErra(l) \/ ServidorRenomeia(l)
                     \/ ServidorMarca(l)
  \/ ExtensaoInicia \/ ExtensaoPede \/ ExtensaoVe \/ ParteStart \/ ParteAcrescenta \/ ParteDone
  \/ ParteMarca \/ ExtensaoTermina
  \/ PassoDoJob \/ BackendReinicia \/ JobMorre

ClaroSpec == ClaroInit /\ [][ClaroNext]_claroVars
-----------------------------------------------------------------------------
(* A lot is closed only when it was extracted from an intact zip and its     *)
(* files are on the Drive, though the server's download and the parts of the *)
(* extension may write one .part together (claro_fila_handler.go:253, 330,   *)
(* processar.py:84-180, 230-253).                                            *)
SoConcluiInteiro == lote.feito \subseteq (lote.inteira \cap lote.drive)

(* A zip marked ready leaves the queue: its lot is closed or was refused,    *)
(* whatever crashed in between (processar.py:84-180, job_claro.sh).          *)
TodoLoteSeResolve ==
  \A l \in Lotes :
    []<>(l \in lote.marcado => /\ l \in lote.feito \cup lote.recusado
                              /\ ~Existe("rdy", l) /\ ~Existe("busy", l) /\ l \notin Pendentes)
=============================================================================
