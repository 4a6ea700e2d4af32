----------------------------- MODULE TarefasVPS -----------------------------
(* The long task of the host, pdf_pipeline: the button that asks for it, the *)
(* run_jobs of every minute that starts it in the background and closes its  *)
(* request when the process is gone, and the state file that ties the two.   *)
(* run_jobs holds a flock, so there is one at a time; a background process   *)
(* outlives it.                                                              *)
EXTENDS Integers, Sequences, FiniteSets

CONSTANTS Cliques,     \* clicks of the button under way at once
          MaxTarefas,  \* bound: requests
          MaxPanes     \* bound: crashes of run_jobs, reboots and reused pids

VARIABLES
  filaVPS,   \* status of each request of the job in FT_SOLICITACOES
  clique,    \* RodarTarefaVPS between its SELECT and its INSERT
  runJobs,   \* where run_jobs is, and with which request
  arquivos,  \* requests with a state file
  pipeline,  \* the background process of each request
  reusado,   \* requests whose pid belongs to another job_ process by now
  orfas,     \* requests whose run_jobs died before the state file
  panes      \* failures so far

vpsVars == <<filaVPS, clique, runJobs, arquivos, pipeline, reusado, orfas, panes>>

Tarefas == 1..MaxTarefas
Abertas == {"aprovado", "executando"}
Fechado == {"executado", "erro"}

ASSUME TarefasOK == MaxTarefas \in Nat /\ MaxPanes \in Nat

SemRunJobs == [fase |-> "parado", lista |-> {}, sid |-> 0]

VpsInit ==
  /\ filaVPS = <<>>
  /\ clique = [c \in Cliques |-> "livre"]
  /\ runJobs = SemRunJobs
  /\ arquivos = {} /\ reusado = {} /\ orfas = {}
  /\ pipeline = [k \in Tarefas |-> "nao"]
  /\ panes = 0

Pane == panes < MaxPanes /\ panes' = panes + 1
-----------------------------------------------------------------------------
(* RodarTarefaVPS                                                            *)

\* "uma de cada vez": 409 while one is open
ClicaOlha(c) ==
  /\ clique[c] = "livre"
  /\ \A k \in DOMAIN filaVPS : filaVPS[k] \notin Abertas
  /\ clique' = [clique EXCEPT ![c] = "viu"]
  /\ UNCHANGED <<filaVPS, runJobs, arquivos, pipeline, reusado, orfas, panes>>
ClicaInsere(c) ==
  /\ clique[c] = "viu" /\ Len(filaVPS) < MaxTarefas
  /\ filaVPS' = Append(filaVPS, "aprovado")
  /\ clique' = [clique EXCEPT ![c] = "livre"]
  /\ UNCHANGED <<runJobs, arquivos, pipeline, reusado, orfas, panes>>
-----------------------------------------------------------------------------
(* run_jobs.py                                                               *)

Segue(f) == runJobs' = [runJobs EXCEPT !.fase = f]

\* main: connect, and look at the state files
RunJobsInicia ==
  /\ runJobs.fase = "parado"
  /\ runJobs' = [SemRunJobs EXCEPT !.fase = "acompanha", !.lista = arquivos]
  /\ UNCHANGED <<filaVPS, clique, arquivos, pipeline, reusado, orfas, panes>>

\* kill(pid, 0), and a command line with "job_"
\* mutant: only a pid that changed hands counts
VivoSeReusado(k) == k \in reusado
Vivo(k) == pipeline[k] = "rodando" \/ k \in reusado

\* progress of a live one; the end of a dead one, as the log after its offset says
AcompanhaVivo ==
  /\ runJobs.fase = "acompanha"
  /\ \E k \in runJobs.lista : Vivo(k) /\ runJobs' = [runJobs EXCEPT !.lista = @ \ {k}]
  /\ UNCHANGED <<filaVPS, clique, arquivos, pipeline, reusado, orfas, panes>>
\* mutant: the state file goes first
AcompanhaFechaDepois ==
  /\ runJobs.fase = "acompanha"
  /\ \E k \in runJobs.lista, st \in Fechado :
       /\ ~Vivo(k) /\ arquivos' = arquivos \ {k}
       /\ IF k \in arquivos THEN UNCHANGED <<filaVPS, runJobs>>
          ELSE /\ filaVPS' = [filaVPS EXCEPT ![k] = st]
               /\ runJobs' = [runJobs EXCEPT !.fase = "fechou", !.sid = k]
  /\ UNCHANGED <<clique, pipeline, reusado, orfas, panes>>
AcompanhaFecha ==
  /\ runJobs.fase = "acompanha"
  /\ \E k \in runJobs.lista, st \in Fechado :
       /\ ~Vivo(k)
       /\ filaVPS' = [filaVPS EXCEPT ![k] = st]
       /\ runJobs' = [runJobs EXCEPT !.fase = "fechou", !.sid = k]
  /\ UNCHANGED <<clique, arquivos, pipeline, reusado, orfas, panes>>
AcompanhaRemove ==
  /\ runJobs.fase = "fechou"
  /\ arquivos' = arquivos \ {runJobs.sid}
  /\ runJobs' = [runJobs EXCEPT !.fase = "acompanha", !.lista = @ \ {runJobs.sid}]
  /\ UNCHANGED <<filaVPS, clique, pipeline, reusado, orfas, panes>>

\* pegar: the oldest approved task is reserved
Pega ==
  /\ runJobs.fase \in {"acompanha", "proxima"} /\ runJobs.lista = {}
  /\ \E k \in DOMAIN filaVPS :
       /\ filaVPS[k] = "aprovado" /\ \A j \in 1..(k - 1) : filaVPS[j] # "aprovado"
       /\ filaVPS' = [filaVPS EXCEPT ![k] = "executando"]
       /\ runJobs' = [runJobs EXCEPT !.fase = "pegou", !.sid = k]
  /\ UNCHANGED <<clique, arquivos, pipeline, reusado, orfas, panes>>

\* iniciar_fundo: Popen, and then the state file
SoltaFundo ==
  /\ runJobs.fase = "pegou"
  /\ pipeline' = [pipeline EXCEPT ![runJobs.sid] = "rodando"]
  /\ Segue("soltou")
  /\ UNCHANGED <<filaVPS, clique, arquivos, reusado, orfas, panes>>
GuardaEstado ==
  /\ runJobs.fase = "soltou"
  /\ arquivos' = arquivos \cup {runJobs.sid}
  /\ Segue("proxima")
  /\ UNCHANGED <<filaVPS, clique, pipeline, reusado, orfas, panes>>

\* the script is not on the host: the request is closed at once
FaltaScript ==
  /\ runJobs.fase = "pegou"
  /\ filaVPS' = [filaVPS EXCEPT ![runJobs.sid] = "erro"]
  /\ Segue("proxima")
  /\ UNCHANGED <<clique, arquivos, pipeline, reusado, orfas, panes>>

RunJobsTermina ==
  /\ runJobs.fase \in {"acompanha", "proxima"} /\ runJobs.lista = {}
  /\ \A k \in DOMAIN filaVPS : filaVPS[k] # "aprovado"
  /\ runJobs' = SemRunJobs
  /\ UNCHANGED <<filaVPS, clique, arquivos, pipeline, reusado, orfas, panes>>

EmRisco == IF runJobs.fase \in {"pegou", "soltou"} THEN {runJobs.sid} ELSE {}
RunJobsMorre ==
  /\ runJobs.fase # "parado" /\ Pane
  /\ orfas' = orfas \cup EmRisco
  /\ runJobs' = SemRunJobs
  /\ UNCHANGED <<filaVPS, clique, arquivos, pipeline, reusado>>
-----------------------------------------------------------------------------
(* The host                                                                  *)

\* the pipeline ends, is killed, or leaves because another one holds its flock
ProcessoTermina(k) ==
  /\ pipeline[k] = "rodando"
  /\ pipeline' = [pipeline EXCEPT ![k] = "fim"]
  /\ UNCHANGED <<filaVPS, clique, runJobs, arquivos, reusado, orfas, panes>>
\* another job_ script gets the pid, for a while
PidReusado(k) ==
  /\ pipeline[k] = "fim" /\ k \notin reusado /\ Pane
  /\ reusado' = reusado \cup {k}
  /\ UNCHANGED <<filaVPS, clique, runJobs, arquivos, pipeline, orfas>>
PidLivre(k) ==
  /\ k \in reusado /\ reusado' = reusado \ {k}
  /\ UNCHANGED <<filaVPS, clique, runJobs, arquivos, pipeline, orfas, panes>>
HostReinicia ==
  /\ Pane
  /\ pipeline' = [k \in Tarefas |-> IF pipeline[k] = "rodando" THEN "fim" ELSE pipeline[k]]
  /\ reusado' = {} /\ runJobs' = SemRunJobs
  /\ orfas' = orfas \cup EmRisco
  /\ UNCHANGED <<filaVPS, clique, arquivos>>

PassoRunJobs ==
  \/ RunJobsInicia \/ AcompanhaVivo \/ AcompanhaFecha \/ AcompanhaRemove \/ Pega
  \/ SoltaFundo \/ GuardaEstado \/ FaltaScript \/ RunJobsTermina
PassoDoHost(k) == ProcessoTermina(k) \/ PidLivre(k)

VpsNext ==
  \/ \E c \in Cliques : ClicaOlha(c) \/ ClicaInsere(c)
  \/ PassoRunJobs \/ RunJobsMorre \/ HostReinicia
  \/ \E k \in Tarefas : PassoDoHost(k) \/ PidReusado(k)

VpsSpec == VpsInit /\ [][VpsNext]_vpsVars
-----------------------------------------------------------------------------
(* A request of the background task is not closed while its process still    *)
(* runs, whichever run_jobs died, with files left over or a pid that changed *)
(* hands (run_jobs.py:149-158, 178-207).                                     *)
FechaSoDepoisDoFim ==
  \A k \in DOMAIN filaVPS : filaVPS[k] \in Fechado => pipeline[k] # "rodando"

Presas == {k \in DOMAIN filaVPS \ orfas : filaVPS[k] = "executando"}

(* Requests that were taken are closed in the end; only one whose run_jobs   *)
(* died between the reservation and the state file stays open                *)
(* (run_jobs.py:127-146, 178-207, 255-280).                                  *)
TodaTarefaFecha == []<>(Presas = {})
=============================================================================
