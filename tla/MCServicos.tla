------------------------------ MODULE MCServicos ------------------------------
(* The services around the queue, side by side: they share no variable, so   *)
(* a behaviour runs one of them and leaves the others in their first state.  *)
(* With them, the core of the movements with one call at a time.             *)
EXTENDS Movimentacao, Protocolos, Rotinas, TarefasVPS, FilaClaro, Recepcao, PortaoIA,
        TarefasAvisos, Vigencias

CONSTANTS Servicos,   \* which of them run
          i1, i2      \* backends

VARIABLE ativo

\* Movimentacao: the beginning, a neighbour, Conciliacao with a wrong decision,
\* a skipped stage, the end with and without a decision
DestinosVariados == {[etapa |-> e[1], aprov |-> e[2]] :
                       e \in {<<1, 0>>, <<2, 0>>, <<3, 2>>, <<5, 0>>, <<6, 0>>, <<6, 2>>}}

\* Protocolos: who runs the routine, which e-mails there are, and how many
\* movements, site lists, administrator's acts, crashes, failed statements and
\* other protocols
TipoDoEmail == <<"registro", "prazo", "resposta">>
CenariosProt ==
  {[backends |-> c[1], emails |-> c[2], movs |-> c[3][1], site |-> c[3][2], atos |-> c[3][3],
    quedas |-> c[4][1], falhas |-> c[4][2], outros |-> c[4][3]] :
     c \in {<<{i1, i2}, {1}, <<0, 0, 0>>, <<0, 0, 1>>>>, <<{i1, i2}, {2}, <<0, 0, 0>>, <<0, 0, 1>>>>,
            <<{i1}, {1, 3}, <<1, 0, 1>>, <<0, 0, 0>>>>, <<{i1}, {3}, <<0, 1, 1>>, <<0, 0, 1>>>>,
            <<{i1}, {}, <<1, 0, 3>>, <<0, 0, 0>>>>, <<{i1}, {1, 3}, <<0, 0, 0>>, <<1, 1, 1>>>>}}

\* Rotinas: kind, operation, human acts, undos and crashes
OrcamentosRot ==
  {[tipo |-> o[1], op |-> o[2], atos |-> o[3], desfazer |-> o[4], quedas |-> o[5], caiu |-> FALSE] :
     o \in {<<"recorrente", "lembrete", 2, 0, 0>>, <<"recorrente", "emails", 1, 1, 0>>,
            <<"unica", "lembrete", 1, 0, 0>>, <<"recorrente", "lembrete", 0, 0, 1>>}}

\* TarefasAvisos: two tasks of one protocol
MesmoProtocolo == [t \in TarefasT |-> "P"]

restoVars == <<ativo, vars, protVars, rotVars, vpsVars, claroVars, recVars, iaVars, avVars, vigVars>>

Quieto(S) ==
  /\ ("movimentacao" \in S => UNCHANGED vars) /\ ("protocolos" \in S => UNCHANGED protVars)
  /\ ("rotinas" \in S => UNCHANGED rotVars) /\ ("vps" \in S => UNCHANGED vpsVars)
  /\ ("claro" \in S => UNCHANGED claroVars) /\ ("recepcao" \in S => UNCHANGED recVars)
  /\ ("ia" \in S => UNCHANGED iaVars) /\ ("avisos" \in S => UNCHANGED avVars)
  /\ ("vigencias" \in S => UNCHANGED vigVars)
Todos == {"movimentacao", "protocolos", "rotinas", "vps", "claro", "recepcao", "ia", "avisos", "vigencias"}
Parados(x) == UNCHANGED ativo /\ Quieto(Todos \ {x})

ServicosInit ==
  /\ ativo \in Servicos
  /\ Init /\ ProtInit /\ RotInit /\ VpsInit /\ ClaroInit /\ RecInit /\ PortaoInit /\ AvInit /\ VigInit
  /\ ativo # "protocolos" => saldo = CHOOSE c \in Cenarios : TRUE
  /\ ativo # "rotinas" => verba = CHOOSE o \in Orcamentos : TRUE
ServicosNext ==
  \/ ativo = "movimentacao" /\ Next /\ Parados("movimentacao")
  \/ ativo = "protocolos" /\ ProtNext /\ Parados("protocolos")
  \/ ativo = "rotinas" /\ RotNext /\ Parados("rotinas")
  \/ ativo = "vps" /\ VpsNext /\ Parados("vps")
  \/ ativo = "claro" /\ ClaroNext /\ Parados("claro")
  \/ ativo = "recepcao" /\ RecNext /\ Parados("recepcao")
  \/ ativo = "ia" /\ PortaoNext /\ Parados("ia")
  \/ ativo = "avisos" /\ AvNext /\ Parados("avisos")
  \/ ativo = "vigencias" /\ VigNext /\ Parados("vigencias")

\* the steps the code keeps taking: the scheduler's round of each backend, the
\* cron of run_jobs, what runs on the host, and the cron of job_claro
ServicosSpec ==
  /\ ServicosInit /\ [][ServicosNext]_restoVars
  /\ \A i \in Instancias : WF_protVars(ativo = "protocolos" /\ i \in saldo.backends /\ PassoDaRodada(i))
  /\ WF_vpsVars(ativo = "vps" /\ PassoRunJobs)
  /\ WF_vpsVars(ativo = "vps" /\ \E k \in Tarefas : PassoDoHost(k))
  /\ WF_claroVars(ativo = "claro" /\ PassoDoJob)
=============================================================================
