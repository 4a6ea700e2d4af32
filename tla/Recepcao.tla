------------------------------- MODULE Recepcao -------------------------------
(* The reception agent: a sweep over the received e-mails without a process  *)
(* decides each text once, alerts the managers and stores the decision under *)
(* a hash of the text. A named lock of the database and the unique key of    *)
(* the log are there against two sweeps of the same box.                     *)
EXTENDS Integers, FiniteSets

CONSTANTS Varreduras,   \* requests to sweep under way
          Textos,       \* received e-mails without a process
          Conexoes,     \* sessions of the pool
          MaxVarreduras, MaxQuedasRec   \* bounds

VARIABLES
  varredura,   \* each request: phase, texts still to do, the current one
  travaRec,    \* GET_LOCK of each text: the session that holds it and how many times
  registro,    \* texts in AGENTE_RECEPCAO_LOG
  avisosRec,   \* rounds of alerts about each text
  reentradas,  \* texts whose lock was granted to a session that had it
  feitasRec, quedasRec

recVars == <<varredura, travaRec, registro, avisosRec, reentradas, feitasRec, quedasRec>>

Ninguem == "ninguem"
ASSUME RecepcaoOK == Ninguem \notin Conexoes /\ MaxVarreduras \in Nat /\ MaxQuedasRec \in Nat

SemVarredura == [fase |-> "livre", lista |-> {}, texto |-> {}]
TravaLivre == [con |-> Ninguem, vezes |-> 0]
RecInit ==
  /\ varredura = [v \in Varreduras |-> SemVarredura]
  /\ travaRec = [t \in Textos |-> TravaLivre]
  /\ registro = {} /\ reentradas = {}
  /\ avisosRec = [t \in Textos |-> 0]
  /\ feitasRec = 0 /\ quedasRec = 0

VaiPara(v, f) == varredura' = [varredura EXCEPT ![v].fase = f]
ProximoEmail(v) == varredura' = [varredura EXCEPT ![v].fase = "proximo", ![v].texto = {}]
DoTexto(v) == CHOOSE t \in Textos : t \in varredura[v].texto

\* VarrerEmailsNaoVinculados: the list is read once
Varre(v) ==
  /\ varredura[v].fase = "livre" /\ feitasRec < MaxVarreduras
  /\ varredura' = [varredura EXCEPT ![v] = [fase |-> "proximo", lista |-> Textos, texto |-> {}]]
  /\ feitasRec' = feitasRec + 1
  /\ UNCHANGED <<travaRec, registro, avisosRec, reentradas, quedasRec>>

\* ProcessarRecepcao, first look: a decision that is stored is returned
JaRegistrada(v) ==
  /\ varredura[v].fase = "proximo"
  /\ \E t \in varredura[v].lista :
       varredura' = [varredura EXCEPT ![v].lista = @ \ {t},
                       ![v].fase = IF t \in registro THEN "proximo" ELSE "trava",
                       ![v].texto = IF t \in registro THEN {} ELSE {t}]
  /\ UNCHANGED <<travaRec, registro, avisosRec, reentradas, feitasRec, quedasRec>>
TerminaVarredura(v) ==
  /\ varredura[v].fase = "proximo" /\ varredura[v].lista = {}
  /\ varredura' = [varredura EXCEPT ![v] = SemVarredura]
  /\ UNCHANGED <<travaRec, registro, avisosRec, reentradas, feitasRec, quedasRec>>

\* GET_LOCK on whichever session the pool gives: free, or that session's own
AdquireTrava(v) ==
  /\ varredura[v].fase = "trava"
  /\ LET t == DoTexto(v) IN \E c \in Conexoes :
       /\ travaRec[t].con \in {Ninguem, c}
       /\ travaRec' = [travaRec EXCEPT ![t] = [con |-> c, vezes |-> @.vezes + 1]]
       /\ reentradas' = IF travaRec[t].con = c THEN reentradas \cup {t} ELSE reentradas
  /\ VaiPara(v, "rechecagem")
  /\ UNCHANGED <<registro, avisosRec, feitasRec, quedasRec>>
\* fifteen seconds: counted as an error, and on to the next e-mail
TravaEsgota(v) ==
  /\ varredura[v].fase = "trava"
  /\ \E c \in Conexoes : travaRec[DoTexto(v)].con \notin {Ninguem, c}
  /\ ProximoEmail(v)
  /\ UNCHANGED <<travaRec, registro, avisosRec, reentradas, feitasRec, quedasRec>>

\* the second look, inside the lock
\* mutant: only the first look
NaoRecheca(v) ==
  /\ varredura[v].fase = "rechecagem"
  /\ VaiPara(v, "avisa")
  /\ UNCHANGED <<travaRec, registro, avisosRec, reentradas, feitasRec, quedasRec>>
Recheca(v) ==
  /\ varredura[v].fase = "rechecagem"
  /\ VaiPara(v, IF DoTexto(v) \in registro THEN "solta" ELSE "avisa")
  /\ UNCHANGED <<travaRec, registro, avisosRec, reentradas, feitasRec, quedasRec>>

\* criarAlertaRecepcao, and then registrarLogRecepcao: INSERT under the unique key, its error only printed
AvisaGestores(v) ==
  /\ varredura[v].fase = "avisa"
  /\ avisosRec' = [avisosRec EXCEPT ![DoTexto(v)] = @ + 1]
  /\ VaiPara(v, "registra")
  /\ UNCHANGED <<travaRec, registro, reentradas, feitasRec, quedasRec>>
RegistraDecisao(v) ==
  /\ varredura[v].fase = "registra"
  /\ \/ registro' = registro \cup {DoTexto(v)} /\ UNCHANGED quedasRec
     \/ quedasRec < MaxQuedasRec /\ quedasRec' = quedasRec + 1 /\ UNCHANGED registro
  /\ VaiPara(v, "solta")
  /\ UNCHANGED <<travaRec, avisosRec, reentradas, feitasRec>>

\* RELEASE_LOCK on whichever session: nothing happens when it is not the holder's
SoltaTrava(v) ==
  /\ varredura[v].fase = "solta"
  /\ LET t == DoTexto(v) IN \E c \in Conexoes :
       travaRec' = IF travaRec[t].con # c THEN travaRec
                   ELSE IF travaRec[t].vezes = 1 THEN [travaRec EXCEPT ![t] = TravaLivre]
                   ELSE [travaRec EXCEPT ![t].vezes = @ - 1]
  /\ ProximoEmail(v)
  /\ UNCHANGED <<registro, avisosRec, reentradas, feitasRec, quedasRec>>

\* the pool closes a session (idle, lifetime): its locks go
ConexaoFecha(c) ==
  /\ quedasRec < MaxQuedasRec /\ \E t \in Textos : travaRec[t].con = c
  /\ travaRec' = [t \in Textos |-> IF travaRec[t].con = c THEN TravaLivre ELSE travaRec[t]]
  /\ quedasRec' = quedasRec + 1
  /\ UNCHANGED <<varredura, registro, avisosRec, reentradas, feitasRec>>
\* the backend restarts: sessions and requests are gone
RecepcaoCai ==
  /\ quedasRec < MaxQuedasRec /\ \E v \in Varreduras : varredura[v].fase # "livre"
  /\ varredura' = [v \in Varreduras |-> SemVarredura]
  /\ travaRec' = [t \in Textos |-> TravaLivre]
  /\ quedasRec' = quedasRec + 1
  /\ UNCHANGED <<registro, avisosRec, reentradas, feitasRec>>

RecNext ==
  \/ \E v \in Varreduras :
       \/ Varre(v) \/ JaRegistrada(v) \/ TerminaVarredura(v) \/ AdquireTrava(v) \/ TravaEsgota(v)
       \/ Recheca(v) \/ AvisaGestores(v) \/ RegistraDecisao(v) \/ SoltaTrava(v)
  \/ (\E c \in Conexoes : ConexaoFecha(c)) \/ RecepcaoCai

RecSpec == RecInit /\ [][RecNext]_recVars
-----------------------------------------------------------------------------
(* A text alerts the managers twice only if something broke the lock: the    *)
(* pool gave the second sweep the session that held it, a session closed,    *)
(* the log failed or the backend fell between the alert and the log          *)
(* (agente_recepcao_service.go:67-139, 316-327).                             *)
RepeteSoSemTrava == \A t \in Textos : avisosRec[t] > 1 => (t \in reentradas \/ quedasRec > 0)

(* agente_recepcao_service.go:65 promises that the same e-mail is not        *)
(* processed again, a sweep run twice included: while nothing falls, one     *)
(* round of alerts per text.                                                 *)
UmAvisoPorTexto == quedasRec = 0 => \A t \in Textos : avisosRec[t] <= 1
=============================================================================
