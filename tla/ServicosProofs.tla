---------------------------- MODULE ServicosProofs ----------------------------
(* Four services for any number of actors: the named lock of the reception,  *)
(* the gate of the language model, the percentages of a company and the      *)
(* background task of the host.                                              *)
EXTENDS Recepcao, PortaoIA, Vigencias, TarefasVPS, FiniteSetTheorems, TLAPS
-----------------------------------------------------------------------------
(* Recepcao for any number of sweeps, texts and sessions: the named lock and *)
(* the second look are enough as long as the pool does not give a sweep the  *)
(* session that already holds its lock.                                      *)

Dentro == {"rechecagem", "avisa", "registra", "solta"}
RecTipo ==
  /\ varredura \in [Varreduras -> [fase : {"livre", "proximo", "trava"} \cup Dentro, lista : SUBSET Textos,
                                   texto : {{}} \cup {{t} : t \in Textos}]]
  /\ \A v \in Varreduras : varredura[v].fase \in Dentro \cup {"trava"} =>
                             \E t \in Textos : varredura[v].texto = {t}
  /\ travaRec \in [Textos -> [con : Conexoes \cup {Ninguem}, vezes : Int]]
  /\ avisosRec \in [Textos -> Nat] /\ quedasRec \in Nat

(* Sweep v is between the lock and the release of text t.                    *)
Em(v, t) == varredura[v].fase \in Dentro /\ varredura[v].texto = {t}

(* What the lock gives to a text whose lock was never shared.                *)
Exclusao(t) ==
  /\ \A v, w \in Varreduras : Em(v, t) /\ Em(w, t) => v = w
  /\ \A v \in Varreduras : Em(v, t) => travaRec[t].con # Ninguem
(* An alert is stored, or its sweep is about to store it.                    *)
AvisoUnico(t) ==
  /\ \/ avisosRec[t] = 0
     \/ /\ avisosRec[t] = 1
        /\ t \in registro \/ \E v \in Varreduras : Em(v, t) /\ varredura[v].fase = "registra"
  /\ \A v \in Varreduras : Em(v, t) /\ varredura[v].fase = "avisa" => avisosRec[t] = 0

Guardado(t) == (quedasRec = 0 /\ t \notin reentradas) => Exclusao(t) /\ AvisoUnico(t)
RecInv == RecTipo /\ \A t \in Textos : Guardado(t)

LEMMA UmTexto ==
  ASSUME NEW v \in Varreduras, NEW t \in Textos, varredura[v].texto = {t}
  PROVE  DoTexto(v) = t
BY DEF DoTexto

(* A sweep that only changes phase keeps the form of the sweeps.             *)
LEMMA MudaFase ==
  ASSUME RecTipo, NEW v \in Varreduras, NEW f \in Dentro, varredura[v].fase \in Dentro \cup {"trava"},
         VaiPara(v, f)
  PROVE  /\ varredura' \in [Varreduras -> [fase : {"livre", "proximo", "trava"} \cup Dentro, lista : SUBSET Textos,
                                           texto : {{}} \cup {{t} : t \in Textos}]]
         /\ \A w \in Varreduras : varredura'[w].fase \in Dentro \cup {"trava"} =>
                                    \E t \in Textos : varredura'[w].texto = {t}
         /\ varredura'[v].fase = f /\ varredura'[v].texto = varredura[v].texto
         /\ \A w \in Varreduras \ {v} : varredura'[w] = varredura[w]
BY DEF RecTipo, VaiPara

(* A sweep that leaves the lock is in no text.                               *)
LEMMA VaiAoProximo ==
  ASSUME RecTipo, NEW v \in Varreduras, ProximoEmail(v)
  PROVE  /\ varredura' \in [Varreduras -> [fase : {"livre", "proximo", "trava"} \cup Dentro, lista : SUBSET Textos,
                                           texto : {{}} \cup {{t} : t \in Textos}]]
         /\ \A w \in Varreduras : varredura'[w].fase \in Dentro \cup {"trava"} =>
                                    \E t \in Textos : varredura'[w].texto = {t}
         /\ varredura'[v].fase = "proximo"
         /\ \A w \in Varreduras \ {v} : varredura'[w] = varredura[w]
BY DEF RecTipo, ProximoEmail, Dentro

(* While nobody enters a text, no alert is sent and nothing is forgotten,    *)
(* a text stays guarded.                                                     *)
LEMMA NadaMuda ==
  ASSUME RecInv, NEW t \in Textos, travaRec'[t] = travaRec[t], registro' = registro,
         avisosRec' = avisosRec, reentradas' = reentradas, quedasRec' = quedasRec,
         \A w \in Varreduras : \/ varredura'[w] = varredura[w]
                               \/ ~Em(w, t) /\ ~Em(w, t)'
  PROVE  Guardado(t)'
BY DEF RecInv, Guardado, Exclusao, AvisoUnico, Em

(* Managers are alerted twice about a text only after the pool gave a sweep  *)
(* the session that held its lock, or something fell                         *)
(* (agente_recepcao_service.go:67-139, 316-327).                             *)
THEOREM SempreRepeteSoSemTrava == RecSpec => []RepeteSoSemTrava
<1>1. RecInit => RecInv
  BY DEF RecInit, RecInv, RecTipo, Guardado, Exclusao, AvisoUnico, Em, SemVarredura, TravaLivre, Dentro
<1>2. RecInv /\ [RecNext]_recVars => RecInv'
  <2> SUFFICES ASSUME RecInv, [RecNext]_recVars PROVE RecInv'
    OBVIOUS
  <2>1. CASE UNCHANGED recVars
    BY <2>1 DEF recVars, RecInv, RecTipo, Guardado, Exclusao, AvisoUnico, Em
  <2>2. ASSUME NEW v \in Varreduras, Varre(v) PROVE RecInv'
    <3>1. varredura' = [varredura EXCEPT ![v] = [fase |-> "proximo", lista |-> Textos, texto |-> {}]]
      BY <2>2 DEF Varre
    <3>2. RecTipo'
      BY <2>2, <3>1 DEF Varre, RecInv, RecTipo, Dentro
    <3>3. \A w \in Varreduras : varredura'[w] = varredura[w]
                                \/ (varredura[w].fase \notin Dentro /\ varredura'[w].fase \notin Dentro)
      <4>1. varredura[v].fase \notin Dentro
        BY <2>2 DEF Varre, Dentro
      <4>2. varredura'[v].fase \notin Dentro /\ \A w \in Varreduras \ {v} : varredura'[w] = varredura[w]
        BY <3>1 DEF RecInv, RecTipo, Dentro
      <4> QED
        BY <4>1, <4>2
    <3> QED
      BY <2>2, <3>2, <3>3, NadaMuda DEF Varre, RecInv, Em
  <2>3. ASSUME NEW v \in Varreduras, JaRegistrada(v) PROVE RecInv'
    <3>1. PICK t \in varredura[v].lista :
             varredura' = [varredura EXCEPT ![v].lista = @ \ {t},
                             ![v].fase = IF t \in registro THEN "proximo" ELSE "trava",
                             ![v].texto = IF t \in registro THEN {} ELSE {t}]
      BY <2>3 DEF JaRegistrada
    <3>2. /\ varredura'[v] = [fase |-> IF t \in registro THEN "proximo" ELSE "trava",
                              lista |-> varredura[v].lista \ {t},
                              texto |-> IF t \in registro THEN {} ELSE {t}]
          /\ varredura' = [varredura EXCEPT ![v] = varredura'[v]]
      BY <3>1 DEF RecInv, RecTipo
    <3>3. RecTipo'
      BY <2>3, <3>2 DEF JaRegistrada, RecInv, RecTipo, Dentro
    <3>4. \A w \in Varreduras : varredura'[w] = varredura[w]
                                \/ (varredura[w].fase \notin Dentro /\ varredura'[w].fase \notin Dentro)
      <4>1. varredura[v].fase \notin Dentro
        BY <2>3 DEF JaRegistrada, Dentro
      <4>2. varredura'[v].fase \notin Dentro /\ \A w \in Varreduras \ {v} : varredura'[w] = varredura[w]
        BY <3>2 DEF RecInv, RecTipo, Dentro
      <4> QED
        BY <4>1, <4>2
    <3> QED
      BY <2>3, <3>3, <3>4, NadaMuda DEF JaRegistrada, RecInv, Em
  <2>4. ASSUME NEW v \in Varreduras, TerminaVarredura(v) PROVE RecInv'
    <3>1. varredura' = [varredura EXCEPT ![v] = [fase |-> "livre", lista |-> {}, texto |-> {}]]
      BY <2>4 DEF TerminaVarredura, SemVarredura
    <3>2. RecTipo'
      BY <2>4, <3>1 DEF TerminaVarredura, RecInv, RecTipo, Dentro
    <3>3. \A w \in Varreduras : varredura'[w] = varredura[w]
                                \/ (varredura[w].fase \notin Dentro /\ varredura'[w].fase \notin Dentro)
      <4>1. varredura[v].fase \notin Dentro
        BY <2>4 DEF TerminaVarredura, Dentro
      <4>2. varredura'[v].fase \notin Dentro /\ \A w \in Varreduras \ {v} : varredura'[w] = varredura[w]
        BY <3>1 DEF RecInv, RecTipo, Dentro
      <4> QED
        BY <4>1, <4>2
    <3> QED
      BY <2>4, <3>2, <3>3, NadaMuda DEF TerminaVarredura, RecInv, Em
  <2>5. ASSUME NEW v \in Varreduras, AdquireTrava(v) PROVE RecInv'
    <3>1. PICK t \in Textos : varredura[v].texto = {t}
      BY <2>5 DEF AdquireTrava, RecInv, RecTipo
    <3>2. DoTexto(v) = t
      BY <3>1, UmTexto
    <3>3. PICK c \in Conexoes :
             /\ travaRec[t].con \in {Ninguem, c}
             /\ travaRec' = [travaRec EXCEPT ![t] = [con |-> c, vezes |-> @.vezes + 1]]
             /\ reentradas' = IF travaRec[t].con = c THEN reentradas \cup {t} ELSE reentradas
      BY <2>5, <3>2 DEF AdquireTrava
    <3>4. /\ registro' = registro /\ avisosRec' = avisosRec /\ quedasRec' = quedasRec
          /\ varredura[v].fase = "trava"
      BY <2>5 DEF AdquireTrava
    <3>5. /\ varredura' \in [Varreduras -> [fase : {"livre", "proximo", "trava"} \cup Dentro, lista : SUBSET Textos,
                                            texto : {{}} \cup {{x} : x \in Textos}]]
          /\ \A w \in Varreduras : varredura'[w].fase \in Dentro \cup {"trava"} =>
                                     \E x \in Textos : varredura'[w].texto = {x}
          /\ varredura'[v].fase = "rechecagem" /\ varredura'[v].texto = {t}
          /\ \A w \in Varreduras \ {v} : varredura'[w] = varredura[w]
      BY <2>5, <3>1, MudaFase DEF AdquireTrava, RecInv, Dentro
    <3>6. /\ travaRec' \in [Textos -> [con : Conexoes \cup {Ninguem}, vezes : Int]]
          /\ travaRec'[t].con = c /\ \A x \in Textos \ {t} : travaRec'[x] = travaRec[x]
      BY <3>3 DEF RecInv, RecTipo
    <3>7. RecTipo'
      BY <3>4, <3>5, <3>6 DEF RecInv, RecTipo
    <3>8. ASSUME NEW x \in Textos, x # t PROVE Guardado(x)'
      <4>1. \A w \in Varreduras : Em(w, x)' <=> Em(w, x)
        BY <3>1, <3>5, <3>8 DEF Em
      <4>2. x \notin reentradas' => x \notin reentradas
        BY <3>3
      <4>3. \A w \in Varreduras : Em(w, x) => varredura'[w] = varredura[w]
        BY <3>1, <3>5, <3>8 DEF Em
      <4> QED
        BY <3>4, <3>6, <3>8, <4>1, <4>2, <4>3 DEF RecInv, Guardado, Exclusao, AvisoUnico
    <3>9. Guardado(t)'
      <4> SUFFICES ASSUME quedasRec = 0, t \notin reentradas' PROVE Exclusao(t)' /\ AvisoUnico(t)'
        BY <3>4 DEF Guardado
      <4>1. travaRec[t].con # c /\ t \notin reentradas
        BY <3>3
      <4>2. travaRec[t].con = Ninguem
        BY <3>3, <4>1
      <4>3. Exclusao(t) /\ AvisoUnico(t)
        BY <4>1 DEF RecInv, Guardado
      <4>4. \A w \in Varreduras : ~Em(w, t)
        BY <4>2, <4>3 DEF Exclusao
      <4>5. \A w \in Varreduras : Em(w, t)' => w = v
        BY <3>5, <4>4 DEF Em
      <4>6. Exclusao(t)'
        BY <3>3, <3>6, <4>5, RecepcaoOK DEF Exclusao
      <4>7. AvisoUnico(t)'
        BY <3>4, <3>5, <4>3, <4>4, <4>5 DEF AvisoUnico
      <4> QED
        BY <4>6, <4>7
    <3> QED
      BY <3>7, <3>8, <3>9 DEF RecInv
  <2>6. ASSUME NEW v \in Varreduras, TravaEsgota(v) PROVE RecInv'
    <3>1. /\ registro' = registro /\ avisosRec' = avisosRec /\ quedasRec' = quedasRec
          /\ reentradas' = reentradas /\ travaRec' = travaRec /\ varredura[v].fase = "trava"
      BY <2>6 DEF TravaEsgota
    <3>2. /\ RecTipo'
          /\ varredura'[v].fase = "proximo" /\ \A w \in Varreduras \ {v} : varredura'[w] = varredura[w]
      BY <2>6, <3>1, VaiAoProximo DEF TravaEsgota, RecInv, RecTipo
    <3> QED
      BY <3>1, <3>2, NadaMuda DEF RecInv, Em, Dentro
  <2>7. ASSUME NEW v \in Varreduras, Recheca(v) PROVE RecInv'
    <3>1. PICK t \in Textos : varredura[v].texto = {t}
      BY <2>7 DEF Recheca, RecInv, RecTipo, Dentro
    <3>2. DoTexto(v) = t
      BY <3>1, UmTexto
    <3> DEFINE f == IF t \in registro THEN "solta" ELSE "avisa"
    <3>3. /\ registro' = registro /\ avisosRec' = avisosRec /\ quedasRec' = quedasRec
          /\ reentradas' = reentradas /\ travaRec' = travaRec
          /\ varredura[v].fase = "rechecagem" /\ VaiPara(v, f)
      BY <2>7, <3>2 DEF Recheca
    <3>4. f \in Dentro /\ varredura[v].fase \in Dentro
      BY <3>3 DEF Dentro
    <3>5. /\ RecTipo' /\ varredura'[v].fase = f /\ varredura'[v].texto = {t}
          /\ \A w \in Varreduras \ {v} : varredura'[w] = varredura[w]
      BY <3>1, <3>3, <3>4, MudaFase DEF RecInv, RecTipo
    <3>6. ASSUME NEW x \in Textos, x # t PROVE Guardado(x)'
      BY <3>1, <3>3, <3>5, <3>6, NadaMuda DEF Em
    <3>7. Guardado(t)'
      <4> SUFFICES ASSUME quedasRec = 0, t \notin reentradas PROVE Exclusao(t)' /\ AvisoUnico(t)'
        BY <3>3 DEF Guardado
      <4>1. Exclusao(t) /\ AvisoUnico(t)
        BY DEF RecInv, Guardado
      <4>2. Em(v, t) /\ \A w \in Varreduras : Em(w, t) => w = v
        BY <3>1, <3>4, <4>1 DEF Exclusao, Em
      <4>3. \A w \in Varreduras : Em(w, t)' => w = v
        BY <3>5, <4>2 DEF Em
      <4>4. avisosRec[t] = 0 \/ (avisosRec[t] = 1 /\ t \in registro)
        <5>1. \A w \in Varreduras : ~(Em(w, t) /\ varredura[w].fase = "registra")
          BY <3>3, <4>2
        <5> QED
          BY <4>1, <5>1 DEF AvisoUnico
      <4>5. AvisoUnico(t)'
        BY <3>3, <3>5, <4>3, <4>4 DEF AvisoUnico
      <4> QED
        BY <3>3, <4>1, <4>2, <4>3, <4>5 DEF Exclusao
    <3> QED
      BY <3>5, <3>6, <3>7 DEF RecInv
  <2>8. ASSUME NEW v \in Varreduras, AvisaGestores(v) PROVE RecInv'
    <3>1. PICK t \in Textos : varredura[v].texto = {t}
      BY <2>8 DEF AvisaGestores, RecInv, RecTipo, Dentro
    <3>2. DoTexto(v) = t
      BY <3>1, UmTexto
    <3>3. /\ registro' = registro /\ avisosRec' = [avisosRec EXCEPT ![t] = @ + 1] /\ quedasRec' = quedasRec
          /\ reentradas' = reentradas /\ travaRec' = travaRec
          /\ varredura[v].fase = "avisa" /\ VaiPara(v, "registra")
      BY <2>8, <3>2 DEF AvisaGestores
    <3>4. avisosRec' \in [Textos -> Nat] /\ avisosRec'[t] = avisosRec[t] + 1
          /\ \A x \in Textos \ {t} : avisosRec'[x] = avisosRec[x]
      BY <3>3 DEF RecInv, RecTipo
    <3>5. /\ RecTipo' /\ varredura'[v].fase = "registra" /\ varredura'[v].texto = {t}
          /\ \A w \in Varreduras \ {v} : varredura'[w] = varredura[w]
      BY <3>1, <3>3, <3>4, MudaFase DEF RecInv, RecTipo, Dentro
    <3>6. ASSUME NEW x \in Textos, x # t PROVE Guardado(x)'
      <4>1. \A w \in Varreduras : Em(w, x)' <=> Em(w, x)
        BY <3>1, <3>5, <3>6 DEF Em
      <4>2. \A w \in Varreduras : Em(w, x) => varredura'[w] = varredura[w]
        BY <3>1, <3>5, <3>6 DEF Em
      <4> QED
        BY <3>3, <3>4, <3>6, <4>1, <4>2 DEF RecInv, Guardado, Exclusao, AvisoUnico
    <3>7. Guardado(t)'
      <4> SUFFICES ASSUME quedasRec = 0, t \notin reentradas PROVE Exclusao(t)' /\ AvisoUnico(t)'
        BY <3>3 DEF Guardado
      <4>1. Exclusao(t) /\ AvisoUnico(t)
        BY DEF RecInv, Guardado
      <4>2. Em(v, t) /\ \A w \in Varreduras : Em(w, t) => w = v
        BY <3>1, <3>3, <4>1 DEF Exclusao, Em, Dentro
      <4>3. Em(v, t)' /\ \A w \in Varreduras : Em(w, t)' => w = v
        BY <3>5, <4>2 DEF Em, Dentro
      <4>4. avisosRec[t] = 0
        BY <3>3, <4>1, <4>2 DEF AvisoUnico
      <4>5. AvisoUnico(t)'
        BY <3>4, <3>5, <4>3, <4>4 DEF AvisoUnico
      <4> QED
        BY <3>3, <4>1, <4>2, <4>3, <4>5 DEF Exclusao
    <3> QED
      BY <3>5, <3>6, <3>7 DEF RecInv
  <2>9. ASSUME NEW v \in Varreduras, RegistraDecisao(v) PROVE RecInv'
    <3>1. PICK t \in Textos : varredura[v].texto = {t}
      BY <2>9 DEF RegistraDecisao, RecInv, RecTipo, Dentro
    <3>2. DoTexto(v) = t
      BY <3>1, UmTexto
    <3>3. /\ avisosRec' = avisosRec /\ reentradas' = reentradas /\ travaRec' = travaRec
          /\ varredura[v].fase = "registra" /\ VaiPara(v, "solta")
          /\ \/ registro' = registro \cup {t} /\ quedasRec' = quedasRec
             \/ quedasRec' = quedasRec + 1
      BY <2>9, <3>2 DEF RegistraDecisao
    <3>4. /\ RecTipo' /\ varredura'[v].fase = "solta" /\ varredura'[v].texto = {t}
          /\ \A w \in Varreduras \ {v} : varredura'[w] = varredura[w]
      <4>1. quedasRec' \in Nat
        BY <3>3 DEF RecInv, RecTipo
      <4>2. varredura[v].fase \in Dentro /\ "solta" \in Dentro /\ RecTipo
        BY <3>3 DEF RecInv, Dentro
      <4>3. VaiPara(v, "solta") /\ avisosRec' = avisosRec /\ travaRec' = travaRec
        BY <3>3
      <4> QED
        BY <3>1, <4>1, <4>2, <4>3, MudaFase DEF RecTipo
    <3>5. CASE quedasRec' = quedasRec + 1
      BY <3>4, <3>5 DEF RecInv, RecTipo, Guardado
    <3>6. CASE registro' = registro \cup {t} /\ quedasRec' = quedasRec
      <4>1. ASSUME NEW x \in Textos, x # t PROVE Guardado(x)'
        <5>1. \A w \in Varreduras : Em(w, x)' <=> Em(w, x)
          BY <3>1, <3>4, <4>1 DEF Em
        <5>2. \A w \in Varreduras : Em(w, x) => varredura'[w] = varredura[w]
          BY <3>1, <3>4, <4>1 DEF Em
        <5> QED
          BY <3>3, <3>6, <4>1, <5>1, <5>2 DEF RecInv, Guardado, Exclusao, AvisoUnico
      <4>2. Guardado(t)'
        <5> SUFFICES ASSUME quedasRec = 0, t \notin reentradas PROVE Exclusao(t)' /\ AvisoUnico(t)'
          BY <3>3, <3>6 DEF Guardado
        <5>1. Exclusao(t) /\ AvisoUnico(t)
          BY DEF RecInv, Guardado
        <5>2. Em(v, t) /\ \A w \in Varreduras : Em(w, t) => w = v
          BY <3>1, <3>3, <5>1 DEF Exclusao, Em, Dentro
        <5>3. \A w \in Varreduras : Em(w, t)' => w = v
          BY <3>4, <5>2 DEF Em
        <5>4. AvisoUnico(t)'
          BY <3>3, <3>4, <3>6, <5>1, <5>3 DEF AvisoUnico
        <5> QED
          BY <3>3, <5>1, <5>2, <5>3, <5>4 DEF Exclusao
      <4> QED
        BY <3>4, <4>1, <4>2 DEF RecInv
    <3> QED
      BY <3>3, <3>5, <3>6
  <2>10. ASSUME NEW v \in Varreduras, SoltaTrava(v) PROVE RecInv'
    <3>1. PICK t \in Textos : varredura[v].texto = {t}
      BY <2>10 DEF SoltaTrava, RecInv, RecTipo, Dentro
    <3>2. DoTexto(v) = t
      BY <3>1, UmTexto
    <3>3. PICK c \in Conexoes :
            travaRec' = IF travaRec[t].con # c THEN travaRec
                        ELSE IF travaRec[t].vezes = 1 THEN [travaRec EXCEPT ![t] = TravaLivre]
                        ELSE [travaRec EXCEPT ![t].vezes = @ - 1]
      BY <2>10, <3>2 DEF SoltaTrava
    <3>4. /\ registro' = registro /\ avisosRec' = avisosRec /\ quedasRec' = quedasRec
          /\ reentradas' = reentradas /\ varredura[v].fase = "solta"
      BY <2>10 DEF SoltaTrava
    <3>5. \A x \in Textos \ {t} : travaRec'[x] = travaRec[x]
      BY <3>3 DEF RecInv, RecTipo
    <3>6. travaRec' \in [Textos -> [con : Conexoes \cup {Ninguem}, vezes : Int]]
      <4>1. TravaLivre \in [con : Conexoes \cup {Ninguem}, vezes : Int]
        BY DEF TravaLivre
      <4>3. CASE travaRec[t].con # c
        BY <3>3, <4>3 DEF RecInv, RecTipo
      <4>4. CASE travaRec[t].con = c /\ travaRec[t].vezes = 1
        <5>1. travaRec' = [travaRec EXCEPT ![t] = TravaLivre]
          BY <3>3, <4>4
        <5> QED
          BY <4>1, <5>1 DEF RecInv, RecTipo
      <4>5. CASE travaRec[t].con = c /\ travaRec[t].vezes # 1
        <5>1. travaRec' = [travaRec EXCEPT ![t].vezes = @ - 1]
          BY <3>3, <4>5
        <5> QED
          BY <5>1 DEF RecInv, RecTipo
      <4> QED
        BY <4>3, <4>4, <4>5
    <3>7. /\ RecTipo'
          /\ varredura'[v].fase = "proximo" /\ \A w \in Varreduras \ {v} : varredura'[w] = varredura[w]
      BY <2>10, <3>4, <3>6, VaiAoProximo DEF SoltaTrava, RecInv, RecTipo
    <3>8. ASSUME NEW x \in Textos, x # t PROVE Guardado(x)'
      <4>1. ~Em(v, x) /\ ~Em(v, x)'
        BY <3>1, <3>7, <3>8 DEF Em, Dentro
      <4> QED
        BY <3>4, <3>5, <3>7, <3>8, <4>1, NadaMuda
    <3>9. Guardado(t)'
      <4> SUFFICES ASSUME quedasRec = 0, t \notin reentradas PROVE Exclusao(t)' /\ AvisoUnico(t)'
        BY <3>4 DEF Guardado
      <4>1. Exclusao(t) /\ AvisoUnico(t)
        BY DEF RecInv, Guardado
      <4>2. Em(v, t) /\ \A w \in Varreduras : Em(w, t) => w = v
        BY <3>1, <3>4, <4>1 DEF Exclusao, Em, Dentro
      <4>3. \A w \in Varreduras : ~Em(w, t)'
        BY <3>7, <4>2 DEF Em, Dentro
      <4>4. avisosRec[t] = 0 \/ (avisosRec[t] = 1 /\ t \in registro)
        <5>1. \A w \in Varreduras : ~(Em(w, t) /\ varredura[w].fase = "registra")
          BY <3>4, <4>2
        <5> QED
          BY <4>1, <5>1 DEF AvisoUnico
      <4> QED
        BY <3>4, <4>3, <4>4 DEF Exclusao, AvisoUnico
    <3> QED
      BY <3>7, <3>8, <3>9 DEF RecInv
  <2>11. ASSUME NEW c \in Conexoes, ConexaoFecha(c) PROVE RecInv'
    <3>1. RecTipo'
      BY <2>11 DEF ConexaoFecha, RecInv, RecTipo, TravaLivre
    <3> QED
      BY <2>11, <3>1 DEF ConexaoFecha, RecInv, RecTipo, Guardado
  <2>12. CASE RecepcaoCai
    <3>1. RecTipo'
      BY <2>12 DEF RecepcaoCai, RecInv, RecTipo, TravaLivre, SemVarredura, Dentro
    <3> QED
      BY <2>12, <3>1 DEF RecepcaoCai, RecInv, RecTipo, Guardado
  <2> QED
    BY <2>1, <2>2, <2>3, <2>4, <2>5, <2>6, <2>7, <2>8, <2>9, <2>10, <2>11, <2>12 DEF RecNext
<1>3. RecInv => RepeteSoSemTrava
  BY DEF RecInv, RecTipo, Guardado, AvisoUnico, RepeteSoSemTrava
<1> QED
  BY <1>1, <1>2, <1>3, PTL DEF RecSpec
-----------------------------------------------------------------------------
(* PortaoIA for any number of requests and places: the tokens of all the     *)
(* channels are counted as a set of pairs, so that one taken from the wrong  *)
(* channel is still one taken.                                               *)

PortaoTipo ==
  /\ chamada \in [Chamadas -> {"fora", "cria", "escolhe", "espera", "voando", "fim"}]
  /\ canais \in Seq(Nat) /\ \A c \in 1..Len(canais) : canais[c] <= Lugares
  /\ atual \in 0..Len(canais)
  /\ canalDe \in [Chamadas -> 0..Len(canais)]

(* Who is past the check for nil finds a channel.                            *)
HaCanal ==
  \A p \in Chamadas :
    /\ chamada[p] \in {"escolhe", "espera", "voando"} => atual # 0
    /\ chamada[p] = "espera" => canalDe[p] # 0

Casas(s) == (1..Len(s)) \X (1..Lugares)
FichasDe(s) == {f \in Casas(s) : f[2] <= s[f[1]]}
Fichas == FichasDe(canais)
VooTemFicha == Cardinality(EmVoo) <= Cardinality(Fichas)
FichaTemVoo == atual # 0 => canais[atual] <= Cardinality(EmVoo)

PortaoInv == PortaoTipo /\ HaCanal /\ VooTemFicha /\ FichaTemVoo

LEMMA ParNaFicha ==
  ASSUME NEW s \in Seq(Nat), NEW c \in 1..Len(s), NEW k \in 1..Lugares
  PROVE  <<c, k>> \in FichasDe(s) <=> k <= s[c]
BY DEF FichasDe, Casas

LEMMA FichaEhPar ==
  ASSUME NEW s \in Seq(Nat), NEW f \in FichasDe(s)
  PROVE  \E c \in 1..Len(s), k \in 1..Lugares : f = <<c, k>>
BY DEF FichasDe, Casas

(* As many pairs as places at most.                                          *)
LEMMA FichasFinitas ==
  ASSUME NEW s \in Seq(Nat)
  PROVE  /\ IsFiniteSet(FichasDe(s)) /\ Cardinality(FichasDe(s)) \in Nat
         /\ Cardinality(FichasDe(s)) <= Lugares * Len(s)
<1>1. Len(s) \in Nat /\ Lugares \in Nat
  BY PortaoOK
<1> DEFINE S == 1..Len(s)
           T == 1..Lugares
<1>2. IsFiniteSet(S) /\ Cardinality(S) = Len(s)
  <2>1. IsFiniteSet(S) /\ Cardinality(S) = IF 1 > Len(s) THEN 0 ELSE Len(s) - 1 + 1
    BY <1>1, FS_Interval
  <2> QED
    BY <1>1, <2>1
<1>3. IsFiniteSet(T) /\ Cardinality(T) = Lugares
  <2>1. IsFiniteSet(T) /\ Cardinality(T) = IF 1 > Lugares THEN 0 ELSE Lugares - 1 + 1
    BY <1>1, FS_Interval
  <2> QED
    BY <1>1, <2>1
<1>4. IsFiniteSet(S \X T) /\ Cardinality(S \X T) = Len(s) * Lugares
  <2> HIDE DEF S, T
  <2>1. IsFiniteSet(S \X T) /\ Cardinality(S \X T) = Cardinality(S) * Cardinality(T)
    BY <1>2, <1>3, FS_Product
  <2> QED
    BY <1>2, <1>3, <2>1
<1>5. FichasDe(s) \subseteq S \X T
  BY DEF FichasDe, Casas
<1>6. IsFiniteSet(FichasDe(s)) /\ Cardinality(FichasDe(s)) <= Len(s) * Lugares
  BY <1>4, <1>5, FS_Subset
<1>7. Len(s) * Lugares = Lugares * Len(s)
  BY <1>1
<1> QED
  BY <1>6, <1>7, FS_CardinalityType

(* One token more in a channel is one pair more.                             *)
LEMMA FichaAMais ==
  ASSUME NEW s \in Seq(Nat), NEW c \in 1..Len(s), s[c] < Lugares,
         NEW z \in Seq(Nat), Len(z) = Len(s), z[c] = s[c] + 1,
         \A d \in 1..Len(s) : d # c => z[d] = s[d]
  PROVE  FichasDe(z) = FichasDe(s) \cup {<<c, s[c] + 1>>} /\ <<c, s[c] + 1>> \notin FichasDe(s)
<1>1. s[c] + 1 \in 1..Lugares /\ ~(s[c] + 1 <= s[c])
  BY PortaoOK
<1>2. \A d \in 1..Len(s), k \in 1..Lugares :
        <<d, k>> \in FichasDe(z) <=> (<<d, k>> \in FichasDe(s) \/ (d = c /\ k = s[c] + 1))
  <2> SUFFICES ASSUME NEW d \in 1..Len(s), NEW k \in 1..Lugares
               PROVE  k <= z[d] <=> (k <= s[d] \/ (d = c /\ k = s[c] + 1))
    BY ParNaFicha
  <2> QED
    BY PortaoOK
<1>3. <<c, s[c] + 1>> \notin FichasDe(s)
  BY <1>1, ParNaFicha
<1>4. \A f \in FichasDe(z) : f \in FichasDe(s) \cup {<<c, s[c] + 1>>}
  BY <1>2, FichaEhPar
<1>5. \A f \in FichasDe(s) : f \in FichasDe(z)
  BY <1>2, FichaEhPar
<1>6. <<c, s[c] + 1>> \in FichasDe(z)
  BY <1>1, <1>2
<1> QED
  BY <1>3, <1>4, <1>5, <1>6

(* One token less in a channel is at most one pair less.                     *)
LEMMA FichaAMenos ==
  ASSUME NEW s \in Seq(Nat), NEW c \in 1..Len(s),
         NEW z \in Seq(Nat), Len(z) = Len(s), z[c] = IF s[c] > 0 THEN s[c] - 1 ELSE 0,
         \A d \in 1..Len(s) : d # c => z[d] = s[d]
  PROVE  FichasDe(z) = FichasDe(s) \ {<<c, s[c]>>}
<1>1. \A d \in 1..Len(s), k \in 1..Lugares :
        <<d, k>> \in FichasDe(z) <=> (<<d, k>> \in FichasDe(s) /\ ~(d = c /\ k = s[c]))
  <2> SUFFICES ASSUME NEW d \in 1..Len(s), NEW k \in 1..Lugares
               PROVE  k <= z[d] <=> (k <= s[d] /\ ~(d = c /\ k = s[c]))
    BY ParNaFicha
  <2> QED
    BY PortaoOK
<1>2. \A f \in FichasDe(z) : f \in FichasDe(s) \ {<<c, s[c]>>}
  BY <1>1, FichaEhPar
<1>3. \A f \in FichasDe(s) \ {<<c, s[c]>>} : f \in FichasDe(z)
  BY <1>1, FichaEhPar
<1> QED
  BY <1>2, <1>3

LEMMA Finitos ==
  ASSUME PortaoTipo
  PROVE  /\ IsFiniteSet(EmVoo) /\ Cardinality(EmVoo) \in Nat
         /\ IsFiniteSet(Fichas) /\ Cardinality(Fichas) \in Nat
         /\ Cardinality(Fichas) <= Lugares * Len(canais)
<1>1. IsFiniteSet(EmVoo)
  BY PortaoOK, FS_Subset DEF EmVoo
<1> QED
  BY <1>1, FichasFinitas, FS_CardinalityType DEF PortaoTipo, Fichas

(* The number of requests at the model never exceeds the places of the       *)
(* channels that were made, and no place of the current channel is taken by  *)
(* nobody, however the first requests race (ocr_handler.go:114-136).         *)
THEOREM SempreNoLimite == PortaoSpec => []PortaoNoLimite
<1> USE PortaoOK
<1>1. PortaoInit => PortaoInv
  <2> SUFFICES ASSUME PortaoInit PROVE PortaoInv
    OBVIOUS
  <2>1. PortaoTipo /\ HaCanal /\ EmVoo = {} /\ atual = 0
    BY DEF PortaoInit, PortaoTipo, HaCanal, EmVoo
  <2>2. Cardinality(EmVoo) = 0 /\ Cardinality(Fichas) \in Nat
    BY <2>1, Finitos, FS_EmptySet
  <2> QED
    BY <2>1, <2>2 DEF PortaoInv, VooTemFicha, FichaTemVoo
<1>2. PortaoInv /\ [PortaoNext]_iaVars => PortaoInv'
  <2> SUFFICES ASSUME PortaoInv, [PortaoNext]_iaVars PROVE PortaoInv'
    OBVIOUS
  <2>0. /\ IsFiniteSet(EmVoo) /\ Cardinality(EmVoo) \in Nat
        /\ IsFiniteSet(Fichas) /\ Cardinality(Fichas) \in Nat
    BY Finitos DEF PortaoInv
  \* a step that changes neither the tokens nor who is in flight
  <2>1. ASSUME PortaoTipo', HaCanal', canais' = canais, atual' = atual, EmVoo' = EmVoo
        PROVE  PortaoInv'
    <3>1. Fichas' = Fichas
      BY <2>1 DEF Fichas
    <3> QED
      BY <2>1, <3>1 DEF PortaoInv, VooTemFicha, FichaTemVoo
  <2>2. CASE UNCHANGED iaVars
    BY <2>1, <2>2 DEF iaVars, PortaoInv, PortaoTipo, HaCanal, EmVoo
  <2>3. ASSUME NEW p \in Chamadas, OlhaNil(p) \/ EscolheCanal(p) \/ DesisteIA(p) PROVE PortaoInv'
    <3>1. PortaoTipo' /\ HaCanal'
      BY <2>3 DEF OlhaNil, EscolheCanal, DesisteIA, PortaoInv, PortaoTipo, HaCanal
    <3>2. EmVoo' = EmVoo
      BY <2>3 DEF OlhaNil, EscolheCanal, DesisteIA, PortaoInv, PortaoTipo, EmVoo
    <3>3. canais' = canais /\ atual' = atual
      BY <2>3 DEF OlhaNil, EscolheCanal, DesisteIA
    <3> QED
      BY <2>1, <3>1, <3>2, <3>3
  <2>4. ASSUME NEW p \in Chamadas, CriaCanal(p) PROVE PortaoInv'
    <3>1. /\ canais' = Append(canais, 0) /\ atual' = Len(canais) + 1 /\ canalDe' = canalDe
          /\ chamada' = [chamada EXCEPT ![p] = "escolhe"] /\ chamada[p] = "cria"
      BY <2>4 DEF CriaCanal
    <3>2. /\ canais' \in Seq(Nat) /\ Len(canais') = Len(canais) + 1
          /\ canais'[Len(canais) + 1] = 0
          /\ \A c \in 1..Len(canais) : canais'[c] = canais[c]
      BY <3>1 DEF PortaoInv, PortaoTipo
    <3>3. PortaoTipo' /\ HaCanal'
      BY <3>1, <3>2 DEF PortaoInv, PortaoTipo, HaCanal
    <3>4. EmVoo' = EmVoo
      BY <3>1 DEF PortaoInv, PortaoTipo, EmVoo
    <3>5. Fichas' = Fichas
      <4>1. canais \in Seq(Nat) /\ Len(canais) \in Nat
        BY DEF PortaoInv, PortaoTipo
      <4>2. \A c \in 1..Len(canais'), k \in 1..Lugares : k <= canais'[c] => c \in 1..Len(canais)
        BY <3>2, <4>1
      <4>3. \A f \in FichasDe(canais') : f \in FichasDe(canais)
        <5> SUFFICES ASSUME NEW f \in FichasDe(canais') PROVE f \in FichasDe(canais)
          OBVIOUS
        <5>1. PICK c \in 1..Len(canais'), k \in 1..Lugares : f = <<c, k>>
          BY <3>2, FichaEhPar
        <5>2. k <= canais'[c]
          BY <3>2, <5>1, ParNaFicha
        <5>3. c \in 1..Len(canais) /\ canais[c] = canais'[c]
          BY <3>2, <4>2, <5>2
        <5> QED
          BY <4>1, <5>1, <5>2, <5>3, ParNaFicha
      <4>4. \A f \in FichasDe(canais) : f \in FichasDe(canais')
        <5> SUFFICES ASSUME NEW f \in FichasDe(canais) PROVE f \in FichasDe(canais')
          OBVIOUS
        <5>1. PICK c \in 1..Len(canais), k \in 1..Lugares : f = <<c, k>>
          BY <4>1, FichaEhPar
        <5>2. k <= canais[c]
          BY <4>1, <5>1, ParNaFicha
        <5>3. c \in 1..Len(canais') /\ canais[c] = canais'[c]
          BY <3>2, <4>1
        <5> QED
          BY <3>2, <5>1, <5>2, <5>3, ParNaFicha
      <4> QED
        BY <4>3, <4>4 DEF Fichas
    <3>6. FichaTemVoo'
      BY <2>0, <3>1, <3>2, <3>4 DEF FichaTemVoo
    <3> QED
      BY <3>3, <3>4, <3>5, <3>6 DEF PortaoInv, VooTemFicha
  <2>5. ASSUME NEW p \in Chamadas, Entra(p) PROVE PortaoInv'
    <3> DEFINE c == canalDe[p]
               nova == <<c, canais[c] + 1>>
    <3>1. /\ canais' = [canais EXCEPT ![c] = @ + 1] /\ canais[c] < Lugares
          /\ atual' = atual /\ canalDe' = canalDe
          /\ chamada' = [chamada EXCEPT ![p] = "voando"] /\ chamada[p] = "espera"
      BY <2>5 DEF Entra
    <3>2. c \in 1..Len(canais) /\ Len(canais) \in Nat /\ canais[c] \in Nat
      BY <3>1 DEF PortaoInv, PortaoTipo, HaCanal
    <3>3. /\ canais' \in Seq(Nat) /\ Len(canais') = Len(canais)
          /\ canais'[c] = canais[c] + 1
          /\ \A d \in 1..Len(canais) : d # c => canais'[d] = canais[d]
      BY <3>1, <3>2 DEF PortaoInv, PortaoTipo
    <3>4. PortaoTipo' /\ HaCanal'
      BY <3>1, <3>2, <3>3 DEF PortaoInv, PortaoTipo, HaCanal
    <3>5. EmVoo' = EmVoo \cup {p} /\ p \notin EmVoo
      BY <3>1 DEF PortaoInv, PortaoTipo, EmVoo
    <3>6. Cardinality(EmVoo') = Cardinality(EmVoo) + 1
      BY <2>0, <3>5, FS_AddElement
    <3>7. Fichas' = Fichas \cup {nova} /\ nova \notin Fichas
      BY <3>1, <3>2, <3>3, FichaAMais DEF PortaoInv, PortaoTipo, Fichas
    <3>8. Cardinality(Fichas') = Cardinality(Fichas) + 1
      BY <2>0, <3>7, FS_AddElement
    <3>9. FichaTemVoo'
      BY <2>0, <3>1, <3>2, <3>3, <3>6 DEF PortaoInv, PortaoTipo, FichaTemVoo
    <3> QED
      BY <2>0, <3>4, <3>6, <3>8, <3>9 DEF PortaoInv, VooTemFicha
  <2>6. ASSUME NEW p \in Chamadas, Sai(p) PROVE PortaoInv'
    <3> DEFINE velha == <<atual, canais[atual]>>
    <3>1. /\ canais' = [canais EXCEPT ![atual] = IF @ > 0 THEN @ - 1 ELSE 0]
          /\ atual' = atual /\ canalDe' = canalDe
          /\ chamada' = [chamada EXCEPT ![p] = "fim"] /\ chamada[p] = "voando"
      BY <2>6 DEF Sai, Devolve
    <3>2. atual \in 1..Len(canais) /\ Len(canais) \in Nat /\ canais[atual] \in Nat
      BY <3>1 DEF PortaoInv, PortaoTipo, HaCanal
    <3>3. /\ canais' \in Seq(Nat) /\ Len(canais') = Len(canais)
          /\ canais'[atual] = IF canais[atual] > 0 THEN canais[atual] - 1 ELSE 0
          /\ \A d \in 1..Len(canais) : d # atual => canais'[d] = canais[d]
      BY <3>1, <3>2 DEF PortaoInv, PortaoTipo
    <3>4. PortaoTipo' /\ HaCanal'
      BY <3>1, <3>2, <3>3 DEF PortaoInv, PortaoTipo, HaCanal
    <3>5. EmVoo' = EmVoo \ {p} /\ p \in EmVoo
      BY <3>1 DEF PortaoInv, PortaoTipo, EmVoo
    <3>6. Cardinality(EmVoo') = Cardinality(EmVoo) - 1
      BY <2>0, <3>5, FS_RemoveElement
    <3>7. Fichas' = Fichas \ {velha}
      BY <3>2, <3>3, FichaAMenos DEF PortaoInv, PortaoTipo, Fichas
    <3>8. Cardinality(Fichas') >= Cardinality(Fichas) - 1
      <4>1. Cardinality(Fichas') = IF velha \in Fichas THEN Cardinality(Fichas) - 1 ELSE Cardinality(Fichas)
        BY <2>0, <3>7, FS_RemoveElement
      <4> QED
        BY <2>0, <4>1
    <3>9. FichaTemVoo'
      <4>1. canais[atual] <= Cardinality(EmVoo)
        BY <3>2 DEF PortaoInv, FichaTemVoo
      <4>2. Cardinality(EmVoo') \in Nat
        BY <2>0, <3>5, FS_RemoveElement, FS_CardinalityType
      <4> QED
        BY <2>0, <3>1, <3>2, <3>3, <3>6, <4>1, <4>2 DEF FichaTemVoo
    <3>10. Cardinality(Fichas') \in Nat
      BY <2>0, <3>7, FS_RemoveElement, FS_CardinalityType
    <3> QED
      BY <2>0, <3>4, <3>6, <3>8, <3>9, <3>10 DEF PortaoInv, VooTemFicha
  <2> QED
    BY <2>2, <2>3, <2>4, <2>5, <2>6 DEF PortaoNext
<1>3. PortaoInv => PortaoNoLimite
  <2> SUFFICES ASSUME PortaoInv PROVE PortaoNoLimite
    OBVIOUS
  <2>1. /\ Cardinality(EmVoo) \in Nat /\ Cardinality(Fichas) \in Nat
        /\ Cardinality(Fichas) <= Lugares * Len(canais)
    BY Finitos DEF PortaoInv
  <2>2. Lugares * Len(canais) \in Int
    BY DEF PortaoInv, PortaoTipo
  <2> QED
    BY <2>1, <2>2 DEF PortaoInv, VooTemFicha, FichaTemVoo, PortaoNoLimite
<1> QED
  BY <1>1, <1>2, <1>3, PTL DEF PortaoSpec
-----------------------------------------------------------------------------
(* Vigencias for any number of requests, days and percentages: the locks of  *)
(* the UPDATE keep the list of open periods true until the INSERT.           *)

Linha == [ini : Dias, fim : Int, pct : Percentuais, ativo : BOOLEAN]
VigTipo ==
  /\ vigencias \in Seq(Linha)
  /\ transacao \in [Gravadores -> [fase : {"parada", "insere"}, dia : Dias \cup {0},
                                   pct : Percentuais \cup {0}, fecha : SUBSET Nat]]
  /\ travadas \in [Gravadores -> SUBSET Nat]

(* A transaction between its two statements holds every row and the gap, and *)
(* what it closes is still all there is to close.                            *)
Segura ==
  \A g \in Gravadores :
    transacao[g].fase = "insere" =>
      /\ transacao[g].dia \in Dias /\ transacao[g].pct \in Percentuais
      /\ travadas[g] = Periodos \cup {Lacuna}
      /\ transacao[g].fecha = EmAberto
ZeroOuUma == \A j, k \in EmAberto : j = k

VigInv == VigTipo /\ Segura /\ ZeroOuUma

LEMMA ZeroOuUmaConta ==
  ASSUME ZeroOuUma
  PROVE  UmaAberta
<1>1. CASE EmAberto = {}
  BY <1>1, FS_EmptySet DEF UmaAberta
<1>2. CASE EmAberto # {}
  <2>1. PICK k \in EmAberto : TRUE
    BY <1>2
  <2>2. EmAberto = {k}
    BY <2>1 DEF ZeroOuUma
  <2>3. Cardinality({k}) = 1
    BY FS_Singleton
  <2> QED
    BY <2>2, <2>3 DEF UmaAberta
<1> QED
  BY <1>1, <1>2

(* What the rows are after the UPDATE and the INSERT.                        *)
LEMMA Depois ==
  ASSUME VigTipo, NEW S \in SUBSET Nat, NEW dia \in Dias, NEW n \in Linha,
         vigencias' = Append(Fecha(S, dia), n)
  PROVE  /\ vigencias' \in Seq(Linha)
         /\ Len(vigencias') = Len(vigencias) + 1 /\ Len(vigencias) \in Nat
         /\ Periodos' = Periodos \cup {Len(vigencias) + 1} /\ Periodos = 1..Len(vigencias)
         /\ vigencias'[Len(vigencias) + 1] = n
         /\ \A k \in Periodos :
              vigencias'[k] = IF k \in S THEN AteODia(vigencias[k], dia - 1) ELSE vigencias[k]
<1>1. Len(vigencias) \in Nat /\ Periodos = 1..Len(vigencias) /\ dia \in Int
  BY VigenciasOK DEF VigTipo, Periodos
<1> DEFINE F == Fecha(S, dia)
<1>2. \A k \in Periodos : (IF k \in S THEN AteODia(vigencias[k], dia - 1) ELSE vigencias[k]) \in Linha
  <2> SUFFICES ASSUME NEW k \in Periodos
               PROVE  vigencias[k] \in Linha /\ AteODia(vigencias[k], dia - 1) \in Linha
    OBVIOUS
  <2>1. vigencias[k] \in Linha
    BY <1>1 DEF VigTipo
  <2> QED
    BY <1>1, <2>1 DEF Linha, AteODia, Periodo
<1>3. F = [k \in 1..Len(vigencias) |-> IF k \in S THEN AteODia(vigencias[k], dia - 1) ELSE vigencias[k]]
  BY <1>1 DEF Fecha
<1>4. F \in Seq(Linha) /\ Len(F) = Len(vigencias)
  BY <1>1, <1>2, <1>3
<1>5. \A k \in Periodos : F[k] = IF k \in S THEN AteODia(vigencias[k], dia - 1) ELSE vigencias[k]
  BY <1>1, <1>3
<1> HIDE DEF F
<1> QED
  BY <1>1, <1>4, <1>5 DEF F, Periodos

(* Periods, transactions and locks keep their form; a transaction between    *)
(* its statements holds every row and still closes all there is to close.    *)
THEOREM VigBemFormada == VigSpec => []VigInv
<1> USE VigenciasOK
<1>1. VigInit => VigInv
  BY DEF VigInit, VigInv, VigTipo, Segura, ZeroOuUma, SemTransacao, EmAberto, Periodos
<1>2. VigInv /\ [VigNext]_vigVars => VigInv'
  <2> SUFFICES ASSUME VigInv, [VigNext]_vigVars PROVE VigInv'
    OBVIOUS
  <2>0. Periodos = 1..Len(vigencias) /\ Len(vigencias) \in Nat
    BY DEF VigInv, VigTipo, Periodos
  <2>1. CASE UNCHANGED vigVars
    BY <2>1 DEF vigVars, VigInv, VigTipo, Segura, ZeroOuUma, EmAberto, Periodos
  <2>2. ASSUME NEW g \in Gravadores, CriarFecha(g) PROVE VigInv'
    <3>1. PICK d \in Dias, p \in Percentuais :
             transacao' = [transacao EXCEPT ![g] = [fase |-> "insere", dia |-> d, pct |-> p, fecha |-> EmAberto]]
      BY <2>2 DEF CriarFecha
    <3>2. vigencias' = vigencias /\ travadas' = [travadas EXCEPT ![g] = Periodos \cup {Lacuna}]
      BY <2>2 DEF CriarFecha
    <3>3. Periodos' = Periodos /\ EmAberto' = EmAberto /\ EmAberto \subseteq Nat /\ Periodos \cup {Lacuna} \subseteq Nat
      BY <2>0, <3>2 DEF Periodos, EmAberto, Lacuna
    <3>4. VigTipo'
      BY <3>1, <3>2, <3>3 DEF VigInv, VigTipo
    <3>5. Segura'
      BY <3>1, <3>2, <3>3 DEF VigInv, VigTipo, Segura
    <3> QED
      BY <3>3, <3>4, <3>5 DEF VigInv, ZeroOuUma
  <2>3. ASSUME NEW g \in Gravadores, CriarInsere(g) PROVE VigInv'
    <3>1. /\ transacao[g].fase = "insere" /\ SemTrava(g, {Lacuna})
          /\ vigencias' = Append(Fecha(transacao[g].fecha, transacao[g].dia), Nova(g))
          /\ transacao' = [transacao EXCEPT ![g] = SemTransacao]
          /\ travadas' = [travadas EXCEPT ![g] = {}]
      BY <2>3 DEF CriarInsere, Solto
    <3>2. /\ transacao[g].dia \in Dias /\ transacao[g].pct \in Percentuais
          /\ transacao[g].fecha = EmAberto /\ EmAberto \in SUBSET Nat
      BY <2>0, <3>1 DEF VigInv, Segura, EmAberto
    <3>3. Nova(g) \in Linha
      BY <3>2 DEF Nova, Linha, Periodo
    <3>4. PICK S \in SUBSET Nat, dia \in Dias, n \in Linha :
             S = EmAberto /\ dia = transacao[g].dia /\ n = Nova(g)
      BY <3>2, <3>3
    <3>5. /\ vigencias' \in Seq(Linha)
          /\ Len(vigencias') = Len(vigencias) + 1 /\ Len(vigencias) \in Nat
          /\ Periodos' = Periodos \cup {Len(vigencias) + 1} /\ Periodos = 1..Len(vigencias)
          /\ vigencias'[Len(vigencias) + 1] = n
          /\ \A k \in Periodos :
               vigencias'[k] = IF k \in S THEN AteODia(vigencias[k], dia - 1) ELSE vigencias[k]
      <4>1. VigTipo /\ vigencias' = Append(Fecha(S, dia), n)
        BY <3>1, <3>2, <3>4 DEF VigInv
      <4> QED
        BY <4>1, Depois
    <3>6. \A k \in Periodos : ~(vigencias'[k].ativo /\ vigencias'[k].fim = SemFim)
      <4> SUFFICES ASSUME NEW k \in Periodos PROVE ~(vigencias'[k].ativo /\ vigencias'[k].fim = SemFim)
        OBVIOUS
      <4>1. vigencias[k] \in Linha
        BY <2>0 DEF VigInv, VigTipo
      <4>2. CASE k \in S
        <5>1. vigencias'[k] = AteODia(vigencias[k], dia - 1)
          BY <3>5, <4>2
        <5>2. vigencias'[k].fim = dia - 1
          BY <5>1 DEF AteODia, Periodo
        <5>3. dia - 1 # SemFim
          <6>1. dia \in 1..(SemFim - 1) /\ SemFim \in Nat
            OBVIOUS
          <6> QED
            BY <6>1
        <5> QED
          BY <5>2, <5>3
      <4>3. CASE k \notin S
        BY <3>4, <3>5, <4>3 DEF EmAberto
      <4> QED
        BY <4>2, <4>3
    <3>7. EmAberto' \subseteq {Len(vigencias) + 1}
      BY <3>5, <3>6 DEF EmAberto
    <3>8. \A h \in Gravadores \ {g} : transacao[h].fase # "insere"
      BY <3>1 DEF SemTrava, VigInv, Segura
    <3>9. SemTransacao.fase = "parada"
          /\ SemTransacao \in [fase : {"parada", "insere"}, dia : Dias \cup {0},
                               pct : Percentuais \cup {0}, fecha : SUBSET Nat]
      BY DEF SemTransacao
    <3>10. VigTipo'
      BY <3>1, <3>5, <3>9 DEF VigInv, VigTipo
    <3>11. Segura'
      BY <3>1, <3>8, <3>9 DEF VigInv, VigTipo, Segura
    <3> QED
      BY <3>7, <3>10, <3>11 DEF VigInv, ZeroOuUma
  <2>4. ASSUME NEW g \in Gravadores, CriarDesfaz(g) PROVE VigInv'
    <3>1. /\ vigencias' = vigencias /\ transacao' = [transacao EXCEPT ![g] = SemTransacao]
          /\ travadas' = [travadas EXCEPT ![g] = {}]
      BY <2>4 DEF CriarDesfaz, Solto
    <3>2. SemTransacao.fase = "parada"
          /\ SemTransacao \in [fase : {"parada", "insere"}, dia : Dias \cup {0},
                               pct : Percentuais \cup {0}, fecha : SUBSET Nat]
      BY DEF SemTransacao
    <3>3. Periodos' = Periodos /\ EmAberto' = EmAberto
      BY <3>1 DEF Periodos, EmAberto
    <3>4. VigTipo' /\ Segura'
      BY <3>1, <3>2, <3>3 DEF VigInv, VigTipo, Segura
    <3> QED
      BY <3>3, <3>4 DEF VigInv, ZeroOuUma
  <2>5. ASSUME NEW g \in Gravadores, AtualizarVigencia(g) PROVE VigInv'
    <3>1. PICK k \in Periodos, d \in Dias, p \in Percentuais :
             vigencias' = [vigencias EXCEPT ![k] = Periodo(d, @.fim, p, @.ativo)]
      BY <2>5 DEF AtualizarVigencia
    <3>2. transacao' = transacao /\ travadas' = travadas
      BY <2>5 DEF AtualizarVigencia
    <3>3. /\ vigencias' \in Seq(Linha) /\ Len(vigencias') = Len(vigencias)
          /\ \A j \in Periodos : vigencias'[j].fim = vigencias[j].fim /\ vigencias'[j].ativo = vigencias[j].ativo
      <4>1. vigencias[k] \in Linha /\ vigencias \in Seq(Linha)
        BY <2>0 DEF VigInv, VigTipo
      <4> DEFINE nova == Periodo(d, vigencias[k].fim, p, vigencias[k].ativo)
      <4>2. nova \in Linha /\ nova.fim = vigencias[k].fim /\ nova.ativo = vigencias[k].ativo
        BY <4>1 DEF Linha, Periodo
      <4>3. vigencias' = [vigencias EXCEPT ![k] = nova]
        BY <3>1
      <4> HIDE DEF nova
      <4> QED
        BY <2>0, <4>1, <4>2, <4>3
    <3>4. Periodos' = Periodos
      BY <2>0, <3>3 DEF Periodos
    <3>5. EmAberto' = EmAberto
      BY <3>3, <3>4 DEF EmAberto
    <3> QED
      BY <3>2, <3>3, <3>4, <3>5 DEF VigInv, VigTipo, Segura, ZeroOuUma
  <2>6. ASSUME NEW g \in Gravadores, DesativarVigencia(g) PROVE VigInv'
    <3>1. PICK k \in Periodos : /\ SemTrava(g, {k}) /\ k \notin travadas[g]
                                /\ vigencias' = [vigencias EXCEPT ![k] = Periodo(@.ini, @.fim, @.pct, FALSE)]
      BY <2>6 DEF DesativarVigencia
    <3>2. transacao' = transacao /\ travadas' = travadas
      BY <2>6 DEF DesativarVigencia
    <3>3. /\ vigencias' \in Seq(Linha) /\ Len(vigencias') = Len(vigencias)
          /\ \A j \in Periodos : j # k => vigencias'[j] = vigencias[j]
          /\ vigencias'[k].ativo = FALSE
      <4>1. vigencias[k] \in Linha /\ vigencias \in Seq(Linha)
        BY <2>0 DEF VigInv, VigTipo
      <4> DEFINE nova == Periodo(vigencias[k].ini, vigencias[k].fim, vigencias[k].pct, FALSE)
      <4>2. nova \in Linha /\ nova.ativo = FALSE
        BY <4>1 DEF Linha, Periodo
      <4>3. vigencias' = [vigencias EXCEPT ![k] = nova]
        BY <3>1
      <4> HIDE DEF nova
      <4> QED
        BY <2>0, <4>1, <4>2, <4>3
    <3>4. Periodos' = Periodos
      BY <2>0, <3>3 DEF Periodos
    <3>5. EmAberto' \subseteq EmAberto
      BY <3>3, <3>4 DEF EmAberto
    <3>6. \A h \in Gravadores : transacao[h].fase # "insere"
      BY <3>1 DEF SemTrava, VigInv, Segura
    <3> QED
      BY <3>2, <3>3, <3>5, <3>6 DEF VigInv, VigTipo, Segura, ZeroOuUma
  <2> QED
    BY <2>1, <2>2, <2>3, <2>4, <2>5, <2>6 DEF VigNext
<1> QED
  BY <1>1, <1>2, PTL DEF VigSpec

(* At most one open active period, whatever requests race                    *)
(* (empresa_percentual.go:220-245).                                          *)
THEOREM SempreUmaAberta == VigSpec => []UmaAberta
<1>1. VigInv => UmaAberta
  BY ZeroOuUmaConta DEF VigInv
<1> QED
  BY <1>1, VigBemFormada, PTL

(* Only CriarInsere adds a row, and what it closes loses only days that the  *)
(* new one has: the days before it keep their percentage                     *)
(* (empresa_percentual.go:220-245, writes.go:222-230).                       *)
THEOREM SempreSoParaFrente == VigSpec => MudancaSoParaFrente
<1> DEFINE A == \A d \in Dias : (Len(vigencias') > Len(vigencias) /\ d < vigencias'[Len(vigencias')].ini)
                                  => Percentual(vigencias', d) = Percentual(vigencias, d)
<1>1. VigInv /\ [VigNext]_vigVars => [A]_vigVars
  <2> SUFFICES ASSUME VigInv, VigNext, NEW d \in Dias, Len(vigencias') > Len(vigencias),
                      d < vigencias'[Len(vigencias')].ini
               PROVE  Percentual(vigencias', d) = Percentual(vigencias, d)
    BY DEF vigVars
  <2> USE VigenciasOK
  <2>0. Periodos = 1..Len(vigencias) /\ Len(vigencias) \in Nat
    BY DEF VigInv, VigTipo, Periodos
  <2>1. PICK g \in Gravadores : CriarInsere(g)
    <3>1. ~(vigencias' = vigencias)
      BY <2>0
    <3>2. ASSUME NEW g \in Gravadores, AtualizarVigencia(g) \/ DesativarVigencia(g) PROVE FALSE
      <4>1. \E k \in Periodos : \E v : vigencias' = [vigencias EXCEPT ![k] = v]
        BY <3>2 DEF AtualizarVigencia, DesativarVigencia
      <4>2. PICK k \in Periodos : \E v : vigencias' = [vigencias EXCEPT ![k] = v]
        BY <4>1
      <4>3. PICK v : vigencias' = [vigencias EXCEPT ![k] = v]
        BY <4>2
      <4>4. Len(vigencias') = Len(vigencias)
        BY <4>3 DEF VigInv, VigTipo
      <4> QED
        BY <2>0, <4>4
    <3> QED
      BY <3>1, <3>2 DEF VigNext, CriarFecha, CriarDesfaz
  <2>2. /\ vigencias' = Append(Fecha(EmAberto, transacao[g].dia), Nova(g))
        /\ transacao[g].dia \in Dias /\ transacao[g].pct \in Percentuais
    BY <2>1 DEF CriarInsere, VigInv, Segura
  <2>3. PICK S \in SUBSET Nat, dia \in Dias, n \in Linha :
           S = EmAberto /\ dia = transacao[g].dia /\ n = Nova(g) /\ n.ini = dia
    <3>1. EmAberto \in SUBSET Nat
      BY <2>0 DEF EmAberto
    <3>2. Nova(g) \in Linha /\ Nova(g).ini = transacao[g].dia
      BY <2>2 DEF Nova, Linha, Periodo
    <3> QED
      BY <2>2, <3>1, <3>2
  <2> DEFINE N == Len(vigencias) + 1
  <2>4. /\ Len(vigencias') = N /\ Periodos' = Periodos \cup {N} /\ vigencias'[N] = n
        /\ \A k \in Periodos :
             vigencias'[k] = IF k \in S THEN AteODia(vigencias[k], dia - 1) ELSE vigencias[k]
    <3>1. VigTipo
      BY DEF VigInv
    <3>2. vigencias' = Append(Fecha(S, dia), n)
      BY <2>2, <2>3
    <3>3. /\ vigencias' \in Seq(Linha)
          /\ Len(vigencias') = Len(vigencias) + 1 /\ Len(vigencias) \in Nat
          /\ Periodos' = Periodos \cup {Len(vigencias) + 1} /\ Periodos = 1..Len(vigencias)
          /\ vigencias'[Len(vigencias) + 1] = n
          /\ \A k \in Periodos :
               vigencias'[k] = IF k \in S THEN AteODia(vigencias[k], dia - 1) ELSE vigencias[k]
      BY <3>1, <3>2, Depois
    <3> QED
      BY <3>3
  <2>5. d < dia /\ d \in Int /\ dia \in Int /\ d <= SemFim
    <3>1. d < dia
      <4>1. vigencias'[Len(vigencias')] = n
        BY <2>4
      <4> QED
        BY <2>3, <4>1
    <3>2. Dias \subseteq 1..(SemFim - 1) /\ SemFim \in Nat
      OBVIOUS
    <3>3. d \in 1..(SemFim - 1) /\ dia \in 1..(SemFim - 1)
      BY <3>2
    <3> QED
      BY <3>1, <3>2, <3>3
  <2>6. ASSUME NEW k \in Periodos
        PROVE  /\ vigencias'[k].ini = vigencias[k].ini /\ vigencias'[k].pct = vigencias[k].pct
               /\ vigencias'[k].ativo = vigencias[k].ativo
               /\ d <= vigencias'[k].fim <=> d <= vigencias[k].fim
    <3>1. vigencias[k] \in Linha
      BY <2>0 DEF VigInv, VigTipo
    <3>2. CASE k \in S
      <4>1. vigencias'[k] = AteODia(vigencias[k], dia - 1)
        BY <2>4, <3>2
      <4>2. vigencias[k].fim = SemFim
        BY <2>3, <3>2 DEF EmAberto
      <4> QED
        BY <2>5, <4>1, <4>2 DEF AteODia, Periodo
    <3>3. CASE k \notin S
      BY <2>4, <3>3
    <3> QED
      BY <3>2, <3>3
  <2>7. Cobre(vigencias', d) = Cobre(vigencias, d) /\ Cobre(vigencias, d) \subseteq Periodos
    <3>1. N \notin Cobre(vigencias', d)
      BY <2>3, <2>4, <2>5 DEF Cobre
    <3> QED
      BY <2>4, <2>6, <3>1 DEF Cobre, Periodos
  <2> QED
    BY <2>6, <2>7 DEF Percentual
<1> QED
  BY <1>1, VigBemFormada, PTL DEF VigSpec, MudancaSoParaFrente
-----------------------------------------------------------------------------
(* TarefasVPS for any number of clicks, requests and failures: a request is  *)
(* never closed over a process that still runs.                              *)

Situacoes == Abertas \cup Fechado
Fases == {"parado", "acompanha", "fechou", "pegou", "soltou", "proxima"}

(* Requests, processes and run_jobs keep their form.                         *)
VpsTipo ==
  /\ filaVPS \in Seq(Situacoes) /\ Len(filaVPS) <= MaxTarefas
  /\ pipeline \in [Tarefas -> {"nao", "rodando", "fim"}]
  /\ runJobs \in [fase : Fases, lista : SUBSET Tarefas, sid : Nat]

(* A request nobody reserved has no process yet.                             *)
SemProcesso == \A k \in Tarefas :
                 (k \notin DOMAIN filaVPS \/ filaVPS[k] = "aprovado") => pipeline[k] = "nao"
(* What has a state file was reserved before.                                *)
ArquivoDePega == \A k \in arquivos \cup runJobs.lista : k \in DOMAIN filaVPS /\ filaVPS[k] # "aprovado"
(* What run_jobs holds is reserved, and not started before Popen.            *)
MaoCheia ==
  /\ runJobs.fase \in {"pegou", "soltou", "fechou"} =>
       runJobs.sid \in DOMAIN filaVPS /\ filaVPS[runJobs.sid] # "aprovado"
  /\ runJobs.fase = "pegou" => filaVPS[runJobs.sid] = "executando" /\ pipeline[runJobs.sid] = "nao"

VpsInv == VpsTipo /\ SemProcesso /\ ArquivoDePega /\ MaoCheia /\ FechaSoDepoisDoFim

(* A change of one status keeps the form of the queue.                       *)
LEMMA TrocaStatus ==
  ASSUME VpsTipo, NEW k \in DOMAIN filaVPS, NEW st \in Situacoes, filaVPS' = [filaVPS EXCEPT ![k] = st]
  PROVE  /\ filaVPS' \in Seq(Situacoes) /\ Len(filaVPS') = Len(filaVPS)
         /\ DOMAIN filaVPS' = DOMAIN filaVPS
         /\ filaVPS'[k] = st /\ \A j \in DOMAIN filaVPS \ {k} : filaVPS'[j] = filaVPS[j]
BY DEF VpsTipo

(* A process is started only for a request that is reserved, and its request *)
(* is closed only when kill(pid, 0) says it is gone: over crashes of         *)
(* run_jobs, reboots, reused pids and double clicks (run_jobs.py:127-207).   *)
THEOREM SempreFechaDepoisDoFim == VpsSpec => []FechaSoDepoisDoFim
<1>1. VpsInit => VpsInv
  BY TarefasOK DEF VpsInit, VpsInv, VpsTipo, SemProcesso, ArquivoDePega, MaoCheia, FechaSoDepoisDoFim,
     SemRunJobs, Fases, Situacoes, Tarefas
<1>2. VpsInv /\ [VpsNext]_vpsVars => VpsInv'
  <2> SUFFICES ASSUME VpsInv, [VpsNext]_vpsVars PROVE VpsInv'
    OBVIOUS
  <2> USE TarefasOK
  <2>0. DOMAIN filaVPS \subseteq Tarefas
    BY DEF VpsInv, VpsTipo, Tarefas
  <2>1. CASE UNCHANGED vpsVars
    BY <2>1 DEF vpsVars, VpsInv, VpsTipo, SemProcesso, ArquivoDePega, MaoCheia, FechaSoDepoisDoFim
  <2>2. ASSUME NEW c \in Cliques, ClicaOlha(c) PROVE VpsInv'
    BY <2>2 DEF ClicaOlha, VpsInv, VpsTipo, SemProcesso, ArquivoDePega, MaoCheia, FechaSoDepoisDoFim
  <2>3. ASSUME NEW c \in Cliques, ClicaInsere(c) PROVE VpsInv'
    <3>1. /\ filaVPS' = Append(filaVPS, "aprovado") /\ Len(filaVPS) < MaxTarefas
          /\ runJobs' = runJobs /\ arquivos' = arquivos /\ pipeline' = pipeline
      BY <2>3 DEF ClicaInsere
    <3>2. /\ filaVPS' \in Seq(Situacoes) /\ Len(filaVPS') <= MaxTarefas
          /\ DOMAIN filaVPS' = DOMAIN filaVPS \cup {Len(filaVPS) + 1}
          /\ filaVPS'[Len(filaVPS) + 1] = "aprovado"
          /\ \A j \in DOMAIN filaVPS : filaVPS'[j] = filaVPS[j]
      BY <3>1 DEF VpsInv, VpsTipo, Situacoes, Abertas
    <3>3. VpsTipo'
      BY <3>1, <3>2 DEF VpsInv, VpsTipo
    <3>4. SemProcesso' /\ ArquivoDePega' /\ MaoCheia' /\ FechaSoDepoisDoFim'
      BY <3>1, <3>2 DEF VpsInv, SemProcesso, ArquivoDePega, MaoCheia, FechaSoDepoisDoFim, Fechado
    <3> QED
      BY <3>3, <3>4 DEF VpsInv
  <2>4. CASE RunJobsInicia
    <3>1. /\ runJobs' = [fase |-> "acompanha", lista |-> arquivos, sid |-> 0]
          /\ filaVPS' = filaVPS /\ arquivos' = arquivos /\ pipeline' = pipeline
      BY <2>4 DEF RunJobsInicia, SemRunJobs
    <3>2. arquivos \subseteq Tarefas
      BY <2>0 DEF VpsInv, ArquivoDePega
    <3> QED
      BY <3>1, <3>2 DEF VpsInv, VpsTipo, SemProcesso, ArquivoDePega, MaoCheia, FechaSoDepoisDoFim, Fases
  <2>5. CASE AcompanhaVivo
    <3>1. PICK k \in runJobs.lista : runJobs' = [runJobs EXCEPT !.lista = @ \ {k}]
      BY <2>5 DEF AcompanhaVivo
    <3>2. filaVPS' = filaVPS /\ arquivos' = arquivos /\ pipeline' = pipeline /\ runJobs.fase = "acompanha"
      BY <2>5 DEF AcompanhaVivo
    <3> QED
      BY <3>1, <3>2 DEF VpsInv, VpsTipo, SemProcesso, ArquivoDePega, MaoCheia, FechaSoDepoisDoFim
  <2>6. CASE AcompanhaFecha
    <3>1. PICK k \in runJobs.lista, st \in Fechado :
             /\ pipeline[k] # "rodando"
             /\ filaVPS' = [filaVPS EXCEPT ![k] = st]
             /\ runJobs' = [runJobs EXCEPT !.fase = "fechou", !.sid = k]
      BY <2>6 DEF AcompanhaFecha, Vivo
    <3>2. arquivos' = arquivos /\ pipeline' = pipeline
      BY <2>6 DEF AcompanhaFecha
    <3>3. k \in DOMAIN filaVPS /\ filaVPS[k] # "aprovado" /\ st \in Situacoes /\ st # "aprovado"
      BY DEF VpsInv, ArquivoDePega, Situacoes, Fechado
    <3>4. /\ filaVPS' \in Seq(Situacoes) /\ Len(filaVPS') = Len(filaVPS) /\ DOMAIN filaVPS' = DOMAIN filaVPS
          /\ filaVPS'[k] = st /\ \A j \in DOMAIN filaVPS \ {k} : filaVPS'[j] = filaVPS[j]
      BY <3>1, <3>3, TrocaStatus DEF VpsInv
    <3>0. runJobs' \in [fase : Fases, lista : SUBSET Tarefas, sid : Nat]
      <4>1. runJobs \in [fase : Fases, lista : SUBSET Tarefas, sid : Nat] /\ k \in Nat /\ "fechou" \in Fases
        BY <2>0, <3>3 DEF VpsInv, VpsTipo, Fases, Tarefas
      <4> QED
        BY <3>1, <4>1
    <3>5. VpsTipo'
      BY <3>0, <3>2, <3>4 DEF VpsInv, VpsTipo
    <3>6. runJobs'.lista = runJobs.lista /\ runJobs'.fase = "fechou" /\ runJobs'.sid = k
      BY <3>1 DEF VpsInv, VpsTipo
    <3>7. SemProcesso' /\ ArquivoDePega' /\ MaoCheia' /\ FechaSoDepoisDoFim'
      BY <3>1, <3>2, <3>3, <3>4, <3>6 DEF VpsInv, SemProcesso, ArquivoDePega, MaoCheia, FechaSoDepoisDoFim
    <3> QED
      BY <3>5, <3>7 DEF VpsInv
  <2>7. CASE AcompanhaRemove
    BY <2>7 DEF AcompanhaRemove, VpsInv, VpsTipo, SemProcesso, ArquivoDePega, MaoCheia,
                FechaSoDepoisDoFim, Fases
  <2>8. CASE Pega
    <3>1. PICK k \in DOMAIN filaVPS :
             /\ filaVPS[k] = "aprovado"
             /\ filaVPS' = [filaVPS EXCEPT ![k] = "executando"]
             /\ runJobs' = [runJobs EXCEPT !.fase = "pegou", !.sid = k]
      BY <2>8 DEF Pega
    <3>2. arquivos' = arquivos /\ pipeline' = pipeline
      BY <2>8 DEF Pega
    <3>3. /\ filaVPS' \in Seq(Situacoes) /\ Len(filaVPS') = Len(filaVPS) /\ DOMAIN filaVPS' = DOMAIN filaVPS
          /\ filaVPS'[k] = "executando" /\ \A j \in DOMAIN filaVPS \ {k} : filaVPS'[j] = filaVPS[j]
      BY <3>1, TrocaStatus DEF VpsInv, Situacoes, Abertas
    <3>4. pipeline[k] = "nao"
      BY <2>0, <3>1 DEF VpsInv, SemProcesso
    <3>5. runJobs'.lista = runJobs.lista /\ runJobs'.fase = "pegou" /\ runJobs'.sid = k
      BY <3>1 DEF VpsInv, VpsTipo
    <3>0. runJobs' \in [fase : Fases, lista : SUBSET Tarefas, sid : Nat]
      <4>1. runJobs \in [fase : Fases, lista : SUBSET Tarefas, sid : Nat] /\ k \in Nat /\ "pegou" \in Fases
        BY <2>0, <3>1 DEF VpsInv, VpsTipo, Fases, Tarefas
      <4> QED
        BY <3>1, <4>1
    <3>6. VpsTipo'
      BY <3>0, <3>2, <3>3 DEF VpsInv, VpsTipo
    <3>7. SemProcesso' /\ ArquivoDePega' /\ MaoCheia' /\ FechaSoDepoisDoFim'
      BY <3>1, <3>2, <3>3, <3>4, <3>5
         DEF VpsInv, SemProcesso, ArquivoDePega, MaoCheia, FechaSoDepoisDoFim, Fechado
    <3> QED
      BY <3>6, <3>7 DEF VpsInv
  <2>9. CASE SoltaFundo
    <3> DEFINE k == runJobs.sid
    <3>1. /\ pipeline' = [pipeline EXCEPT ![k] = "rodando"]
          /\ runJobs' = [runJobs EXCEPT !.fase = "soltou"]
          /\ filaVPS' = filaVPS /\ arquivos' = arquivos
      BY <2>9 DEF SoltaFundo, Segue
    <3>2. k \in DOMAIN filaVPS /\ filaVPS[k] = "executando"
      BY <2>9 DEF SoltaFundo, VpsInv, MaoCheia
    <3>3. pipeline'[k] = "rodando" /\ \A j \in Tarefas \ {k} : pipeline'[j] = pipeline[j]
      BY <2>0, <3>1, <3>2 DEF VpsInv, VpsTipo
    <3>4. VpsTipo' /\ runJobs'.lista = runJobs.lista /\ runJobs'.fase = "soltou" /\ runJobs'.sid = k
      BY <3>1 DEF VpsInv, VpsTipo, Fases
    <3>5. SemProcesso' /\ ArquivoDePega' /\ MaoCheia' /\ FechaSoDepoisDoFim'
      BY <2>0, <3>1, <3>2, <3>3, <3>4
         DEF VpsInv, SemProcesso, ArquivoDePega, MaoCheia, FechaSoDepoisDoFim, Fechado
    <3> QED
      BY <3>4, <3>5 DEF VpsInv
  <2>10. CASE GuardaEstado
    <3>1. /\ arquivos' = arquivos \cup {runJobs.sid} /\ runJobs.fase = "soltou"
          /\ runJobs' = [runJobs EXCEPT !.fase = "proxima"]
          /\ filaVPS' = filaVPS /\ pipeline' = pipeline
      BY <2>10 DEF GuardaEstado, Segue
    <3> QED
      BY <3>1 DEF VpsInv, VpsTipo, SemProcesso, ArquivoDePega, MaoCheia, FechaSoDepoisDoFim, Fases
  <2>11. CASE FaltaScript
    <3> DEFINE k == runJobs.sid
    <3>1. /\ filaVPS' = [filaVPS EXCEPT ![k] = "erro"]
          /\ runJobs' = [runJobs EXCEPT !.fase = "proxima"]
          /\ arquivos' = arquivos /\ pipeline' = pipeline
      BY <2>11 DEF FaltaScript, Segue
    <3>2. k \in DOMAIN filaVPS /\ filaVPS[k] # "aprovado" /\ pipeline[k] = "nao"
      BY <2>11 DEF FaltaScript, VpsInv, MaoCheia
    <3>3. /\ filaVPS' \in Seq(Situacoes) /\ Len(filaVPS') = Len(filaVPS) /\ DOMAIN filaVPS' = DOMAIN filaVPS
          /\ filaVPS'[k] = "erro" /\ \A j \in DOMAIN filaVPS \ {k} : filaVPS'[j] = filaVPS[j]
      BY <3>1, <3>2, TrocaStatus DEF VpsInv, Situacoes, Fechado
    <3>4. VpsTipo' /\ runJobs'.lista = runJobs.lista /\ runJobs'.fase = "proxima"
      BY <3>1, <3>3 DEF VpsInv, VpsTipo, Fases
    <3>5. SemProcesso' /\ ArquivoDePega' /\ MaoCheia' /\ FechaSoDepoisDoFim'
      BY <3>1, <3>2, <3>3, <3>4 DEF VpsInv, SemProcesso, ArquivoDePega, MaoCheia, FechaSoDepoisDoFim
    <3> QED
      BY <3>4, <3>5 DEF VpsInv
  <2>12. CASE RunJobsTermina \/ RunJobsMorre
    <3>1. /\ runJobs' = [fase |-> "parado", lista |-> {}, sid |-> 0]
          /\ filaVPS' = filaVPS /\ arquivos' = arquivos /\ pipeline' = pipeline
      BY <2>12 DEF RunJobsTermina, RunJobsMorre, SemRunJobs
    <3> QED
      BY <3>1 DEF VpsInv, VpsTipo, SemProcesso, ArquivoDePega, MaoCheia, FechaSoDepoisDoFim, Fases
  <2>13. ASSUME NEW k \in Tarefas, ProcessoTermina(k) PROVE VpsInv'
    <3>1. /\ pipeline' = [pipeline EXCEPT ![k] = "fim"] /\ pipeline[k] = "rodando"
          /\ filaVPS' = filaVPS /\ arquivos' = arquivos /\ runJobs' = runJobs
      BY <2>13 DEF ProcessoTermina
    <3>2. pipeline'[k] = "fim" /\ \A j \in Tarefas \ {k} : pipeline'[j] = pipeline[j]
      BY <3>1 DEF VpsInv, VpsTipo
    <3>3. VpsTipo'
      BY <3>1 DEF VpsInv, VpsTipo
    <3>4. SemProcesso' /\ ArquivoDePega' /\ MaoCheia' /\ FechaSoDepoisDoFim'
      BY <2>0, <3>1, <3>2 DEF VpsInv, SemProcesso, ArquivoDePega, MaoCheia, FechaSoDepoisDoFim
    <3> QED
      BY <3>3, <3>4 DEF VpsInv
  <2>14. ASSUME NEW k \in Tarefas, PidReusado(k) \/ PidLivre(k) PROVE VpsInv'
    BY <2>14 DEF PidReusado, PidLivre, VpsInv, VpsTipo, SemProcesso, ArquivoDePega, MaoCheia,
                 FechaSoDepoisDoFim
  <2>15. CASE HostReinicia
    <3>1. /\ pipeline' = [k \in Tarefas |-> IF pipeline[k] = "rodando" THEN "fim" ELSE pipeline[k]]
          /\ runJobs' = [fase |-> "parado", lista |-> {}, sid |-> 0]
          /\ filaVPS' = filaVPS /\ arquivos' = arquivos
      BY <2>15 DEF HostReinicia, SemRunJobs
    <3>2. VpsTipo'
      BY <3>1 DEF VpsInv, VpsTipo, Fases
    <3>3. SemProcesso' /\ ArquivoDePega' /\ MaoCheia' /\ FechaSoDepoisDoFim'
      BY <2>0, <3>1 DEF VpsInv, SemProcesso, ArquivoDePega, MaoCheia, FechaSoDepoisDoFim
    <3> QED
      BY <3>2, <3>3 DEF VpsInv
  <2> QED
    BY <2>1, <2>2, <2>3, <2>4, <2>5, <2>6, <2>7, <2>8, <2>9, <2>10, <2>11, <2>12, <2>13, <2>14, <2>15
       DEF VpsNext, PassoRunJobs, PassoDoHost
<1>3. VpsInv => FechaSoDepoisDoFim
  BY DEF VpsInv
<1> QED
  BY <1>1, <1>2, <1>3, PTL DEF VpsSpec
=============================================================================
