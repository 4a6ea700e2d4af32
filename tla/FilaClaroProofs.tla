---------------------------- MODULE FilaClaroProofs ----------------------------
(* FilaClaro for any lots, blocks, rounds and failures: a lot that is closed *)
(* came from an intact zip and is on the Drive.                              *)
EXTENDS FilaClaro, WellFoundedInduction, TLAPS

(* The two records have their fields.                                        *)
Forma ==
  /\ lote = [pasta |-> lote.pasta, inteira |-> lote.inteira, estado |-> lote.estado,
             feito |-> lote.feito, recusado |-> lote.recusado, drive |-> lote.drive,
             marcado |-> lote.marcado]
  /\ jobClaro = [fase |-> jobClaro.fase, l |-> jobClaro.l]

(* What has a state file, or is further than the extraction, was intact.     *)
VeioInteiro ==
  /\ lote.estado \subseteq lote.inteira
  /\ jobClaro.fase \in {"extrai", "estado", "libera", "sobe", "conclui"} => jobClaro.l \in lote.inteira
  /\ jobClaro.fase = "conclui" => jobClaro.l \in lote.drive

ClaroInv == Forma /\ VeioInteiro /\ SoConcluiInteiro

LEMMA MenorPertence ==
  ASSUME NEW S \in SUBSET Nat, S # {}
  PROVE  Menor(S) \in S
<1> DEFINE R == OpToRel(<, Nat)
<1>1. R = {p \in Nat \X Nat : p[1] < p[2]}
  BY Zenon DEF OpToRel
<1>2. IsWellFoundedOn(R, Nat)
  BY Zenon, NatLessThanWellFounded
<1>3. S \subseteq Nat /\ S # {}
  OBVIOUS
<1> HIDE DEF R
<1>4. \E x \in S : \A y \in S : ~(<<y, x>> \in R)
  BY ONLY <1>2, <1>3, WFMin, Zenon
<1>5. PICK x \in S : \A y \in S : ~(<<y, x>> \in R)
  BY <1>4
<1>6. ASSUME NEW y \in S PROVE x <= y
  <2>1. x \in Nat /\ y \in Nat /\ ~(<<y, x>> \in R)
    BY <1>5
  <2>2. ~(y < x)
    BY <1>1, <2>1
  <2> QED
    BY <2>1, <2>2
<1> QED
  BY <1>6 DEF Menor

(* A step of the job that leaves the lots alone.                             *)
LEMMA SoOJob ==
  ASSUME ClaroInv, UNCHANGED lote, NEW f, NEW l, PassaJob(f, l),
         f \notin {"extrai", "estado", "libera", "sobe", "conclui"} \/ (f # "conclui" /\ l \in lote.inteira)
  PROVE  ClaroInv'
BY DEF ClaroInv, Forma, VeioInteiro, SoConcluiInteiro, PassaJob

(* A step that leaves the job and the lots alone.                            *)
LEMMA Alheio ==
  ASSUME ClaroInv, UNCHANGED <<lote, jobClaro>>
  PROVE  ClaroInv'
BY DEF ClaroInv, Forma, VeioInteiro, SoConcluiInteiro

(* A mark is history to the lots.                                            *)
LEMMA MarcaMantem ==
  ASSUME ClaroInv, NEW l, Marca(l), UNCHANGED jobClaro
  PROVE  ClaroInv'
BY DEF ClaroInv, Forma, VeioInteiro, SoConcluiInteiro, Marca

(* A step that only takes from pasta and adds to recusado.                   *)
LEMMA RecusaMantem ==
  ASSUME ClaroInv, NEW l, Recusa(l)
  PROVE  ClaroInv'
BY DEF ClaroInv, Forma, VeioInteiro, SoConcluiInteiro, Recusa, PassaJob

LEMMA ConclusaoInicia == ClaroInit => ClaroInv
BY DEF ClaroInit, ClaroInv, Forma, VeioInteiro, SoConcluiInteiro, SemJob

LEMMA PassoDoJobMantem ==
  ASSUME ClaroInv, PassoDoJob
  PROVE  ClaroInv'
<1> USE DEF ClaroInv
<1>1. ASSUME PreparaPendente PROVE ClaroInv'
  <2>1. Pendentes \in SUBSET Nat /\ Pendentes # {}
    BY <1>1, ClaroOK DEF PreparaPendente, Pendentes
  <2>2. Menor(Pendentes) \in lote.inteira
    BY <2>1, MenorPertence DEF Pendentes, VeioInteiro
  <2>3. PassaJob("sobe", Menor(Pendentes)) /\ UNCHANGED lote
    BY <1>1 DEF PreparaPendente
  <2> QED
    BY <2>2, <2>3, SoOJob
<1>2. ASSUME PreparaPega PROVE ClaroInv'
  <2>1. PICK l : PassaJob("pegou", l) /\ UNCHANGED lote
    BY <1>2 DEF PreparaPega, Pega1
  <2> QED
    BY <2>1, SoOJob
<1>3. ASSUME PreparaNada \/ Descarta \/ Falhou PROVE ClaroInv'
  <2>1. \E f \in {"parado"} : PassaJob(f, 0) /\ UNCHANGED lote
    BY <1>3 DEF PreparaNada, Descarta, Falhou
  <2> QED
    BY <2>1, SoOJob
<1>4. ASSUME Descompacta PROVE ClaroInv'
  <2>1. zips[<<"zip", jobClaro.l>>] = Cheio
    BY <1>4 DEF Descompacta, Integro
  <2>2. lote' = [lote EXCEPT !.pasta = @ \cup {jobClaro.l}, !.inteira = @ \cup {jobClaro.l}]
    BY <1>4, <2>1 DEF Descompacta
  <2>3. jobClaro' = [fase |-> "extrai", l |-> jobClaro.l]
    BY <1>4 DEF Descompacta, PassaJob
  <2> QED
    BY <2>2, <2>3 DEF Forma, VeioInteiro, SoConcluiInteiro
<1>5. ASSUME RecusaRuim PROVE ClaroInv'
  <2>1. PICK l : Recusa(l)
    BY <1>5 DEF RecusaRuim
  <2> QED
    BY <2>1, RecusaMantem
<1>6. ASSUME ExtraiNoBanco PROVE ClaroInv'
  <2>1. PassaJob("estado", jobClaro.l) /\ UNCHANGED lote /\ jobClaro.l \in lote.inteira
    BY <1>6 DEF ExtraiNoBanco, VeioInteiro
  <2> QED
    BY <2>1, SoOJob
<1>7. ASSUME ExtraiErra PROVE ClaroInv'
  <2>1. CASE \E l : Recusa(l)
    BY <2>1, RecusaMantem
  <2>2. CASE \E l : lote' = [lote EXCEPT !.pasta = @ \ {l}] /\ PassaJob("parado", 0)
    BY <2>2 DEF PassaJob, Forma, VeioInteiro, SoConcluiInteiro
  <2> QED
    BY <1>7, <2>1, <2>2 DEF ExtraiErra
<1>8. ASSUME GravaEstadoClaro PROVE ClaroInv'
  <2>1. /\ lote' = [lote EXCEPT !.estado = @ \cup {jobClaro.l}]
        /\ jobClaro' = [fase |-> "libera", l |-> jobClaro.l] /\ jobClaro.fase = "estado"
    BY <1>8 DEF GravaEstadoClaro, PassaJob
  <2> QED
    BY <2>1 DEF Forma, VeioInteiro, SoConcluiInteiro
<1>9. ASSUME LiberaDisco PROVE ClaroInv'
  <2>1. PassaJob("sobe", jobClaro.l) /\ UNCHANGED lote /\ jobClaro.l \in lote.inteira
    BY <1>9 DEF LiberaDisco, VeioInteiro
  <2> QED
    BY <2>1, SoOJob
<1>10. ASSUME Sobe PROVE ClaroInv'
  <2>1. CASE PassaJob("parado", 0) /\ UNCHANGED lote
    BY <2>1, SoOJob
  <2>2. CASE lote' = [lote EXCEPT !.drive = @ \cup {jobClaro.l}] /\ PassaJob("conclui", jobClaro.l)
    <3>1. jobClaro.l \in lote.inteira
      BY <1>10 DEF Sobe, VeioInteiro
    <3> QED
      BY <2>2, <3>1 DEF PassaJob, Forma, VeioInteiro, SoConcluiInteiro
  <2> QED
    BY <1>10, <2>1, <2>2 DEF Sobe
<1>11. ASSUME Conclui PROVE ClaroInv'
  <2>1. CASE PassaJob("parado", 0) /\ UNCHANGED lote
    BY <2>1, SoOJob
  <2>2. CASE lote' = [lote EXCEPT !.feito = @ \cup {jobClaro.l}] /\ PassaJob("limpa", jobClaro.l)
    <3>1. jobClaro.l \in lote.inteira \cap lote.drive
      BY <1>11 DEF Conclui, VeioInteiro
    <3> QED
      BY <2>2, <3>1 DEF PassaJob, Forma, VeioInteiro, SoConcluiInteiro
  <2> QED
    BY <1>11, <2>1, <2>2 DEF Conclui
<1>12. ASSUME Limpa PROVE ClaroInv'
  <2>1. \/ lote' = [lote EXCEPT !.pasta = @ \ {jobClaro.l}]
        \/ lote' = [lote EXCEPT !.estado = @ \ {jobClaro.l}]
    BY <1>12 DEF Limpa
  <2>2. jobClaro' = jobClaro \/ PassaJob("prepara", 0)
    BY <1>12 DEF Limpa
  <2>3. jobClaro.fase = "limpa"
    BY <1>12 DEF Limpa
  <2> QED
    BY <2>1, <2>2, <2>3 DEF PassaJob, Forma, VeioInteiro, SoConcluiInteiro
<1> QED
  BY <1>1, <1>2, <1>3, <1>4, <1>5, <1>6, <1>7, <1>8, <1>9, <1>10, <1>11, <1>12 DEF PassoDoJob

LEMMA ConclusaoMantem ==
  ASSUME ClaroInv, [ClaroNext]_claroVars
  PROVE  ClaroInv'
<1>1. CASE UNCHANGED claroVars
  BY <1>1, Alheio DEF claroVars
<1>2. CASE \E l \in Lotes : ServidorAbre(l) \/ ServidorEscreve(l) \/ ServidorErra(l) \/ ServidorRenomeia(l)
  BY <1>2, Alheio DEF ServidorAbre, ServidorEscreve, ServidorErra, ServidorRenomeia
<1>3. CASE ExtensaoInicia \/ ExtensaoPede \/ ExtensaoVe \/ ExtensaoTermina
  BY <1>3, Alheio DEF ExtensaoInicia, ExtensaoPede, ExtensaoVe, ExtensaoTermina
<1>4. CASE ParteStart \/ ParteAcrescenta \/ ParteDone
  BY <1>4, Alheio DEF ParteStart, ParteAcrescenta, ParteDone
<1>7. CASE (\E l \in Lotes : ServidorMarca(l)) \/ ParteMarca
  BY <1>7, MarcaMantem DEF ServidorMarca, ParteMarca
<1>5. CASE PassoDoJob
  BY <1>5, PassoDoJobMantem
<1>6. CASE BackendReinicia \/ JobMorre
  <2>1. UNCHANGED lote /\ (jobClaro' = jobClaro \/ PassaJob("parado", 0))
    BY <1>6 DEF BackendReinicia, JobMorre, SemJob, PassaJob
  <2> QED
    BY <2>1, SoOJob, Alheio
<1> QED
  BY <1>1, <1>2, <1>3, <1>4, <1>5, <1>6, <1>7 DEF ClaroNext

(* A closed lot came from an intact zip and its files are on the Drive, in   *)
(* every order of the server, the extension, the job and their crashes       *)
(* (claro_fila_handler.go:253, 330, processar.py:84-180, 230-253).           *)
THEOREM SempreConcluiInteiro == ClaroSpec => []SoConcluiInteiro
<1>1. ClaroInv => SoConcluiInteiro
  BY DEF ClaroInv
<1> QED
  BY <1>1, ConclusaoInicia, ConclusaoMantem, PTL DEF ClaroSpec
=============================================================================
