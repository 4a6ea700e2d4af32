----------------------------- MODULE Protocolos -----------------------------
(* One ANEEL protocol: its links to processes, what the e-mails and the site *)
(* of ANEEL say of it, and the tasks that come of it. Every backend that     *)
(* points at the database runs rounds of its own; mu keeps rounds and site   *)
(* imports of one backend apart, and nothing keeps those of two backends, or *)
(* the handler that links by hand, apart.                                    *)
EXTENDS Integers, Sequences, FiniteSets, FiniteSetsExt, SequencesExt

CONSTANTS Instancias,   \* backends with a scheduler
          Admin,        \* whoever links and unlinks by hand
          Processos,    \* processes that may be linked, positive numbers
          TipoDe,       \* tipo of each e-mail; they are numbered by received_at
          MaxMovs,      \* bound: movements that cite the protocol
          MaxVinculos,  \* bound: rows of FT_PROTOCOLOS_ANEEL
          Cenarios      \* bound: which backends and e-mails there are, and how many
                        \* site imports, acts of the administrator, crashes and
                        \* failed statements, and whether there are other protocols

VARIABLES
  vinculos,    \* FT_PROTOCOLOS_ANEEL, in the order of id
  citacoes,    \* committed history rows that cite the protocol
  chegou,      \* mail_messages
  eventos,     \* e-mails in FT_PROTOCOLO_EVENTOS
  outros,      \* some other protocol has an e-mail there
  fichas,      \* FT_TAREFAS of this protocol, in the order of id
  rodada,      \* what the round or the import of each backend has in hand
  passo,       \* the call of VincularSeNovo each actor is in
  dispensados, \* e-mails that were meant to leave no task
  saldo,       \* what is left of the scenario
  percalcos    \* what went wrong (o), and the e-mail it was about (e)

protVars == <<vinculos, citacoes, chegou, eventos, outros, fichas, rodada, passo,
              dispensados, saldo, percalcos>>
tabelas  == <<vinculos, citacoes, chegou, eventos, outros, fichas>>
marcas   == <<dispensados, percalcos>>

Emails  == DOMAIN TipoDe
Atores  == Instancias \cup {Admin}
Nenhum  == 0
Origens == {"historico", "email", "site", "manual"}
Tipos   == {"registro", "prazo", "resposta"}

ASSUME ProtocolosOK ==
  /\ Admin \notin Instancias
  /\ Processos \subseteq Nat \ {Nenhum}
  /\ TipoDe \in Seq(Tipos)
  /\ MaxMovs \in Nat /\ MaxVinculos \in Nat
  /\ Cenarios \subseteq [backends : SUBSET Instancias, emails : SUBSET Emails,
                         movs : Nat, site : Nat, atos : Nat, quedas : Nat,
                         falhas : Nat, outros : Nat]

Parada   == [fase |-> "parada", fila |-> <<>>, primeira |-> FALSE,
             linhas |-> {}, achados |-> {}, depois |-> "", evento |-> 0,
             alvo |-> Nenhum, sit |-> "", mudou |-> FALSE]
SemPasso == [fase |-> "livre", proc |-> Nenhum, origem |-> "manual", hist |-> 0,
             semProc |-> 0]
SemProcesso == [proc |-> Nenhum, ativo |-> TRUE, sit |-> "", quando |-> 0, hist |-> 0]

ProtInit ==
  /\ vinculos = <<>> /\ citacoes = {} /\ chegou = {} /\ eventos = {} /\ outros = FALSE
  /\ fichas = <<>> /\ dispensados = {} /\ percalcos = {}
  /\ rodada = [i \in Instancias |-> Parada]
  /\ passo = [a \in Atores |-> SemPasso]
  /\ saldo \in Cenarios

Gasta(q)  == saldo[q] > 0 /\ saldo' = [saldo EXCEPT ![q] = @ - 1]
Vai(i, f) == rodada' = [rodada EXCEPT ![i].fase = f]

\* a statement may fail, and no caller below looks at its error but where said
Tropeca(f)        == IF f THEN Gasta("falhas") ELSE UNCHANGED saldo
Percalco(f, o, S) == percalcos' = IF f THEN percalcos \cup [o : {o}, e : S] ELSE percalcos

\* linhasDo and temProcesso: a read that fails gives the rows read so far
LinhasDo     == {k \in DOMAIN vinculos : vinculos[k].ativo}
TemProcesso  == \E k \in LinhasDo : vinculos[k].proc # Nenhum
Lidas(f)     == {{[linha |-> k, proc |-> vinculos[k].proc] : k \in K} :
                    K \in IF f THEN SUBSET LinhasDo ELSE {LinhasDo}}
-----------------------------------------------------------------------------
(* VincularSeNovo: it reads, and then it writes, a statement at a time       *)

Chama(a, p, origem, h, f) ==
  passo' = [passo EXCEPT ![a] =
     [fase |-> IF ~f /\ \E k \in DOMAIN vinculos : vinculos[k].proc = p
               THEN "religa" ELSE "olha",
      proc |-> p, origem |-> origem, hist |-> h, semProc |-> 0]]
\* the handler turns on what it asked for, whatever came of it
Retorna(a) == passo' = IF a = Admin /\ passo[a].fase # "afirma"
                       THEN [passo EXCEPT ![a].fase = "afirma"]
                       ELSE [passo EXCEPT ![a] = SemPasso]

\* an existing link comes back, unless a movement asks for it
\* mutant: the movement too
Religar(v, p) == [k \in DOMAIN vinculos |->
  IF vinculos[k].proc = p THEN [vinculos[k] EXCEPT !.ativo = TRUE] ELSE vinculos[k]]
Reativa(v, p) == [k \in DOMAIN vinculos |->
  IF vinculos[k].proc = p /\ v.origem # "historico"
  THEN [vinculos[k] EXCEPT !.ativo = TRUE] ELSE vinculos[k]]
\* the row without process becomes this one's; UNIQUE(protocolo_num, id_processo)
Assume(v, p) ==
  IF \E k \in DOMAIN vinculos : vinculos[k].proc = p THEN vinculos
  ELSE [vinculos EXCEPT ![v.semProc].proc = p,
                        ![v.semProc].hist = IF v.hist = 0 THEN @ ELSE v.hist]
\* a new row takes the situation of the row that changed last
Insere(v, p) ==
  IF \E k \in DOMAIN vinculos : vinculos[k].proc = p THEN vinculos
  ELSE LET ultima == {k \in DOMAIN vinculos : \A j \in DOMAIN vinculos :
                                                vinculos[j].quando <= vinculos[k].quando}
           de == IF ultima = {} THEN [sit |-> "", quando |-> 0]
                 ELSE vinculos[Min(ultima)]
       IN Append(vinculos, [proc |-> p, ativo |-> TRUE, sit |-> de.sit,
                            quando |-> de.quando, hist |-> v.hist])

Liga(p) == [k \in DOMAIN vinculos |->
  IF vinculos[k].proc = p THEN [vinculos[k] EXCEPT !.ativo = TRUE] ELSE vinculos[k]]

ReligaVinculo(a, f) ==
  /\ passo[a].fase = "religa" /\ Retorna(a)
  /\ vinculos' = IF f THEN vinculos ELSE Reativa(passo[a], passo[a].proc)
  /\ UNCHANGED fichas
OlhaSemProcesso(a, f) ==
  /\ passo[a].fase = "olha"
  /\ LET nulas == {k \in DOMAIN vinculos : vinculos[k].proc = Nenhum} IN
       passo' = IF f \/ nulas = {} THEN [passo EXCEPT ![a].fase = "insere"]
                ELSE [passo EXCEPT ![a].fase = "assume", ![a].semProc = Min(nulas)]
  /\ UNCHANGED <<vinculos, fichas>>
InsereVinculo(a, f) ==
  /\ passo[a].fase = "insere" /\ Retorna(a)
  /\ vinculos' = IF f THEN vinculos ELSE Insere(passo[a], passo[a].proc)
  /\ Len(vinculos') <= MaxVinculos
  /\ UNCHANGED fichas
AssumeVinculo(a, f) ==
  /\ passo[a].fase = "assume" /\ passo' = [passo EXCEPT ![a].fase = "fecha"]
  /\ vinculos' = IF f THEN vinculos ELSE Assume(passo[a], passo[a].proc)
  /\ UNCHANGED fichas
\* the task that asks for a process is closed, and the others get it
Fechada(t, p)   == IF t.tipo = "registro" /\ t.aberta
                   THEN [t EXCEPT !.proc = p, !.aberta = FALSE] ELSE t
Atribuida(t, p) == IF t.proc = Nenhum THEN [t EXCEPT !.proc = p] ELSE t
FechaRegistro(a, f) ==
  /\ passo[a].fase = "fecha" /\ passo' = [passo EXCEPT ![a].fase = "atribui"]
  /\ fichas' = IF f THEN fichas
               ELSE [k \in DOMAIN fichas |-> Fechada(fichas[k], passo[a].proc)]
  /\ UNCHANGED vinculos
AtribuiTarefas(a, f) ==
  /\ passo[a].fase = "atribui" /\ Retorna(a)
  /\ fichas' = IF f THEN fichas
               ELSE [k \in DOMAIN fichas |-> Atribuida(fichas[k], passo[a].proc)]
  /\ UNCHANGED vinculos
\* VincularProtocoloAneel again
AfirmaVinculo(a, f) ==
  /\ passo[a].fase = "afirma" /\ Retorna(a)
  /\ vinculos' = IF f THEN vinculos ELSE Liga(passo[a].proc)
  /\ UNCHANGED fichas

VincularSeNovo(a) ==
  /\ \E f \in BOOLEAN :
       /\ Tropeca(f)
       /\ \/ ReligaVinculo(a, f) \/ OlhaSemProcesso(a, f) \/ InsereVinculo(a, f)
          \/ AssumeVinculo(a, f) \/ FechaRegistro(a, f) \/ AtribuiTarefas(a, f)
          \/ AfirmaVinculo(a, f)
  /\ UNCHANGED <<citacoes, chegou, eventos, outros, rodada, marcas>>
-----------------------------------------------------------------------------
(* The round of backend i                                                    *)

\* history rows above the highest id already taken; none is known if that read fails
Novas(f) == LET lidas == {vinculos[k].hist : k \in DOMAIN vinculos} \cup {0}
            IN {c \in citacoes : f \/ c.id > Max(lidas)}

\* TryLock, and the list of movements
RodadaComeca(i) ==
  /\ rodada[i].fase = "parada"
  /\ \E f \in BOOLEAN :
       /\ Tropeca(f)
       /\ rodada' = [rodada EXCEPT ![i] = [Parada EXCEPT !.fase = "captura",
            !.fila = SetToSortSeq(Novas(f), LAMBDA x, y : x.id < y.id)]]
  /\ UNCHANGED <<tabelas, passo, marcas>>

\* CapturarDoHistorico, one movement
Captura(i) ==
  /\ rodada[i].fase = "captura" /\ passo[i].fase = "livre" /\ rodada[i].fila # <<>>
  /\ \E f \in BOOLEAN :
       LET m == Head(rodada[i].fila) IN
         /\ Tropeca(f)
         /\ Chama(i, m.proc, "historico", m.id, f)
         /\ rodada' = [rodada EXCEPT ![i].fila = Tail(@)]
  /\ UNCHANGED <<tabelas, marcas>>

\* the text of an e-mail, or the address on the site, leads to some processes
Achados(f) == IF TemProcesso /\ ~f THEN {{}} ELSE SUBSET Processos
LigaAchado(i) ==
  /\ rodada[i].fase = "procura" /\ passo[i].fase = "livre"
  /\ IF rodada[i].achados = {} THEN Vai(i, rodada[i].depois) /\ UNCHANGED <<passo, saldo>>
     ELSE \E f \in BOOLEAN : LET p == Min(rodada[i].achados) IN
            /\ Tropeca(f)
            /\ Chama(i, p, IF rodada[i].depois = "siteTarefas" THEN "site" ELSE "email", 0, f)
            /\ rodada' = [rodada EXCEPT ![i].achados = @ \ {p}]
  /\ UNCHANGED <<tabelas, marcas>>

\* ProcurarSemProcesso: the stored e-mails of a protocol without process
ProcuraSemProcesso(i) ==
  /\ rodada[i].fase = "captura" /\ passo[i].fase = "livre" /\ rodada[i].fila = <<>>
  /\ \E S \in IF eventos = {} \/ LinhasDo = {} THEN {{}} ELSE Achados(FALSE) :
       rodada' = [rodada EXCEPT ![i].fase = "procura", ![i].achados = S, ![i].depois = "lista"]
  /\ UNCHANGED <<tabelas, passo, saldo, marcas>>

\* mutant: above the newest event
ListaAcimaDaMarca(i) ==
  /\ rodada[i].fase = "lista"
  /\ rodada' = [rodada EXCEPT ![i].fase = "email", ![i].primeira = (eventos = {} /\ ~outros),
        ![i].fila = SetToSortSeq({e \in chegou : \A f \in eventos : e > f}, <)]
  /\ UNCHANGED <<tabelas, passo, saldo, marcas>>
\* the e-mails that have no event, oldest first; it is a first round if no
\* protocol has one, or if that count fails
ListaEmails(i) ==
  /\ rodada[i].fase = "lista"
  /\ \E f \in BOOLEAN :
       /\ Tropeca(f) /\ Percalco(f, "marca", chegou \ eventos)
       /\ rodada' = [rodada EXCEPT ![i].fase = "email",
            ![i].primeira = f \/ (eventos = {} /\ ~outros),
            ![i].fila = SetToSortSeq(chegou \ eventos, <)]
  /\ UNCHANGED <<tabelas, passo, dispensados>>
\* the list itself fails: this error ends the round
ListaFalha(i) ==
  /\ rodada[i].fase = "lista" /\ Tropeca(TRUE)
  /\ rodada' = [rodada EXCEPT ![i] = Parada]
  /\ UNCHANGED <<tabelas, passo, marcas>>

EmailDe(i) == Head(rodada[i].fila)
Proximo(i) == rodada' = [rodada EXCEPT ![i].fase = "email", ![i].fila = Tail(@)]

\* procurarProcesso for an e-mail of a protocol without process
ProcuraProcesso(i) ==
  /\ rodada[i].fase = "email" /\ rodada[i].fila # <<>>
  /\ \E f \in BOOLEAN : \E S \in Achados(f) :
       /\ Tropeca(f)
       /\ rodada' = [rodada EXCEPT ![i].fase = "procura", ![i].achados = S, ![i].depois = "linha"]
  /\ UNCHANGED <<tabelas, passo, marcas>>

\* a protocol nobody knows is followed without process
OlhaLinha(i) ==
  /\ rodada[i].fase = "linha"
  /\ \E f \in BOOLEAN : \E L \in Lidas(f) :
       Tropeca(f) /\ Vai(i, IF L = {} THEN "cria" ELSE "le")
  /\ UNCHANGED <<tabelas, passo, marcas>>
GaranteLinha(i) ==
  /\ rodada[i].fase = "cria"
  /\ \E f \in BOOLEAN :
       /\ Tropeca(f) /\ Percalco(f, "linhas", {EmailDe(i)})
       /\ vinculos' = IF f THEN vinculos ELSE Append(vinculos, SemProcesso)
       /\ Len(vinculos') <= MaxVinculos
  /\ Vai(i, "le")
  /\ UNCHANGED <<citacoes, chegou, eventos, outros, fichas, passo, dispensados>>
\* the lines the tasks will be for
LeLinhas(i) ==
  /\ rodada[i].fase = "le"
  /\ \E f \in BOOLEAN : \E L \in Lidas(f) :
       /\ Tropeca(f) /\ Percalco(f, "linhas", {EmailDe(i)})
       /\ rodada' = [rodada EXCEPT ![i].fase = "leu", ![i].linhas = L]
  /\ UNCHANGED <<tabelas, passo, dispensados>>

\* INSERT IGNORE: whoever inserts the event goes on with the e-mail, and reads
\* the number of the event; an INSERT that fails leaves it to the next round
GravaEvento(i) ==
  /\ rodada[i].fase = "leu"
  /\ \E f \in BOOLEAN :
       /\ Tropeca(f)
       /\ \/ /\ f \/ EmailDe(i) \in eventos
             /\ Proximo(i) /\ UNCHANGED <<eventos, percalcos>>
          \/ /\ EmailDe(i) \notin eventos
             /\ eventos' = eventos \cup {EmailDe(i)}
             /\ rodada' = [rodada EXCEPT ![i].fase = "situacao",
                             ![i].evento = IF f THEN 0 ELSE EmailDe(i)]
             /\ Percalco(f, "evento", {EmailDe(i)})
  /\ UNCHANGED <<vinculos, citacoes, chegou, outros, fichas, passo, dispensados>>

SituacaoDe(tipo) == CASE tipo = "resposta" -> "concluida" [] OTHER -> tipo
Avanca(e, x) == /\ x.ativo /\ x.quando <= e
                /\ ~(x.sit = "concluida" /\ SituacaoDe(TipoDe[e]) # "concluida")
\* the lines that get a task: registro only for a protocol without process
ComTarefa(i, e) == {l \in rodada[i].linhas : TipoDe[e] # "registro" \/ l.proc = Nenhum}

\* what keeps an e-mail from the task it is due
QuePerde == {"queda", "marca", "linhas", "tarefa"}
Dispensa(e) == dispensados' = IF \E x \in percalcos : x.e = e /\ x.o \in QuePerde
                              THEN dispensados ELSE dispensados \cup {e}

\* the situation goes forward; an old e-mail, or the first round, leaves no task
AvancaSituacao(i) ==
  /\ rodada[i].fase = "situacao"
  /\ LET e == EmailDe(i) IN
     /\ \E f \in BOOLEAN :
          /\ Tropeca(f)
          /\ vinculos' = [k \in DOMAIN vinculos |->
               IF ~f /\ Avanca(e, vinculos[k])
               THEN [vinculos[k] EXCEPT !.sit = SituacaoDe(TipoDe[e]), !.quando = e]
               ELSE vinculos[k]]
     /\ \E antigo \in BOOLEAN :
          IF rodada[i].primeira \/ antigo \/ ComTarefa(i, e) = {}
          THEN Proximo(i) /\ Dispensa(e)
          ELSE /\ rodada' = [rodada EXCEPT ![i].fase = "tarefas", ![i].linhas = ComTarefa(i, e)]
               /\ UNCHANGED dispensados
  /\ UNCHANGED <<citacoes, chegou, eventos, outros, fichas, passo, percalcos>>

Ficha(tipo, e, n, p) == [tipo |-> tipo, email |-> e, evento |-> n, proc |-> p, aberta |-> TRUE]
\* mutant: one task per line
TarefaPorLinha(tipo, e, n, p, o) ==
  fichas' = IF o = "tarefa" THEN fichas ELSE Append(fichas, Ficha(tipo, e, n, p))
\* mutant: no task without a process
TarefaSoComProcesso(tipo, e, n, p, o) ==
  fichas' = IF \/ p = Nenhum \/ o = "tarefa"
               \/ n > 0 /\ o # "contagem" /\ \E k \in DOMAIN fichas : fichas[k].evento = n
            THEN fichas ELSE Append(fichas, Ficha(tipo, e, n, p))
\* tarefaDaMudanca: one task per event, if its number is known and the tasks it
\* has can be counted; the INSERT may fail, and is not tried again
TarefaDaMudanca(tipo, e, n, p, o) ==
  fichas' = IF \/ o = "tarefa"
               \/ n > 0 /\ o # "contagem" /\ \E k \in DOMAIN fichas : fichas[k].evento = n
            THEN fichas ELSE Append(fichas, Ficha(tipo, e, n, p))
Tropecos == {"nada", "contagem", "tarefa"}

CriaTarefa(i) ==
  /\ rodada[i].fase = "tarefas"
  /\ \E l \in rodada[i].linhas, o \in Tropecos :
       /\ Tropeca(o # "nada") /\ Percalco(o # "nada", o, {EmailDe(i)})
       /\ TarefaDaMudanca(TipoDe[EmailDe(i)], EmailDe(i), rodada[i].evento, l.proc, o)
       /\ IF rodada[i].linhas = {l} THEN Proximo(i)
          ELSE rodada' = [rodada EXCEPT ![i].linhas = @ \ {l}]
  /\ UNCHANGED <<vinculos, citacoes, chegou, eventos, outros, passo, dispensados>>

RodadaTermina(i) ==
  /\ rodada[i].fase = "email" /\ rodada[i].fila = <<>>
  /\ rodada' = [rodada EXCEPT ![i] = Parada]
  /\ UNCHANGED <<tabelas, passo, saldo, marcas>>
-----------------------------------------------------------------------------
(* ImportarSite for this protocol                                            *)

SituacoesSite == {"tramite", "concluida"}

SiteLe(i, s) ==
  /\ rodada[i].fase = "parada" /\ LinhasDo # {}
  /\ Gasta("site")
  /\ \E L \in Lidas(FALSE) :
       rodada' = [rodada EXCEPT ![i] = [Parada EXCEPT !.fase = "site", !.sit = s,
          !.linhas = L, !.mudou = vinculos[Min(LinhasDo)].sit # s]]
  /\ UNCHANGED <<tabelas, passo, marcas>>

\* the day of the site, not its hour: as of the e-mail before or after it
SiteGrava(i) ==
  /\ rodada[i].fase = "site"
  /\ \E f \in BOOLEAN, q \in 0..Len(TipoDe) :
       /\ Tropeca(f)
       /\ vinculos' = [k \in DOMAIN vinculos |->
            IF ~f /\ vinculos[k].ativo
            THEN [vinculos[k] EXCEPT !.sit = rodada[i].sit, !.quando = q] ELSE vinculos[k]]
  /\ Vai(i, "endereco")
  /\ UNCHANGED <<citacoes, chegou, eventos, outros, fichas, passo, marcas>>

\* vincularPorEndereco: links, and then a task that asks somebody to look
SiteEndereco(i) ==
  /\ rodada[i].fase = "endereco"
  /\ \E f \in BOOLEAN : \E S \in Achados(f) :
       /\ Tropeca(f)
       /\ rodada' = [rodada EXCEPT ![i].fase = "procura", ![i].achados = S,
            ![i].depois = "siteTarefas", ![i].alvo = IF S = {} THEN Nenhum ELSE Min(S)]
  /\ UNCHANGED <<tabelas, passo, marcas>>
SiteAvisa(i) ==
  /\ rodada[i].fase = "siteTarefas" /\ rodada[i].alvo # Nenhum
  /\ \E f \in BOOLEAN :
       /\ Tropeca(f)
       /\ fichas' = IF f THEN fichas
                    ELSE Append(fichas, Ficha("vinculo", 0, 0, rodada[i].alvo))
  /\ rodada' = [rodada EXCEPT ![i].alvo = Nenhum]
  /\ UNCHANGED <<vinculos, citacoes, chegou, eventos, outros, passo, marcas>>

\* a conclusion that is news, and recent, gives a task; it has no event number
SiteTarefas(i) ==
  /\ rodada[i].fase = "siteTarefas" /\ rodada[i].alvo = Nenhum
  /\ \/ /\ rodada[i].sit = "concluida" /\ rodada[i].mudou
        /\ \E l \in rodada[i].linhas, o \in Tropecos \ {"contagem"} :
             /\ Tropeca(o # "nada")
             /\ TarefaDaMudanca("resposta", 0, 0, l.proc, o)
             /\ IF rodada[i].linhas = {l} THEN rodada' = [rodada EXCEPT ![i] = Parada]
                ELSE rodada' = [rodada EXCEPT ![i].linhas = @ \ {l}]
     \/ rodada' = [rodada EXCEPT ![i] = Parada] /\ UNCHANGED <<fichas, saldo>>
  /\ UNCHANGED <<vinculos, citacoes, chegou, eventos, outros, passo, marcas>>
-----------------------------------------------------------------------------
(* The administrator                                                         *)

\* VincularProtocoloAneel with a process; a failure of its first read is not charged
VinculaManual(p) ==
  /\ passo[Admin].fase = "livre" /\ Gasta("atos")
  /\ \E f \in {FALSE, saldo.falhas > 0} : Chama(Admin, p, "manual", 0, f)
  /\ UNCHANGED <<tabelas, rodada, marcas>>

\* VincularProtocoloAneel without process: it is only followed
SoAcompanha ==
  /\ LinhasDo = {} /\ Len(vinculos) < MaxVinculos /\ Gasta("atos")
  /\ vinculos' = Append(vinculos, SemProcesso)
  /\ UNCHANGED <<citacoes, chegou, eventos, outros, fichas, rodada, passo, marcas>>

\* ConfirmarVinculoProtocoloAneel with manter = false, on a page that may be old
DesligaVinculo(k) ==
  /\ vinculos[k].ativo /\ vinculos[k].proc # Nenhum
  /\ \E j \in DOMAIN vinculos \ {k} : vinculos[j].proc # Nenhum
  /\ Gasta("atos")
  /\ vinculos' = [vinculos EXCEPT ![k].ativo = FALSE]
  /\ UNCHANGED <<citacoes, chegou, eventos, outros, fichas, rodada, passo, marcas>>
-----------------------------------------------------------------------------
(* The world                                                                 *)

\* a movement that cites the protocol commits: not always in the order of ids
Movimentacao(id, p) ==
  /\ Gasta("movs") /\ \A c \in citacoes : c.id # id
  /\ citacoes' = citacoes \cup {[id |-> id, proc |-> p]}
  /\ UNCHANGED <<vinculos, chegou, eventos, outros, fichas, rodada, passo, marcas>>

ChegaEmail(e) ==
  /\ e \in saldo.emails \ chegou /\ chegou' = chegou \cup {e}
  /\ UNCHANGED <<vinculos, citacoes, eventos, outros, fichas, rodada, passo, saldo, marcas>>

\* another protocol gets its first event of an e-mail
OutroProtocolo ==
  /\ ~outros /\ Gasta("outros") /\ outros' = TRUE
  /\ UNCHANGED <<vinculos, citacoes, chegou, eventos, fichas, rodada, passo, marcas>>

\* the process dies with its mutex
EmMaos(i) == IF rodada[i].fase \in {"situacao", "tarefas"} THEN {EmailDe(i)} ELSE {}
Cai(i) ==
  /\ rodada[i].fase # "parada" /\ Gasta("quedas")
  /\ Percalco(TRUE, "queda", EmMaos(i))
  /\ rodada' = [rodada EXCEPT ![i] = Parada]
  /\ passo' = [passo EXCEPT ![i] = SemPasso]
  /\ UNCHANGED <<tabelas, dispensados>>

PassoDaRodada(i) ==
  \/ RodadaComeca(i) \/ Captura(i) \/ VincularSeNovo(i) \/ ProcuraSemProcesso(i)
  \/ LigaAchado(i)
  \/ ListaEmails(i) \/ ListaFalha(i) \/ ProcuraProcesso(i)
  \/ OlhaLinha(i) \/ GaranteLinha(i) \/ LeLinhas(i) \/ GravaEvento(i)
  \/ AvancaSituacao(i) \/ CriaTarefa(i) \/ RodadaTermina(i)
  \/ SiteGrava(i) \/ SiteEndereco(i) \/ SiteAvisa(i)
  \/ SiteTarefas(i)

ProtNext ==
  \/ \E i \in saldo.backends : \/ PassoDaRodada(i) \/ Cai(i)
                               \/ \E s \in SituacoesSite : SiteLe(i, s)
  \/ VincularSeNovo(Admin) \/ SoAcompanha \/ OutroProtocolo
  \/ \E p \in Processos : VinculaManual(p)
  \/ \E k \in DOMAIN vinculos : DesligaVinculo(k)
  \/ \E id \in 1..MaxMovs, p \in Processos : Movimentacao(id, p)
  \/ \E e \in Emails : ChegaEmail(e)

ProtSpec == ProtInit /\ [][ProtNext]_protVars
-----------------------------------------------------------------------------
(* Several lines of one protocol, two backends, a link by hand or a crash in *)
(* between: an e-mail of ANEEL gives two tasks only where the number of its  *)
(* event could not be read, or its tasks counted, both of which switch the   *)
(* deduplication off (protocolos.go:474-501 and 591-597).                    *)
UmaTarefaPorEvento ==
  \A j, k \in DOMAIN fichas :
    j # k /\ fichas[j].email = fichas[k].email /\ fichas[j].email \in Emails =>
      \E x \in percalcos : x.e = fichas[j].email /\ x.o \in {"evento", "contagem"}

(* The event shields the e-mail from every later round. What the round means *)
(* to give a task is lost only by a crash with it in hand or by a statement  *)
(* that fails: the count of the events, the lines, or the task itself        *)
(* (protocolos.go:276, 411, 451, 474 and 606). Two rounds, other links made  *)
(* meanwhile and lines without process lose none.                            *)
TarefaSoSePerdeEmFalha ==
  \A e \in eventos \ dispensados :
    \/ \E k \in DOMAIN fichas : fichas[k].email = e
    \/ \E i \in Instancias : e \in EmMaos(i)
    \/ \E x \in percalcos : x.e = e /\ x.o \in QuePerde

(* A link the administrator turned off is not turned on again because a      *)
(* movement cites the protocol once more (protocolos.go:198).                *)
HistoricoNaoReliga ==
  [][\A k \in DOMAIN vinculos : ~vinculos[k].ativo /\ vinculos'[k].ativo =>
       \E a \in Atores : passo[a] # passo'[a] /\ passo[a].origem # "historico"]_protVars

(* Every e-mail of ANEEL becomes an event of its protocol, whatever crashes  *)
(* (protocolos.go:410-476, the rounds come every 15 minutes).                *)
TodoEmailVemAoHistorico == []<>(chegou \subseteq eventos)
=============================================================================
