---------------------------- MODULE MCMotorCache ----------------------------
(* What the backend keeps in memory, for TLC: the cache of the engine and    *)
(* the panels. They share no variable, so a behaviour runs one of them. The  *)
(* TTL of 120 s, the ticker of 90 s and a scan of about 20 s become 2, 1 and *)
(* at most 1.                                                                *)
EXTENDS MotorCache, Painel

CONSTANT Partes   \* which of the two run
VARIABLE ativo

\* Painel: the set of rules of Acer
PaineisAcer == <<"regras", "painel">>

memoriaVars == <<ativo, vars, painelVars>>
MemoriaInit == ativo \in Partes /\ Init /\ PainelInit
MemoriaNext ==
  \/ ativo = "motor" /\ Next /\ UNCHANGED <<ativo, painelVars>>
  \/ ativo = "painel" /\ PainelNext /\ UNCHANGED <<ativo, vars>>
MemoriaSpec == MemoriaInit /\ [][MemoriaNext]_memoriaVars /\ Justica
=============================================================================
