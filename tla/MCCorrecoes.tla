----------------------------- MODULE MCCorrecoes -----------------------------
(* One request of every kind with corrections, for TLC.                       *)
EXTENDS Correcoes

TodosOsTipos == TodosTipos
=============================================================================
