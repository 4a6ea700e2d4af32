---------------------------- MODULE MCSolicitacoes ----------------------------
(* Small instances of Solicitacoes for TLC.                                   *)
EXTENDS Solicitacoes

TodosOsTipos == TodosTipos
SoRelatorio  == {"relatorio"}
=============================================================================
