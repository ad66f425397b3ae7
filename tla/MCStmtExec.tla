----------------------------- MODULE MCStmtExec -----------------------------
(***************************************************************************)
(* The functions of MCStmtGen, generated and then executed beside their    *)
(* source.                                                                 *)
(***************************************************************************)
EXTENDS MCStmtGen, StmtExec
=============================================================================
