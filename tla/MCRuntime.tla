------------------------------ MODULE MCRuntime ------------------------------
(***************************************************************************)
(* The programs of MCTranslator, translated and executed.                  *)
(***************************************************************************)
EXTENDS Runtime, MCTranslator
=============================================================================
