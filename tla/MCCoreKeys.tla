----------------------------- MODULE MCCoreKeys -----------------------------
(* CoreKeys with one key and one file system error or crash.                *)
EXTENDS CoreKeys
=============================================================================
