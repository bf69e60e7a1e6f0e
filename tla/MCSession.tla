----------------------------- MODULE MCSession -----------------------------
(* Session on small instances: one connection, calls that share tokens.     *)
EXTENDS Session, TLC
=============================================================================
