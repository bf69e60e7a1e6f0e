------------------------------ MODULE MCFleet ------------------------------
(* Fleet with two connections that contend for one worker thread, and with    *)
(* one connection whose worker thread may die.                                *)
EXTENDS Fleet, TLC

SessionSymmetry == Permutations(Sessions)
=============================================================================
