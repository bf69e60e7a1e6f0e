----------------------------- MODULE MCGateway -----------------------------
(* Gateway on small instances: two connections that may be of one device.   *)
EXTENDS Gateway, TLC

Symmetry == Permutations(Sessions) \cup Permutations(CoreIds)
=============================================================================
