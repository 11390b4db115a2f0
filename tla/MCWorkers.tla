------------------------------ MODULE MCWorkers ------------------------------
(***************************************************************************)
(* Workers on small instances.                                             *)
(***************************************************************************)
EXTENDS Workers, TLC

MCSymmetry == Permutations(Requests)
=============================================================================
