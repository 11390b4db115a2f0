------------------------------ MODULE MCWallet ------------------------------
(***************************************************************************)
(* Wallet on small instances: a minute of two ticks, so that a request can *)
(* fall inside the minute, exactly at its end and after it.                *)
(***************************************************************************)
EXTENDS Wallet, TLC

MCSymmetry == Permutations(Threads)
=============================================================================
