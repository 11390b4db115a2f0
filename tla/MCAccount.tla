------------------------------ MODULE MCAccount ------------------------------
(* Two accounts that share a browser, so that one signs in over the other.   *)
EXTENDS Account, TLC

MCSymmetry == Permutations(Threads) \cup Permutations(Accounts)
==============================================================================
