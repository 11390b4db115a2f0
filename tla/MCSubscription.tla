--------------------------- MODULE MCSubscription ---------------------------
(***************************************************************************)
(* Subscription on small instances. A day is two ticks long and the passes *)
(* last one and two days, so that a short pass can be bought during a long *)
(* one, a pass can run out while a request is in flight, and a tick can    *)
(* pass without the day changing.                                          *)
(***************************************************************************)
EXTENDS Subscription, TLC

MCDays == [p \in Prices |-> IF p = "7" THEN 1 ELSE 2]

MCSymmetry ==
    Permutations(Threads) \cup Permutations(Sessions) \cup Permutations(Customers)
=============================================================================
