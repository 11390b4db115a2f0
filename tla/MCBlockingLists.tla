---------------------------- MODULE MCBlockingLists ----------------------------
(***************************************************************************)
(* BlockingLists on two keys: Sidekiq's fetch over both queues, a fetch    *)
(* over one, and moves that feed each other's key or rotate their own.     *)
(***************************************************************************)
EXTENDS BlockingLists

CONSTANTS k1, k2

Brpop(keys, timeout) ==
    [op |-> "pop", keys |-> keys, dst |-> None, where |-> "tail", timeout |-> timeout]
Blmove(src, dst, timeout) ==
    [op |-> "move", keys |-> <<src>>, dst |-> dst, where |-> "tail", timeout |-> timeout]

MCCommands == {Brpop(<<k1, k2>>, 1), Brpop(<<k2>>, 0), Blmove(k1, k2, 0),
               Blmove(k2, k1, 0)}
===============================================================================
