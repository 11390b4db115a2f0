-------------------------------- MODULE Handoff --------------------------------
(***************************************************************************)
(* What a queue kept in Redis promises to the programs that share it: an   *)
(* element that was put in is stored, until one client takes it or it is   *)
(* deleted; nobody takes what was not put in, and nobody takes it twice.   *)
(* Push, fetch and requeue of Workers rest on this.                        *)
(***************************************************************************)
CONSTANT Elements

VARIABLES
    stored,      \* the elements in some list
    taken,       \* the elements a client took
    dropped      \* the elements deleted by a client

Known == stored \cup taken \cup dropped

Init == stored = {} /\ taken = {} /\ dropped = {}

Put(E) == /\ E \cap Known = {}
          /\ stored' = stored \cup E
          /\ UNCHANGED <<taken, dropped>>

Take(e) == /\ e \in stored
           /\ stored' = stored \ {e}
           /\ taken' = taken \cup {e}
           /\ UNCHANGED dropped

Drop(E) == /\ E \subseteq stored
           /\ stored' = stored \ E
           /\ dropped' = dropped \cup E
           /\ UNCHANGED taken

Next == \/ \E E \in SUBSET Elements : Put(E) \/ Drop(E)
        \/ \E e \in Elements : Take(e)

Spec == Init /\ [][Next]_<<stored, taken, dropped>>
===============================================================================
