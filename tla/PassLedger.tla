----------------------------- MODULE PassLedger -----------------------------
(***************************************************************************)
(* What the pass promises, without requests, rows in memory or Stripe's    *)
(* pages. A session is opened for a price. Whoever comes back with it is   *)
(* due a pass of that price: its length counted from then, to the end of   *)
(* the day that falls on. The pass is then stored as it is due, or not at  *)
(* all; it is on exactly as long as it has an end, is replaced only by     *)
(* another one, and is over only after its end. Nothing obliges it to be   *)
(* switched off at once.                                                   *)
(***************************************************************************)
EXTENDS Integers

CONSTANTS Sessions, Prices, Days, DayLength, nil

VARIABLES
    now,
    price,   \* what each session was opened for, or nil
    due,     \* ends of passes that are due and not stored
    on, until

ledger == <<now, price, due, on, until>>

(* The instants that are the last of a day, that of t. *)
LastOfDay(t) == {e \in t..(t + DayLength - 1) : (e + 1) % DayLength = 0}

Init == /\ now = 0
        /\ price = [s \in Sessions |-> nil]
        /\ due = {}
        /\ on = FALSE /\ until = nil

Open(s) == /\ price[s] = nil
           /\ \E p \in Prices : price' = [price EXCEPT ![s] = p]
           /\ UNCHANGED <<now, due, on, until>>

Ask(s) == /\ price[s] # nil
          /\ \E e \in LastOfDay(now + Days[price[s]] * DayLength) : due' = due \cup {e}
          /\ UNCHANGED <<now, price, on, until>>

Grant(e) == /\ due' = due \ {e}
            /\ on' = TRUE /\ until' = e
            /\ UNCHANGED <<now, price>>

Forget(e) == due' = due \ {e} /\ UNCHANGED <<now, price, on, until>>

Lapse == /\ on /\ until < now
         /\ on' = FALSE /\ until' = nil
         /\ UNCHANGED <<now, price, due>>

Tick == now' = now + 1 /\ UNCHANGED <<price, due, on, until>>

Next == \/ \E s \in Sessions : Open(s) \/ Ask(s)
        \/ \E e \in due : Grant(e) \/ Forget(e)
        \/ Lapse \/ Tick

Spec == Init /\ [][Next]_ledger
=============================================================================
