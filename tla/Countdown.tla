------------------------------ MODULE Countdown ------------------------------
(***************************************************************************)
(* The button of the home page against the server's minute: the page that  *)
(* home#index renders with the wallet's timestamp, the Stimulus controller *)
(* that disables the button and counts whole seconds down, and the         *)
(* requests of module Wallet, which compare exact times. Browser and       *)
(* server read the same clock.                                             *)
(***************************************************************************)
EXTENDS Wallet

CONSTANT Second   \* clock ticks per second

ASSUME CountdownAssumption == Second \in Nat \ {0} /\ Minute % Second = 0

VARIABLE page   \* the page the browser shows

allvars == <<vars, page>>

(* timestamp: the attribute data-timestamp; left: timeLeft; next: when the  *)
(* interval's callback is due; none of the last two without an interval.    *)
NoPage == [shown |-> FALSE, timestamp |-> 0, left |-> 0, next |-> 0, enabled |-> FALSE]

Floor(time) == time \div Second

CountdownInit == Init /\ page = NoPage

(* Mutation: the second that has begun is counted as over. *)
TimeLeftBegun(timestamp) == Minute \div Second - (Floor(now) + 1 - timestamp)

TimeLeft(timestamp) == Minute \div Second - (Floor(now) - timestamp)

(* home#index renders wallet.timestamp.to_i, and connect() runs when the    *)
(* browser has the page.                                                    *)
Connect ==
    LET timestamp == Floor(wallet.timestamp)
        left == TimeLeft(timestamp)
    IN  /\ page' = [shown |-> TRUE, timestamp |-> timestamp,
                    left |-> IF left > 0 THEN left ELSE 0,
                    next |-> IF left > 0 THEN now + Second ELSE 0,
                    enabled |-> left <= 0]
        /\ UNCHANGED vars

(* The callback of setInterval, when it is due or later.                    *)
Interval ==
    /\ page.left > 0
    /\ page.next <= now
    /\ page' = [page EXCEPT !.left = @ - 1,
                            !.next = IF page.left = 1 THEN 0 ELSE @ + Second,
                            !.enabled = page.left = 1]
    /\ UNCHANGED vars

(* Somebody presses the button, or sends the form from elsewhere.           *)
CountdownNext == (Next /\ UNCHANGED page) \/ Connect \/ Interval

CountdownSpec == CountdownInit /\ [][CountdownNext]_allvars
-------------------------------------------------------------------------------
(* A button that is enabled under the timestamp the wallet holds is at most *)
(* a second early, whatever instant the page came and however late its      *)
(* intervals run: whole seconds are rounded down twice and the server's     *)
(* comparison is strict, so timer_controller.js cannot promise more, and    *)
(* eligible_for_playlist? may still refuse within that second.              *)
ButtonHardlyEarly ==
    page.enabled /\ page.timestamp = Floor(wallet.timestamp)
        => wallet.timestamp < now - Minute + Second
===============================================================================
