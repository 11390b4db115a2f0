----------------------------- MODULE Subscription -----------------------------
(***************************************************************************)
(* The pass of one user: the row of `subscriptions`, the before_action     *)
(* that expires it, the Stripe checkout that sells it and the success      *)
(* callback that grants it, run by concurrent Puma threads.                *)
(*                                                                         *)
(* A step is one access to shared state (a SELECT, an UPDATE, a call to    *)
(* Stripe) together with the local computation that follows it, so a value *)
(* of Time.now is taken at the end of the step before the write it is for. *)
(* Requests of different users share no row: one user is modelled.         *)
(***************************************************************************)
EXTENDS Integers, ActiveRecord

CONSTANTS
    Threads,     \* Puma threads
    Prices,      \* the keys of PRICE_MAPPING: "7", "30", "180"
    Days,        \* the length of the pass of each price
    Sessions,    \* identifiers of Stripe Checkout sessions
    Customers,   \* Stripe customer identifiers
    nil,
    DayLength,   \* clock ticks per day
    MaxTime      \* bound on the clock

ASSUME SubscriptionAssumption ==
    /\ Days \in [Prices -> Nat \ {0}]
    /\ DayLength \in Nat \ {0}
    /\ MaxTime \in Nat
    /\ nil \notin Nat /\ nil \notin Customers
    /\ nil \notin Sessions /\ nil \notin Prices

VARIABLES
    now,         \* Time.current
    row,         \* the user's row of `subscriptions`
    signed_in,   \* does the browser's cookie hold session[:user_id]?
    req,         \* what each thread is serving
    checkout,    \* Stripe's Checkout sessions
    grants,      \* history: the passes written by payments#success
    pass         \* history: the grant written last

vars == <<now, row, signed_in, req, checkout, grants, pass>>
-------------------------------------------------------------------------------
(* Rows and objects *)

Row == [active : BOOLEAN,
        expires_at : Nat \cup {nil},
        stripe_user_id : Customers \cup {nil}]

(* db/schema.rb's defaults, inserted by User#initialize_related_models. *)
NewRow == [active |-> FALSE, expires_at |-> nil, stripe_user_id |-> nil]

(* end_of_day: the last instant of the day of t. *)
EndOfDay(t) == (t \div DayLength) * DayLength + (DayLength - 1)

(* Mutation: no end_of_day. *)
PassEndAtOnce(price) == now + Days[price] * DayLength

(* days.days.from_now.end_of_day *)
PassEnd(price) == EndOfDay(now + Days[price] * DayLength)

Grant == [sid : Sessions, expires : Nat]

Kinds == {"page", "stats", "checkout", "success"}

(* A request: the action it is routed to, its parameter (a price, a session *)
(* id), @current_user present or not, @current_user.subscription in memory, *)
(* and, for a stats page, the time its filters looked at the row.           *)
Idle == [pc |-> "idle", kind |-> "page", price |-> nil, sid |-> nil,
         user |-> FALSE, sub |-> Loaded(NewRow), loaded_at |-> 0]

Request == [pc : {"idle", "expire", "action", "save_pass", "save_customer"},
            kind : Kinds, price : Prices \cup {nil}, sid : Sessions \cup {nil},
            user : BOOLEAN, sub : Objects(Row), loaded_at : Nat]

(* A Stripe Checkout session. *)
Session == [status : {"unused", "open", "paid"}, price : Prices \cup {nil},
            customer : Customers \cup {nil}]

Init ==
    /\ now = 0
    /\ row = NewRow
    /\ signed_in = TRUE
    /\ req = [t \in Threads |-> Idle]
    /\ checkout = [s \in Sessions |->
                      [status |-> "unused", price |-> nil, customer |-> nil]]
    /\ grants = {}
    /\ pass = nil
-------------------------------------------------------------------------------
(* ApplicationController's filters *)

(* Mutations: a pass that is over at its last instant; a day of grace. *)
ExpiredAtLastInstant(sub) == sub.active /\ sub.expires_at # nil /\ sub.expires_at <= now
ExpiredWithGrace(sub) ==
    sub.active /\ sub.expires_at # nil /\ sub.expires_at + DayLength < now

(* subscription.active? with an expires_at before Time.current. *)
Expired(sub) == sub.active /\ sub.expires_at # nil /\ sub.expires_at < now

(* The columns of the object as the code assigns them. *)
SetPass(sub, active, expires_at) ==
    [sub EXCEPT !.attr = [active |-> active, expires_at |-> expires_at,
                          stripe_user_id |-> sub.attr.stripe_user_id]]
SetCustomer(sub, customer) ==
    [sub EXCEPT !.attr = [active |-> sub.attr.active,
                          expires_at |-> sub.attr.expires_at,
                          stripe_user_id |-> customer]]

(* Thread t goes on to program point pc with the object sub, or is done. *)
Goto(t, pc, sub) == req' = [req EXCEPT ![t] = [@ EXCEPT !.pc = pc, !.sub = sub]]
Finish(t) == req' = [req EXCEPT ![t] = Idle]

(* set_current_user, then check_stripe_subscription up to its UPDATE. *)
Start(t, kind, price, sid) ==
    /\ req[t].pc = "idle"
    /\ req' = [req EXCEPT ![t] =
                 [pc |-> IF signed_in /\ Expired(row) THEN "expire" ELSE "action",
                  kind |-> kind, price |-> price, sid |-> sid,
                  user |-> signed_in,
                  sub |-> Loaded(IF signed_in THEN row ELSE NewRow),
                  loaded_at |-> IF kind = "stats" THEN now ELSE 0]]
    /\ UNCHANGED <<now, row, signed_in, checkout, grants, pass>>

StartPage(t) == Start(t, "page", nil, nil)
StartStats(t) == Start(t, "stats", nil, nil)

(* Mutation: no `raise "Invalid price"`. *)
StartCheckoutUnchecked(t) ==
    \E p \in Prices \cup {"365"} : Start(t, "checkout", p, nil)

(* A price that PRICE_MAPPING does not know raises: nothing happens. *)
StartCheckout(t) == \E p \in Prices : Start(t, "checkout", p, nil)

(* The success URL, followed or reloaded, with a session that Stripe knows  *)
(* (for any other, retrieve raises). Its payment_status is not looked at.   *)
StartSuccess(t) ==
    \E s \in Sessions : checkout[s].status # "unused" /\ Start(t, "success", nil, s)

(* Mutations: expires_at left as it is; the time of the request stored as   *)
(* the end.                                                                 *)
ExpireAs(t, sub) ==
    /\ req[t].pc = "expire"
    /\ row' = Written(row, sub)
    /\ Goto(t, "action", Clean(sub))
    /\ UNCHANGED <<now, signed_in, checkout, grants, pass>>
ExpireKeepsDate(t) == ExpireAs(t, SetPass(req[t].sub, FALSE, req[t].sub.attr.expires_at))
ExpireStampsNow(t) == ExpireAs(t, SetPass(req[t].sub, FALSE, now))

(* subscription.update(active: false, expires_at: nil), and a save that     *)
(* finds nothing left to write.                                             *)
Expire(t) ==
    LET sub == SetPass(req[t].sub, FALSE, nil)
    IN  /\ req[t].pc = "expire"
        /\ row' = Written(row, sub)
        /\ Goto(t, "action", Clean(sub))
        /\ UNCHANGED <<now, signed_in, checkout, grants, pass>>
-------------------------------------------------------------------------------
(* The controllers' actions *)

(* Actions that only render or redirect: home#index, pricing#index,         *)
(* users#info, payments#cancel, and the stats pages behind                  *)
(* verif_subscription, which serve a premium page if the object is active.  *)
Render(t) ==
    /\ req[t].pc = "action" /\ req[t].kind \in {"page", "stats"}
    /\ Finish(t)
    /\ UNCHANGED <<now, row, signed_in, checkout, grants, pass>>

Premium(t) ==
    /\ req[t].pc = "action" /\ req[t].kind = "stats"
    /\ req[t].user /\ req[t].sub.attr.active

(* Mutation: the customer is created and stored before anything is paid. *)
CreateCheckoutSessionWithCustomer(t) ==
    /\ req[t].pc = "action" /\ req[t].kind = "checkout" /\ req[t].user
    /\ Finish(t)
    /\ \E s \in Sessions, c \in Customers :
          /\ checkout[s].status = "unused"
          /\ checkout' = [checkout EXCEPT ![s] =
                            [status |-> "open", price |-> req[t].price, customer |-> c]]
          /\ row' = [row EXCEPT !.stripe_user_id = c]
    /\ UNCHANGED <<now, signed_in, grants, pass>>

(* payments#create_checkout_session. Without @current_user the NoMethodError *)
(* is rescued and nothing happens.                                           *)
CreateCheckoutSession(t) ==
    /\ req[t].pc = "action" /\ req[t].kind = "checkout"
    /\ Finish(t)
    /\ IF req[t].user
       THEN \E s \in Sessions :
              /\ checkout[s].status = "unused"
              /\ checkout' = [checkout EXCEPT ![s] =
                                [status |-> "open", price |-> req[t].price,
                                 customer |-> req[t].sub.attr.stripe_user_id]]
       ELSE UNCHANGED checkout
    /\ UNCHANGED <<now, row, signed_in, grants, pass>>

(* payments#success: Session.retrieve and list_line_items, then             *)
(* update_subscription up to its save!. Without @current_user it raises,    *)
(* is rescued and writes nothing.                                           *)
RetrieveSession(t) ==
    LET end == PassEnd(checkout[req[t].sid].price)
    IN  /\ req[t].pc = "action" /\ req[t].kind = "success"
        /\ IF req[t].user
           THEN Goto(t, "save_pass", SetPass(req[t].sub, TRUE, end))
           ELSE Finish(t)
        /\ UNCHANGED <<now, row, signed_in, checkout, grants, pass>>

(* Mutation: no `unless` before the customer is stored. *)
SavePassAndCustomer(t) ==
    LET sub == req[t].sub
        g == [sid |-> req[t].sid, expires |-> sub.attr.expires_at]
    IN  /\ req[t].pc = "save_pass"
        /\ row' = Written(row, sub)
        /\ grants' = grants \cup {g}
        /\ pass' = g
        /\ Goto(t, "save_customer",
                SetCustomer(Clean(sub), checkout[req[t].sid].customer))
        /\ UNCHANGED <<now, signed_in, checkout>>

(* update_subscription's save!, then the customer id in memory if the       *)
(* object has none.                                                         *)
SavePass(t) ==
    LET sub == req[t].sub
        g == [sid |-> req[t].sid, expires |-> sub.attr.expires_at]
    IN  /\ req[t].pc = "save_pass"
        /\ row' = Written(row, sub)
        /\ grants' = grants \cup {g}
        /\ pass' = g
        /\ IF sub.attr.stripe_user_id = nil
           THEN Goto(t, "save_customer",
                     SetCustomer(Clean(sub), checkout[req[t].sid].customer))
           ELSE Finish(t)
        /\ UNCHANGED <<now, signed_in, checkout>>

(* The second save! of payments#success. *)
SaveCustomer(t) ==
    /\ req[t].pc = "save_customer"
    /\ row' = Written(row, req[t].sub)
    /\ Finish(t)
    /\ UNCHANGED <<now, signed_in, checkout, grants, pass>>

(* A request ends early: an exception in a filter, a call to Stripe that    *)
(* fails (rescued by the actions of PaymentsController), a restart of Puma. *)
Abort(t) ==
    /\ req[t].pc # "idle"
    /\ Finish(t)
    /\ UNCHANGED <<now, row, signed_in, checkout, grants, pass>>
-------------------------------------------------------------------------------
(* The environment *)

(* The user pays on Stripe's page. A session opened without a customer may  *)
(* be given one by Stripe.                                                  *)
Pay(s) ==
    /\ checkout[s].status = "open"
    /\ \E c \in Customers \cup {nil} :
         /\ checkout[s].customer # nil => c = checkout[s].customer
         /\ checkout' = [checkout EXCEPT ![s].status = "paid", ![s].customer = c]
    /\ UNCHANGED <<now, row, signed_in, req, grants, pass>>

(* sessions#create and sessions#destroy, as far as the pass is concerned. *)
SignIn == ~signed_in /\ signed_in' = TRUE
          /\ UNCHANGED <<now, row, req, checkout, grants, pass>>
SignOut == signed_in /\ signed_in' = FALSE
           /\ UNCHANGED <<now, row, req, checkout, grants, pass>>

Tick == now < MaxTime /\ now' = now + 1
        /\ UNCHANGED <<row, signed_in, req, checkout, grants, pass>>

Serve(t) ==
    \/ Expire(t) \/ Render(t) \/ CreateCheckoutSession(t)
    \/ RetrieveSession(t) \/ SavePass(t) \/ SaveCustomer(t)

Next ==
    \/ \E t \in Threads :
          \/ StartPage(t) \/ StartStats(t) \/ StartCheckout(t) \/ StartSuccess(t)
          \/ Serve(t) \/ Abort(t)
    \/ \E s \in Sessions : Pay(s)
    \/ SignIn \/ SignOut \/ Tick

Spec == Init /\ [][Next]_vars
-------------------------------------------------------------------------------
(* Properties *)

(* Types of the state: rows of `subscriptions`, requests in flight, Stripe's  *)
(* sessions and the history of grants.                                        *)
TypeOK ==
    /\ now \in Nat
    /\ row \in Row
    /\ signed_in \in BOOLEAN
    /\ req \in [Threads -> Request]
    /\ checkout \in [Sessions -> Session]
    /\ grants \subseteq Grant
    /\ pass \in Grant \cup {nil}

(* Whatever the threads do, an end date in the row is the end of a pass that  *)
(* payments#success wrote for a session opened at the checkout, and it is the *)
(* end of the last day of a pass of that session's price which began at some  *)
(* instant up to now: neither stale objects nor partial writes ever invent or *)
(* stretch one.                                                               *)
PassBacked ==
    row.expires_at # nil =>
        \E g \in grants, start \in 0..now :
            /\ g.expires = row.expires_at
            /\ checkout[g.sid].status # "unused"
            /\ g.expires = EndOfDay(start + Days[checkout[g.sid].price] * DayLength)

(* Whatever the threads do, a stats page is let through by an object that     *)
(* carries an end date only if a pass that payments#success granted had not   *)
(* ended when the filters of that request ran.                                *)
DatedAccessGranted ==
    \A t \in Threads :
        Premium(t) /\ req[t].sub.attr.expires_at # nil =>
            \E g \in grants : req[t].loaded_at <= g.expires

(* The customer id in the row is the one of a session that was paid, though   *)
(* payments#success stores the customer of any session it is asked for and a  *)
(* checkout that the user left may carry one too.                             *)
CustomerPaid ==
    row.stripe_user_id # nil =>
        \E s \in Sessions : /\ checkout[s].status = "paid"
                            /\ checkout[s].customer = row.stripe_user_id

(* What the comments of check_stripe_subscription say: the filter takes back  *)
(* passes that have ended. So a pass granted for a paid session that has not  *)
(* ended has an end date in the row.                                          *)
PassNotErased ==
    pass # nil /\ checkout[pass.sid].status = "paid" /\ now <= pass.expires
        => row.expires_at # nil

(* One thread: the two columns that say whether the pass is on agree between  *)
(* any two steps, though the filter and the success action write them apart.  *)
PassConsistent == row.active <=> row.expires_at # nil

(* One thread: until it ends, the pass granted last is in force: no filter of *)
(* a later request takes it back.                                             *)
PassHonoured ==
    pass # nil /\ now <= pass.expires
        => row.active /\ row.expires_at = pass.expires

(* One thread: a stats page is let through only if a pass that was granted    *)
(* had not ended when the filters of that request ran.                        *)
AccessGranted ==
    \A t \in Threads :
        Premium(t) => \E g \in grants : req[t].loaded_at <= g.expires

(* One thread: the filter, the checkout and the success action implement the  *)
(* promise of PassLedger. The row turns active only for a session opened at   *)
(* the checkout, until the end of the last day of its price counted from the  *)
(* request, loses its pass only after that, and both columns change in one    *)
(* step each time.                                                            *)
Ledger == INSTANCE PassLedger WITH
    price <- [s \in Sessions |-> checkout[s].price],
    due <- {req[t].sub.attr.expires_at : t \in {u \in Threads : req[u].pc = "save_pass"}},
    on <- row.active,
    until <- row.expires_at
KeepsLedger == Ledger!Spec

(* One thread: the Stripe customer of a user, once stored, is never replaced, *)
(* though every session paid brings a customer of its own.                    *)
CustomerSticky ==
    [][row.stripe_user_id # nil => row'.stripe_user_id = row.stripe_user_id]_row
===============================================================================
