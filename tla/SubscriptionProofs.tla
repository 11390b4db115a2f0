-------------------------- MODULE SubscriptionProofs --------------------------
(***************************************************************************)
(* What Subscription keeps for every number of threads, sessions, prices   *)
(* and every clock.                                                        *)
(***************************************************************************)
EXTENDS Subscription, TLAPS

(* An end date is nil or the end of a pass granted; a customer is nil or    *)
(* the one of a session paid.                                               *)
Granted(e) == e = nil \/ \E g \in grants : g.expires = e
Paying(c) == c = nil \/ \E s \in Sessions : /\ checkout[s].status = "paid"
                                            /\ checkout[s].customer = c

(* A session that was opened, and the ends that a pass of its price may have *)
(* if it began at some instant up to now.                                    *)
Opened(s) == s \in Sessions /\ checkout[s].status # "unused"
Dated(s, e) ==
    \E start \in 0..now : e = EndOfDay(start + Days[checkout[s].price] * DayLength)

(* A session that was ever opened is for a price of PRICE_MAPPING, and no    *)
(* session carries a customer that never paid.                               *)
SessionsOK ==
    \A s \in Sessions :
        /\ IF checkout[s].status = "unused" THEN checkout[s].price = nil
                                            ELSE checkout[s].price \in Prices
        /\ Paying(checkout[s].customer)

(* What a request holds at each of its program points. *)
RequestOK(r) ==
    /\ r.pc # "idle" /\ r.kind = "success" => Opened(r.sid)
    /\ r.pc # "idle" /\ r.kind = "checkout" => r.price \in Prices
    /\ r.pc \in {"save_pass", "save_customer"} => r.kind = "success"
    /\ r.pc = "save_pass" => /\ r.sub.attr.expires_at \in Nat
                             /\ Dated(r.sid, r.sub.attr.expires_at)
    /\ r.pc = "action" /\ r.sub.attr.active /\ r.sub.attr.expires_at # nil =>
          r.loaded_at <= r.sub.attr.expires_at

GrantsDated == \A g \in grants : Opened(g.sid) /\ Dated(g.sid, g.expires)
RowBacked == Granted(row.expires_at) /\ Paying(row.stripe_user_id)
ObjectBacked(r) ==
    /\ r.pc # "save_pass" => Granted(r.sub.attr.expires_at)
    /\ Paying(r.sub.attr.stripe_user_id)

(* The inductive invariant. PassBacked alone is not inductive: a request    *)
(* that loaded the row long ago writes back what it holds, so what every    *)
(* object in flight holds has to be backed as well, and what success is     *)
(* about to store has to be a date of its session.                          *)
IInv ==
    /\ TypeOK
    /\ SessionsOK
    /\ GrantsDated
    /\ RowBacked
    /\ \A t \in Threads : RequestOK(req[t]) /\ ObjectBacked(req[t])

(* What no step takes back: time, grants, and what Stripe knows of a session. *)
Onward ==
    /\ now' \in Nat /\ now <= now'
    /\ grants \subseteq grants'
    /\ \A s \in Sessions :
          /\ checkout[s].status = "paid" => checkout'[s] = checkout[s]
          /\ checkout[s].status # "unused" => /\ checkout'[s].status # "unused"
                                              /\ checkout'[s].price = checkout[s].price
-------------------------------------------------------------------------------
(* A partial write yields a row, and each column comes from the object if   *)
(* it is dirty there and from the table if not.                             *)
LEMMA WrittenRow ==
    ASSUME NEW r \in Row, NEW o \in Objects(Row)
    PROVE  /\ Written(r, o) \in Row
           /\ Written(r, o).active =
                 IF o.attr.active # o.orig.active THEN o.attr.active ELSE r.active
           /\ Written(r, o).expires_at =
                 IF o.attr.expires_at # o.orig.expires_at
                 THEN o.attr.expires_at ELSE r.expires_at
           /\ Written(r, o).stripe_user_id =
                 IF o.attr.stripe_user_id # o.orig.stripe_user_id
                 THEN o.attr.stripe_user_id ELSE r.stripe_user_id
  BY DEF Row, Objects, Written, Dirty

(* Assigning the two columns of the pass changes them in memory only: once  *)
(* for the success action, once for the filter.                             *)
LEMMA PassGiven ==
    ASSUME NEW o \in Objects(Row), NEW e \in Nat
    PROVE  /\ SetPass(o, TRUE, e) \in Objects(Row)
           /\ SetPass(o, TRUE, e).orig = o.orig
           /\ SetPass(o, TRUE, e).attr.active
           /\ SetPass(o, TRUE, e).attr.expires_at = e
           /\ SetPass(o, TRUE, e).attr.stripe_user_id = o.attr.stripe_user_id
  <1>1. o.attr \in Row /\ o.orig \in Row /\ o = [attr |-> o.attr, orig |-> o.orig]
    BY DEF Objects
  <1>2. [active |-> TRUE, expires_at |-> e, stripe_user_id |-> o.attr.stripe_user_id] \in Row
    BY <1>1 DEF Row
  <1> QED BY <1>1, <1>2 DEF SetPass, Objects

(* See PassGiven. *)
LEMMA PassTaken ==
    ASSUME NEW o \in Objects(Row)
    PROVE  /\ SetPass(o, FALSE, nil) \in Objects(Row)
           /\ SetPass(o, FALSE, nil).orig = o.orig
           /\ SetPass(o, FALSE, nil).attr.active = FALSE
           /\ SetPass(o, FALSE, nil).attr.expires_at = nil
           /\ SetPass(o, FALSE, nil).attr.stripe_user_id = o.attr.stripe_user_id
  <1>1. o.attr \in Row /\ o.orig \in Row /\ o = [attr |-> o.attr, orig |-> o.orig]
    BY DEF Objects
  <1>2. [active |-> FALSE, expires_at |-> nil, stripe_user_id |-> o.attr.stripe_user_id] \in Row
    BY <1>1 DEF Row
  <1> QED BY <1>1, <1>2 DEF SetPass, Objects

(* Assigning the customer changes that column in memory only. *)
LEMMA CustomerAssigned ==
    ASSUME NEW o \in Objects(Row), NEW c \in Customers \cup {nil}
    PROVE  /\ SetCustomer(o, c) \in Objects(Row)
           /\ SetCustomer(o, c).orig = o.orig
           /\ SetCustomer(o, c).attr.active = o.attr.active
           /\ SetCustomer(o, c).attr.expires_at = o.attr.expires_at
           /\ SetCustomer(o, c).attr.stripe_user_id = c
  <1>1. o.attr \in Row /\ o.orig \in Row /\ o = [attr |-> o.attr, orig |-> o.orig]
    BY DEF Objects
  <1>2. [active |-> o.attr.active, expires_at |-> o.attr.expires_at,
         stripe_user_id |-> c] \in Row
    BY <1>1 DEF Row
  <1> QED BY <1>1, <1>2 DEF SetCustomer, Objects

(* A save leaves the object clean. *)
LEMMA Cleaned ==
    ASSUME NEW o \in Objects(Row)
    PROVE  Clean(o) \in Objects(Row) /\ Clean(o).attr = o.attr /\ Clean(o).orig = o.attr
  BY DEF Clean, Objects

(* A request that moves on keeps everything but its place and its object. *)
LEMMA Moved ==
    ASSUME IInv, NEW t \in Threads, NEW o \in Objects(Row),
           NEW pc \in {"action", "save_pass", "save_customer"}, Goto(t, pc, o)
    PROVE  \E r \in Request :
              /\ req' = [req EXCEPT ![t] = r]
              /\ r.pc = pc /\ r.sub = o
              /\ r.kind = req[t].kind /\ r.price = req[t].price
              /\ r.sid = req[t].sid /\ r.user = req[t].user
              /\ r.loaded_at = req[t].loaded_at
  <1>1. req[t] \in Request
    BY DEF IInv, TypeOK
  <1>2. PICK r : r = [req[t] EXCEPT !.pc = pc, !.sub = o]
    OBVIOUS
  <1>3. /\ r \in Request /\ r.pc = pc /\ r.sub = o
        /\ r.kind = req[t].kind /\ r.price = req[t].price
        /\ r.sid = req[t].sid /\ r.user = req[t].user
        /\ r.loaded_at = req[t].loaded_at
    BY <1>1, <1>2 DEF Request
  <1>4. req' = [req EXCEPT ![t] = r]
    BY <1>2 DEF Goto, IInv, TypeOK
  <1> QED BY <1>3, <1>4

(* The end of the day of an instant is an instant. *)
LEMMA EndNat ==
    ASSUME NEW t \in Nat PROVE EndOfDay(t) \in Nat
  BY SubscriptionAssumption DEF EndOfDay

(* The end of a pass of PRICE_MAPPING is an instant. *)
LEMMA PassEndNat ==
    ASSUME now \in Nat, NEW p \in Prices PROVE PassEnd(p) \in Nat
  <1>1. now + Days[p] * DayLength \in Nat
    BY SubscriptionAssumption
  <1> QED BY <1>1, EndNat DEF PassEnd

(* The request a free thread holds, and the empty row it points at. *)
LEMMA IdleOK == /\ NewRow \in Row
                /\ Idle \in Request
                /\ RequestOK(Idle)
                /\ ObjectBacked(Idle)
  BY DEF NewRow, Row, Idle, Request, Kinds, Loaded, Objects,
         RequestOK, ObjectBacked, Granted, Paying

(* The first state satisfies the inductive invariant. *)
LEMMA InitIInv == Init => IInv
  <1> SUFFICES ASSUME Init PROVE IInv
    OBVIOUS
  <1>1. TypeOK
    BY IdleOK, SubscriptionAssumption DEF Init, TypeOK, Session
  <1>2. SessionsOK /\ GrantsDated
    BY DEF Init, SessionsOK, GrantsDated, Paying
  <1>3. RowBacked
    BY DEF Init, RowBacked, NewRow, Granted, Paying
  <1>4. \A t \in Threads : RequestOK(req[t]) /\ ObjectBacked(req[t])
    BY IdleOK DEF Init
  <1> QED BY <1>1, <1>2, <1>3, <1>4 DEF IInv

(* Backing survives whatever step goes onward. *)
LEMMA BackedMonotone ==
    ASSUME TypeOK, Onward
    PROVE  /\ \A e : Granted(e) => Granted(e)'
           /\ \A c : Paying(c) => Paying(c)'
           /\ \A s : Opened(s) => Opened(s)'
           /\ \A s, e : Opened(s) /\ Dated(s, e) => Dated(s, e)'
  <1>1. ASSUME NEW s, NEW e, Opened(s), Dated(s, e) PROVE Dated(s, e)'
    <2>1. PICK start \in 0..now : e = EndOfDay(start + Days[checkout[s].price] * DayLength)
      BY <1>1 DEF Dated
    <2>2. checkout'[s].price = checkout[s].price
      BY <1>1 DEF Onward, Opened
    <2>3. start \in 0..now'
      BY DEF Onward, TypeOK
    <2> QED BY <2>1, <2>2, <2>3 DEF Dated, EndOfDay
  <1> QED BY <1>1 DEF Granted, Paying, Opened, Onward

(* A step that leaves the clock, Stripe and the grants alone. *)
LEMMA Still ==
    ASSUME IInv, UNCHANGED <<now, checkout, grants>>
    PROVE  /\ Onward /\ SessionsOK' /\ GrantsDated'
           /\ checkout' \in [Sessions -> Session] /\ grants' \subseteq Grant
           /\ \A e : Granted(e)' <=> Granted(e)
           /\ \A c : Paying(c)' <=> Paying(c)
           /\ \A x : Opened(x)' <=> Opened(x)
           /\ \A x, e : Dated(x, e)' <=> Dated(x, e)
  <1>1. Onward
    BY DEF IInv, TypeOK, Onward
  <1>2. checkout' \in [Sessions -> Session] /\ grants' \subseteq Grant
    BY DEF IInv, TypeOK
  <1>3. /\ \A e : Granted(e)' <=> Granted(e)
        /\ \A c : Paying(c)' <=> Paying(c)
        /\ \A x : Opened(x)' <=> Opened(x)
    BY DEF Granted, Paying, Opened
  <1>4. \A x, e : Dated(x, e)' <=> Dated(x, e)
    BY DEF Dated, EndOfDay
  <1>5. SessionsOK'
    BY <1>3 DEF IInv, SessionsOK
  <1>6. GrantsDated'
    BY <1>3, <1>4 DEF IInv, GrantsDated
  <1> QED BY <1>1, <1>2, <1>3, <1>4, <1>5, <1>6

(* A step that changes one request and goes onward preserves the invariant  *)
(* if the row and that request are well formed and backed after it.         *)
LEMMA OneRequest ==
    ASSUME IInv, NEW t \in Threads, NEW r \in Request,
           req' = [req EXCEPT ![t] = r],
           Onward, signed_in' \in BOOLEAN, row' \in Row,
           checkout' \in [Sessions -> Session], SessionsOK',
           grants' \subseteq Grant, pass' \in Grant \cup {nil}, GrantsDated',
           RowBacked', RequestOK(r)', ObjectBacked(r)'
    PROVE  IInv'
  <1>1. TypeOK'
    BY DEF IInv, TypeOK, Onward
  <1>2. /\ \A e : Granted(e) => Granted(e)'
        /\ \A c : Paying(c) => Paying(c)'
        /\ \A s : Opened(s) => Opened(s)'
        /\ \A s, e : Opened(s) /\ Dated(s, e) => Dated(s, e)'
    BY BackedMonotone DEF IInv
  <1>3. ASSUME NEW u \in Threads PROVE RequestOK(req[u])' /\ ObjectBacked(req[u])'
    <2>1. CASE u = t
      <3>1. req'[u] = r
        BY <2>1 DEF IInv, TypeOK
      <3> QED BY <3>1 DEF RequestOK, ObjectBacked, Granted, Paying, Opened, Dated
    <2>2. CASE u # t
      <3>1. req'[u] = req[u]
        BY <2>2 DEF IInv, TypeOK
      <3>2. RequestOK(req[u]) /\ ObjectBacked(req[u])
        BY DEF IInv
      <3>3. RequestOK(req[u])'
        BY <3>1, <3>2, <1>2 DEF RequestOK
      <3>4. ObjectBacked(req[u])'
        BY <3>1, <3>2, <1>2 DEF ObjectBacked
      <3> QED BY <3>3, <3>4
    <2> QED BY <2>1, <2>2
  <1> QED BY <1>1, <1>3 DEF IInv

(* A thread that finishes and touches nothing else preserves the invariant. *)
LEMMA FinishIInv ==
    ASSUME IInv, NEW t \in Threads, Finish(t),
           UNCHANGED <<now, row, signed_in, checkout, grants, pass>>
    PROVE  IInv'
  <1>1. RowBacked' /\ RequestOK(Idle)' /\ ObjectBacked(Idle)'
    BY IdleOK DEF IInv, RowBacked, Granted, Paying,
                  RequestOK, ObjectBacked, Idle, Loaded, NewRow
  <1>2. signed_in' \in BOOLEAN /\ row' \in Row /\ pass' \in Grant \cup {nil}
    BY DEF IInv, TypeOK
  <1>3. PICK r \in Request : r = Idle
    BY IdleOK
  <1>4. req' = [req EXCEPT ![t] = r] /\ RequestOK(r)' /\ ObjectBacked(r)'
    BY <1>1, <1>3 DEF Finish, RequestOK, ObjectBacked, Idle
  <1> QED BY <1>1, <1>2, <1>4, Still, OneRequest

(* The filters that begin a request preserve the invariant. *)
LEMMA StartIInv ==
    ASSUME IInv, NEW t \in Threads, NEW k \in Kinds,
           NEW p \in Prices \cup {nil}, NEW s \in Sessions \cup {nil},
           Start(t, k, p, s),
           k = "checkout" => p \in Prices,
           k = "success" => Opened(s)
    PROVE  IInv'
  <1>1. PICK w \in Row : w = IF signed_in THEN row ELSE NewRow
    BY IdleOK DEF IInv, TypeOK
  <1>2. PICK r \in Request :
            r = [pc |-> IF signed_in /\ Expired(row) THEN "expire" ELSE "action",
                 kind |-> k, price |-> p, sid |-> s, user |-> signed_in,
                 sub |-> Loaded(w), loaded_at |-> IF k = "stats" THEN now ELSE 0]
    <2>1. Loaded(w) \in Objects(Row)
      BY DEF Loaded, Objects
    <2> QED BY <2>1 DEF IInv, TypeOK, Request
  <1>3. req' = [req EXCEPT ![t] = r]
    BY <1>1, <1>2 DEF Start
  <1>4. UNCHANGED <<now, row, signed_in, checkout, grants, pass>>
    BY DEF Start
  <1>5. signed_in' \in BOOLEAN /\ row' \in Row /\ pass' \in Grant \cup {nil} /\ RowBacked'
    BY <1>4 DEF IInv, TypeOK, RowBacked, Granted, Paying
  <1>6. RequestOK(r)'
    <2>1. r.sub.attr = w /\ r.loaded_at \in {0, now} /\ now \in Nat /\ w.expires_at \in Nat \cup {nil}
      BY <1>2 DEF Loaded, IInv, TypeOK, Row
    <2>2. r.pc = "action" /\ w.active /\ w.expires_at # nil => now <= w.expires_at
      BY <1>1, <1>2, <2>1 DEF Expired, NewRow
    <2>3. r.pc \in {"expire", "action"} /\ r.kind = k /\ r.price = p /\ r.sid = s
      BY <1>2
    <2>4. k = "success" => Opened(s)'
      BY <1>4, Still
    <2>5. r.pc = "action" /\ w.active /\ w.expires_at # nil => r.loaded_at <= w.expires_at
      BY <2>1, <2>2
    <2> QED BY <2>1, <2>3, <2>4, <2>5 DEF RequestOK
  <1>7. ObjectBacked(r)'
    <2>1. r.sub.attr = w
      BY <1>2 DEF Loaded
    <2> QED BY <1>1, <1>4, <2>1 DEF IInv, RowBacked, ObjectBacked, Granted, Paying, NewRow
  <1> QED BY <1>3, <1>4, <1>5, <1>6, <1>7, Still, OneRequest

(* check_stripe_subscription's UPDATE preserves the invariant. *)
LEMMA ExpireIInv ==
    ASSUME IInv, NEW t \in Threads, Expire(t) PROVE IInv'
  <1>0. req[t].sub \in Objects(Row)
    BY DEF IInv, TypeOK, Request
  <1>1. PICK o \in Objects(Row) : o = SetPass(req[t].sub, FALSE, nil)
    BY <1>0, PassTaken
  <1>2. /\ o.attr.active = FALSE /\ o.attr.expires_at = nil
        /\ o.attr.stripe_user_id = req[t].sub.attr.stripe_user_id
    BY <1>0, <1>1, PassTaken
  <1>3. Clean(o) \in Objects(Row) /\ Clean(o).attr = o.attr
    BY Cleaned
  <1>4. row' = Written(row, o) /\ Goto(t, "action", Clean(o))
    BY <1>1 DEF Expire
  <1>5. PICK r \in Request :
            /\ req' = [req EXCEPT ![t] = r]
            /\ r.pc = "action" /\ r.sub.attr = o.attr
            /\ r.kind = req[t].kind /\ r.price = req[t].price /\ r.sid = req[t].sid
    BY <1>3, <1>4, Moved
  <1>6. req[t].pc = "expire" /\ UNCHANGED <<now, signed_in, checkout, grants, pass>>
    BY DEF Expire
  <1>7. RequestOK(r)' /\ ObjectBacked(r)'
    BY <1>2, <1>5, <1>6 DEF IInv, RequestOK, ObjectBacked, Granted, Paying, Opened
  <1>8. RowBacked' /\ row' \in Row
    BY <1>2, <1>4, <1>6, WrittenRow
       DEF IInv, TypeOK, RowBacked, ObjectBacked, Granted, Paying
  <1>9. signed_in' \in BOOLEAN /\ pass' \in Grant \cup {nil}
    BY <1>6 DEF IInv, TypeOK
  <1> QED BY <1>5, <1>6, <1>7, <1>8, <1>9, Still, OneRequest

(* Opening a Checkout session preserves the invariant. *)
LEMMA CheckoutIInv ==
    ASSUME IInv, NEW t \in Threads, CreateCheckoutSession(t) PROVE IInv'
  <1>1. CASE ~req[t].user
    BY <1>1, FinishIInv DEF CreateCheckoutSession
  <1>2. CASE req[t].user
    <2>1. PICK s \in Sessions :
              /\ checkout[s].status = "unused"
              /\ checkout' = [checkout EXCEPT ![s] =
                                [status |-> "open", price |-> req[t].price,
                                 customer |-> req[t].sub.attr.stripe_user_id]]
      BY <1>2 DEF CreateCheckoutSession
    <2>2. req[t].price \in Prices
      BY DEF CreateCheckoutSession, IInv, RequestOK
    <2>3. checkout' \in [Sessions -> Session]
      BY <2>1, <2>2 DEF IInv, TypeOK, Session, Request, Objects, Row
    <2>4. req' = [req EXCEPT ![t] = Idle] /\ UNCHANGED <<now, row, signed_in, grants, pass>>
      BY DEF CreateCheckoutSession, Finish
    <2>5. Onward
      BY <2>1, <2>4 DEF Onward, IInv, TypeOK
    <2>6. SessionsOK'
      <3>1. Paying(req[t].sub.attr.stripe_user_id)
        BY DEF IInv, ObjectBacked
      <3>2. ASSUME NEW x \in Sessions
            PROVE  /\ IF checkout'[x].status = "unused" THEN checkout'[x].price = nil
                                                        ELSE checkout'[x].price \in Prices
                   /\ Paying(checkout'[x].customer)
        BY <2>1, <2>2, <3>1 DEF IInv, TypeOK, SessionsOK
      <3> QED BY <2>5, <3>2, BackedMonotone DEF IInv, SessionsOK, Paying
    <2>7. GrantsDated' /\ RowBacked'
      <3>1. GrantsDated'
        BY <2>4, <2>5, BackedMonotone DEF IInv, GrantsDated
      <3>2. RowBacked'
        BY <2>4, <2>5, BackedMonotone DEF IInv, RowBacked, Granted, Paying
      <3> QED BY <3>1, <3>2
    <2>a. /\ signed_in' \in BOOLEAN /\ row' \in Row
          /\ grants' \subseteq Grant /\ pass' \in Grant \cup {nil}
      BY <2>4 DEF IInv, TypeOK
    <2>8. PICK r \in Request : r = Idle
      BY IdleOK
    <2>9. RequestOK(r)' /\ ObjectBacked(r)' /\ req' = [req EXCEPT ![t] = r]
      BY <2>4, <2>8 DEF RequestOK, ObjectBacked, Granted, Paying, Idle, Loaded, NewRow
    <2> QED BY <2>3, <2>5, <2>6, <2>7, <2>a, <2>9, OneRequest
  <1> QED BY <1>1, <1>2

(* Reading a session back from Stripe preserves the invariant. *)
LEMMA RetrieveIInv ==
    ASSUME IInv, NEW t \in Threads, RetrieveSession(t) PROVE IInv'
  <1>1. CASE ~req[t].user
    BY <1>1, FinishIInv DEF RetrieveSession
  <1>2. CASE req[t].user
    <2>1. /\ req[t].pc = "action" /\ req[t].kind = "success"
          /\ UNCHANGED <<now, row, signed_in, checkout, grants, pass>>
      BY DEF RetrieveSession
    <2>2. Opened(req[t].sid)
      BY <2>1 DEF IInv, RequestOK
    <2>3. PICK e \in Nat : e = PassEnd(checkout[req[t].sid].price)
      BY <2>2, PassEndNat DEF IInv, TypeOK, SessionsOK, Opened
    <2>b. Dated(req[t].sid, e)
      BY <2>3 DEF Dated, PassEnd, IInv, TypeOK
    <2>4. req[t].sub \in Objects(Row)
      BY DEF IInv, TypeOK, Request
    <2>5. PICK o \in Objects(Row) : o = SetPass(req[t].sub, TRUE, e)
      BY <2>4, PassGiven
    <2>a. /\ o.attr.expires_at = e
          /\ o.attr.stripe_user_id = req[t].sub.attr.stripe_user_id
      BY <2>4, <2>5, PassGiven
    <2>6. PICK r \in Request :
              /\ req' = [req EXCEPT ![t] = r]
              /\ r.pc = "save_pass" /\ r.sub = o
              /\ r.kind = req[t].kind /\ r.price = req[t].price /\ r.sid = req[t].sid
      <3>1. Goto(t, "save_pass", o)
        BY <1>2, <2>3, <2>5 DEF RetrieveSession
      <3> QED BY <3>1, Moved
    <2>7. RequestOK(r)'
      BY <2>1, <2>2, <2>a, <2>b, <2>6, Still DEF RequestOK
    <2>8. ObjectBacked(r)'
      BY <2>1, <2>a, <2>6 DEF IInv, ObjectBacked, Paying
    <2>9. /\ signed_in' \in BOOLEAN /\ row' \in Row /\ pass' \in Grant \cup {nil}
          /\ RowBacked'
      BY <2>1 DEF IInv, TypeOK, RowBacked, Granted, Paying
    <2> QED BY <2>1, <2>6, <2>7, <2>8, <2>9, Still, OneRequest
  <1> QED BY <1>1, <1>2

(* update_subscription's save! preserves the invariant: the end date it     *)
(* writes, or leaves alone because it is not dirty, is a granted one.       *)
LEMMA SavePassIInv ==
    ASSUME IInv, NEW t \in Threads, SavePass(t) PROVE IInv'
  <1>1. PICK o \in Objects(Row) : o = req[t].sub
    BY DEF IInv, TypeOK, Request
  <1>2. /\ req[t].pc = "save_pass" /\ row' = Written(row, o)
        /\ UNCHANGED <<now, signed_in, checkout>>
    BY <1>1 DEF SavePass
  <1>3. /\ req[t].kind = "success" /\ Opened(req[t].sid) /\ req[t].sid \in Sessions
        /\ o.attr.expires_at \in Nat /\ Dated(req[t].sid, o.attr.expires_at)
        /\ Paying(o.attr.stripe_user_id)
    BY <1>1, <1>2 DEF IInv, RequestOK, ObjectBacked, Opened
  <1>4. PICK g \in Grant : g = [sid |-> req[t].sid, expires |-> o.attr.expires_at]
    BY <1>3 DEF Grant
  <1>5. grants' = grants \cup {g} /\ pass' = g
    BY <1>1, <1>4 DEF SavePass
  <1>a. Onward
    BY <1>2, <1>5 DEF Onward, IInv, TypeOK
  <1>7. /\ \A e : Granted(e) => Granted(e)'
        /\ \A c : Paying(c) => Paying(c)'
        /\ \A x : Opened(x) => Opened(x)'
        /\ \A x, e : Opened(x) /\ Dated(x, e) => Dated(x, e)'
    BY <1>a, BackedMonotone DEF IInv
  <1>6. GrantsDated' /\ SessionsOK'
    <2>1. g.sid = req[t].sid /\ g.expires = o.attr.expires_at
      BY <1>4
    <2>2. ASSUME NEW h \in grants' PROVE Opened(h.sid)' /\ Dated(h.sid, h.expires)'
      BY <1>3, <1>5, <1>7, <2>1 DEF IInv, GrantsDated
    <2>3. SessionsOK'
      BY <1>2 DEF IInv, SessionsOK, Paying
    <2> QED BY <2>2, <2>3 DEF GrantsDated
  <1>8. Granted(o.attr.expires_at)'
    BY <1>4, <1>5 DEF Granted
  <1>9. row' \in Row /\ RowBacked'
    <2>1. row' \in Row
      BY <1>2, WrittenRow DEF IInv, TypeOK
    <2>2. Granted(row.expires_at)'
      <3>1. row'.expires_at \in {o.attr.expires_at, row.expires_at}
        BY <1>2, WrittenRow DEF IInv, TypeOK
      <3> QED BY <3>1, <1>7, <1>8 DEF IInv, RowBacked, Granted
    <2>3. Paying(row.stripe_user_id)'
      <3>1. row'.stripe_user_id \in {o.attr.stripe_user_id, row.stripe_user_id}
        BY <1>2, WrittenRow DEF IInv, TypeOK
      <3> QED BY <3>1, <1>2, <1>3 DEF IInv, RowBacked, Paying
    <2> QED BY <2>1, <2>2, <2>3 DEF RowBacked, Granted, Paying
  <1>10. \E r \in Request : /\ req' = [req EXCEPT ![t] = r]
                            /\ RequestOK(r)' /\ ObjectBacked(r)'
    <2>1. CASE o.attr.stripe_user_id # nil
      <3>1. req' = [req EXCEPT ![t] = Idle]
        BY <1>1, <2>1 DEF SavePass, Finish
      <3>2. RequestOK(Idle)' /\ ObjectBacked(Idle)'
        BY DEF RequestOK, ObjectBacked, Granted, Paying, Idle, Loaded, NewRow
      <3>3. PICK r \in Request : r = Idle
        BY IdleOK
      <3>4. RequestOK(r)' /\ ObjectBacked(r)'
        BY <3>2, <3>3 DEF RequestOK, ObjectBacked, Idle
      <3> QED BY <3>1, <3>3, <3>4
    <2>2. CASE o.attr.stripe_user_id = nil
      <3>1. PICK c \in Customers \cup {nil} : c = checkout[req[t].sid].customer
        BY <1>3 DEF IInv, TypeOK, Session
      <3>2. Clean(o) \in Objects(Row) /\ Clean(o).attr = o.attr
        BY Cleaned
      <3>3. PICK n \in Objects(Row) :
                n = SetCustomer(Clean(o), c)
        BY <3>2, CustomerAssigned
      <3>4. n.attr.expires_at = o.attr.expires_at /\ n.attr.stripe_user_id = c
        BY <3>2, <3>3, CustomerAssigned
      <3>5. Goto(t, "save_customer", n)
        BY <1>1, <2>2, <3>1, <3>3 DEF SavePass
      <3>6. PICK r \in Request :
                /\ req' = [req EXCEPT ![t] = r]
                /\ r.pc = "save_customer" /\ r.sub = n
                /\ r.kind = req[t].kind /\ r.price = req[t].price /\ r.sid = req[t].sid
        BY <3>5, Moved
      <3>7. RequestOK(r)'
        BY <1>2, <1>3, <1>7, <3>6 DEF RequestOK
      <3>8. ObjectBacked(r)'
        <4>1. Paying(c)
          BY <1>3, <3>1 DEF IInv, SessionsOK
        <4> QED BY <1>7, <1>8, <3>4, <3>6, <4>1 DEF ObjectBacked, Granted, Paying
      <3> QED BY <3>6, <3>7, <3>8
    <2> QED BY <2>1, <2>2
  <1>11. /\ signed_in' \in BOOLEAN /\ checkout' \in [Sessions -> Session]
         /\ grants' \subseteq Grant /\ pass' \in Grant \cup {nil}
    BY <1>2, <1>4, <1>5 DEF IInv, TypeOK
  <1> QED BY <1>a, <1>6, <1>9, <1>10, <1>11, OneRequest

(* The second save! preserves the invariant. *)
LEMMA SaveCustomerIInv ==
    ASSUME IInv, NEW t \in Threads, SaveCustomer(t) PROVE IInv'
  <1>1. PICK o \in Objects(Row) : o = req[t].sub
    BY DEF IInv, TypeOK, Request
  <1>2. /\ req[t].pc = "save_customer" /\ row' = Written(row, o)
        /\ req' = [req EXCEPT ![t] = Idle]
        /\ UNCHANGED <<now, signed_in, checkout, grants, pass>>
    BY <1>1 DEF SaveCustomer, Finish
  <1>3. Granted(o.attr.expires_at) /\ Paying(o.attr.stripe_user_id)
    BY <1>1, <1>2 DEF IInv, ObjectBacked
  <1>4. row' \in Row /\ RowBacked'
    BY <1>2, <1>3, WrittenRow DEF IInv, TypeOK, RowBacked, Granted, Paying
  <1>5. PICK r \in Request : r = Idle
    BY IdleOK
  <1>6. RequestOK(r)' /\ ObjectBacked(r)'
    BY <1>5 DEF RequestOK, ObjectBacked, Granted, Paying, Idle, Loaded, NewRow
  <1>7. signed_in' \in BOOLEAN /\ pass' \in Grant \cup {nil}
    BY <1>2 DEF IInv, TypeOK
  <1> QED BY <1>2, <1>4, <1>5, <1>6, <1>7, Still, OneRequest

(* A step of the environment that leaves the row, the requests and what is  *)
(* paid alone preserves the invariant.                                      *)
LEMMA EnvironmentIInv ==
    ASSUME IInv, UNCHANGED <<row, req, grants, pass>>, Onward, signed_in' \in BOOLEAN,
           checkout' \in [Sessions -> Session], SessionsOK'
    PROVE  IInv'
  <1>1. TypeOK'
    BY DEF IInv, TypeOK, Onward
  <1>2. /\ \A e : Granted(e) => Granted(e)'
        /\ \A c : Paying(c) => Paying(c)'
        /\ \A s : Opened(s) => Opened(s)'
        /\ \A s, e : Opened(s) /\ Dated(s, e) => Dated(s, e)'
    BY BackedMonotone DEF IInv
  <1>3. GrantsDated'
    BY <1>2 DEF IInv, GrantsDated
  <1>4. RowBacked'
    BY <1>2 DEF IInv, RowBacked, Granted, Paying
  <1>5. ASSUME NEW t \in Threads PROVE RequestOK(req[t])' /\ ObjectBacked(req[t])'
    <2>1. RequestOK(req[t]) /\ ObjectBacked(req[t])
      BY DEF IInv
    <2>2. RequestOK(req[t])'
      BY <2>1, <1>2 DEF RequestOK
    <2>3. ObjectBacked(req[t])'
      BY <2>1, <1>2 DEF ObjectBacked, Granted, Paying
    <2> QED BY <2>2, <2>3
  <1> QED BY <1>1, <1>3, <1>4, <1>5 DEF IInv

(* Every step preserves the inductive invariant. *)
LEMMA StepIInv == IInv /\ [Next]_vars => IInv'
  <1> SUFFICES ASSUME IInv, [Next]_vars PROVE IInv'
    OBVIOUS
  <1>1. ASSUME NEW t \in Threads,
               StartPage(t) \/ StartStats(t) \/ StartCheckout(t) \/ StartSuccess(t)
        PROVE  IInv'
    <2>1. CASE StartPage(t)
      BY <2>1, StartIInv DEF StartPage, Kinds
    <2>2. CASE StartStats(t)
      BY <2>2, StartIInv DEF StartStats, Kinds
    <2>3. CASE StartCheckout(t)
      BY <2>3, StartIInv DEF StartCheckout, Kinds
    <2>4. CASE StartSuccess(t)
      BY <2>4, StartIInv DEF StartSuccess, Kinds, Opened
    <2> QED BY <1>1, <2>1, <2>2, <2>3, <2>4
  <1>2. ASSUME NEW t \in Threads, Serve(t) \/ Abort(t) PROVE IInv'
    <2>1. CASE Expire(t)
      BY <2>1, ExpireIInv
    <2>2. CASE Render(t)
      BY <2>2, FinishIInv DEF Render
    <2>3. CASE CreateCheckoutSession(t)
      BY <2>3, CheckoutIInv
    <2>4. CASE RetrieveSession(t)
      BY <2>4, RetrieveIInv
    <2>5. CASE SavePass(t)
      BY <2>5, SavePassIInv
    <2>6. CASE SaveCustomer(t)
      BY <2>6, SaveCustomerIInv
    <2>7. CASE Abort(t)
      BY <2>7, FinishIInv DEF Abort
    <2> QED BY <1>2, <2>1, <2>2, <2>3, <2>4, <2>5, <2>6, <2>7 DEF Serve
  <1>3. ASSUME NEW s \in Sessions, Pay(s) PROVE IInv'
    <2>1. PICK c \in Customers \cup {nil} :
              checkout' = [checkout EXCEPT ![s].status = "paid", ![s].customer = c]
      BY <1>3 DEF Pay
    <2>2. checkout[s].status = "open" /\ UNCHANGED <<now, row, signed_in, req, grants, pass>>
      BY <1>3 DEF Pay
    <2>3. checkout' \in [Sessions -> Session] /\ signed_in' \in BOOLEAN
      BY <2>1, <2>2 DEF IInv, TypeOK, Session
    <2>4. /\ checkout'[s].status = "paid" /\ checkout'[s].customer = c
          /\ checkout'[s].price = checkout[s].price
          /\ \A x \in Sessions : x # s => checkout'[x] = checkout[x]
      BY <2>1, <2>2 DEF IInv, TypeOK, Session
    <2>5. Onward
      BY <2>2, <2>4 DEF Onward, IInv, TypeOK
    <2>6. SessionsOK'
      <3>1. ASSUME NEW x \in Sessions, x # s PROVE Paying(checkout[x].customer)'
        <4>1. Paying(checkout[x].customer) /\ checkout'[x] = checkout[x]
          BY <3>1, <2>4 DEF IInv, SessionsOK
        <4> QED BY <2>5, <4>1, BackedMonotone DEF IInv, Paying
      <3>2. Paying(checkout[s].customer)'
        BY <2>4 DEF Paying
      <3> QED BY <2>2, <2>4, <3>1, <3>2 DEF IInv, SessionsOK, Paying
    <2> QED BY <2>2, <2>3, <2>5, <2>6, EnvironmentIInv
  <1>4. CASE SignIn \/ SignOut \/ Tick \/ UNCHANGED vars
    <2>0. signed_in \in BOOLEAN /\ now \in Nat
      BY DEF IInv, TypeOK
    <2>1. /\ UNCHANGED <<row, req, checkout, grants, pass>>
          /\ now' \in {now, now + 1} /\ signed_in' \in BOOLEAN
      <3>1. CASE SignIn
        BY <2>0, <3>1 DEF SignIn
      <3>2. CASE SignOut
        BY <2>0, <3>2 DEF SignOut
      <3>3. CASE Tick
        BY <2>0, <3>3 DEF Tick
      <3>4. CASE UNCHANGED vars
        BY <2>0, <3>4 DEF vars
      <3> QED BY <1>4, <3>1, <3>2, <3>3, <3>4
    <2>2. checkout' \in [Sessions -> Session] /\ SessionsOK'
      BY <2>1 DEF IInv, TypeOK, SessionsOK, Paying
    <2>3. Onward
      BY <2>0, <2>1 DEF Onward
    <2> QED BY <2>1, <2>2, <2>3, EnvironmentIInv
  <1> QED BY <1>1, <1>2, <1>3, <1>4 DEF Next

(* The inductive invariant holds for every number of threads. *)
THEOREM Invariance == Spec => []IInv
  BY InitIInv, StepIInv, PTL DEF Spec

(* The state keeps its types: what the filter, the success action and       *)
(* Stripe leave in the row, in memory and in the history.                   *)
THEOREM TypeCorrect == Spec => []TypeOK
  <1>1. IInv => TypeOK
    BY DEF IInv
  <1> QED BY <1>1, Invariance, PTL

(* For every number of threads: the end date in the row is the end of a     *)
(* pass that payments#success wrote for a session opened at the checkout,   *)
(* and lies where days.days.from_now.end_of_day puts it for that session's  *)
(* price, though requests write back objects that are stale.                *)
THEOREM Backed == Spec => []PassBacked
  <1>1. IInv => PassBacked
    <2> SUFFICES ASSUME IInv, row.expires_at # nil PROVE PassBacked
      BY DEF PassBacked
    <2>1. PICK g \in grants : g.expires = row.expires_at
      BY DEF IInv, RowBacked, Granted
    <2>2. Opened(g.sid) /\ Dated(g.sid, g.expires)
      BY DEF IInv, GrantsDated
    <2> QED BY <2>1, <2>2 DEF PassBacked, Opened, Dated
  <1> QED BY <1>1, Invariance, PTL

(* For every number of threads: a stats page that verif_subscription lets   *)
(* through on a dated pass is covered by a pass that had not ended when the *)
(* request's filters ran.                                                   *)
THEOREM DatedAccess == Spec => []DatedAccessGranted
  <1>1. IInv => DatedAccessGranted
    BY DEF IInv, RequestOK, ObjectBacked, Granted, DatedAccessGranted, Premium
  <1> QED BY <1>1, Invariance, PTL

(* For every number of threads: the customer id in the row is the one of a  *)
(* session that was paid, whichever sessions payments#success is asked for. *)
THEOREM CustomersPaid == Spec => []CustomerPaid
  <1>1. IInv => CustomerPaid
    BY DEF IInv, RowBacked, Paying, CustomerPaid
  <1> QED BY <1>1, Invariance, PTL
===============================================================================
