------------------------ MODULE SubscriptionSerialProofs ------------------------
(***************************************************************************)
(* What the pass keeps when the user's requests are served one at a time:  *)
(* the row in memory is then never stale, and the two columns of the pass  *)
(* and the customer cannot be torn apart.                                  *)
(***************************************************************************)
EXTENDS SubscriptionProofs

(* At most one thread serves the user. *)
Serial == \A t, u \in Threads : t = u

(* What the request in flight knows of the row. *)
Fresh(r) ==
    /\ r.pc # "idle" /\ r.user => r.sub.orig = row
    /\ r.pc \in {"expire", "save_pass", "save_customer"} => r.user
    /\ r.pc \in {"expire", "action"} /\ r.user => r.sub.attr = row
    /\ r.pc = "action" /\ ~r.user => ~r.sub.attr.active
    /\ r.pc = "expire" => row.active /\ row.expires_at # nil /\ row.expires_at < now
    /\ r.pc = "save_pass" => /\ r.sub.attr.active
                             /\ r.sub.attr.stripe_user_id = row.stripe_user_id
    /\ r.pc = "save_customer" => /\ r.sub.attr.active = row.active
                                 /\ r.sub.attr.expires_at = row.expires_at
                                 /\ row.stripe_user_id = nil

SInv ==
    /\ PassConsistent
    /\ PassHonoured
    /\ \A t \in Threads : Fresh(req[t])
-------------------------------------------------------------------------------
(* The first state. *)
LEMMA InitSInv == Init => SInv
  <1> SUFFICES ASSUME Init PROVE SInv
    OBVIOUS
  <1>1. PassConsistent /\ PassHonoured
    BY DEF Init, PassConsistent, PassHonoured, NewRow
  <1>2. \A t \in Threads : req[t].pc = "idle"
    BY DEF Init, Idle
  <1>3. \A t \in Threads : Fresh(req[t])
    BY <1>2 DEF Fresh
  <1> QED BY <1>1, <1>3 DEF SInv

(* A step that leaves the pass and the clock alone and gives the only       *)
(* thread a request that is fresh keeps the invariant.                      *)
LEMMA OneFresh ==
    ASSUME Serial, IInv, SInv, NEW t \in Threads, NEW r,
           req' = [req EXCEPT ![t] = r], Fresh(r)',
           PassConsistent', PassHonoured'
    PROVE  SInv'
  <1>1. \A u \in Threads : u = t
    BY DEF Serial
  <1>2. req'[t] = r
    BY DEF IInv, TypeOK
  <1>3. Fresh(req[t])'
    BY <1>2 DEF Fresh
  <1> QED BY <1>1, <1>3 DEF SInv

(* A thread that finishes leaves nothing to be stale. *)
LEMMA FinishSInv ==
    ASSUME Serial, IInv, SInv, NEW t \in Threads, Finish(t),
           UNCHANGED <<now, row, pass>>
    PROVE  SInv'
  <1>1. PassConsistent' /\ PassHonoured'
    BY DEF SInv, PassConsistent, PassHonoured
  <1>2. PICK r : r = Idle
    OBVIOUS
  <1>3. req' = [req EXCEPT ![t] = r] /\ Fresh(r)'
    BY <1>2 DEF Finish, Fresh, Idle
  <1> QED BY <1>1, <1>3, OneFresh

(* The filters load the row as it is. *)
LEMMA StartSInv ==
    ASSUME Serial, IInv, SInv, NEW t \in Threads, NEW k, NEW p, NEW s,
           Start(t, k, p, s)
    PROVE  SInv'
  <1>1. PassConsistent' /\ PassHonoured'
    BY DEF Start, SInv, PassConsistent, PassHonoured
  <1>2. PICK r :
            r = [pc |-> IF signed_in /\ Expired(row) THEN "expire" ELSE "action",
                 kind |-> k, price |-> p, sid |-> s, user |-> signed_in,
                 sub |-> Loaded(IF signed_in THEN row ELSE NewRow),
                 loaded_at |-> IF k = "stats" THEN now ELSE 0]
    OBVIOUS
  <1>3. req' = [req EXCEPT ![t] = r] /\ row' = row /\ now' = now
    BY <1>2 DEF Start
  <1>4. r.user = signed_in /\ signed_in \in BOOLEAN
    BY <1>2 DEF IInv, TypeOK
  <1>5. Fresh(r)'
    <2>1. CASE signed_in
      BY <1>2, <1>3, <2>1 DEF Fresh, Loaded, Expired
    <2>2. CASE ~signed_in
      BY <1>2, <1>3, <2>2 DEF Fresh, Loaded, NewRow
    <2> QED BY <2>1, <2>2
  <1> QED BY <1>1, <1>3, <1>5, OneFresh

(* The filter's UPDATE takes back a pass that has ended and no other: both  *)
(* columns are dirty, since both differ from the row it loaded.             *)
LEMMA ExpireSInv ==
    ASSUME Serial, IInv, SInv, NEW t \in Threads, Expire(t) PROVE SInv'
  <1>1. req[t].sub \in Objects(Row) /\ row \in Row /\ now \in Nat
    BY DEF IInv, TypeOK, Request
  <1>2. /\ req[t].pc = "expire" /\ now' = now /\ pass' = pass
        /\ req[t].user /\ req[t].sub.attr = row /\ req[t].sub.orig = row
        /\ row.active /\ row.expires_at # nil /\ row.expires_at < now
    BY DEF Expire, SInv, Fresh
  <1>3. PICK o \in Objects(Row) : o = SetPass(req[t].sub, FALSE, nil)
    BY <1>1, PassTaken
  <1>4. /\ o.orig = row /\ o.attr.active = FALSE /\ o.attr.expires_at = nil
        /\ o.attr.stripe_user_id = row.stripe_user_id
    BY <1>1, <1>2, <1>3, PassTaken
  <1>5. row' = Written(row, o) /\ Goto(t, "action", Clean(o))
    BY <1>3 DEF Expire
  <1>6. /\ row' \in Row /\ row'.active = FALSE /\ row'.expires_at = nil
        /\ row'.stripe_user_id = row.stripe_user_id
    BY <1>1, <1>2, <1>4, <1>5, WrittenRow
  <1>7. row' = o.attr
    BY <1>4, <1>6 DEF Row, Objects
  <1>8. PassConsistent'
    BY <1>6 DEF PassConsistent
  <1>9. PassHonoured'
    <2>1. pass # nil => ~(now <= pass.expires)
      BY <1>1, <1>2 DEF SInv, PassHonoured, Row
    <2> QED BY <1>2, <2>1 DEF PassHonoured
  <1>10. Clean(o) \in Objects(Row) /\ Clean(o).attr = o.attr /\ Clean(o).orig = o.attr
    BY Cleaned
  <1>11. PICK r \in Request :
             /\ req' = [req EXCEPT ![t] = r]
             /\ r.pc = "action" /\ r.sub = Clean(o) /\ r.user = req[t].user
    BY <1>5, <1>10, Moved
  <1>12. Fresh(r)'
    BY <1>2, <1>7, <1>10, <1>11 DEF Fresh
  <1> QED BY <1>8, <1>9, <1>11, <1>12, OneFresh

(* The success action sets both columns in memory. *)
LEMMA RetrieveSInv ==
    ASSUME Serial, IInv, SInv, NEW t \in Threads, RetrieveSession(t) PROVE SInv'
  <1>1. CASE ~req[t].user
    BY <1>1, FinishSInv DEF RetrieveSession
  <1>2. CASE req[t].user
    <2>1. /\ req[t].pc = "action" /\ req[t].kind = "success"
          /\ UNCHANGED <<now, row, pass>>
      BY DEF RetrieveSession
    <2>2. Opened(req[t].sid)
      BY <2>1 DEF IInv, RequestOK
    <2>3. PICK e \in Nat : e = PassEnd(checkout[req[t].sid].price)
      BY <2>2, PassEndNat DEF IInv, TypeOK, SessionsOK, Opened
    <2>4. req[t].sub \in Objects(Row)
      BY DEF IInv, TypeOK, Request
    <2>5. PICK o \in Objects(Row) : o = SetPass(req[t].sub, TRUE, e)
      BY <2>4, PassGiven
    <2>6. req[t].sub.attr = row /\ req[t].sub.orig = row
      BY <1>2, <2>1 DEF SInv, Fresh
    <2>7. /\ o.orig = row /\ o.attr.active
          /\ o.attr.stripe_user_id = row.stripe_user_id
      <3>1. /\ o.orig = req[t].sub.orig /\ o.attr.active
            /\ o.attr.stripe_user_id = req[t].sub.attr.stripe_user_id
        BY <2>4, <2>5, PassGiven
      <3> QED BY <2>6, <3>1
    <2>8. Goto(t, "save_pass", o)
      BY <1>2, <2>3, <2>5 DEF RetrieveSession
    <2>9. PICK r \in Request :
              /\ req' = [req EXCEPT ![t] = r]
              /\ r.pc = "save_pass" /\ r.sub = o /\ r.user = req[t].user
      BY <2>8, Moved
    <2>10. Fresh(r)'
      BY <1>2, <2>1, <2>7, <2>9 DEF Fresh
    <2>11. PassConsistent' /\ PassHonoured'
      BY <2>1 DEF SInv, PassConsistent, PassHonoured
    <2> QED BY <2>9, <2>10, <2>11, OneFresh
  <1> QED BY <1>1, <1>2

(* update_subscription's save! leaves both columns as it set them. *)
LEMMA SavePassSInv ==
    ASSUME Serial, IInv, SInv, NEW t \in Threads, SavePass(t) PROVE SInv'
  <1>1. PICK o \in Objects(Row) : o = req[t].sub
    BY DEF IInv, TypeOK, Request
  <1>2. /\ req[t].pc = "save_pass" /\ row' = Written(row, o) /\ row \in Row
        /\ now' = now
    BY <1>1 DEF SavePass, IInv, TypeOK
  <1>3. /\ o.orig = row /\ o.attr.active /\ req[t].user
        /\ o.attr.stripe_user_id = row.stripe_user_id
    BY <1>1, <1>2 DEF SInv, Fresh
  <1>4. o.attr.expires_at \in Nat /\ req[t].sid \in Sessions
    BY <1>1, <1>2 DEF IInv, RequestOK, Opened
  <1>5. /\ row' \in Row /\ row'.active /\ row'.expires_at = o.attr.expires_at
        /\ row'.stripe_user_id = row.stripe_user_id
    BY <1>2, <1>3, WrittenRow
  <1>6. o.attr \in Row /\ row'.active = o.attr.active
    BY <1>3, <1>5 DEF Row, Objects
  <1>7. row' = o.attr
    BY <1>3, <1>5, <1>6 DEF Row
  <1>8. PassConsistent'
    BY <1>4, <1>5, SubscriptionAssumption DEF PassConsistent
  <1>9. pass'.expires = o.attr.expires_at
    BY <1>1 DEF SavePass
  <1>10. PassHonoured'
    BY <1>5, <1>9 DEF PassHonoured
  <1>11. CASE o.attr.stripe_user_id # nil
    <2>1. PICK r : r = Idle
      OBVIOUS
    <2>2. req' = [req EXCEPT ![t] = r] /\ Fresh(r)'
      BY <1>1, <1>11, <2>1 DEF SavePass, Finish, Fresh, Idle
    <2> QED BY <1>8, <1>10, <2>2, OneFresh
  <1>12. CASE o.attr.stripe_user_id = nil
    <2>1. PICK c \in Customers \cup {nil} : c = checkout[req[t].sid].customer
      BY <1>4 DEF IInv, TypeOK, Session
    <2>2. Clean(o) \in Objects(Row) /\ Clean(o).attr = o.attr /\ Clean(o).orig = o.attr
      BY Cleaned
    <2>3. PICK n \in Objects(Row) : n = SetCustomer(Clean(o), c)
      BY <2>2, CustomerAssigned
    <2>4. /\ n.orig = o.attr /\ n.attr.active = o.attr.active
          /\ n.attr.expires_at = o.attr.expires_at
      BY <2>2, <2>3, CustomerAssigned
    <2>5. Goto(t, "save_customer", n)
      BY <1>1, <1>12, <2>1, <2>3 DEF SavePass
    <2>6. PICK r \in Request :
              /\ req' = [req EXCEPT ![t] = r]
              /\ r.pc = "save_customer" /\ r.sub = n /\ r.user = req[t].user
      BY <2>5, Moved
    <2>7. Fresh(r)'
      BY <1>3, <1>7, <1>12, <2>4, <2>6 DEF Fresh
    <2> QED BY <1>8, <1>10, <2>6, <2>7, OneFresh
  <1> QED BY <1>11, <1>12

(* The second save! writes the customer and nothing of the pass. *)
LEMMA SaveCustomerSInv ==
    ASSUME Serial, IInv, SInv, NEW t \in Threads, SaveCustomer(t) PROVE SInv'
  <1>1. PICK o \in Objects(Row) : o = req[t].sub
    BY DEF IInv, TypeOK, Request
  <1>2. /\ req[t].pc = "save_customer" /\ row' = Written(row, o) /\ row \in Row
        /\ now' = now /\ pass' = pass
    BY <1>1 DEF SaveCustomer, IInv, TypeOK
  <1>3. /\ o.orig = row /\ o.attr.active = row.active
        /\ o.attr.expires_at = row.expires_at
    BY <1>1, <1>2 DEF SInv, Fresh
  <1>4. row'.active = row.active /\ row'.expires_at = row.expires_at
    BY <1>2, <1>3, WrittenRow
  <1>5. PassConsistent' /\ PassHonoured'
    BY <1>2, <1>4 DEF SInv, PassConsistent, PassHonoured
  <1>6. PICK r : r = Idle
    OBVIOUS
  <1>7. req' = [req EXCEPT ![t] = r] /\ Fresh(r)'
    BY <1>6 DEF SaveCustomer, Finish, Fresh, Idle
  <1> QED BY <1>5, <1>7, OneFresh

(* The environment pays, signs in and out, and lets time pass: a pass that  *)
(* has ended stays ended, and a pass that is honoured later was before.     *)
LEMMA EnvironmentSInv ==
    ASSUME IInv, SInv, UNCHANGED <<row, req, pass>>,
           now' \in Nat, now <= now'
    PROVE  SInv'
  <1>0. now \in Nat /\ row \in Row /\ pass \in Grant \cup {nil}
    BY DEF IInv, TypeOK
  <1>1. PassConsistent'
    BY DEF SInv, PassConsistent
  <1>2. PassHonoured'
    BY <1>0 DEF SInv, PassHonoured, Grant
  <1>3. ASSUME NEW t \in Threads PROVE Fresh(req[t])'
    <2>1. Fresh(req[t])
      BY DEF SInv
    <2> QED BY <1>0, <2>1 DEF Fresh, Row
  <1> QED BY <1>1, <1>2, <1>3 DEF SInv

(* Every step keeps the invariant of one request at a time. *)
LEMMA StepSInv == Serial /\ IInv /\ SInv /\ [Next]_vars => SInv'
  <1> SUFFICES ASSUME Serial, IInv, SInv, [Next]_vars PROVE SInv'
    OBVIOUS
  <1>1. ASSUME NEW t \in Threads,
               StartPage(t) \/ StartStats(t) \/ StartCheckout(t) \/ StartSuccess(t)
        PROVE  SInv'
    BY <1>1, StartSInv DEF StartPage, StartStats, StartCheckout, StartSuccess
  <1>2. ASSUME NEW t \in Threads, Serve(t) \/ Abort(t) PROVE SInv'
    <2>1. CASE Expire(t)
      BY <2>1, ExpireSInv
    <2>2. CASE Render(t)
      BY <2>2, FinishSInv DEF Render
    <2>3. CASE CreateCheckoutSession(t)
      BY <2>3, FinishSInv DEF CreateCheckoutSession
    <2>4. CASE RetrieveSession(t)
      BY <2>4, RetrieveSInv
    <2>5. CASE SavePass(t)
      BY <2>5, SavePassSInv
    <2>6. CASE SaveCustomer(t)
      BY <2>6, SaveCustomerSInv
    <2>7. CASE Abort(t)
      BY <2>7, FinishSInv DEF Abort
    <2> QED BY <1>2, <2>1, <2>2, <2>3, <2>4, <2>5, <2>6, <2>7 DEF Serve
  <1>3. CASE (\E s \in Sessions : Pay(s)) \/ SignIn \/ SignOut \/ Tick \/ UNCHANGED vars
    <2>1. now \in Nat
      BY DEF IInv, TypeOK
    <2>2. UNCHANGED <<row, req, pass>> /\ now' \in Nat /\ now <= now'
      <3>1. CASE \E s \in Sessions : Pay(s)
        BY <2>1, <3>1 DEF Pay
      <3>2. CASE SignIn \/ SignOut
        BY <2>1, <3>2 DEF SignIn, SignOut
      <3>3. CASE Tick
        BY <2>1, <3>3 DEF Tick
      <3>4. CASE UNCHANGED vars
        BY <2>1, <3>4 DEF vars
      <3> QED BY <1>3, <3>1, <3>2, <3>3, <3>4
    <2> QED BY <2>2, EnvironmentSInv
  <1> QED BY <1>1, <1>2, <1>3 DEF Next

(* The invariant of one request at a time. *)
THEOREM SerialInvariance == Serial => (Spec => []SInv)
  <1> SUFFICES ASSUME Serial PROVE Spec => []SInv
    OBVIOUS
  <1>1. IInv /\ SInv /\ [Next]_vars => SInv'
    BY StepSInv
  <1> QED BY <1>1, InitSInv, Invariance, PTL DEF Spec

(* One request at a time: the columns active and expires_at agree between   *)
(* any two writes of check_stripe_subscription and payments#success.        *)
THEOREM SerialConsistent == Serial => (Spec => []PassConsistent)
  <1> SUFFICES ASSUME Serial PROVE Spec => []PassConsistent
    OBVIOUS
  <1>1. SInv => PassConsistent
    BY DEF SInv
  <1> QED BY <1>1, SerialInvariance, PTL

(* One request at a time: check_stripe_subscription never takes back a pass *)
(* before the end payments#success gave it.                                 *)
THEOREM SerialHonoured == Serial => (Spec => []PassHonoured)
  <1> SUFFICES ASSUME Serial PROVE Spec => []PassHonoured
    OBVIOUS
  <1>1. SInv => PassHonoured
    BY DEF SInv
  <1> QED BY <1>1, SerialInvariance, PTL

(* One request at a time: verif_subscription lets a request through only if *)
(* a pass that was granted had not ended when the request's filters ran.    *)
THEOREM SerialAccess == Serial => (Spec => []AccessGranted)
  <1> SUFFICES ASSUME Serial PROVE Spec => []AccessGranted
    OBVIOUS
  <1>1. IInv /\ SInv => AccessGranted
    <2> SUFFICES ASSUME IInv, SInv, NEW t \in Threads, Premium(t)
                 PROVE  \E g \in grants : req[t].loaded_at <= g.expires
      BY DEF AccessGranted
    <2>1. req[t].sub.attr = row /\ row.active
      BY DEF Premium, SInv, Fresh
    <2>2. req[t].sub.attr.expires_at # nil
      BY <2>1 DEF SInv, PassConsistent
    <2> QED BY <2>2 DEF IInv, RequestOK, ObjectBacked, Granted, Premium
  <1> QED BY <1>1, Invariance, SerialInvariance, PTL

(* One request at a time: the Stripe customer, once stored, is kept: the    *)
(* `unless` of payments#success looks at a row that is not stale.           *)
THEOREM SerialCustomer == Serial => (Spec => CustomerSticky)
  <1> SUFFICES ASSUME Serial PROVE Spec => CustomerSticky
    OBVIOUS
  <1>1. IInv /\ SInv /\ [Next]_vars =>
          [row.stripe_user_id # nil => row'.stripe_user_id = row.stripe_user_id]_row
    <2> SUFFICES ASSUME IInv, SInv, Next, row.stripe_user_id # nil, row' # row
                 PROVE  row'.stripe_user_id = row.stripe_user_id
      BY DEF vars
    <2>1. PICK t \in Threads : Expire(t) \/ SavePass(t) \/ SaveCustomer(t)
      BY DEF Next, StartPage, StartStats, StartCheckout, StartSuccess, Start, Serve,
             Render, CreateCheckoutSession, RetrieveSession, Abort, Pay, SignIn,
             SignOut, Tick
    <2>2. row \in Row /\ req[t].sub \in Objects(Row) /\ Fresh(req[t])
      BY DEF IInv, TypeOK, Request, SInv
    <2>3. CASE Expire(t)
      <3>1. PICK o \in Objects(Row) : o = SetPass(req[t].sub, FALSE, nil)
        BY <2>2, PassTaken
      <3>2. /\ o.orig = req[t].sub.orig
            /\ o.attr.stripe_user_id = req[t].sub.attr.stripe_user_id
        BY <2>2, <3>1, PassTaken
      <3>3. req[t].sub.attr = row /\ req[t].sub.orig = row
        BY <2>2, <2>3 DEF Expire, Fresh
      <3>4. row' = Written(row, o)
        BY <2>3, <3>1 DEF Expire
      <3> QED BY <2>2, <3>2, <3>3, <3>4, WrittenRow
    <2>4. CASE SavePass(t)
      <3>1. /\ req[t].sub.attr.stripe_user_id = row.stripe_user_id
            /\ row' = Written(row, req[t].sub)
        BY <2>2, <2>4 DEF SavePass, Fresh
      <3> QED BY <2>2, <3>1, WrittenRow
    <2>5. CASE SaveCustomer(t)
      BY <2>2, <2>5 DEF SaveCustomer, Fresh
    <2> QED BY <2>1, <2>3, <2>4, <2>5
  <1> QED BY <1>1, Invariance, SerialInvariance, PTL DEF CustomerSticky, Spec

(* The end of the day is its last instant in PassLedger's sense. *)
LEMMA EndIsLast ==
    ASSUME NEW t \in Nat PROVE EndOfDay(t) \in Ledger!LastOfDay(t)
  <1> DEFINE q == t \div DayLength
             e == EndOfDay(t)
  <1>1. DayLength \in Nat /\ DayLength > 0
    BY SubscriptionAssumption
  <1>2. q \in Nat /\ q * DayLength <= t /\ t < q * DayLength + DayLength
    BY <1>1
  <1>3. e = q * DayLength + (DayLength - 1)
    BY DEF EndOfDay
  <1> HIDE DEF q, e
  <1>4. q * DayLength \in Nat
    BY <1>1, <1>2
  <1>5. e \in t..(t + DayLength - 1)
    BY <1>1, <1>2, <1>3, <1>4
  <1>6. e + 1 = (q + 1) * DayLength
    BY <1>1, <1>2, <1>3
  <1>7. (e + 1) % DayLength = 0
    BY <1>1, <1>2, <1>6
  <1> QED BY <1>5, <1>7 DEF Ledger!LastOfDay, e

(* The ledger's variables, read off the state: what the sessions are for,   *)
(* and what the request in flight is about to store.                        *)
PriceOf == [s \in Sessions |-> checkout[s].price]
Due == {req[t].sub.attr.expires_at : t \in {u \in Threads : req[u].pc = "save_pass"}}

(* With one thread at most one pass is due: the one of its request. *)
LEMMA DueAlone ==
    ASSUME Serial, NEW t \in Threads
    PROVE  /\ req[t].pc = "save_pass" => Due = {req[t].sub.attr.expires_at}
           /\ req[t].pc # "save_pass" => Due = {}
           /\ req'[t].pc = "save_pass" => Due' = {req'[t].sub.attr.expires_at}
           /\ req'[t].pc # "save_pass" => Due' = {}
  BY DEF Serial, Due

(* A step after which the ledger reads as before. *)
LEMMA SameLedger ==
    ASSUME UNCHANGED <<now, PriceOf, Due>>,
           row'.active = row.active, row'.expires_at = row.expires_at
    PROVE  UNCHANGED Ledger!ledger
  BY DEF Ledger!ledger, PriceOf, Due

(* A request that is not about to store a pass before or after the step     *)
(* leaves nothing due.                                                      *)
LEMMA NothingDue ==
    ASSUME Serial, IInv, NEW t \in Threads, req[t].pc # "save_pass",
           \/ Finish(t)
           \/ \E pc \in {"action", "save_customer"} : \E o : Goto(t, pc, o)
           \/ \E k, p, s : Start(t, k, p, s)
    PROVE  UNCHANGED Due
  <1>1. req[t] \in Request /\ req \in [Threads -> Request]
    BY DEF IInv, TypeOK
  <1>2. req'[t].pc # "save_pass"
    <2>1. CASE Finish(t)
      BY <1>1, <2>1 DEF Finish, Idle
    <2>2. CASE \E pc \in {"action", "save_customer"} : \E o : Goto(t, pc, o)
      BY <1>1, <2>2 DEF Goto, Request
    <2>3. CASE \E k, p, s : Start(t, k, p, s)
      BY <1>1, <2>3 DEF Start
    <2> QED BY <2>1, <2>2, <2>3
  <1> QED BY <1>2, DueAlone

(* One request at a time: every step of the controllers and of Stripe is a  *)
(* step of PassLedger or leaves the ledger alone.                           *)
LEMMA LedgerStep ==
    ASSUME Serial, IInv, SInv, [Next]_vars PROVE [Ledger!Next]_(Ledger!ledger)
  <1>1. UNCHANGED checkout => UNCHANGED PriceOf
    BY DEF PriceOf
  <1>2. ASSUME NEW t \in Threads, Finish(t) \/ \E k, p, s : Start(t, k, p, s),
               req[t].pc # "save_pass", UNCHANGED <<now, row, checkout>>
        PROVE  UNCHANGED Ledger!ledger
    BY <1>1, <1>2, NothingDue, SameLedger
  <1>3. ASSUME NEW t \in Threads,
               StartPage(t) \/ StartStats(t) \/ StartCheckout(t) \/ StartSuccess(t) \/ Render(t)
        PROVE  UNCHANGED Ledger!ledger
    <2>1. CASE Render(t)
      BY <1>2, <2>1 DEF Render
    <2>2. CASE ~Render(t)
      <3>1. PICK k, p, s : Start(t, k, p, s)
        BY <1>3, <2>2 DEF StartPage, StartStats, StartCheckout, StartSuccess
      <3>2. req[t].pc # "save_pass" /\ UNCHANGED <<now, row, checkout>>
        BY <3>1 DEF Start
      <3> QED BY <1>2, <3>1, <3>2
    <2> QED BY <2>1, <2>2
  <1>4. ASSUME NEW t \in Threads, Abort(t)
        PROVE  (\E e \in Due : Ledger!Forget(e)) \/ UNCHANGED Ledger!ledger
    <2>1. Finish(t) /\ UNCHANGED <<now, row, checkout>>
      BY <1>4 DEF Abort
    <2>2. CASE req[t].pc = "save_pass"
      <3>1. req'[t].pc # "save_pass"
        BY <2>1 DEF Finish, Idle, IInv, TypeOK
      <3>2. PICK e : e = req[t].sub.attr.expires_at
        OBVIOUS
      <3>3. e \in Due /\ Due' = Due \ {e}
        BY <2>2, <3>1, <3>2, DueAlone
      <3> QED BY <1>1, <2>1, <3>3 DEF Ledger!Forget, PriceOf, Due
    <2> QED BY <1>2, <2>1, <2>2
  <1>5. ASSUME NEW t \in Threads, CreateCheckoutSession(t)
        PROVE  (\E s \in Sessions : Ledger!Open(s)) \/ UNCHANGED Ledger!ledger
    <2>1. /\ Finish(t) /\ UNCHANGED <<now, row>> /\ req[t].pc = "action"
          /\ req[t].kind = "checkout"
      BY <1>5 DEF CreateCheckoutSession
    <2>2. UNCHANGED Due
      BY <2>1, NothingDue
    <2>3. CASE req[t].user
      <3>1. PICK s \in Sessions :
                /\ checkout[s].status = "unused"
                /\ checkout' = [checkout EXCEPT ![s] =
                                  [status |-> "open", price |-> req[t].price,
                                   customer |-> req[t].sub.attr.stripe_user_id]]
        BY <1>5, <2>3 DEF CreateCheckoutSession
      <3>2. req[t].price \in Prices /\ checkout[s].price = nil
        BY <2>1, <3>1 DEF IInv, RequestOK, SessionsOK
      <3>3. PriceOf[s] = nil /\ PriceOf' = [PriceOf EXCEPT ![s] = req[t].price]
        BY <3>1, <3>2 DEF PriceOf, IInv, TypeOK
      <3> QED BY <2>1, <2>2, <3>2, <3>3 DEF Ledger!Open, PriceOf, Due
    <2>4. CASE ~req[t].user
      BY <1>2, <1>5, <2>1, <2>4 DEF CreateCheckoutSession
    <2> QED BY <2>3, <2>4
  <1>6. ASSUME NEW t \in Threads, RetrieveSession(t)
        PROVE  (\E s \in Sessions : Ledger!Ask(s)) \/ UNCHANGED Ledger!ledger
    <2>1. /\ req[t].pc = "action" /\ req[t].kind = "success"
          /\ UNCHANGED <<now, row, checkout>>
      BY <1>6 DEF RetrieveSession
    <2>2. CASE ~req[t].user
      BY <1>2, <1>6, <2>1, <2>2 DEF RetrieveSession
    <2>3. CASE req[t].user
      <3>1. PICK s \in Sessions : s = req[t].sid /\ Opened(s)
        BY <2>1 DEF IInv, RequestOK, Opened
      <3>2. PriceOf[s] = checkout[s].price /\ checkout[s].price \in Prices
        BY <3>1 DEF IInv, SessionsOK, Opened, PriceOf
      <3>3. PICK e \in Nat : e = PassEnd(checkout[s].price)
        BY <3>2, PassEndNat DEF IInv, TypeOK
      <3>4. e \in Ledger!LastOfDay(now + Days[PriceOf[s]] * DayLength)
        <4>1. now + Days[checkout[s].price] * DayLength \in Nat
          BY <3>2, SubscriptionAssumption DEF IInv, TypeOK
        <4> QED BY <3>2, <3>3, <4>1, EndIsLast DEF PassEnd
      <3>5. PICK o \in Objects(Row) : o = SetPass(req[t].sub, TRUE, e)
        BY PassGiven DEF IInv, TypeOK, Request
      <3>6. o.attr.expires_at = e
        BY <3>5, PassGiven DEF IInv, TypeOK, Request
      <3>7. Goto(t, "save_pass", o)
        BY <1>6, <2>3, <3>1, <3>3, <3>5 DEF RetrieveSession
      <3>8. req'[t].pc = "save_pass" /\ req'[t].sub = o
        <4>1. PICK r \in Request : /\ req' = [req EXCEPT ![t] = r]
                                   /\ r.pc = "save_pass" /\ r.sub = o
          BY <3>7, Moved
        <4> QED BY <4>1 DEF IInv, TypeOK
      <3>9. Due = {} /\ Due' = {e}
        BY <2>1, <3>6, <3>8, DueAlone
      <3>10. PriceOf[s] # nil
        BY <3>2, SubscriptionAssumption
      <3> QED BY <1>1, <2>1, <3>4, <3>9, <3>10 DEF Ledger!Ask, PriceOf, Due
    <2> QED BY <2>2, <2>3
  <1>7. ASSUME NEW t \in Threads, Expire(t) PROVE Ledger!Lapse
    <2>1. /\ row \in Row /\ req[t].sub \in Objects(Row)
          /\ req[t].sub.attr = row /\ req[t].sub.orig = row
          /\ row.active /\ row.expires_at # nil /\ row.expires_at < now
      BY <1>7 DEF IInv, TypeOK, Request, SInv, Fresh, Expire
    <2>2. PICK o \in Objects(Row) : o = SetPass(req[t].sub, FALSE, nil)
      BY <2>1, PassTaken
    <2>3. o.orig = row /\ o.attr.active = FALSE /\ o.attr.expires_at = nil
      BY <2>1, <2>2, PassTaken
    <2>4. /\ row' = Written(row, o) /\ UNCHANGED <<now, checkout>>
          /\ req[t].pc = "expire" /\ Goto(t, "action", Clean(o))
      BY <1>7, <2>2 DEF Expire
    <2>5. row'.active = FALSE /\ row'.expires_at = nil
      BY <2>1, <2>3, <2>4, WrittenRow
    <2>6. UNCHANGED <<Due, PriceOf>>
      BY <1>1, <2>4, NothingDue
    <2> QED BY <2>1, <2>4, <2>5, <2>6 DEF Ledger!Lapse, PriceOf, Due
  <1>8. ASSUME NEW t \in Threads, SavePass(t) PROVE \E e \in Due : Ledger!Grant(e)
    <2>1. PICK o \in Objects(Row) : o = req[t].sub
      BY DEF IInv, TypeOK, Request
    <2>2. /\ row \in Row /\ o.orig = row /\ o.attr.active
          /\ row' = Written(row, o) /\ UNCHANGED <<now, checkout>>
          /\ req[t].pc = "save_pass"
      BY <1>8, <2>1 DEF IInv, TypeOK, SInv, Fresh, SavePass
    <2>3. PICK e : e = o.attr.expires_at
      OBVIOUS
    <2>4. row'.active = TRUE /\ row'.expires_at = e
      <3>1. row'.active /\ row'.expires_at = e /\ row' \in Row
        BY <2>2, <2>3, WrittenRow
      <3> QED BY <3>1 DEF Row
    <2>5. req'[t].pc # "save_pass"
      <3>1. Finish(t) \/ \E n : Goto(t, "save_customer", n)
        BY <1>8 DEF SavePass
      <3>2. req[t] \in Request /\ req \in [Threads -> Request]
        BY DEF IInv, TypeOK
      <3>3. CASE Finish(t)
        BY <3>2, <3>3 DEF Finish, Idle
      <3>4. CASE \E n : Goto(t, "save_customer", n)
        BY <3>2, <3>4 DEF Goto, Request
      <3> QED BY <3>1, <3>3, <3>4
    <2>6. e \in Due /\ Due' = Due \ {e}
      BY <2>1, <2>2, <2>3, <2>5, DueAlone
    <2> QED BY <1>1, <2>2, <2>4, <2>6 DEF Ledger!Grant, PriceOf, Due
  <1>9. ASSUME NEW t \in Threads, SaveCustomer(t) PROVE UNCHANGED Ledger!ledger
    <2>1. /\ row \in Row /\ req[t].sub \in Objects(Row) /\ req[t].sub.orig = row
          /\ req[t].sub.attr.active = row.active
          /\ req[t].sub.attr.expires_at = row.expires_at
          /\ row' = Written(row, req[t].sub) /\ UNCHANGED <<now, checkout>>
          /\ req[t].pc = "save_customer" /\ Finish(t)
      BY <1>9 DEF IInv, TypeOK, Request, SInv, Fresh, SaveCustomer
    <2>2. row'.active = row.active /\ row'.expires_at = row.expires_at
      BY <2>1, WrittenRow
    <2>3. UNCHANGED <<Due, PriceOf>>
      BY <1>1, <2>1, NothingDue
    <2> QED BY <2>1, <2>2, <2>3, SameLedger
  <1>10. ASSUME NEW s \in Sessions, Pay(s) PROVE UNCHANGED Ledger!ledger
    <2>1. checkout \in [Sessions -> Session] /\ UNCHANGED <<now, row, req>>
      BY <1>10 DEF Pay, IInv, TypeOK
    <2>2. PICK c : checkout' = [checkout EXCEPT ![s].status = "paid", ![s].customer = c]
      BY <1>10 DEF Pay
    <2>3. \A u \in Sessions : checkout'[u].price = checkout[u].price
      BY <2>1, <2>2 DEF Session
    <2>4. UNCHANGED <<Due, PriceOf>>
      BY <2>1, <2>3 DEF Due, PriceOf
    <2> QED BY <2>1, <2>4, SameLedger
  <1>11. Tick => Ledger!Tick
    BY DEF Tick, Ledger!Tick
  <1>12. SignIn \/ SignOut \/ UNCHANGED vars => UNCHANGED Ledger!ledger
    BY DEF SignIn, SignOut, vars, Ledger!ledger
  <1> QED BY <1>3, <1>4, <1>5, <1>6, <1>7, <1>8, <1>9, <1>10, <1>11, <1>12
          DEF Next, Serve, Ledger!Next, Due

(* One request at a time: the filters, the checkout and the success action  *)
(* implement PassLedger: the row is given the pass that was due when        *)
(* payments#success was asked, to the last instant of its last day, or      *)
(* nothing, and loses it only after that instant.                           *)
THEOREM SerialLedger == Serial => (Spec => KeepsLedger)
  <1> SUFFICES ASSUME Serial PROVE Spec => KeepsLedger
    OBVIOUS
  <1>1. Init => Ledger!Init
    BY DEF Init, Ledger!Init, NewRow, Idle
  <1>2. IInv /\ SInv /\ [Next]_vars => [Ledger!Next]_(Ledger!ledger)
    BY LedgerStep
  <1> QED BY <1>1, <1>2, Invariance, SerialInvariance, PTL
          DEF Spec, KeepsLedger, Ledger!Spec
===============================================================================
