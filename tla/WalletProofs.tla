----------------------------- MODULE WalletProofs -----------------------------
(***************************************************************************)
(* What create_playlist keeps of the token for every number of threads,    *)
(* every length of the minute and wherever a request is cut short; the     *)
(* minute between two playlists when requests are served one at a time;    *)
(* and the button of the page against that minute.                         *)
(***************************************************************************)
EXTENDS Countdown, TLAPS

(* What the request r of thread t holds at each of its program points: a    *)
(* request without a pass has seen the token, so its thread has not spent   *)
(* it, and the bookkeeping of its job is not complete.                      *)
RequestOK(t, r) ==
    /\ r.pc \in {"enqueue", "stamp", "spend"} =>
          r.wallet.attr.token = r.wallet.orig.token
    /\ r.pc \in {"enqueue", "stamp", "spend"} /\ ~r.active =>
          /\ r.wallet.orig.token = "1"
          /\ \A i \in DOMAIN jobs : PaidWithToken(jobs[i]) => jobs[i].thread # t
    /\ r.pc \in {"stamp", "spend"} =>
          /\ r.job \in DOMAIN jobs
          /\ jobs[r.job].thread = t
          /\ jobs[r.job].stage # "done"
          /\ jobs[r.job].free <=> ~r.active
    /\ r.pc = "spend" => ~r.active

(* The inductive invariant. FreeOncePerThread is not inductive: it takes    *)
(* TokenAccounts to know that a thread that spent the token finds it spent, *)
(* and that in turn takes the requests to know which columns are dirty.     *)
WInv ==
    /\ TypeOK
    /\ TokenAccounts
    /\ FreeOncePerThread
    /\ \A t \in Threads : RequestOK(t, req[t])
-------------------------------------------------------------------------------
(* A partial write yields a row; the column token comes from the object     *)
(* only if it is dirty there.                                               *)
LEMMA WrittenRow ==
    ASSUME NEW r \in Row, NEW o \in Objects(Row)
    PROVE  /\ Written(r, o) \in Row
           /\ Written(r, o).token =
                 IF o.attr.token # o.orig.token THEN o.attr.token ELSE r.token
           /\ Written(r, o).timestamp =
                 IF o.attr.timestamp # o.orig.timestamp
                 THEN o.attr.timestamp ELSE r.timestamp
  BY DEF Row, Objects, Written, Dirty

(* Assigning one column leaves the other and the remembered row alone. *)
LEMMA TimestampAssigned ==
    ASSUME NEW o \in Objects(Row), NEW x \in Int
    PROVE  /\ SetTimestamp(o, x) \in Objects(Row)
           /\ SetTimestamp(o, x).orig = o.orig
           /\ SetTimestamp(o, x).attr.token = o.attr.token
           /\ SetTimestamp(o, x).attr.timestamp = x
  <1>1. o.attr \in Row /\ o.orig \in Row /\ o = [attr |-> o.attr, orig |-> o.orig]
    BY DEF Objects
  <1>2. [token |-> o.attr.token, timestamp |-> x] \in Row
    BY <1>1 DEF Row
  <1> QED BY <1>1, <1>2 DEF SetTimestamp, Objects

(* Assigning the token leaves the remembered row alone. *)
LEMMA TokenAssigned ==
    ASSUME NEW o \in Objects(Row)
    PROVE  /\ SetToken(o, "0") \in Objects(Row)
           /\ SetToken(o, "0").orig = o.orig
           /\ SetToken(o, "0").attr.token = "0"
           /\ SetToken(o, "0").attr.timestamp = o.attr.timestamp
  <1>1. o.attr \in Row /\ o.orig \in Row /\ o = [attr |-> o.attr, orig |-> o.orig]
    BY DEF Objects
  <1>2. [token |-> "0", timestamp |-> o.attr.timestamp] \in Row
    BY <1>1 DEF Row
  <1> QED BY <1>1, <1>2 DEF SetToken, Objects

(* A save leaves the object clean. *)
LEMMA Cleaned ==
    ASSUME NEW o \in Objects(Row)
    PROVE  Clean(o) \in Objects(Row) /\ Clean(o).attr = o.attr /\ Clean(o).orig = o.attr
  BY DEF Clean, Objects

(* A row just read is a clean object. *)
LEMMA LoadedRow ==
    ASSUME NEW w \in Row
    PROVE  Loaded(w) \in Objects(Row) /\ Loaded(w).attr = w /\ Loaded(w).orig = w
  BY DEF Loaded, Objects

(* The request a free thread holds is well formed. *)
LEMMA IdleOK == Idle \in Request
  <1>1. LongAgo \in Int
    BY WalletAssumption DEF LongAgo
  <1>2. [token |-> nil, timestamp |-> LongAgo] \in Row
    BY <1>1 DEF Row
  <1>3. Loaded([token |-> nil, timestamp |-> LongAgo]) \in Objects(Row)
    BY <1>2, LoadedRow
  <1> QED BY <1>3 DEF Idle, Request

(* Moving a job on to another stage changes nothing else of it, and no      *)
(* other job.                                                               *)
LEMMA Advanced ==
    ASSUME TypeOK, NEW t \in Threads, NEW stage \in {"stamped", "done"},
           req[t].job \in DOMAIN jobs, Advance(t, stage)
    PROVE  /\ jobs' \in Seq(Job) /\ DOMAIN jobs' = DOMAIN jobs
           /\ \A i \in DOMAIN jobs : i # req[t].job => jobs'[i] = jobs[i]
           /\ jobs'[req[t].job].thread = jobs[req[t].job].thread
           /\ jobs'[req[t].job].free = jobs[req[t].job].free
           /\ jobs'[req[t].job].at = jobs[req[t].job].at
           /\ jobs'[req[t].job].stage = stage
  <1>1. PICK k \in DOMAIN jobs : k = req[t].job
    OBVIOUS
  <1>2. PICK j : j = [jobs[k] EXCEPT !.stage = stage]
    OBVIOUS
  <1>3. jobs \in Seq(Job) /\ jobs[k] \in Job
    BY DEF TypeOK
  <1>4. /\ j \in Job /\ j.thread = jobs[k].thread /\ j.free = jobs[k].free
        /\ j.at = jobs[k].at /\ j.stage = stage
    BY <1>2, <1>3 DEF Job
  <1>5. jobs' = [jobs EXCEPT ![k] = j]
    BY <1>1, <1>2, <1>3 DEF Advance
  <1>6. jobs' \in Seq(Job) /\ DOMAIN jobs' = DOMAIN jobs
    BY <1>3, <1>4, <1>5
  <1>7. jobs'[k] = j /\ \A i \in DOMAIN jobs : i # k => jobs'[i] = jobs[i]
    BY <1>3, <1>5
  <1> QED BY <1>1, <1>4, <1>6, <1>7

(* The first states satisfy the inductive invariant. *)
LEMMA InitWInv == Init => WInv
  <1> SUFFICES ASSUME Init PROVE WInv
    OBVIOUS
  <1>1. LongAgo \in Int
    BY WalletAssumption DEF LongAgo
  <1>2. TypeOK
    BY <1>1, IdleOK DEF Init, TypeOK, Row
  <1>3. DOMAIN jobs = {}
    BY DEF Init
  <1>4. wallet.token # "0"
    BY WalletAssumption DEF Init
  <1>5. \A t \in Threads : req[t].pc = "idle"
    BY DEF Init, Idle
  <1>6. TokenAccounts /\ FreeOncePerThread
    BY <1>3, <1>4 DEF TokenAccounts, FreeOncePerThread
  <1>7. \A t \in Threads : RequestOK(t, req[t])
    BY <1>5 DEF RequestOK
  <1> QED BY <1>2, <1>6, <1>7 DEF WInv

(* A step that leaves the jobs and the token alone and gives one thread a   *)
(* request that is well formed preserves the invariant.                     *)
LEMMA OneRequest ==
    ASSUME WInv, NEW t \in Threads, NEW r \in Request,
           req' = [req EXCEPT ![t] = r], RequestOK(t, r),
           UNCHANGED <<now, wallet, subscribed, jobs>>, aborts' \in Nat
    PROVE  WInv'
  <1>1. TypeOK'
    BY DEF WInv, TypeOK
  <1>2. TokenAccounts' /\ FreeOncePerThread'
    BY DEF WInv, TokenAccounts, FreeOncePerThread, PaidWithToken
  <1>3. ASSUME NEW u \in Threads PROVE RequestOK(u, req[u])'
    <2>1. RequestOK(u, req'[u])
      BY DEF WInv, TypeOK
    <2> QED BY <2>1 DEF RequestOK, PaidWithToken
  <1> QED BY <1>1, <1>2, <1>3 DEF WInv

(* A request that ends without touching the wallet preserves the invariant. *)
LEMMA FinishWInv ==
    ASSUME WInv, NEW t \in Threads, Finish(t),
           UNCHANGED <<now, wallet, subscribed, jobs>>, aborts' \in Nat
    PROVE  WInv'
  <1>1. PICK r \in Request : r = Idle
    BY IdleOK
  <1>2. RequestOK(t, r) /\ req' = [req EXCEPT ![t] = r]
    BY <1>1 DEF Finish, RequestOK, Idle
  <1> QED BY <1>2, OneRequest

(* The filters before check_eligibility. *)
LEMMA StartWInv == ASSUME WInv, NEW t \in Threads, Start(t) PROVE WInv'
  <1>1. PICK r \in Request : r = [Idle EXCEPT !.pc = "check", !.active = subscribed]
    BY IdleOK DEF WInv, TypeOK, Request
  <1>2. r.pc = "check"
    BY <1>1, IdleOK DEF Request
  <1>3. RequestOK(t, r) /\ req' = [req EXCEPT ![t] = r]
    BY <1>1, <1>2 DEF Start, RequestOK
  <1>4. UNCHANGED <<now, wallet, subscribed, jobs>> /\ aborts' \in Nat
    BY DEF Start, WInv, TypeOK
  <1> QED BY <1>3, <1>4, OneRequest

(* check_eligibility: a request without a pass goes on only if the row      *)
(* still holds the token, so no job was paid with it.                       *)
LEMMA CheckWInv == ASSUME WInv, NEW t \in Threads, CheckEligibility(t) PROVE WInv'
  <1>0. UNCHANGED <<now, wallet, subscribed, jobs>> /\ aborts' \in Nat
    BY DEF CheckEligibility, WInv, TypeOK
  <1>1. CASE ~Eligible(req[t].active, wallet)
    BY <1>0, <1>1, FinishWInv DEF CheckEligibility
  <1>2. CASE Eligible(req[t].active, wallet)
    <2>1. req[t] \in Request /\ wallet \in Row
      BY DEF WInv, TypeOK
    <2>2. Loaded(wallet) \in Objects(Row) /\ Loaded(wallet).attr = wallet
             /\ Loaded(wallet).orig = wallet
      BY <2>1, LoadedRow
    <2>3. PICK r : r = [req[t] EXCEPT !.pc = "enqueue", !.wallet = Loaded(wallet)]
      OBVIOUS
    <2>4. /\ r \in Request /\ r.pc = "enqueue" /\ r.wallet = Loaded(wallet)
          /\ r.active = req[t].active
      BY <2>1, <2>2, <2>3 DEF Request
    <2>5. req' = [req EXCEPT ![t] = r]
      BY <1>2, <2>3 DEF CheckEligibility, WInv, TypeOK
    <2>6. RequestOK(t, r)
      <3>1. ~r.active => wallet.token = "1"
        BY <1>2, <2>4 DEF Eligible
      <3>2. ~r.active => \A i \in DOMAIN jobs : ~PaidWithToken(jobs[i])
        BY <3>1 DEF WInv, TokenAccounts
      <3> QED BY <2>2, <2>4, <3>1, <3>2 DEF RequestOK
    <2> QED BY <1>0, <2>4, <2>5, <2>6, OneRequest
  <1> QED BY <1>1, <1>2

(* Pushing a job: it is nobody's bookkeeping but its own thread's. *)
LEMMA EnqueueWInv == ASSUME WInv, NEW t \in Threads, Enqueue(t) PROVE WInv'
  <1>1. req[t] \in Request /\ jobs \in Seq(Job) /\ now \in Int
    BY DEF WInv, TypeOK
  <1>2. PICK j \in Job : j = [thread |-> t, free |-> ~req[t].active, at |-> now,
                              stage |-> "pushed"]
    <2>1. (~req[t].active) \in BOOLEAN
      OBVIOUS
    <2> QED BY <1>1, <2>1, Zenon DEF Job
  <1>3. /\ j.thread = t /\ j.stage = "pushed" /\ (j.free <=> ~req[t].active)
        /\ jobs' = Append(jobs, j)
    BY <1>1, <1>2 DEF Enqueue
  <1>4. PICK n \in Nat : n = Len(jobs) + 1
    BY <1>1
  <1>5. /\ jobs' \in Seq(Job) /\ DOMAIN jobs' = DOMAIN jobs \cup {n}
        /\ n \notin DOMAIN jobs /\ jobs'[n] = j
        /\ \A i \in DOMAIN jobs : jobs'[i] = jobs[i]
    BY <1>1, <1>3, <1>4
  <1>6. \A i \in DOMAIN jobs' :
            PaidWithToken(jobs'[i]) => i \in DOMAIN jobs /\ PaidWithToken(jobs[i])
    BY <1>3, <1>5 DEF PaidWithToken
  <1>7. PICK r : r = [req[t] EXCEPT !.pc = "stamp", !.stamp = now, !.job = n]
    OBVIOUS
  <1>8. /\ r \in Request /\ r.pc = "stamp" /\ r.job = n
        /\ r.wallet = req[t].wallet /\ r.active = req[t].active
    BY <1>1, <1>4, <1>7 DEF Request
  <1>9. req' = [req EXCEPT ![t] = r] /\ req[t].pc = "enqueue"
    BY <1>4, <1>7 DEF Enqueue, WInv, TypeOK
  <1>10. TypeOK'
    BY <1>5, <1>8, <1>9 DEF Enqueue, WInv, TypeOK
  <1>11. TokenAccounts' /\ FreeOncePerThread'
    BY <1>5, <1>6 DEF Enqueue, WInv, TokenAccounts, FreeOncePerThread
  <1>12. ASSUME NEW u \in Threads PROVE RequestOK(u, req[u])'
    <2>1. RequestOK(u, req[u]) /\ RequestOK(t, req[t])
      BY DEF WInv
    <2>2. CASE u = t
      <3>1. req'[u] = r
        BY <1>9, <2>2 DEF WInv, TypeOK
      <3> QED BY <1>3, <1>5, <1>6, <1>8, <1>9, <2>1, <2>2, <3>1 DEF RequestOK
    <2>3. CASE u # t
      <3>1. req'[u] = req[u]
        BY <1>9, <2>3 DEF WInv, TypeOK
      <3> QED BY <1>5, <1>6, <2>1, <3>1 DEF RequestOK
    <2> QED BY <2>2, <2>3
  <1> QED BY <1>10, <1>11, <1>12 DEF WInv

(* Other threads do not notice that thread t moves its own job on: their    *)
(* jobs are others, and the job is not paid by them.                        *)
LEMMA OthersOK ==
    ASSUME WInv, NEW t \in Threads, NEW u \in Threads, u # t,
           req'[u] = req[u],
           NEW stage \in {"stamped", "done"},
           req[t].pc \in {"stamp", "spend"}, Advance(t, stage)
    PROVE  RequestOK(u, req[u])'
  <1>1. RequestOK(u, req[u]) /\ RequestOK(t, req[t]) /\ TypeOK
    BY DEF WInv
  <1>2. req[t].job \in DOMAIN jobs /\ jobs[req[t].job].thread = t
    BY <1>1 DEF RequestOK
  <1>3. /\ DOMAIN jobs' = DOMAIN jobs
        /\ \A i \in DOMAIN jobs : i # req[t].job => jobs'[i] = jobs[i]
        /\ jobs'[req[t].job].thread = t
    BY <1>1, <1>2, Advanced
  <1>4. req[u].pc \in {"stamp", "spend"} => req[u].job # req[t].job
    BY <1>1, <1>2 DEF RequestOK
  <1>5. \A i \in DOMAIN jobs' : PaidWithToken(jobs'[i]) =>
            jobs'[i].thread = t \/ (PaidWithToken(jobs[i]) /\ jobs'[i] = jobs[i])
    BY <1>3
  <1> QED BY <1>1, <1>3, <1>4, <1>5 DEF RequestOK

(* update!(timestamp:) leaves the token alone: it is not dirty. *)
LEMMA StampWInv == ASSUME WInv, NEW t \in Threads, Stamp(t) PROVE WInv'
  <1>1. /\ TypeOK /\ RequestOK(t, req[t]) /\ req[t].pc = "stamp"
        /\ UNCHANGED <<now, subscribed, aborts>>
    BY DEF WInv, Stamp
  <1>2. /\ req[t] \in Request /\ req[t].wallet \in Objects(Row) /\ wallet \in Row
        /\ req[t].stamp \in Int /\ req[t].active \in BOOLEAN
    BY <1>1 DEF TypeOK, Request
  <1>3. /\ req[t].job \in DOMAIN jobs /\ jobs[req[t].job].thread = t
        /\ jobs[req[t].job].stage # "done"
        /\ (jobs[req[t].job].free <=> ~req[t].active)
        /\ req[t].wallet.attr.token = req[t].wallet.orig.token
    BY <1>1 DEF RequestOK
  <1>4. PICK o \in Objects(Row) : o = SetTimestamp(req[t].wallet, req[t].stamp)
    BY <1>2, TimestampAssigned
  <1>5. o.orig.token = o.attr.token /\ o.attr.token = req[t].wallet.attr.token
    BY <1>2, <1>3, <1>4, TimestampAssigned
  <1>6. wallet' \in Row /\ wallet'.token = wallet.token
    BY <1>2, <1>4, <1>5, WrittenRow DEF Stamp
  <1>7. PICK stage \in {"stamped", "done"} :
            /\ Advance(t, stage)
            /\ stage = "done" <=> req[t].active
    BY <1>2 DEF Stamp
  <1>8. /\ jobs' \in Seq(Job) /\ DOMAIN jobs' = DOMAIN jobs
        /\ \A i \in DOMAIN jobs : i # req[t].job => jobs'[i] = jobs[i]
        /\ jobs'[req[t].job].thread = jobs[req[t].job].thread
        /\ jobs'[req[t].job].free = jobs[req[t].job].free
        /\ jobs'[req[t].job].stage = stage
    BY <1>1, <1>3, <1>7, Advanced
  <1>9. \A i \in DOMAIN jobs :
            /\ PaidWithToken(jobs'[i]) <=> PaidWithToken(jobs[i])
            /\ jobs'[i].thread = jobs[i].thread
    BY <1>3, <1>7, <1>8 DEF PaidWithToken
  <1>10. TokenAccounts' /\ FreeOncePerThread'
    BY <1>6, <1>8, <1>9 DEF WInv, TokenAccounts, FreeOncePerThread
  <1>11. \E r \in Request : /\ req' = [req EXCEPT ![t] = r]
                            /\ RequestOK(t, r)'
    <2>1. CASE req[t].active
      <3>1. PICK r \in Request : r = Idle
        BY IdleOK
      <3>2. req' = [req EXCEPT ![t] = r]
        BY <2>1, <3>1 DEF Stamp, Finish
      <3>3. RequestOK(t, r)'
        BY <3>1 DEF RequestOK, Idle
      <3> QED BY <3>2, <3>3
    <2>2. CASE ~req[t].active
      <3>1. Clean(o) \in Objects(Row) /\ Clean(o).attr = o.attr /\ Clean(o).orig = o.attr
        BY Cleaned
      <3>2. PICK r : r = [req[t] EXCEPT !.pc = "spend", !.wallet = Clean(o)]
        OBVIOUS
      <3>3. /\ r \in Request /\ r.pc = "spend" /\ r.wallet = Clean(o)
            /\ r.job = req[t].job /\ r.active = req[t].active
        BY <1>2, <3>1, <3>2 DEF Request
      <3>4. req' = [req EXCEPT ![t] = r]
        BY <1>4, <2>2, <3>2 DEF Stamp, WInv, TypeOK
      <3>5. /\ req[t].wallet.orig.token = "1"
            /\ \A i \in DOMAIN jobs : PaidWithToken(jobs[i]) => jobs[i].thread # t
        BY <1>1, <2>2 DEF RequestOK
      <3>6. RequestOK(t, r)'
        BY <1>3, <1>5, <1>7, <1>8, <1>9, <2>2, <3>1, <3>3, <3>5 DEF RequestOK
      <3> QED BY <3>3, <3>4, <3>6
    <2> QED BY <2>1, <2>2
  <1>12. PICK r \in Request : req' = [req EXCEPT ![t] = r] /\ RequestOK(t, r)'
    BY <1>11
  <1>13. TypeOK'
    BY <1>1, <1>6, <1>8, <1>12 DEF TypeOK
  <1>14. ASSUME NEW u \in Threads PROVE RequestOK(u, req[u])'
    <2>1. CASE u = t
      <3>1. req'[u] = r
        BY <1>1, <1>12, <2>1 DEF TypeOK
      <3> QED BY <1>12, <2>1, <3>1 DEF RequestOK
    <2>2. CASE u # t
      <3>1. req'[u] = req[u]
        BY <1>1, <1>12, <2>2 DEF TypeOK
      <3> QED BY <1>1, <1>7, <2>2, <3>1, OthersOK
    <2> QED BY <2>1, <2>2
  <1> QED BY <1>10, <1>13, <1>14 DEF WInv

(* update(token: '0') writes the token: the object still holds "1". *)
LEMMA SpendWInv == ASSUME WInv, NEW t \in Threads, Spend(t) PROVE WInv'
  <1>1. /\ TypeOK /\ RequestOK(t, req[t]) /\ req[t].pc = "spend"
        /\ UNCHANGED <<now, subscribed, aborts>> /\ Advance(t, "done")
    BY DEF WInv, Spend
  <1>2. req[t] \in Request /\ req[t].wallet \in Objects(Row) /\ wallet \in Row
    BY <1>1 DEF TypeOK, Request
  <1>3. /\ req[t].job \in DOMAIN jobs /\ jobs[req[t].job].thread = t
        /\ jobs[req[t].job].stage # "done" /\ jobs[req[t].job].free
        /\ req[t].wallet.orig.token = "1"
        /\ \A i \in DOMAIN jobs : PaidWithToken(jobs[i]) => jobs[i].thread # t
    BY <1>1 DEF RequestOK
  <1>4. PICK o \in Objects(Row) : o = SetToken(req[t].wallet, "0")
    BY <1>2, TokenAssigned
  <1>5. o.orig.token = "1" /\ o.attr.token = "0"
    BY <1>2, <1>3, <1>4, TokenAssigned
  <1>6. wallet' \in Row /\ wallet'.token = "0"
    BY <1>2, <1>4, <1>5, WrittenRow DEF Spend
  <1>7. /\ jobs' \in Seq(Job) /\ DOMAIN jobs' = DOMAIN jobs
        /\ \A i \in DOMAIN jobs : i # req[t].job => jobs'[i] = jobs[i]
        /\ jobs'[req[t].job].thread = t
        /\ jobs'[req[t].job].free
        /\ jobs'[req[t].job].stage = "done"
    BY <1>1, <1>3, Advanced
  <1>8. PaidWithToken(jobs'[req[t].job])
    BY <1>7 DEF PaidWithToken
  <1>9. TokenAccounts'
    BY <1>3, <1>6, <1>7, <1>8 DEF TokenAccounts
  <1>10. FreeOncePerThread'
    BY <1>3, <1>7 DEF WInv, FreeOncePerThread
  <1>11. PICK r \in Request : r = Idle
    BY IdleOK
  <1>12. req' = [req EXCEPT ![t] = r] /\ RequestOK(t, r)'
    BY <1>11 DEF Spend, Finish, RequestOK, Idle
  <1>13. TypeOK'
    BY <1>1, <1>6, <1>7, <1>12 DEF TypeOK
  <1>14. ASSUME NEW u \in Threads PROVE RequestOK(u, req[u])'
    <2>1. CASE u = t
      <3>1. req'[u] = r
        BY <1>1, <1>12, <2>1 DEF TypeOK
      <3> QED BY <1>12, <2>1, <3>1 DEF RequestOK
    <2>2. CASE u # t
      <3>1. req'[u] = req[u]
        BY <1>1, <1>12, <2>2 DEF TypeOK
      <3> QED BY <1>1, <2>2, <3>1, OthersOK
    <2> QED BY <2>1, <2>2
  <1> QED BY <1>9, <1>10, <1>13, <1>14 DEF WInv

(* Every step preserves the inductive invariant. *)
LEMMA StepWInv == WInv /\ [Next]_vars => WInv'
  <1> SUFFICES ASSUME WInv, [Next]_vars PROVE WInv'
    OBVIOUS
  <1>1. ASSUME NEW t \in Threads,
               \/ Start(t) \/ CheckEligibility(t) \/ Enqueue(t) \/ Stamp(t)
               \/ Spend(t) \/ Abort(t)
        PROVE  WInv'
    <2>1. CASE Abort(t)
      <3>1. aborts' \in Nat
        BY <2>1 DEF Abort, WInv, TypeOK
      <3> QED BY <2>1, <3>1, FinishWInv DEF Abort
    <2> QED BY <1>1, <2>1, StartWInv, CheckWInv, EnqueueWInv, StampWInv, SpendWInv
  <1>2. CASE Resubscribe \/ Tick \/ UNCHANGED vars
    <2>1. UNCHANGED <<wallet, req, jobs, aborts>>
      BY <1>2 DEF Resubscribe, Tick, vars
    <2>2. now' \in Nat /\ subscribed' \in BOOLEAN
      <3>1. now \in Nat /\ subscribed \in BOOLEAN
        BY DEF WInv, TypeOK
      <3> QED BY <1>2, <3>1 DEF Resubscribe, Tick, vars
    <2>3. TypeOK'
      BY <2>1, <2>2 DEF WInv, TypeOK
    <2>4. TokenAccounts' /\ FreeOncePerThread'
      BY <2>1 DEF WInv, TokenAccounts, FreeOncePerThread, PaidWithToken
    <2>5. \A t \in Threads : RequestOK(t, req[t])'
      BY <2>1 DEF WInv, RequestOK, PaidWithToken
    <2> QED BY <2>3, <2>4, <2>5 DEF WInv
  <1> QED BY <1>1, <1>2 DEF Next

(* The inductive invariant holds for every number of threads. *)
THEOREM Invariance == Spec => []WInv
  BY InitWInv, StepWInv, PTL DEF Spec

(* The state of create_playlist keeps its types. *)
THEOREM TypeCorrect == Spec => []TypeOK
  <1>1. WInv => TypeOK
    BY DEF WInv
  <1> QED BY <1>1, Invariance, PTL

(* For every number of threads and wherever requests are cut short: the     *)
(* token is gone exactly when create_playlist took it for a job it pushed.  *)
THEOREM TokenAccounted == Spec => []TokenAccounts
  <1>1. WInv => TokenAccounts
    BY DEF WInv
  <1> QED BY <1>1, Invariance, PTL

(* For every number of threads: no thread takes the token twice.            *)
THEOREM FreeBoundedByPool == Spec => []FreeOncePerThread
  <1>1. WInv => FreeOncePerThread
    BY DEF WInv
  <1> QED BY <1>1, Invariance, PTL

(* For every number of threads: the partial writes of update! and update    *)
(* never give a spent token back.                                           *)
THEOREM TokenNeverRefilled == Spec => SpentStaysSpent
  <1>1. WInv /\ [Next]_vars =>
            [wallet.token = "0" => wallet'.token = "0"]_wallet
    <2> SUFFICES ASSUME WInv, Next, wallet.token = "0", wallet' # wallet
                 PROVE  wallet'.token = "0"
      BY DEF vars
    <2>1. PICK t \in Threads : Stamp(t) \/ Spend(t)
      BY DEF Next, Start, CheckEligibility, Enqueue, Abort, Resubscribe, Tick
    <2>2. /\ wallet \in Row /\ req[t].wallet \in Objects(Row) /\ req[t].stamp \in Int
          /\ RequestOK(t, req[t])
      BY DEF WInv, TypeOK, Request
    <2>3. CASE Stamp(t)
      <3>1. PICK o \in Objects(Row) : o = SetTimestamp(req[t].wallet, req[t].stamp)
        BY <2>2, TimestampAssigned
      <3>2. o.orig = req[t].wallet.orig /\ o.attr.token = req[t].wallet.attr.token
        BY <2>2, <3>1, TimestampAssigned
      <3>3. o.attr.token = o.orig.token
        BY <2>2, <2>3, <3>2 DEF Stamp, RequestOK
      <3> QED BY <2>2, <2>3, <3>1, <3>3, WrittenRow DEF Stamp
    <2>4. CASE Spend(t)
      <3>1. PICK o \in Objects(Row) : o = SetToken(req[t].wallet, "0")
        BY <2>2, TokenAssigned
      <3>2. o.attr.token = "0"
        BY <2>2, <3>1, TokenAssigned
      <3> QED BY <2>2, <2>4, <3>1, <3>2, WrittenRow DEF Spend
    <2> QED BY <2>1, <2>3, <2>4
  <1> QED BY <1>1, Invariance, PTL DEF SpentStaysSpent, Spec
-------------------------------------------------------------------------------
(* Requests are served one at a time. *)
Serial == \A t, u \in Threads : t = u

(* What a request knows of the row: nobody else writes it, so the wallet in *)
(* memory has the row's timestamp, and the last job is the request's own.   *)
Paced(r) ==
    /\ r.pc \in {"enqueue", "stamp"} =>
          /\ r.wallet.attr.timestamp = r.wallet.orig.timestamp
          /\ r.wallet.orig.timestamp = wallet.timestamp
    /\ r.pc = "enqueue" => wallet.timestamp < now - Minute
    /\ r.pc = "stamp" => r.job = Len(jobs) /\ jobs[r.job].at = r.stamp
    /\ r.pc = "spend" =>
          /\ r.wallet.attr.timestamp = r.wallet.orig.timestamp
          /\ r.job = Len(jobs) /\ jobs[r.job].stage # "pushed"

(* The timestamp of the row covers every job whose bookkeeping reached it. *)
Covered(i) ==
    /\ jobs[i].at <= now
    /\ jobs[i].stage # "pushed" => jobs[i].at <= wallet.timestamp

(* The inductive invariant of a single thread: Cooldown compares two jobs,  *)
(* the code a timestamp and the clock.                                      *)
CInv ==
    /\ Cooldown
    /\ \A i \in DOMAIN jobs : Covered(i)
    /\ \A t \in Threads : Paced(req[t])

LEMMA InitCInv == Init => CInv
  <1> SUFFICES ASSUME Init PROVE CInv
    OBVIOUS
  <1>1. DOMAIN jobs = {} /\ \A t \in Threads : req[t].pc = "idle"
    BY DEF Init, Idle
  <1> QED BY <1>1 DEF CInv, Cooldown, Paced

(* The single thread has request r now, which knows what it must; jobs and  *)
(* wallet are as before.                                                    *)
LEMMA OnlyRequest ==
    ASSUME Serial, WInv, CInv, NEW t \in Threads, NEW r,
           req' = [req EXCEPT ![t] = r], Paced(r), UNCHANGED <<now, wallet, jobs>>
    PROVE  CInv'
  <1>1. \A u \in Threads : req'[u] = r
    BY DEF Serial, WInv, TypeOK
  <1>2. \A u \in Threads : Paced(req[u])'
    BY <1>1 DEF Paced
  <1> QED BY <1>2 DEF CInv, Cooldown, Covered

LEMMA FinishCInv ==
    ASSUME Serial, WInv, CInv, NEW t \in Threads, Finish(t), UNCHANGED <<now, wallet, jobs>>
    PROVE  CInv'
  <1>1. Paced(Idle)
    BY DEF Paced, Idle
  <1> QED BY <1>1, OnlyRequest DEF Finish

LEMMA StartCInv ==
    ASSUME Serial, WInv, CInv, NEW t \in Threads, Start(t) PROVE CInv'
  <1> DEFINE r == [Idle EXCEPT !.pc = "check", !.active = subscribed]
  <1>1. Paced(r)
    BY DEF Paced, Idle
  <1> QED BY <1>1, OnlyRequest DEF Start

(* eligible_for_playlist? has compared the row's timestamp with the clock. *)
LEMMA CheckCInv ==
    ASSUME Serial, WInv, CInv, NEW t \in Threads, CheckEligibility(t) PROVE CInv'
  <1>1. CASE Eligible(req[t].active, wallet)
    <2> DEFINE r == [req[t] EXCEPT !.pc = "enqueue", !.wallet = Loaded(wallet)]
    <2>1. req[t] \in Request /\ wallet \in Row /\ req \in [Threads -> Request]
      BY DEF WInv, TypeOK
    <2>2. r.pc = "enqueue" /\ r.wallet = Loaded(wallet)
      BY <2>1 DEF Request
    <2>3. req' = [req EXCEPT ![t] = r]
      BY <1>1, <2>1 DEF CheckEligibility
    <2> HIDE DEF r
    <2>4. Paced(r)
      BY <1>1, <2>1, <2>2, LoadedRow DEF Paced, Eligible
    <2> QED BY <2>3, <2>4, OnlyRequest DEF CheckEligibility
  <1>2. CASE ~Eligible(req[t].active, wallet)
    BY <1>2, FinishCInv DEF CheckEligibility
  <1> QED BY <1>1, <1>2

LEMMA EnqueueCInv ==
    ASSUME Serial, WInv, CInv, NEW t \in Threads, Enqueue(t) PROVE CInv'
  <1> DEFINE j == [thread |-> t, free |-> ~req[t].active, at |-> now, stage |-> "pushed"]
             n == Len(jobs) + 1
             r == [req[t] EXCEPT !.pc = "stamp", !.stamp = now, !.job = n]
  <1>1. /\ req[t] \in Request /\ wallet \in Row /\ jobs \in Seq(Job) /\ now \in Nat
        /\ req \in [Threads -> Request] /\ req[t].pc = "enqueue"
        /\ UNCHANGED <<now, wallet>>
    BY DEF WInv, TypeOK, Enqueue
  <1>2. jobs' = Append(jobs, j) /\ req' = [req EXCEPT ![t] = r]
    BY <1>1 DEF Enqueue
  <1>3. j.at = now /\ j.stage = "pushed"
    OBVIOUS
  <1>4. r.pc = "stamp" /\ r.stamp = now /\ r.job = n /\ r.wallet = req[t].wallet
    BY <1>1 DEF Request
  <1> HIDE DEF j, r
  <1>5. /\ Len(jobs') = n /\ DOMAIN jobs' = 1..n /\ jobs'[n] = j
        /\ \A i \in 1..Len(jobs) : jobs'[i] = jobs[i] /\ jobs[i] \in Job
    BY <1>1, <1>2
  <1>6. \A u \in Threads : Paced(req[u])'
    <2>1. \A u \in Threads : req'[u] = r
      BY <1>1, <1>2 DEF Serial
    <2>2. Paced(req[t])
      BY DEF CInv
    <2> QED BY <1>1, <1>3, <1>4, <1>5, <2>1, <2>2 DEF Paced
  <1>7. wallet.timestamp < now - Minute /\ wallet.timestamp \in Int
    BY <1>1 DEF CInv, Paced, Row
  <1>8. \A i \in DOMAIN jobs' : Covered(i)'
    <2>1. ASSUME NEW i \in DOMAIN jobs' PROVE Covered(i)'
      <3>1. CASE i = n
        BY <1>1, <1>3, <1>5, <3>1 DEF Covered
      <3>2. CASE i # n
        <4>1. i \in DOMAIN jobs /\ jobs'[i] = jobs[i]
          BY <1>1, <1>5, <3>2
        <4> QED BY <1>1, <4>1 DEF CInv, Covered
      <3> QED BY <3>1, <3>2
    <2> QED BY <2>1
  <1>9. Cooldown'
    <2> SUFFICES ASSUME NEW i \in 1..n, NEW k \in 1..n, i < k, jobs'[i].stage # "pushed"
                 PROVE  jobs'[k].at - jobs'[i].at > Minute
      BY <1>5 DEF Cooldown
    <2>1. i \in DOMAIN jobs /\ jobs'[i] = jobs[i] /\ jobs[i].at \in Int
      BY <1>1, <1>5 DEF Job
    <2>2. CASE k = n
      <3>1. jobs[i].at <= wallet.timestamp
        BY <2>1 DEF CInv, Covered
      <3> QED BY <1>1, <1>3, <1>5, <1>7, <2>1, <2>2, <3>1, WalletAssumption
    <2>3. CASE k # n
      <3>1. k \in DOMAIN jobs /\ jobs'[k] = jobs[k]
        BY <1>1, <1>5, <2>3
      <3> QED BY <2>1, <3>1 DEF CInv, Cooldown
    <2> QED BY <2>2, <2>3
  <1> QED BY <1>6, <1>8, <1>9 DEF CInv

(* The thread moves its job, which is the last, past "pushed"; the row's    *)
(* timestamp is the job's or later.                                         *)
LEMMA AdvanceCInv ==
    ASSUME Serial, WInv, CInv, NEW t \in Threads, NEW stage \in {"stamped", "done"}, NEW r,
           req[t].pc = "stamp" \/ req[t].pc = "spend", Advance(t, stage),
           req' = [req EXCEPT ![t] = r], wallet' \in Row, UNCHANGED now,
           wallet'.timestamp = wallet.timestamp \/ wallet'.timestamp = jobs[req[t].job].at,
           jobs[req[t].job].at <= wallet'.timestamp,
           r.pc = "spend" => /\ r.wallet.attr.timestamp = r.wallet.orig.timestamp
                             /\ r.job = req[t].job,
           r.pc = "idle" \/ r.pc = "spend"
    PROVE  CInv'
  <1>1. PICK n \in DOMAIN jobs : n = req[t].job
    BY DEF WInv, RequestOK
  <1>2. jobs \in Seq(Job) /\ n = Len(jobs) /\ wallet \in Row /\ req \in [Threads -> Request]
    BY <1>1 DEF WInv, TypeOK, CInv, Paced
  <1>3. /\ jobs' \in Seq(Job) /\ DOMAIN jobs' = DOMAIN jobs
        /\ \A i \in DOMAIN jobs : i # n => jobs'[i] = jobs[i]
        /\ jobs'[n].at = jobs[n].at /\ jobs'[n].stage = stage
    BY <1>1, Advanced DEF WInv
  <1>4. ASSUME NEW i \in DOMAIN jobs
        PROVE  jobs[i].at \in Int /\ jobs'[i].at = jobs[i].at
    <2>1. jobs[i] \in Job
      BY <1>2
    <2> QED BY <1>3, <2>1 DEF Job
  <1>5. Len(jobs') = Len(jobs)
    BY <1>2, <1>3
  <1>6. \A u \in Threads : Paced(req[u])'
    <2>1. \A u \in Threads : req'[u] = r
      BY <1>2 DEF Serial
    <2> QED BY <1>1, <1>2, <1>3, <1>5, <2>1 DEF Paced
  <1>7. Cooldown'
    <2> SUFFICES ASSUME NEW i \in DOMAIN jobs, NEW k \in DOMAIN jobs, i < k,
                        jobs'[i].stage # "pushed"
                 PROVE  jobs'[k].at - jobs'[i].at > Minute
      BY <1>3 DEF Cooldown
    <2>1. i # n
      BY <1>2
    <2>2. jobs'[i] = jobs[i]
      BY <1>3, <2>1
    <2> QED BY <1>4, <2>2 DEF CInv, Cooldown
  <1>8. ASSUME NEW i \in DOMAIN jobs PROVE Covered(i)'
    <2>1. jobs'[i].at <= now
      BY <1>4 DEF CInv, Covered
    <2>2. CASE i = n
      BY <1>1, <1>4, <2>1, <2>2 DEF Covered
    <2>3. CASE i # n /\ jobs[i].stage # "pushed"
      <3>1. jobs[i].at <= wallet.timestamp
        BY <2>3 DEF CInv, Covered
      <3>2. jobs[n].at - jobs[i].at > Minute
        <4>1. i < n
          BY <1>2, <2>3
        <4> QED BY <4>1, <2>3 DEF CInv, Cooldown
      <3>3. jobs[i].at <= wallet'.timestamp
        BY <1>1, <1>4, <3>1, <3>2, WalletAssumption
      <3> QED BY <1>4, <2>1, <3>3 DEF Covered
    <2>4. CASE i # n /\ jobs[i].stage = "pushed"
      BY <1>3, <2>1, <2>4 DEF Covered
    <2> QED BY <2>2, <2>3, <2>4
  <1> QED BY <1>3, <1>6, <1>7, <1>8 DEF CInv

(* The row's timestamp is the stamp, whether the column was dirty or not.   *)
LEMMA StampCInv ==
    ASSUME Serial, WInv, CInv, NEW t \in Threads, Stamp(t) PROVE CInv'
  <1> DEFINE o == SetTimestamp(req[t].wallet, req[t].stamp)
  <1>1. /\ req[t] \in Request /\ wallet \in Row /\ req \in [Threads -> Request]
        /\ req[t].pc = "stamp" /\ UNCHANGED now /\ wallet' = Written(wallet, o)
    BY DEF WInv, TypeOK, Stamp
  <1>2. req[t].wallet \in Objects(Row) /\ req[t].stamp \in Int
    BY <1>1 DEF Request
  <1>3. /\ o \in Objects(Row) /\ o.orig = req[t].wallet.orig
        /\ o.attr.timestamp = req[t].stamp
    BY <1>2, TimestampAssigned
  <1>4. IF req[t].active
        THEN Finish(t) /\ Advance(t, "done")
        ELSE /\ req' = [req EXCEPT ![t] = [req[t] EXCEPT !.pc = "spend", !.wallet = Clean(o)]]
             /\ Advance(t, "stamped")
    BY <1>1 DEF Stamp
  <1> HIDE DEF o
  <1>5. /\ req[t].wallet.orig.timestamp = wallet.timestamp
        /\ jobs[req[t].job].at = req[t].stamp
    BY <1>1 DEF CInv, Paced
  <1>6. wallet' \in Row /\ wallet'.timestamp = jobs[req[t].job].at
    BY <1>1, <1>3, <1>5, WrittenRow
  <1>7. jobs[req[t].job].at <= wallet'.timestamp
    BY <1>2, <1>5, <1>6
  <1>8. CASE req[t].active
    <2>1. Idle.pc = "idle"
      BY DEF Idle
    <2> QED BY <1>1, <1>4, <1>6, <1>7, <1>8, <2>1, AdvanceCInv DEF Finish
  <1>9. CASE ~req[t].active
    <2> DEFINE r == [req[t] EXCEPT !.pc = "spend", !.wallet = Clean(o)]
    <2>1. r.pc = "spend" /\ r.job = req[t].job /\ r.wallet = Clean(o)
      BY <1>1 DEF Request
    <2>2. r.wallet.attr.timestamp = r.wallet.orig.timestamp
      BY <1>3, <2>1, Cleaned
    <2>3. req' = [req EXCEPT ![t] = r]
      BY <1>4, <1>9
    <2>4. Advance(t, "stamped")
      BY <1>4, <1>9
    <2> HIDE DEF r
    <2> QED BY <1>1, <1>6, <1>7, <2>1, <2>2, <2>3, <2>4, AdvanceCInv
  <1> QED BY <1>8, <1>9

(* Spending the token leaves the timestamp alone. *)
LEMMA SpendCInv ==
    ASSUME Serial, WInv, CInv, NEW t \in Threads, Spend(t) PROVE CInv'
  <1> DEFINE o == SetToken(req[t].wallet, "0")
  <1>1. /\ req[t] \in Request /\ wallet \in Row
        /\ req[t].pc = "spend" /\ UNCHANGED now /\ wallet' = Written(wallet, o)
        /\ Advance(t, "done") /\ req' = [req EXCEPT ![t] = Idle]
    BY DEF WInv, TypeOK, Spend, Finish
  <1>2. o \in Objects(Row) /\ o.orig = req[t].wallet.orig
        /\ o.attr.timestamp = req[t].wallet.attr.timestamp
    BY <1>1, TokenAssigned DEF Request
  <1> HIDE DEF o
  <1>3. /\ req[t].wallet.attr.timestamp = req[t].wallet.orig.timestamp
        /\ req[t].job \in DOMAIN jobs /\ jobs[req[t].job].stage # "pushed"
    BY <1>1 DEF CInv, Paced, WInv, RequestOK
  <1>4. wallet' \in Row /\ wallet'.timestamp = wallet.timestamp
    BY <1>1, <1>2, <1>3, WrittenRow
  <1>5. jobs[req[t].job].at <= wallet'.timestamp
    BY <1>3, <1>4 DEF CInv, Covered
  <1>6. Idle.pc = "idle"
    BY DEF Idle
  <1> QED BY <1>1, <1>4, <1>5, <1>6, AdvanceCInv

LEMMA StepCInv == ASSUME Serial, WInv, CInv, [Next]_vars PROVE CInv'
  <1>1. ASSUME NEW t \in Threads, Abort(t) PROVE CInv'
    BY <1>1, FinishCInv DEF Abort
  <1>2. CASE Resubscribe \/ UNCHANGED vars
    <2>1. UNCHANGED <<now, wallet, req, jobs>>
      BY <1>2 DEF Resubscribe, vars
    <2> QED BY <2>1 DEF CInv, Cooldown, Covered, Paced
  <1>3. CASE Tick
    <2>1. UNCHANGED <<wallet, req, jobs>> /\ now' = now + 1 /\ now \in Nat
          /\ wallet \in Row /\ jobs \in Seq(Job)
      BY <1>3 DEF Tick, WInv, TypeOK
    <2>2. wallet.timestamp \in Int /\ \A i \in DOMAIN jobs : jobs[i].at \in Int
      <3>1. wallet.timestamp \in Int
        BY <2>1 DEF Row
      <3>2. \A i \in DOMAIN jobs : jobs[i] \in Job
        BY <2>1
      <3> QED BY <3>1, <3>2 DEF Job
    <2>3. \A i \in DOMAIN jobs : Covered(i)'
      BY <2>1, <2>2 DEF CInv, Covered
    <2>4. \A t \in Threads : Paced(req[t])'
      BY <2>1, <2>2, WalletAssumption DEF CInv, Paced
    <2> QED BY <2>1, <2>3, <2>4 DEF CInv, Cooldown
  <1> QED BY <1>1, <1>2, <1>3, StartCInv, CheckCInv, EnqueueCInv, StampCInv, SpendCInv DEF Next

(* One request at a time: two jobs are more than a minute apart once the      *)
(* timestamp of the first is written, for every length of the minute and      *)
(* wherever requests are cut short.                                           *)
THEOREM SerialCooldown == Serial => (Spec => []Cooldown)
  <1> SUFFICES ASSUME Serial PROVE Spec => []Cooldown
    OBVIOUS
  <1>1. WInv /\ CInv /\ [Next]_vars => CInv'
    BY StepCInv
  <1>2. CInv => Cooldown
    BY DEF CInv
  <1> QED BY <1>1, <1>2, InitCInv, Invariance, PTL DEF Spec
-------------------------------------------------------------------------------
(* Whole seconds: to_i and Math.floor.                                      *)
LEMMA FloorInt == ASSUME NEW a \in Int PROVE Floor(a) \in Int
  BY CountdownAssumption DEF Floor

LEMMA FloorBounds ==
    ASSUME NEW a \in Int
    PROVE  Second * Floor(a) <= a /\ a < Second * Floor(a) + Second
  BY CountdownAssumption DEF Floor

LEMMA FloorNext == ASSUME NEW a \in Int PROVE Floor(a + Second) = Floor(a) + 1
  BY CountdownAssumption DEF Floor

LEMMA Scaled ==
    ASSUME NEW x \in Int, NEW y \in Int, x <= y
    PROVE  Second * x <= Second * y
  BY CountdownAssumption, SMTT(30)

(* Rounding down keeps the order. *)
LEMMA FloorMonotone ==
    ASSUME NEW a \in Int, NEW b \in Int, a <= b
    PROVE  Floor(a) <= Floor(b)
  <1> DEFINE p == Second * Floor(a)
             q == Second * Floor(b)
             x == Floor(a)
             y == Floor(b)
  <1>1. x \in Int /\ y \in Int /\ p \in Int /\ q \in Int
    BY FloorInt, CountdownAssumption
  <1>2. p <= a /\ b < q + Second
    BY FloorBounds
  <1>3. ASSUME y < x PROVE FALSE
    <2>1. Second * (y + 1) <= p
      BY <1>1, <1>3, Scaled
    <2>2. Second * (y + 1) = q + Second
      BY <1>1, CountdownAssumption, SMTT(30)
    <2> HIDE DEF p, q
    <2> QED BY <1>1, <1>2, <2>1, <2>2, CountdownAssumption
  <1> QED BY <1>1, <1>3

(* A minute is a number of whole seconds. *)
LEMMA MinuteInSeconds ==
    Minute \div Second \in Int /\ Second * (Minute \div Second) = Minute
  BY CountdownAssumption, WalletAssumption

(* Two times that lie a minute apart once rounded are less than a second    *)
(* short of it.                                                             *)
LEMMA RoundedMinute ==
    ASSUME NEW a \in Int, NEW b \in Int, Floor(b) - Floor(a) >= Minute \div Second
    PROVE  a < b - Minute + Second
  <1> DEFINE x == Floor(a)
             y == Floor(b)
             m == Minute \div Second
             p == Second * x
             q == Second * y
  <1>1. x \in Int /\ y \in Int /\ m \in Int /\ p \in Int /\ q \in Int
    BY FloorInt, MinuteInSeconds, CountdownAssumption
  <1>2. a < p + Second /\ q <= b
    BY FloorBounds
  <1>3. Second * (x + m) <= q
    BY <1>1, Scaled
  <1>4. Second * (x + m) = p + Minute
    <2>1. Second * (x + m) = p + Second * m
      BY <1>1, CountdownAssumption, SMTT(30)
    <2> QED BY <2>1, MinuteInSeconds
  <1> HIDE DEF p, q
  <1> QED BY <1>1, <1>2, <1>3, <1>4, CountdownAssumption, WalletAssumption

(* What the page promises by itself: at the next callback the seconds that  *)
(* are left then and the seconds gone since the timestamp make a minute, so *)
(* that the button is enabled when a minute of whole seconds is over.       *)
PageOK ==
    /\ page \in [shown : BOOLEAN, timestamp : Int, left : Nat, next : Int,
                 enabled : BOOLEAN]
    /\ page.enabled => Floor(now) - page.timestamp >= Minute \div Second
    /\ page.left > 0 =>
          Floor(page.next) - page.timestamp + page.left - 1 >= Minute \div Second

LEMMA InitPage == CountdownInit => PageOK
  BY DEF CountdownInit, NoPage, PageOK

LEMMA ConnectPage == ASSUME WInv, Connect PROVE PageOK'
  <1> DEFINE ts == Floor(wallet.timestamp)
             left == TimeLeft(ts)
             m == Minute \div Second
             f == Floor(now)
  <1>1. now \in Int /\ wallet.timestamp \in Int /\ UNCHANGED now
    BY DEF WInv, TypeOK, Row, Connect, vars
  <1>2. m \in Int /\ ts \in Int /\ f \in Int /\ left = m - (f - ts)
    BY <1>1, FloorInt, MinuteInSeconds DEF TimeLeft
  <1>3. page' = [shown |-> TRUE, timestamp |-> ts,
                 left |-> IF left > 0 THEN left ELSE 0,
                 next |-> IF left > 0 THEN now + Second ELSE 0,
                 enabled |-> left <= 0]
    BY DEF Connect
  <1>4. now + Second \in Int /\ Floor(now + Second) = f + 1
    BY <1>1, FloorNext, CountdownAssumption
  <1>5. Floor(now') = f
    BY <1>1
  <1> HIDE DEF ts, left, m, f
  <1>6. /\ page'.timestamp = ts /\ page'.left = (IF left > 0 THEN left ELSE 0)
        /\ page'.next = (IF left > 0 THEN now + Second ELSE 0)
    BY <1>3
  <1>7. page'.left > 0 => Floor(page'.next) - page'.timestamp + page'.left - 1 >= m
    BY <1>2, <1>4, <1>6
  <1>8. page'.enabled => f - page'.timestamp >= m
    <2>1. page'.enabled => left <= 0
      BY <1>3, Zenon
    <2> QED BY <1>2, <1>6, <2>1
  <1>9. page' \in [shown : BOOLEAN, timestamp : Int, left : Nat, next : Int,
                   enabled : BOOLEAN]
    BY <1>1, <1>2, <1>3, <1>4
  <1> QED BY <1>5, <1>7, <1>8, <1>9 DEF PageOK, m

LEMMA IntervalPage == ASSUME WInv, PageOK, Interval PROVE PageOK'
  <1> DEFINE m == Minute \div Second
             f == Floor(page.next)
  <1>1. /\ now \in Int /\ UNCHANGED now /\ page.left > 0 /\ page.next <= now
        /\ page.timestamp \in Int /\ page.left \in Nat /\ page.next \in Int
    BY DEF WInv, TypeOK, Interval, vars, PageOK
  <1>2. m \in Int /\ f \in Int /\ Floor(now) \in Int /\ f <= Floor(now)
        /\ f - page.timestamp + page.left - 1 >= m
    BY <1>1, FloorInt, FloorMonotone, MinuteInSeconds DEF PageOK
  <1> DEFINE n == IF page.left = 1 THEN 0 ELSE page.next + Second
             l == page.left - 1
             e == page.left = 1
  <1>3. page' = [page EXCEPT !.left = l, !.next = n, !.enabled = e]
    BY DEF Interval
  <1>4. n \in Int /\ l \in Nat /\ e \in BOOLEAN
    BY <1>1, CountdownAssumption
  <1>5. l > 0 => Floor(n) = f + 1
    BY <1>1, FloorNext
  <1>6. e => Floor(now) - page.timestamp >= m
    BY <1>1, <1>2
  <1>7. l > 0 => Floor(n) - page.timestamp + l - 1 >= m
    BY <1>1, <1>2, <1>5
  <1> HIDE DEF n, l, e, m
  <1>8. /\ page'.timestamp = page.timestamp /\ page'.left = l /\ page'.next = n
        /\ page'.enabled = e
        /\ page' \in [shown : BOOLEAN, timestamp : Int, left : Nat, next : Int,
                      enabled : BOOLEAN]
    BY <1>3, <1>4 DEF PageOK
  <1> QED BY <1>1, <1>6, <1>7, <1>8 DEF PageOK, m

LEMMA StepPage == ASSUME WInv, WInv', PageOK, [CountdownNext]_allvars PROVE PageOK'
  <1>1. CASE Connect
    BY <1>1, ConnectPage
  <1>2. CASE Interval
    BY <1>2, IntervalPage
  <1>3. CASE UNCHANGED page /\ [Next]_vars
    <2>1. now \in Nat /\ now' \in Nat /\ now <= now'
      <3>1. now \in Nat /\ now' \in Nat
        BY DEF WInv, TypeOK
      <3>2. now' = now \/ now' = now + 1
        BY <1>3 DEF Next, Start, CheckEligibility, Enqueue, Stamp, Spend, Abort,
                    Resubscribe, Tick, vars
      <3> QED BY <3>1, <3>2
    <2>2. Floor(now) \in Int /\ Floor(now') \in Int /\ Floor(now) <= Floor(now')
      BY <2>1, FloorInt, FloorMonotone
    <2> QED BY <1>3, <2>2, MinuteInSeconds DEF PageOK
  <1> QED BY <1>1, <1>2, <1>3 DEF CountdownNext, allvars

(* The page reads the wallet and writes nothing of it: with it, create_playlist *)
(* still does what module Wallet says.                                          *)
THEOREM PageReadsOnly == CountdownSpec => Spec
  <1>1. CountdownInit => Init
    BY DEF CountdownInit
  <1>2. [CountdownNext]_allvars => [Next]_vars
    BY DEF CountdownNext, allvars, Connect, Interval
  <1> QED BY <1>1, <1>2, PTL DEF CountdownSpec, Spec

(* For every number of threads, every length of a second and however late the *)
(* intervals run: the button is at most a second early.                       *)
THEOREM HardlyEarly == CountdownSpec => []ButtonHardlyEarly
  <1>1. WInv /\ WInv' /\ PageOK /\ [CountdownNext]_allvars => PageOK'
    BY StepPage
  <1>2. CountdownSpec => []PageOK
    BY <1>1, InitPage, PageReadsOnly, Invariance, PTL DEF CountdownSpec
  <1>3. WInv /\ PageOK => ButtonHardlyEarly
    <2> SUFFICES ASSUME WInv, PageOK, page.enabled,
                        page.timestamp = Floor(wallet.timestamp)
                 PROVE  wallet.timestamp < now - Minute + Second
      BY DEF ButtonHardlyEarly
    <2>1. now \in Int /\ wallet.timestamp \in Int
      BY DEF WInv, TypeOK, Row
    <2>2. Floor(now) - Floor(wallet.timestamp) >= Minute \div Second
      BY DEF PageOK
    <2> QED BY <2>1, <2>2, RoundedMinute
  <1> QED BY <1>2, <1>3, PageReadsOnly, Invariance, PTL

(* The countdown's page changes nothing of the minute between two playlists. *)
THEOREM SerialCooldownWithPage == Serial => (CountdownSpec => []Cooldown)
  BY SerialCooldown, PageReadsOnly, PTL
===============================================================================
