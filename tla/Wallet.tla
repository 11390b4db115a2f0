------------------------------- MODULE Wallet -------------------------------
(***************************************************************************)
(* home#create_playlist: who may ask for a playlist, and what asking       *)
(* costs. A user without a pass has one free token; everybody waits a      *)
(* minute between two playlists. Concurrent Puma threads serve the user;   *)
(* the row of `wallets` is read once per request, by check_eligibility,    *)
(* and written twice, after the Sidekiq job has been pushed.               *)
(*                                                                         *)
(* A step is one access to shared state and the local computation that     *)
(* follows it.                                                             *)
(***************************************************************************)
EXTENDS Integers, Sequences, ActiveRecord

CONSTANTS
    Threads,     \* Puma threads
    nil,
    Minute,      \* clock ticks per minute
    MaxTime,     \* bound on the clock
    MaxJobs,     \* bound on the jobs pushed
    MaxAborts    \* bound on the requests cut short

ASSUME WalletAssumption ==
    /\ Minute \in Nat \ {0}
    /\ MaxTime \in Nat /\ MaxJobs \in Nat /\ MaxAborts \in Nat
    /\ nil \notin {"0", "1"}

VARIABLES
    now,         \* Time.now
    wallet,      \* the user's row of `wallets`
    subscribed,  \* the column active of the user's row of `subscriptions`
    req,         \* what each thread is serving
    jobs,        \* history: the Playlist jobs pushed, oldest first
    aborts       \* history: how many requests were cut short

vars == <<now, wallet, subscribed, req, jobs, aborts>>
-------------------------------------------------------------------------------
(* Rows of `wallets`: the column token is a string; rows older than its     *)
(* default hold NULL.                                                       *)
Row == [token : {"0", "1", nil}, timestamp : Int]

(* The default of the column timestamp: a day long before now. *)
LongAgo == -(Minute + 1)

(* A request for create_playlist: @current_user.subscription.active and     *)
(* @current_user.wallet as it has them in memory, the index of its job and  *)
(* the time of the update of the wallet.                                    *)
Idle == [pc |-> "idle", active |-> FALSE, stamp |-> 0, job |-> 0,
         wallet |-> Loaded([token |-> nil, timestamp |-> LongAgo])]

Request == [pc : {"idle", "check", "enqueue", "stamp", "spend"}, active : BOOLEAN,
            stamp : Int, job : Nat, wallet : Objects(Row)]

(* A job: the thread that pushed it, whether it is to be paid with the      *)
(* token, when it was pushed, and how far the bookkeeping of it has come.   *)
Job == [thread : Threads, free : BOOLEAN, at : Int,
        stage : {"pushed", "stamped", "done"}]

Init ==
    /\ now = 0
    /\ wallet \in [token : {"1", nil}, timestamp : {LongAgo}]
    /\ subscribed \in BOOLEAN
    /\ req = [t \in Threads |-> Idle]
    /\ jobs = <<>>
    /\ aborts = 0
-------------------------------------------------------------------------------
(* home#create_playlist and its filters *)

Finish(t) == req' = [req EXCEPT ![t] = Idle]

(* set_current_user, check_stripe_subscription and authenticate_user: the   *)
(* subscription is loaded here. Without session[:user_id] the request is    *)
(* redirected and nothing happens.                                          *)
Start(t) ==
    /\ req[t].pc = "idle"
    /\ req' = [req EXCEPT ![t] = [Idle EXCEPT !.pc = "check", !.active = subscribed]]
    /\ UNCHANGED <<now, wallet, subscribed, jobs, aborts>>

(* Mutations: any token will do; a minute exactly is enough. *)
EligibleAnyToken(active, row) ==
    (active \/ row.token # nil) /\ row.timestamp < now - Minute
EligibleAtMinute(active, row) ==
    (active \/ row.token = "1") /\ row.timestamp <= now - Minute

(* eligible_for_playlist? *)
Eligible(active, row) ==
    (active \/ row.token = "1") /\ row.timestamp < now - Minute

(* check_eligibility, which loads the wallet: the request goes on, or is    *)
(* redirected with one of two alerts.                                       *)
CheckEligibility(t) ==
    /\ req[t].pc = "check"
    /\ IF Eligible(req[t].active, wallet)
       THEN req' = [req EXCEPT ![t] = [@ EXCEPT !.pc = "enqueue",
                                                !.wallet = Loaded(wallet)]]
       ELSE Finish(t)
    /\ UNCHANGED <<now, wallet, subscribed, jobs, aborts>>

(* create_playlist_worker: Playlist.perform_async, then the Time.now of     *)
(* update_wallet.                                                           *)
Enqueue(t) ==
    /\ req[t].pc = "enqueue"
    /\ Len(jobs) < MaxJobs
    /\ jobs' = Append(jobs, [thread |-> t, free |-> ~req[t].active, at |-> now,
                             stage |-> "pushed"])
    /\ req' = [req EXCEPT ![t] = [@ EXCEPT !.pc = "stamp", !.stamp = now,
                                           !.job = Len(jobs) + 1]]
    /\ UNCHANGED <<now, wallet, subscribed, aborts>>

(* The wallet in memory after a column is assigned. *)
SetTimestamp(obj, time) ==
    [obj EXCEPT !.attr = [token |-> obj.attr.token, timestamp |-> time]]
SetToken(obj, token) ==
    [obj EXCEPT !.attr = [token |-> token, timestamp |-> obj.attr.timestamp]]

(* The job of thread t is now at the given stage. *)
Advance(t, stage) == jobs' = [jobs EXCEPT ![req[t].job] = [@ EXCEPT !.stage = stage]]

(* Mutations: the token is spent whoever asks; the timestamp is cleared;    *)
(* the whole object is written, as update_columns(attributes) would.        *)
StampAndAlwaysSpend(t) ==
    LET obj == SetTimestamp(req[t].wallet, req[t].stamp)
    IN  /\ req[t].pc = "stamp"
        /\ wallet' = Written(wallet, obj)
        /\ req' = [req EXCEPT ![t] = [@ EXCEPT !.pc = "spend", !.wallet = Clean(obj)]]
        /\ Advance(t, "stamped")
        /\ UNCHANGED <<now, subscribed, aborts>>
StampNil(t) ==
    LET obj == SetTimestamp(req[t].wallet, nil)
    IN  /\ req[t].pc = "stamp"
        /\ wallet' = Written(wallet, obj)
        /\ Finish(t)
        /\ Advance(t, "stamped")
        /\ UNCHANGED <<now, subscribed, aborts>>

StampWhole(t) ==
    LET obj == SetTimestamp(req[t].wallet, req[t].stamp)
    IN  /\ req[t].pc = "stamp"
        /\ wallet' = obj.attr
        /\ IF req[t].active
           THEN Finish(t) /\ Advance(t, "done")
           ELSE /\ req' = [req EXCEPT ![t] = [@ EXCEPT !.pc = "spend",
                                                       !.wallet = Clean(obj)]]
                /\ Advance(t, "stamped")
        /\ UNCHANGED <<now, subscribed, aborts>>

(* update_wallet's update!(timestamp:), then the test of subscription.active. *)
Stamp(t) ==
    LET obj == SetTimestamp(req[t].wallet, req[t].stamp)
    IN  /\ req[t].pc = "stamp"
        /\ wallet' = Written(wallet, obj)
        /\ IF req[t].active
           THEN Finish(t) /\ Advance(t, "done")
           ELSE /\ req' = [req EXCEPT ![t] = [@ EXCEPT !.pc = "spend",
                                                       !.wallet = Clean(obj)]]
                /\ Advance(t, "stamped")
        /\ UNCHANGED <<now, subscribed, aborts>>

(* wallet.update(token: '0') *)
Spend(t) ==
    /\ req[t].pc = "spend"
    /\ wallet' = Written(wallet, SetToken(req[t].wallet, "0"))
    /\ Advance(t, "done")
    /\ Finish(t)
    /\ UNCHANGED <<now, subscribed, aborts>>

(* A request is cut short: an exception between two accesses, Redis or the  *)
(* database out of reach, a restart of Puma.                                *)
Abort(t) ==
    /\ req[t].pc # "idle"
    /\ aborts < MaxAborts
    /\ aborts' = aborts + 1
    /\ Finish(t)
    /\ UNCHANGED <<now, wallet, subscribed, jobs>>
-------------------------------------------------------------------------------
(* The environment: a pass is bought or runs out (module Subscription), and *)
(* time passes.                                                             *)
Resubscribe == subscribed' \in BOOLEAN /\ UNCHANGED <<now, wallet, req, jobs, aborts>>

Tick == now < MaxTime /\ now' = now + 1
        /\ UNCHANGED <<wallet, subscribed, req, jobs, aborts>>

Next ==
    \/ \E t \in Threads :
          \/ Start(t) \/ CheckEligibility(t) \/ Enqueue(t) \/ Stamp(t) \/ Spend(t)
          \/ Abort(t)
    \/ Resubscribe \/ Tick

Spec == Init /\ [][Next]_vars
-------------------------------------------------------------------------------
(* Properties *)

(* Types of the state: the row, the requests in flight and the jobs pushed. *)
TypeOK ==
    /\ now \in Nat
    /\ wallet \in Row
    /\ subscribed \in BOOLEAN
    /\ req \in [Threads -> Request]
    /\ jobs \in Seq(Job)
    /\ aborts \in Nat

(* Settled by the token: a job without a pass whose bookkeeping is complete. *)
PaidWithToken(j) == j.free /\ j.stage = "done"

(* Whatever the threads do, the token is gone exactly when create_playlist    *)
(* took it for a job it had pushed: nobody loses the token without a job, no  *)
(* pass holder is charged, and no stale wallet gives the token back.          *)
TokenAccounts ==
    wallet.token = "0" <=> \E i \in DOMAIN jobs : PaidWithToken(jobs[i])

(* Whatever the threads do, one thread takes the token at most once: the free *)
(* playlists that races of create_playlist can yield are bounded by the size  *)
(* of Puma's pool.                                                            *)
FreeOncePerThread ==
    \A i, j \in DOMAIN jobs :
        PaidWithToken(jobs[i]) /\ PaidWithToken(jobs[j])
            /\ jobs[i].thread = jobs[j].thread => i = j

(* A spent token is never given back, though update!(timestamp:) saves an     *)
(* object that may still hold the token.                                      *)
SpentStaysSpent == [][wallet.token = "0" => wallet'.token = "0"]_wallet

(* One thread: two jobs are more than a minute apart if the timestamp of the  *)
(* first was written: eligible_for_playlist? compares strictly.               *)
Cooldown ==
    \A i, j \in DOMAIN jobs :
        i < j /\ jobs[i].stage # "pushed" => jobs[j].at - jobs[i].at > Minute

(* The token buys one playlist: no two jobs are pushed without a pass. *)
OneFreePlaylist ==
    \A i, j \in DOMAIN jobs : jobs[i].free /\ jobs[j].free => i = j
===============================================================================
