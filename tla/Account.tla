------------------------------- MODULE Account -------------------------------
(***************************************************************************)
(* Who is signed in, and with whose Spotify data: the rows of `users` with *)
(* their profiles, the session in the browser's cookie, sessions#create    *)
(* and #destroy, and the three places that renew the Spotify data an hour  *)
(* after the profile was written: the filter with SpotifyTokenRefresher,   *)
(* HomeController and StatsController.                                     *)
(*                                                                         *)
(* One browser and concurrent Puma threads; a step is one access to shared *)
(* state and the local computation that follows it. The data Spotify hands *)
(* out (credentials, display name, images) is reduced to the Spotify       *)
(* account it belongs to. The session is a cookie: a request works on the  *)
(* session it came with, and its answer replaces the browser's.            *)
(***************************************************************************)
EXTENDS Integers, Sequences, FiniteSets

CONSTANTS
    Threads,    \* Puma threads
    Accounts,   \* Spotify accounts, by spotify_id
    nil,
    MaxUsers,   \* bound on the rows of `users`
    MaxRequests \* bound on the requests of the browser

ASSUME AccountAssumption ==
    /\ IsFiniteSet(Threads)
    /\ nil \notin Accounts /\ nil \notin Nat
    /\ MaxUsers \in Nat /\ MaxRequests \in Nat

VARIABLES
    users,   \* the rows of `users`, each with its row of `profiles`
    jar,     \* the session in the browser's cookie jar
    req,     \* what each thread is serving
    begun,   \* how many requests were begun
    broken   \* history: a sign-in stopped half way in another account's session

vars == <<users, jar, req, begun, broken>>
-------------------------------------------------------------------------------
(* fresh: profile.updated_at is less than an hour old. *)
User == [spotify_id : Accounts, username : Accounts \cup {nil}, fresh : BOOLEAN]

(* session[:user_id] and session[:spotify_user_data] *)
Cookie == [user : Nat \cup {nil}, data : Accounts \cup {nil}]
SignedOut == [user |-> nil, data |-> nil]

Kinds == {"page", "create_playlist", "stats", "sign_in", "sign_out"}

(* A request: its action, the account of omniauth.auth, its session, the    *)
(* user in memory (@current_user, or the local of sessions#create) with its *)
(* name and the age of its profile, and whether the service failed or the   *)
(* hour ended while it was served.                                          *)
Idle == [pc |-> "idle", kind |-> "page", auth |-> nil, sess |-> SignedOut,
         user |-> nil, name |-> nil, fresh |-> TRUE, excused |-> FALSE]

Steps == {"idle", "filter", "service_user", "service_profile", "action",
          "find", "create", "save_name", "save_profile",
          "home_user", "home_profile", "push", "respond"}

Request == [pc : Steps, kind : Kinds, auth : Accounts \cup {nil}, sess : Cookie,
            user : Nat \cup {nil}, name : Accounts \cup {nil}, fresh : BOOLEAN,
            excused : BOOLEAN]

Init ==
    /\ users = <<>>
    /\ jar = SignedOut
    /\ req = [t \in Threads |-> Idle]
    /\ begun = 0
    /\ broken = FALSE

Finish(t) == req' = [req EXCEPT ![t] = Idle]
Goto(t, pc) == req' = [req EXCEPT ![t] = [@ EXCEPT !.pc = pc]]

(* The action is over; its answer carries the session.                      *)
Answer(t, sess) == req' = [req EXCEPT ![t] = [Idle EXCEPT !.pc = "respond", !.sess = sess]]
-------------------------------------------------------------------------------
(* ApplicationController's filters *)

(* set_current_user *)
Start(t, kind, auth) ==
    /\ req[t].pc = "idle"
    /\ begun < MaxRequests
    /\ begun' = begun + 1
    /\ req' = [req EXCEPT ![t] =
                 [Idle EXCEPT !.pc = IF jar.user = nil THEN "action" ELSE "filter",
                              !.kind = kind, !.auth = auth, !.sess = jar,
                              !.user = jar.user,
                              !.name = IF jar.user = nil THEN nil
                                       ELSE users[jar.user].username]]
    /\ UNCHANGED <<users, jar, broken>>

(* refresh_spotify_access_token, which loads the profile. *)
RefreshSpotifyAccessToken(t) ==
    /\ req[t].pc = "filter"
    /\ LET fresh == users[req[t].user].fresh
       IN  req' = [req EXCEPT ![t] =
                     [@ EXCEPT !.pc = IF fresh THEN "action" ELSE "service_user",
                               !.fresh = fresh]]
    /\ UNCHANGED <<users, jar, begun, broken>>

(* update(username:), which writes only a name that differs from the one    *)
(* read, and goes on to pc.                                                 *)
SaveUsername(t, name, pc) ==
    /\ users' = IF name = req[t].name THEN users
                ELSE [users EXCEPT ![req[t].user] = [@ EXCEPT !.username = name]]
    /\ req' = [req EXCEPT ![t] = [@ EXCEPT !.pc = pc, !.name = name]]
    /\ UNCHANGED <<jar, begun, broken>>

(* profile.update(timestamp:, image:): updated_at is now.                   *)
ProfileSaved(u) == [users EXCEPT ![u] = [@ EXCEPT !.fresh = TRUE]]
SaveProfile(t, pc) ==
    /\ users' = ProfileSaved(req[t].user)
    /\ req' = [req EXCEPT ![t] = [@ EXCEPT !.pc = pc, !.fresh = TRUE]]
    /\ UNCHANGED <<jar, begun, broken>>

(* SpotifyTokenRefresher#call: update_spotify_session_data assigns a        *)
(* variable of the service, the session keeps the old data.                 *)
ServiceUser(t) ==
    /\ req[t].pc = "service_user"
    /\ SaveUsername(t, req[t].sess.data, "service_profile")

(* Mutation: the row is written and the hour is not reset in memory, as     *)
(* with a profile loaded apart.                                             *)
ServiceProfileApart(t) ==
    /\ req[t].pc = "service_profile"
    /\ users' = ProfileSaved(req[t].user)
    /\ Goto(t, "action")
    /\ UNCHANGED <<jar, begun, broken>>

ServiceProfile(t) ==
    /\ req[t].pc = "service_profile"
    /\ SaveProfile(t, "action")

(* Its rescue clauses: an error of RSpotify, or of the database.            *)
ServiceFails(t) ==
    /\ req[t].pc \in {"service_user", "service_profile"}
    /\ req' = [req EXCEPT ![t] = [@ EXCEPT !.pc = "action", !.excused = TRUE]]
    /\ UNCHANGED <<users, jar, begun, broken>>
-------------------------------------------------------------------------------
(* sessions#create and #destroy *)

(* store_spotify_data_in_session *)
StoreSpotifyData(t) ==
    /\ req[t].pc = "action" /\ req[t].kind = "sign_in"
    /\ req' = [req EXCEPT ![t] =
                 [Idle EXCEPT !.pc = "find", !.kind = "sign_in", !.auth = req[t].auth,
                              !.sess = [user |-> req[t].sess.user,
                                        data |-> req[t].auth]]]
    /\ UNCHANGED <<users, jar, begun, broken>>

(* Mutation: no look at the table. *)
FindNobody(t) == req[t].pc = "find" /\ Goto(t, "create")
                 /\ UNCHANGED <<users, jar, begun, broken>>

(* Mutation: whoever has that display name, which is nobody's alone. *)
FindByName(t) ==
    /\ req[t].pc = "find"
    /\ \/ \E u \in DOMAIN users :
             req' = [req EXCEPT ![t] = [@ EXCEPT !.pc = "save_name", !.user = u,
                                                 !.name = users[u].username]]
       \/ Goto(t, "create")
    /\ UNCHANGED <<users, jar, begun, broken>>

(* find_or_create_by's SELECT: any of the rows with that spotify_id, since  *)
(* it has no order.                                                         *)
FindUser(t) ==
    LET found == {u \in DOMAIN users : users[u].spotify_id = req[t].auth}
    IN  /\ req[t].pc = "find"
        /\ \/ \E u \in found :
                req' = [req EXCEPT ![t] = [@ EXCEPT !.pc = "save_name", !.user = u,
                                                    !.name = users[u].username]]
           \/ found = {} /\ Goto(t, "create")
        /\ UNCHANGED <<users, jar, begun, broken>>

(* Mutation: the transaction is rolled back and nobody looks. *)
CreateUserRolledBack(t) ==
    /\ req[t].pc = "create"
    /\ req' = [req EXCEPT ![t] = [@ EXCEPT !.pc = "save_name",
                                           !.user = Len(users) + 1, !.name = nil]]
    /\ UNCHANGED <<users, jar, begun, broken>>

(* Its INSERT, in one transaction with the rows of after_create.            *)
CreateUser(t) ==
    /\ req[t].pc = "create"
    /\ Len(users) < MaxUsers
    /\ users' = Append(users, [spotify_id |-> req[t].auth, username |-> nil,
                               fresh |-> TRUE])
    /\ req' = [req EXCEPT ![t] = [@ EXCEPT !.pc = "save_name",
                                           !.user = Len(users) + 1, !.name = nil]]
    /\ UNCHANGED <<jar, begun, broken>>

SignInName(t) ==
    /\ req[t].pc = "save_name"
    /\ SaveUsername(t, req[t].auth, "save_profile")

(* update_user_profile!, then start_user_session. *)
SignInProfile(t) ==
    /\ req[t].pc = "save_profile"
    /\ users' = ProfileSaved(req[t].user)
    /\ Answer(t, [user |-> req[t].user, data |-> req[t].sess.data])
    /\ UNCHANGED <<jar, begun, broken>>

(* The rescue of create: the session is sent as it is by then.              *)
SignInFails(t) ==
    /\ req[t].pc \in {"find", "create", "save_name", "save_profile"}
    /\ Answer(t, req[t].sess)
    /\ broken' = (broken \/ LET u == req[t].sess.user
                            IN  u # nil /\ users[u].spotify_id # req[t].auth)
    /\ UNCHANGED <<users, jar, begun>>

(* reset_session *)
SignOut(t) ==
    /\ req[t].pc = "action" /\ req[t].kind = "sign_out"
    /\ Answer(t, SignedOut)
    /\ UNCHANGED <<users, jar, begun, broken>>
-------------------------------------------------------------------------------
(* The other actions *)

(* home#index and the like; with no session[:user_id], the redirects of     *)
(* authenticate_user and ensure_logged_in; a stats page within the hour.    *)
Render(t) ==
    /\ req[t].pc = "action"
    /\ \/ req[t].kind = "page"
       \/ req[t].kind \in {"create_playlist", "stats"} /\ req[t].sess.user = nil
       \/ req[t].kind = "stats" /\ req[t].fresh
    /\ Answer(t, req[t].sess)
    /\ UNCHANGED <<users, jar, begun, broken>>

(* HomeController#refresh_access_token: the session is written here, with   *)
(* data made from the data it holds.                                        *)
RefreshAccessToken(t) ==
    /\ req[t].pc = "action" /\ req[t].kind = "create_playlist"
    /\ req[t].sess.user # nil
    /\ Goto(t, IF req[t].fresh THEN "push" ELSE "home_user")
    /\ UNCHANGED <<users, jar, begun, broken>>

HomeUser(t) == req[t].pc = "home_user" /\ SaveUsername(t, req[t].sess.data, "home_profile")
HomeProfile(t) == req[t].pc = "home_profile" /\ SaveProfile(t, "push")

(* create_playlist_worker, with the session's data and @current_user.id;    *)
(* whether the user is eligible is module Wallet's business.                *)
Push(t) ==
    /\ req[t].pc = "push"
    /\ Answer(t, req[t].sess)
    /\ UNCHANGED <<users, jar, begun, broken>>

(* An exception outside the rescues, or an answer that never arrives: the   *)
(* cookie is not sent. StatsController's own refresh always ends here:      *)
(* update_user_profile names a variable of another method.                  *)
Raise(t) ==
    /\ req[t].pc \in {"filter", "action", "home_user", "home_profile", "push", "respond"}
    /\ Finish(t)
    /\ UNCHANGED <<users, jar, begun, broken>>

(* The answer with its cookie reaches the browser, in any order. *)
Respond(t) ==
    /\ req[t].pc = "respond"
    /\ jar' = req[t].sess
    /\ Finish(t)
    /\ UNCHANGED <<users, begun, broken>>

(* An hour after they were written, profiles are old in the table and in    *)
(* memory; only these two controllers look at them again.                   *)
HourPasses ==
    /\ users' = [u \in DOMAIN users |-> [users[u] EXCEPT !.fresh = FALSE]]
    /\ req' = [t \in Threads |->
                 IF req[t].kind \in {"create_playlist", "stats"}
                 THEN [req[t] EXCEPT !.fresh = FALSE, !.excused = TRUE]
                 ELSE req[t]]
    /\ UNCHANGED <<jar, begun, broken>>
-------------------------------------------------------------------------------
Begin(t) ==
    \/ \E kind \in Kinds \ {"sign_in"} : Start(t, kind, nil)
    \/ \E a \in Accounts : Start(t, "sign_in", a)

Serve(t) ==
    \/ RefreshSpotifyAccessToken(t)
    \/ ServiceUser(t) \/ ServiceProfile(t) \/ ServiceFails(t)
    \/ StoreSpotifyData(t) \/ FindUser(t) \/ CreateUser(t)
    \/ SignInName(t) \/ SignInProfile(t) \/ SignInFails(t)
    \/ SignOut(t) \/ Render(t)
    \/ RefreshAccessToken(t) \/ HomeUser(t) \/ HomeProfile(t) \/ Push(t)
    \/ Respond(t) \/ Raise(t)

Next == (\E t \in Threads : Begin(t) \/ Serve(t)) \/ HourPasses

Spec == Init /\ [][Next]_vars
-------------------------------------------------------------------------------
(* Types of the rows, the cookie and the requests; a user in a session or   *)
(* in memory is a row of the table, as set_current_user relies on.          *)
TypeOK ==
    /\ users \in Seq(User)
    /\ jar \in Cookie
    /\ req \in [Threads -> Request]
    /\ begun \in Nat
    /\ broken \in BOOLEAN
    /\ \A u \in {jar.user} \cup {req[t].user : t \in Threads}
                \cup {req[t].sess.user : t \in Threads} : u \in DOMAIN users \cup {nil}

(* find_or_create_by has no unique index behind it and callbacks that race  *)
(* create a user twice; each thread adds one at most, since it looks first: *)
(* an account has no more users than Puma has threads.                      *)
DuplicatesBounded ==
    \A a \in Accounts :
        Cardinality({u \in DOMAIN users : users[u].spotify_id = a})
            <= Cardinality(Threads)

Own(u, data) == u # nil => users[u].spotify_id = data

(* The cookie, the jobs and the names never mix two Spotify accounts: the   *)
(* data in the cookie is that of its user, a job is pushed with the data of *)
(* the user it is charged to, and no user gets another account's name. The  *)
(* one way to mix them is a sign-in that replaces session[:spotify_user_data] *)
(* of a session that belongs to another account and fails before it         *)
(* replaces session[:user_id].                                              *)
AccountsApart ==
    ~ broken =>
        /\ Own(jar.user, jar.data)
        /\ \A t \in Threads :
              req[t].pc = "push" => Own(req[t].user, req[t].sess.data)
        /\ \A u \in DOMAIN users : users[u].username \in {nil, users[u].spotify_id}

(* The refresh that writes the session, home_controller.rb's, runs only in a *)
(* request whose SpotifyTokenRefresher failed, or during which the hour     *)
(* ended: when the service succeeds it resets the hour first and the        *)
(* session keeps its old data.                                              *)
ServiceShadowsHome ==
    \A t \in Threads : req[t].pc \in {"home_user", "home_profile"} => req[t].excused
===============================================================================
