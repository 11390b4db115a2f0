---------------------------- MODULE AccountProofs ----------------------------
(***************************************************************************)
(* Accounts stay apart and duplicates stay few for every number of threads,*)
(* accounts, users and requests.                                           *)
(***************************************************************************)
EXTENDS Account, SequenceTheorems, FiniteSetTheorems, TLAPS

Rows == DOMAIN users
SigningIn == {"find", "create", "save_name", "save_profile"}
SignedIn == {"filter", "service_user", "service_profile", "home_user", "home_profile", "push"}

(* What the program point of a request says about its user and its session. *)
Placed(r) ==
    /\ r \in Request
    /\ r.user \in Rows \cup {nil} /\ r.sess.user \in Rows \cup {nil}
    /\ r.kind = "sign_in" => r.auth \in Accounts
    /\ r.pc \in SigningIn => r.auth \in Accounts /\ r.sess.data = r.auth
    /\ r.pc \in {"save_name", "save_profile"} =>
          r.user # nil /\ users[r.user].spotify_id = r.auth
    /\ r.pc \in SignedIn => r.user # nil
    /\ r.pc \in SignedIn \cup {"action"} => r.user = r.sess.user

(* The session of a request that is not half way through a sign-in. *)
Mine(r) == ~ broken => (r.pc \in SigningIn \/ Own(r.sess.user, r.sess.data))

(* A request that has passed the filters has a fresh profile or an excuse. *)
Excused(r) ==
    /\ r.pc = "action" => r.fresh \/ r.excused
    /\ r.pc \in {"home_user", "home_profile"} => r.excused

JarOK == /\ jar \in Cookie /\ jar.user \in Rows \cup {nil}
         /\ ~ broken => Own(jar.user, jar.data)

NamesOK == ~ broken => \A u \in Rows : users[u].username \in {nil, users[u].spotify_id}

(* The rows of an account, and the threads about to add one to them. *)
Of(a) == {u \in Rows : users[u].spotify_id = a}
Creating(a) == {t \in Threads : req[t].pc = "create" /\ req[t].auth = a}
Room == \A a \in Accounts :
           Cardinality(Of(a)) + Cardinality(Creating(a)) <= Cardinality(Threads)

Base == /\ users \in Seq(User) /\ begun \in Nat /\ broken \in BOOLEAN
        /\ req \in [Threads -> Request]

IInv ==
    /\ Base /\ JarOK /\ NamesOK
    /\ \A t \in Threads : Placed(req[t]) /\ Mine(req[t]) /\ Excused(req[t])
-------------------------------------------------------------------------------
(* The table only grows, and a row keeps its account. *)
Grows ==
    /\ users' \in Seq(User)
    /\ Rows \subseteq Rows'
    /\ \A u \in Rows : users'[u].spotify_id = users[u].spotify_id

(* What was a row's account stays it. *)
LEMMA OwnStays ==
  ASSUME Grows, NEW u \in Rows \cup {nil}, NEW data, Own(u, data)
  PROVE  Own(u, data)'
  BY DEF Grows, Own

(* A step of one thread leaves what is known of the others. *)
LEMMA OthersStay ==
  ASSUME Grows, broken \in BOOLEAN, broken => broken',
         NEW r, Placed(r), Mine(r), Excused(r),
         NEW s, req'[s] = r
  PROVE  Placed(req[s])' /\ Mine(req[s])' /\ Excused(req[s])'
  <1>1. Placed(req[s])'
    BY AccountAssumption DEF Placed, Grows
  <1>2. Mine(req[s])'
    <2>1. SUFFICES ASSUME ~ broken', r.pc \notin SigningIn
                   PROVE  Own(r.sess.user, r.sess.data)'
      BY DEF Mine
    <2>2. Own(r.sess.user, r.sess.data)
      BY <2>1 DEF Mine
    <2> QED BY <2>2, OwnStays DEF Placed
  <1>3. Excused(req[s])'
    BY DEF Excused
  <1> QED BY <1>1, <1>2, <1>3

(* A step of thread t that leaves the jar alone, or puts a session that is  *)
(* in order into it, keeps the invariant if t's own request stays in order. *)
LEMMA ThreadStep ==
  ASSUME IInv, NEW t \in Threads, NEW r,
         Grows, NamesOK', broken' \in BOOLEAN, broken => broken', begun' \in Nat,
         req' = [req EXCEPT ![t] = r],
         Placed(req[t])', Mine(req[t])', Excused(req[t])',
         JarOK'
  PROVE  IInv'
  <1>1. req'[t] = r /\ r \in Request
    BY DEF IInv, Base, Placed
  <1>2. Base'
    BY <1>1 DEF IInv, Base, Grows
  <1>3. ASSUME NEW s \in Threads
        PROVE  Placed(req[s])' /\ Mine(req[s])' /\ Excused(req[s])'
    <2>1. CASE s = t
      BY <2>1
    <2>2. CASE s # t
      <3>1. req'[s] = req[s]
        BY <2>2 DEF IInv, Base
      <3> QED BY <3>1, OthersStay DEF IInv, Base
    <2> QED BY <2>1, <2>2
  <1> QED BY <1>2, <1>3 DEF IInv

(* The jar, if it is left alone. *)
LEMMA JarStays ==
  ASSUME IInv, Grows, jar' = jar, broken => broken'
  PROVE  JarOK'
  BY DEF IInv, JarOK, Grows, Own

(* The table, if it is left alone. *)
LEMMA SameTable ==
  ASSUME IInv, users' = users, broken => broken'
  PROVE  Grows /\ NamesOK'
  BY DEF IInv, Base, Grows, NamesOK, Rows
-------------------------------------------------------------------------------
(* The state of a thread that serves nothing. *)
LEMMA IdleRequest ==
  /\ Idle \in Request
  /\ SignedOut \in Cookie
  BY DEF Idle, Request, Steps, Kinds, Cookie, SignedOut

(* A thread that is done, or answers with a session in order. *)
LEMMA IdleOK ==
  ASSUME NEW r, r = Idle
  PROVE  Placed(r) /\ Mine(r) /\ Excused(r)
  BY IdleRequest DEF Idle, Placed, Mine, Excused, Own, SignedOut, SigningIn, SignedIn

(* The first state. *)
LEMMA InitIInv == Init => IInv
  <1> SUFFICES ASSUME Init PROVE IInv
    OBVIOUS
  <1>0. Idle \in Request
    BY IdleRequest
  <1>1. Base
    <2>1. users \in Seq(User)
      BY EmptySeq DEF Init
    <2>2. broken \in BOOLEAN
      BY DEF Init
    <2> QED BY <1>0, <2>1, <2>2 DEF Init, Base
  <1>2. JarOK /\ NamesOK
    BY IdleRequest DEF Init, JarOK, NamesOK, Own, SignedOut, Rows
  <1>3. ASSUME NEW t \in Threads PROVE Placed(req[t]) /\ Mine(req[t]) /\ Excused(req[t])
    BY IdleOK DEF Init
  <1> QED BY <1>1, <1>2, <1>3 DEF IInv

(* What a row holds. *)
LEMMA RowTyped ==
  ASSUME IInv, NEW u \in Rows
  PROVE  /\ users[u] \in User
         /\ users[u].spotify_id \in Accounts
         /\ users[u].username \in Accounts \cup {nil}
         /\ users[u].fresh \in BOOLEAN
  <1>1. users[u] \in User
    BY ElementOfSeq, LenProperties DEF IInv, Base, Rows
  <1> QED BY <1>1 DEF User

(* One name written to one row, the one of its own account. *)
LEMMA NameWritten ==
  ASSUME IInv, NEW u \in Rows, NEW name \in Accounts \cup {nil},
         ~ broken => name = users[u].spotify_id,
         users' = [users EXCEPT ![u] = [@ EXCEPT !.username = name]],
         broken' = broken
  PROVE  Grows /\ NamesOK'
  <1>1. users \in Seq(User) /\ users[u] \in User
    BY RowTyped DEF IInv, Base
  <1>2. [users[u] EXCEPT !.username = name] \in User
    BY <1>1 DEF User
  <1>3. u \in 1..Len(users) /\ Rows = 1..Len(users)
    BY <1>1, LenProperties DEF Rows
  <1>4. users' \in Seq(User) /\ Len(users') = Len(users)
    BY <1>1, <1>2, <1>3, ExceptSeq
  <1>5. Rows' = Rows
    BY <1>4, <1>3, LenProperties DEF Rows
  <1>6. \A v \in Rows : users'[v] = IF v = u THEN [users[u] EXCEPT !.username = name]
                                          ELSE users[v]
    BY <1>1, <1>3
  <1>7. \A v \in Rows : users'[v].spotify_id = users[v].spotify_id
    BY <1>6, <1>1, <1>2 DEF User
  <1>8. users'[u].username = name
    BY <1>6, <1>1 DEF User
  <1>9. NamesOK'
    BY <1>5, <1>6, <1>7, <1>8 DEF IInv, NamesOK
  <1> QED BY <1>4, <1>5, <1>7, <1>9 DEF Grows

(* One profile written. *)
LEMMA ProfileWritten ==
  ASSUME IInv, NEW u \in Rows, users' = ProfileSaved(u), broken' = broken
  PROVE  Grows /\ NamesOK'
  <1>1. users \in Seq(User) /\ users[u] \in User
    BY RowTyped DEF IInv, Base
  <1>2. [users[u] EXCEPT !.fresh = TRUE] \in User
    BY <1>1 DEF User
  <1>3. u \in 1..Len(users) /\ Rows = 1..Len(users)
    BY <1>1, LenProperties DEF Rows
  <1>4. users' \in Seq(User) /\ Len(users') = Len(users)
    BY <1>1, <1>2, <1>3, ExceptSeq DEF ProfileSaved
  <1>5. Rows' = Rows
    BY <1>4, <1>3, LenProperties DEF Rows
  <1>6. \A v \in Rows : users'[v] = IF v = u THEN [users[u] EXCEPT !.fresh = TRUE]
                                          ELSE users[v]
    BY <1>1, <1>3 DEF ProfileSaved
  <1>7. \A v \in Rows : /\ users'[v].spotify_id = users[v].spotify_id
                        /\ users'[v].username = users[v].username
    BY <1>6, <1>1, <1>2 DEF User
  <1>9. NamesOK'
    BY <1>5, <1>7 DEF IInv, NamesOK
  <1> QED BY <1>4, <1>5, <1>7, <1>9 DEF Grows

(* One row added. *)
LEMMA RowAdded ==
  ASSUME IInv, NEW a \in Accounts,
         users' = Append(users, [spotify_id |-> a, username |-> nil, fresh |-> TRUE]),
         broken' = broken
  PROVE  /\ Grows /\ NamesOK'
         /\ Rows' = Rows \cup {Len(users) + 1} /\ Len(users) + 1 \notin Rows
         /\ Len(users) \in Nat
         /\ users'[Len(users) + 1].spotify_id = a
  <1> DEFINE row == [spotify_id |-> a, username |-> nil, fresh |-> TRUE]
  <1>1. users \in Seq(User) /\ row \in User
    BY DEF IInv, Base, User
  <1>2. Len(users) \in Nat /\ Rows = 1..Len(users)
    BY <1>1, LenProperties DEF Rows
  <1>3. users' \in Seq(User) /\ Len(users') = Len(users) + 1
    BY <1>1
  <1>4. Rows' = 1..(Len(users) + 1)
    BY <1>3, LenProperties DEF Rows
  <1>5. \A v \in Rows : users'[v] = users[v]
    BY <1>1, <1>2
  <1>6. users'[Len(users) + 1] = row
    BY <1>1
  <1>7. NamesOK'
    BY <1>2, <1>4, <1>5, <1>6 DEF IInv, NamesOK
  <1> QED BY <1>2, <1>3, <1>4, <1>5, <1>6, <1>7 DEF Grows
-------------------------------------------------------------------------------
(* The user in the memory of a thread is a row. *)
LEMMA UserIsRow ==
  ASSUME IInv, NEW t \in Threads,
         req[t].pc \in SignedIn \cup {"save_name", "save_profile"}
  PROVE  req[t].user \in Rows
  BY DEF IInv, Placed

(* A step of thread t that leaves the jar alone. *)
LEMMA StepOK ==
  ASSUME IInv, NEW t \in Threads, NEW r,
         Grows, NamesOK', jar' = jar, broken' = broken, begun' \in Nat,
         req' = [req EXCEPT ![t] = r],
         Placed(r), Mine(r), Excused(r)
  PROVE  IInv'
  <1>1. req'[t] = r /\ broken \in BOOLEAN
    BY DEF IInv, Base
  <1>2. JarOK'
    BY JarStays
  <1>3. Placed(req[t])' /\ Mine(req[t])' /\ Excused(req[t])'
    BY <1>1, OthersStay
  <1> QED BY <1>1, <1>2, <1>3, ThreadStep

(* A step of thread t that reads and computes. *)
LEMMA LocalStep ==
  ASSUME IInv, NEW t \in Threads, NEW r, UNCHANGED <<users, jar, begun, broken>>,
         req' = [req EXCEPT ![t] = r],
         Placed(r), Mine(r), Excused(r)
  PROVE  IInv'
  <1>1. Grows /\ NamesOK' /\ begun' \in Nat
    BY SameTable DEF IInv, Base
  <1> QED BY <1>1, StepOK

(* What the invariant says of thread t. *)
LEMMA OfThread ==
  ASSUME IInv, NEW t \in Threads
  PROVE  Placed(req[t]) /\ Mine(req[t]) /\ Excused(req[t]) /\ req[t] \in Request
  BY DEF IInv, Base
-------------------------------------------------------------------------------
(* set_current_user: the request takes the session of the jar. *)
LEMMA StartOK ==
  ASSUME IInv, NEW t \in Threads, NEW kind \in Kinds, NEW auth \in Accounts \cup {nil},
         kind = "sign_in" => auth \in Accounts, Start(t, kind, auth)
  PROVE  IInv'
  <1> DEFINE r == [Idle EXCEPT !.pc = IF jar.user = nil THEN "action" ELSE "filter",
                              !.kind = kind, !.auth = auth, !.sess = jar,
                              !.user = jar.user,
                              !.name = IF jar.user = nil THEN nil
                                       ELSE users[jar.user].username]
  <1>1. req' = [req EXCEPT ![t] = r] /\ UNCHANGED <<users, jar, broken>> /\ begun' \in Nat
    BY DEF Start, IInv, Base
  <1>3. jar.user # nil => users[jar.user].username \in Accounts \cup {nil}
    BY RowTyped DEF IInv, JarOK
  <1>4. r \in Request
    BY <1>3 DEF IInv, JarOK, Idle, Request, Steps, Kinds, Cookie
  <1>5. Placed(r) /\ Mine(r) /\ Excused(r)
    BY <1>4 DEF IInv, JarOK, Placed, Mine, Excused, Idle, SigningIn, SignedIn
  <1>6. Grows /\ NamesOK'
    BY <1>1, SameTable
  <1> HIDE DEF r
  <1> QED BY <1>1, <1>5, <1>6, StepOK

(* The filter: a profile that is fresh leads to the action. *)
LEMMA RefreshSpotifyAccessTokenOK ==
  ASSUME IInv, NEW t \in Threads, RefreshSpotifyAccessToken(t)
  PROVE  IInv'
  <1> DEFINE fresh == users[req[t].user].fresh
             r == [req[t] EXCEPT !.pc = IF fresh THEN "action" ELSE "service_user",
                                 !.fresh = fresh]
  <1>1. req' = [req EXCEPT ![t] = r] /\ UNCHANGED <<users, jar, begun, broken>>
    BY DEF RefreshSpotifyAccessToken
  <1>2. req[t].pc = "filter" /\ fresh \in BOOLEAN
    BY UserIsRow, RowTyped DEF RefreshSpotifyAccessToken, SignedIn
  <1>3. Placed(r) /\ Mine(r) /\ Excused(r)
    BY <1>2, OfThread DEF Placed, Mine, Excused, SigningIn, SignedIn, Request, Steps
  <1> HIDE DEF r
  <1> QED BY <1>1, <1>3, LocalStep

(* The names that are written belong to the account of the row.             *)
LEMMA SaveUsernameOK ==
  ASSUME IInv, NEW t \in Threads, NEW name \in Accounts \cup {nil}, NEW pc,
         req[t].user \in Rows,
         ~ broken => name = users[req[t].user].spotify_id,
         SaveUsername(t, name, pc),
         LET r == [req[t] EXCEPT !.pc = pc, !.name = name]
         IN  Placed(r) /\ Mine(r) /\ Excused(r)
  PROVE  IInv'
  <1> DEFINE r == [req[t] EXCEPT !.pc = pc, !.name = name]
  <1>1. /\ req' = [req EXCEPT ![t] = r] /\ jar' = jar /\ broken' = broken /\ begun' \in Nat
        /\ Placed(r) /\ Mine(r) /\ Excused(r)
    BY DEF SaveUsername, IInv, Base
  <1>2. Grows /\ NamesOK'
    <2>1. CASE users' = users
      BY <1>1, <2>1, SameTable
    <2>2. CASE users' = [users EXCEPT ![req[t].user] = [@ EXCEPT !.username = name]]
      BY <1>1, <2>2, NameWritten
    <2> QED BY <2>1, <2>2 DEF SaveUsername
  <1> HIDE DEF r
  <1> QED BY <1>1, <1>2, StepOK

(* A user who is signed in has data of the same account.                    *)
LEMMA SessionOwn ==
  ASSUME IInv, NEW t \in Threads, req[t].pc \in SignedIn, ~ broken
  PROVE  req[t].sess.data = users[req[t].user].spotify_id
  BY OfThread DEF Placed, Mine, Own, SignedIn, SigningIn

(* The service writes the name in the session's data. *)
LEMMA ServiceUserOK ==
  ASSUME IInv, NEW t \in Threads, ServiceUser(t)
  PROVE  IInv'
  <1> DEFINE r == [req[t] EXCEPT !.pc = "service_profile", !.name = req[t].sess.data]
  <1>1. req[t].pc = "service_user" /\ SaveUsername(t, req[t].sess.data, "service_profile")
    BY DEF ServiceUser
  <1>2. req[t].pc \in SignedIn
    BY <1>1 DEF SignedIn
  <1>3. req[t].user \in Rows /\ (~ broken => req[t].sess.data = users[req[t].user].spotify_id)
    BY <1>2, UserIsRow, SessionOwn
  <1>4. req[t].sess.data \in Accounts \cup {nil}
    BY OfThread DEF Request, Cookie
  <1>5. Placed(r) /\ Mine(r) /\ Excused(r)
    BY <1>1, <1>4, OfThread DEF Placed, Mine, Excused, SigningIn, SignedIn, Request, Steps
  <1> QED BY <1>1, <1>3, <1>4, <1>5, SaveUsernameOK

(* So does HomeController. *)
LEMMA HomeUserOK ==
  ASSUME IInv, NEW t \in Threads, HomeUser(t)
  PROVE  IInv'
  <1> DEFINE r == [req[t] EXCEPT !.pc = "home_profile", !.name = req[t].sess.data]
  <1>1. req[t].pc = "home_user" /\ SaveUsername(t, req[t].sess.data, "home_profile")
    BY DEF HomeUser
  <1>2. req[t].pc \in SignedIn
    BY <1>1 DEF SignedIn
  <1>3. req[t].user \in Rows /\ (~ broken => req[t].sess.data = users[req[t].user].spotify_id)
    BY <1>2, UserIsRow, SessionOwn
  <1>4. req[t].sess.data \in Accounts \cup {nil}
    BY OfThread DEF Request, Cookie
  <1>5. Placed(r) /\ Mine(r) /\ Excused(r)
    BY <1>1, <1>4, OfThread DEF Placed, Mine, Excused, SigningIn, SignedIn, Request, Steps
  <1> QED BY <1>1, <1>3, <1>4, <1>5, SaveUsernameOK

(* sessions#create writes the name of the account that signs in. *)
LEMMA SignInNameOK ==
  ASSUME IInv, NEW t \in Threads, SignInName(t)
  PROVE  IInv'
  <1> DEFINE r == [req[t] EXCEPT !.pc = "save_profile", !.name = req[t].auth]
  <1>1. req[t].pc = "save_name" /\ SaveUsername(t, req[t].auth, "save_profile")
    BY DEF SignInName
  <1>2. /\ req[t].user \in Rows /\ req[t].auth \in Accounts \cup {nil}
        /\ req[t].auth = users[req[t].user].spotify_id
    BY <1>1, OfThread, UserIsRow DEF Placed, SigningIn
  <1>3. Placed(r) /\ Mine(r) /\ Excused(r)
    BY <1>1, <1>2, OfThread DEF Placed, Mine, Excused, SigningIn, SignedIn, Request, Steps
  <1> QED BY <1>1, <1>2, <1>3, SaveUsernameOK

(* The two refreshes that save the profile.                                 *)
LEMMA SaveProfileOK ==
  ASSUME IInv, NEW t \in Threads, NEW pc \in {"action", "push"},
         req[t].pc \in {"service_profile", "home_profile"}, SaveProfile(t, pc)
  PROVE  IInv'
  <1> DEFINE r == [req[t] EXCEPT !.pc = pc, !.fresh = TRUE]
  <1>1. req' = [req EXCEPT ![t] = r] /\ jar' = jar /\ broken' = broken /\ begun' \in Nat
    BY DEF SaveProfile, IInv, Base
  <1>2. req[t].user \in Rows
    BY UserIsRow DEF SignedIn
  <1>3. Grows /\ NamesOK'
    BY <1>1, <1>2, ProfileWritten DEF SaveProfile
  <1>4. Placed(r) /\ Mine(r) /\ Excused(r)
    BY OfThread DEF Placed, Mine, Excused, SigningIn, SignedIn, Request, Steps
  <1> HIDE DEF r
  <1> QED BY <1>1, <1>3, <1>4, StepOK

(* A service that fails is the excuse. *)
LEMMA ServiceFailsOK ==
  ASSUME IInv, NEW t \in Threads, ServiceFails(t)
  PROVE  IInv'
  <1> DEFINE r == [req[t] EXCEPT !.pc = "action", !.excused = TRUE]
  <1>1. req' = [req EXCEPT ![t] = r] /\ UNCHANGED <<users, jar, begun, broken>>
    BY DEF ServiceFails
  <1>2. Placed(r) /\ Mine(r) /\ Excused(r)
    BY OfThread DEF ServiceFails, Placed, Mine, Excused, SigningIn, SignedIn, Request, Steps
  <1> HIDE DEF r
  <1> QED BY <1>1, <1>2, LocalStep
-------------------------------------------------------------------------------
(* sessions#create and #destroy *)

(* An answer with a session in order. *)
LEMMA AnswerOK ==
  ASSUME IInv, NEW sess \in Cookie, sess.user \in Rows \cup {nil},
         ~ broken => Own(sess.user, sess.data),
         NEW r, r = [Idle EXCEPT !.pc = "respond", !.sess = sess]
  PROVE  Placed(r) /\ Mine(r) /\ Excused(r)
  BY IdleRequest DEF Placed, Mine, Excused, SigningIn, SignedIn, Idle, Request, Steps

(* From here on the session's data is that of omniauth.auth. *)
LEMMA StoreSpotifyDataOK ==
  ASSUME IInv, NEW t \in Threads, StoreSpotifyData(t)
  PROVE  IInv'
  <1> DEFINE sess == [user |-> req[t].sess.user, data |-> req[t].auth]
             r == [Idle EXCEPT !.pc = "find", !.kind = "sign_in", !.auth = req[t].auth,
                               !.sess = sess]
  <1>1. req' = [req EXCEPT ![t] = r] /\ UNCHANGED <<users, jar, begun, broken>>
    BY DEF StoreSpotifyData
  <1>2. req[t].auth \in Accounts /\ req[t].sess.user \in Rows \cup {nil}
    BY OfThread DEF StoreSpotifyData, Placed
  <1>3. sess \in Cookie
    BY <1>2, OfThread DEF Request, Cookie
  <1>4. Placed(r) /\ Mine(r) /\ Excused(r)
    BY <1>2, <1>3, IdleRequest
       DEF Placed, Mine, Excused, SigningIn, SignedIn, Idle, Request, Steps, Kinds
  <1> HIDE DEF r
  <1> QED BY <1>1, <1>4, LocalStep

(* The row that is found is one of the account that signs in. *)
LEMMA FindUserOK ==
  ASSUME IInv, NEW t \in Threads, FindUser(t)
  PROVE  IInv'
  <1>1. req[t].pc = "find" /\ UNCHANGED <<users, jar, begun, broken>>
    BY DEF FindUser
  <1>2. CASE \E u \in DOMAIN users :
               /\ users[u].spotify_id = req[t].auth
               /\ req' = [req EXCEPT ![t] = [@ EXCEPT !.pc = "save_name", !.user = u,
                                                      !.name = users[u].username]]
    <2>1. PICK u \in DOMAIN users :
               /\ users[u].spotify_id = req[t].auth
               /\ req' = [req EXCEPT ![t] = [@ EXCEPT !.pc = "save_name", !.user = u,
                                                      !.name = users[u].username]]
      BY <1>2
    <2> DEFINE r == [req[t] EXCEPT !.pc = "save_name", !.user = u,
                                   !.name = users[u].username]
    <2>2. req' = [req EXCEPT ![t] = r]
      BY <2>1
    <2>3. u \in Rows /\ u \in Nat /\ users[u].username \in Accounts \cup {nil}
      BY RowTyped, LenProperties DEF Rows, IInv, Base
    <2>4. Placed(r) /\ Mine(r) /\ Excused(r)
      BY <1>1, <2>1, <2>3, OfThread, AccountAssumption
         DEF Placed, Mine, Excused, SigningIn, SignedIn, Request, Steps
    <2> HIDE DEF r
    <2> QED BY <1>1, <2>2, <2>4, LocalStep
  <1>3. CASE Goto(t, "create")
    <2> DEFINE r == [req[t] EXCEPT !.pc = "create"]
    <2>1. req' = [req EXCEPT ![t] = r]
      BY <1>3 DEF Goto
    <2>2. Placed(r) /\ Mine(r) /\ Excused(r)
      BY <1>1, OfThread DEF Placed, Mine, Excused, SigningIn, SignedIn, Request, Steps
    <2> HIDE DEF r
    <2> QED BY <1>1, <2>1, <2>2, LocalStep
  <1> QED BY <1>2, <1>3 DEF FindUser

(* So is the row that is created. *)
LEMMA CreateUserOK ==
  ASSUME IInv, NEW t \in Threads, CreateUser(t)
  PROVE  IInv'
  <1> DEFINE r == [req[t] EXCEPT !.pc = "save_name", !.user = Len(users) + 1, !.name = nil]
  <1>1. /\ req' = [req EXCEPT ![t] = r] /\ jar' = jar /\ broken' = broken /\ begun' \in Nat
        /\ req[t].pc = "create"
        /\ users' = Append(users, [spotify_id |-> req[t].auth, username |-> nil,
                                   fresh |-> TRUE])
    BY DEF CreateUser, IInv, Base
  <1>2. req[t].auth \in Accounts
    BY <1>1, OfThread DEF Placed, SigningIn
  <1>3. /\ Grows /\ NamesOK' /\ Rows' = Rows \cup {Len(users) + 1}
        /\ Len(users) \in Nat /\ users'[Len(users) + 1].spotify_id = req[t].auth
    BY <1>1, <1>2, RowAdded
  <1>4. req'[t] = r /\ r \in Request
    <2>1. Len(users) + 1 \in Nat
      BY <1>3
    <2>2. r \in Request
      BY <2>1, OfThread DEF Request, Steps
    <2> QED BY <1>1, <2>2 DEF IInv, Base
  <1>5. Placed(req[t])' /\ Mine(req[t])' /\ Excused(req[t])'
    BY <1>1, <1>2, <1>3, <1>4, OfThread, AccountAssumption
       DEF Placed, Mine, Excused, SigningIn, SignedIn
  <1>6. JarOK'
    BY <1>1, <1>3, JarStays
  <1>7. broken' \in BOOLEAN
    BY <1>1 DEF IInv, Base
  <1> HIDE DEF r
  <1> QED BY <1>1, <1>3, <1>5, <1>6, <1>7, ThreadStep

(* session[:user_id] is set to that row. *)
LEMMA SignInProfileOK ==
  ASSUME IInv, NEW t \in Threads, SignInProfile(t)
  PROVE  IInv'
  <1> DEFINE sess == [user |-> req[t].user, data |-> req[t].sess.data]
             r == [Idle EXCEPT !.pc = "respond", !.sess = sess]
  <1>1. /\ req' = [req EXCEPT ![t] = r] /\ jar' = jar /\ broken' = broken /\ begun' \in Nat
        /\ req[t].pc = "save_profile" /\ users' = ProfileSaved(req[t].user)
    BY DEF SignInProfile, Answer, IInv, Base
  <1>2. req[t].user \in Rows
    BY <1>1, UserIsRow
  <1>3. Grows /\ NamesOK'
    BY <1>1, <1>2, ProfileWritten
  <1>4. sess \in Cookie /\ Own(sess.user, sess.data)
    BY <1>1, OfThread DEF Placed, SigningIn, Own, Request, Cookie
  <1>5. Placed(r) /\ Mine(r) /\ Excused(r)
    BY <1>2, <1>4, AnswerOK
  <1> HIDE DEF r
  <1> QED BY <1>1, <1>3, <1>5, StepOK

(* The session of a sign-in that fails over another account's is marked.    *)
LEMMA SignInFailsOK ==
  ASSUME IInv, NEW t \in Threads, SignInFails(t)
  PROVE  IInv'
  <1> DEFINE u == req[t].sess.user
             r == [Idle EXCEPT !.pc = "respond", !.sess = req[t].sess]
  <1>1. /\ req' = [req EXCEPT ![t] = r] /\ jar' = jar /\ users' = users /\ begun' \in Nat
        /\ req[t].pc \in SigningIn
        /\ broken' = (broken \/ (u # nil /\ users[u].spotify_id # req[t].auth))
    BY DEF SignInFails, Answer, IInv, Base, SigningIn
  <1>2. broken' \in BOOLEAN /\ (broken => broken')
    BY <1>1 DEF IInv, Base
  <1>3. Grows /\ NamesOK'
    BY <1>1, <1>2, SameTable
  <1>4. JarOK'
    BY <1>1, <1>2, <1>3, JarStays
  <1>5. u \in Rows \cup {nil} /\ req[t].sess \in Cookie /\ req[t].sess.data = req[t].auth
    BY <1>1, OfThread DEF Placed, Request
  <1>6. ~ broken' => Own(u, req[t].sess.data)
    BY <1>1, <1>5 DEF Own
  <1>7. r \in Request /\ req'[t] = r
    BY <1>1, <1>5, IdleRequest DEF IInv, Base, Idle, Request, Steps
  <1>8. Placed(req[t])' /\ Mine(req[t])' /\ Excused(req[t])'
    <2>1. Rows' = Rows
      BY <1>1 DEF Rows
    <2>2. /\ r.pc = "respond" /\ r.kind = "page" /\ r.user = nil
          /\ r.sess = req[t].sess
      BY DEF Idle
    <2>3. Placed(req[t])' /\ Excused(req[t])'
      BY <1>5, <1>7, <2>1, <2>2 DEF Placed, Excused, SigningIn, SignedIn
    <2>4. Mine(req[t])'
      BY <1>1, <1>6, <1>7, <2>2 DEF Mine, Own
    <2> QED BY <2>3, <2>4
  <1> HIDE DEF r, u
  <1> QED BY <1>1, <1>2, <1>3, <1>4, <1>8, ThreadStep

(* reset_session. *)
LEMMA SignOutOK ==
  ASSUME IInv, NEW t \in Threads, SignOut(t)
  PROVE  IInv'
  <1> DEFINE r == [Idle EXCEPT !.pc = "respond", !.sess = SignedOut]
  <1>1. req' = [req EXCEPT ![t] = r] /\ UNCHANGED <<users, jar, begun, broken>>
    BY DEF SignOut, Answer
  <1>2. SignedOut \in Cookie /\ SignedOut.user = nil /\ Own(SignedOut.user, SignedOut.data)
    BY IdleRequest DEF SignedOut, Own
  <1>3. Placed(r) /\ Mine(r) /\ Excused(r)
    BY <1>2, AnswerOK
  <1> HIDE DEF r
  <1> QED BY <1>1, <1>3, LocalStep
-------------------------------------------------------------------------------
(* The other actions *)

(* Render and Push answer with the session the request came with.           *)
LEMMA SameSessionOK ==
  ASSUME IInv, NEW t \in Threads, Render(t) \/ Push(t)
  PROVE  IInv'
  <1> DEFINE r == [Idle EXCEPT !.pc = "respond", !.sess = req[t].sess]
  <1>1. /\ req' = [req EXCEPT ![t] = r] /\ UNCHANGED <<users, jar, begun, broken>>
        /\ req[t].pc \in {"action", "push"}
    BY DEF Render, Push, Answer
  <1>2. /\ req[t].sess \in Cookie /\ req[t].sess.user \in Rows \cup {nil}
        /\ ~ broken => Own(req[t].sess.user, req[t].sess.data)
    BY <1>1, OfThread DEF Placed, Mine, Request, SigningIn
  <1>3. Placed(r) /\ Mine(r) /\ Excused(r)
    BY <1>2, AnswerOK
  <1> HIDE DEF r
  <1> QED BY <1>1, <1>3, LocalStep

(* HomeController refreshes only what is not fresh, which has its excuse. *)
LEMMA RefreshAccessTokenOK ==
  ASSUME IInv, NEW t \in Threads, RefreshAccessToken(t)
  PROVE  IInv'
  <1> DEFINE pc == IF req[t].fresh THEN "push" ELSE "home_user"
             r == [req[t] EXCEPT !.pc = pc]
  <1>1. /\ req' = [req EXCEPT ![t] = r] /\ UNCHANGED <<users, jar, begun, broken>>
        /\ req[t].pc = "action" /\ req[t].sess.user # nil
    BY DEF RefreshAccessToken, Goto
  <1>2. Excused(r)
    BY <1>1, OfThread DEF Excused, Request
  <1>3. Placed(r) /\ Mine(r)
    BY <1>1, OfThread DEF Placed, Mine, SigningIn, SignedIn, Request, Steps
  <1> HIDE DEF r
  <1> QED BY <1>1, <1>2, <1>3, LocalStep

(* An exception leaves the session to the browser as it was. *)
LEMMA RaiseOK ==
  ASSUME IInv, NEW t \in Threads, Raise(t)
  PROVE  IInv'
  BY IdleOK, LocalStep DEF Raise, Finish

(* The answer's session replaces the browser's. *)
LEMMA RespondOK ==
  ASSUME IInv, NEW t \in Threads, Respond(t)
  PROVE  IInv'
  <1>1. /\ req' = [req EXCEPT ![t] = Idle] /\ UNCHANGED <<users, begun, broken>>
        /\ req[t].pc = "respond" /\ jar' = req[t].sess
    BY DEF Respond, Finish
  <1>2. Grows /\ NamesOK' /\ begun' \in Nat /\ broken' \in BOOLEAN
    BY <1>1, SameTable DEF IInv, Base
  <1>3. JarOK'
    <2>1. /\ req[t].sess \in Cookie /\ req[t].sess.user \in Rows \cup {nil}
          /\ ~ broken => Own(req[t].sess.user, req[t].sess.data)
      BY <1>1, OfThread DEF Placed, Mine, Request, SigningIn
    <2> QED BY <1>1, <2>1 DEF JarOK, Own, Rows
  <1>4. req'[t] = Idle
    BY <1>1 DEF IInv, Base
  <1>5. Placed(req[t])' /\ Mine(req[t])' /\ Excused(req[t])'
    BY <1>1, <1>2, <1>4, IdleOK, OthersStay DEF IInv, Base
  <1> QED BY <1>1, <1>2, <1>3, <1>5, ThreadStep

(* The end of the hour is an excuse. *)
LEMMA HourPassesOK ==
  ASSUME IInv, HourPasses
  PROVE  IInv'
  <1>1. /\ UNCHANGED <<jar, begun, broken>>
        /\ users' = [u \in Rows |-> [users[u] EXCEPT !.fresh = FALSE]]
    BY DEF HourPasses, Rows
  <1>2. Len(users) \in Nat /\ Rows = 1..Len(users)
    BY LenProperties DEF IInv, Base, Rows
  <1>3. \A u \in Rows : /\ users'[u] \in User
                        /\ users'[u].spotify_id = users[u].spotify_id
                        /\ users'[u].username = users[u].username
    BY <1>1, RowTyped DEF User
  <1>4. users' \in [1..Len(users) -> User] /\ Rows' = Rows
    BY <1>1, <1>2, <1>3 DEF Rows
  <1>5. users' \in Seq(User)
    BY <1>2, <1>4, SeqDef
  <1>6. Grows /\ NamesOK' /\ JarOK'
    <2>1. Grows
      BY <1>3, <1>4, <1>5 DEF Grows
    <2>2. NamesOK'
      BY <1>1, <1>3, <1>4 DEF IInv, NamesOK
    <2> QED BY <1>1, <2>1, <2>2, JarStays
  <1>7. ASSUME NEW t \in Threads
        PROVE  req'[t] \in Request /\ Placed(req[t])' /\ Mine(req[t])' /\ Excused(req[t])'
    <2> DEFINE r == [req[t] EXCEPT !.fresh = FALSE, !.excused = TRUE]
    <2>1. req'[t] \in {r, req[t]}
      BY DEF HourPasses
    <2>2. r \in Request /\ Placed(r) /\ Mine(r) /\ Excused(r)
      BY OfThread DEF Placed, Mine, Excused, SignedIn, SigningIn, Request
    <2>3. CASE req'[t] = r
      BY <1>1, <1>6, <2>2, <2>3, OthersStay DEF IInv, Base
    <2>4. CASE req'[t] = req[t]
      BY <1>1, <1>6, <2>4, OfThread, OthersStay DEF IInv, Base
    <2> QED BY <2>1, <2>3, <2>4
  <1>8. Base'
    BY <1>1, <1>5, <1>7 DEF IInv, Base, HourPasses
  <1> QED BY <1>6, <1>7, <1>8 DEF IInv

(* Every step keeps the invariant. *)
LEMMA NextIInv == IInv /\ [Next]_vars => IInv'
  <1> SUFFICES ASSUME IInv, [Next]_vars PROVE IInv'
    OBVIOUS
  <1>1. ASSUME NEW t \in Threads, Begin(t) PROVE IInv'
    <2>1. ASSUME NEW kind \in Kinds \ {"sign_in"}, Start(t, kind, nil) PROVE IInv'
      BY <2>1, StartOK
    <2>2. ASSUME NEW a \in Accounts, Start(t, "sign_in", a) PROVE IInv'
      BY <2>2, StartOK DEF Kinds
    <2> QED BY <1>1, <2>1, <2>2 DEF Begin
  <1>2. ASSUME NEW t \in Threads, Serve(t) PROVE IInv'
    <2>1. CASE ServiceProfile(t)
      BY <2>1, SaveProfileOK DEF ServiceProfile
    <2>2. CASE HomeProfile(t)
      BY <2>2, SaveProfileOK DEF HomeProfile
    <2> QED BY <1>2, <2>1, <2>2, RefreshSpotifyAccessTokenOK, ServiceUserOK, ServiceFailsOK,
               StoreSpotifyDataOK, FindUserOK, CreateUserOK, SignInNameOK, SignInProfileOK,
               SignInFailsOK, SignOutOK, SameSessionOK, RefreshAccessTokenOK, HomeUserOK,
               RespondOK, RaiseOK DEF Serve
  <1>3. CASE UNCHANGED vars
    BY <1>3 DEF vars, IInv, Base, JarOK, NamesOK, Placed, Mine, Excused, Own, Rows
  <1> QED BY <1>1, <1>2, <1>3, HourPassesOK DEF Next
-------------------------------------------------------------------------------
(* How many rows an account gets *)

(* Counting the rows and the threads makes sense: both sets are finite.     *)
LEMMA Countable ==
  ASSUME IInv, NEW a
  PROVE  /\ IsFiniteSet(Of(a)) /\ IsFiniteSet(Creating(a)) /\ IsFiniteSet(Threads)
         /\ Cardinality(Of(a)) \in Nat /\ Cardinality(Creating(a)) \in Nat
         /\ Cardinality(Threads) \in Nat
         /\ Cardinality(Creating(a)) <= Cardinality(Threads)
  <1>1. IsFiniteSet(Rows)
    BY LenProperties, FS_Interval DEF IInv, Base, Rows
  <1>2. Of(a) \in SUBSET Rows /\ Creating(a) \in SUBSET Threads
    BY DEF Of, Creating
  <1> QED BY <1>1, <1>2, FS_Subset, FS_CardinalityType, AccountAssumption

(* Room is kept when no row and no thread about to create one is added.     *)
LEMMA RoomStays ==
  ASSUME IInv, IInv', Room,
         \A a \in Accounts : Of(a)' = Of(a) /\ Creating(a)' \subseteq Creating(a)
  PROVE  Room'
  <1> SUFFICES ASSUME NEW a \in Accounts
               PROVE  Cardinality(Of(a)') + Cardinality(Creating(a)') <= Cardinality(Threads)
    BY DEF Room
  <1>1. Cardinality(Creating(a)') <= Cardinality(Creating(a))
    BY Countable, FS_Subset
  <1>2. Cardinality(Creating(a)') \in Nat
    BY Countable, FS_Subset, FS_CardinalityType
  <1> QED BY <1>1, <1>2, Countable DEF Room

(* The table keeps the rows of each account unless CreateUser adds one. *)
LEMMA OfStays ==
  ASSUME Rows' = Rows, \A u \in Rows : users'[u].spotify_id = users[u].spotify_id, NEW a
  PROVE  Of(a)' = Of(a)
  BY DEF Of

(* The threads about to create a row, when t does something else. *)
LEMMA CreatingStays ==
  ASSUME IInv, NEW t \in Threads, NEW r, req' = [req EXCEPT ![t] = r], r.pc # "create", NEW a
  PROVE  Creating(a)' \subseteq Creating(a)
  BY DEF Creating, IInv, Base

(* A row is written without a change of its account. *)
LEMMA SameAccounts ==
  ASSUME IInv, NEW u \in Rows,
         \/ users' = users
         \/ \E name : users' = [users EXCEPT ![u] = [@ EXCEPT !.username = name]]
         \/ users' = ProfileSaved(u)
  PROVE  Rows' = Rows /\ \A v \in Rows : users'[v].spotify_id = users[v].spotify_id
  <1>1. users[u] \in User
    BY RowTyped
  <1> QED BY <1>1 DEF ProfileSaved, Rows, User

(* Steps that write a name or a profile create no row. *)
LEMMA SaveRoom ==
  ASSUME IInv, IInv', Room, NEW t \in Threads, NEW r, req[t].user \in Rows,
         req' = [req EXCEPT ![t] = r], r.pc # "create",
         \/ users' = users
         \/ \E name : users' = [users EXCEPT ![req[t].user] = [@ EXCEPT !.username = name]]
         \/ users' = ProfileSaved(req[t].user)
  PROVE  Room'
  BY SameAccounts, OfStays, CreatingStays, RoomStays

(* Nor do steps that leave the table alone. *)
LEMMA LocalRoom ==
  ASSUME IInv, IInv', Room, NEW t \in Threads, NEW r, users' = users,
         req' = [req EXCEPT ![t] = r], r.pc # "create"
  PROVE  Room'
  <1>1. Rows' = Rows
    BY DEF Rows
  <1> QED BY <1>1, OfStays, CreatingStays, RoomStays

(* A thread gets as far as creating a row only if the account has none.     *)
LEMMA FindUserRoom ==
  ASSUME IInv, IInv', Room, NEW t \in Threads, FindUser(t)
  PROVE  Room'
  <1>1. CASE \E u : req' = [req EXCEPT ![t] = [@ EXCEPT !.pc = "save_name", !.user = u,
                                                      !.name = users[u].username]]
    <2>1. PICK u : req' = [req EXCEPT ![t] = [@ EXCEPT !.pc = "save_name", !.user = u,
                                                      !.name = users[u].username]]
      BY <1>1
    <2> DEFINE r == [req[t] EXCEPT !.pc = "save_name", !.user = u, !.name = users[u].username]
    <2>2. req' = [req EXCEPT ![t] = r] /\ r.pc # "create" /\ users' = users
      BY <2>1, OfThread DEF Request, FindUser
    <2> HIDE DEF r
    <2> QED BY <2>2, LocalRoom
  <1>2. CASE /\ {u \in DOMAIN users : users[u].spotify_id = req[t].auth} = {}
             /\ Goto(t, "create")
    <2> SUFFICES ASSUME NEW a \in Accounts
                 PROVE  Cardinality(Of(a)') + Cardinality(Creating(a)')
                           <= Cardinality(Threads)
      BY DEF Room
    <2>1. Of(a)' = Of(a)
      BY DEF FindUser, Of, Rows
    <2>2. CASE a = req[t].auth
      <3>1. Of(a)' = {}
        BY <1>2, <2>1, <2>2 DEF Of, Rows
      <3>2. Cardinality(Of(a)') = 0
        BY <3>1, FS_EmptySet
      <3>3. Creating(a)' \in SUBSET Threads
        BY DEF Creating
      <3>4. Cardinality(Creating(a)') <= Cardinality(Threads) /\ Cardinality(Creating(a)') \in Nat
        BY <3>3, FS_Subset, FS_CardinalityType, AccountAssumption
      <3> QED BY <3>2, <3>4
    <2>3. CASE a # req[t].auth
      <3>1. Creating(a)' = Creating(a)
        BY <1>2, <2>3, OfThread DEF Goto, Creating, IInv, Base, FindUser, Request
      <3> QED BY <2>1, <3>1 DEF Room
    <2> QED BY <2>2, <2>3
  <1> QED BY <1>1, <1>2 DEF FindUser

(* The thread that adds a row stops being about to.                         *)
LEMMA CreateUserRoom ==
  ASSUME IInv, IInv', Room, NEW t \in Threads, CreateUser(t)
  PROVE  Room'
  <1> SUFFICES ASSUME NEW a \in Accounts
               PROVE  Cardinality(Of(a)') + Cardinality(Creating(a)') <= Cardinality(Threads)
    BY DEF Room
  <1> DEFINE n == Len(users) + 1
  <1>0. /\ req[t].pc = "create" /\ broken' = broken
        /\ users' = Append(users, [spotify_id |-> req[t].auth, username |-> nil,
                                   fresh |-> TRUE])
    BY DEF CreateUser
  <1>1. req[t].auth \in Accounts
    BY <1>0, OfThread DEF Placed, SigningIn
  <1>2. /\ Grows /\ Rows' = Rows \cup {n} /\ n \notin Rows
        /\ users'[n].spotify_id = req[t].auth
    BY <1>0, <1>1, RowAdded
  <1>3. CASE a = req[t].auth
    <2>1. Of(a)' = Of(a) \cup {n} /\ n \notin Of(a)
      BY <1>2, <1>3 DEF Of, Grows
    <2>2. Cardinality(Of(a)') = Cardinality(Of(a)) + 1
      BY <2>1, Countable, FS_AddElement
    <2>3. t \in Creating(a)
      BY <1>0, <1>3 DEF Creating
    <2>4. Creating(a)' = Creating(a) \ {t}
      BY <1>3, OfThread DEF CreateUser, Creating, IInv, Base, Request
    <2>5. Cardinality(Creating(a)') = Cardinality(Creating(a)) - 1
      BY <2>3, <2>4, Countable, FS_RemoveElement
    <2> QED BY <2>2, <2>5, Countable DEF Room
  <1>4. CASE a # req[t].auth
    <2>1. Of(a)' = Of(a)
      BY <1>2, <1>4 DEF Of, Grows
    <2>2. Creating(a)' = Creating(a)
      BY <1>4, OfThread DEF CreateUser, Creating, IInv, Base, Request
    <2> QED BY <2>1, <2>2 DEF Room
  <1> QED BY <1>3, <1>4

(* Every step keeps the room. *)
LEMMA NextRoom == IInv /\ IInv' /\ Room /\ [Next]_vars => Room'
  <1> SUFFICES ASSUME IInv, IInv', Room, [Next]_vars PROVE Room'
    OBVIOUS
  <1>1. ASSUME NEW t \in Threads, NEW kind, NEW auth, Start(t, kind, auth) PROVE Room'
    <2> DEFINE r == [Idle EXCEPT !.pc = IF jar.user = nil THEN "action" ELSE "filter",
                                !.kind = kind, !.auth = auth, !.sess = jar,
                                !.user = jar.user,
                                !.name = IF jar.user = nil THEN nil
                                         ELSE users[jar.user].username]
    <2>1. req' = [req EXCEPT ![t] = r] /\ users' = users /\ r.pc # "create"
      BY <1>1 DEF Start, Idle
    <2> HIDE DEF r
    <2> QED BY <2>1, LocalRoom
  <1>2. ASSUME NEW t \in Threads, Serve(t) PROVE Room'
    <2>1. CASE FindUser(t)
      BY <2>1, FindUserRoom
    <2>2. CASE CreateUser(t)
      BY <2>2, CreateUserRoom
    <2>3. ASSUME NEW name, NEW pc, SaveUsername(t, name, pc), pc # "create",
                 req[t].user \in Rows
          PROVE  Room'
      <3> DEFINE r == [req[t] EXCEPT !.pc = pc, !.name = name]
      <3>1. req' = [req EXCEPT ![t] = r] /\ r.pc # "create"
        BY <2>3, OfThread DEF SaveUsername, Request
      <3>2. \/ users' = users
            \/ users' = [users EXCEPT ![req[t].user] = [@ EXCEPT !.username = name]]
        BY <2>3 DEF SaveUsername
      <3> HIDE DEF r
      <3> QED BY <2>3, <3>1, <3>2, SaveRoom
    <2>4. CASE ServiceUser(t) \/ HomeUser(t) \/ SignInName(t)
      BY <2>3, <2>4, UserIsRow DEF ServiceUser, HomeUser, SignInName, SignedIn
    <2>5. ASSUME NEW pc \in {"action", "push"}, SaveProfile(t, pc), req[t].user \in Rows
          PROVE  Room'
      <3> DEFINE r == [req[t] EXCEPT !.pc = pc, !.fresh = TRUE]
      <3>1. req' = [req EXCEPT ![t] = r] /\ r.pc # "create" /\ users' = ProfileSaved(req[t].user)
        BY <2>5, OfThread DEF SaveProfile, Request
      <3> HIDE DEF r
      <3> QED BY <2>5, <3>1, SaveRoom
    <2>6. CASE ServiceProfile(t) \/ HomeProfile(t)
      BY <2>5, <2>6, UserIsRow DEF ServiceProfile, HomeProfile, SignedIn
    <2>7. CASE SignInProfile(t)
      <3> DEFINE r == [Idle EXCEPT !.pc = "respond",
                                  !.sess = [user |-> req[t].user, data |-> req[t].sess.data]]
      <3>1. req' = [req EXCEPT ![t] = r] /\ r.pc # "create" /\ users' = ProfileSaved(req[t].user)
        BY <2>7 DEF SignInProfile, Answer, Idle
      <3>2. req[t].user \in Rows
        BY <2>7, UserIsRow DEF SignInProfile
      <3> HIDE DEF r
      <3> QED BY <3>1, <3>2, SaveRoom
    <2>8. ASSUME NEW sess, Answer(t, sess), users' = users PROVE Room'
      <3> DEFINE r == [Idle EXCEPT !.pc = "respond", !.sess = sess]
      <3>1. req' = [req EXCEPT ![t] = r] /\ r.pc # "create"
        BY <2>8 DEF Answer, Idle
      <3> HIDE DEF r
      <3> QED BY <2>8, <3>1, LocalRoom
    <2>9. CASE SignInFails(t) \/ SignOut(t) \/ Render(t) \/ Push(t)
      BY <2>8, <2>9 DEF SignInFails, SignOut, Render, Push
    <2>10. CASE Respond(t) \/ Raise(t)
      <3>1. req' = [req EXCEPT ![t] = Idle] /\ users' = users /\ Idle.pc # "create"
        BY <2>10 DEF Respond, Raise, Finish, Idle
      <3> QED BY <3>1, LocalRoom
    <2>11. CASE RefreshSpotifyAccessToken(t)
      <3> DEFINE fresh == users[req[t].user].fresh
                 r == [req[t] EXCEPT !.pc = IF fresh THEN "action" ELSE "service_user",
                                     !.fresh = fresh]
      <3>1. req' = [req EXCEPT ![t] = r] /\ users' = users /\ r.pc # "create"
        BY <2>11, OfThread DEF RefreshSpotifyAccessToken, Request
      <3> HIDE DEF r
      <3> QED BY <3>1, LocalRoom
    <2>12. CASE ServiceFails(t)
      <3> DEFINE r == [req[t] EXCEPT !.pc = "action", !.excused = TRUE]
      <3>1. req' = [req EXCEPT ![t] = r] /\ users' = users /\ r.pc # "create"
        BY <2>12, OfThread DEF ServiceFails, Request
      <3> HIDE DEF r
      <3> QED BY <3>1, LocalRoom
    <2>13. CASE StoreSpotifyData(t)
      <3> DEFINE r == [Idle EXCEPT !.pc = "find", !.kind = "sign_in", !.auth = req[t].auth,
                                  !.sess = [user |-> req[t].sess.user, data |-> req[t].auth]]
      <3>1. req' = [req EXCEPT ![t] = r] /\ users' = users /\ r.pc # "create"
        BY <2>13 DEF StoreSpotifyData, Idle
      <3> HIDE DEF r
      <3> QED BY <3>1, LocalRoom
    <2>14. CASE RefreshAccessToken(t)
      <3> DEFINE pc == IF req[t].fresh THEN "push" ELSE "home_user"
                 r == [req[t] EXCEPT !.pc = pc]
      <3>1. req' = [req EXCEPT ![t] = r] /\ users' = users /\ r.pc # "create"
        BY <2>14, OfThread DEF RefreshAccessToken, Goto, Request
      <3> HIDE DEF r
      <3> QED BY <3>1, LocalRoom
    <2> QED BY <1>2, <2>1, <2>2, <2>4, <2>6, <2>7, <2>9, <2>10, <2>11, <2>12, <2>13, <2>14
            DEF Serve
  <1>3. CASE HourPasses
    <2>1. Rows' = Rows /\ \A u \in Rows : users'[u].spotify_id = users[u].spotify_id
      BY <1>3, RowTyped DEF HourPasses, Rows, User
    <2>2. \A t \in Threads : req'[t].pc = req[t].pc /\ req'[t].auth = req[t].auth
      BY <1>3, OfThread DEF HourPasses, Request
    <2>3. \A a \in Accounts : Creating(a)' = Creating(a)
      BY <2>2 DEF Creating
    <2> QED BY <2>1, <2>3, OfStays, RoomStays
  <1>4. CASE UNCHANGED vars
    BY <1>4 DEF vars, Room, Of, Creating, Rows
  <1>5. ASSUME NEW t \in Threads, Begin(t) PROVE Room'
    BY <1>1, <1>5 DEF Begin
  <1> QED BY <1>2, <1>3, <1>4, <1>5 DEF Next

(* The first state has no rows and creates none. *)
LEMMA InitRoom == Init => Room
  <1> SUFFICES ASSUME Init, NEW a \in Accounts
               PROVE  Cardinality(Of(a)) + Cardinality(Creating(a)) <= Cardinality(Threads)
    BY DEF Room
  <1>1. Of(a) = {} /\ Creating(a) = {}
    BY DEF Init, Of, Creating, Rows, Idle
  <1>2. Cardinality({}) = 0 /\ Cardinality(Threads) \in Nat
    BY FS_EmptySet, FS_CardinalityType, AccountAssumption
  <1> QED BY <1>1, <1>2
-------------------------------------------------------------------------------
(* The invariant of the specification. *)
THEOREM Invariance == Spec => [](IInv /\ Room)
  <1>1. Init => IInv /\ Room
    BY InitIInv, InitRoom
  <1>2. IInv /\ Room /\ [Next]_vars => (IInv /\ Room)'
    BY NextIInv, NextRoom
  <1> QED BY <1>1, <1>2, PTL DEF Spec

(* Rows, cookie and requests keep their types, and whoever a session or a   *)
(* request names is a row of the table, as set_current_user relies on.      *)
THEOREM TypeCorrect == Spec => []TypeOK
  <1>1. IInv => TypeOK
    <2> SUFFICES ASSUME IInv PROVE TypeOK
      OBVIOUS
    <2>1. \A u \in {jar.user} \cup {req[t].user : t \in Threads}
                    \cup {req[t].sess.user : t \in Threads} : u \in DOMAIN users \cup {nil}
      BY DEF IInv, JarOK, Placed, Rows
    <2> QED BY <2>1 DEF TypeOK, IInv, Base, JarOK
  <1> QED BY <1>1, Invariance, PTL

(* The cookie, the jobs and the names never mix two accounts, for any       *)
(* number of threads, unless a sign-in fails over another's session.        *)
THEOREM Apart == Spec => []AccountsApart
  <1>1. IInv => AccountsApart
    BY DEF IInv, JarOK, NamesOK, Placed, Mine, Own, AccountsApart, Rows, SigningIn, SignedIn
  <1> QED BY <1>1, Invariance, PTL

(* home_controller.rb's refresh runs only if the service failed or the hour *)
(* ended on the way.                                                        *)
THEOREM ServiceFirst == Spec => []ServiceShadowsHome
  <1>1. IInv => ServiceShadowsHome
    BY DEF IInv, Excused, ServiceShadowsHome
  <1> QED BY <1>1, Invariance, PTL

(* Races of find_or_create_by leave an account with at most as many users   *)
(* as there are threads.                                                    *)
THEOREM Bounded == Spec => []DuplicatesBounded
  <1>1. IInv /\ Room => DuplicatesBounded
    <2> SUFFICES ASSUME IInv, Room, NEW a \in Accounts
                 PROVE  Cardinality({u \in DOMAIN users : users[u].spotify_id = a})
                           <= Cardinality(Threads)
      BY DEF DuplicatesBounded
    <2>1. Cardinality(Of(a)) <= Cardinality(Threads)
      BY Countable DEF Room
    <2> QED BY <2>1 DEF Of, Rows
  <1> QED BY <1>1, Invariance, PTL
===============================================================================
