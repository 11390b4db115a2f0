---------------------------- MODULE WorkersProofs ----------------------------
(***************************************************************************)
(* What the Sidekiq pipeline keeps for every number of requests, titles,   *)
(* retries, restarts and kills, and for every size of the pool.            *)
(***************************************************************************)
EXTENDS Workers, TLAPS

(* What a job that has created n playlists says of them: past               *)
(* create_playlist! there is one, and a Create that is done has one or      *)
(* found no song.                                                           *)
Settled(job, n) ==
    /\ job.class = "Playlist" => job.pc \in {"ask", "push", "return"}
    /\ job.class = "Create" => job.pc \in {"search", "tracks", "image"}
    /\ job.pc \in {"tracks", "image"} => n > 0
    /\ job.class = "Create" /\ job.state = "done" => n > 0 \/ ~job.found

(* Every attempt but the current one was ended by a retry that was counted  *)
(* or by one of s restarts, and the current one counts from                 *)
(* create_playlist! on.                                                     *)
Spent(job, n, s) ==
    n <= job.retries + s + IF job.pc \in {"tracks", "image"} \/ Ended(job) THEN 1 ELSE 0

(* A Playlist job that has pushed its Create. *)
PastPush(job) ==
    job.class = "Playlist" /\ (job.pc = "return" \/ job.state = "done")

(* Among the jobs there is one to create the playlist of request r. *)
HandedOn(js, r) == \E k \in DOMAIN js : js[k].class = "Create" /\ js[k].request = r

(* The inductive invariant. Neither NothingVanishes nor PlaylistsBounded is *)
(* inductive: the one rests on the Create job that a Playlist job leaves    *)
(* behind, the other on where in its current attempt a job is.              *)
KInv ==
    /\ TypeOK
    /\ \A i \in DOMAIN jobs :
          /\ Settled(jobs[i], playlists[i])
          /\ Spent(jobs[i], playlists[i], shutdowns)
          /\ PastPush(jobs[i]) => HandedOn(jobs, jobs[i].request)
-------------------------------------------------------------------------------
(* Job i is replaced by job j, which is of the same class and request, and  *)
(* has n playlists: what must be shown of j and n alone.                    *)
LEMMA OneJob ==
    ASSUME KInv, NEW i \in DOMAIN jobs, NEW j \in Job, NEW n \in Nat,
           j.class = jobs[i].class, j.request = jobs[i].request,
           jobs' = [jobs EXCEPT ![i] = j],
           playlists' = [playlists EXCEPT ![i] = n],
           UNCHANGED <<shutdowns, crashes>>,
           Settled(j, n), Spent(j, n, shutdowns), 
           PastPush(j) => PastPush(jobs[i])
    PROVE  KInv'
  <1>1. jobs \in Seq(Job) /\ playlists \in Seq(Nat) /\ Len(playlists) = Len(jobs)
    BY DEF KInv, TypeOK
  <1>2. DOMAIN jobs = 1..Len(jobs) /\ DOMAIN playlists = DOMAIN jobs
    BY <1>1
  <1>3. /\ jobs' \in Seq(Job) /\ Len(jobs') = Len(jobs) /\ DOMAIN jobs' = DOMAIN jobs
        /\ jobs'[i] = j /\ \A k \in DOMAIN jobs : k # i => jobs'[k] = jobs[k]
    BY <1>1, <1>2
  <1>4. /\ playlists' \in Seq(Nat) /\ Len(playlists') = Len(playlists)
        /\ playlists'[i] = n /\ \A k \in DOMAIN jobs : k # i => playlists'[k] = playlists[k]
    BY <1>1, <1>2
  <1>5. TypeOK'
    BY <1>1, <1>3, <1>4 DEF KInv, TypeOK
  <1>6. ASSUME NEW r, HandedOn(jobs, r) PROVE HandedOn(jobs', r)
    <2>1. PICK k \in DOMAIN jobs : jobs[k].class = "Create" /\ jobs[k].request = r
      BY <1>6 DEF HandedOn
    <2>2. jobs'[k].class = "Create" /\ jobs'[k].request = r
      BY <2>1, <1>3
    <2> QED BY <2>2, <1>3 DEF HandedOn
  <1>7. ASSUME NEW k \in DOMAIN jobs'
        PROVE  /\ Settled(jobs'[k], playlists'[k])
               /\ Spent(jobs'[k], playlists'[k], shutdowns')
               /\ PastPush(jobs'[k]) => HandedOn(jobs', jobs'[k].request)
    <2>1. CASE k = i
      <3>1. PastPush(j) => HandedOn(jobs, j.request)
        BY DEF KInv
      <3> QED BY <2>1, <3>1, <1>3, <1>4, <1>6
    <2>2. CASE k # i
      <3>1. jobs'[k] = jobs[k] /\ playlists'[k] = playlists[k] /\ k \in DOMAIN jobs
        BY <2>2, <1>3, <1>4
      <3> QED BY <3>1, <1>6 DEF KInv
    <2> QED BY <2>1, <2>2
  <1> QED BY <1>5, <1>7 DEF KInv

(* A job is appended that has created nothing and not begun. *)
LEMMA NewJobs ==
    ASSUME KInv, NEW others \in Seq(Job), NEW j \in Job,
           Len(others) = Len(jobs),
           \A k \in DOMAIN jobs :
              /\ others[k].class = jobs[k].class /\ others[k].request = jobs[k].request
              /\ Settled(others[k], playlists[k])
              /\ Spent(others[k], playlists[k], shutdowns)
              /\ PastPush(others[k]) => 
                    PastPush(jobs[k]) \/ (j.class = "Create" /\ j.request = jobs[k].request),
           Push(others, j), UNCHANGED <<shutdowns, crashes>>,
           Settled(j, 0), ~PastPush(j)
    PROVE  KInv'
  <1>1. jobs \in Seq(Job) /\ playlists \in Seq(Nat) /\ Len(playlists) = Len(jobs)
    BY DEF KInv, TypeOK
  <1> DEFINE last == Len(jobs) + 1
  <1>2. DOMAIN jobs = 1..Len(jobs)
    BY <1>1
  <1>3. /\ jobs' \in Seq(Job) /\ Len(jobs') = last /\ DOMAIN jobs' = 1..last
        /\ jobs'[last] = j /\ \A k \in DOMAIN jobs : jobs'[k] = others[k]
    BY <1>1, <1>2 DEF Push
  <1>4. /\ playlists' \in Seq(Nat) /\ Len(playlists') = last
        /\ playlists'[last] = 0 /\ \A k \in DOMAIN jobs : playlists'[k] = playlists[k]
    BY <1>1, <1>2 DEF Push
  <1>5. TypeOK'
    BY <1>1, <1>3, <1>4 DEF KInv, TypeOK
  <1>6. ASSUME NEW r, HandedOn(jobs, r) PROVE HandedOn(jobs', r)
    <2>1. PICK k \in DOMAIN jobs : jobs[k].class = "Create" /\ jobs[k].request = r
      BY <1>6 DEF HandedOn
    <2>2. k \in DOMAIN jobs' /\ jobs'[k].class = "Create" /\ jobs'[k].request = r
      BY <2>1, <1>2, <1>3
    <2> QED BY <2>2 DEF HandedOn
  <1>7. j.class = "Create" => HandedOn(jobs', j.request)
    BY <1>1, <1>3 DEF HandedOn
  <1>8. ASSUME NEW k \in DOMAIN jobs'
        PROVE  /\ Settled(jobs'[k], playlists'[k])
               /\ Spent(jobs'[k], playlists'[k], shutdowns')
               /\ PastPush(jobs'[k]) => HandedOn(jobs', jobs'[k].request)
    <2>1. CASE k = last
      <3>1. Spent(j, 0, shutdowns)
        BY DEF Spent, Job, KInv, TypeOK
      <3> QED BY <2>1, <3>1, <1>3, <1>4
    <2>2. CASE k # last
      <3>1. jobs'[k] = others[k] /\ playlists'[k] = playlists[k] /\ k \in DOMAIN jobs
        BY <2>2, <1>1, <1>2, <1>3, <1>4
      <3> QED BY <3>1, <1>6, <1>7 DEF KInv
    <2> QED BY <2>1, <2>2
  <1> QED BY <1>5, <1>8 DEF KInv
-------------------------------------------------------------------------------
(* What leaving the process does to a job. *)
LEMMA Left ==
    ASSUME NEW j \in Job,
           NEW state \in {"queued", "running", "retry", "dead", "lost", "done"}
    PROVE  /\ Leave(j, state) \in Job
           /\ Leave(j, state).class = j.class /\ Leave(j, state).request = j.request
           /\ Leave(j, state).state = state /\ Leave(j, state).retries = j.retries
           /\ Leave(j, state).found = j.found
           /\ Leave(j, state).pc = FirstStep(j.class)
           /\ Leave(j, state).pc \notin {"return", "tracks", "image"}
  BY DEF Leave, FirstStep, Job

(* What the invariant says of one job. *)
LEMMA JobAt ==
    ASSUME KInv, NEW i \in DOMAIN jobs
    PROVE  /\ jobs[i] \in Job /\ playlists[i] \in Nat /\ shutdowns \in Nat
           /\ playlists = [playlists EXCEPT ![i] = playlists[i]]
           /\ Settled(jobs[i], playlists[i])
           /\ Spent(jobs[i], playlists[i], shutdowns)
           /\ playlists[i] <= jobs[i].retries + shutdowns + 1
  <1>1. /\ jobs[i] \in Job /\ playlists[i] \in Nat /\ shutdowns \in Nat
        /\ playlists = [playlists EXCEPT ![i] = playlists[i]]
        /\ Settled(jobs[i], playlists[i])
        /\ Spent(jobs[i], playlists[i], shutdowns)
    BY WorkersAssumption DEF KInv, TypeOK
  <1>2. jobs[i].retries \in Nat
    BY <1>1 DEF Job
  <1> QED BY <1>1, <1>2 DEF Spent

LEMMA FetchOK ==
    ASSUME KInv, NEW i \in DOMAIN jobs, Fetch(i)
    PROVE  KInv'
  <1> DEFINE j == [jobs[i] EXCEPT !.state = "running"]
  <1>1. jobs[i] \in Job /\ jobs[i].state = "queued" /\ jobs \in Seq(Job)
    BY JobAt DEF Fetch, KInv, TypeOK
  <1>2. j \in Job /\ j.state = "running" /\ j.class = jobs[i].class /\ j.pc = jobs[i].pc
        /\ j.request = jobs[i].request /\ j.retries = jobs[i].retries /\ j.found = jobs[i].found
    BY <1>1 DEF Job
  <1>3. jobs' = [jobs EXCEPT ![i] = j]
    BY <1>1 DEF Fetch
  <1> HIDE DEF j
  <1>4. Settled(j, playlists[i]) /\ Spent(j, playlists[i], shutdowns)
        /\ (PastPush(j) => PastPush(jobs[i]))
    BY <1>1, <1>2, JobAt DEF Settled, Spent, PastPush, Ended
  <1> QED BY <1>2, <1>3, <1>4, JobAt, OneJob DEF Fetch

LEMMA PollOK ==
    ASSUME KInv, NEW i \in DOMAIN jobs, Poll(i)
    PROVE  KInv'
  <1> DEFINE j == [jobs[i] EXCEPT !.state = "queued"]
  <1>1. jobs[i] \in Job /\ jobs[i].state = "retry" /\ jobs \in Seq(Job)
    BY JobAt DEF Poll, KInv, TypeOK
  <1>2. j \in Job /\ j.state = "queued" /\ j.class = jobs[i].class /\ j.pc = jobs[i].pc
        /\ j.request = jobs[i].request /\ j.retries = jobs[i].retries /\ j.found = jobs[i].found
    BY <1>1 DEF Job
  <1>3. jobs' = [jobs EXCEPT ![i] = j]
    BY <1>1 DEF Poll
  <1> HIDE DEF j
  <1>4. Settled(j, playlists[i]) /\ Spent(j, playlists[i], shutdowns)
        /\ (PastPush(j) => PastPush(jobs[i]))
    BY <1>1, <1>2, JobAt DEF Settled, Spent, PastPush, Ended
  <1> QED BY <1>2, <1>3, <1>4, JobAt, OneJob DEF Poll

(* A retry is counted, so that the attempt it ends may have created one. *)
LEMMA RaiseOK ==
    ASSUME KInv, NEW i \in DOMAIN jobs, Raise(i)
    PROVE  KInv'
  <1>1. jobs[i] \in Job /\ jobs[i].state = "running" /\ jobs \in Seq(Job)
    BY JobAt DEF Raise, KInv, TypeOK
  <1>2. CASE jobs[i].retries < MaxRetries
    <2> DEFINE l == Leave(jobs[i], "retry")
               n == jobs[i].retries + 1
               j == [l EXCEPT !.retries = n]
    <2>0. /\ l \in Job /\ l.class = jobs[i].class /\ l.request = jobs[i].request
          /\ l.state = "retry" /\ l.retries = jobs[i].retries
          /\ l.pc = FirstStep(l.class) /\ l.pc \notin {"return", "tracks", "image"}
      BY <1>1, Left
    <2>2. jobs' = [jobs EXCEPT ![i] = j]
      BY <1>1, <1>2 DEF Raise
    <2>3. n \in Nat
      BY <1>1 DEF Job
    <2> HIDE DEF l, n
    <2>1. /\ j \in Job /\ j.class = jobs[i].class /\ j.request = jobs[i].request
          /\ j.state = "retry" /\ j.retries = n
          /\ j.pc = FirstStep(j.class) /\ j.pc \notin {"return", "tracks", "image"}
      BY <2>0, <2>3 DEF Job
    <2> HIDE DEF j
    <2>4. Settled(j, playlists[i]) /\ ~PastPush(j)
      BY <2>1 DEF Settled, PastPush, FirstStep, Job
    <2>5. Spent(j, playlists[i], shutdowns)
      <3>1. jobs[i].retries \in Nat /\ j.retries + shutdowns >= playlists[i]
        BY <1>1, <2>1, JobAt DEF Job, n
      <3> QED BY <2>1, <2>3, <3>1, JobAt DEF Spent
    <2> QED BY <2>1, <2>2, <2>4, <2>5, JobAt, OneJob DEF Raise
  <1>3. CASE ~(jobs[i].retries < MaxRetries)
    <2> DEFINE j == Leave(jobs[i], "dead")
    <2>1. /\ j \in Job /\ j.class = jobs[i].class /\ j.request = jobs[i].request
          /\ j.state = "dead" /\ j.retries = jobs[i].retries
          /\ j.pc = FirstStep(j.class) /\ j.pc \notin {"return", "tracks", "image"}
      BY <1>1, Left
    <2>2. jobs' = [jobs EXCEPT ![i] = j]
      BY <1>1, <1>3 DEF Raise
    <2> HIDE DEF j
    <2>3. Settled(j, playlists[i]) /\ ~PastPush(j)
      BY <2>1 DEF Settled, PastPush, FirstStep, Job
    <2>4. Spent(j, playlists[i], shutdowns)
      BY <1>1, <2>1, JobAt DEF Spent, Ended, Job
    <2> QED BY <2>1, <2>2, <2>3, <2>4, JobAt, OneJob DEF Raise
  <1> QED BY <1>2, <1>3

LEMMA AskOK ==
    ASSUME KInv, NEW i \in DOMAIN jobs, Ask(i)
    PROVE  KInv'
  <1>1. jobs[i] \in Job /\ jobs[i].state = "running" /\ jobs[i].pc = "ask" /\ jobs \in Seq(Job)
    BY JobAt DEF Ask, Running, KInv, TypeOK
  <1>2. PICK title \in Titles : jobs' = [jobs EXCEPT ![i].title = title, ![i].pc = "push"]
    BY DEF Ask
  <1> DEFINE j == [jobs[i] EXCEPT !.title = title, !.pc = "push"]
  <1>3. /\ j \in Job /\ j.state = "running" /\ j.class = jobs[i].class /\ j.pc = "push"
        /\ j.request = jobs[i].request /\ j.retries = jobs[i].retries /\ j.found = jobs[i].found
    BY <1>1 DEF Job
  <1>4. jobs' = [jobs EXCEPT ![i] = j]
    BY <1>1, <1>2
  <1> HIDE DEF j
  <1>5. Settled(j, playlists[i]) /\ Spent(j, playlists[i], shutdowns)
        /\ (PastPush(j) => PastPush(jobs[i]))
    BY <1>1, <1>3, JobAt DEF Settled, Spent, PastPush, Ended
  <1> QED BY <1>3, <1>4, <1>5, JobAt, OneJob DEF Ask

LEMMA ReturnOK ==
    ASSUME KInv, NEW i \in DOMAIN jobs, Return(i)
    PROVE  KInv'
  <1>1. jobs[i] \in Job /\ jobs[i].pc = "return" /\ jobs[i].state = "running" /\ jobs \in Seq(Job)
    BY JobAt DEF Return, Running, KInv, TypeOK
  <1> DEFINE j == Leave(jobs[i], "done")
  <1>2. /\ j \in Job /\ j.class = jobs[i].class /\ j.request = jobs[i].request
        /\ j.state = "done" /\ j.retries = jobs[i].retries
        /\ j.pc = FirstStep(j.class) /\ j.pc \notin {"return", "tracks", "image"}
    BY <1>1, Left
  <1>3. jobs' = [jobs EXCEPT ![i] = j]
    BY <1>1 DEF Return
  <1> HIDE DEF j
  <1>4. jobs[i].class = "Playlist"
    BY <1>1, JobAt DEF Settled, Job
  <1>5. Settled(j, playlists[i])
    BY <1>2, <1>4 DEF Settled, FirstStep
  <1>6. Spent(j, playlists[i], shutdowns)
    <2>1. j.retries \in Nat /\ Ended(j) /\ playlists[i] <= j.retries + shutdowns + 1
      BY <1>1, <1>2, JobAt DEF Ended, Job
    <2> QED BY <2>1, JobAt DEF Spent
  <1>7. PastPush(jobs[i])
    BY <1>1, <1>4 DEF PastPush
  <1> QED BY <1>2, <1>3, <1>5, <1>6, <1>7, JobAt, OneJob DEF Return

LEMMA FindNothingOK ==
    ASSUME KInv, NEW i \in DOMAIN jobs, FindNothing(i)
    PROVE  KInv'
  <1>1. jobs[i] \in Job /\ jobs[i].pc = "search" /\ jobs[i].state = "running" /\ jobs \in Seq(Job)
    BY JobAt DEF FindNothing, Running, KInv, TypeOK
  <1> DEFINE l == Leave(jobs[i], "done")
             j == [l EXCEPT !.found = FALSE]
  <1>2. /\ l \in Job /\ l.class = jobs[i].class /\ l.request = jobs[i].request
        /\ l.state = "done" /\ l.retries = jobs[i].retries
        /\ l.pc = FirstStep(l.class) /\ l.pc \notin {"return", "tracks", "image"}
    BY <1>1, Left
  <1>3. jobs' = [jobs EXCEPT ![i] = j]
    BY <1>1 DEF FindNothing
  <1> HIDE DEF l
  <1>4. /\ j \in Job /\ j.class = jobs[i].class /\ j.request = jobs[i].request
        /\ j.state = "done" /\ j.retries = jobs[i].retries /\ ~j.found
        /\ j.pc = FirstStep(j.class) /\ j.pc \notin {"return", "tracks", "image"}
    BY <1>2 DEF Job
  <1> HIDE DEF j
  <1>5. Settled(j, playlists[i])
    BY <1>4 DEF Settled, FirstStep, Job
  <1>6. Spent(j, playlists[i], shutdowns)
    <2>1. j.retries \in Nat /\ Ended(j) /\ playlists[i] <= j.retries + shutdowns + 1
      BY <1>1, <1>4, JobAt DEF Ended, Job
    <2> QED BY <2>1, JobAt DEF Spent
  <1>7. ~PastPush(j)
    BY <1>1, <1>4, JobAt DEF Settled, PastPush
  <1> QED BY <1>3, <1>4, <1>5, <1>6, <1>7, JobAt, OneJob DEF FindNothing

(* The playlist is counted before the attempt that created it is. *)
LEMMA CreatePlaylistOK ==
    ASSUME KInv, NEW i \in DOMAIN jobs, CreatePlaylist(i)
    PROVE  KInv'
  <1>1. jobs[i] \in Job /\ jobs[i].pc = "search" /\ jobs[i].state = "running" /\ jobs \in Seq(Job)
    BY JobAt DEF CreatePlaylist, Running, KInv, TypeOK
  <1> DEFINE j == [jobs[i] EXCEPT !.pc = "tracks"]
             n == playlists[i] + 1
  <1>2. jobs' = [jobs EXCEPT ![i] = j] /\ playlists' = [playlists EXCEPT ![i] = n]
    BY <1>1 DEF CreatePlaylist
  <1>3. /\ j \in Job /\ j.class = jobs[i].class /\ j.request = jobs[i].request
        /\ j.state = "running" /\ j.pc = "tracks" /\ j.retries = jobs[i].retries
    BY <1>1 DEF Job
  <1>4. n \in Nat /\ n > 0
    BY JobAt
  <1>5. jobs[i].class = "Create"
    BY <1>1, JobAt DEF Settled, Job
  <1> HIDE DEF j
  <1>6. Settled(j, n) /\ ~PastPush(j)
    BY <1>3, <1>4, <1>5 DEF Settled, PastPush
  <1>7. Spent(j, n, shutdowns)
    <2>1. jobs[i].retries \in Nat /\ playlists[i] <= jobs[i].retries + shutdowns
      <3>1. jobs[i].retries \in Nat /\ ~Ended(jobs[i])
        BY <1>1 DEF Ended, Job
      <3> QED BY <1>1, <3>1, JobAt DEF Spent
    <2> QED BY <1>3, <2>1, JobAt DEF Spent
  <1> QED BY <1>2, <1>3, <1>4, <1>6, <1>7, OneJob DEF CreatePlaylist

LEMMA AddTracksOK ==
    ASSUME KInv, NEW i \in DOMAIN jobs, AddTracks(i)
    PROVE  KInv'
  <1>1. jobs[i] \in Job /\ jobs[i].pc = "tracks" /\ jobs[i].state = "running" /\ jobs \in Seq(Job)
    BY JobAt DEF AddTracks, Running, KInv, TypeOK
  <1> DEFINE j == [jobs[i] EXCEPT !.pc = "image"]
  <1>2. jobs' = [jobs EXCEPT ![i] = j]
    BY <1>1 DEF AddTracks
  <1>3. /\ j \in Job /\ j.class = jobs[i].class /\ j.request = jobs[i].request
        /\ j.state = "running" /\ j.pc = "image" /\ j.retries = jobs[i].retries
    BY <1>1 DEF Job
  <1> HIDE DEF j
  <1>4. Settled(j, playlists[i]) /\ Spent(j, playlists[i], shutdowns) /\ ~PastPush(j)
    BY <1>1, <1>3, JobAt DEF Settled, Spent, PastPush
  <1> QED BY <1>2, <1>3, <1>4, JobAt, OneJob DEF AddTracks

LEMMA PutImageOK ==
    ASSUME KInv, NEW i \in DOMAIN jobs, PutImage(i)
    PROVE  KInv'
  <1>1. jobs[i] \in Job /\ jobs[i].pc = "image" /\ jobs[i].state = "running" /\ jobs \in Seq(Job)
    BY JobAt DEF PutImage, Running, KInv, TypeOK
  <1> DEFINE j == Leave(jobs[i], "done")
  <1>2. /\ j \in Job /\ j.class = jobs[i].class /\ j.request = jobs[i].request
        /\ j.state = "done" /\ j.retries = jobs[i].retries
        /\ j.pc = FirstStep(j.class) /\ j.pc \notin {"return", "tracks", "image"}
    BY <1>1, Left
  <1>3. jobs' = [jobs EXCEPT ![i] = j]
    BY <1>1 DEF PutImage
  <1> HIDE DEF j
  <1>4. jobs[i].class = "Create" /\ playlists[i] > 0
    BY <1>1, JobAt DEF Settled, Job
  <1>5. Settled(j, playlists[i]) /\ ~PastPush(j)
    BY <1>2, <1>4 DEF Settled, FirstStep, PastPush
  <1>6. Spent(j, playlists[i], shutdowns)
    <2>1. j.retries \in Nat /\ Ended(j) /\ playlists[i] <= j.retries + shutdowns + 1
      BY <1>1, <1>2, JobAt DEF Ended, Job
    <2> QED BY <2>1, JobAt DEF Spent
  <1> QED BY <1>2, <1>3, <1>5, <1>6, JobAt, OneJob DEF PutImage

LEMMA RequestOK ==
    ASSUME KInv, NEW r \in Requests, Request(r)
    PROVE  KInv'
  <1> DEFINE j == NewJob("Playlist", r, "clean")
  <1>1. j \in Job /\ Settled(j, 0) /\ ~PastPush(j)
    BY WorkersAssumption DEF NewJob, Job, FirstStep, Settled, PastPush
  <1>2. jobs \in Seq(Job) /\ Push(jobs, j) /\ UNCHANGED <<shutdowns, crashes>>
    BY DEF KInv, TypeOK, Request
  <1> HIDE DEF j
  <1> QED BY <1>1, <1>2, JobAt, NewJobs

(* The Create job is in the queue before its Playlist job can be done. *)
LEMMA PushCreateOK ==
    ASSUME KInv, NEW i \in DOMAIN jobs, PushCreate(i)
    PROVE  KInv'
  <1>1. jobs[i] \in Job /\ jobs[i].pc = "push" /\ jobs[i].state = "running" /\ jobs \in Seq(Job)
    BY JobAt DEF PushCreate, Running, KInv, TypeOK
  <1> DEFINE j == NewJob("Create", jobs[i].request, jobs[i].title)
             p == [jobs[i] EXCEPT !.pc = "return"]
             others == [jobs EXCEPT ![i] = p]
  <1>2. Push(others, j) /\ UNCHANGED <<shutdowns, crashes>>
    BY <1>1 DEF PushCreate
  <1>3. jobs[i].request \in Requests /\ jobs[i].title \in Titles
    BY <1>1 DEF Job
  <1>4. j \in Job /\ j.class = "Create" /\ j.request = jobs[i].request /\ Settled(j, 0) /\ ~PastPush(j)
    BY <1>3 DEF NewJob, Job, FirstStep, Settled, PastPush
  <1>5. /\ p \in Job /\ p.class = jobs[i].class /\ p.request = jobs[i].request
        /\ p.state = "running" /\ p.pc = "return" /\ p.retries = jobs[i].retries
    BY <1>1 DEF Job
  <1> HIDE DEF j, p
  <1>6. Settled(p, playlists[i]) /\ Spent(p, playlists[i], shutdowns)
    <2>1. jobs[i].class = "Playlist"
      BY <1>1, JobAt DEF Settled, Job
    <2> QED BY <1>1, <1>5, <2>1, JobAt DEF Settled, Spent, Ended
  <1>7. /\ others \in Seq(Job) /\ Len(others) = Len(jobs)
        /\ others[i] = p /\ \A k \in DOMAIN jobs : k # i => others[k] = jobs[k]
    BY <1>1, <1>5
  <1> HIDE DEF others
  <1>8. ASSUME NEW k \in DOMAIN jobs
        PROVE  /\ others[k].class = jobs[k].class /\ others[k].request = jobs[k].request
               /\ Settled(others[k], playlists[k])
               /\ Spent(others[k], playlists[k], shutdowns)
               /\ PastPush(others[k]) =>
                    PastPush(jobs[k]) \/ (j.class = "Create" /\ j.request = jobs[k].request)
    <2>1. CASE k = i
      BY <2>1, <1>4, <1>5, <1>6, <1>7
    <2>2. CASE k # i
      BY <2>2, <1>7, JobAt
    <2> QED BY <2>1, <2>2
  <1> QED BY <1>2, <1>4, <1>7, <1>8, NewJobs

(* A restart more leaves the bound on a job's playlists as wide or wider.   *)
LEMMA MoreShutdowns ==
    ASSUME NEW made \in Nat, NEW retries \in Nat, NEW before \in Nat, NEW e \in {0, 1},
           made <= retries + before + e
    PROVE  made <= retries + (before + 1) + e
  OBVIOUS

(* Every job that runs leaves the process: for the queue, which the count   *)
(* of restarts makes up for, or for good.                                   *)
LEMMA AllRunningOK ==
    ASSUME KInv, NEW state \in {"queued", "lost"}, AllRunning(state),
           UNCHANGED playlists, shutdowns' \in 0..MaxShutdowns, crashes' \in 0..MaxCrashes,
           IF state = "queued" THEN shutdowns' = shutdowns + 1 ELSE shutdowns' = shutdowns
    PROVE  KInv'
  <1>1. jobs \in Seq(Job) /\ playlists \in Seq(Nat) /\ Len(playlists) = Len(jobs)
        /\ shutdowns \in Nat
    BY WorkersAssumption DEF KInv, TypeOK
  <1> DEFINE Moved(j) == IF j.state = "running" THEN Leave(j, state) ELSE j
  <1>2. \A j \in Job : /\ Moved(j) \in Job
                       /\ Moved(j).class = j.class /\ Moved(j).request = j.request
    BY Left
  <1>3. jobs' = [k \in 1..Len(jobs) |-> Moved(jobs[k])]
    BY <1>1 DEF AllRunning
  <1> HIDE DEF Moved
  <1>4. /\ jobs' \in Seq(Job) /\ Len(jobs') = Len(jobs) /\ DOMAIN jobs' = DOMAIN jobs
        /\ \A k \in DOMAIN jobs : jobs'[k] = Moved(jobs[k])
    BY <1>1, <1>2, <1>3
  <1>5. TypeOK'
    BY <1>1, <1>4 DEF TypeOK
  <1>6. ASSUME NEW r, HandedOn(jobs, r) PROVE HandedOn(jobs', r)
    <2>1. PICK k \in DOMAIN jobs : jobs[k].class = "Create" /\ jobs[k].request = r
      BY <1>6 DEF HandedOn
    <2>2. jobs'[k].class = "Create" /\ jobs'[k].request = r
      BY <2>1, <1>1, <1>2, <1>4
    <2> QED BY <2>2, <1>4 DEF HandedOn
  <1>7. ASSUME NEW k \in DOMAIN jobs'
        PROVE  /\ Settled(jobs'[k], playlists'[k])
               /\ Spent(jobs'[k], playlists'[k], shutdowns')
               /\ PastPush(jobs'[k]) => HandedOn(jobs', jobs'[k].request)
    <2>1. k \in DOMAIN jobs /\ jobs[k] \in Job
      BY <1>1, <1>4
    <2>2. CASE jobs[k].state = "running"
      <3> DEFINE j == Leave(jobs[k], state)
      <3>1. /\ jobs'[k] = j
            /\ j.class = jobs[k].class /\ j.state = state /\ j.retries = jobs[k].retries
            /\ j.pc = FirstStep(j.class) /\ j.pc \notin {"return", "tracks", "image"}
        BY <2>1, <2>2, <1>4, Left DEF Moved
      <3> HIDE DEF j
      <3>2. Settled(j, playlists[k]) /\ ~PastPush(j)
        BY <2>1, <3>1 DEF Settled, PastPush, FirstStep, Job
      <3>3. Spent(j, playlists[k], shutdowns')
        <4>1. j.retries \in Nat /\ playlists[k] <= j.retries + shutdowns + 1
          BY <2>1, <3>1, JobAt DEF Job
        <4>2. CASE state = "lost"
          <5>1. Ended(j) /\ shutdowns' = shutdowns
            BY <3>1, <4>2 DEF Ended
          <5> QED BY <1>1, <4>1, <5>1 DEF Spent
        <4>3. CASE state = "queued"
          <5>1. shutdowns' = shutdowns + 1 /\ playlists[k] \in Nat
            BY <2>1, <4>3, JobAt
          <5> QED BY <1>1, <4>1, <5>1 DEF Spent
        <4> QED BY <4>2, <4>3
      <3> QED BY <3>1, <3>2, <3>3
    <2>3. CASE jobs[k].state # "running"
      <3>1. jobs'[k] = jobs[k]
        BY <2>1, <2>3, <1>4 DEF Moved
      <3>2. Spent(jobs[k], playlists[k], shutdowns')
        <4> DEFINE e == IF jobs[k].pc \in {"tracks", "image"} \/ Ended(jobs[k]) THEN 1 ELSE 0
        <4>1. jobs[k].retries \in Nat /\ playlists[k] \in Nat /\ e \in {0, 1}
          BY <2>1, JobAt DEF Job
        <4>2. playlists[k] <= jobs[k].retries + shutdowns + e
          BY <2>1, JobAt DEF Spent
        <4> HIDE DEF e
        <4>3. playlists[k] <= jobs[k].retries + shutdowns' + e
          BY <1>1, <4>1, <4>2, MoreShutdowns
        <4> QED BY <4>3 DEF Spent, e
      <3> QED BY <2>1, <3>1, <3>2, <1>6 DEF KInv
    <2> QED BY <2>2, <2>3
  <1> QED BY <1>5, <1>7 DEF KInv
-------------------------------------------------------------------------------
LEMMA KInvInit == Init => KInv
  <1> SUFFICES ASSUME Init PROVE KInv
    OBVIOUS
  <1>1. TypeOK
    BY WorkersAssumption DEF Init, TypeOK
  <1>2. DOMAIN jobs = {}
    BY DEF Init
  <1> QED BY <1>1, <1>2 DEF KInv

LEMMA KInvStep == KInv /\ [Next]_vars => KInv'
  <1> SUFFICES ASSUME KInv, [Next]_vars PROVE KInv'
    OBVIOUS
  <1>1. CASE \E r \in Requests : Request(r)
    BY <1>1, RequestOK
  <1>2. CASE \E i \in DOMAIN jobs : Fetch(i) \/ Poll(i)
    BY <1>2, FetchOK, PollOK
  <1>3. CASE \E i \in DOMAIN jobs : Perform(i)
    BY <1>3, AskOK, PushCreateOK, ReturnOK, FindNothingOK, CreatePlaylistOK,
       AddTracksOK, PutImageOK, RaiseOK DEF Perform
  <1>4. CASE Shutdown
    <2>1. shutdowns' \in 0..MaxShutdowns /\ crashes' \in 0..MaxCrashes
      BY <1>4, WorkersAssumption DEF Shutdown, KInv, TypeOK
    <2> QED BY <1>4, <2>1, AllRunningOK DEF Shutdown
  <1>5. CASE Crash
    <2>1. shutdowns' \in 0..MaxShutdowns /\ crashes' \in 0..MaxCrashes
      BY <1>5, WorkersAssumption DEF Crash, KInv, TypeOK
    <2> QED BY <1>5, <2>1, AllRunningOK DEF Crash
  <1>6. CASE UNCHANGED vars
    BY <1>6 DEF vars, KInv, TypeOK
  <1>7. CASE Quiet
    BY <1>6, <1>7 DEF Quiet
  <1>8. CASE \E i \in DOMAIN jobs : Fetch(i) \/ Perform(i) \/ Poll(i)
    BY <1>2, <1>3, <1>8
  <1> QED BY <1>1, <1>4, <1>5, <1>6, <1>7, <1>8 DEF Next

LEMMA KInvAlways == Spec => []KInv
  BY KInvInit, KInvStep, PTL DEF Spec

(* The jobs and the playlists are what Sidekiq and Spotify can hold, in every *)
(* reachable state.                                                           *)
THEOREM TypeCorrect == Spec => []TypeOK
  <1>1. KInv => TypeOK
    BY DEF KInv
  <1> QED BY <1>1, KInvAlways, PTL

(* A request that home#create_playlist let through is never forgotten,        *)
(* whatever raises, restarts or is killed: a Playlist job is done only with a *)
(* Create job behind it, and a Create job only with a playlist or no song.    *)
THEOREM Remembered == Spec => []NothingVanishes
  <1>1. KInv => NothingVanishes
    <2> SUFFICES ASSUME KInv, NEW r \in Requests, NEW i \in JobsOf(r)
                 PROVE  \E k \in JobsOf(r) :
                           jobs[k].state # "done" \/ playlists[k] > 0 \/ ~jobs[k].found
      BY DEF NothingVanishes
    <2>1. i \in DOMAIN jobs /\ jobs[i].request = r /\ jobs[i] \in Job
      BY JobAt DEF JobsOf
    <2>2. ASSUME NEW k \in DOMAIN jobs, jobs[k].class = "Create"
          PROVE  jobs[k].state # "done" \/ playlists[k] > 0 \/ ~jobs[k].found
      BY <2>2, JobAt DEF Settled
    <2>3. CASE jobs[i].class = "Create"
      BY <2>1, <2>2, <2>3
    <2>4. CASE jobs[i].class = "Playlist" /\ jobs[i].state = "done"
      <3>1. HandedOn(jobs, r)
        BY <2>1, <2>4 DEF KInv, PastPush
      <3>2. PICK k \in DOMAIN jobs : jobs[k].class = "Create" /\ jobs[k].request = r
        BY <3>1 DEF HandedOn
      <3> QED BY <2>2, <3>2 DEF JobsOf
    <2> QED BY <2>1, <2>3, <2>4 DEF Job
  <1> QED BY <1>1, KInvAlways, PTL

(* A Create job creates at most one playlist per attempt: its retries and the *)
(* restarts of Sidekiq bound what it leaves on Spotify.                       *)
THEOREM OneAnAttempt == Spec => []PlaylistsBounded
  <1>1. KInv => PlaylistsBounded
    <2> SUFFICES ASSUME KInv, NEW i \in DOMAIN jobs
                 PROVE  playlists[i] <= 1 + jobs[i].retries + shutdowns
      BY DEF PlaylistsBounded
    <2>1. jobs[i].retries \in Nat
      BY JobAt DEF Job
    <2> QED BY <2>1, JobAt
  <1> QED BY <1>1, KInvAlways, PTL
===============================================================================
