------------------------------ MODULE StatsProofs ------------------------------
(***************************************************************************)
(* The daily statistics, for every set of threads, every answer of Spotify *)
(* and any number of jobs, failures and restarts.                          *)
(***************************************************************************)
EXTENDS Stats, SequenceTheorems, FiniteSetTheorems, NaturalsInduction, TLAPS

(* Objects in memory: those of requests differ from the row they were read *)
(* from in nothing, those of jobs in the genres; what a job holds and what *)
(* the row shows was ranked from an answer; a timestamp is the time of a   *)
(* job.                                                                    *)
KInv ==
    /\ TypeOK
    /\ \A t \in Threads : req[t].data.attr = req[t].data.orig
    /\ \A t \in Threads : req[t].pc = "stamp" =>
          req[t].job \in DOMAIN jobs /\ jobs[req[t].job].at = req[t].stamp
    /\ \A i \in DOMAIN jobs : jobs[i].pc = "load" => jobs[i].top \in RankedFrom(answers)
    /\ \A i \in DOMAIN jobs : jobs[i].pc = "save" =>
          /\ jobs[i].data.attr.favorite_genre \in RankedFrom(answers)
          /\ jobs[i].data.attr.timestamp = jobs[i].data.orig.timestamp
    /\ row.favorite_genre # DefaultGenres => row.favorite_genre \in RankedFrom(answers)
    /\ FreshHasJob

(* What one job may hold. *)
Holding(j, A) ==
    /\ j.pc = "load" => j.top \in RankedFrom(A)
    /\ j.pc = "save" => /\ j.data.attr.favorite_genre \in RankedFrom(A)
                        /\ j.data.attr.timestamp = j.data.orig.timestamp

LEMMA MoreAnswers ==
    ASSUME NEW A, NEW B, A \subseteq B
    PROVE  RankedFrom(A) \subseteq RankedFrom(B)
  BY DEF RankedFrom

(* A partial write of a row of `spotifydata`. *)
LEMMA RowWritten ==
    ASSUME NEW r \in Row, NEW o \in Objects(Row)
    PROVE  /\ Written(r, o) \in Row
           /\ Written(r, o).favorite_genre =
                 IF o.attr.favorite_genre # o.orig.favorite_genre THEN o.attr.favorite_genre
                                                                  ELSE r.favorite_genre
           /\ Written(r, o).timestamp =
                 IF o.attr.timestamp # o.orig.timestamp THEN o.attr.timestamp
                                                        ELSE r.timestamp
  <1> DEFINE G == Rankings \cup {DefaultGenres}
             w == Written(r, o)
  <1>1. r \in [favorite_genre : G, timestamp : Int]
        /\ o \in [attr : [favorite_genre : G, timestamp : Int],
                  orig : [favorite_genre : G, timestamp : Int]]
    BY DEF Row, Objects
  <1> HIDE DEF G
  <1>2. w = [c \in {"favorite_genre", "timestamp"} |->
                IF o.attr[c] # o.orig[c] THEN o.attr[c] ELSE r[c]]
    BY <1>1 DEF Written, Dirty
  <1> HIDE DEF w
  <1>3. /\ w.favorite_genre = IF o.attr.favorite_genre # o.orig.favorite_genre
                              THEN o.attr.favorite_genre ELSE r.favorite_genre
        /\ w.timestamp = IF o.attr.timestamp # o.orig.timestamp
                         THEN o.attr.timestamp ELSE r.timestamp
    BY <1>2
  <1>4. w \in [favorite_genre : G, timestamp : Int]
    <2>1. w = [favorite_genre |-> w.favorite_genre, timestamp |-> w.timestamp]
      BY <1>2
    <2>2. w.favorite_genre \in G /\ w.timestamp \in Int
      BY <1>1, <1>3
    <2> QED BY <2>1, <2>2
  <1> QED BY <1>3, <1>4 DEF w, G, Row

LEMMA FirstRow ==
    /\ NewRow \in Row /\ NewRow.timestamp = LongAgo /\ NewRow.favorite_genre = DefaultGenres
    /\ Loaded(NewRow) \in Objects(Row)
    /\ Loaded(NewRow).attr = Loaded(NewRow).orig
    /\ Idle \in Request /\ Idle.pc = "idle" /\ Idle.data = Loaded(NewRow)
  <1>1. LongAgo \in Int
    BY StatsAssumption DEF LongAgo
  <1>2. NewRow \in Row /\ NewRow.timestamp = LongAgo /\ NewRow.favorite_genre = DefaultGenres
    BY <1>1 DEF NewRow, Row
  <1>3. Loaded(NewRow) \in Objects(Row) /\ Loaded(NewRow).attr = Loaded(NewRow).orig
    BY <1>2 DEF Loaded, Objects
  <1>4. Idle \in Request /\ Idle.pc = "idle" /\ Idle.data = Loaded(NewRow)
    <2> DEFINE d == Loaded(NewRow)
    <2>1. Idle = [pc |-> "idle", data |-> d, job |-> 0, stamp |-> 0]
      BY DEF Idle
    <2> HIDE DEF d
    <2> QED BY <1>3, <2>1 DEF Request, d
  <1> QED BY <1>2, <1>3, <1>4

LEMMA LoadedRow ==
    ASSUME NEW r \in Row
    PROVE  /\ Loaded(r) \in Objects(Row) /\ Loaded(r).attr = r /\ Loaded(r).orig = r
  BY DEF Loaded, Objects

LEMMA ObjectParts ==
    ASSUME NEW o \in Objects(Row)
    PROVE  /\ o.attr \in Row /\ o.orig \in Row
           /\ o.attr.favorite_genre \in Rankings \cup {DefaultGenres}
           /\ o.attr.timestamp \in Int /\ o.orig.timestamp \in Int
  BY DEF Objects, Row

(* The timestamp, and the genres, of an object in memory. *)
LEMMA Stamped ==
    ASSUME NEW o \in Objects(Row), NEW time \in Int
    PROVE  /\ SetTimestamp(o, time) \in Objects(Row)
           /\ SetTimestamp(o, time).attr.timestamp = time
           /\ SetTimestamp(o, time).attr.favorite_genre = o.attr.favorite_genre
           /\ SetTimestamp(o, time).orig = o.orig
  <1> DEFINE a == [favorite_genre |-> o.attr.favorite_genre, timestamp |-> time]
  <1>1. a \in Row /\ o.attr \in Row /\ o.orig \in Row
        /\ a.timestamp = time /\ a.favorite_genre = o.attr.favorite_genre
    BY ObjectParts DEF Row
  <1>2. PICK e : e = SetTimestamp(o, time)
    OBVIOUS
  <1>3. e = [o EXCEPT !.attr = a]
    BY <1>2 DEF SetTimestamp
  <1> HIDE DEF a
  <1>4. e \in Objects(Row) /\ e.attr = a /\ e.orig = o.orig
    BY <1>1, <1>3 DEF Objects
  <1> QED BY <1>1, <1>2, <1>4

LEMMA Assigned ==
    ASSUME NEW o \in Objects(Row), NEW top \in Rankings
    PROVE  /\ SetGenres(o, top) \in Objects(Row)
           /\ SetGenres(o, top).attr.favorite_genre = top
           /\ SetGenres(o, top).attr.timestamp = o.attr.timestamp
           /\ SetGenres(o, top).orig = o.orig
  <1> DEFINE b == [favorite_genre |-> top, timestamp |-> o.attr.timestamp]
  <1>1. b \in Row /\ o.attr \in Row /\ o.orig \in Row
        /\ b.favorite_genre = top /\ b.timestamp = o.attr.timestamp
    BY ObjectParts DEF Row
  <1>2. PICK e : e = SetGenres(o, top)
    OBVIOUS
  <1>3. e = [o EXCEPT !.attr = b]
    BY <1>2 DEF SetGenres
  <1> HIDE DEF b
  <1>4. e \in Objects(Row) /\ e.attr = b /\ e.orig = o.orig
    BY <1>1, <1>3 DEF Objects
  <1> QED BY <1>1, <1>2, <1>4
-------------------------------------------------------------------------------
(* Steps of requests and jobs. *)

(* What a request may hold, given the jobs q. *)
Ready(r, q) ==
    /\ r.data.attr = r.data.orig
    /\ r.pc = "stamp" => r.job \in DOMAIN q /\ q[r.job].at = r.stamp

LEMMA ReqSet ==
    ASSUME KInv, NEW t \in Threads, NEW r \in Request, Ready(r, jobs'),
           req' = [req EXCEPT ![t] = r],
           DOMAIN jobs \subseteq DOMAIN jobs',
           \A i \in DOMAIN jobs : jobs'[i].at = jobs[i].at
    PROVE  req' \in [Threads -> Request] /\ \A u \in Threads : Ready(req'[u], jobs')
  <1>1. req \in [Threads -> Request] /\ \A u \in Threads : Ready(req[u], jobs)
    BY DEF KInv, TypeOK, Ready
  <1>2. \A u \in Threads : Ready(req[u], jobs')
    BY <1>1 DEF Ready
  <1>3. \A u \in Threads : req'[u] = IF u = t THEN r ELSE req[u]
    BY <1>1
  <1> QED BY <1>1, <1>2, <1>3

(* Jobs are neither pushed nor followed by a timestamp. *)
SamePushes ==
    /\ Len(jobs') = Len(jobs)
    /\ \A k \in DOMAIN jobs : jobs'[k].at = jobs[k].at /\ jobs'[k].stamped = jobs[k].stamped

LEMMA JobSet ==
    ASSUME KInv, NEW i \in DOMAIN jobs, NEW j \in Job, j.at = jobs[i].at,
           answers \subseteq answers', Holding(j, answers'),
           jobs' = [jobs EXCEPT ![i] = j]
    PROVE  /\ jobs' \in Seq(Job) /\ DOMAIN jobs' = DOMAIN jobs /\ Len(jobs') = Len(jobs)
           /\ jobs'[i] = j /\ \A k \in DOMAIN jobs : k # i => jobs'[k] = jobs[k]
           /\ \A k \in DOMAIN jobs : jobs'[k].at = jobs[k].at
           /\ \A k \in DOMAIN jobs' : Holding(jobs'[k], answers')
  <1>1. jobs \in Seq(Job) /\ DOMAIN jobs = 1..Len(jobs)
    BY DEF KInv, TypeOK
  <1>2. /\ jobs' \in Seq(Job) /\ DOMAIN jobs' = DOMAIN jobs /\ Len(jobs') = Len(jobs)
        /\ jobs'[i] = j /\ \A k \in DOMAIN jobs : k # i => jobs'[k] = jobs[k]
    BY <1>1
  <1>3. \A k \in DOMAIN jobs : jobs'[k].at = jobs[k].at
    BY <1>2
  <1>4. \A k \in DOMAIN jobs : Holding(jobs[k], answers)
    BY DEF KInv, Holding
  <1>5. \A k \in DOMAIN jobs : Holding(jobs[k], answers')
    BY <1>4, MoreAnswers DEF Holding
  <1> QED BY <1>2, <1>3, <1>5

(* Nothing but the jobs and the requests that a step names changes: put      *)
(* together.                                                                 *)
LEMMA Together ==
    ASSUME KInv,
           now' \in Nat, row' \in Row, answers' \subseteq Tracks,
           jobs' \in Seq(Job), DOMAIN jobs \subseteq DOMAIN jobs',
           \A k \in DOMAIN jobs : jobs'[k].at = jobs[k].at,
           \A k \in DOMAIN jobs' : Holding(jobs'[k], answers'),
           req' \in [Threads -> Request], \A u \in Threads : Ready(req'[u], jobs'),
           row'.favorite_genre = DefaultGenres \/ row'.favorite_genre \in RankedFrom(answers'),
           row'.timestamp = row.timestamp
              \/ \E k \in DOMAIN jobs' : jobs'[k].at = row'.timestamp
    PROVE  KInv'
  <1>1. TypeOK'
    BY DEF TypeOK
  <1>2. FreshHasJob'
    BY DEF KInv, FreshHasJob
  <1> QED BY <1>1, <1>2 DEF KInv, Ready, Holding

(* The jobs and the requests as they are. *)
LEMMA AsTheyAre ==
    ASSUME KInv, answers \subseteq answers'
    PROVE  /\ jobs \in Seq(Job) /\ DOMAIN jobs = 1..Len(jobs) /\ Len(jobs) \in Nat
           /\ \A k \in DOMAIN jobs : jobs[k] \in Job /\ Holding(jobs[k], answers')
           /\ req \in [Threads -> Request]
           /\ \A u \in Threads : req[u] \in Request /\ Ready(req[u], jobs)
           /\ row.favorite_genre = DefaultGenres \/ row.favorite_genre \in RankedFrom(answers')
           /\ now \in Nat /\ row \in Row /\ answers \subseteq Tracks
  <1>1. /\ jobs \in Seq(Job) /\ req \in [Threads -> Request]
        /\ now \in Nat /\ row \in Row /\ answers \subseteq Tracks
    BY DEF KInv, TypeOK
  <1>2. DOMAIN jobs = 1..Len(jobs) /\ Len(jobs) \in Nat /\ \A k \in DOMAIN jobs : jobs[k] \in Job
    BY <1>1
  <1>3. \A k \in DOMAIN jobs : Holding(jobs[k], answers')
    <2>1. \A k \in DOMAIN jobs : Holding(jobs[k], answers)
      BY DEF KInv, Holding
    <2> QED BY <2>1, MoreAnswers DEF Holding
  <1>4. \A u \in Threads : req[u] \in Request /\ Ready(req[u], jobs)
    BY <1>1 DEF KInv, Ready
  <1>5. row.favorite_genre = DefaultGenres \/ row.favorite_genre \in RankedFrom(answers')
    BY MoreAnswers DEF KInv
  <1> QED BY <1>1, <1>2, <1>3, <1>4, <1>5

(* A step of one job that writes no row. *)
LEMMA JobStep ==
    ASSUME KInv, NEW i \in DOMAIN jobs, NEW j \in Job, j.at = jobs[i].at,
           answers \subseteq answers', answers' \subseteq Tracks, Holding(j, answers'),
           jobs' = [jobs EXCEPT ![i] = j], UNCHANGED <<now, row, req>>,
           j.stamped = jobs[i].stamped
    PROVE  KInv' /\ SamePushes
  <1>1. /\ jobs' \in Seq(Job) /\ DOMAIN jobs' = DOMAIN jobs
        /\ \A k \in DOMAIN jobs : jobs'[k].at = jobs[k].at
        /\ \A k \in DOMAIN jobs' : Holding(jobs'[k], answers')
        /\ SamePushes
    BY JobSet DEF SamePushes
  <1>2. \A u \in Threads : Ready(req'[u], jobs')
    BY <1>1, AsTheyAre DEF Ready
  <1> QED BY <1>1, <1>2, AsTheyAre, Together

LEMMA JobParts ==
    ASSUME NEW j \in Job
    PROVE  /\ j.at \in Int /\ j.stamped \in BOOLEAN /\ j.retries \in Nat
           /\ j.top \in Rankings \cup {nil} /\ j.data \in Objects(Row)
  BY DEF Job

(* The job fields that the steps of perform change. *)
LEMMA JobFields ==
    ASSUME NEW j \in Job, NEW p \in {"queued", "load", "save", "return", "done", "dead", "lost"},
           NEW top \in Rankings \cup {nil}, NEW data \in Objects(Row), NEW n \in Nat,
           NEW k, k = [at |-> j.at, stamped |-> j.stamped, retries |-> n, pc |-> p,
                       top |-> top, data |-> data]
    PROVE  k \in Job /\ k.at = j.at /\ k.stamped = j.stamped /\ k.pc = p
           /\ k.top = top /\ k.data = data /\ k.retries = n
  BY JobParts DEF Job

(* A record is its fields. *)
LEMMA JobRecord ==
    ASSUME NEW j \in Job
    PROVE  j = [at |-> j.at, stamped |-> j.stamped, retries |-> j.retries, pc |-> j.pc,
                top |-> j.top, data |-> j.data]
  BY DEF Job

LEMMA FetchOK ==
    ASSUME KInv, NEW i \in DOMAIN jobs, FetchTopTracks(i)
    PROVE  KInv' /\ UNCHANGED <<now, row, req>> /\ SamePushes
  <1>1. PICK tracks \in Tracks : answers' = answers \cup {tracks} /\
           \E top \in CalculateTopGenres(ExtractGenresFromTracks(tracks)) :
               jobs' = [jobs EXCEPT ![i] = [jobs[i] EXCEPT !.pc = "load", !.top = top]]
    BY DEF FetchTopTracks
  <1>2. PICK top \in CalculateTopGenres(ExtractGenresFromTracks(tracks)) :
               jobs' = [jobs EXCEPT ![i] = [jobs[i] EXCEPT !.pc = "load", !.top = top]]
    BY <1>1
  <1>3. top \in RankedFrom(answers') /\ top \in Rankings
    BY <1>1, <1>2 DEF RankedFrom, Rankings
  <1>4. answers \subseteq answers' /\ answers' \subseteq Tracks
    BY <1>1 DEF KInv, TypeOK
  <1>5. jobs[i] \in Job
    BY <1>4, AsTheyAre
  <1>6. PICK j : j = [jobs[i] EXCEPT !.pc = "load", !.top = top]
    OBVIOUS
  <1>7. j = [at |-> jobs[i].at, stamped |-> jobs[i].stamped, retries |-> jobs[i].retries,
             pc |-> "load", top |-> top, data |-> jobs[i].data]
    BY <1>5, <1>6 DEF Job
  <1>8. /\ j \in Job /\ j.at = jobs[i].at /\ j.pc = "load" /\ j.top = top
        /\ j.stamped = jobs[i].stamped
    BY <1>3, <1>5, <1>7, JobParts, JobFields
  <1>9. Holding(j, answers')
    BY <1>3, <1>8 DEF Holding
  <1>10. jobs' = [jobs EXCEPT ![i] = j]
    BY <1>2, <1>6
  <1> QED BY <1>4, <1>8, <1>9, <1>10, JobStep DEF FetchTopTracks

LEMMA LoadOK ==
    ASSUME KInv, NEW i \in DOMAIN jobs, LoadData(i)
    PROVE  KInv' /\ UNCHANGED <<now, row, req>> /\ SamePushes
  <1> DEFINE d == SetGenres(Loaded(row), jobs[i].top)
  <1>1. /\ jobs[i].pc = "load" /\ answers' = answers /\ UNCHANGED <<now, row, req>>
        /\ jobs' = [jobs EXCEPT ![i] = [jobs[i] EXCEPT !.pc = "save", !.data = d]]
    BY DEF LoadData
  <1>2. jobs[i] \in Job /\ row \in Row /\ answers \subseteq Tracks /\ Holding(jobs[i], answers)
    BY <1>1, AsTheyAre
  <1>3. jobs[i].top \in RankedFrom(answers) /\ jobs[i].top \in Rankings
    BY <1>1, <1>2, MoreAnswers DEF Holding, Rankings
  <1>4. d \in Objects(Row) /\ d.attr.favorite_genre = jobs[i].top
        /\ d.attr.timestamp = d.orig.timestamp
    BY <1>2, <1>3, LoadedRow, Assigned
  <1> HIDE DEF d
  <1>5. PICK j : j = [jobs[i] EXCEPT !.pc = "save", !.data = d]
    OBVIOUS
  <1>6. j = [at |-> jobs[i].at, stamped |-> jobs[i].stamped, retries |-> jobs[i].retries,
             pc |-> "save", top |-> jobs[i].top, data |-> d]
    BY <1>2, <1>5 DEF Job
  <1>7. /\ j \in Job /\ j.at = jobs[i].at /\ j.pc = "save" /\ j.data = d
        /\ j.stamped = jobs[i].stamped
    BY <1>2, <1>4, <1>6, JobParts, JobFields
  <1>8. Holding(j, answers')
    BY <1>1, <1>3, <1>4, <1>7 DEF Holding
  <1>9. jobs' = [jobs EXCEPT ![i] = j]
    BY <1>1, <1>5
  <1> QED BY <1>1, <1>2, <1>7, <1>8, <1>9, JobStep

LEMMA SaveOK ==
    ASSUME KInv, NEW i \in DOMAIN jobs, SaveData(i)
    PROVE  /\ KInv' /\ UNCHANGED <<now, req>> /\ SamePushes
           /\ row'.timestamp = row.timestamp
           /\ row.favorite_genre # DefaultGenres => row'.favorite_genre # DefaultGenres
  <1>1. /\ jobs[i].pc = "save" /\ answers' = answers /\ UNCHANGED <<now, req>>
        /\ row' = Written(row, jobs[i].data)
        /\ jobs' = [jobs EXCEPT ![i] = [jobs[i] EXCEPT !.pc = "return"]]
    BY DEF SaveData
  <1>2. /\ jobs[i] \in Job /\ row \in Row /\ answers \subseteq Tracks /\ Holding(jobs[i], answers)
        /\ row.favorite_genre = DefaultGenres \/ row.favorite_genre \in RankedFrom(answers)
    BY <1>1, AsTheyAre
  <1>3. jobs[i].data \in Objects(Row)
    BY <1>2, JobParts
  <1>4. /\ row' \in Row /\ row'.timestamp = row.timestamp
        /\ row'.favorite_genre = jobs[i].data.attr.favorite_genre
              \/ row'.favorite_genre = row.favorite_genre
    BY <1>1, <1>2, <1>3, RowWritten DEF Holding
  <1>5. jobs[i].data.attr.favorite_genre \in RankedFrom(answers)
    BY <1>1, <1>2 DEF Holding
  <1>6. row'.favorite_genre = DefaultGenres \/ row'.favorite_genre \in RankedFrom(answers')
    BY <1>1, <1>2, <1>4, <1>5
  <1>7. row.favorite_genre # DefaultGenres => row'.favorite_genre # DefaultGenres
    <2>1. jobs[i].data.attr.favorite_genre \in Rankings
      BY <1>2, <1>5, MoreAnswers DEF Rankings
    <2> QED BY <1>4, <2>1, StatsDefaults
  <1>8. PICK j : j = [jobs[i] EXCEPT !.pc = "return"]
    OBVIOUS
  <1>9. j = [at |-> jobs[i].at, stamped |-> jobs[i].stamped, retries |-> jobs[i].retries,
             pc |-> "return", top |-> jobs[i].top, data |-> jobs[i].data]
    BY <1>2, <1>8 DEF Job
  <1>10. /\ j \in Job /\ j.at = jobs[i].at /\ j.pc = "return"
         /\ j.stamped = jobs[i].stamped
    BY <1>2, <1>9, JobParts, JobFields
  <1>11. Holding(j, answers')
    BY <1>10 DEF Holding
  <1>12. /\ jobs' \in Seq(Job) /\ DOMAIN jobs' = DOMAIN jobs
         /\ \A k \in DOMAIN jobs : jobs'[k].at = jobs[k].at
         /\ \A k \in DOMAIN jobs' : Holding(jobs'[k], answers')
         /\ SamePushes
    BY <1>1, <1>8, <1>10, <1>11, JobSet DEF SamePushes
  <1>13. \A u \in Threads : Ready(req'[u], jobs')
    BY <1>1, <1>12, AsTheyAre DEF Ready
  <1>14. KInv'
    BY <1>1, <1>2, <1>4, <1>6, <1>12, <1>13, AsTheyAre, Together
  <1> QED BY <1>1, <1>4, <1>7, <1>12, <1>14

(* perform ends, or is cut off. *)
LEMMA LeaveOK ==
    ASSUME KInv, NEW i \in DOMAIN jobs, Return(i) \/ Raise(i) \/ Kill(i)
    PROVE  KInv' /\ UNCHANGED <<now, row, req>> /\ SamePushes
  <1>1. answers' = answers /\ UNCHANGED <<now, row, req>>
    BY DEF Return, Raise, Kill
  <1>2. jobs[i] \in Job /\ answers \subseteq Tracks
    BY <1>1, AsTheyAre
  <1> DEFINE R(p, n) == [at |-> jobs[i].at, stamped |-> jobs[i].stamped, retries |-> n, pc |-> p,
                         top |-> nil, data |-> Loaded(NewRow)]
  <1>3. \A p : Leave(jobs[i], p) = R(p, jobs[i].retries)
    <2> SUFFICES ASSUME NEW p PROVE Leave(jobs[i], p) = R(p, jobs[i].retries)
      OBVIOUS
    <2> DEFINE d == Loaded(NewRow)
    <2>1. PICK k : k = Leave(jobs[i], p)
      OBVIOUS
    <2>2. k = [jobs[i] EXCEPT !.pc = p, !.top = nil, !.data = d]
      BY <2>1 DEF Leave
    <2> HIDE DEF d
    <2>3. k = [at |-> jobs[i].at, stamped |-> jobs[i].stamped, retries |-> jobs[i].retries,
               pc |-> p, top |-> nil, data |-> d]
      BY <1>2, <2>2 DEF Job
    <2> QED BY <2>1, <2>3 DEF d
  <1>4. [Leave(jobs[i], "queued") EXCEPT !.retries = jobs[i].retries + 1]
           = R("queued", jobs[i].retries + 1)
    BY <1>3
  <1>5. PICK p \in {"queued", "done", "dead", "lost"}, n \in Nat : jobs' = [jobs EXCEPT ![i] = R(p, n)]
    <2>1. jobs[i].retries \in Nat /\ jobs[i].retries + 1 \in Nat
      BY <1>2, JobParts
    <2> HIDE DEF R
    <2>2. CASE Return(i)
      <3>1. jobs' = [jobs EXCEPT ![i] = R("done", jobs[i].retries)]
        BY <1>3, <2>2 DEF Return
      <3> QED BY <2>1, <3>1
    <2>3. CASE Kill(i)
      <3>1. jobs' = [jobs EXCEPT ![i] = R("lost", jobs[i].retries)]
        BY <1>3, <2>3 DEF Kill
      <3> QED BY <2>1, <3>1
    <2>4. CASE Raise(i)
      <3>1. jobs' = [jobs EXCEPT ![i] = R("queued", jobs[i].retries + 1)]
            \/ jobs' = [jobs EXCEPT ![i] = R("dead", jobs[i].retries)]
        BY <1>3, <1>4, <2>4 DEF Raise
      <3> QED BY <2>1, <3>1
    <2> QED BY <2>2, <2>3, <2>4
  <1>6. PICK j : j = R(p, n)
    OBVIOUS
  <1>7. j \in Job /\ j.at = jobs[i].at /\ j.stamped = jobs[i].stamped /\ j.pc = p
    <2>1. nil \in Rankings \cup {nil} /\ Loaded(NewRow) \in Objects(Row)
      BY FirstRow
    <2> QED BY <1>2, <1>5, <1>6, <2>1, JobFields
  <1>8. Holding(j, answers')
    BY <1>5, <1>7 DEF Holding
  <1>9. jobs' = [jobs EXCEPT ![i] = j]
    BY <1>5, <1>6
  <1>10. KInv' /\ SamePushes
    BY <1>1, <1>2, <1>7, <1>8, <1>9, JobStep
  <1> QED BY <1>1, <1>10

LEMMA RequestParts ==
    ASSUME NEW r \in Request
    PROVE  /\ r.data \in Objects(Row) /\ r.job \in Nat /\ r.stamp \in Int
           /\ r.pc \in {"idle", "push", "stamp"}
  BY DEF Request

LEMMA CollectOK ==
    ASSUME KInv, NEW t \in Threads, CollectStats(t)
    PROVE  /\ KInv' /\ UNCHANGED <<now, row, jobs>>
           /\ req[t].pc = "idle" /\ row.timestamp <= now - Day
           /\ req'[t].pc = "push" /\ req'[t].data.orig = row
           /\ \A u \in Threads : u # t => req'[u] = req[u]
  <1> DEFINE d == Loaded(row)
  <1>1. UNCHANGED <<now, row, jobs, answers>> /\ req[t].pc = "idle" /\ row.timestamp <= now - Day
    BY DEF CollectStats, NeedsUpdating
  <1>2. row \in Row /\ req \in [Threads -> Request] /\ answers' = answers
    BY <1>1, AsTheyAre
  <1>3. d \in Objects(Row) /\ d.attr = row /\ d.orig = row
    BY <1>2, LoadedRow
  <1>4. PICK r : r = [Idle EXCEPT !.pc = "push", !.data = d]
    OBVIOUS
  <1>5. req' = [req EXCEPT ![t] = r]
    BY <1>4 DEF CollectStats
  <1> HIDE DEF d
  <1>6. r = [pc |-> "push", data |-> d, job |-> 0, stamp |-> 0]
    BY <1>4, FirstRow DEF Request, Idle
  <1>7. r \in Request /\ r.pc = "push" /\ r.data = d
    BY <1>3, <1>6 DEF Request
  <1>8. Ready(r, jobs')
    BY <1>3, <1>7 DEF Ready
  <1>9. req' \in [Threads -> Request] /\ \A u \in Threads : Ready(req'[u], jobs')
    BY <1>1, <1>5, <1>7, <1>8, ReqSet
  <1>10. KInv'
    BY <1>1, <1>2, <1>9, AsTheyAre, Together
  <1>11. req'[t] = r /\ \A u \in Threads : u # t => req'[u] = req[u]
    BY <1>2, <1>5
  <1> QED BY <1>1, <1>3, <1>7, <1>10, <1>11

LEMMA PushOK ==
    ASSUME KInv, NEW t \in Threads, Push(t)
    PROVE  /\ KInv' /\ UNCHANGED <<now, row>>
           /\ req[t].pc = "push" /\ req'[t].pc = "stamp" /\ req'[t].data = req[t].data
           /\ req'[t].stamp = now /\ req'[t].job = Len(jobs') /\ Len(jobs') = Len(jobs) + 1
           /\ \A k \in DOMAIN jobs : jobs'[k] = jobs[k]
           /\ jobs'[Len(jobs')].at = now /\ jobs'[Len(jobs')].stamped = FALSE
           /\ \A u \in Threads : u # t => req'[u] = req[u]
  <1>1. /\ UNCHANGED <<now, row, answers>> /\ req[t].pc = "push"
        /\ jobs' = Append(jobs, NewJob)
    BY DEF Push
  <1>2. /\ jobs \in Seq(Job) /\ DOMAIN jobs = 1..Len(jobs) /\ Len(jobs) \in Nat
        /\ req \in [Threads -> Request] /\ now \in Nat /\ req[t] \in Request
        /\ \A k \in DOMAIN jobs : Holding(jobs[k], answers')
        /\ Ready(req[t], jobs)
    BY <1>1, AsTheyAre
  <1>3. NewJob \in Job /\ NewJob.at = now /\ NewJob.stamped = FALSE /\ NewJob.pc = "queued"
    <2> DEFINE d == Loaded(NewRow)
    <2>1. d \in Objects(Row) /\ now \in Int
      BY <1>2, FirstRow
    <2>2. NewJob = [at |-> now, stamped |-> FALSE, retries |-> 0, pc |-> "queued",
                    top |-> nil, data |-> d]
      BY DEF NewJob
    <2> HIDE DEF d
    <2> QED BY <2>1, <2>2 DEF Job
  <1> DEFINE n == Len(jobs) + 1
  <1>4. /\ jobs' \in Seq(Job) /\ Len(jobs') = n /\ DOMAIN jobs' = 1..n /\ jobs'[n] = NewJob
        /\ \A k \in DOMAIN jobs : jobs'[k] = jobs[k]
    BY <1>1, <1>2, <1>3
  <1>5. \A k \in DOMAIN jobs' : Holding(jobs'[k], answers')
    <2>1. Holding(NewJob, answers')
      BY <1>3 DEF Holding
    <2>2. \A k \in DOMAIN jobs' : k = n \/ k \in DOMAIN jobs
      BY <1>2, <1>4
    <2> QED BY <1>2, <1>4, <2>1, <2>2
  <1>6. n \in Nat /\ n \in 1..n /\ DOMAIN jobs \subseteq DOMAIN jobs'
    BY <1>2, <1>4
  <1> HIDE DEF n
  <1>7. PICK r : r = [req[t] EXCEPT !.pc = "stamp", !.stamp = now, !.job = n]
    OBVIOUS
  <1>8. req' = [req EXCEPT ![t] = r]
    BY <1>7 DEF Push, n
  <1>9. r = [pc |-> "stamp", data |-> req[t].data, job |-> n, stamp |-> now]
    BY <1>2, <1>7 DEF Request
  <1>10. r \in Request /\ r.pc = "stamp" /\ r.data = req[t].data /\ r.job = n /\ r.stamp = now
    BY <1>2, <1>6, <1>9, RequestParts DEF Request
  <1>11. Ready(r, jobs')
    BY <1>2, <1>3, <1>4, <1>6, <1>10 DEF Ready
  <1>12. req' \in [Threads -> Request] /\ \A u \in Threads : Ready(req'[u], jobs')
    BY <1>4, <1>6, <1>8, <1>10, <1>11, ReqSet
  <1>13. KInv'
    BY <1>1, <1>4, <1>5, <1>6, <1>12, AsTheyAre, Together
  <1>14. req'[t] = r /\ \A u \in Threads : u # t => req'[u] = req[u]
    BY <1>2, <1>8
  <1> QED BY <1>1, <1>3, <1>4, <1>10, <1>13, <1>14 DEF n

LEMMA StampOK ==
    ASSUME KInv, NEW t \in Threads, Stamp(t)
    PROVE  /\ KInv' /\ now' = now
           /\ row'.timestamp = IF req[t].stamp # req[t].data.orig.timestamp
                               THEN req[t].stamp ELSE row.timestamp
           /\ row'.favorite_genre = row.favorite_genre
           /\ req[t].pc = "stamp" /\ req'[t].pc = "idle"
           /\ req[t].job \in DOMAIN jobs /\ Len(jobs') = Len(jobs)
           /\ \A k \in DOMAIN jobs : /\ jobs'[k].at = jobs[k].at
                                     /\ k # req[t].job => jobs'[k] = jobs[k]
           /\ \A u \in Threads : u # t => req'[u] = req[u]
  <1> DEFINE i == req[t].job
             o == SetTimestamp(req[t].data, req[t].stamp)
  <1>1. /\ UNCHANGED <<now, answers>> /\ req[t].pc = "stamp"
        /\ row' = Written(row, o)
        /\ jobs' = [jobs EXCEPT ![i] = [jobs[i] EXCEPT !.stamped = TRUE]]
        /\ req' = [req EXCEPT ![t] = Idle]
    BY DEF Stamp
  <1>2. /\ jobs \in Seq(Job) /\ req \in [Threads -> Request] /\ req[t] \in Request /\ row \in Row
        /\ Ready(req[t], jobs) /\ \A k \in DOMAIN jobs : jobs[k] \in Job
        /\ \A k \in DOMAIN jobs : Holding(jobs[k], answers')
    BY <1>1, AsTheyAre
  <1>3. i \in DOMAIN jobs /\ jobs[i].at = req[t].stamp /\ req[t].data.attr = req[t].data.orig
        /\ req[t].data \in Objects(Row) /\ req[t].stamp \in Int
    BY <1>1, <1>2, RequestParts DEF Ready
  <1>4. /\ o \in Objects(Row) /\ o.attr.timestamp = req[t].stamp /\ o.orig = req[t].data.orig
        /\ o.attr.favorite_genre = o.orig.favorite_genre
    <2>1. /\ SetTimestamp(req[t].data, req[t].stamp) \in Objects(Row)
          /\ SetTimestamp(req[t].data, req[t].stamp).attr.timestamp = req[t].stamp
          /\ SetTimestamp(req[t].data, req[t].stamp).attr.favorite_genre
                = req[t].data.attr.favorite_genre
          /\ SetTimestamp(req[t].data, req[t].stamp).orig = req[t].data.orig
      BY <1>3, Stamped
    <2> QED BY <1>3, <2>1
  <1> HIDE DEF i, o
  <1>5. /\ row' \in Row /\ row'.favorite_genre = row.favorite_genre
        /\ row'.timestamp = IF req[t].stamp # req[t].data.orig.timestamp
                            THEN req[t].stamp ELSE row.timestamp
    BY <1>1, <1>2, <1>4, RowWritten
  <1>6. PICK j : j = [jobs[i] EXCEPT !.stamped = TRUE]
    OBVIOUS
  <1>7. j = [at |-> jobs[i].at, stamped |-> TRUE, retries |-> jobs[i].retries,
             pc |-> jobs[i].pc, top |-> jobs[i].top, data |-> jobs[i].data]
    BY <1>2, <1>3, <1>6 DEF Job
  <1>8. j \in Job /\ j.at = jobs[i].at /\ j.pc = jobs[i].pc /\ j.top = jobs[i].top
        /\ j.data = jobs[i].data
    <2>1. jobs[i] \in Job
      BY <1>2, <1>3
    <2> QED BY <1>7, <2>1 DEF Job
  <1>9. Holding(j, answers')
    <2>1. Holding(jobs[i], answers')
      BY <1>2, <1>3
    <2> QED BY <1>8, <2>1 DEF Holding
  <1>10. /\ jobs' \in Seq(Job) /\ DOMAIN jobs' = DOMAIN jobs /\ Len(jobs') = Len(jobs)
         /\ \A k \in DOMAIN jobs : k # i => jobs'[k] = jobs[k]
         /\ \A k \in DOMAIN jobs : jobs'[k].at = jobs[k].at
         /\ \A k \in DOMAIN jobs' : Holding(jobs'[k], answers')
    BY <1>1, <1>3, <1>6, <1>8, <1>9, JobSet
  <1>11. Ready(Idle, jobs') /\ Idle \in Request /\ Idle.pc = "idle"
    BY FirstRow DEF Ready
  <1>12. req' \in [Threads -> Request] /\ \A u \in Threads : Ready(req'[u], jobs')
    BY <1>1, <1>10, <1>11, ReqSet
  <1>13. row'.timestamp = row.timestamp \/ \E k \in DOMAIN jobs' : jobs'[k].at = row'.timestamp
    BY <1>3, <1>5, <1>10
  <1>14. KInv'
    BY <1>1, <1>5, <1>10, <1>12, <1>13, AsTheyAre, Together
  <1>15. req'[t] = Idle /\ \A u \in Threads : u # t => req'[u] = req[u]
    BY <1>1, <1>2
  <1> QED BY <1>1, <1>3, <1>5, <1>10, <1>11, <1>14, <1>15 DEF i

LEMMA RescueOK ==
    ASSUME KInv, NEW t \in Threads, Rescue(t)
    PROVE  /\ KInv' /\ UNCHANGED <<now, row, jobs>>
           /\ req'[t].pc = "idle" /\ \A u \in Threads : u # t => req'[u] = req[u]
  <1>1. UNCHANGED <<now, row, jobs, answers>> /\ req' = [req EXCEPT ![t] = Idle]
    BY DEF Rescue
  <1>2. Ready(Idle, jobs') /\ Idle \in Request /\ Idle.pc = "idle"
    BY FirstRow DEF Ready
  <1>3. req' \in [Threads -> Request] /\ \A u \in Threads : Ready(req'[u], jobs')
    BY <1>1, <1>2, ReqSet
  <1>4. KInv'
    BY <1>1, <1>3, AsTheyAre, Together
  <1>5. req'[t] = Idle /\ \A u \in Threads : u # t => req'[u] = req[u]
    BY <1>1, AsTheyAre
  <1> QED BY <1>1, <1>2, <1>4, <1>5

LEMMA TickOK ==
    ASSUME KInv, Tick
    PROVE  KInv' /\ UNCHANGED <<row, req, jobs>> /\ now' = now + 1
  <1>1. UNCHANGED <<row, req, jobs, answers>> /\ now' = now + 1 /\ now' \in Nat
    BY DEF Tick, KInv, TypeOK
  <1>2. \A u \in Threads : Ready(req'[u], jobs')
    BY <1>1, AsTheyAre
  <1> QED BY <1>1, <1>2, AsTheyAre, Together

LEMMA Inductive == Spec => []KInv
  <1>1. Init => KInv
    <2> SUFFICES ASSUME Init PROVE KInv
      OBVIOUS
    <2>1. /\ now = 0 /\ row = NewRow /\ req = [t \in Threads |-> Idle]
          /\ jobs = <<>> /\ answers = {}
      BY DEF Init
    <2>2. jobs \in Seq(Job) /\ DOMAIN jobs = {}
      BY <2>1
    <2>3. TypeOK
      BY <2>1, <2>2, FirstRow DEF TypeOK
    <2>4. \A t \in Threads : req[t] = Idle
      BY <2>1
    <2>5. FreshHasJob
      BY <2>1, FirstRow DEF FreshHasJob
    <2> QED BY <2>1, <2>2, <2>3, <2>4, <2>5, FirstRow DEF KInv
  <1>2. KInv /\ [Next]_vars => KInv'
    <2> SUFFICES ASSUME KInv, [Next]_vars PROVE KInv'
      OBVIOUS
    <2>1. CASE UNCHANGED vars
      BY <2>1 DEF vars, KInv, TypeOK, FreshHasJob
    <2>2. CASE Quiet
      BY <2>2 DEF Quiet, vars, KInv, TypeOK, FreshHasJob
    <2>3. ASSUME NEW t \in Threads, CollectStats(t) \/ Push(t) \/ Stamp(t) \/ Rescue(t)
          PROVE  KInv'
      BY <2>3, CollectOK, PushOK, StampOK, RescueOK
    <2>4. ASSUME NEW i \in DOMAIN jobs,
                 FetchTopTracks(i) \/ LoadData(i) \/ SaveData(i) \/ Return(i) \/ Raise(i) \/ Kill(i)
          PROVE  KInv'
      BY <2>4, FetchOK, LoadOK, SaveOK, LeaveOK
    <2> QED BY <2>1, <2>2, <2>3, <2>4, TickOK DEF Next
  <1> QED BY <1>1, <1>2, PTL DEF Spec
-------------------------------------------------------------------------------
(* The state of the statistics has its type. *)
THEOREM TypeCorrect == Spec => []TypeOK
  <1>1. KInv => TypeOK
    BY DEF KInv
  <1> QED BY <1>1, Inductive, PTL

(* update_timestamp stores the time of a job it pushed before: however pushes *)
(* and updates fail, and whatever order requests come in, a row that counts   *)
(* as fresh has its job.                                                      *)
THEOREM NoDayLost == Spec => []FreshHasJob
  <1>1. KInv => FreshHasJob
    BY DEF KInv
  <1> QED BY <1>1, Inductive, PTL

(* Neither the update of the timestamp, through an object that is older than *)
(* the genres, nor a retried job puts the placeholders back.                 *)
THEOREM NoPlaceholders == Spec => GenresKept
  <1> DEFINE Kept == row.favorite_genre # DefaultGenres => row'.favorite_genre # DefaultGenres
  <1>1. KInv /\ [Next]_vars => [Kept]_row
    <2> SUFFICES ASSUME KInv, [Next]_vars PROVE row' = row \/ Kept
      OBVIOUS
    <2>1. CASE UNCHANGED vars \/ Quiet
      BY <2>1 DEF vars, Quiet
    <2>2. ASSUME NEW t \in Threads, CollectStats(t) \/ Push(t) \/ Stamp(t) \/ Rescue(t)
          PROVE  row' = row \/ Kept
      BY <2>2, CollectOK, PushOK, StampOK, RescueOK
    <2>3. ASSUME NEW i \in DOMAIN jobs,
                 FetchTopTracks(i) \/ LoadData(i) \/ SaveData(i) \/ Return(i) \/ Raise(i) \/ Kill(i)
          PROVE  row' = row \/ Kept
      BY <2>3, FetchOK, LoadOK, SaveOK, LeaveOK
    <2> QED BY <2>1, <2>2, <2>3, TickOK DEF Next
  <1> QED BY <1>1, Inductive, PTL DEF Spec, GenresKept
-------------------------------------------------------------------------------
(* One thread: Puma runs its requests one at a time, the jobs run beside them. *)
Serial == \A t, u \in Threads : t = u

(* The request under way has the timestamp of the row, which is a day old;   *)
(* its job is the last. Jobs with a timestamp are no newer than the row.     *)
SInv ==
    /\ \A t \in Threads : req[t].pc # "idle" =>
          req[t].data.orig.timestamp = row.timestamp /\ row.timestamp <= now - Day
    /\ \A t \in Threads : req[t].pc = "stamp" =>
          req[t].job = Len(jobs) /\ row.timestamp <= req[t].stamp - Day
    /\ \A i \in DOMAIN jobs : jobs[i].stamped => jobs[i].at <= row.timestamp
    /\ OneJobPerDay

(* Numbers, for the comparisons. *)
LEMMA Numbers ==
    ASSUME KInv
    PROVE  /\ now \in Int /\ row.timestamp \in Int /\ Day \in Int /\ Day > 0
           /\ Len(jobs) \in Nat /\ DOMAIN jobs = 1..Len(jobs)
           /\ \A i \in DOMAIN jobs : jobs[i].at \in Int /\ jobs[i].stamped \in BOOLEAN
           /\ \A t \in Threads : /\ req[t].pc \in {"idle", "push", "stamp"}
                                 /\ req[t].stamp \in Int /\ req[t].job \in Nat
  <1>1. /\ DOMAIN jobs = 1..Len(jobs) /\ Len(jobs) \in Nat /\ now \in Nat /\ row \in Row
        /\ \A i \in DOMAIN jobs : jobs[i] \in Job
        /\ \A t \in Threads : req[t] \in Request
    BY DEF KInv, TypeOK
  <1>2. row.timestamp \in Int
    BY <1>1 DEF Row
  <1> QED BY <1>1, <1>2, JobParts, RequestParts, StatsAssumption

(* The worker leaves what the requests are about as it is. *)
LEMMA WorkerStep ==
    ASSUME KInv, SInv, UNCHANGED <<now, req>>, SamePushes,
           row'.timestamp = row.timestamp, KInv'
    PROVE  SInv'
  <1>1. DOMAIN jobs = 1..Len(jobs) /\ DOMAIN jobs' = 1..Len(jobs')
    BY DEF KInv, TypeOK
  <1>2. OneJobPerDay'
    BY <1>1 DEF SInv, SamePushes, OneJobPerDay
  <1>3. \A i \in DOMAIN jobs' : jobs'[i].stamped => jobs'[i].at <= row'.timestamp
    BY <1>1 DEF SInv, SamePushes
  <1>4. Len(jobs') = Len(jobs)
    BY DEF SamePushes
  <1> QED BY <1>2, <1>3, <1>4 DEF SInv

(* The steps of the one request. *)
LEMMA CollectSInv ==
    ASSUME Serial, KInv, SInv, NEW t \in Threads, CollectStats(t)
    PROVE  SInv'
  <1>1. /\ UNCHANGED <<now, row, jobs>> /\ row.timestamp <= now - Day
        /\ req'[t].pc = "push" /\ req'[t].data.orig = row
    BY CollectOK
  <1>2. \A u \in Threads : u = t
    BY DEF Serial
  <1> QED BY <1>1, <1>2 DEF SInv, OneJobPerDay

LEMMA PushSInv ==
    ASSUME Serial, KInv, SInv, NEW t \in Threads, Push(t)
    PROVE  SInv'
  <1> DEFINE n == Len(jobs')
  <1>1. /\ KInv' /\ UNCHANGED <<now, row>>
        /\ req[t].pc = "push" /\ req'[t].pc = "stamp" /\ req'[t].data = req[t].data
        /\ req'[t].stamp = now /\ req'[t].job = n /\ n = Len(jobs) + 1
        /\ \A k \in DOMAIN jobs : jobs'[k] = jobs[k]
        /\ jobs'[n].at = now /\ jobs'[n].stamped = FALSE
    BY PushOK
  <1>2. \A u \in Threads : u = t
    BY DEF Serial
  <1>3. /\ DOMAIN jobs = 1..Len(jobs) /\ DOMAIN jobs' = 1..n /\ Len(jobs) \in Nat
        /\ \A k \in DOMAIN jobs' : k \in DOMAIN jobs \/ k = n
    <2>1. DOMAIN jobs = 1..Len(jobs) /\ Len(jobs) \in Nat /\ DOMAIN jobs' = 1..n
      BY <1>1, Numbers DEF KInv, TypeOK
    <2> QED BY <1>1, <2>1
  <1>4. req[t].data.orig.timestamp = row.timestamp /\ row.timestamp <= now - Day
    BY <1>1 DEF SInv
  <1>5. \A i \in DOMAIN jobs' : jobs'[i].stamped =>
           i \in DOMAIN jobs /\ jobs[i].stamped /\ jobs[i].at <= row.timestamp
    BY <1>1, <1>3 DEF SInv
  <1>6. OneJobPerDay'
    <2> SUFFICES ASSUME NEW i \in DOMAIN jobs', NEW j \in DOMAIN jobs', i < j, jobs'[i].stamped
                 PROVE  jobs'[j].at - jobs'[i].at >= Day
      BY DEF OneJobPerDay
    <2>1. i \in DOMAIN jobs /\ jobs[i].stamped /\ jobs[i].at <= row.timestamp
          /\ jobs'[i] = jobs[i] /\ jobs[i].at \in Int
      BY <1>1, <1>5, Numbers
    <2>2. CASE j = n
      BY <1>1, <1>4, <2>1, <2>2, Numbers
    <2>3. CASE j \in DOMAIN jobs
      <3>1. jobs[j].at - jobs[i].at >= Day
        BY <2>1, <2>3 DEF SInv, OneJobPerDay
      <3> QED BY <1>1, <2>1, <2>3, <3>1
    <2> QED BY <1>3, <2>2, <2>3
  <1>7. \A i \in DOMAIN jobs' : jobs'[i].stamped => jobs'[i].at <= row'.timestamp
    BY <1>1, <1>5
  <1> QED BY <1>1, <1>2, <1>4, <1>6, <1>7 DEF SInv

LEMMA StampSInv ==
    ASSUME Serial, KInv, SInv, NEW t \in Threads, Stamp(t)
    PROVE  SInv'
  <1> DEFINE s == req[t].stamp
             n == Len(jobs)
  <1>1. /\ KInv' /\ now' = now /\ req[t].pc = "stamp" /\ req'[t].pc = "idle"
        /\ row'.timestamp = IF s # req[t].data.orig.timestamp THEN s ELSE row.timestamp
        /\ Len(jobs') = n
        /\ \A k \in DOMAIN jobs : /\ jobs'[k].at = jobs[k].at
                                  /\ k # req[t].job => jobs'[k] = jobs[k]
    BY StampOK
  <1>2. \A u \in Threads : u = t
    BY DEF Serial
  <1>3. /\ DOMAIN jobs = 1..n /\ DOMAIN jobs' = 1..n /\ n \in Nat /\ s \in Int
        /\ row.timestamp \in Int /\ Day \in Int /\ Day > 0
        /\ \A i \in DOMAIN jobs : jobs[i].at \in Int
    BY <1>1, Numbers DEF KInv, TypeOK
  <1>4. req[t].job = n /\ row.timestamp <= s - Day
        /\ req[t].data.orig.timestamp = row.timestamp
    BY <1>1 DEF SInv
  <1>5. row'.timestamp = s
    BY <1>1, <1>3, <1>4
  <1>6. jobs[n].at = s
    BY <1>1, <1>4 DEF KInv
  <1>7. \A i \in DOMAIN jobs' : jobs'[i].stamped => jobs'[i].at <= row'.timestamp
    <2> SUFFICES ASSUME NEW i \in DOMAIN jobs', jobs'[i].stamped
                 PROVE  jobs'[i].at <= s
      BY <1>5
    <2>1. CASE i = n
      BY <1>1, <1>3, <1>6, <2>1
    <2>2. CASE i # n
      <3>1. jobs'[i] = jobs[i] /\ i \in DOMAIN jobs /\ jobs[i].stamped
        BY <1>1, <1>3, <1>4, <2>2
      <3>2. jobs[i].at <= row.timestamp
        BY <3>1 DEF SInv
      <3> QED BY <1>3, <1>4, <3>1, <3>2
    <2> QED BY <2>1, <2>2
  <1>8. OneJobPerDay'
    <2> SUFFICES ASSUME NEW i \in DOMAIN jobs', NEW j \in DOMAIN jobs', i < j, jobs'[i].stamped
                 PROVE  jobs'[j].at - jobs'[i].at >= Day
      BY DEF OneJobPerDay
    <2>1. i # n /\ i \in DOMAIN jobs /\ j \in DOMAIN jobs
      BY <1>3
    <2>2. jobs[i].stamped /\ jobs'[i].at = jobs[i].at /\ jobs'[j].at = jobs[j].at
      BY <1>1, <1>4, <2>1
    <2>3. jobs[j].at - jobs[i].at >= Day
      BY <2>1, <2>2 DEF SInv, OneJobPerDay
    <2> QED BY <2>2, <2>3
  <1> QED BY <1>1, <1>2, <1>7, <1>8 DEF SInv

LEMMA SerialStep == Serial /\ KInv /\ SInv /\ [Next]_vars => SInv'
  <1> SUFFICES ASSUME Serial, KInv, SInv, [Next]_vars PROVE SInv'
    OBVIOUS
  <1>1. CASE UNCHANGED vars \/ Quiet
    BY <1>1 DEF Quiet, vars, SInv, OneJobPerDay
  <1>2. ASSUME NEW t \in Threads, Rescue(t) PROVE SInv'
    <2>1. UNCHANGED <<now, row, jobs>> /\ req'[t].pc = "idle"
      BY <1>2, RescueOK
    <2>2. \A u \in Threads : u = t
      BY DEF Serial
    <2> QED BY <2>1, <2>2 DEF SInv, OneJobPerDay
  <1>3. ASSUME NEW i \in DOMAIN jobs,
               FetchTopTracks(i) \/ LoadData(i) \/ SaveData(i) \/ Return(i) \/ Raise(i) \/ Kill(i)
        PROVE  SInv'
    <2>1. KInv' /\ UNCHANGED <<now, req>> /\ SamePushes /\ row'.timestamp = row.timestamp
      BY <1>3, FetchOK, LoadOK, SaveOK, LeaveOK
    <2> QED BY <2>1, WorkerStep
  <1>4. ASSUME Tick PROVE SInv'
    <2>1. UNCHANGED <<row, req, jobs>> /\ now' = now + 1
      BY <1>4, TickOK
    <2>2. \A t \in Threads : req[t].pc # "idle" => row.timestamp <= now' - Day
      BY <2>1, Numbers DEF SInv
    <2> QED BY <2>1, <2>2 DEF SInv, OneJobPerDay
  <1> QED BY <1>1, <1>2, <1>3, <1>4, CollectSInv, PushSInv, StampSInv DEF Next

LEMMA SerialInvariance == Serial => (Spec => []SInv)
  <1> SUFFICES ASSUME Serial PROVE Spec => []SInv
    OBVIOUS
  <1>1. Init => SInv
    BY FirstRow DEF Init, SInv, OneJobPerDay
  <1>2. KInv /\ SInv /\ [Next]_vars => SInv'
    BY SerialStep
  <1> QED BY <1>1, <1>2, Inductive, PTL DEF Spec

(* Under one thread, a user whose timestamp was stored gets no second job for *)
(* a day: the worker writes the same row in between, from an object that may  *)
(* be older, but never its timestamp.                                         *)
THEOREM SerialOneJobPerDay == Serial => (Spec => []OneJobPerDay)
  <1> SUFFICES ASSUME Serial PROVE Spec => []OneJobPerDay
    OBVIOUS
  <1>1. SInv => OneJobPerDay
    BY DEF SInv
  <1> QED BY <1>1, SerialInvariance, PTL
-------------------------------------------------------------------------------
(* The ranking. Its two loops, the count of the genres and the list of lists  *)
(* that flat_map joins, are recursive functions: what holds at 0 and is kept  *)
(* by every step holds at the end.                                            *)
LEMMA FromZeroOn ==
    ASSUME NEW T, 0 \in T, \A n \in Nat : n \in T => n + 1 \in T
    PROVE  \A n \in Nat : n \in T
  <1> DEFINE R == OpToRel(<, Nat)
             U == Nat \ T
  <1>1. IsWellFoundedOn(R, Nat)
    BY NatLessThanWellFounded
  <1> SUFFICES ASSUME U # {} PROVE FALSE
    OBVIOUS
  <1>2. PICK n \in U : \A m \in U : ~(<<m, n>> \in R)
    BY <1>1, WFMin
  <1>3. \A m \in U : ~(m < n)
    BY <1>2 DEF OpToRel
  <1>4. n \in Nat /\ n \notin T
    OBVIOUS
  <1>5. n # 0
    BY <1>4, Zenon
  <1>6. n - 1 \in Nat /\ n - 1 < n /\ (n - 1) + 1 = n
    BY <1>4, <1>5
  <1>7. n - 1 \in T
    BY <1>3, <1>6
  <1>8. (n - 1) + 1 \in T
    BY <1>6, <1>7, Zenon
  <1> QED BY <1>4, <1>6, <1>8, Zenon

(* genre_count over the first m genres of q, whose genres are D. *)
Counts(f, q, D, m) ==
    f = [n \in 0..m |-> IF n = 0 THEN [g \in D |-> 0]
                        ELSE [f[n - 1] EXCEPT ![q[n]] = @ + 1]]

LEMMA CountsExist ==
    ASSUME NEW q, NEW D, NEW m \in Nat
    PROVE  \E f : Counts(f, q, D, m)
  <1> DEFINE Next1(c, x) == [c EXCEPT ![x] = @ + 1]
             T == {n \in Nat : \E f : Counts(f, q, D, n)}
             zero == [g \in D |-> 0]
  <1>1. 0 \in T
    <2>1. Counts([n \in 0..0 |-> [g \in D |-> 0]], q, D, 0)
      BY DEF Counts
    <2> QED BY <2>1
  <1>2. ASSUME NEW n \in Nat, n \in T PROVE n + 1 \in T
    <2>1. PICK f : Counts(f, q, D, n)
      BY <1>2
    <2> DEFINE last == Next1(f[n], q[n + 1])
               g == [k \in 0..(n + 1) |-> IF k = n + 1 THEN last ELSE f[k]]
               h == [k \in 0..(n + 1) |-> IF k = 0 THEN zero ELSE Next1(g[k - 1], q[k])]
    <2>2. \A k \in 0..n : f[k] = IF k = 0 THEN zero ELSE Next1(f[k - 1], q[k])
      BY <2>1 DEF Counts
    <2> HIDE DEF Next1, zero
    <2>3. ASSUME NEW k \in 0..(n + 1) PROVE g[k] = h[k]
      <3>1. CASE k = n + 1
        <4>1. g[k - 1] = f[n] /\ g[k] = last /\ k # 0
          BY <3>1
        <4> QED BY <3>1, <4>1
      <3>2. CASE k # n + 1 /\ k # 0
        <4>1. k - 1 \in 0..(n + 1) /\ k - 1 # n + 1 /\ k \in 0..n
          BY <3>2
        <4>2. g[k - 1] = f[k - 1] /\ g[k] = f[k]
          BY <3>2, <4>1
        <4> QED BY <2>2, <3>2, <4>1, <4>2
      <3>3. CASE k = 0
        BY <2>2, <3>3
      <3> QED BY <3>1, <3>2, <3>3
    <2>4. g = h
      <3> HIDE DEF last
      <3> QED BY <2>3
    <2>5. Counts(g, q, D, n + 1)
      BY <2>4 DEF Counts, Next1, zero
    <2> QED BY <2>5
  <1> HIDE DEF T
  <1>3. m \in T
    BY <1>1, <1>2, FromZeroOn
  <1> QED BY <1>3 DEF T

(* The places of q up to n where x is. *)
At(q, x, n) == {k \in 1..n : q[k] = x}

LEMMA AtNext ==
    ASSUME NEW q, NEW x, NEW n \in Nat
    PROVE  /\ IsFiniteSet(At(q, x, n)) /\ Cardinality(At(q, x, n)) \in Nat
           /\ Cardinality(At(q, x, 0)) = 0
           /\ q[n + 1] = x => Cardinality(At(q, x, n + 1)) = Cardinality(At(q, x, n)) + 1
           /\ q[n + 1] # x => Cardinality(At(q, x, n + 1)) = Cardinality(At(q, x, n))
  <1>1. IsFiniteSet(At(q, x, n)) /\ Cardinality(At(q, x, n)) \in Nat
    <2>1. IsFiniteSet(1..n)
      BY FS_Interval
    <2>2. At(q, x, n) \in SUBSET (1..n)
      BY DEF At
    <2> QED BY <2>1, <2>2, FS_Subset, FS_CardinalityType
  <1>2. Cardinality(At(q, x, 0)) = 0
    <2>1. At(q, x, 0) = {}
      BY DEF At
    <2> QED BY <2>1, FS_EmptySet
  <1>3. CASE q[n + 1] = x
    <2>1. At(q, x, n + 1) = At(q, x, n) \cup {n + 1} /\ n + 1 \notin At(q, x, n)
      BY <1>3 DEF At
    <2> QED BY <1>1, <1>2, <1>3, <2>1, FS_AddElement
  <1>4. CASE q[n + 1] # x
    <2>1. At(q, x, n + 1) = At(q, x, n)
      BY <1>4 DEF At
    <2> QED BY <1>1, <1>2, <1>4, <2>1
  <1> QED BY <1>3, <1>4

(* The Hash counts how often each genre is in the list. *)
LEMMA GenreCounted ==
    ASSUME NEW S, NEW q \in Seq(S)
    PROVE  /\ DOMAIN GenreCount(q) = Range(q)
           /\ \A g \in Range(q) : GenreCount(q)[g] = Cardinality(At(q, g, Len(q)))
  <1> DEFINE D == Range(q)
             f == CHOOSE f : Counts(f, q, D, Len(q))
  <1>1. Len(q) \in Nat /\ \A n \in 1..Len(q) : q[n] \in D
    BY DEF Range
  <1>2. Counts(f, q, D, Len(q))
    BY <1>1, CountsExist, Zenon
  <1>3. GenreCount(q) = f[Len(q)]
    BY Zenon DEF GenreCount, Counts
  <1> HIDE DEF f, D
  <1> DEFINE More(c, x) == [c EXCEPT ![x] = @ + 1]
             zero == [g \in D |-> 0]
  <1>4. \A n \in 0..Len(q) : f[n] = IF n = 0 THEN zero ELSE More(f[n - 1], q[n])
    BY <1>2 DEF Counts
  <1> DEFINE P(n) == n <= Len(q) => f[n] = [g \in D |-> Cardinality(At(q, g, n))]
             T == {n \in Nat : P(n)}
  <1>5. 0 \in T
    <2>1. f[0] = zero
      <3> HIDE DEF zero, More
      <3> QED BY <1>1, <1>4
    <2>2. \A g : Cardinality(At(q, g, 0)) = 0
      BY AtNext
    <2> QED BY <2>1, <2>2
  <1>6. ASSUME NEW n \in Nat, n \in T PROVE n + 1 \in T
    <2> SUFFICES ASSUME n + 1 <= Len(q)
                 PROVE  f[n + 1] = [g \in D |-> Cardinality(At(q, g, n + 1))]
      OBVIOUS
    <2>1. f[n] = [g \in D |-> Cardinality(At(q, g, n))]
      BY <1>1, <1>6
    <2>2. f[n + 1] = More(f[n], q[n + 1]) /\ q[n + 1] \in D
      <3>1. n + 1 \in 0..Len(q) /\ n + 1 # 0 /\ (n + 1) - 1 = n /\ n + 1 \in 1..Len(q)
        BY <1>1
      <3> HIDE DEF zero, More
      <3> QED BY <1>1, <1>4, <3>1
    <2>3. ASSUME NEW g \in D
          PROVE  More(f[n], q[n + 1])[g] = Cardinality(At(q, g, n + 1))
      <3>1. More(f[n], q[n + 1])[g] = IF g = q[n + 1] THEN f[n][g] + 1 ELSE f[n][g]
        BY <2>1, <2>2
      <3>2. f[n][g] = Cardinality(At(q, g, n))
        BY <2>1
      <3> HIDE DEF More
      <3>3. /\ q[n + 1] = g => Cardinality(At(q, g, n + 1)) = Cardinality(At(q, g, n)) + 1
            /\ q[n + 1] # g => Cardinality(At(q, g, n + 1)) = Cardinality(At(q, g, n))
        BY AtNext, Zenon
      <3> QED BY <3>1, <3>2, <3>3
    <2>4. More(f[n], q[n + 1]) = [g \in D |-> More(f[n], q[n + 1])[g]]
      BY <2>1
    <2> QED BY <2>2, <2>3, <2>4
  <1> HIDE DEF T
  <1>7. Len(q) \in T
    BY <1>1, <1>5, <1>6, FromZeroOn
  <1>8. f[Len(q)] = [g \in D |-> Cardinality(At(q, g, Len(q)))]
    BY <1>1, <1>7 DEF T
  <1> QED BY <1>3, <1>8 DEF D

(* flat_map over the first m lists of q. *)
Joins(f, q, m) == f = [i \in 1..m |-> IF i = 1 THEN q[i] ELSE f[i - 1] \o q[i]]

LEMMA JoinsExist ==
    ASSUME NEW q, NEW m \in Nat
    PROVE  \E f : Joins(f, q, m)
  <1> DEFINE T == {n \in Nat : \E f : Joins(f, q, n)}
  <1>1. 0 \in T
    <2>1. Joins([n \in 1..0 |-> 0], q, 0)
      BY DEF Joins
    <2> QED BY <2>1
  <1>2. ASSUME NEW n \in Nat, n \in T PROVE n + 1 \in T
    <2>1. PICK f : Joins(f, q, n)
      BY <1>2
    <2> DEFINE last == IF n + 1 = 1 THEN q[n + 1] ELSE f[n] \o q[n + 1]
               g == [k \in 1..(n + 1) |-> IF k = n + 1 THEN last ELSE f[k]]
               h == [k \in 1..(n + 1) |-> IF k = 1 THEN q[k] ELSE g[k - 1] \o q[k]]
    <2>2. \A k \in 1..n : f[k] = IF k = 1 THEN q[k] ELSE f[k - 1] \o q[k]
      BY <2>1 DEF Joins
    <2>3. ASSUME NEW k \in 1..(n + 1) PROVE g[k] = h[k]
      <3>1. CASE k = n + 1 /\ k # 1
        <4>1. k - 1 \in 1..(n + 1) /\ k - 1 = n /\ k - 1 # n + 1
          BY <3>1
        <4>2. g[k - 1] = f[n] /\ g[k] = last
          BY <3>1, <4>1
        <4> QED BY <3>1, <4>2
      <3>2. CASE k # n + 1 /\ k # 1
        <4>1. k - 1 \in 1..(n + 1) /\ k - 1 # n + 1 /\ k \in 1..n
          BY <3>2
        <4>2. g[k - 1] = f[k - 1] /\ g[k] = f[k]
          BY <3>2, <4>1
        <4> QED BY <2>2, <3>2, <4>1, <4>2
      <3>3. CASE k = 1
        <4>1. g[k] = IF k = n + 1 THEN last ELSE f[k]
          OBVIOUS
        <4>2. h[k] = q[k]
          BY <3>3
        <4>3. k # n + 1 => k \in 1..n
          BY <3>3
        <4> QED BY <2>2, <3>3, <4>1, <4>2, <4>3
      <3> QED BY <3>1, <3>2, <3>3
    <2>4. g = h
      <3> HIDE DEF last
      <3> QED BY <2>3
    <2>5. Joins(g, q, n + 1)
      BY <2>4 DEF Joins
    <2> QED BY <2>5
  <1> HIDE DEF T
  <1>3. m \in T
    BY <1>1, <1>2, FromZeroOn
  <1> QED BY <1>3 DEF T

(* The places in the first n lists of q; w has what h finds there, each place *)
(* once.                                                                      *)
Places(q, n) == {p \in (1..n) \X Nat : p[2] \in 1..Len(q[p[1]])}

Placed(w, h, q, n) ==
    /\ h \in [1..Len(w) -> Places(q, n)]
    /\ \A j \in 1..Len(w) : w[j] = q[h[j][1]][h[j][2]]
    /\ \A i, j \in 1..Len(w) : i # j => h[i] # h[j]
    /\ \A p \in Places(q, n) : \E j \in 1..Len(w) : h[j] = p

LEMMA JoinPlaced ==
    ASSUME NEW S, NEW q \in Seq(Seq(S)), NEW n \in Nat, n + 1 <= Len(q),
           NEW v \in Seq(S), NEW g, Placed(v, g, q, n)
    PROVE  \E h : Placed(v \o q[n + 1], h, q, n + 1)
  <1> DEFINE u == q[n + 1]
             l == Len(v)
             w == v \o u
             h == [j \in 1..Len(w) |-> IF j <= l THEN g[j] ELSE <<n + 1, j - l>>]
  <1>1. /\ u \in Seq(S) /\ l \in Nat /\ Len(u) \in Nat /\ Len(w) = l + Len(u)
        /\ \A j \in 1..l : w[j] = v[j]
        /\ \A j \in 1..Len(w) : j > l => w[j] = u[j - l]
    BY Z3T(20)
  <1>2. /\ \A j \in 1..l : j \in 1..Len(w) /\ h[j] = g[j]
        /\ \A j \in 1..Len(w) : j > l => h[j] = <<n + 1, j - l>> /\ j - l \in 1..Len(u)
        /\ \A j \in 1..Len(w) : j > l \/ j \in 1..l
        /\ \A k \in 1..Len(u) : k + l \in 1..Len(w) /\ k + l > l /\ h[k + l] = <<n + 1, k>>
    <2> DEFINE m == Len(w)
    <2>1. m \in Nat /\ m = l + Len(u) /\ l \in Nat /\ Len(u) \in Nat
      BY <1>1
    <2> HIDE DEF m, w, l, u
    <2>2. \A j \in 1..m : h[j] = IF j <= l THEN g[j] ELSE <<n + 1, j - l>>
      BY DEF m
    <2> HIDE DEF h
    <2>3. \A k \in 1..Len(u) : k + l \in 1..m /\ ~(k + l <= l) /\ (k + l) - l = k
      BY <1>1, <2>1
    <2>4. \A k \in 1..Len(u) : h[k + l] = <<n + 1, k>>
      BY <2>2, <2>3
    <2>5. \A j \in 1..l : j \in 1..m /\ h[j] = g[j]
      <3>1. \A j \in 1..l : j \in 1..m /\ j <= l
        BY <2>1
      <3> QED BY <2>2, <3>1
    <2>6. \A j \in 1..m : j > l => h[j] = <<n + 1, j - l>> /\ j - l \in 1..Len(u)
      <3>1. \A j \in 1..m : j > l => ~(j <= l) /\ j - l \in 1..Len(u)
        BY <2>1
      <3> QED BY <2>2, <3>1
    <2> QED BY <1>1, <2>1, <2>3, <2>4, <2>5, <2>6 DEF m
  <1> HIDE DEF w, h
  <1>3. \A j \in 1..l : /\ g[j] \in Places(q, n)
                        /\ g[j] \in Places(q, n + 1) /\ g[j][1] \in 1..n
                        /\ v[j] = q[g[j][1]][g[j][2]]
    BY DEF Placed, Places
  <1>4. \A k \in 1..Len(u) : <<n + 1, k>> \in Places(q, n + 1)
    BY <1>1 DEF Places
  <1>5. \A p \in Places(q, n + 1) : p \in Places(q, n)
                                    \/ \E k \in 1..Len(u) : p = <<n + 1, k>>
    BY DEF Places
  <1> HIDE DEF u, l
  <1>6. \A j \in 1..Len(w) : h[j] \in Places(q, n + 1) /\ w[j] = q[h[j][1]][h[j][2]]
    <2> SUFFICES ASSUME NEW j \in 1..Len(w)
                 PROVE  h[j] \in Places(q, n + 1) /\ w[j] = q[h[j][1]][h[j][2]]
      OBVIOUS
    <2>1. CASE j > l
      <3>1. h[j] = <<n + 1, j - l>> /\ j - l \in 1..Len(u) /\ w[j] = u[j - l]
        BY <1>1, <1>2, <2>1
      <3> QED BY <1>4, <3>1 DEF u
    <2>2. CASE j \in 1..l
      BY <1>1, <1>2, <1>3, <2>2
    <2> QED BY <1>2, <2>1, <2>2
  <1>7. \A i, j \in 1..Len(w) : i # j => h[i] # h[j]
    <2>1. \A j \in 1..Len(w) : j > l => h[j] = <<n + 1, j - l>> /\ h[j][1] = n + 1 /\ h[j][2] = j - l
      BY <1>2
    <2>2. \A j \in 1..l : h[j][1] # n + 1
      BY <1>2, <1>3
    <2>3. \A i, j \in 1..l : i # j => h[i] # h[j]
      BY <1>2 DEF Placed, l
    <2>4. \A i, j \in 1..Len(w) : i > l /\ j > l /\ i # j => h[i] # h[j]
      BY <1>1, <2>1
    <2>5. ASSUME NEW i \in 1..Len(w), NEW j \in 1..Len(w), i # j PROVE h[i] # h[j]
      <3>1. CASE i \in 1..l /\ j \in 1..l
        BY <2>3, <2>5, <3>1
      <3>2. CASE i \in 1..l /\ j > l
        BY <2>1, <2>2, <3>2
      <3>3. CASE i > l /\ j \in 1..l
        BY <2>1, <2>2, <3>3
      <3>4. CASE i > l /\ j > l
        BY <2>4, <2>5, <3>4
      <3> QED BY <1>2, <3>1, <3>2, <3>3, <3>4
    <2> QED BY <2>5
  <1>8. \A p \in Places(q, n + 1) : \E j \in 1..Len(w) : h[j] = p
    <2> SUFFICES ASSUME NEW p \in Places(q, n + 1) PROVE \E j \in 1..Len(w) : h[j] = p
      OBVIOUS
    <2>1. CASE p \in Places(q, n)
      <3>1. PICK j \in 1..l : g[j] = p
        BY <2>1 DEF Placed, l
      <3> QED BY <1>2, <3>1
    <2>2. ASSUME NEW k \in 1..Len(u), p = <<n + 1, k>> PROVE \E j \in 1..Len(w) : h[j] = p
      BY <1>2, <2>2
    <2> QED BY <1>5, <2>1, <2>2
  <1>9. h \in [1..Len(w) -> Places(q, n + 1)]
    BY <1>6 DEF h
  <1>10. Placed(w, h, q, n + 1)
    BY <1>6, <1>7, <1>8, <1>9 DEF Placed
  <1> QED BY <1>10 DEF w, u

(* The joined list has each place of the lists once. *)
LEMMA FlatPlaced ==
    ASSUME NEW S, NEW q \in Seq(Seq(S))
    PROVE  /\ FlattenSeq(q) \in Seq(S)
           /\ \E h : Placed(FlattenSeq(q), h, q, Len(q))
  <1>1. Len(q) \in Nat /\ DOMAIN q = 1..Len(q) /\ \A i \in 1..Len(q) : q[i] \in Seq(S)
    OBVIOUS
  <1>2. Placed(<<>>, [j \in 1..0 |-> 0], q, 0)
    BY DEF Placed, Places
  <1>3. CASE Len(q) = 0
    <2>1. FlattenSeq(q) = q /\ q = <<>>
      BY <1>3 DEF FlattenSeq
    <2> QED BY <1>2, <1>3, <2>1
  <1>4. CASE Len(q) # 0
    <2> DEFINE f == CHOOSE f : Joins(f, q, Len(q))
    <2>1. Joins(f, q, Len(q))
      BY <1>1, JoinsExist, Zenon
    <2>2. FlattenSeq(q) = f[Len(q)]
      BY <1>4, Zenon DEF FlattenSeq, Joins
    <2> HIDE DEF f
    <2>3. \A i \in 1..Len(q) : f[i] = IF i = 1 THEN q[i] ELSE f[i - 1] \o q[i]
      BY <2>1 DEF Joins
    <2> DEFINE P(n) == n \in 1..Len(q) => f[n] \in Seq(S) /\ \E h : Placed(f[n], h, q, n)
               T == {n \in Nat : P(n)}
    <2>4. 0 \in T
      OBVIOUS
    <2>5. ASSUME NEW n \in Nat, n \in T PROVE n + 1 \in T
      <3> SUFFICES ASSUME n + 1 \in 1..Len(q)
                   PROVE  f[n + 1] \in Seq(S) /\ \E h : Placed(f[n + 1], h, q, n + 1)
        OBVIOUS
      <3>1. q[n + 1] \in Seq(S) /\ n + 1 <= Len(q)
        BY <1>1
      <3>2. CASE n = 0
        <4>1. f[n + 1] = <<>> \o q[n + 1]
          BY <2>3, <3>1, <3>2
        <4>2. \E h : Placed(<<>> \o q[n + 1], h, q, n + 1)
          <5>1. Placed(<<>>, [j \in 1..0 |-> 0], q, n) /\ <<>> \in Seq(S)
            BY <1>2, <3>2
          <5> HIDE DEF T
          <5> QED BY <3>1, <5>1, JoinPlaced
        <4> QED BY <3>1, <4>1, <4>2
      <3>3. CASE n # 0
        <4>1. f[n + 1] = f[n] \o q[n + 1]
          <5>1. n + 1 \in 1..Len(q) /\ n + 1 # 1 /\ (n + 1) - 1 = n
            BY <1>1, <3>3
          <5> HIDE DEF T
          <5> QED BY <2>3, <5>1
        <4>2. PICK h : f[n] \in Seq(S) /\ Placed(f[n], h, q, n)
          BY <1>1, <2>5, <3>1, <3>3
        <4>3. \E e : Placed(f[n] \o q[n + 1], e, q, n + 1)
          BY <3>1, <4>2, JoinPlaced
        <4> QED BY <3>1, <4>1, <4>2, <4>3
      <3> QED BY <3>2, <3>3
    <2> HIDE DEF T
    <2>6. Len(q) \in T
      BY <1>1, <2>4, <2>5, FromZeroOn
    <2>7. P(Len(q))
      BY <2>6 DEF T
    <2> QED BY <1>1, <1>4, <2>2, <2>7
  <1> QED BY <1>3, <1>4

(* take of the genres of each track. *)
LEMMA Taken ==
    ASSUME NEW S, NEW s \in Seq(S), NEW n \in Nat
    PROVE  /\ Take(s, n) \in Seq(S)
           /\ Len(Take(s, n)) = IF n < Len(s) THEN n ELSE Len(s)
           /\ DOMAIN Take(s, n) = 1..Len(Take(s, n))
           /\ \A k \in 1..Len(Take(s, n)) : Take(s, n)[k] = s[k]
  <1> DEFINE m == IF n < Len(s) THEN n ELSE Len(s)
  <1>1. m \in Nat /\ m <= Len(s) /\ Take(s, n) = SubSeq(s, 1, m)
    BY DEF Take
  <1> HIDE DEF m
  <1>2. /\ Take(s, n) \in Seq(S) /\ Len(Take(s, n)) = m
        /\ DOMAIN Take(s, n) = 1..Len(Take(s, n))
        /\ \A k \in 1..m : Take(s, n)[k] = s[k]
    BY <1>1
  <1> QED BY <1>2 DEF m

FirstGenres(tracks) == [i \in DOMAIN tracks |-> Take(tracks[i], GenresPerTrack)]

LEMMA Extracted ==
    ASSUME NEW S, NEW tracks \in Seq(Seq(S)), NEW parts, parts = FirstGenres(tracks)
    PROVE  /\ parts \in Seq(Seq(S)) /\ Len(parts) = Len(tracks)
           /\ \A p : p \in Places(parts, Len(parts)) <=>
                 /\ p \in (DOMAIN tracks) \X (1..GenresPerTrack)
                 /\ p[2] \in DOMAIN tracks[p[1]]
           /\ \A p \in Places(parts, Len(parts)) : parts[p[1]][p[2]] = tracks[p[1]][p[2]]
  <1>1. /\ GenresPerTrack \in Nat /\ DOMAIN tracks = 1..Len(tracks) /\ Len(tracks) \in Nat
        /\ \A i \in DOMAIN tracks : /\ tracks[i] \in Seq(S) /\ DOMAIN tracks[i] = 1..Len(tracks[i])
                                    /\ Len(tracks[i]) \in Nat
    BY GenresAssumption
  <1>2. \A i \in DOMAIN tracks :
           /\ parts[i] \in Seq(S)
           /\ Len(parts[i]) = IF GenresPerTrack < Len(tracks[i]) THEN GenresPerTrack
                                                                 ELSE Len(tracks[i])
           /\ \A k \in 1..Len(parts[i]) : parts[i][k] = tracks[i][k]
    BY <1>1, Taken DEF FirstGenres
  <1>3. parts \in Seq(Seq(S)) /\ Len(parts) = Len(tracks)
    <2>1. parts = [i \in 1..Len(tracks) |-> parts[i]] /\ \A i \in 1..Len(tracks) : parts[i] \in Seq(S)
      BY <1>1, <1>2 DEF FirstGenres
    <2> QED BY <1>1, <2>1
  <1>4. \A i \in DOMAIN tracks, k \in Nat :
           k \in 1..Len(parts[i]) <=> k \in 1..GenresPerTrack /\ k \in DOMAIN tracks[i]
    BY <1>1, <1>2
  <1>5. \A p : p \in Places(parts, Len(parts)) <=>
           /\ p \in (DOMAIN tracks) \X (1..GenresPerTrack)
           /\ p[2] \in DOMAIN tracks[p[1]]
    <2> SUFFICES ASSUME NEW p
                 PROVE  p \in Places(parts, Len(parts)) <=>
                           /\ p \in (DOMAIN tracks) \X (1..GenresPerTrack)
                           /\ p[2] \in DOMAIN tracks[p[1]]
      OBVIOUS
    <2>1. p \in Places(parts, Len(parts)) <=>
             p \in (DOMAIN tracks) \X Nat /\ p[2] \in 1..Len(parts[p[1]])
      BY <1>1, <1>3 DEF Places
    <2>2. p \in (DOMAIN tracks) \X (1..GenresPerTrack) => p \in (DOMAIN tracks) \X Nat
      OBVIOUS
    <2>3. p \in (DOMAIN tracks) \X Nat /\ p[2] \in 1..GenresPerTrack
             => p \in (DOMAIN tracks) \X (1..GenresPerTrack)
      OBVIOUS
    <2>4. p \in (DOMAIN tracks) \X Nat => p[1] \in DOMAIN tracks /\ p[2] \in Nat
      OBVIOUS
    <2>5. p \in (DOMAIN tracks) \X (1..GenresPerTrack) => p[2] \in 1..GenresPerTrack
      OBVIOUS
    <2> QED BY <1>4, <2>1, <2>2, <2>3, <2>4, <2>5
  <1>6. \A p \in Places(parts, Len(parts)) : parts[p[1]][p[2]] = tracks[p[1]][p[2]]
    BY <1>1, <1>2, <1>3 DEF Places
  <1> QED BY <1>3, <1>5, <1>6

(* A genre is in the list as often as it is among the first of a track. *)
LEMMA Played ==
    ASSUME NEW S, NEW tracks \in Seq(Seq(S)),
           NEW genres, genres = ExtractGenresFromTracks(tracks)
    PROVE  /\ genres \in Seq(S)
           /\ \A g : /\ Plays(tracks, g) = Cardinality(At(genres, g, Len(genres)))
                     /\ Plays(tracks, g) \in Nat
                     /\ Plays(tracks, g) > 0 <=> g \in Range(genres)
  <1> DEFINE l == Len(genres)
             parts == FirstGenres(tracks)
  <1>1. genres = FlattenSeq(parts)
    BY DEF ExtractGenresFromTracks, FirstGenres
  <1>2. /\ parts \in Seq(Seq(S))
        /\ \A p : p \in Places(parts, Len(parts)) <=>
              /\ p \in (DOMAIN tracks) \X (1..GenresPerTrack)
              /\ p[2] \in DOMAIN tracks[p[1]]
        /\ \A p \in Places(parts, Len(parts)) : parts[p[1]][p[2]] = tracks[p[1]][p[2]]
    BY Extracted
  <1> HIDE DEF parts
  <1>3. genres \in Seq(S) /\ \E h : Placed(genres, h, parts, Len(parts))
    BY <1>1, <1>2, FlatPlaced
  <1>4. PICK h : Placed(genres, h, parts, Len(parts))
    BY <1>3
  <1>5. l \in Nat /\ DOMAIN genres = 1..l
    BY <1>3
  <1> HIDE DEF l
  <1> SUFFICES ASSUME NEW g
               PROVE  /\ Plays(tracks, g) = Cardinality(At(genres, g, l))
                      /\ Plays(tracks, g) \in Nat
                      /\ Plays(tracks, g) > 0 <=> g \in Range(genres)
    BY <1>3 DEF l
  <1> DEFINE A == At(genres, g, l)
             B == {p \in (DOMAIN tracks) \X (1..GenresPerTrack) :
                      p[2] \in DOMAIN tracks[p[1]] /\ tracks[p[1]][p[2]] = g}
             e == [k \in A |-> h[k]]
  <1>6. IsFiniteSet(A) /\ Cardinality(A) \in Nat
    BY <1>5, AtNext
  <1>7. e \in Bijection(A, B)
    <2>1. \A k \in A : k \in 1..l /\ genres[k] = g /\ h[k] \in B
      <3>1. \A k \in 1..l : h[k] \in Places(parts, Len(parts))
                            /\ genres[k] = parts[h[k][1]][h[k][2]]
        BY <1>4 DEF Placed, l
      <3> QED BY <1>2, <3>1 DEF At
    <2>2. e \in [A -> B]
      BY <2>1
    <2>3. IsInjective(e)
      <3>1. \A i, j \in 1..l : i # j => h[i] # h[j]
        BY <1>4 DEF Placed, l
      <3> QED BY <2>1, <3>1 DEF IsInjective
    <2>4. \A p \in B : \E k \in A : e[k] = p
      <3> SUFFICES ASSUME NEW p \in B PROVE \E k \in A : e[k] = p
        OBVIOUS
      <3>1. p \in Places(parts, Len(parts)) /\ parts[p[1]][p[2]] = g
        BY <1>2
      <3>2. PICK k \in 1..l : h[k] = p
        BY <1>4, <3>1 DEF Placed, l
      <3>3. genres[k] = g
        BY <1>4, <3>1, <3>2 DEF Placed, l
      <3> QED BY <3>2, <3>3 DEF At
    <2> HIDE DEF A, B, e
    <2> QED BY <2>2, <2>3, <2>4 DEF Bijection, Injection, Surjection
  <1>8. Plays(tracks, g) = Cardinality(A)
    <2>1. Plays(tracks, g) = Cardinality(B)
      BY DEF Plays
    <2> HIDE DEF A, B, e
    <2>2. ExistsBijection(A, B)
      BY <1>7 DEF ExistsBijection
    <2> QED BY <1>6, <2>1, <2>2, FS_Bijection
  <1>9. Cardinality(A) > 0 <=> g \in Range(genres)
    <2>1. A # {} <=> g \in Range(genres)
      BY <1>5 DEF At, Range
    <2> HIDE DEF A
    <2>2. Cardinality(A) = 0 <=> A = {}
      BY <1>6, FS_EmptySet
    <2> QED BY <1>6, <2>1, <2>2
  <1> QED BY <1>6, <1>8, <1>9

(* SetToSeqs lists a finite set without repetition. *)
LEMMA Listed ==
    ASSUME NEW D, IsFiniteSet(D), NEW s \in SetToSeqs(D)
    PROVE  /\ s \in Seq(D) /\ Len(s) = Cardinality(D) /\ DOMAIN s = 1..Len(s)
           /\ \A i, j \in DOMAIN s : i # j => s[i] # s[j]
           /\ \A x \in D : \E k \in DOMAIN s : s[k] = x
  <1> DEFINE n == Cardinality(D)
  <1>1. n \in Nat /\ s \in [1..n -> D] /\ \A i, j \in 1..n : i # j => s[i] # s[j]
    BY FS_CardinalityType DEF SetToSeqs
  <1> HIDE DEF n
  <1>2. s \in Seq(D) /\ Len(s) = n /\ DOMAIN s = 1..n
    BY <1>1
  <1>3. s \in Injection(1..n, D)
    BY <1>1 DEF Injection, IsInjective
  <1>4. IsFiniteSet(1..n) /\ Cardinality(1..n) = n
    BY <1>1, FS_Interval
  <1>5. s \in Surjection(1..n, D)
    BY <1>3, <1>4, FS_Injection DEF n
  <1> QED BY <1>1, <1>2, <1>5 DEF Surjection, n

(* A ranking that calculate_top_genres may return is one of the most played. *)
LEMMA TopIsMostPlayed ==
    ASSUME NEW S, NEW tracks \in Seq(Seq(S)),
           NEW top \in CalculateTopGenres(ExtractGenresFromTracks(tracks))
    PROVE  MostPlayed(tracks, top)
  <1>1. PICK genres : genres = ExtractGenresFromTracks(tracks)
    OBVIOUS
  <1>2. /\ genres \in Seq(S)
        /\ \A g : /\ Plays(tracks, g) = Cardinality(At(genres, g, Len(genres)))
                  /\ Plays(tracks, g) \in Nat
                  /\ Plays(tracks, g) > 0 <=> g \in Range(genres)
    BY <1>1, Played
  <1> DEFINE D == Range(genres)
  <1>3. PICK count : count = GenreCount(genres)
    OBVIOUS
  <1>4. DOMAIN count = D /\ \A g \in D : count[g] = Plays(tracks, g)
    BY <1>2, <1>3, GenreCounted
  <1>5. IsFiniteSet(D)
    <2> DEFINE l == Len(genres)
    <2>1. l \in Nat /\ genres \in [1..l -> D] /\ \A x \in D : \E k \in 1..l : genres[k] = x
      <3>1. genres \in [1..l -> S] /\ l \in Nat /\ DOMAIN genres = 1..l
        BY <1>2
      <3> HIDE DEF l
      <3> QED BY <3>1 DEF Range
    <2> HIDE DEF l, D
    <2>2. IsFiniteSet(1..l) /\ genres \in Surjection(1..l, D)
      BY <2>1, FS_Interval DEF Surjection
    <2> QED BY <2>2, FS_Surjection
  <1> DEFINE Pairs(s) == [i \in DOMAIN s |-> <<s[i], count[s[i]]>>]
  <1>6. PICK s \in SetToSeqs(D) : /\ \A i, j \in DOMAIN s : i < j => count[s[i]] >= count[s[j]]
                                  /\ top = Take(Pairs(s), GenresShown)
    BY <1>1, <1>3, <1>4 DEF CalculateTopGenres
  <1> HIDE DEF D
  <1>7. PICK n \in Nat :
           /\ s \in Seq(D) /\ DOMAIN s = 1..n /\ Len(s) = n
           /\ \A i, j \in 1..n : i # j => s[i] # s[j]
           /\ \A x \in D : \E k \in 1..n : s[k] = x
    <2>1. Len(s) \in Nat
      BY <1>5, <1>6, Listed
    <2> QED BY <1>5, <1>6, <2>1, Listed
  <1>8. /\ \A k \in 1..n : s[k] \in D /\ count[s[k]] = Plays(tracks, s[k])
        /\ \A i, j \in 1..n : i < j => count[s[i]] >= count[s[j]]
    <2>1. \A i, j \in DOMAIN s : i < j => count[s[i]] >= count[s[j]]
      BY <1>6
    <2>2. \A k \in 1..n : s[k] \in D
      BY <1>7
    <2> HIDE DEF Pairs
    <2> QED BY <1>4, <1>7, <2>1, <2>2
  <1>9. \A k \in 1..n : count[s[k]] \in Nat /\ count[s[k]] > 0
    BY <1>2, <1>8 DEF D
  <1> DEFINE q == Pairs(s)
  <1>10. /\ q \in Seq(D \X Nat) /\ Len(q) = n
         /\ \A i \in 1..n : q[i] = <<s[i], count[s[i]]>>
    <2>1. \A i \in 1..n : <<s[i], count[s[i]]>> \in D \X Nat
      BY <1>8, <1>9
    <2>2. q = [i \in 1..n |-> <<s[i], count[s[i]]>>]
      BY <1>7
    <2> HIDE DEF q
    <2> QED BY <2>1, <2>2
  <1> HIDE DEF q
  <1>11. PICK m \in Nat : /\ m = Len(top) /\ DOMAIN top = 1..m /\ m <= n /\ m <= GenresShown
                          /\ m < n => m = GenresShown
                          /\ \A k \in 1..m : top[k] = q[k]
    <2>1. GenresShown \in Nat
      BY GenresAssumption
    <2>2. top = Take(q, GenresShown)
      BY <1>6 DEF q
    <2>3. /\ Len(top) = (IF GenresShown < Len(q) THEN GenresShown ELSE Len(q))
          /\ DOMAIN top = 1..Len(top) /\ \A k \in 1..Len(top) : top[k] = q[k]
      BY <1>10, <2>1, <2>2, Taken
    <2>4. /\ Len(top) \in Nat /\ Len(top) <= n /\ Len(top) <= GenresShown
          /\ Len(top) < n => Len(top) = GenresShown
      <3>1. PICK l : l = Len(top)
        OBVIOUS
      <3>2. l = (IF GenresShown < n THEN GenresShown ELSE n)
        BY <1>10, <2>3, <3>1
      <3>3. l \in Nat /\ l <= n /\ l <= GenresShown /\ (l < n => l = GenresShown)
        BY <2>1, <3>2
      <3> QED BY <3>1, <3>3
    <2> QED BY <2>3, <2>4
  <1>12. \A k \in 1..m : k \in 1..n
    BY <1>11
  <1>13. \A k \in 1..m : top[k][1] = s[k] /\ top[k][2] = count[s[k]]
    BY <1>10, <1>11, <1>12
  <1>14. \A k \in DOMAIN top : top[k][2] = Plays(tracks, top[k][1]) /\ top[k][2] > 0
    BY <1>8, <1>9, <1>11, <1>12, <1>13
  <1>15. \A j, k \in DOMAIN top : j < k => top[j][2] >= top[k][2] /\ top[j][1] # top[k][1]
    <2> SUFFICES ASSUME NEW j \in 1..m, NEW k \in 1..m, j < k
                 PROVE  top[j][2] >= top[k][2] /\ top[j][1] # top[k][1]
      BY <1>11
    <2>1. j # k
      OBVIOUS
    <2>2. s[j] # s[k] /\ count[s[j]] >= count[s[k]]
      BY <1>7, <1>8, <1>12, <2>1
    <2> QED BY <1>13, <2>2
  <1>16. ASSUME NEW g, g \notin {top[k][1] : k \in DOMAIN top}, Plays(tracks, g) > 0
         PROVE  m = GenresShown /\ \A k \in DOMAIN top : Plays(tracks, g) <= top[k][2]
    <2>1. g \in D
      BY <1>2, <1>16 DEF D
    <2>2. PICK i \in 1..n : s[i] = g
      BY <1>7, <2>1
    <2>3. i \notin 1..m
      BY <1>11, <1>13, <1>16, <2>2
    <2>4. i > m /\ m < n
      BY <2>3
    <2>5. \A k \in 1..m : k < i
      BY <2>4
    <2>6. \A k \in 1..m : count[s[k]] >= count[s[i]] /\ count[s[k]] \in Nat
      BY <1>8, <1>9, <1>12, <2>5
    <2>7. Plays(tracks, g) = count[s[i]] /\ count[s[i]] \in Nat
      BY <1>8, <1>9, <2>2
    <2>8. \A k \in 1..m : Plays(tracks, g) <= top[k][2]
      BY <1>13, <2>6, <2>7
    <2> QED BY <1>11, <2>4, <2>8
  <1> QED BY <1>11, <1>14, <1>15, <1>16 DEF MostPlayed

(* Whatever jobs ran, died or were tried again, the genres shown are those    *)
(* that counting the plays of one answer of Spotify gives: the Hash, the sort *)
(* that is not stable and the cut lose none and put none too high.            *)
THEOREM RankingRight == Spec => []GenresMostPlayed
  <1>1. KInv => GenresMostPlayed
    <2> SUFFICES ASSUME KInv, row.favorite_genre # DefaultGenres
                 PROVE  \E tracks \in answers : MostPlayed(tracks, row.favorite_genre)
      BY DEF GenresMostPlayed
    <2>1. PICK tracks \in answers :
             row.favorite_genre \in CalculateTopGenres(ExtractGenresFromTracks(tracks))
      BY DEF KInv, RankedFrom
    <2>2. tracks \in Seq(Seq(GenresOf(tracks)))
      BY StatsTracks DEF KInv, TypeOK
    <2>3. MostPlayed(tracks, row.favorite_genre)
      BY <2>1, <2>2, TopIsMostPlayed
    <2> QED BY <2>3
  <1> QED BY <1>1, Inductive, PTL
===============================================================================
