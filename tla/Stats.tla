-------------------------------- MODULE Stats --------------------------------
(***************************************************************************)
(* The daily statistics of a user: the before_action collect_stats pushes  *)
(* a Stats job when the row of `spotifydata` is a day old and marks the    *)
(* row as fresh, and the job writes the favorite genres into the same row. *)
(* Requests and jobs run concurrently; a step is one access to shared      *)
(* state and the local computation that follows it.                        *)
(***************************************************************************)
EXTENDS Integers, ActiveRecord, Genres

CONSTANTS
    Threads,         \* Puma threads
    Tracks,          \* what Spotify may answer to top_tracks
    DefaultGenres,   \* the default of favorite_genre: "Genre 1" to "Genre 5"
    nil,
    Day,             \* clock ticks per 24 hours
    MaxTime,         \* bound on the clock
    MaxJobs,         \* bound on the jobs pushed
    MaxRetries       \* sidekiq_options retry: 5

ASSUME StatsAssumption ==
    /\ Day \in Nat \ {0}
    /\ MaxTime \in Nat /\ MaxJobs \in Nat /\ MaxRetries \in Nat
    /\ nil \notin Int

VARIABLES
    now,             \* Time.now
    row,             \* the user's row of `spotifydata`
    req,             \* what the collect_stats of each thread is doing
    jobs,            \* the Stats jobs pushed, oldest first
    answers          \* history: the top tracks Spotify has sent

vars == <<now, row, req, jobs, answers>>
-------------------------------------------------------------------------------
(* The default of the column timestamp: a day long before now. *)
LongAgo == -(Day + 1)
NewRow == [favorite_genre |-> DefaultGenres, timestamp |-> LongAgo]

(* What the worker may make of one of some answers. *)
RankedFrom(A) == UNION {CalculateTopGenres(ExtractGenresFromTracks(t)) : t \in A}

Rankings == RankedFrom(Tracks)

(* Spotify's answer is a list of tracks, a track the list of its genres. *)
ASSUME StatsTracks ==
    \A tracks \in Tracks : tracks \in Seq(Seq(GenresOf(tracks)))

(* Nobody's genres are "Genre 1" to "Genre 5". *)
ASSUME StatsDefaults == DefaultGenres \notin Rankings

Row == [favorite_genre : Rankings \cup {DefaultGenres}, timestamp : Int]

(* A request that has found the statistics a day old: spotifydata in        *)
(* memory, the index of its job and the time for the timestamp.             *)
Idle == [pc |-> "idle", data |-> Loaded(NewRow), job |-> 0, stamp |-> 0]
Request == [pc : {"idle", "push", "stamp"}, data : Objects(Row), job : Nat, stamp : Int]

(* A job: when it was pushed, whether its push was followed by the update   *)
(* of the timestamp (history), how far perform has come, its ranking and    *)
(* spotifydata in memory.                                                   *)
Job == [at : Int, stamped : BOOLEAN, retries : Nat,
        pc : {"queued", "load", "save", "return", "done", "dead", "lost"},
        top : Rankings \cup {nil}, data : Objects(Row)]

NewJob == [at |-> now, stamped |-> FALSE, retries |-> 0, pc |-> "queued",
           top |-> nil, data |-> Loaded(NewRow)]

(* The job leaves the process, and what perform held in memory is gone. *)
Leave(job, pc) == [job EXCEPT !.pc = pc, !.top = nil, !.data = Loaded(NewRow)]

Init ==
    /\ now = 0
    /\ row = NewRow
    /\ req = [t \in Threads |-> Idle]
    /\ jobs = <<>>
    /\ answers = {}
-------------------------------------------------------------------------------
(* collect_stats and StatsUpdater#call *)

(* Mutation: a day but one tick is enough. *)
NeedsUpdatingEarly(data) == data.timestamp - 1 <= now - Day

(* stats_collection_required?, and stats_needs_updating? once more on the   *)
(* same object a moment later.                                              *)
NeedsUpdating(data) == data.timestamp <= now - Day

(* The row is loaded and is a day old; otherwise nothing happens. *)
CollectStats(t) ==
    /\ req[t].pc = "idle" /\ NeedsUpdating(row)
    /\ req' = [req EXCEPT ![t] = [Idle EXCEPT !.pc = "push", !.data = Loaded(row)]]
    /\ UNCHANGED <<now, row, jobs, answers>>

(* Stats.perform_async, then the Time.now of update_timestamp. *)
Push(t) ==
    /\ req[t].pc = "push" /\ Len(jobs) < MaxJobs
    /\ jobs' = Append(jobs, NewJob)
    /\ req' = [req EXCEPT ![t] = [@ EXCEPT !.pc = "stamp", !.stamp = now,
                                           !.job = Len(jobs) + 1]]
    /\ UNCHANGED <<now, row, answers>>

(* spotifydata in memory with a new timestamp, with new genres. *)
SetTimestamp(data, time) ==
    [data EXCEPT !.attr = [favorite_genre |-> data.attr.favorite_genre, timestamp |-> time]]
SetGenres(data, top) ==
    [data EXCEPT !.attr = [favorite_genre |-> top, timestamp |-> data.attr.timestamp]]

(* Mutations: the whole object is written; no time is stored. *)
StampAs(t, newrow) ==
    /\ req[t].pc = "stamp"
    /\ row' = newrow
    /\ jobs' = [jobs EXCEPT ![req[t].job].stamped = TRUE]
    /\ req' = [req EXCEPT ![t] = Idle]
    /\ UNCHANGED <<now, answers>>
StampWhole(t) == StampAs(t, SetTimestamp(req[t].data, req[t].stamp).attr)
StampNil(t) == StampAs(t, Written(row, SetTimestamp(req[t].data, nil)))

(* update_timestamp *)
Stamp(t) ==
    /\ req[t].pc = "stamp"
    /\ row' = Written(row, SetTimestamp(req[t].data, req[t].stamp))
    /\ jobs' = [jobs EXCEPT ![req[t].job] = [@ EXCEPT !.stamped = TRUE]]
    /\ req' = [req EXCEPT ![t] = Idle]
    /\ UNCHANGED <<now, answers>>

(* Mutation: the timestamp is updated in an `ensure`. *)
RescueAndStamp(t) ==
    /\ req[t].pc # "idle"
    /\ row' = Written(row, SetTimestamp(req[t].data, now))
    /\ req' = [req EXCEPT ![t] = Idle]
    /\ UNCHANGED <<now, jobs, answers>>

(* The push or the update raises, which is rescued and logged; or Puma is   *)
(* restarted.                                                               *)
Rescue(t) ==
    /\ req[t].pc # "idle"
    /\ req' = [req EXCEPT ![t] = Idle]
    /\ UNCHANGED <<now, row, jobs, answers>>
-------------------------------------------------------------------------------
(* Stats#perform *)

(* top_tracks, the extraction and the ranking. *)
FetchTopTracks(i) ==
    /\ jobs[i].pc = "queued"
    /\ \E tracks \in Tracks :
         /\ answers' = answers \cup {tracks}
         /\ \E top \in CalculateTopGenres(ExtractGenresFromTracks(tracks)) :
               jobs' = [jobs EXCEPT ![i] = [@ EXCEPT !.pc = "load", !.top = top]]
    /\ UNCHANGED <<now, row, req>>

(* user.spotifydata is loaded when update_user_data first names it. *)
LoadData(i) ==
    /\ jobs[i].pc = "load"
    /\ jobs' = [jobs EXCEPT ![i] =
                   [@ EXCEPT !.pc = "save",
                             !.data = SetGenres(Loaded(row), jobs[i].top)]]
    /\ UNCHANGED <<now, row, req, answers>>

SaveData(i) ==
    /\ jobs[i].pc = "save"
    /\ row' = Written(row, jobs[i].data)
    /\ jobs' = [jobs EXCEPT ![i] = [@ EXCEPT !.pc = "return"]]
    /\ UNCHANGED <<now, req, answers>>

Return(i) ==
    /\ jobs[i].pc = "return"
    /\ jobs' = [jobs EXCEPT ![i] = Leave(@, "done")]
    /\ UNCHANGED <<now, row, req, answers>>

(* perform raises, also after the save took effect: Sidekiq runs it again   *)
(* from the start, until its retries are used up.                           *)
Raise(i) ==
    /\ jobs[i].pc \in {"queued", "load", "save", "return"}
    /\ jobs' = [jobs EXCEPT ![i] =
                   IF @.retries < MaxRetries
                   THEN [Leave(@, "queued") EXCEPT !.retries = jobs[i].retries + 1]
                   ELSE Leave(@, "dead")]
    /\ UNCHANGED <<now, row, req, answers>>

(* Sidekiq is killed while the job runs. *)
Kill(i) ==
    /\ jobs[i].pc \in {"load", "save", "return"}
    /\ jobs' = [jobs EXCEPT ![i] = Leave(@, "lost")]
    /\ UNCHANGED <<now, row, req, answers>>
-------------------------------------------------------------------------------
Tick == now < MaxTime /\ now' = now + 1 /\ UNCHANGED <<row, req, jobs, answers>>

(* The clock stands at its bound and nothing is left to do. *)
Quiet ==
    /\ now = MaxTime
    /\ UNCHANGED vars

Next ==
    \/ \E t \in Threads : CollectStats(t) \/ Push(t) \/ Stamp(t) \/ Rescue(t)
    \/ \E i \in DOMAIN jobs :
          FetchTopTracks(i) \/ LoadData(i) \/ SaveData(i) \/ Return(i) \/ Raise(i) \/ Kill(i)
    \/ Tick \/ Quiet

Spec == Init /\ [][Next]_vars
-------------------------------------------------------------------------------
(* Properties *)

(* Types of the state: the row, the filters in flight and the jobs. *)
TypeOK ==
    /\ now \in Nat
    /\ row \in Row
    /\ req \in [Threads -> Request]
    /\ jobs \in Seq(Job)
    /\ answers \subseteq Tracks

(* The row is marked as fresh only by a request that pushed a job before, at  *)
(* the time it stored: a push that fails never costs the user a day without   *)
(* statistics.                                                                *)
FreshHasJob ==
    row.timestamp # LongAgo => \E i \in DOMAIN jobs : jobs[i].at = row.timestamp

(* The genres in the row, once a job wrote them, are the most played of the   *)
(* tracks that Spotify sent to a job, with their counts: the counting loop,   *)
(* the sort and the cuts of the worker agree with the plain definition.       *)
GenresMostPlayed ==
    row.favorite_genre # DefaultGenres =>
        \E tracks \in answers : MostPlayed(tracks, row.favorite_genre)

(* Genres written by a job are never replaced by the placeholders again,      *)
(* though update_timestamp saves an object that was loaded before the job     *)
(* wrote them.                                                                *)
GenresKept ==
    [][row.favorite_genre # DefaultGenres => row'.favorite_genre # DefaultGenres]_row

(* One thread: a job whose push was followed by its timestamp is the only one *)
(* for 24 hours, however the worker's writes of the same row come in between. *)
OneJobPerDay ==
    \A i, j \in DOMAIN jobs :
        i < j /\ jobs[i].stamped => jobs[j].at - jobs[i].at >= Day
===============================================================================
