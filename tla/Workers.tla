------------------------------- MODULE Workers -------------------------------
(***************************************************************************)
(* The Sidekiq pipeline behind "Your playlist is being created": a job of  *)
(* class Playlist asks OpenAI for a title and a list of songs and pushes a *)
(* job of class Create, which searches the songs and builds the playlist   *)
(* on Spotify. Each step of a perform is one call to a service; what a     *)
(* call returns is chosen, and any of them may raise.                      *)
(*                                                                         *)
(* Sidekiq (external) is what `sidekiq_options retry:` and perform_async   *)
(* rely on: a job fetched lives in the memory of the process only; a job   *)
(* that raises is scheduled again until its retries are used up; a         *)
(* shutdown puts the running jobs back in the queue; a kill loses them.    *)
(***************************************************************************)
EXTENDS Naturals, Sequences, FiniteSets

CONSTANTS
    Requests,       \* calls of home#create_playlist that were let through
    Titles,         \* what OpenAI may send as a title
    Concurrency,    \* sidekiq -c 1 in production, :concurrency: 5 elsewhere
    MaxRetries,     \* sidekiq_options retry: 5
    MaxShutdowns,   \* bound on the restarts of Sidekiq
    MaxCrashes      \* bound on its kills

ASSUME WorkersAssumption ==
    /\ "clean" \in Titles
    /\ Concurrency \in Nat \ {0}
    /\ MaxRetries \in Nat /\ MaxShutdowns \in Nat /\ MaxCrashes \in Nat

VARIABLES
    jobs,           \* every job pushed, oldest first
    playlists,      \* how many playlists each has created on Spotify
    shutdowns,      \* history: restarts so far
    crashes         \* history: kills so far

vars == <<jobs, playlists, shutdowns, crashes>>
-------------------------------------------------------------------------------

Job == [class : {"Playlist", "Create"}, request : Requests,
        state : {"queued", "running", "retry", "dead", "lost", "done"},
        pc : {"ask", "push", "return", "search", "tracks", "image"},
        retries : Nat, title : Titles, found : BOOLEAN]

(* Where perform starts. *)
FirstStep(class) == IF class = "Playlist" THEN "ask" ELSE "search"

(* The job leaves the process for the given state, and what perform held in *)
(* memory is gone.                                                          *)
Leave(job, state) ==
    [job EXCEPT !.state = state, !.pc = FirstStep(job.class)]

NewJob(class, request, title) ==
    [class |-> class, request |-> request, state |-> "queued",
     pc |-> FirstStep(class), retries |-> 0, title |-> title,
     found |-> TRUE]

Running(i, pc) == jobs[i].state = "running" /\ jobs[i].pc = pc

Init == jobs = <<>> /\ playlists = <<>> /\ shutdowns = 0 /\ crashes = 0
-------------------------------------------------------------------------------
(* Sidekiq *)

(* perform_async: the job is in the queue, and has created nothing. *)
Push(others, job) ==
    /\ jobs' = Append(others, job)
    /\ playlists' = Append(playlists, 0)

(* Playlist.perform_async in home#create_playlist. *)
Request(r) ==
    /\ \A i \in DOMAIN jobs : jobs[i].request # r
    /\ Push(jobs, NewJob("Playlist", r, "clean"))
    /\ UNCHANGED <<shutdowns, crashes>>

(* A processor takes a job out of Redis and calls perform from its start. *)
Fetch(i) ==
    /\ jobs[i].state = "queued"
    /\ Cardinality({k \in DOMAIN jobs : jobs[k].state = "running"}) < Concurrency
    /\ jobs' = [jobs EXCEPT ![i].state = "running"]
    /\ UNCHANGED <<playlists, shutdowns, crashes>>

(* The perform raises: a call that fails or times out (also after it took   *)
(* effect), an answer without "choices", a text that is not JSON.           *)
Raise(i) ==
    /\ jobs[i].state = "running"
    /\ jobs' = [jobs EXCEPT ![i] =
                   IF @.retries < MaxRetries
                   THEN [Leave(@, "retry") EXCEPT !.retries = jobs[i].retries + 1]
                   ELSE Leave(@, "dead")]
    /\ UNCHANGED <<playlists, shutdowns, crashes>>

(* The poller moves a job whose time has come from the retry set to the     *)
(* queue.                                                                   *)
Poll(i) ==
    /\ jobs[i].state = "retry"
    /\ jobs' = [jobs EXCEPT ![i].state = "queued"]
    /\ UNCHANGED <<playlists, shutdowns, crashes>>

(* Every job that runs is in the given state now. *)
AllRunning(state) ==
    /\ \E i \in DOMAIN jobs : jobs[i].state = "running"
    /\ jobs' = [i \in DOMAIN jobs |->
                   IF jobs[i].state = "running"
                   THEN Leave(jobs[i], state) ELSE jobs[i]]

(* A deployment: the jobs that do not end in time are pushed back. *)
Shutdown ==
    /\ shutdowns < MaxShutdowns /\ shutdowns' = shutdowns + 1
    /\ AllRunning("queued")
    /\ UNCHANGED <<playlists, crashes>>

(* The process is killed: the jobs it was running are gone. *)
Crash ==
    /\ crashes < MaxCrashes /\ crashes' = crashes + 1
    /\ AllRunning("lost")
    /\ UNCHANGED <<playlists, shutdowns>>
-------------------------------------------------------------------------------
(* Playlist#perform *)

(* generate_playlist_title and generate_song_list: two questions to OpenAI. *)
(* clean_string is called on the title and its result dropped.              *)
Ask(i) ==
    /\ Running(i, "ask")
    /\ \E title \in Titles :
          jobs' = [jobs EXCEPT ![i].title = title, ![i].pc = "push"]
    /\ UNCHANGED <<playlists, shutdowns, crashes>>

(* Mutations: the title is not handed on; a push that fails is rescued and  *)
(* perform goes on.                                                         *)
PushCreateUntitled(i) ==
    /\ Running(i, "push")
    /\ Push([jobs EXCEPT ![i].pc = "return"],
            NewJob("Create", jobs[i].request, ""))
    /\ UNCHANGED <<shutdowns, crashes>>

PushCreateRescued(i) ==
    /\ Running(i, "push")
    /\ \/ /\ Push([jobs EXCEPT ![i].pc = "return"],
               NewJob("Create", jobs[i].request, jobs[i].title))
       \/ jobs' = [jobs EXCEPT ![i].pc = "return"] /\ UNCHANGED playlists
    /\ UNCHANGED <<shutdowns, crashes>>

(* Create.perform_async *)
PushCreate(i) ==
    /\ Running(i, "push")
    /\ Push([jobs EXCEPT ![i].pc = "return"],
            NewJob("Create", jobs[i].request, jobs[i].title))
    /\ UNCHANGED <<shutdowns, crashes>>

Return(i) ==
    /\ Running(i, "return")
    /\ jobs' = [jobs EXCEPT ![i] = Leave(@, "done")]
    /\ UNCHANGED <<playlists, shutdowns, crashes>>
-------------------------------------------------------------------------------
(* Create#perform *)

(* The loop over RSpotify::Track.search finds no song: that was all. *)
FindNothing(i) ==
    /\ Running(i, "search")
    /\ jobs' = [jobs EXCEPT ![i] = [Leave(@, "done") EXCEPT !.found = FALSE]]
    /\ UNCHANGED <<playlists, shutdowns, crashes>>

(* It finds some: spotify_user.create_playlist!, with the job's title. *)
CreatePlaylist(i) ==
    /\ Running(i, "search")
    /\ playlists' = [playlists EXCEPT ![i] = @ + 1]
    /\ jobs' = [jobs EXCEPT ![i].pc = "tracks"]
    /\ UNCHANGED <<shutdowns, crashes>>

(* Mutation: a refused POST goes back to create_playlist! by itself. *)
AddTracksOrRestart(i) ==
    /\ Running(i, "tracks")
    /\ playlists[i] < 9
    /\ jobs' = [jobs EXCEPT ![i].pc = "search"]
    /\ UNCHANGED <<playlists, shutdowns, crashes>>

(* The POST of the tracks. HTTParty does not raise on a status like 401 or  *)
(* 429 and the response is not looked at, so perform goes on whether the    *)
(* songs were added or not: which it was is left out.                       *)
AddTracks(i) ==
    /\ Running(i, "tracks")
    /\ jobs' = [jobs EXCEPT ![i].pc = "image"]
    /\ UNCHANGED <<playlists, shutdowns, crashes>>

(* Mutation: as long as the PUT is refused, the tracks and the image are    *)
(* sent again.                                                              *)
PutImageAgain(i) ==
    /\ Running(i, "image")
    /\ \/ jobs' = [jobs EXCEPT ![i] = Leave(@, "done")]
       \/ jobs' = [jobs EXCEPT ![i].pc = "tracks"]
    /\ UNCHANGED <<playlists, shutdowns, crashes>>

(* The PUT of the image, whose response is not looked at either: that a     *)
(* playlist has its picture matters to no property and is left out.         *)
PutImage(i) ==
    /\ Running(i, "image")
    /\ jobs' = [jobs EXCEPT ![i] = Leave(@, "done")]
    /\ UNCHANGED <<playlists, shutdowns, crashes>>
-------------------------------------------------------------------------------
(* One step of the perform of job i. *)
Perform(i) ==
    \/ Ask(i) \/ PushCreate(i) \/ Return(i)
    \/ FindNothing(i) \/ CreatePlaylist(i) \/ AddTracks(i) \/ PutImage(i)
    \/ Raise(i)

(* Nothing is left to do: every request was made and every job has ended. *)
Ended(job) == job.state \in {"done", "dead", "lost"}
Quiet ==
    /\ \A r \in Requests : \E i \in DOMAIN jobs : jobs[i].request = r
    /\ \A i \in DOMAIN jobs : Ended(jobs[i])
    /\ UNCHANGED vars

Next ==
    \/ \E r \in Requests : Request(r)
    \/ \E i \in DOMAIN jobs : Fetch(i) \/ Perform(i) \/ Poll(i)
    \/ Shutdown \/ Crash
    \/ Quiet

(* Sidekiq's processors and its poller keep running; nothing is assumed of  *)
(* the users, of the services or of who restarts the process. A call that   *)
(* hangs is cut off by the timeouts of Net::HTTP, so a perform goes on or   *)
(* raises. With a full pool a job waits for the ones before it, hence weak  *)
(* fairness of the fetch of some job and not of each.                       *)
Fairness ==
    /\ WF_vars(\E i \in DOMAIN jobs : Fetch(i))
    /\ WF_vars(\E i \in DOMAIN jobs : Perform(i))
    /\ WF_vars(\E i \in DOMAIN jobs : Poll(i))

Spec == Init /\ [][Next]_vars /\ Fairness
-------------------------------------------------------------------------------
(* Properties *)

(* Types of the state: the jobs Sidekiq knows of and Spotify's playlists. *)
TypeOK ==
    /\ jobs \in Seq(Job)
    /\ playlists \in Seq(Nat) /\ Len(playlists) = Len(jobs)
    /\ shutdowns \in 0..MaxShutdowns
    /\ crashes \in 0..MaxCrashes

JobsOf(r) == {i \in DOMAIN jobs : jobs[i].request = r}

(* A request that was let through is never forgotten: a job is still to do    *)
(* for it, or a playlist exists, or there is a job that says why not (dead,   *)
(* killed with the process, or no song found).                                *)
NothingVanishes ==
    \A r \in Requests : JobsOf(r) # {} =>
        \E i \in JobsOf(r) :
            \/ jobs[i].state # "done"
            \/ playlists[i] > 0
            \/ ~jobs[i].found

(* An attempt of Create creates at most one playlist, so that the retries of  *)
(* a job and the restarts of Sidekiq bound the playlists it leaves behind.    *)
PlaylistsBounded ==
    \A i \in DOMAIN jobs : playlists[i] <= 1 + jobs[i].retries + shutdowns

(* Every request comes to an end: the jobs made for it are done, dead or lost *)
(* and stay so, whatever the services answer.                                 *)
EveryRequestEnds ==
    \A r \in Requests :
        JobsOf(r) # {} ~> [](\A i \in JobsOf(r) : Ended(jobs[i]))

(* A request yields one playlist: neither one job nor two create a second. *)
OnePlaylistPerRequest ==
    \A i, k \in DOMAIN jobs :
        jobs[i].request = jobs[k].request /\ playlists[i] > 0 /\ playlists[k] > 0
            => i = k /\ playlists[i] = 1
===============================================================================
