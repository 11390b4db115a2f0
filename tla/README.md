# Knoiz: a TLA+ verification project

Knoiz is a Rails application. A user signs in with Spotify, types a few words,
and a playlist made by OpenAI and Spotify appears in the user's account. Users
have one free token; passes of 7, 30 or 180 days, sold through Stripe Checkout,
lift the limit and open the statistics pages. Requests are served by Puma (a
pool of 5 threads per process, `config/puma.rb:1`), the slow work is done by
Sidekiq (`Procfile`: `sidekiq -c 1`; `config/sidekiq.yml`: 5), the state is in
PostgreSQL, Redis, the session cookie, and in Stripe's and Spotify's hands. The
repository also carries the source of the Redis server that Sidekiq's queue
lives in, twice.

No method of the application takes a lock, opens a transaction around a read and
a later write, or uses `lock_version`. What makes it correct or not is therefore
decided by the order of single SELECTs, UPDATEs, pushes, cookies and calls of
concurrent requests and jobs. That order is what these modules model. For Redis,
a single-threaded server with a forked child, it is the order of commands, of the
loop that serves blocked clients, and of the child's steps.

## Inventory

| Component | State | Operations | Hard because | Must hold |
|---|---|---|---|---|
| Pass: `payments_controller.rb`, `stripe_subscription_concern.rb`, `current_user_concern.rb` | row of `subscriptions` (`active`, `expires_at`, `stripe_user_id`); Stripe's Checkout sessions | filter `check_stripe_subscription` before every action; `create_checkout_session`; `success` with two `save!`; `verif_subscription` | the filter decides on a row loaded earlier; partial writes of two requests mix; the end of the pass is an instant; reloads of the success URL | passes come from checkout sessions, last as long as their price says and are honoured to their end; the gate opens only on a pass; the customer is kept |
| Wallet: `home_controller.rb` | row of `wallets` (`token`, `timestamp`) | `check_eligibility`, `create_playlist_worker`, `update_wallet`, spend | check and charge are apart, the push of the job is between them and in another store | the token is charged exactly for jobs pushed, never given back; one minute between playlists |
| Countdown: `timer_controller.js`, `home/index.html.erb` | the page's button, an interval timer | `connect`, the interval's callback | whole seconds against the server's exact times; late intervals | the button is hardly early |
| Playlist and Create workers: `workers/playlist.rb`, `workers/create.rb` | jobs in Redis, in the process or retried; playlists on Spotify | `perform` of each, one external call after another; `retry: 5` | a retry starts over after effects that stay; a restart requeues; a kill loses what runs | no request vanishes; playlists bounded by attempts; every request ends |
| Statistics: `services/stats_updater.rb`, `stats_concern.rb`, `workers/stats.rb` | row of `spotifydata` (`favorite_genre`, `timestamp`) | once-a-day push by a filter, genre ranking in the worker | push before the timestamp; late writes of a retried job | fresh only after a push; one job a day; the genres stored are the most played and are kept |
| Sign-in: `sessions_controller.rb`, `user.rb` | `users` and its related rows, the cookie | `create` (OmniAuth callback), `destroy`, `after_create` | `find_or_create_by` without a unique index; a rescue half way; answers that put an old cookie back | accounts are not mixed; duplicates are few |
| Spotify token: `spotify_token_refresher.rb`, `spotify_concern.rb`, `HomeController#refresh_access_token`, `StatsController#access_token_refreshing` | `profile.updated_at`, `session[:spotify_user_data]` | three refresh paths after an hour | one path marks the data as fresh without storing it; one names an undefined variable | the name written is the account's; who refreshes what |
| Redis lists and blocked clients: `t_list.c`, `blocked.c`, `timeout.c`, `multi.c`, `db.c` | keys, `db->blocking_keys`, `db->ready_keys`, `server.ready_keys`, `bstate` | push, blocking pop and move, DEL, SET, RENAME, EXEC, service, timeouts, disconnects | keys become ready while clients are served; clients wait for several keys | no lost wake-up; order; each element once; waits and service end |
| Redis RDB snapshots: `rdb.c`, `server.c`, `db.c` | `dirty`, `dirty_before_bgsave`, `lastbgsave_status`, the child, `dump.rdb` | SAVE, BGSAVE, save points, FLUSHALL, SHUTDOWN, reaping, restart | changes during a save; failures before and after the rename; kills; crashes | unsaved changes are counted; the file never goes back; changes reach it; writes resume |
| Stripe services: `services/stripe_services/*` | - | - | dead code: nobody calls it | - |
| Pages: pricing, users#info, layout, navbar; tops and dynamic_url controllers | - | render | - | what they promise is quoted by the findings |
| The rest of Redis | - | - | third-party | - |

How they interact: every request runs the filters `set_current_user`,
`check_stripe_subscription`, `refresh_spotify_access_token` and `collect_stats`
(`application_controller.rb`), each of which may write a row. `create_playlist`
reads the pass (`subscription.active`) and the wallet, pushes a `Playlist` job
with the session's Spotify data, and `Playlist` pushes `Create`. A push is an
LPUSH, a fetch a BRPOP over the queues, a requeue an RPUSH. `payments#success` is
reached by Stripe's redirect, or by loading its URL again.

`PROJECT.json` lists the hazards, each at its line with the properties that cover
it, or a note when none does.

## Modules

| Module | Models |
|---|---|
| `ActiveRecord` | external: an object remembers the row as it was read, a save writes the dirty columns only, whatever the row holds by then |
| `Subscription` | the pass of one user, served by a set of threads |
| `PassLedger` | abstract: what a pass is, seen from outside: opened, due, granted, lapsed |
| `SubscriptionProofs`, `SubscriptionSerialProofs` | theorems for every number of threads; for requests served one at a time |
| `Wallet` | `home#create_playlist` of one user, served by a set of threads |
| `Countdown` | extends `Wallet` with the page in the browser: its button and its timer |
| `WalletProofs` | theorems about both |
| `Account`, `AccountProofs` | sign-in, sign-out, the cookie and the three refreshes, for one browser and a set of threads; theorems |
| `Workers`, `WorkersProofs` | the two Sidekiq jobs behind a playlist; theorems |
| `Genres`, `Stats`, `StatsProofs` | the ranking of the Stats worker, with a definition of what it means; the daily filter and the Stats job on one user's row; theorems about both |
| `BlockingLists`, `BlockingListsProofs` | Redis's lists and the clients blocked on them; theorems |
| `Handoff` | abstract: elements are put, taken by one client or dropped, and never come back |
| `RdbSaves`, `RdbSavesProofs` | Redis's snapshots, restarts and crashes; theorems |
| `MC*` | small instances for TLC (`Countdown` needs none) |

In `Subscription`, `Wallet`, `Account` a step is one access to shared state
together with the local computation that follows it. `req[t]` holds what a thread
has in memory: the program point, the action it is routed to, its parameter and
the object it loaded. Users share no row, so `Subscription` and `Wallet` have one.

`Subscription`

| Action | Code |
|---|---|
| `StartPage`, `StartStats`, `StartCheckout`, `StartSuccess` | the SELECTs of the filters and the test of line 20 of the concern |
| `Expire` | `update(active: false, expires_at: nil)` |
| `Render`, `Premium` | the actions that write nothing; `verif_subscription`'s gate |
| `CreateCheckoutSession` | the session opened at Stripe, with the stored customer |
| `RetrieveSession`, `SavePass`, `SaveCustomer` | `success`: the calls to Stripe, then its two `save!` |
| `Abort` | an exception, a rescued failure or a restart between two accesses |
| `Pay`, `SignIn`, `SignOut`, `Tick` | the environment |

`days.days.from_now.end_of_day` is `PassEnd`: times are ticks, a day has
`DayLength` of them, and the end of a day is its last tick. `grants` and `pass`
are history variables: every pass `success` wrote, and the last one.
`StartSuccess` names any session that was opened: the code asks Stripe for it and does
not look at its status. `KeepsLedger` maps the row to `PassLedger`'s `on` and `until`,
the sessions' prices to `price`, and the ends that requests are about to save to `due`.

`Wallet`: `Start` loads the pass, `CheckEligibility` loads the wallet and runs
`eligible_for_playlist?`, `Enqueue` is `perform_async` and the `Time.now` after it,
`Stamp` is `update_wallet`, `Spend` is `wallet.update(token: '0')`. `jobs` is the
history of the jobs pushed. `subscribed` stands for `Subscription`'s `active`.

`Countdown`: `Connect` is the page of `home#index` with `wallet.timestamp.to_i` and
`connect()`; `Interval` is the callback of `setInterval`, at its time or later; a
second has `Second` ticks of `Wallet`'s clock.

`Account`: the session is a cookie, so a request works on the session it came with
(`sess`) and `Respond` replaces the browser's (`jar`), in any order. Spotify's data
is the account it belongs to; `fresh` is `profile.updated_at` within the hour, in
the row and in the object that the request loaded, which all three refreshes share
through `@current_user.profile`. `StoreSpotifyData` to `SignInProfile` are
`sessions#create`, `SignInFails` its rescue; `ServiceUser`, `ServiceProfile` and
`ServiceFails` are `SpotifyTokenRefresher`; `RefreshAccessToken`, `HomeUser`,
`HomeProfile` are HomeController's refresh. StatsController's always raises
(`stats_controller.rb:68` names a variable of another method), after a session
write that is lost with the answer: it is part of `Raise`.

`Workers`: `jobs` is every job ever pushed with its state (queued, running, in the
retry set, dead, lost with a killed process, done) and its program point;
`playlists[i]` counts the playlists job `i` created. `Ask`, `PushCreate`, `Return`
are `Playlist#perform`; `FindNothing`, `CreatePlaylist`, `AddTracks`, `PutImage`
are `Create#perform`; `Raise` is an exception anywhere in either. `Fetch`, `Poll`,
`Shutdown`, `Crash` are Sidekiq's, external. Which songs and titles are involved
is abstracted to whether a song was found.

`Stats`: `CollectStats` is the load and the test of the filter, `Push` and `Stamp`
are `StatsUpdater#call`, `Rescue` its rescue; `FetchTopTracks`, `LoadData`, `SaveData`,
`Return` are `Stats#perform`, `Raise` and `Kill` what Sidekiq makes of a failure.
`sort_by` is not stable, so `CalculateTopGenres` is the set of rankings Ruby may
return; `MostPlayed` says what each must be without loop or sort. A genre that a
track names twice counts twice, in the Hash and in `Plays`. The worker's 3 and 5 are the constants `GenresPerTrack` and `GenresShown`.

`BlockingLists`: variables have the names of the structures they model;
`blocking_keys[k]` is the list of clients in the order they blocked, `client[c]` is
`bstate`, `handling`, `batch` and `serving` are where `handleClientsBlockedOnKeys`
is. Commands run between two runs of that loop; a command inside EXEC
(`executing`) does not block. `Process` is the blocking command, called for the
client that sends it and again, with the queues it has left (`Released`), for a client
that is served. Elements are numbered as they are pushed. BLMOVE pushes at the head
here, as BRPOPLPUSH does; the other end only reorders the destination.

`RdbSaves`: a dataset is the number of changes that led to it and whether it is
empty. `child.state` follows the saving child from fork to exit to being reaped:
`ChildRenames` is the rename inside `rdbSave`, `KillRDBChild` the SIGUSR1 that a
child which has already exited does not notice. `LoadDataFromDisk` is a restart,
after `FinishShutdown` with what was saved, after `Crash` with what the file holds.
A BGSAVE that is scheduled (inside EXEC) is a later `BgsaveCommand`.

## Runs

| Run | Instance | Shows |
|---|---|---|
| `subscription_serial` | 1 thread, 2 prices (1 and 2 days), 2 sessions, 2 customers, days of 2 ticks, clock to 6 | the row implements `PassLedger`; `active` and `expires_at` agree at every step; the pass granted last is in force through its last instant; the stats gate opens only on a pass that had not ended when the filters ran; the customer is never replaced |
| `subscription_threads` | 2 threads, 1 price, 2 sessions, clock to 2 | whatever the interleaving: an end date is one that `success` worked out for the price of an opened session, access on a dated pass has a grant that had not ended, and the customer is that of a paid session |
| `subscription_lost_pass` (violation) | 2 threads, 1 session, clock to 2 | an expiry decided on the old pass is written over the new one, which is erased |
| `wallet_countdown` | 1 thread, 2 ticks a second, minute of 4, clock to 12, 2 jobs, 1 request cut short | two jobs are more than a minute apart once the first one's timestamp is written; the button is at most a second early |
| `wallet_threads` | 2 threads, 4 jobs, 1 request cut short, clock to 4 | the token is gone exactly when it was taken for a job pushed; a thread takes it at most once; a stale save never gives it back |
| `wallet_race` (violation) | 2 threads | two requests are let through on one token |
| `account_threads` | 2 threads, 2 accounts, 3 users, 4 requests | the session, the jobs and the names never mix accounts, but for the one way the property names; duplicates are bounded by the threads; a refresh by the service keeps HomeController from writing the session |
| `workers_pipeline` | 1 request, pool of 2, 1 retry, 1 restart, 1 kill | a request whose jobs are over has a playlist, found no song, or has a dead or killed job to account for it; playlists per job are bounded by its attempts; every request ends |
| `workers_duplicate` (violation) | 1 request, pool of 1, 1 retry | a retry creates a second playlist |
| `stats_daily` | 1 thread, day of 2 ticks, clock to 3, 2 jobs with 1 retry each, 2 genres of a track counted and 2 shown | the row is marked fresh only after a push; one job a day once it is; the genres stored are the most played of an answer of Spotify and never give way to the placeholders |
| `redis_queue` | 3 clients, 2 keys, 2 elements, fetches over both keys and over one, moves both ways | no wake-up is lost; queues and clients agree; clients of one key are served in order; the lists implement `Handoff`; timed waits end; service ends |
| `redis_snapshot` | save points (2 s, 1 change) and (0 s, 2 changes), retry after 1 s, 3 changes, clocks to 3 | `dirty` covers what a restart would lose; the file never goes back; changes reach it; writes resume |

Why the bounds are enough. Races of the pass need two writers (three for the
endless pass below); two sessions let a second purchase meet the first. The clock
runs past the end of the longest pass bought at time 0, and in
`subscription_serial` a day has two ticks, so that the last instant of a day
differs from its start. In `Countdown` half seconds let the two roundings differ,
and the clock runs over three minutes. In `Account` four requests are a sign-in, a
second one that races it or fails over it, and what follows; three users are one
more than two threads may create for one account, or two accounts with a duplicate.
In `Workers` one retry, one restart and one kill already combine to up to three
attempts of a job and several `Create` jobs per request; the code's `retry: 5` only
repeats the same step. In `Stats` two jobs are enough for a second push to come too
early and for two saves to cross; the two answers have a tie at the cut, a genre
that only a third place would count, and more genres than are shown. In
`BlockingLists` three clients are two that wait and one that acts, or a chain of
two moves and the client at its end; two keys make cycles of moves. In `RdbSaves`
three changes are one saved, one made during the save and one after it; clocks stop
past every save point and delay, where nothing compares them any more. The theorems
below lift the bounds for every invariant and action property the passing runs check
and for both refinements; the bounds matter for liveness and the violations.

Deadlock is checked in every run: in `Subscription` and `Wallet` a page can always
be asked for, in `Account` an hour can pass, Redis's clocks tick, and `Workers` and
`Stats` stutter explicitly (`Quiet`): when all jobs have ended, and when the clock
stands at its bound.

Fairness.

* `Workers`: Sidekiq's processors fetch some queued job when one is free, a running
  `perform` goes on or raises (the HTTP clients time out), and the poller moves due
  retries to the queue. Nothing is assumed of users, of the services' answers or of
  restarts. `EveryRequestEnds` then rests on the count of the retries, and on the
  bounds on restarts, which requeue a job without counting.
* `BlockingLists`: the server's own loop goes on (a transaction ends, service takes
  its next step, time passes), and `beforeSleep` runs again and again between
  commands, hence strong fairness for it. Nothing is assumed of clients.
* `RdbSaves`: `serverCron` runs and time passes. The child's steps are taken, and a
  fork or a save that is tried for ever does not fail for ever (a disk that stays
  full refutes both liveness properties, and should).

## Abstract specifications

`PassLedger` says what a reader of the pricing page sees: a session is opened for a
price; coming back with it makes a pass due, of that price's days from then on and to
the last instant of the day this falls on; what is due is stored as it is, or not at
all; a pass lapses when it is over, and nothing else happens to it. Its last instant
of a day is defined by the calendar (`LastOfDay`), not by the code's formula. Serial
`Subscription` implements it (`KeepsLedger`), checked by TLC and proved. `Handoff` says that an element is put once, given to at
most one client or dropped with its key. `BlockingLists` implements it
(`HandsOff`), checked by TLC and proved: moves, renames and service keep every
element in exactly one place.

## What the violation runs say

`PROJECT.json` has a finding for each, with the line of the repository it
disagrees with. In short: the expiry filter should be one conditional UPDATE
(`WHERE expires_at < now()`), and `success` should write both columns of the pass, or
lock the row; the token should be taken by a conditional UPDATE
before the job is pushed; `Create` should be idempotent per request.

## Behaviours a reader should know of

They are part of the models; the properties say what holds in spite of them.

* `PassConsistent` needs requests one at a time. With two threads, when `success` loads
  the row while the old pass is on and a filter switches that off before the `save!`,
  the new end date is stored and `active`, which is not dirty, is not: the user has
  bought a pass and reads "Your current plan is Knoiz Free."
* With three threads (two expiries and a grant) partial writes leave the row active
  with no end date, and line 20 of the concern never ends such a pass.
* A shorter pass bought during a longer one replaces its end date:
  `PassLedger!Grant` does the same. Loading the success URL again starts the pass of
  its session over.
* `success` grants whatever session it is asked for; that a session was paid is
  Stripe's redirect's business. So what is shown of the pass is about sessions
  opened, not paid. `CustomerPaid` does speak of payment and holds all the same: a customer that a session carries has paid
  for that one or for an earlier one.
* `clean_string`'s result is dropped (`playlist.rb:64`): the title reaches Spotify
  as OpenAI sent it.
* A sign-in that fails half way over another account's session leaves that user
  signed in with the new account's Spotify data; jobs are then charged to one and
  run for the other. `AccountsApart` excepts exactly this (`broken`).
* When `SpotifyTokenRefresher` succeeds, `session[:spotify_user_data]` keeps the
  old data: the refresh that would write it finds the profile fresh
  (`ServiceShadowsHome`). An hour later the same happens again.
* Redis: a FLUSHALL that saves after the child has exited and before it is reaped
  resets `dirty`, from which `backgroundSaveDoneHandlerDisk` then subtracts
  `dirty_before_bgsave`. The counter is too small or negative, and later changes wait
  longer for a save point. `raced` marks this. A FLUSHALL between a child's failure
  and its reaping leaves the status at ERR with nothing to save: writes stay refused
  until somebody saves, which is why `WritesResume` asks for pending changes.
* Redis: a client that waits for several keys may be served before an older client
  that waits for one of them, since its command is processed as a whole;
  `OldestFirst` is about clients of one and the same key. A list client that is woken
  always finds its element, so none joins a queue again by being served. The comment at
  `blocked.c:309-312` about mismatching clients that are moved in the list describes
  code that is no longer there.

## Proofs

All proofs are in the `*Proofs` modules, from the named assumptions on the
constants (`SubscriptionAssumption`: passes and days have positive length, `nil` is
no number, customer, session or price; `WalletAssumption`: the minute is positive,
`nil` is not a token; `AccountAssumption`: threads are finitely many, `nil` is no
account and no number; `RdbSavesAssumption`: save points ask for at least one
change, clocks are bounded past them; `CountdownAssumption`: the minute is a number
of whole seconds; `WorkersAssumption`: the pool is not empty;
`BlockingListsAssumption`: a blocking command names a key, a move exactly one, and
`None` is no client, key or command; `StatsAssumption`: a day has positive length,
`nil` is no time; `StatsTracks`: Spotify's answer is a list of lists; `StatsDefaults`:
the placeholders "Genre 1" to "Genre 5" are not a ranking, which is a list of
pairs). Bounds on clocks, pushes and retries are constants of the models: a theorem
holds for each of their values.

`SubscriptionProofs`, for every set of threads. `PassBacked` is not inductive: a
request may write back a date it loaded long ago. `IInv` adds that every object in
flight is backed as well (`ObjectBacked`), that the requests in `success` name an
opened session and are about to store a date of its price (`Dated`), that those in
`create_checkout_session` have a known price (`RequestOK`), that opened sessions have a
price and carry no customer that never paid (`SessionsOK`), and that grants are dated
(`GrantsDated`). The proof has one lemma per action. The lemma `WrittenRow` says what a
partial write does to each column, and `BackedMonotone` that what is granted, opened
or paid stays so. From `IInv` follow `TypeCorrect`, `Backed`, `DatedAccess` and
`CustomersPaid`.

`SubscriptionSerialProofs`, under `Serial` (at most one thread). `SInv` adds to `IInv`
that the object in flight is fresh (`Fresh`): what it remembers is the row,
so a partial write is a whole one. From it follow `SerialConsistent`,
`SerialHonoured`, `SerialAccess` and `SerialCustomer`; the run
`subscription_lost_pass` shows that the hypothesis is needed. `SerialLedger` is the refinement: by
`LedgerStep` every step is a step of `PassLedger` or leaves its variables alone, since
under `SInv` the two columns are written together, at most one pass is due (`DueAlone`),
and the code's end of a day is the last instant of it (`EndIsLast`).

`WalletProofs`, for every set of threads and wherever requests are cut short. `WInv`
holds `TokenAccounts`, `FreeOncePerThread` and, for each request past the check,
that its object's token is not dirty, that without a pass it saw the token and its
thread has not spent it, and which job it is settling. From it follow
`TypeCorrect`, `TokenAccounted`, `FreeBoundedByPool` and `TokenNeverRefilled`.

`Cooldown` is false with two threads (both pass the check on one timestamp), so it
is proved under `Serial`. It compares two jobs, the code compares the row with the
clock; `CInv` ties them together: the row's timestamp covers every job whose
bookkeeping reached it (`Covered`), and the one request under way holds the row's
timestamp, found it a minute old if it is about to push, and settles the last job
(`Paced`). From it follows `SerialCooldown`. `PageReadsOnly` is the refinement that
carries it over to the browser's page (`SerialCooldownWithPage`). `HardlyEarly`
needs no thread to be alone: by itself the page keeps that the seconds left at its next
callback and those gone since the timestamp make a minute, and rounding two times
moves their distance by less than a second.

`WorkersProofs`, for every pool, number of requests, retries, restarts and kills.
Neither `NothingVanishes` nor `PlaylistsBounded` is inductive. `KInv` adds what the
program point and the state of a job say of its playlists (`Settled`), that all
attempts but the current one were ended by a counted retry or a restart (`Spent`),
and that a Playlist job past its push left a Create job for its request
(`HandedOn`). A step replaces one job, so a lemma (`OneJob`) reduces each action to
what that job may say. From it follow `TypeCorrect`, `Remembered`, `OneAnAttempt`.

`StatsProofs`, for every set of threads, every answer and any number of jobs. `KInv`
says of the objects in memory what keeps a late save harmless: a request's object
has its genres as read, so its save writes the timestamp only, and a job's has its
timestamp as read, so its save writes the genres only; what a job is about to store was
ranked from an answer; a request that is about to store a time has a job of that
time. From it follow `TypeCorrect`, `NoDayLost` and `NoPlaceholders`. `OneJobPerDay`
is false with two threads; under `Serial`, `SInv` adds that the request's object has the
row's timestamp, a day old at the push, and that jobs with a timestamp are no newer
than the row: `SerialOneJobPerDay`. `RankingRight` is about the ranking itself. The
loop that counts and the joining of the lists are recursive functions, and what they
compute is shown by induction on how far they are (`FromZeroOn`): the Hash holds
the number of places of a genre in the joined list (`GenreCounted`), and those places
are one to one with the places among the first genres of the tracks (`FlatPlaced`,
`Played`). A listing without repetition of a finite set misses nothing (`Listed`), so
what is cut off comes after what is kept.

`BlockingListsProofs`, for all sets of clients, keys and blocking commands and any
number of elements. `Inv` has three parts. `Store`: the lists, the elements taken and
those dropped are disjoint, without repetition, and of those pushed. `Queues`: a
client is once in the queue of each key its blocked state names, and in no other.
`Loop`: a key that holds a list and has waiting clients is in `ready_keys`, in the
batch or being served, in which case the queue is what the walk still has to visit.
The last is what `NoMissedWakeup` lacks to be inductive: while clients are served, a
key with a list and waiting clients is normal, but it is always ahead of the loop.
Since `Process` runs as a new command or for a client taken out of the queues, its
lemmas are about any queues (`W`). Taking clients out of a queue is a recursive
function (`Without`); the induction over it (`WithoutPicks`) shows that the rest keeps
its order. From `Inv` follow `TypeCorrect`, `WakeupsKept`, `QueuesAgree`,
`ServedInOrder` (an action property) and `ImplementsHandoff` (the refinement: every
step puts, takes, drops or leaves elements alone).

`AccountProofs`, for every set of threads and accounts. The invariant says of each
request what its program point implies (`Placed`: past the filters its user is its
session's, past the look-up its user is a row of the account that signs in), that
its session is its user's own unless it is half way through a sign-in (`Mine`), and
that past the filters its profile is fresh or there is an excuse (`Excused`). Since
the table only grows and rows keep their account (`Grows`), a step of one thread
cannot hurt the others (`OthersStay`), and each action needs only its own request.
`Room` counts: the rows of an account and the threads about to add one are together
no more than the threads, because a thread starts to only when there is no row. From
these follow `TypeCorrect`, `Apart`, `ServiceFirst` and `Bounded`.

`RdbSavesProofs`, for all save points and any number of changes. `IInv` adds to
`TypeOK` that the file is not newer than the memory nor than what a child is
writing (`Ordered`), bounds on the counters (`Counted`), and that what `dirty` will
be once the child succeeds covers what its file lacks (`Covers`). From it follow
`TypeCorrect`, `Covered` and `NeverOlder`.

Induction. The library's induction theorems take an operator as a parameter, which
the provers cannot instantiate. `FromZeroOn` says the same of a set of numbers, from
the well-foundedness of `<`. So recursion is written as recursive functions, whose
existence is shown first (`KeepsExists`, `CountsExist`, `JoinsExist`).

Only model-checked: liveness, which is beyond the prover (`EveryRequestEnds`,
`TimedWaitEnds`, `ServiceEnds`, `ChangesReachDisk`, `WritesResume`), and what the
violation runs show. Every other property of a passing run is also a theorem, those of
`subscription_serial`, `wallet_countdown` (the cooldown) and `stats_daily` (one job a
day) under `Serial`, which those runs instantiate.

## Assumptions about the outside

* `payments#success` is asked for a session that this user opened; for an identifier
  that Stripe does not know, `retrieve` raises and nothing is written.
* Prices reaching `update_subscription` are those of `PRICE_MAPPING`, since
  `create_checkout_session` opens sessions for these only.
* One clock: `Time.now` of all processes, and of the browser in `Countdown`, is the
  same.
* PostgreSQL executes each UPDATE atomically; `rename` replaces the file atomically,
  and a crash of the host does not undo it (the directory's fsync comes after it).
  SIGUSR1 ends Redis's child before the server's next operation on the file: the server
  does not wait for it.
* Rails keeps the session in a cookie (the default; no other store is configured).
* Redis runs with the tree's `redis.conf`: no append-only file, save points on,
  `stop-writes-on-bgsave-error yes`, no replicas.

## Not modelled

* Views, layout, tops and dynamic_url controllers: markup and CSS classes. Stripe
  services: dead code. The text of prompts and titles and the contents of Spotify's
  answers: no step depends on them. Answers with an error status in `Create`
  (`create.rb:40`): nobody reads them, so no state of the program tells them apart.
* Redis beyond the two parts above. The trees are two copies of one release, third
  party, of 150,000 lines each, nearly all of it used by nothing here: cluster,
  sentinel, scripting, modules, streams, the client, the test programs. Modelled is
  what Sidekiq's queue rests on: handing jobs to waiting fetchers, and keeping them
  over a restart. So the map covers a small share of the repository's C lines and
  nearly all of the application's own code. Inside the two parts, sorted sets,
  streams and modules as reasons to block, expiry, SWAPDB, replication, the
  append-only file and the format of the file are left out.
* A server process that is killed alone, whose child lives on: `Crash` stops both.

## Plan

1. `Workers` on top of `BlockingLists`: the queue's operations in place of the
   external `Push`, `Fetch` and `AllRunning`.
2. Proofs: what is left of the safety is the composition of item 1. Steps towards
   liveness that need no fairness: for `Workers`, that every step of a job lowers a
   measure of its retries and program point; for `BlockingLists`, that service
   visits a client at most once per list made ready.
