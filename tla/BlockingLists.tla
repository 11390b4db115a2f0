----------------------------- MODULE BlockingLists -----------------------------
(***************************************************************************)
(* The lists of a Redis server and the clients blocked on them: what       *)
(* Sidekiq's push (LPUSH), fetch (BRPOP over its queues) and requeue       *)
(* (RPUSH) rest on. One database, the keys that hold lists or strings, the *)
(* commands that create and delete them, the blocking pops and moves, and  *)
(* the service of blocked clients when a key becomes ready.                *)
(*                                                                         *)
(* The server runs one command at a time; a step is one call of a command  *)
(* or one turn of a loop of handleClientsBlockedOnKeys. A client sends its *)
(* next command once the last one is answered.                             *)
(***************************************************************************)
EXTENDS Integers, SequencesExt

CONSTANTS
    Clients,
    Keys,
    Commands,    \* the blocking commands clients send: see Command
    None,        \* no client, no command, no key
    MaxPush,     \* elements one push carries
    MaxElements  \* bound on the elements ever pushed

(* BLPOP and BRPOP wait for several keys and take from an end of the first  *)
(* that has a list; BLMOVE and BRPOPLPUSH wait for one and push what they   *)
(* take on dst. A timeout of zero blocks for ever.                          *)
Command == [op : {"pop", "move"}, keys : Seq(Keys), dst : Keys \cup {None},
            where : {"head", "tail"}, timeout : Nat]

ASSUME BlockingListsAssumption ==
    /\ Commands \subseteq Command
    /\ \A cmd \in Commands :
          /\ cmd.keys # <<>>
          /\ cmd.op = "move" => Len(cmd.keys) = 1 /\ cmd.dst \in Keys
    /\ None \notin Clients /\ None \notin Keys /\ None \notin Commands
    /\ MaxPush \in Nat \ {0} /\ MaxElements \in Nat

VARIABLES
    db,             \* the value of each key
    blocking_keys,  \* db->blocking_keys: who waits for each key, oldest first
    client,         \* bstate of each client
    ready_keys,     \* server.ready_keys
    signaled,       \* db->ready_keys, the keys queued already
    executing,      \* the client whose EXEC runs, or None
    handling,       \* in_handling_blocked_clients
    batch,          \* the list handleClientsBlockedOnKeys took
    serving,        \* the key it serves and the clients it still visits
    pushed,         \* the number of elements pushed: elements are numbered
    taken,          \* history: the elements given to some client
    dropped         \* history: the elements deleted with their key

dbvars == <<db, pushed, taken, dropped>>
readyvars == <<ready_keys, signaled>>
loopvars == <<handling, batch, serving>>
vars == <<db, blocking_keys, client, ready_keys, signaled, executing, handling,
          batch, serving, pushed, taken, dropped>>

Absent == [type |-> "none", elems |-> <<>>]
String == [type |-> "string", elems |-> <<>>]
NotBlocked == [cmd |-> None, keys |-> {}, left |-> 0]
NotServing == [key |-> None, todo |-> <<>>]

Init ==
    /\ db = [k \in Keys |-> Absent]
    /\ blocking_keys = [k \in Keys |-> <<>>]
    /\ client = [c \in Clients |-> NotBlocked]
    /\ ready_keys = <<>> /\ signaled = {}
    /\ executing = None
    /\ handling = FALSE /\ batch = <<>> /\ serving = NotServing
    /\ pushed = 0
    /\ taken = {}
    /\ dropped = {}

Blocked(c) == client[c].cmd # None
-------------------------------------------------------------------------------
(* Lists and keys *)

(* Mutation: the key of an empty list stays. *)
EmptyListKept(elems) == [type |-> "list", elems |-> elems]

(* A list that becomes empty is deleted with its key. *)
ListOf(elems) ==
    IF elems = <<>> THEN Absent ELSE [type |-> "list", elems |-> elems]

PushAt(elems, e, where) ==
    IF where = "head" THEN <<e>> \o elems ELSE Append(elems, e)
PopAt(elems, where) ==
    IF where = "head" THEN [value |-> Head(elems), rest |-> Tail(elems)]
                      ELSE [value |-> Last(elems), rest |-> Front(elems)]

(* dbAdd of a value at a key that had none: the key is queued unless nobody *)
(* can wait for its type, nobody waits for it, or it is queued already.     *)
SignalKeyAsReady(k, type, waiting) ==
    IF type = "list" /\ waiting[k] # <<>> /\ k \notin signaled
    THEN ready_keys' = Append(ready_keys, k) /\ signaled' = signaled \cup {k}
    ELSE UNCHANGED readyvars

-------------------------------------------------------------------------------
(* Blocking and unblocking *)

(* Mutation: the newest client first. *)
BlockForKeysFirst(c, cmd, waiting) ==
    /\ blocking_keys' = [k \in Keys |->
          IF k \in ToSet(cmd.keys) THEN <<c>> \o waiting[k] ELSE waiting[k]]
    /\ client' = [client EXCEPT ![c] =
          [cmd |-> cmd, keys |-> ToSet(cmd.keys), left |-> cmd.timeout]]

(* The client joins the queue of every key it names, once, and its timeout  *)
(* starts.                                                                  *)
BlockForKeys(c, cmd, waiting) ==
    /\ blocking_keys' = [k \in Keys |->
          IF k \in ToSet(cmd.keys) THEN Append(waiting[k], c) ELSE waiting[k]]
    /\ client' = [client EXCEPT ![c] =
          [cmd |-> cmd, keys |-> ToSet(cmd.keys), left |-> cmd.timeout]]

(* The queue q without the clients in X, in the same order. *)
Without(q, X) ==
    LET kept[n \in 0..Len(q)] ==
          IF n = 0 THEN <<>>
          ELSE IF q[n] \in X THEN kept[n - 1] ELSE Append(kept[n - 1], q[n])
    IN  kept[Len(q)]

(* Mutation: the client leaves only the queue of the first key it waits for. *)
ReleasedFirst(S) ==
    [k \in Keys |-> Without(blocking_keys[k], {c \in S : k = client[c].cmd.keys[1]})]

(* The queues once the clients in S have left those of their keys. *)
Released(S) ==
    [k \in Keys |-> Without(blocking_keys[k], {c \in S : k \in client[c].keys})]

(* What is left of the blocked state once the clients in S are answered. *)
Unblock(S, waiting) ==
    /\ blocking_keys' = waiting
    /\ client' = [c \in Clients |-> IF c \in S THEN NotBlocked ELSE client[c]]
-------------------------------------------------------------------------------
(* The blocking commands, run for a client that sends one or reprocessed    *)
(* for a client just taken out of the queues (waiting).                     *)

(* Nothing to take: block, or answer nil inside EXEC. *)
Wait(c, cmd, waiting) ==
    /\ IF executing = None THEN BlockForKeys(c, cmd, waiting)
                           ELSE Unblock({c}, waiting)
    /\ UNCHANGED <<dbvars, readyvars>>

(* An answer that takes nothing: WRONGTYPE. *)
Refuse(c, waiting) ==
    /\ Unblock({c}, waiting)
    /\ UNCHANGED <<dbvars, readyvars>>

(* The first key that has a value decides. *)
BlockingPop(c, cmd, waiting) ==
    LET present == {i \in DOMAIN cmd.keys : db[cmd.keys[i]].type # "none"}
        k == cmd.keys[Min(present)]
        pop == PopAt(db[k].elems, cmd.where)
    IN  \/ present = {} /\ Wait(c, cmd, waiting)
        \/ present # {} /\ db[k].type # "list" /\ Refuse(c, waiting)
        \/ /\ present # {} /\ db[k].type = "list"
           /\ db' = [db EXCEPT ![k] = ListOf(pop.rest)]
           /\ taken' = taken \cup {pop.value}
           /\ Unblock({c}, waiting)
           /\ UNCHANGED <<pushed, dropped, readyvars>>

(* Mutation: the push of a move creates its list without a signal. *)
BlockingMoveUnsignaled(c, cmd, waiting) ==
    LET src == cmd.keys[1]
        pop == PopAt(db[src].elems, cmd.where)
        elems == IF src = cmd.dst THEN pop.rest ELSE db[cmd.dst].elems
    IN  \/ db[src].type = "none" /\ Wait(c, cmd, waiting)
        \/ /\ db[src].type # "none" /\ "string" \in {db[src].type, db[cmd.dst].type}
           /\ Refuse(c, waiting)
        \/ /\ db[src].type = "list" /\ db[cmd.dst].type # "string"
           /\ db' = [db EXCEPT ![src] = ListOf(pop.rest),
                               ![cmd.dst] = ListOf(PushAt(elems, pop.value, "head"))]
           /\ Unblock({c}, waiting)
           /\ UNCHANGED <<pushed, taken, dropped, readyvars>>

(* BLMOVE: the element goes to the head of dst, which is created if needed. *)
BlockingMove(c, cmd, waiting) ==
    LET src == cmd.keys[1]
        pop == PopAt(db[src].elems, cmd.where)
        elems == IF src = cmd.dst THEN pop.rest ELSE db[cmd.dst].elems
    IN  \/ db[src].type = "none" /\ Wait(c, cmd, waiting)
        \/ /\ db[src].type # "none" /\ "string" \in {db[src].type, db[cmd.dst].type}
           /\ Refuse(c, waiting)
        \/ /\ db[src].type = "list" /\ db[cmd.dst].type # "string"
           /\ db' = [db EXCEPT ![src] = ListOf(pop.rest),
                               ![cmd.dst] = ListOf(PushAt(elems, pop.value, "head"))]
           /\ IF db[cmd.dst].type = "none"
              THEN SignalKeyAsReady(cmd.dst, "list", waiting)
              ELSE UNCHANGED readyvars
           /\ Unblock({c}, waiting)
           /\ UNCHANGED <<pushed, taken, dropped>>

Process(c, cmd, waiting) ==
    \/ cmd.op = "pop" /\ BlockingPop(c, cmd, waiting)
    \/ cmd.op = "move" /\ BlockingMove(c, cmd, waiting)
-------------------------------------------------------------------------------
(* Commands *)

(* processCommand: a client that is not blocked runs a command between two  *)
(* others, or inside its EXEC; blocked clients are served after it.         *)
Calls(c) ==
    /\ ~handling /\ ~Blocked(c) /\ executing \in {None, c}
    /\ handling' = (executing = None /\ ready_keys' # <<>>)
    /\ UNCHANGED <<executing, batch, serving>>

Block(c, cmd) == Process(c, cmd, blocking_keys) /\ Calls(c)

(* LPUSH and RPUSH of n elements, one by one: LPUSH leaves the last in front. *)
Push(c, k, n, where) ==
    LET new == IF where = "head"
               THEN [i \in 1..n |-> pushed + n + 1 - i] \o db[k].elems
               ELSE db[k].elems \o [i \in 1..n |-> pushed + i]
    IN  /\ pushed + n <= MaxElements
        /\ db[k].type # "string"
        /\ db' = [db EXCEPT ![k] = ListOf(new)]
        /\ pushed' = pushed + n
        /\ IF db[k].type = "none" THEN SignalKeyAsReady(k, "list", blocking_keys)
                                  ELSE UNCHANGED readyvars
        /\ Calls(c)
        /\ UNCHANGED <<blocking_keys, client, taken, dropped>>

(* DEL, and SET, which puts a string in place of whatever the key held. No  *)
(* client on a list waits for a key to go away.                             *)
Replace(c, k, value) ==
    /\ db[k] # value
    /\ db' = [db EXCEPT ![k] = value]
    /\ dropped' = dropped \cup ToSet(db[k].elems)
    /\ UNCHANGED <<blocking_keys, client, pushed, taken, readyvars>>
    /\ Calls(c)
Del(c, k) == Replace(c, k, Absent)
Set(c, k) == Replace(c, k, String)

(* Mutation: the old key keeps its value. *)
RenameCopies(c, src, dst) ==
    /\ src # dst /\ db[src].type # "none"
    /\ db' = [db EXCEPT ![dst] = db[src]]
    /\ dropped' = dropped \cup ToSet(db[dst].elems)
    /\ SignalKeyAsReady(dst, db[src].type, blocking_keys)
    /\ Calls(c)
    /\ UNCHANGED <<blocking_keys, client, pushed, taken>>

(* RENAME: the new key is deleted, then added with the old one's value. *)
Rename(c, src, dst) ==
    /\ src # dst /\ db[src].type # "none"
    /\ db' = [db EXCEPT ![dst] = db[src], ![src] = Absent]
    /\ dropped' = dropped \cup ToSet(db[dst].elems)
    /\ SignalKeyAsReady(dst, db[src].type, blocking_keys)
    /\ Calls(c)
    /\ UNCHANGED <<blocking_keys, client, pushed, taken>>

(* EXEC: the queued commands run with nothing in between, then blocked      *)
(* clients are served.                                                      *)
Exec(c) ==
    /\ executing = None /\ ~handling /\ ~Blocked(c)
    /\ executing' = c
    /\ UNCHANGED <<dbvars, readyvars, loopvars, blocking_keys, client>>
ExecEnds ==
    /\ executing # None
    /\ executing' = None
    /\ handling' = (ready_keys # <<>>)
    /\ UNCHANGED <<dbvars, readyvars, batch, serving, blocking_keys, client>>
-------------------------------------------------------------------------------
(* handleClientsBlockedOnKeys *)

(* Mutation: the list that is run is not replaced by a fresh one. *)
TakeReadyKeysAgain ==
    /\ handling /\ batch = <<>> /\ serving = NotServing /\ ready_keys # <<>>
    /\ batch' = ready_keys
    /\ UNCHANGED <<dbvars, readyvars, handling, serving, executing, blocking_keys, client>>

(* The outer loop takes the ready keys; what service makes ready waits for  *)
(* its next turn.                                                           *)
TakeReadyKeys ==
    /\ handling /\ batch = <<>> /\ serving = NotServing /\ ready_keys # <<>>
    /\ batch' = ready_keys
    /\ ready_keys' = <<>>
    /\ UNCHANGED <<dbvars, signaled, handling, serving, executing, blocking_keys,
                   client>>

(* The key may be signalled again from now on; the clients that wait for it *)
(* are visited once each, in order.                                         *)
TakeKey ==
    /\ handling /\ batch # <<>> /\ serving = NotServing
    /\ batch' = Tail(batch)
    /\ serving' = [key |-> Head(batch), todo |-> blocking_keys[Head(batch)]]
    /\ signaled' = signaled \ {Head(batch)}
    /\ UNCHANGED <<dbvars, ready_keys, handling, executing, blocking_keys, client>>

(* A client whose key has a list leaves all its queues and its command is   *)
(* processed again; it may take from another key than this one.             *)
ServeClient ==
    LET c == Head(serving.todo)
        rest == Tail(serving.todo)
    IN  /\ serving.todo # <<>>
        /\ serving' = [serving EXCEPT !.todo = rest]
        /\ IF db[serving.key].type = "list"
           THEN Process(c, client[c].cmd, Released({c}))
           ELSE UNCHANGED <<dbvars, readyvars, blocking_keys, client>>
        /\ UNCHANGED <<handling, batch, executing>>

KeyServed ==
    /\ serving # NotServing /\ serving.todo = <<>>
    /\ serving' = NotServing
    /\ UNCHANGED <<dbvars, readyvars, handling, batch, executing, blocking_keys,
                   client>>

HandlingEnds ==
    /\ handling /\ batch = <<>> /\ serving = NotServing /\ ready_keys = <<>>
    /\ handling' = FALSE
    /\ UNCHANGED <<dbvars, readyvars, batch, serving, executing, blocking_keys,
                   client>>

Handle == TakeReadyKeys \/ TakeKey \/ ServeClient \/ KeyServed \/ HandlingEnds
-------------------------------------------------------------------------------
(* Time and connections *)

Timed(c) == Blocked(c) /\ client[c].cmd.timeout # 0

Tick ==
    /\ client' = [c \in Clients |->
          IF Timed(c) /\ client[c].left >= 0
          THEN [client[c] EXCEPT !.left = @ - 1] ELSE client[c]]
    /\ UNCHANGED <<dbvars, readyvars, loopvars, executing, blocking_keys>>

(* Mutation: the timeout table forgets clients that wait for several keys. *)
ExpiredSingle == {c \in Clients : /\ Timed(c) /\ client[c].left < 0
                                  /\ Len(client[c].cmd.keys) = 1}

(* The clients whose timeout lies before now. *)
Expired == {c \in Clients : Timed(c) /\ client[c].left < 0}

(* handleBlockedClientsTimeout: every expired client is answered nil. *)
BeforeSleep ==
    /\ ~handling /\ executing = None /\ Expired # {}
    /\ Unblock(Expired, Released(Expired))
    /\ UNCHANGED <<dbvars, readyvars, loopvars, executing>>

(* freeClient of a blocked client whose connection is gone; the connection  *)
(* that takes its place is not blocked.                                     *)
Disconnect(c) ==
    /\ ~handling /\ executing = None /\ Blocked(c)
    /\ Unblock({c}, Released({c}))
    /\ UNCHANGED <<dbvars, readyvars, loopvars, executing>>

Next ==
    \/ \E c \in Clients :
          \/ \E cmd \in Commands : Block(c, cmd)
          \/ \E k \in Keys, n \in 1..MaxPush, w \in {"head", "tail"} : Push(c, k, n, w)
          \/ \E k \in Keys : Del(c, k) \/ Set(c, k)
          \/ \E src, dst \in Keys : Rename(c, src, dst)
          \/ Exec(c) \/ Disconnect(c)
    \/ ExecEnds \/ Handle \/ BeforeSleep \/ Tick

(* The event loop goes on: a command ends, blocked clients are served, time *)
(* passes, and beforeSleep runs again and again whatever clients send.      *)
Fairness == WF_vars(ExecEnds) /\ WF_vars(Handle) /\ WF_vars(Tick) /\ SF_vars(BeforeSleep)

Spec == Init /\ [][Next]_vars /\ Fairness
-------------------------------------------------------------------------------
(* Properties *)

(* Types of the keys, of the queues and of the clients' blocked state, and of *)
(* the loop that serves them.                                                 *)
TypeOK ==
    /\ db \in [Keys -> [type : {"none", "string", "list"}, elems : Seq(1..pushed)]]
    /\ \A k \in Keys : db[k].type = "list" <=> db[k].elems # <<>>
    /\ blocking_keys \in [Keys -> Seq(Clients)]
    /\ client \in [Clients -> [cmd : Commands \cup {None}, keys : SUBSET Keys, left : Int]]
    /\ ready_keys \in Seq(Keys) /\ signaled \subseteq Keys
    /\ executing \in Clients \cup {None} /\ handling \in BOOLEAN
    /\ batch \in Seq(Keys)
    /\ serving \in [key : Keys \cup {None}, todo : Seq(Clients)]
    /\ pushed \in 0..MaxElements /\ taken \cup dropped \subseteq 1..pushed

(* No wake-up is lost: when the server goes back to its event loop, no client *)
(* is left waiting for a key that holds a list, whatever transactions, moves  *)
(* and renames made it ready, in whatever order.                              *)
NoMissedWakeup ==
    ~handling /\ executing = None =>
        \A c \in Clients : \A k \in client[c].keys : db[k].type # "list"

(* db->blocking_keys and the clients' own keys say the same: a client is in   *)
(* the queue of each key it is blocked on, once, and in no other, also after  *)
(* it was woken by one of several keys, timed out or went away.               *)
Registered ==
    \A k \in Keys, c \in Clients :
        Cardinality({i \in DOMAIN blocking_keys[k] : blocking_keys[k][i] = c})
            = IF k \in client[c].keys THEN 1 ELSE 0

(* Clients blocked on one and the same key are served in the order they       *)
(* blocked in: none takes an element while one that came before it waits, and *)
(* none gets ahead of another in the queue.                                   *)
Ahead(queue, d, c) ==
    \E i, j \in DOMAIN queue : i < j /\ queue[i] = d /\ queue[j] = c
OldestFirst ==
    [][\A k \in Keys, c, d \in Clients :
          /\ /\ client[c].keys = {k} /\ client[d].keys = {k}
             /\ Ahead(blocking_keys[k], d, c) /\ db' # db
             => client'[c].cmd # None
          /\ Ahead(blocking_keys'[k], d, c) /\ k \in client[c].keys
             => Ahead(blocking_keys[k], d, c)]_vars

(* Lists hand each element to at most one client: the server implements       *)
(* Handoff, with the elements of all its lists stored.                        *)
Queue == INSTANCE Handoff WITH
            Elements <- 1..MaxElements,
            stored <- UNION {ToSet(db[k].elems) : k \in Keys}
HandsOff == Queue!Spec

(* A client that blocks with a timeout is answered, whatever the others do. *)
TimedWaitEnds == \A c \in Clients : Timed(c) ~> ~Timed(c)

(* Serving blocked clients comes to an end, also when moves feed each other. *)
ServiceEnds == handling ~> ~handling
===============================================================================
