------------------------------- MODULE RdbSaves -------------------------------
(***************************************************************************)
(* How a Redis server keeps its dataset, Sidekiq's queue included, on      *)
(* disk: the save points that serverCron watches, the child that writes a  *)
(* snapshot and renames it over dump.rdb, the commands that save, kill or  *)
(* race with that child, and the restarts that load the file again. The    *)
(* append-only file is off, as in the redis.conf of the tree.              *)
(*                                                                         *)
(* A dataset is its version, the number of changes that led to it, and     *)
(* whether it holds a key. A step of the server is a command or one run of *)
(* serverCron; the child runs beside it.                                   *)
(***************************************************************************)
EXTENDS Integers

CONSTANTS
    SavePoints,   \* server.saveparams
    RetryDelay,   \* CONFIG_BGSAVE_RETRY_DELAY
    MaxSeconds,   \* bound on the clocks: more than every save point and delay
    MaxChanges    \* bound on the changes

ASSUME RdbSavesAssumption ==
    /\ SavePoints # {} /\ SavePoints \subseteq [seconds : Nat, changes : Nat \ {0}]
    /\ RetryDelay \in Nat /\ MaxSeconds \in Nat /\ MaxChanges \in Nat
    /\ RetryDelay < MaxSeconds
    /\ \A sp \in SavePoints : sp.seconds < MaxSeconds

VARIABLES
    db,                   \* the dataset in memory
    dump,                 \* the dataset in dump.rdb
    dirty,                \* server.dirty
    dirty_before_bgsave,
    lastbgsave_status,
    since_save,           \* unixtime - lastsave
    since_try,            \* unixtime - lastbgsave_try
    child,                \* the saving child and the dataset it was forked with
    raced                 \* history: FLUSHALL saved while a child that had
                          \* succeeded was still to be reaped

clocks == <<since_save, since_try>>
vars == <<db, dump, dirty, dirty_before_bgsave, lastbgsave_status, since_save,
          since_try, child, raced>>

Dataset == [version : 0..MaxChanges, empty : BOOLEAN]
Empty == [version |-> 0, empty |-> TRUE]
NoChild == [state |-> "none", snap |-> Empty]

(* "renamed" is between rename and exit; the last four are zombies.         *)
Running == {"writing", "renamed"}
Terminated == {"exit0", "exit1", "SIGUSR1", "signal"}

Init ==
    /\ db = Empty /\ dump = Empty
    /\ dirty = 0 /\ dirty_before_bgsave = 0
    /\ lastbgsave_status = "OK"
    /\ since_save = 0 /\ since_try = MaxSeconds
    /\ child = NoChild
    /\ raced = FALSE
-------------------------------------------------------------------------------
(* Saving in the server's own process *)

(* rdbSave, with the dataset and the changes the calling command leaves: it *)
(* may fail before the rename, or at the fsync of the directory after it.   *)
RdbSave(data, changes) ==
    \/ /\ dump' = data /\ dirty' = 0
       /\ since_save' = 0 /\ lastbgsave_status' = "OK"
       /\ raced' = (child'.state = "exit0" /\ dirty_before_bgsave > 0)
    \/ /\ dump' \in {data, dump} /\ dirty' = changes
       /\ UNCHANGED <<since_save, lastbgsave_status, raced>>

(* Mutation: the child is left alone. *)
KillNobody == UNCHANGED child

(* A zombie takes no signal: the child that had exited is reaped as it is.  *)
KillRDBChild ==
    child' = IF child.state \in Running
             THEN [child EXCEPT !.state = "SIGUSR1"] ELSE child

SaveCommand ==
    /\ child.state = "none"
    /\ UNCHANGED <<db, dirty_before_bgsave, since_try, child>>
    /\ RdbSave(db, dirty)
-------------------------------------------------------------------------------
(* Saving in the background *)

(* fork may fail. *)
RdbSaveBackground ==
    /\ child.state = "none"
    /\ dirty_before_bgsave' = dirty
    /\ since_try' = 0
    /\ \/ /\ child' = [state |-> "writing", snap |-> db]
          /\ UNCHANGED lastbgsave_status
       \/ lastbgsave_status' = "ERR" /\ UNCHANGED child
    /\ UNCHANGED <<db, dump, dirty, since_save, raced>>

BgsaveCommand == RdbSaveBackground

(* Mutations: the count must be exceeded; no second attempt after a failure. *)
DueAboveCount(sp) ==
    /\ dirty > sp.changes /\ since_save > sp.seconds
    /\ since_try > RetryDelay \/ lastbgsave_status = "OK"
DueOnlyAfterSuccess(sp) ==
    /\ dirty >= sp.changes /\ since_save > sp.seconds
    /\ lastbgsave_status = "OK"

Due(sp) ==
    /\ dirty >= sp.changes
    /\ since_save > sp.seconds
    /\ since_try > RetryDelay \/ lastbgsave_status = "OK"

SaveIfDue == (\E sp \in SavePoints : Due(sp)) /\ RdbSaveBackground

ChildRenames ==
    /\ child.state = "writing"
    /\ dump' = child.snap
    /\ child' = [child EXCEPT !.state = "renamed"]
    /\ UNCHANGED <<db, dirty, dirty_before_bgsave, lastbgsave_status, clocks, raced>>

ChildExits(state) ==
    /\ child' = [child EXCEPT !.state = state]
    /\ UNCHANGED <<db, dump, dirty, dirty_before_bgsave, lastbgsave_status, clocks, raced>>

ChildSucceeds == child.state = "renamed" /\ ChildExits("exit0")

(* An error of the disk, or a signal from outside such as the OOM killer's. *)
ChildFails == child.state \in Running /\ \E s \in {"exit1", "signal"} : ChildExits(s)

(* Mutations: the changes made during the save count as saved; the changes  *)
(* that were saved are added.                                               *)
DoneHandlerResets ==
    IF child.state = "exit0"
    THEN dirty' = 0 /\ since_save' = 0 /\ lastbgsave_status' = "OK"
    ELSE UNCHANGED <<dirty, since_save, lastbgsave_status>>
DoneHandlerAdds ==
    /\ child.state = "exit0"
    /\ dirty' = dirty + dirty_before_bgsave
    /\ since_save' = 0 /\ lastbgsave_status' = "OK"

BackgroundSaveDoneHandlerDisk ==
    \/ /\ child.state = "exit0"
       /\ dirty' = dirty - dirty_before_bgsave
       /\ since_save' = 0 /\ lastbgsave_status' = "OK"
    \/ /\ child.state \in {"exit1", "signal"}
       /\ lastbgsave_status' = "ERR"
       /\ UNCHANGED <<dirty, since_save>>
    \/ /\ child.state = "SIGUSR1"
       /\ UNCHANGED <<dirty, since_save, lastbgsave_status>>

CheckChildrenDone ==
    /\ child.state \in Terminated
    /\ BackgroundSaveDoneHandlerDisk
    /\ child' = NoChild
    /\ UNCHANGED <<db, dump, dirty_before_bgsave, since_try, raced>>
-------------------------------------------------------------------------------
(* Commands that write, and restarts *)

(* stop-writes-on-bgsave-error *)
WriteCommandsDeniedByDiskError == lastbgsave_status = "ERR"

(* A write that changes the dataset, such as a push, or the pop that takes  *)
(* the last job and with it the last key.                                   *)
Write(empty) ==
    /\ ~ WriteCommandsDeniedByDiskError
    /\ db.version < MaxChanges
    /\ empty => ~ db.empty
    /\ db' = [version |-> db.version + 1, empty |-> empty]
    /\ dirty' = dirty + 1
    /\ UNCHANGED <<dump, dirty_before_bgsave, lastbgsave_status, clocks, child, raced>>

(* FLUSHALL: dirty counts the keys it removes, at least one when there are  *)
(* any.                                                                     *)
FlushAllDataAndResetRDB ==
    /\ ~ WriteCommandsDeniedByDiskError
    /\ ~ db.empty => db.version < MaxChanges
    /\ LET removed == IF db.empty THEN 0 ELSE 1
       IN  /\ db' = [version |-> db.version + removed, empty |-> TRUE]
           /\ KillRDBChild
           /\ RdbSave(db', dirty + removed)
    /\ UNCHANGED <<dirty_before_bgsave, since_try>>

(* The server starts with what the file holds.                              *)
LoadDataFromDisk(data) ==
    /\ db' = data /\ dump' = data
    /\ dirty' = 0 /\ dirty_before_bgsave' = 0
    /\ lastbgsave_status' = "OK"
    /\ since_save' = 0 /\ since_try' = MaxSeconds
    /\ child' = NoChild
    /\ raced' = FALSE

(* SIGTERM or SHUTDOWN: the child is killed, the dataset saved and the      *)
(* server stopped and started again; with a failed save it goes on.         *)
FinishShutdown ==
    \/ LoadDataFromDisk(db)
    \/ /\ KillRDBChild
       /\ dump' \in {db, dump}
       /\ UNCHANGED <<db, dirty, dirty_before_bgsave, lastbgsave_status, clocks, raced>>

(* The host or the container stops, with the child, and starts again.       *)
Crash == LoadDataFromDisk(dump)

(* The clocks are of no interest past MaxSeconds.                           *)
Tick ==
    /\ since_save' = IF since_save < MaxSeconds THEN since_save + 1 ELSE since_save
    /\ since_try' = IF since_try < MaxSeconds THEN since_try + 1 ELSE since_try
    /\ UNCHANGED <<db, dump, dirty, dirty_before_bgsave, lastbgsave_status, child, raced>>
-------------------------------------------------------------------------------
Next ==
    \/ \E empty \in BOOLEAN : Write(empty)
    \/ FlushAllDataAndResetRDB
    \/ SaveCommand
    \/ BgsaveCommand
    \/ SaveIfDue
    \/ CheckChildrenDone
    \/ ChildRenames
    \/ ChildSucceeds
    \/ ChildFails
    \/ FinishShutdown
    \/ Crash
    \/ Tick

Forks == RdbSaveBackground /\ child'.state = "writing"

(* serverCron runs ten times a second and time passes, whatever happens. A  *)
(* fork and a child's save may fail any number of times, but not for ever:  *)
(* the disk and the memory are given back some day. Who asks for the fork,  *)
(* BGSAVE or a save point, makes no difference to that.                     *)
Fairness ==
    /\ WF_vars(Tick)
    /\ WF_vars(CheckChildrenDone)
    /\ WF_vars(SaveIfDue)
    /\ []<><<RdbSaveBackground>>_vars => []<><<Forks>>_vars
    /\ WF_vars(ChildRenames \/ ChildSucceeds \/ ChildFails)
    /\ SF_vars(ChildRenames)
    /\ SF_vars(ChildSucceeds)

Spec == Init /\ [][Next]_vars /\ Fairness
-------------------------------------------------------------------------------
(* The types of the saving state of struct redisServer; dirty may be        *)
(* negative, but never counts more changes than were made.                  *)
TypeOK ==
    /\ db \in Dataset /\ dump \in Dataset
    /\ dirty \in -MaxChanges..MaxChanges
    /\ dirty_before_bgsave \in -MaxChanges..MaxChanges
    /\ lastbgsave_status \in {"OK", "ERR"}
    /\ since_save \in 0..MaxSeconds /\ since_try \in 0..MaxSeconds
    /\ child \in [state : {"none"} \cup Running \cup Terminated, snap : Dataset]
    /\ raced \in BOOLEAN

(* server.dirty, which decides whether a save point is due, counts every    *)
(* change that a restart would lose, through saves that fail at any point,  *)
(* saves in the background and children that are killed. The exception is   *)
(* a FLUSHALL that saves while a child that succeeded waits to be reaped:   *)
(* backgroundSaveDoneHandlerDisk then subtracts changes from a counter that *)
(* rdbSave had reset.                                                       *)
DirtyCoversUnsaved == ~ raced => dirty >= db.version - dump.version

(* dump.rdb never goes back to an older dataset: a child that was forked    *)
(* before SAVE, FLUSHALL or SHUTDOWN wrote the file does not rename its own *)
(* over it.                                                                 *)
DumpNeverOlder == [][dump'.version >= dump.version]_vars

(* Every change is on disk in the end, if the server stays up: a save point *)
(* finds it, whatever fails on the way.                                     *)
ChangesReachDisk ==
    \A n \in 1..MaxChanges :
        (db.version >= n) ~> (dump.version >= n \/ db.version < n \/ raced)

(* Writes that are refused after a failed save are accepted again in the    *)
(* end, as long as there are changes that a save point waits for.           *)
WritesResume ==
    (lastbgsave_status = "ERR" /\ \E sp \in SavePoints : dirty >= sp.changes)
        ~> (lastbgsave_status = "OK")
===============================================================================
