---------------------------- MODULE RdbSavesProofs ----------------------------
(***************************************************************************)
(* The safety of Redis's saves for all save points, delays and bounds: the *)
(* counter of changes covers what a restart would lose, and dump.rdb never *)
(* goes back.                                                              *)
(***************************************************************************)
EXTENDS RdbSaves, TLAPS

(* The file is not newer than the memory, nor than what a child still       *)
(* writes, and not older than what a child wrote.                           *)
Ordered ==
    /\ dump.version <= db.version
    /\ child.snap.version <= db.version
    /\ child.state = "writing" => dump.version <= child.snap.version

(* The child can still make the server subtract dirty_before_bgsave. *)
MaySucceed == child.state \in {"writing", "renamed", "exit0"}

(* The counters, whether FLUSHALL raced or not. *)
Counted ==
    /\ -dump.version <= dirty /\ dirty <= db.version
    /\ -db.version <= dirty_before_bgsave /\ dirty_before_bgsave <= db.version
    /\ MaySucceed =>
          /\ -dump.version <= dirty - dirty_before_bgsave
          /\ dirty - dirty_before_bgsave <= db.version

(* What dirty is going to be when the child succeeds covers the changes     *)
(* that its file lacks.                                                     *)
Covers ==
    ~ raced =>
        /\ dirty >= db.version - dump.version
        /\ child.state = "writing" =>
              dirty - dirty_before_bgsave >= db.version - child.snap.version
        /\ child.state \in {"renamed", "exit0"} =>
              dirty - dirty_before_bgsave >= db.version - dump.version

IInv == TypeOK /\ Ordered /\ Counted /\ Covers
-------------------------------------------------------------------------------
(* No change is a number of changes. *)
LEMMA ZeroChanges == 0 \in -MaxChanges..MaxChanges
  <1>1. ASSUME NEW n \in Nat PROVE 0 \in -n..n
    OBVIOUS
  <1> QED BY <1>1, RdbSavesAssumption

(* The server starts with the dataset of the file. *)
LEMMA InitIInv == Init => IInv
  <1> SUFFICES ASSUME Init PROVE IInv
    OBVIOUS
  <1> USE RdbSavesAssumption DEF Init, Dataset, Empty, NoChild, Running, Terminated
  <1>0. raced \in BOOLEAN
    OBVIOUS
  <1>1. TypeOK
    BY <1>0, ZeroChanges DEF TypeOK
  <1>2. Ordered /\ Covers
    BY DEF Ordered, Covers
  <1>3. Counted
    BY DEF Counted, MaySucceed
  <1> QED BY <1>1, <1>2, <1>3 DEF IInv

(* A restart leaves what a first start leaves, with the dataset loaded. *)
LEMMA LoadIInv ==
    ASSUME NEW data \in Dataset, LoadDataFromDisk(data) PROVE IInv'
  <1> USE RdbSavesAssumption
      DEF LoadDataFromDisk, Dataset, Empty, NoChild, Running, Terminated
  <1>0. raced' \in BOOLEAN
    OBVIOUS
  <1>1. TypeOK'
    BY <1>0, ZeroChanges DEF TypeOK
  <1>2. Ordered' /\ Covers'
    BY DEF Ordered, Covers
  <1>3. Counted'
    BY DEF Counted, MaySucceed
  <1> QED BY <1>1, <1>2, <1>3 DEF IInv

(* A save in the server's process, after a kill: SAVE, FLUSHALL, SHUTDOWN.  *)
(* A child that ran is not going to succeed; one that had succeeded is the  *)
(* race.                                                                    *)
LEMMA SaveIInv ==
    ASSUME IInv, NEW removed \in {0, 1}, db' \in Dataset,
           db'.version = db.version + removed,
           KillRDBChild, RdbSave(db', dirty + removed),
           UNCHANGED <<dirty_before_bgsave, since_try>>
    PROVE  IInv'
  <1> USE RdbSavesAssumption DEF Dataset, Running, Terminated
  <1>1. /\ db.version \in Int /\ db'.version \in Int /\ dump.version \in Int
        /\ dirty \in Int /\ dirty_before_bgsave \in Int /\ child.snap.version \in Int
    BY DEF IInv, TypeOK
  <1>2. /\ child' \in [state : {"none"} \cup Running \cup Terminated, snap : Dataset]
        /\ child'.snap = child.snap
        /\ child'.state \notin {"writing", "renamed"}
        /\ child'.state = "exit0" => child.state = "exit0"
    BY DEF KillRDBChild, IInv, TypeOK
  <1>3. CASE /\ dump' = db' /\ dirty' = 0 /\ since_save' = 0
             /\ lastbgsave_status' = "OK"
             /\ raced' = (child'.state = "exit0" /\ dirty_before_bgsave > 0)
    <2>1. TypeOK'
      BY <1>1, <1>2, <1>3 DEF IInv, TypeOK
    <2>2. Ordered'
      BY <1>1, <1>2, <1>3 DEF IInv, Ordered
    <2>3. Counted'
      BY <1>1, <1>2, <1>3 DEF IInv, TypeOK, Counted, MaySucceed
    <2>4. ~ raced' => child'.state # "exit0" \/ ~ (dirty_before_bgsave > 0)
      BY <1>3
    <2>5. Covers'
      BY <1>1, <1>2, <1>3, <2>4 DEF Covers
    <2> QED BY <2>1, <2>2, <2>3, <2>5 DEF IInv
  <1>4. CASE /\ dump' \in {db', dump} /\ dirty' = dirty + removed
             /\ UNCHANGED <<since_save, lastbgsave_status, raced>>
    <2>1. Ordered'
      BY <1>1, <1>2, <1>4 DEF IInv, Ordered
    <2>2. Counted'
      BY <1>1, <1>2, <1>4 DEF IInv, Ordered, Counted, MaySucceed
    <2>3. TypeOK'
      BY <1>1, <1>2, <1>4, <2>2 DEF IInv, TypeOK, Counted
    <2>4. Covers'
      BY <1>1, <1>2, <1>4 DEF IInv, Ordered, Covers
    <2> QED BY <2>1, <2>2, <2>3, <2>4 DEF IInv
  <1> QED BY <1>3, <1>4 DEF RdbSave

(* The fork remembers the counter and the dataset. *)
LEMMA BackgroundIInv == ASSUME IInv, RdbSaveBackground PROVE IInv'
  BY RdbSavesAssumption
  DEF RdbSaveBackground, IInv, TypeOK, Ordered, Counted, Covers, MaySucceed, Dataset,
      Running, Terminated

(* The steps of the child. *)
LEMMA ChildIInv ==
    ASSUME IInv, ChildRenames \/ ChildSucceeds \/ ChildFails PROVE IInv'
  <1> USE RdbSavesAssumption DEF Dataset, Running, Terminated
  <1>1. CASE ChildRenames
    BY <1>1 DEF ChildRenames, clocks, IInv, TypeOK, Ordered, Counted, Covers, MaySucceed
  <1>2. CASE ChildSucceeds
    BY <1>2 DEF ChildSucceeds, ChildExits, clocks, IInv, TypeOK, Ordered, Counted,
                Covers, MaySucceed
  <1>3. CASE ChildFails
    BY <1>3 DEF ChildFails, ChildExits, clocks, IInv, TypeOK, Ordered, Counted,
                Covers, MaySucceed
  <1> QED BY <1>1, <1>2, <1>3

(* backgroundSaveDoneHandlerDisk subtracts what the child saved. *)
LEMMA ReapIInv == ASSUME IInv, CheckChildrenDone PROVE IInv'
  BY RdbSavesAssumption
  DEF CheckChildrenDone, BackgroundSaveDoneHandlerDisk, NoChild, Empty, IInv, TypeOK,
      Ordered, Counted, Covers, MaySucceed, Dataset, Running, Terminated

(* A write counts itself. *)
LEMMA WriteIInv == ASSUME IInv, NEW e \in BOOLEAN, Write(e) PROVE IInv'
  BY RdbSavesAssumption
  DEF Write, clocks, IInv, TypeOK, Ordered, Counted, Covers, MaySucceed, Dataset,
      Running, Terminated

(* Every step keeps the invariant. *)
LEMMA StepIInv == IInv /\ [Next]_vars => IInv'
  <1> SUFFICES ASSUME IInv, [Next]_vars PROVE IInv'
    OBVIOUS
  <1>0. db \in Dataset /\ dump \in Dataset
    BY DEF IInv, TypeOK
  <1>1. CASE \E e \in BOOLEAN : Write(e)
    BY <1>1, WriteIInv
  <1>2. CASE FlushAllDataAndResetRDB
    <2>1. PICK removed \in {0, 1} :
              /\ removed = IF db.empty THEN 0 ELSE 1
              /\ db' = [version |-> db.version + removed, empty |-> TRUE]
              /\ KillRDBChild /\ RdbSave(db', dirty + removed)
              /\ UNCHANGED <<dirty_before_bgsave, since_try>>
      BY <1>2 DEF FlushAllDataAndResetRDB
    <2>2. db' \in Dataset /\ db'.version = db.version + removed
      BY <1>0, <1>2, <2>1, RdbSavesAssumption DEF FlushAllDataAndResetRDB, Dataset
    <2> QED BY <2>1, <2>2, SaveIInv
  <1>3. CASE SaveCommand
    <2>1. /\ db' = db /\ UNCHANGED <<dirty_before_bgsave, since_try>>
          /\ KillRDBChild /\ dirty \in Int /\ db.version \in Int
      BY <1>0, <1>3 DEF SaveCommand, KillRDBChild, Running, IInv, TypeOK, Dataset
    <2>2. dirty + 0 = dirty /\ db'.version = db.version + 0
      BY <2>1
    <2>3. RdbSave(db', dirty + 0)
      BY <1>3, <2>1, <2>2 DEF SaveCommand
    <2> QED BY <1>0, <2>1, <2>2, <2>3, SaveIInv
  <1>4. CASE BgsaveCommand \/ SaveIfDue
    BY <1>4, BackgroundIInv DEF BgsaveCommand, SaveIfDue
  <1>5. CASE CheckChildrenDone
    BY <1>5, ReapIInv
  <1>6. CASE ChildRenames \/ ChildSucceeds \/ ChildFails
    BY <1>6, ChildIInv
  <1>7. CASE FinishShutdown
    <2>1. CASE LoadDataFromDisk(db)
      BY <1>0, <2>1, LoadIInv
    <2>2. CASE /\ KillRDBChild /\ dump' \in {db, dump}
               /\ UNCHANGED <<db, dirty, dirty_before_bgsave, lastbgsave_status,
                              clocks, raced>>
      BY <2>2, RdbSavesAssumption
      DEF KillRDBChild, clocks, IInv, TypeOK, Ordered, Counted, Covers, MaySucceed,
          Dataset, Running, Terminated
    <2> QED BY <1>7, <2>1, <2>2 DEF FinishShutdown
  <1>8. CASE Crash
    BY <1>0, <1>8, LoadIInv DEF Crash
  <1>9. CASE Tick
    BY <1>9, RdbSavesAssumption
    DEF Tick, IInv, TypeOK, Ordered, Counted, Covers, MaySucceed
  <1>10. CASE UNCHANGED vars
    BY <1>10 DEF vars, IInv, TypeOK, Ordered, Counted, Covers, MaySucceed
  <1> QED BY <1>1, <1>2, <1>3, <1>4, <1>5, <1>6, <1>7, <1>8, <1>9, <1>10 DEF Next

(* The invariant of the saves. *)
THEOREM Invariance == Spec => []IInv
  BY InitIInv, StepIInv, PTL DEF Spec

(* The saving state keeps its types; dirty stays within the changes made    *)
(* even after the race of FLUSHALL with a child's exit.                     *)
THEOREM TypeCorrect == Spec => []TypeOK
  <1>1. IInv => TypeOK
    BY DEF IInv
  <1> QED BY <1>1, Invariance, PTL

(* server.dirty covers every change that a restart would lose, unless       *)
(* FLUSHALL raced with a child that had succeeded.                          *)
THEOREM Covered == Spec => []DirtyCoversUnsaved
  <1>1. IInv => DirtyCoversUnsaved
    BY DEF IInv, Covers, DirtyCoversUnsaved
  <1> QED BY <1>1, Invariance, PTL

(* dump.rdb never goes back to an older dataset. *)
THEOREM NeverOlder == Spec => DumpNeverOlder
  <1>1. IInv /\ [Next]_vars => [dump'.version >= dump.version]_vars
    <2> SUFFICES ASSUME IInv, Next PROVE dump'.version >= dump.version
      OBVIOUS
    <2>1. db.version \in Int /\ dump.version \in Int /\ dump.version <= db.version
      BY DEF IInv, TypeOK, Ordered, Dataset
    <2>2. dump' = dump \/ dump' = db \/ ChildRenames \/ FlushAllDataAndResetRDB
      BY DEF Next, Write, SaveCommand, RdbSave, BgsaveCommand, SaveIfDue,
             RdbSaveBackground, CheckChildrenDone, ChildSucceeds, ChildFails,
             ChildExits, FinishShutdown, LoadDataFromDisk, Crash, Tick
    <2>3. ASSUME ChildRenames PROVE dump'.version >= dump.version
      BY <2>1, <2>3 DEF ChildRenames, IInv, TypeOK, Ordered, Dataset
    <2>4. ASSUME FlushAllDataAndResetRDB PROVE dump'.version >= dump.version
      BY <2>1, <2>4 DEF FlushAllDataAndResetRDB, RdbSave
    <2> QED BY <2>1, <2>2, <2>3, <2>4
  <1> QED BY <1>1, Invariance, PTL DEF Spec, DumpNeverOlder
===============================================================================
