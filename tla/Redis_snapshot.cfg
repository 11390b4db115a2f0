SPECIFICATION Spec
CONSTANTS
  SavePoints <- MCSavePoints
  RetryDelay = 1
  MaxSeconds = 3
  MaxChanges = 3
INVARIANTS
  TypeOK
  DirtyCoversUnsaved
PROPERTIES
  DumpNeverOlder
  ChangesReachDisk
  WritesResume
