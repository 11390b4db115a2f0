SPECIFICATION Spec
CONSTANTS
  Threads = {t1, t2}
  nil = nil
  Minute = 2
  MaxTime = 4
  MaxJobs = 4
  MaxAborts = 1
INVARIANTS
  TypeOK
  TokenAccounts
  FreeOncePerThread
PROPERTIES
  SpentStaysSpent
SYMMETRY MCSymmetry
