SPECIFICATION Spec
CONSTANTS
  Threads = {t1, t2}
  nil = nil
  Minute = 2
  MaxTime = 4
  MaxJobs = 3
  MaxAborts = 0
INVARIANTS
  OneFreePlaylist
