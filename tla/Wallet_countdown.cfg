SPECIFICATION CountdownSpec
CONSTANTS
  Threads = {t1}
  nil = nil
  Second = 2
  Minute = 4
  MaxTime = 12
  MaxJobs = 2
  MaxAborts = 1
INVARIANTS
  Cooldown
  ButtonHardlyEarly
