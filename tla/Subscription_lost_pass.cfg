SPECIFICATION Spec
CONSTANTS
  Threads = {t1, t2}
  Prices = {"7"}
  Days <- MCDays
  Sessions = {s1}
  Customers = {c1}
  nil = nil
  DayLength = 1
  MaxTime = 2
INVARIANTS
  PassNotErased
