SPECIFICATION Spec
CONSTANTS
  Threads = {t1}
  Prices = {"7", "180"}
  Days <- MCDays
  Sessions = {s1, s2}
  Customers = {c1, c2}
  nil = nil
  DayLength = 2
  MaxTime = 6
INVARIANTS
  PassConsistent
  PassHonoured
  AccessGranted
PROPERTIES
  CustomerSticky
  KeepsLedger
SYMMETRY MCSymmetry
