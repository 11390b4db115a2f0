SPECIFICATION Spec
CONSTANTS
  Threads = {t1, t2}
  Accounts = {a1, a2}
  nil = nil
  MaxUsers = 3
  MaxRequests = 4
INVARIANTS
  TypeOK
  DuplicatesBounded
  AccountsApart
  ServiceShadowsHome
SYMMETRY MCSymmetry
