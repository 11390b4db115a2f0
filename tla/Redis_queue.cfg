SPECIFICATION Spec
CONSTANTS
  Clients = {c1, c2, c3}
  Keys = {k1, k2}
  k1 = k1
  k2 = k2
  None = None
  Commands <- MCCommands
  MaxPush = 2
  MaxElements = 2
INVARIANTS
  TypeOK
  NoMissedWakeup
  Registered
PROPERTIES
  OldestFirst
  HandsOff
  TimedWaitEnds
  ServiceEnds
