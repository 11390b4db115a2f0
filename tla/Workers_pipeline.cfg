SPECIFICATION Spec
CONSTANTS
  Requests = {r1}
  Titles = {"clean"}
  Concurrency = 2
  MaxRetries = 1
  MaxShutdowns = 1
  MaxCrashes = 1
INVARIANTS
  TypeOK
  NothingVanishes
  PlaylistsBounded
PROPERTIES
  EveryRequestEnds
