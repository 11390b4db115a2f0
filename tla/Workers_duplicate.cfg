SPECIFICATION Spec
CONSTANTS
  Requests = {r1}
  Titles = {"clean"}
  Concurrency = 1
  MaxRetries = 1
  MaxShutdowns = 0
  MaxCrashes = 0
INVARIANTS
  OnePlaylistPerRequest
