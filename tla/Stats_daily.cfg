SPECIFICATION Spec
CONSTANTS
  Threads = {t1}
  Tracks <- MCTracks
  DefaultGenres = DefaultGenres
  nil = nil
  GenresPerTrack = 2
  GenresShown = 2
  Day = 2
  MaxTime = 3
  MaxJobs = 2
  MaxRetries = 1
INVARIANTS
  TypeOK
  FreshHasJob
  GenresMostPlayed
  OneJobPerDay
PROPERTIES
  GenresKept
