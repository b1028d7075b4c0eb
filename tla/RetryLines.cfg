\* One retry is enough to see a retry line that no request follows.
SPECIFICATION FairSpec
CONSTANTS
  Retries = 1
  BackoffBase = 1
  BackoffCap = 2
  MaxDuration = 1000
  Deadline = 3
  MaxTime = 4
  SlowTicks = 3
  MaxChunks = 1
  Statuses <- MCDown
  Text <- MCText
  Chunks <- MCNoChunks
INVARIANTS
  OneLinePerRetry
