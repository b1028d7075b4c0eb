\* A word that ends at 15 and a cap of 8 bases: the ratio of cap to base is the one of
\* the code (4 s to 500 ms), the doubling leaves the word at attempt 5 instead
\* of attempt 36.
SPECIFICATION FairSpec
CONSTANTS
  Retries = 6
  BackoffBase = 1
  BackoffCap = 8
  MaxDuration = 15
  Deadline = 20
  MaxTime = 20
  SlowTicks = 3
  MaxChunks = 0
  Statuses <- MCDown
  Text <- MCText
  Chunks <- MCNoChunks
PROPERTIES
  BackoffHonoured
