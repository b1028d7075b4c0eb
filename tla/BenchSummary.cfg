\* Bench: up to 4 blocks of 1, 2 or 9 equal samples, lists of 1 to 36 samples, on
\* both sides of the 20 at which P95 leaves the maximum. Observations: a window on
\* both sides of the 1 ms (2 half milliseconds) from which a rate is printed.
SPECIFICATION ReportsSpec
CONSTANTS
  Outcomes <- MCOutcomes
  Blocks = {1, 2, 9}
  MaxBlocks = 4
  Caches <- MCCaches
  MaxTokens = 2
  MaxBusy = 3
  MaxRestarts = 1
INVARIANTS
  NearestRank
  EveryRequestCounted
  RateOfTheWindow
  CacheStatementMatchesLine
