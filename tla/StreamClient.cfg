\* Three retries, the last one capped, against every answer of the server, under
\* a deadline that may fall anywhere.
SPECIFICATION FairSpec
CONSTANTS
  Retries = 3
  BackoffBase = 1
  BackoffCap = 2
  MaxDuration = 1000
  Deadline = 8
  MaxTime = 9
  SlowTicks = 3
  MaxChunks = 2
  Statuses <- MCStatuses
  Text <- MCText
  Chunks <- MCChunks
INVARIANTS
  TypeOK
  SingleAnswer
  TimelineOrdered
  RetryBudget
  SampleIsOutcome
  
  
PROPERTIES
  StampsStick
  BackoffHonoured
  ImplementsAnswerOnce
  Termination
