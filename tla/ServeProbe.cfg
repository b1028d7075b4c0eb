\* No deadline, and one a tick beyond the two timeouts before the request.
SPECIFICATION FairSpec
CONSTANTS
  HealthLimit = 1
  MetricsLimit = 1
  Deadlines = {0, 3}
  MaxTime = 3
  Labels <- MCLabels
  MaxTokens = 1
  MaxRestarts = 1
INVARIANTS
  TypeOK
  NeverMixed
  DeltaCoversProbe
  BestEffort
  DiagnosisGrounded
PROPERTIES
  ProbeIsMade
  Termination
