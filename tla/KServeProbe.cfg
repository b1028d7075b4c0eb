\* A child of kubectl may keep its output open for ever.
SPECIFICATION FairSpec
CONSTANTS
  Pods = {0, 1, 2}
INVARIANTS
  TypeOK
  ReportAfterBoth
  ZeroPodsWereListed
  ExitIsExplained
PROPERTIES
  StreamNotBlocked
  EndsUnlessHeld
