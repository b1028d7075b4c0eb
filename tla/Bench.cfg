\* Up to 3 requests and 3 workers, in every combination, and rejected arguments.
SPECIFICATION FairSpec
CONSTANTS
  RequestArgs = {0, 1, 2, 3}
  ConcurrencyArgs = {0, 1, 2, 3}
  Outcomes <- MCOutcomes
INVARIANTS
  TypeOK
  ClaimsDisjoint
  ReportIsComplete
PROPERTIES
  ImplementsEachOnce
  Termination
