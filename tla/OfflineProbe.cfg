\* Up to three lines beside the payload, before it and after it.
SPECIFICATION FairSpec
CONSTANTS
  Text = {"one", "two"}
  Noise = {"blank", "text", "json"}
  MaxNoise = 3
INVARIANTS
  TypeOK
  GenerationCounts
PROPERTIES
  EndsUnlessHeld
  ImplementsAnswerOnce
