\* The same flags with one dash, as the usage text prints them.
SPECIFICATION Spec
CONSTANTS
  Flags = {"config", "model", "prompt"}
  Dashes = {1, 2}
  Names = {"serve", "api"}
  Words = {"qwen"}
  MaxParts = 4
  MaxOrdered = 0
  Blank = {" "}
  Web <- MCWeb
  Counts <- MCCounts
  Durations <- MCDurations
INVARIANTS
  ConfigFlagIsRead
\* A draft may end anywhere: a line at its bound, or a probe that was started.
CHECK_DEADLOCK FALSE
