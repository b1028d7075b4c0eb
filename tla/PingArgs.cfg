\* Lines of two modes in any order, written as documented with two dashes;
\* and lines of all modes in one order, started in many worlds.
SPECIFICATION Spec
CONSTANTS
  Flags = {"config", "model", "prompt", "runtime"}
  Dashes = {2}
  Names = {"serve", "api"}
  Words = {"api", "qwen"}
  MaxParts = 5
  MaxOrdered = 6
  Blank = {" "}
  Web <- MCWeb
  Counts <- MCCounts
  Durations <- MCDurations
INVARIANTS
  ReadAsMeant
  LayersInOrder
  ConfigNotIgnored
\* A draft may end anywhere: a line at its bound, or a probe that was started.
CHECK_DEADLOCK FALSE
