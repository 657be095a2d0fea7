SPECIFICATION MCSpec
CONSTANTS
  Calls = {a, b, c, d}
  PerWindow = 2
  Window = 2
  Deadline = 3
  MaxTime = 6
INVARIANTS
  NeverAboveTheRate
  InTheOrderTheyCame
  NobodyIsKeptWaiting
PROPERTIES
  EveryCallEnds
\* The last call ends and nothing more is asked.
CHECK_DEADLOCK FALSE
