\* A frame asked for before a seek, after a stop.
CONSTANTS
  Duration = 4
  Rates <- BothDirections
  Prefetch = 2
  MaximumQueued = 2
  Budget = 4
  Sizes = {2, 3}
  Late = 2
  SeekTargets = {1, 9}
  LoopRanges <- NoLoops
  Failures = {"decode", "present"}
  Calls = {"play", "stop", "seek"}
  MaxCalls = 4
  MaxSeeks = 2
SPECIFICATION Spec
CHECK_DEADLOCK FALSE
INVARIANTS SeekInvalidates
