\* Every call of the host, failing callbacks included, while the worker decodes ahead.
CONSTANTS
  Duration = 3
  Rates <- BothDirections
  Prefetch = 2
  MaximumQueued = 2
  Budget = 5
  Sizes = {2, 6}
  Late = 2
  SeekTargets = {1}
  LoopRanges <- OneLoop
  Failures = {"decode", "present"}
  Calls = {"play", "pause", "stop", "seek", "scrub", "step", "rate", "loop", "destroy"}
  MaxCalls = 3
  MaxSeeks = 2
SPECIFICATION Spec
CHECK_DEADLOCK FALSE
INVARIANTS PresentsOnlyAfterSeek BytesBounded
