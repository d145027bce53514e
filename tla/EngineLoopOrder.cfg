\* One loop range, nothing else.
CONSTANTS
  Duration = 4
  Rates <- ForwardOnly
  Prefetch = 3
  MaximumQueued = 3
  Budget = 4
  Sizes = {2, 3}
  Late = 2
  SeekTargets = {1, 9}
  LoopRanges <- OneLoop
  Failures = {}
  Calls = {"play", "loop"}
  MaxCalls = 2
  MaxSeeks = 2
SPECIFICATION Spec
CHECK_DEADLOCK FALSE
INVARIANTS DropsForNewerFrames
