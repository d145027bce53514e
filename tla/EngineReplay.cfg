\* Seek to the end and play again.
CONSTANTS
  Duration = 4
  Rates <- ForwardOnly
  Prefetch = 2
  MaximumQueued = 2
  Budget = 4
  Sizes = {2}
  Late = 2
  SeekTargets = {9}
  LoopRanges <- NoLoops
  Failures = {}
  Calls = {"play", "seek"}
  MaxCalls = 3
  MaxSeeks = 2
SPECIFICATION FairSpec
CHECK_DEADLOCK FALSE
PROPERTIES PlaybackShowsFrames
