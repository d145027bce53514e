\* The host polls while a session is played, paused, seeked and destroyed.
CONSTANTS
  Duration = 3
  Rates <- BothDirections
  Prefetch = 2
  MaximumQueued = 2
  Budget = 4
  Sizes = {2}
  Late = 2
  SeekTargets = {1}
  LoopRanges <- NoLoops
  Failures = {}
  Calls = {"play", "pause", "seek", "rate", "destroy"}
  MaxCalls = 3
  MaxSeeks = 2
SPECIFICATION FairSpec
CHECK_DEADLOCK FALSE
PROPERTIES PlaybackShowsFrames DestructionCompletes
