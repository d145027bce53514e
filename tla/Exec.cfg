SPECIFICATION DestroyedSpec
CONSTANTS
  w1 = w1
  w2 = w2
  w3 = w3
  s1 = s1
  s2 = s2
  Workers = {w1, w2}
  Submitters = {s1, s2}
  Counts = {1, 4}
  Throwing = {1}
  MaxJobs = 2
  Wrap = 8
INVARIANT OneOwner
INVARIANT ReturnIsTrue
PROPERTY DestructionEnds
CHECK_DEADLOCK FALSE
