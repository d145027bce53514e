SPECIFICATION Spec
CONSTANTS
  w1 = w1
  w2 = w2
  w3 = w3
  s1 = s1
  s2 = s2
  Workers = {w1, w2, w3}
  Submitters = {s1}
  Counts = {2, 3}
  Throwing = {}
  MaxJobs = 2
  Wrap = 8
SYMMETRY WorkerSymmetry
INVARIANT OneOwner
CHECK_DEADLOCK FALSE
