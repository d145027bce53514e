SPECIFICATION FairSpec
CONSTANTS
  w1 = w1
  w2 = w2
  w3 = w3
  s1 = s1
  s2 = s2
  Workers = {w1, w2}
  Submitters = {s1}
  Counts = {2}
  Throwing = {}
  MaxJobs = 1
  Wrap = 8
PROPERTY CallsReturn
CHECK_DEADLOCK FALSE
