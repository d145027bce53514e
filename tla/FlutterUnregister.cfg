CONSTANTS
  Clients = {c1, c2}
  Sessions = {s1, s2}
  Revisions = {1, 2}
  Frames = 2
  MaxCalls = 2
SPECIFICATION Spec
INVARIANT HostCallsEnd
CHECK_DEADLOCK FALSE
