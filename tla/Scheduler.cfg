CONSTANTS
  Clients = {c1}
  LastFrame = 0
  Prefetch = 1
  Sources = {s1, s2}
  Graphs = {g1, g2}
  Budget = 1
  MaxCalls = 4
SPECIFICATION FairSpec
INVARIANT CompletedIsWanted
PROPERTIES ImplementsLatestRequest SettledRequestAnswered
CHECK_DEADLOCK FALSE
