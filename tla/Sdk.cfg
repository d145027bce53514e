SPECIFICATION FairSpec
CONSTANTS
  Worker = w
  Callers = {c1, c2}
  Units = 2
  Reentrant = {"start", "cancel", "destroy"}
  Careful = TRUE
  ThreadMayFail = TRUE
  MaxCalls = 4
INVARIANT OneCompletion
PROPERTY OnlyCancelIsLate
PROPERTY StartedEnds
PROPERTY DestroyReturns
CHECK_DEADLOCK FALSE
