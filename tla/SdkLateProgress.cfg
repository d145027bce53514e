SPECIFICATION Spec
CONSTANTS
  Worker = w
  Callers = {c1}
  Units = 2
  Reentrant = {"start", "cancel", "destroy"}
  Careful = FALSE
  ThreadMayFail = FALSE
  MaxCalls = 2
INVARIANT NoProgressAfterDispose
INVARIANT ReentryIsAllowed
CHECK_DEADLOCK FALSE
