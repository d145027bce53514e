SPECIFICATION Spec
CONSTANTS
  Worker = w
  Callers = {c1}
  Units = 2
  Reentrant = {"start"}
  Careful = TRUE
  ThreadMayFail = FALSE
  MaxCalls = 2
INVARIANT ReentryDoesNotDeadlock
CHECK_DEADLOCK FALSE
