CONSTANTS
  Frames = {f1, f2, f3}
  Capacity = 1
  MaxInFlight = 2
  None = None
SPECIFICATION FairSpec
INVARIANT UnansweredHasOwner
PROPERTIES AnswersStick AcceptedIsAnswered WorkerEnds
CHECK_DEADLOCK FALSE
