SPECIFICATION Spec
CONSTANTS
  N = 2
  MaxRevision = 1
  MaxFaults = 1
INVARIANTS CheckpointSurvives OutputSurvives
