SPECIFICATION FairSpec
CONSTANTS
  N = 3
  MaxRevision = 3
  MaxFaults = 3
INVARIANT CheckpointIsTrue
INVARIANT OutputIsWhole
PROPERTY ExportCompletes
