CONSTANTS
  c1 = c1
  c2 = c2
  s1 = s1
  s2 = s2
  Clients = {c1, c2}
  Sessions = {s1, s2}
  Revisions = {1, 2}
  Frames = 2
  MaxCalls = 8
  Previews = {1, 2}
  Sizes = {1, 2}
  MaxPreviews = 4
  MaxOpens = 2
  MaxFaults = 2
SPECIFICATION BothSpec
SYMMETRY Symmetry
INVARIANTS ExportEndsAsAsked OperationKeepsRuntime HeldTextureIsAlive
INVARIANTS OutstandingHasOwner WaitingAppKeepsFrames CloseIsComplete
CHECK_DEADLOCK FALSE
