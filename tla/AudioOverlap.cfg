\* The audio session alone: nothing is cut, compiled or edited. Exports may begin
\* between a sample and the next unit of time, and the timeline is published again.
SPECIFICATION InputsSpec
CONSTANTS
  MaxCount = 1
  MaxWorkers = 1
  MaxGrain = 0
  MaxSize = 1
  MaxHalo = 0
  ResourceTypes = {"texture"}
  ResourceSizes = {1, 2}
  Named = {1, 2, 3, 4}
  MaxPasses = 0
  MaxReads = 0
  MaxGraphCalls = 0
  Minimum = 2
  Names <- AnyName
  Projects <- SmallProjects
  Positions = {0}
  Lengths = {2}
  Deltas <- SmallDeltas
  HistoryLimit = 2
  UndoInTransaction = FALSE
  MaxEdits = 0
  MaxHostCalls = 0
  Rate = 3
  Second = 10
  Packets <- ThreePackets
  Block = 2
  Times = {0, 4, 6, 10}
  Durations = {0, 13}
  Rates = {1, 2}
  Gains = {0, 1}
  Origins = {1, 4, 10}
  ExportLength = 13
  MaxRevision = 2
  MaxUpdates = 2
  MaxCalls = 4
PROPERTIES ExportIsContiguous RevisionNamesOneMix
CHECK_DEADLOCK FALSE
