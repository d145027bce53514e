\* Every cut of a small job or image; every graph of up to three passes;
\* every session of up to four calls, two of them edits, on a small timeline; seven samples
\* in three packets, previewed and exported in blocks of two.
SPECIFICATION InputsSpec
CONSTANTS
  MaxCount = 13
  MaxWorkers = 5
  MaxGrain = 3
  MaxSize = 4
  MaxHalo = 3
  ResourceTypes = {"texture"}
  ResourceSizes = {1, 2}
  Named = {1, 2, 3, 4}
  MaxPasses = 3
  MaxReads = 1
  MaxGraphCalls = 1
  Minimum = 2
  Names <- AnyName
  Projects <- SmallProjects
  Positions = {0, 2, 4, 7}
  Lengths = {2, 3}
  Deltas <- SmallDeltas
  HistoryLimit = 2
  UndoInTransaction = FALSE
  MaxEdits = 2
  MaxHostCalls = 4
  Rate = 3
  Second = 10
  Packets <- ThreePackets
  Block = 2
  Times = {0, 4, 6, 10}
  Durations = {0, 13}
  Rates = {1, 2}
  Gains = {0, 1}
  Origins = {1, 10}
  ExportLength = 13
  MaxRevision = 2
  MaxUpdates = 2
  MaxCalls = 6
INVARIANTS CutsAreExact ResultsAreAsDeclared EditsShowTheRest
INVARIANTS RenderedIsSource MixIsFrozenOrShown OutputFollowsSession
PROPERTIES ImplementsEditHistory ExportIsContiguous
CHECK_DEADLOCK FALSE
