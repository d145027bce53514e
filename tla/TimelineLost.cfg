\* Two client threads, an editor publishing two revisions, the owner's controls.
CONSTANTS
  c1 = c1  c2 = c2  t1 = t1
  Clients = {c1, c2}
  Timestamps = {t1}
  OutOfRange <- NoneRefused
  CacheCapacity = 1
  MaxRevision = 1
  MaxCalls = 2
  MaxControls = 1
  Controls = {"start"}
SPECIFICATION FairSpec
CHECK_DEADLOCK FALSE

PROPERTIES LatestRequestWins
