\* Two client threads, an editor publishing revisions, the owner's controls.
CONSTANTS
  c1 = c1  c2 = c2  t1 = t1
  Clients = {c1, c2}
  Timestamps = {t1}
  OutOfRange <- LastRefused
  CacheCapacity = 1
  MaxRevision = 3
  MaxCalls = 2
  MaxControls = 1
  Controls = {"start", "stop", "pause", "resume"}
SPECIFICATION MCSpec
CHECK_DEADLOCK FALSE
INVARIANTS DeliveredPlanMatches CachedPlansMatch CacheCoherent
PROPERTIES ImplementsLatestRequest SettledRequestAnswered
