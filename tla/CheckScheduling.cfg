CONSTANTS
  Services = {"http"}
  Regular = {"http"}
  Forced = {"http"}
  Passive = {"http"}
  FreshnessChecked = {"http"}
  Obstacles = {"period", "host"}
  CheckOrphans = TRUE
  MayLose = TRUE
  MaxParallel = 1
  MaxDelay = 1
  MaxInFlight = 2
  MaxCounted = 2
SPECIFICATION FairSpec
INVARIANTS
  NoServiceForgotten
  PeekedEventStands
PROPERTIES
  ChecksGoOn
  ForcedChecksAreMade
