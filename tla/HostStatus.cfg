CONSTANTS
  Codes = {0, 1, 2}
  Aggressive = FALSE
  HasCommand = TRUE
  Passive = TRUE
  PassiveSoft = {TRUE, FALSE}
  TranslatePassive = FALSE
  InitialState = 0
  MaxAttempts = 2
  Parents = {"router"}
  NotifyOn = {0, 1, 2}
  NotifyFlapping = TRUE
  Intervals = {0, 1}
  Delayed = TRUE
  MayMiss = FALSE
  MayBlock = FALSE
  MayFlap = TRUE
  Suppressions = {"outside period"}
  MaxProblems = 2
  MaxNumber = 1
SPECIFICATION FairSpec
INVARIANTS
  HostStatesAgree
  HostRecoveriesAnswer
PROPERTIES
  HostProblemsAreReported
  HostRecoveriesAreSent
