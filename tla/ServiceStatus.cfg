CONSTANTS
  Codes = {0, 2}
  TimeoutState = 3
  InitialState = 0
  MaxAttempts = 3
  Volatile = FALSE
  NotifyOn = {0, 2, 3}
  NotifyFlapping = TRUE
  NotificationInterval = 1
  Escalated = {0}
  Delayed = TRUE
  HostChecks = TRUE
  Parents = {"router"}
  MayMiss = TRUE
  MayBlock = FALSE
  MayFlap = TRUE
  Suppressions = {"downtime", "no good parents"}
  MaxProblems = 2
  MaxNumber = 1
SPECIFICATION FairSpec
INVARIANTS
  StatesAgree
  RecoveriesAnswerProblems
PROPERTIES
  OutageKeepsItsId
  AcknowledgementSilences
  ProblemsAreReported
  RecoveriesAreSent
