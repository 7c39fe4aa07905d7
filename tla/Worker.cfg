CONSTANTS
  j1 = j1
  j2 = j2
  Jobs = {j1, j2}
  JobTimeout <- MCJobTimeout
  FirstRetry = 0
  StaleRetry = 1
SPECIFICATION FairSpec
PROPERTIES
  ImplementsContract
  TakenJobsAnswered
INVARIANTS
  SurvivorsAreDueLater
