CONSTANTS
  w1 = w1
  w2 = w2
  w3 = w3
  j1 = j1
  j2 = j2
  j3 = j3
  ping = ping
  snmp = snmp
  Workers = {w1, w2, w3}
  Jobs = {j2, j3}
  Commands = {ping, snmp}
  Global = Global
  NoWorker = NoWorker
  Plugins <- MCPlugins
  CommandOf <- MCCommandOf
  IsCallback <- MCIsCallback
  UIntSize = 16
  MayRestart = TRUE
SPECIFICATION FairSpec
INVARIANTS
  ResultsReachTheirJob
  TablesMatchRequests
  CallbacksRunOnce
  LoadAccounting
PROPERTIES
  TabledJobsFinish
