CONSTANTS
  t1 = t1
  t2 = t2
  k1 = k1
  cfA = cfA
  cfB = cfB
  Tokens <- MCTokens
  Keys <- MCKeys
  CfOf <- MCCfOf
  MaxId = 3
  Tables <- MCTables
  Requests = {r1, r2}
  MaxTasks = 2
  Files <- MCFiles
  DemoIds = {}
  Builds = {"node", "worker"}
  None = None
CHECK_DEADLOCK FALSE
SPECIFICATION Spec
INVARIANTS CredentialsPresent ActiveVerified AccountIdOwn ImportTruth FaultsExplained
PROPERTY GoneStaysGone
