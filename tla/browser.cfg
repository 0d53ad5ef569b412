\* The three builds, two accounts, two requests at a time; KV forgets after two intervals.
CONSTANTS
  Accounts = {a1, a2}
  Requests = {r1, r2}
  Stores = {"memory", "kv", "d1"}
  None = None
  Interval = 1
  KvTtl = 2
  MaxEdits <- MCMaxEdits
  MaxRestarts = 1
SPECIFICATION FairSpec
PROPERTIES
  RateKept
  MarkedSkipped
  VerdictHonest
  ExhaustionEnds
CHECK_DEADLOCK FALSE
