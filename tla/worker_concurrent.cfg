SPECIFICATION Spec
CONSTANTS
    a1 = a1
    a2 = a2
    r1 = r1
    r2 = r2
    None = None
    Accounts <- MCAccounts
    InitialAccounts = {a1}
    PaidAccounts = {a1}
    Requests = {r1, r2}
    KindsOf <- TwoKinds
    Stores = {"kv", "d1"}
    MaxReport = 1
    MaxSyncs = 0
    MaxEdits = 2
    MaxDays = 0
CHECK_DEADLOCK FALSE
INVARIANT CompletionsAccounted
PROPERTY MarkedOnlyFades
