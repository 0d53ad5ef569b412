SPECIFICATION FairSpec
CONSTANTS
    a1 = a1
    a2 = a2
    r1 = r1
    r2 = r2
    None = None
    Accounts <- MCAccounts
    InitialAccounts <- MCAccounts
    PaidAccounts = {a1}
    Requests = {r1}
    KindsOf <- AnyKind
    Stores = {"kv", "d1"}
    MaxReport = 1
    MaxSyncs = 1
    MaxEdits = 1
    MaxDays = 1
CHECK_DEADLOCK FALSE
INVARIANTS
    QuotaVerdictJustified
PROPERTIES
    ImplementsFailover
    EveryRequestAnswered
