SPECIFICATION Spec
CONSTANTS
    a1 = a1
    a2 = a2
    flux = flux
    None = None
    Accounts <- MCAccounts
    InitialAccounts <- MCAccounts
    InitialPaid = {a1}
    Requests = {r1, r2}
    Kinds = {"image"}
    Models <- MCModels
    PaidModels = {}
    CachedModels = {}
    Affinity = 0
    MaxReport = 1
    MaxSyncs = 1
    MaxEdits = 1
    MaxDays = 0
CHECK_DEADLOCK FALSE
INVARIANT CompletionsAccounted
PROPERTY MarkSurvives
