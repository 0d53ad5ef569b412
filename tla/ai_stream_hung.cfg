SPECIFICATION FairSpec
CONSTANTS
    a1 = a1
    a2 = a2
    flux = flux
    None = None
    Accounts <- MCAccounts
    InitialAccounts = {a1}
    InitialPaid = {a1}
    Requests = {r1}
    Kinds = {"stream"}
    Models <- MCModels
    PaidModels <- MCModels
    CachedModels <- MCModels
    Affinity = 0
    MaxReport = 1
    MaxSyncs = 0
    MaxEdits = 1
    MaxDays = 0
CHECK_DEADLOCK FALSE
PROPERTY StreamsAnswered
