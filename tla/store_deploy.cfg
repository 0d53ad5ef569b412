SPECIFICATION FairSpec
CONSTANTS
    db = db
    bucket = bucket
    Deploys = {d1, d2}
    Names = {app}
    Titles <- MCTitles
    Databases <- MCDatabases
    Buckets <- MCBuckets
    Templates <- MCTemplates
    Prompt = Prompt
    User = User
    None = None
    MaxCrashes = 1
CHECK_DEADLOCK FALSE
INVARIANTS
    LeftoversExplained
    SuccessHoldsResources
    DeployedWorkerKept
PROPERTIES
    UserResourcesKept
    ImplementsSaga
    EveryDeployEnds
