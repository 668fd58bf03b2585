CONSTANTS
    MaxAccount = 1
    InitAccounts = 1
    MaxTime = 4
    DbMayFail = FALSE
    Requests = {r1}
    MaxRetries = 1
    FailCooldown = 1
    Cooldown503 = 2
    Cooldowns429 <- MCCooldowns429
    ClaimLimit = 1
    ReconcileLimit = 1
    Lease = 2
    ReconcileEvery = 2
    AttemptCap = 2
    MaxBackoff = 2
    Backoff <- MCBackoff
    AdminOps = {}
    MaxCrashes = 1
    MaxDelay = 3
SPECIFICATION Spec
PROPERTY
    ProbeClearsWindow
