CONSTANTS
    MaxAccount = 2
    InitAccounts = 1
    MaxTime = 2
    DbMayFail = TRUE
    Requests = {r1}
    MaxRetries = 1
    FailCooldown = 1
    Cooldown503 = 1
    Cooldowns429 <- MCOneCooldown429
    ClaimLimit = 2
    ReconcileLimit = 2
    Lease = 1
    ReconcileEvery = 1
    AttemptCap = 1
    MaxBackoff = 1
    Backoff <- MCBackoff
    AdminOps = {"delete", "import", "patch"}
    MaxCrashes = 0
    MaxDelay = 1
SPECIFICATION Spec
INVARIANTS
    ClaimedStillQueued
    NewIdsAreClean
