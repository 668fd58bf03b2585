CONSTANTS
    MaxAccount = 2
    InitAccounts = 2
    MaxTime = 4
    DbMayFail = FALSE
    Requests = {r1}
    MaxRetries = 3
    FailCooldown = 1
    Cooldown503 = 2
    Cooldowns429 <- MCCooldowns429
SPECIFICATION FailoverSpec
PROPERTY
    TriesNextAccount
