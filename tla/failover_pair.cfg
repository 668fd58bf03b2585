CONSTANTS
    MaxAccount = 1
    InitAccounts = 1
    MaxTime = 3
    DbMayFail = FALSE
    Requests = {r1, r2}
    MaxRetries = 2
    FailCooldown = 1
    Cooldown503 = 1
    Cooldowns429 <- MCShortCooldowns429
SPECIFICATION FailoverSpec
INVARIANTS
    WindowIsScheduled
    LimitAnsweredAfterSchedule
PROPERTIES
    EveryRequestAnswered
    CooldownCoversWindow
