CONSTANTS
    Admins = {a1, a2}
    SessionTTL = 2
    MaxClock = 3
    MaxLogins = 2
    MaxKeys = 3
    MaxPasswords = 2
    Items = {i1, i2}
    Counts = {0, 3}
    MaxEvents = 5
    Texts = {t1, t2}
    Names = {f1, f2}
    MaxDomains = 2
    Minute = 4
    Hour = 8
    Day = 16
    Half = 32
    Default429 = 20
    Default503 = 6
    Address <- MCAddress
    RespSize = 8
    Requests <- MCRequests
    Limits <- MCLimits
    Replies <- MCReplies
SYMMETRY MCSymmetry
SPECIFICATION ExchangeSpec
INVARIANTS
    ExchangeTypeOK
    AdmittedIsLogin
    KeysLastUntilRevoked
    TextsKept
    SearchAsAsked
    ChoiceIsOffered
    NeverEarly
    OneOutcome
    ChargedOnce
    OnlyIfGranted
    WholeRepliesDecide
    DeltasArrive
    EndIsTold
PROPERTIES
    IsChatStream
CHECK_DEADLOCK FALSE
