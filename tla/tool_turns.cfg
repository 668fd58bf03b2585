CONSTANTS
    CallIDs = {c1, c2, d1}
    OwnCalls = {c1, c2}
    Proofs = {p1, p2}
    NoCall = NoCall
    NoProof = NoProof
    Capacity = 2
    TTL = 2
    MaxTime = 5
    MaxItems = 3
    MaxTurns = 2
SPECIFICATION TurnsSpec
INVARIANTS
    SizeBounded
    KeptUntilDue
    ReplayIsFaithful
    ReplayIsComplete
