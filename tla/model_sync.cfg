CONSTANTS
    Accounts = {a1, a2}
    Models = {m1}
    Retained = {m1}
    Runs = {r1, r2}
    Slots = 1
    MaxRows = 3
SPECIFICATION SyncSpec
INVARIANTS
    DuplicatesBounded
    CapabilityListed
PROPERTIES
    SyncAllReturns
