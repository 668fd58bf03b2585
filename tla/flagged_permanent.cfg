CONSTANTS
    Users = {u1, u2}
    Syncs = {}
    Importers = {j1}
    MaxRows = 1
    MaxTokens = 3
SPECIFICATION TokenSpec
INVARIANTS
    FlaggedIsPermanent
CHECK_DEADLOCK FALSE
