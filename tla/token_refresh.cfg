CONSTANTS
    Users = {u1, u2, u3}
    Syncs = {u3}
    Importers = {j1, j2}
    MaxRows = 2
    MaxTokens = 4
SPECIFICATION TokenSpec
INVARIANTS
    LiveTokenKept
    ImportedOnce
PROPERTIES
    FlaggedMeansDead
CHECK_DEADLOCK FALSE
