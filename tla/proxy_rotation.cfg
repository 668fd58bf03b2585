CONSTANTS
    Callers = {g1, g2}
    Lists <- MCLists
    Missing = Missing
    Broken = Broken
    Garbage = Garbage
    MaxEdits = 2
    IndexCycle = 4
SPECIFICATION ProxySpec
INVARIANTS
    ProxyTypeOK
PROPERTIES
    RoundRobin
    SoleLoadIsCurrent
    UsesFilesList
