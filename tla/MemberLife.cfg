CONSTANTS
    Agents = {a1}
    Composers = {c1}
    MaxSaves = 3
    MaxEdits = 1
    MaxLost = 1
SPECIFICATION FairSpec
INVARIANTS TypeOK RegistryMatches RunsOnce
PROPERTIES ConfigNeverGoesBack ConfigConverges
CHECK_DEADLOCK FALSE
