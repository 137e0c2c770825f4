SPECIFICATION FairSpec
CONSTANTS
    Ranks <- MCRanks
    Neighbours <- MCNeighbours
    Hollow <- MCHollow
    Levels = 1
    MaxOuter = 2
    Worlds <- MCWorlds
    MaxErrs = 1
INVARIANTS TypeOK OneSequence NobodyGoesOn NobodySolvesAlone
PROPERTIES EverybodyReturns
CHECK_DEADLOCK FALSE
