CONSTANTS
    QLen = 4
    Size = 2
    Data = {a, b}
    Junk = Junk
SPECIFICATION McqSpec
INVARIANTS CopiesDisjoint PublishedWhole
PROPERTY ImplementsFifo
