SPECIFICATION Spec
CONSTANTS
    c1 = c1
    c2 = c2
    Reader = Reader
    None = None
    Clients <- MCTwo
    PipeSize = 2
    MaxSaid = 3
SYMMETRY MCSymmetry
INVARIANTS
    LineReachesAll
    NoneLostOnTheWay
    StaysListedByRace
PROPERTIES
    ImplementsChannel
CHECK_DEADLOCK FALSE
