\* Four files and replays of two, as against 100 and 14.
SPECIFICATION Spec
CONSTANTS
    r1 = r1
    r2 = r2
    Replayers <- MCReplayers
    Wrap = 4
    Chunks = 2
    Ignore = 1
    MaxTurns = 5
SYMMETRY MCSymmetry
INVARIANTS
    ListsTheLatest
    CopiesWhatItListed
