\* A ring of four bytes, a list of three entries, chunks of one or two, and more
\* than two laps.
SPECIFICATION Spec
CONSTANTS
    BufLen = 4
    ListLen = 3
    MaxChunk = 2
    HeaderRoom = 1
    MaxBytes = 9
INVARIANTS
    RingHoldsLatest
    ListHoldsIFrames
    SavesFromOldest
    OverreadNeedsRace
CHECK_DEADLOCK FALSE
