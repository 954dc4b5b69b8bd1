\* The same instance: is the file exactly what the ring holds?
SPECIFICATION Spec
CONSTANTS
    BufLen = 4
    ListLen = 3
    MaxChunk = 2
    HeaderRoom = 1
    MaxBytes = 9
INVARIANTS
    SavesTheRing
CHECK_DEADLOCK FALSE
