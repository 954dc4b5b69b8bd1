SPECIFICATION FairSpec
CONSTANTS
    c1 = c1
    c2 = c2
    Reader = Reader
    None = None
    Clients <- MCTwo
    PipeSize = 2
    MaxSaid = 2
PROPERTIES
    MessagesGoOut
CHECK_DEADLOCK FALSE
