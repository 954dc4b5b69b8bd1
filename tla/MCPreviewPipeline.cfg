\* Three buffers: one shown, one with the camera, one on its way.  Two, the
\* fewest that work, leave the worker nothing to queue.
SPECIFICATION FairSpec
CONSTANTS
    b1 = b1
    b2 = b2
    b3 = b3
    None = None
    Buffers <- MCBuffers
    MaxOdd = 2
INVARIANTS
    ShownFrameStays
    FaultsHaveTheirCause
PROPERTIES
    ImplementsCycle
    FramesKeepComing
    TeardownEnds
