SPECIFICATION FairSpec
CONSTANT Buffers = 3
INVARIANTS
    HeadersAccounted
    CallbackFindsItsParts
    NothingOutlives
    ReturnsClean
PROPERTIES
    AbortEndsTimed
    TeardownEnds
