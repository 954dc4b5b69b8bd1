SPECIFICATION Spec
CONSTANTS
    Callers = {t1, t2}
    Waiters = {w1}
    Buffers = {b1, b2}
    MaxCalls = 3
    NoOne = NoOne
SYMMETRY Alike
INVARIANTS
    AnswerIsOwn
    WaitersApart
    TransfersMatch
    DataInOrder
    AwakeInCalls
