SPECIFICATION FairSpec
CONSTANTS
    Headers = {h1, h2}
    Events = {e1}
    Senders = {s1}
    Controls = {c1, c2}
    Action = action
    Contexts = 1
    NoOne = NoOne
INVARIANTS
    TransitCounts
    WayBackStands
PROPERTIES
    NoneOvertakes
    ImplementsLoan
    DisableReturns
