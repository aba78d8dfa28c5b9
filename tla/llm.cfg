CONSTANTS
    A = A
    B = B
    C = C
    c1 = c1
    c2 = c2
    c3 = c3
    None = None
    Calls = {c1, c2, c3}
    Order <- MCOrder
    Crowds <- MCCrowds
    Configs <- MCConfigs
    Pins <- MCPins
    Replies <- MCReplies
    Events <- MCEvents
    MaxEvents = 2
    MaxReloads = 1
    BaseDelay = 1
    MaxDelay = 3
SPECIFICATION Spec
INVARIANTS RotationKeepsAll GivesUpOnlyWhenSpent WorkBounded UnusableOnlyAfterReload EachCallOnce OneRequestAfterCancel
PROPERTY CallEnds
CHECK_DEADLOCK FALSE
