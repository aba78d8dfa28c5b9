CONSTANTS
    MaxSeq = 4
    MaxDrops = 1
    MaxOpens = 1
SPECIFICATION Spec
INVARIANTS TypeOK OnlyReopenSkips NoLostWake
PROPERTY WaitEnds
CHECK_DEADLOCK FALSE
