CONSTANTS
    MaxSeq = 3
    MaxDrops = 0
    MaxOpens = 1
SPECIFICATION Spec
PROPERTY PlaceholderRemoved
CHECK_DEADLOCK FALSE
