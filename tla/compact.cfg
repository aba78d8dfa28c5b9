CONSTANTS
    Turns = {t1, t2, t3, t4}
    Recent = 2
    MaxItems = 13
SPECIFICATION Spec
INVARIANTS TypeOK NothingUnsummarised RecentTurnsRawInOrder
SYMMETRY Symmetric
CHECK_DEADLOCK FALSE
