CONSTANTS
    Turns = {t1, t2, t3}
    Recent = 2
    MaxItems = 10
SPECIFICATION Spec
INVARIANT RecentTurnsRaw
CHECK_DEADLOCK FALSE
