CONSTANTS
    Slots = {p1, p2}
    Admins = {a1}
    Turns = {t1}
    MaxRounds = 3
    MaxCalls = 2
    MaxResumes = 1
    Nil = Nil
SPECIFICATION Spec
PROPERTY LockReleased
