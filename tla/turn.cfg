CONSTANTS
    Slots = {p1, p2}
    Admins = {a1, a2}
    Turns = {t1, t2}
    MaxRounds = 2
    MaxCalls = 1
    MaxResumes = 1
    Nil = Nil
SPECIFICATION Spec
INVARIANTS TypeOK OneRunPerThread RowFollowsRun NoSilentEnd
PROPERTY FloorTakenOnlyWhenOvertaken
SYMMETRY Symmetric
