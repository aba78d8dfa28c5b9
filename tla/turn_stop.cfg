CONSTANTS
    Slots = {p1}
    Admins = {a1}
    Turns = {t1}
    MaxRounds = 2
    MaxCalls = 1
    MaxResumes = 1
    Nil = Nil
SPECIFICATION Spec
PROPERTY StoppedTurnStaysStopped
