CONSTANTS
    Turns = {t1}
    Titlers = {j1}
    Renamers = {r1}
    Deleters = {}
    Nil = Nil
SPECIFICATION Spec
PROPERTY ManualTitleKept
