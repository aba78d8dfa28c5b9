CONSTANTS
    Turns = {t1, t2}
    Titlers = {j1}
    Renamers = {r1}
    Deleters = {d1}
    Nil = Nil
SPECIFICATION Spec
INVARIANTS TypeOK TurnsUpdateInTurn NothingAfterDelete
PROPERTY ImplementsRow
CONSTRAINT UntilLost
SYMMETRY Symmetric
VIEW Seen
