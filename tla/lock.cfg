CONSTANTS
    Turns = {c1, c2}
    Readers = {r1}
    Files = {f1, f2, f3}
    Tokens = {t1, t2, t3, t4, t5}
    TTL = 2
    FlockWorks = TRUE
    Nil = Nil
SPECIFICATION Spec
INVARIANTS TypeOK MutualExclusion NeverOverwritesUnexpired
PROPERTY ImplementsLease
SYMMETRY Symmetric
