SPECIFICATION Spec
CONSTANTS
    Readers = {r1, r2}
    Docs = {1, 2}
    Threads = {t1, t2}
    MaxHistory = 1
    MaxChanges = 3
    MaxEvents = 1
INVARIANTS TypeOK ReadsCurrent
PROPERTIES GoesForward
SYMMETRY Symmetry
