SPECIFICATION Spec
CONSTANTS
    Procs = {p1, p2, p3}
    Duration = 2
    MaxTime = 4
SYMMETRY ProcSymmetry
INVARIANTS TypeOK Exclusive LeaseEnds
PROPERTIES IntrusionNeedsOverrun ImplementsLease
