SPECIFICATION InterruptSpec
CONSTANTS
    Threads = {p, q}
SYMMETRY Symmetry
INVARIANTS
    InterruptReachesCall
