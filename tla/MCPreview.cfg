SPECIFICATION Spec
CONSTANTS
    Builds = {b1, b2}
    Workers = {w1, w2}
    NoOne = NoOne
    MaxRuns = 3
    MaxFaults = 1
INVARIANTS
    TypeOK
    PublishedIsServed
PROPERTIES
    PointerMovesAsSeen
CHECK_DEADLOCK FALSE
SYMMETRY Symmetry
