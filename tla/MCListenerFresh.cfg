\* Expected to fail: FreshStateSurvives.
SPECIFICATION Spec
CONSTANTS
    p1 = p1
    p2 = p2
    h1 = h1
    h2 = h2
    NoProc = NoProc
    Proc <- Duo
    Helper <- Helpers
    MaxCollisions = 3
    MaxFaults = 2
SYMMETRY DuoSymmetry
PROPERTIES
    FreshStateSurvives
\* Every process may have exited and every helper be done.
CHECK_DEADLOCK FALSE
