\* Safety and liveness: a listener, its successor, a helper.
SPECIFICATION FairSpec
CONSTANTS
    p1 = p1
    p2 = p2
    h1 = h1
    h2 = h2
    NoProc = NoProc
    Proc <- Duo
    Helper = {h1}
    MaxCollisions = 3
    MaxFaults = 2
INVARIANTS
    ListenerTypeOK
    ServingIsFindable
PROPERTIES
    LiveRecordIsKept
    Settles
    CancelledExits
\* Every process may have exited and every helper be done.
CHECK_DEADLOCK FALSE
