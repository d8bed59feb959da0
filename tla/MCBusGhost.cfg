\* Expected to fail: RegisteredHasHandler.
SPECIFICATION Spec
CONSTANTS
    c1 = c1
    c2 = c2
    c3 = c3
    s1 = s1
    s2 = s2
    n1 = n1
    n2 = n2
    k1 = k1
    k2 = k2
    q = q
    NoConn = NoConn
    NoSession = NoSession
    NoName = NoName
    NoNonce = NoNonce
    Conn <- Trio
    Session = {s1, s2}
    Name = {n1, n2}
    Nonce = {k1, k2}
    Target = {s1, n1, q}
    Prefix <- MCPrefix
    Hellos <- TeamHellos
    LogMayFail = FALSE
    MaxRequests = 1
SYMMETRY TrioSymmetry
INVARIANTS
    RegisteredHasHandler
\* The system really stops once every connection of Conn has been used.
CHECK_DEADLOCK FALSE
