\* Servers started one after the other (launchd), a listener and a command:
\* every interleaving with two kills, signals or failures.
SPECIFICATION FairSpec
CONSTANTS
    Server = {s1, s2, s3}
    Listener = {c1}
    Command = {d1}
    None = None
    Empty = Empty
    Exclusive = TRUE
    MaxFaults = 2
INVARIANTS
    ServerTypeOK
    TokensAgree
    BoundHasIdentity
PROPERTIES
    ServingStops
    ListenersGetIn
CHECK_DEADLOCK FALSE
