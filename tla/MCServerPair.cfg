\* Two servers at once: the second writes its identity over that of the
\* first, finds the port taken and removes it.
SPECIFICATION Spec
CONSTANTS
    Server = {s1, s2}
    Listener = {c1}
    Command = {d1}
    None = None
    Empty = Empty
    Exclusive = FALSE
    MaxFaults = 0
INVARIANT SoleServerHasIdentity
CHECK_DEADLOCK FALSE
