\* Two handlers find the log oversized and rotate it at once.
SPECIFICATION LocalSpec
CONSTANTS
    Parts = {"journal"}
    w1 = w1
    w2 = w2
    w3 = w3
    Writer = {w1, w2}
    Backups = 2
    MaxLines = 0
    LastN = 1
    Overlong = {}
    MaxRecords = 4
    MaxErrors = 0
    Caller = {h1, h2, h3}
    Limit = 2
    Minute = 3
    Skew = 1
    MaxTime = 7
    Helper = {x1}
    Command <- CommandMC
    TextCap = 10
    BroadcastTextCap = 1
    FrameCap = 16
    Header = 1
    a1 = a1
    a2 = a2
    a3 = a3
    Agent = {a1, a2, a3}
    Wanted <- WantedMC
    Suffix = {2, 3}
    MaxParts = 3
    MaxCollisions = 3
    MaxDrops = 2
    MaxRenames = 1
    Cli = {c1, c2}
    Binary = {b1, b2}
    MaxTrouble = 2
    MaxCalls = 4
    MaxPid = 5
PROPERTIES
    RotationDropsOldest
CHECK_DEADLOCK FALSE
