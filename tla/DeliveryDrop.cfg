\* Two fan-outs of one process and one of another contend for a user and lose sessions.
CONSTANTS
    Users = {u1}
    Fickle = {}
    e2 = e2
    e3 = e3
    w3 = w3
    p2 = p2
    Events = {e1}
    Heartbeats = {}
    Rich = {e1}
    EventKey <- MCEventKey
    Family <- MCFamily
    NoFamily = NoFamily
    Born <- MCBorn
    Workers = {w1, w2, w3}
    Processes = {p1, p2}
    ProcessOf <- W3Apart
    NoWorker = NoWorker
    Cooldown = 0
    Silence = 3
    MaxAge = 2
    MaxAttempts = 2
    SessionMayDrop = TRUE
    MaxTime = 0
SPECIFICATION FairSpec
CHECK_DEADLOCK FALSE
INVARIANTS
    NoDuplicateUnlessUnacked
PROPERTIES
    ImplementsContract
    FanOutEnds
