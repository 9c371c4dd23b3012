\* A send that Telegram leaves unanswered is followed by another one.
CONSTANTS
    Users = {u1}
    Fickle = {}
    e2 = e2
    e3 = e3
    w3 = w3
    p2 = p2
    Events = {e1}
    Heartbeats = {}
    Rich = {e1}
    EventKey <- MCEventKey
    Family <- MCFamily
    NoFamily = NoFamily
    Born <- MCBorn
    Workers = {w1}
    Processes = {w1}
    ProcessOf <- OwnProcess
    NoWorker = NoWorker
    Cooldown = 2
    Silence = 3
    MaxAge = 2
    MaxAttempts = 2
    SessionMayDrop = FALSE
    MaxTime = 0
SPECIFICATION Spec
CHECK_DEADLOCK FALSE
INVARIANTS
    NoDuplicate
