\* Two processes deliver two similar events and a heartbeat to one user, who may leave and return.
CONSTANTS
    Users = {u1}
    Fickle = {u1}
    e2 = e2
    e3 = e3
    w3 = w3
    p2 = p2
    Events = {e1, e2}
    Heartbeats = {h1}
    Rich = {e1, h1}
    EventKey <- MCEventKey
    Family <- MCFamily
    NoFamily = NoFamily
    Born <- MCBorn
    Workers = {w1, w2}
    Processes = {w1, w2}
    ProcessOf <- OwnProcess
    NoWorker = NoWorker
    Cooldown = 2
    Silence = 2
    MaxAge = 2
    MaxAttempts = 1
    SessionMayDrop = FALSE
    MaxTime = 3
SYMMETRY Symmetry
VIEW WithoutChat
SPECIFICATION Spec
CHECK_DEADLOCK FALSE
INVARIANTS
    CooldownSpacing
    HeartbeatSilence
