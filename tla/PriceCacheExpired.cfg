\* A batch that ran out of retries renews an expired price.
CONSTANTS
    c1 = c1
    c2 = c2
    c3 = c3
    t1 = t1
    t2 = t2
    t3 = t3
    Symbols = {btc}
    Callers = {c1, c2}
    Tasks = {t1, t2}
    NoTask = NoTask
    TTL = 3
    Backoff = 2
    Retries = 1
    Start = 4
    End = 8
SPECIFICATION Spec
CHECK_DEADLOCK FALSE
INVARIANT NeverExpired
