\* Two checks of a coin see one of two contexts at a time; or four operations
\* over a day of three readings.
CONSTANTS
    Workers = {w1, w2}
    Contexts = {c1, c2}
    Keys = {k1}
    Users = {u1, u2}
    Analyses = {a1, a2}
    Events = {e1, e2}
    NoEvent = NoEvent
    NoAnalysis = NoAnalysis
    NoKey = NoKey
    Cooldown = 1
    MaxTime = 1
    HealthWindow = 2
    CoverageGrace = 1
    MaxAge = 1
    StreakLimit = 2
    MinSamples = 3
    AlertFailures = 1
    LowSampleFailures = 2
    FailRate = 40
    DegradedRate = 90
    Operations = 4
    LastReading = 3
SPECIFICATION SpecChecks
SYMMETRY Symmetry
CHECK_DEADLOCK FALSE
INVARIANTS
    ChecksTyped
    OneAlertPerKey
    OneAnalysisManyAlerts
    AlertWasRendered
    SilenceIsEarned
PROPERTIES
    StatusTruthful
