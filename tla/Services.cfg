\* Small instances of independent modules, one of which moves at a time.
CONSTANTS
    p1 = p1
    p2 = p2
    w1 = w1
    w2 = w2
    w3 = w3
    w4 = w4
    k1 = k1
    k2 = k2
    k3 = k3
    Lockers = {w1, w2, w3, w4}
    Processes = {p1, p2}
    ProcessOf <- MCProcessOf
    Keys = {k1, k2, k3}
    KeyOf <- MCKeyOf
    Capacity = 3
    Writes = 1
    btc = btc
    g1 = g1
    g2 = g2
    eth = eth
    Generators = {g1, g2}
    NoGenerator = NoGenerator
    Coins = {btc, eth}
    CoinOrder <- MCCoinOrder
    FreshFor = 1
    NeverMade = NeverMade
    Drops = 1
    LastMoment = 2
    u1 = u1
    u2 = u2
    Users = {u1, u2}
    RefreshJob = RefreshJob
    RecoveryJob = RecoveryJob
    NoReader = NoReader
    ValidFor = 3
    Grace = 1
    FailureBackoff = 2
    RateBackoff = 1
    UpgradeRetry = 2
    FirstCheck = 1
    Missing = Missing
    LastCheck = 5
    ScreenCoins = {btc, eth}
    FreeCoin = btc
    NoUpdate = NoUpdate
    b1 = b1
    b2 = b2
    Bundles = {b1, b2}
    NoBundle = NoBundle
    AskedPeriods <- MCAskedPeriods
    FirstPeriod = 1
    LongestPeriod = 2
    MaxBundles = 2
    KeepFor = 0
    RecentRuns = 2
    LastHourOfOps = 2
    MaxMessages = 3
    MaxUpdates = 3
    LastVisit = 3
    WatchCoins = {btc, eth}
    FreeCoins = {btc}
    Links = {l1, l2}
    NoLink = NoLink
    Overlap = 2
    NoisyAt = 2
    StrictCooldown = 2
    BucketHours = 2
    RowCaps = {1, 3}
    Worlds <- MCWorlds
    LogFiles = {f1, f2}
    StatusCoins = {btc, eth}
    Deliveries = {d1, d2}
SYMMETRY MCSymmetry
SPECIFICATION SpecServices
\* A call or a batch ends, and the clocks are bounded.
CHECK_DEADLOCK FALSE
INVARIANTS
    ServicesTyped
    RoomToPersist
    ClearIsEarned
    PageTruthful
PROPERTIES
    HourApart
    ReportsRefreshed
    ScreensKept
    BundlesHonest
    RegistrationKept
