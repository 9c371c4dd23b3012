\* Three callers race for the probe of a breaker; two logical calls share targets;
\* paid requests cross the turn of a month, attempts use up two days, news two hours.
CONSTANTS
    Callers = {c1, c2, c3}
    Threshold = 2
    Schedule <- MCSchedule
    ProbeTimeout = 3
    MinGap = 2
    Horizon = 3
    analysis = analysis
    render = render
    groq = groq
    openai = openai
    cloudflare = cloudflare
    Calls = {analysis, render}
    Kind <- MCKind
    Targets = {groq, openai, cloudflare}
    Chain <- MCChain
    Paid = {openai}
    Metered = {groq}
    last = last
    p1 = p1
    p2 = p2
    PaidCalls = {o1, o2, last}
    Processes = {p1, p2}
    ProcessOf <- MCProcessOf
    NoCall = NoCall
    Worst <- MCWorst
    Costs = {2, 3}
    Cap = 4
    LastMonth = 1
    r1 = r1
    r2 = r2
    r3 = r3
    btc = btc
    Attempts = {r1, r2, r3}
    Symbols = {btc}
    Other = Other
    Owner <- MCOwner
    Estimate <- MCEstimate
    TokenCosts = {2, 3}
    Day = 2
    Minute = 1
    DailyTokens = 4
    DailyRequests = 3
    MinuteRequests = 2
    MinuteTokens = 3
    SymbolShare = 2
    NoTime = NoTime
    LastTime = 2
    n1 = n1
    n2 = n2
    n3 = n3
    s1 = s1
    s2 = s2
    Ingestion = Ingestion
    report = report
    Articles = {n1, n2, n3}
    Noise = {n1}
    Stories = {s1, s2}
    StoryOf <- MCStoryOf
    Jobs = {Ingestion, report}
    Nobody = Nobody
    PerBatch = 2
    CallsPerBatch = 2
    CallsPerHour = 2
    Fresh = 1
    Misses = 1
    LastHour = 1
SPECIFICATION SpecLlm
\* Calls and batches end, and the clocks are bounded.
CHECK_DEADLOCK FALSE
INVARIANTS
    LlmTyped
    VerdictTruthful
    ProbeAccounted
    MonthWithinCap
    NeverUnderstated
    DayWithinLimit
PROPERTIES
    AttemptsRationed
    NotSkippedForever
    BehavesAsCircuit
    BreachStopsAdmission
    ShareKept
    NewsRationed
