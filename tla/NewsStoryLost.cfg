\* Two articles tell one story, and nothing but the model can fail.
CONSTANTS
    n1 = n1
    n2 = n2
    s1 = s1
    Ingestion = Ingestion
    report = report
    Articles = {n1, n2}
    Noise = {}
    Stories = {s1}
    StoryOf <- MCStoryOf
    Jobs = {Ingestion, report}
    Nobody = Nobody
    PerBatch = 2
    CallsPerBatch = 2
    CallsPerHour = 2
    Fresh = 1
    Misses = 0
    LastHour = 1
SPECIFICATION SpecNews
CHECK_DEADLOCK FALSE
PROPERTIES
    FailureIsRecovered
