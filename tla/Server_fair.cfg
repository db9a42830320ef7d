\* Three calls of one provider; two ingestions of one alert; two batches of two
\* event streams; two readers of one key of the cache.
CONSTANTS
    Calls = {c1, c2, c3}
    Threshold = 2
    OpenTicks = 2
    Retries = 1
    Runs = {r1, r2}
    MaxLevel = 3
    BadFrom = 2
    Hysteresis = 1
    Kinds = {{0, 1, 2, 3}, {2, 3}}
    Cooldown = 2
    MaxHidden = 1
    s1 = s1 s2 = s2
    Streams = {s1, s2}
    Workers = {w1, w2}
    Wanted <- Policies
    MaxEvents = 2
    Limit = 1
    Retention = 1
    NoCursor = NoCursor NoWorker = NoWorker
    Readers = {d1, d2}
    Ttl = 1
    StaleFor = 1
    NegativeTtl = 1
    MaxVersion = 2
    NoEntry = NoEntry
SPECIFICATION ServerSpec
INVARIANT OpenIffFailing MarkHasProbe OneActive ComesBackOvertaken
PROPERTY EveryCallEnds TriedAgain BadIsAlerted AlertsClear CatchesUp ServesCurrent
CHECK_DEADLOCK FALSE
