SPECIFICATION PartsSpec
CONSTANTS
    Findings <- MCFindings
    Titles <- MCTitles
    MaxOut = 4
    Clients = {c1}
    Limit = 2
    Window = 3
    Requests = {q1, q2}
    Recipients = {e1}
    Lifetime = 3
    Cooldown = 2
    Adders = {a1, a2}
    Domains = {d1, d2, d3, d4}
    Allowances = {1, 2}
    Failures = {f1, f2}
    Passes = {r1, r2}
    Half = 2
    Day = 4
    PassCap = 2
    NoFailure = NoFailure
    Viewers = {v1, v2}
    Ttl = 3
    Retry = 1
    ReadCap = 1
    StartsAt = 2
    EndsAt = 16
    Grace = 3
    Session = 10
    Skew = 1
    LastTick = 24
    Machines = {h1, h2}
    Configs = {g1, g2, g3, g4}
    MaxLost = 1
    NoConfig = NoConfig
INVARIANTS
    FoldKeeps
    ReportOrderStable
    ChangeIsNamed
    BurstBounded
    SlotsBounded
    FailureOnceUnlessSlow
    PricesFresh
    PromoCloses
    ConfigsBounded
PROPERTIES
    SitesBounded
\* A scan's output ends.
CHECK_DEADLOCK FALSE
