SPECIFICATION MCSpec
CONSTANTS
    u1 = u1
    u2 = u2
    t1 = t1
    t2 = t2
    s1 = s1
    s2 = s2
    Users = {u1, u2}
    Targets = {t1, t2}
    Owner <- OwnerOf
    Site <- SiteOf
    Jobs <- FiveJobs
    Requests = {q1, q2}
    Setters = {c1}
    Schedulers = {s1, s2}
    MaxScans = 2
    TrialMax = 1
    Day = 1
    Interval = 3
    NoTarget = NoTarget
SYMMETRY RequestSymmetry
INVARIANTS
    AdmissionInv
    LimitsKeptAlone
PROPERTIES
    LoopIsWeekly
