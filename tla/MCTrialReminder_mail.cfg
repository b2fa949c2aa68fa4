SPECIFICATION FairSpec
CONSTANTS
    Messages = {m1, m2}
    Chain <- MCChain
    Keyed = "resend"
    Workers = {w1, w2}
    Panels = {p1}
    Ends = {1, 2}
    Hour = 0
    Day = 1
    MaxTime = 1
    MaxChanges = 2
    MaxFaults = 1
    Nothing = Nothing
CHECK_DEADLOCK FALSE
INVARIANTS
    OneCopy
    FlagFollowsStripe
    RemindedOnce
PROPERTIES
    WorkerComesBack
