SPECIFICATION Spec
CONSTANTS
    Proofs <- OneProof
    Checks = {c1}
    Schedulers = {s1}
    TTL = 7
    RenewWithin = 6
    Reminders = {2, 6}
    TickLen = 2
    Hour = 4
    Work = 0
    CheckCap = 1
    MaxMails = 3
    NoProof = NoProof
INVARIANTS
    EveryWarningSent
