SPECIFICATION Spec
CONSTANTS
    Proofs <- OneProof
    Checks = {c1, c2}
    Schedulers = {s1, s2}
    TTL = 13
    RenewWithin = 11
    Reminders = {2, 6}
    TickLen = 2
    Hour = 4
    Work = 1
    CheckCap = 2
    MaxMails = 6
    NoProof = NoProof
SYMMETRY WorkerSymmetry
INVARIANTS
    OwnershipInv
    KeptIfQuick
    
PROPERTIES
    NeverShortened
