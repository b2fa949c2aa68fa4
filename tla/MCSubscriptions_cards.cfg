SPECIFICATION Spec
CONSTANTS
    u1 = u1
    u2 = u2
    s1 = s1
    s2 = s2
    k1 = k1
    k2 = k2
    Users <- TwoUsers
    Subs = {s1, s2}
    UserOf <- UserTwo
    Card <- OneCard
    Mailbox <- BoxTwo
    ThreeDay = {s1, s2}
    Returning = {}
    Disputable = {}
    Monitors = {}
    Handlers = {h1, h2}
    Changes = {k1}
    Strict = TRUE
    MaxFaults = 0
    NoSub = NoSub
    NoCustomer = NoCustomer
SYMMETRY AccountSymmetry
INVARIANTS
    OneTrialPerCard
\* Stripe runs out of changes, and customers out of checkouts.
CHECK_DEADLOCK FALSE
