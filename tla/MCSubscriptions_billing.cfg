SPECIFICATION Spec
CONSTANTS
    u1 = u1
    u2 = u2
    s1 = s1
    s2 = s2
    k1 = k1
    k2 = k2
    Users <- OneUser
    Subs = {s1, s2}
    UserOf <- UserOne
    Card <- OneCard
    Mailbox <- BoxOne
    ThreeDay = {}
    Returning = {u1}
    Disputable = {s1}
    Monitors = {u1}
    Handlers = {h1, h2}
    Changes = {k1}
    Strict = FALSE
    MaxFaults = 1
    NoSub = NoSub
    NoCustomer = NoCustomer
SYMMETRY HandlerSymmetry
CONSTRAINT OneTrouble
INVARIANTS
    LockInv
    RowFollowsStripe
    OneLiveSubscription
    OneWelcome
    DisputesSettle
    EndedMeansNoSchedule
\* Stripe runs out of changes, and customers out of checkouts.
CHECK_DEADLOCK FALSE
