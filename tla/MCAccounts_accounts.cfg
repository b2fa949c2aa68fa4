SPECIFICATION Spec
CONSTANTS
    Users = {u1}
    Emails = {e1, e2}
    Passwords = {p1, p2}
    Payers = {u1}
    Requests = {q1, q2}
    Browsers = {b1}
    MaxVersion = 2
    NoUser = NoUser
    NoEmail = NoEmail
    Placeholder = Placeholder
    NoSession = NoSession
    NoPassword = NoPassword
SYMMETRY AccountSymmetry
INVARIANTS
    AccountInv
    WelcomeOnce
    DeletedStaysDeleted
    PayerHasPlan
