SPECIFICATION Spec
CONSTANTS
    Users = {u1}
    Emails = {e1, e2}
    Passwords = {p1, p2}
    Payers = {}
    Requests = {q1}
    Browsers = {b1}
    MaxVersion = 2
    NoUser = NoUser
    NoEmail = NoEmail
    Placeholder = Placeholder
    NoSession = NoSession
    NoPassword = NoPassword
INVARIANTS
    DeletedCannotSignIn
