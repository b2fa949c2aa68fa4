------------------------------ MODULE Accounts ------------------------------
(***************************************************************************)
(* Accounts and sessions (crates/api/src/routes/accounts.rs and auth.rs):  *)
(* signing up, confirming an address, signing in, recovering and changing  *)
(* a password, changing the address, deleting the account.                 *)
(*                                                                         *)
(* A session is a signed token that names an account and the version the   *)
(* account had; it is good while the account still has that version.  A    *)
(* link is a random token that is mailed, and its hash a column of the     *)
(* account: the link that the column holds is the only one of its kind     *)
(* that works, so a column says how old its link is, and "none" when there *)
(* is none or it has expired, which no statement tells apart.  Handlers    *)
(* that read before they write are requests in flight; the others are one  *)
(* statement.  Hashes, signatures, names, dates of birth and the form of   *)
(* what is typed are left out, and so are requests that change nothing (a  *)
(* taken address, a token that matches no row).                            *)
(***************************************************************************)
EXTENDS Naturals

CONSTANTS
    Users, Emails, Passwords,
    Payers,        \* accounts that may buy a plan
    Requests,      \* handlers in flight
    Browsers,
    MaxVersion,    \* bound on token_version
    NoUser, NoEmail, NoSession,
    Placeholder,   \* deleted-<id>@deleted.invalid, which nobody reads or types
    NoPassword     \* a hash of nobody's password

ASSUME AccountsAssumption ==
    /\ Payers \subseteq Users /\ NoUser \notin Users
    /\ {NoEmail, Placeholder} \intersect Emails = {} /\ NoEmail # Placeholder
    /\ NoPassword \notin Passwords /\ "link" \notin Passwords
    /\ MaxVersion \in Nat

VARIABLES
    users,     \* the table, NoEmail for an id that is not there
    session,   \* the cookie of each browser
    req,
    paying,    \* accounts with a live subscription at Stripe
    due,       \* accounts with a webhook about that on its way
    \* history
    gone,      \* accounts that were deleted
    welcomes,  \* welcome mails, up to 2
    overlap    \* what happened to an account between two statements of a handler

history == <<gone, welcomes, overlap>>
vars    == <<users, session, req, paying, due, history>>

Links    == {"none", "new", "live"}   \* new: within the cooldown
Versions == 0 .. MaxVersion
Rows ==
    [email : Emails \union {NoEmail, Placeholder}, password : Passwords \union {NoPassword},
     verified : BOOLEAN, confirm : Links, reset : Links, change : {"none", "live"},
     pending : Emails \union {NoEmail}, version : Versions,
     entitled : {"none", "free", "live"}]     \* the row of entitlements
Sessions == [user : Users, version : Versions, key : Passwords \union {"link"}]
Stages ==
    {"idle", "entitling", "resending", "forgetting", "password", "rewriting", "address", "looking",
     "moving", "erasing", "billing", "emptying", "clearing"}
Reqs == [at : Stages, user : Users \union {NoUser}, email : Emails \union {NoEmail},
         key : Passwords \union {NoPassword}]
Overlaps == Users \X {"resend", "link", "request", "payment"}

TypeOK ==
    /\ users \in [Users -> Rows]
    /\ session \in [Browsers -> Sessions \union {NoSession}]
    /\ req \in [Requests -> Reqs]
    /\ \A q \in Requests : req[q].at # "idle" => req[q].user \in Users
    /\ paying \subseteq Users /\ due \subseteq Users /\ gone \subseteq Users
    /\ welcomes \in [Users -> 0 .. 2]
    /\ overlap \subseteq Overlaps

NoRow == [email |-> NoEmail, password |-> NoPassword, verified |-> FALSE, confirm |-> "none",
          reset |-> "none", change |-> "none", pending |-> NoEmail, version |-> 0, entitled |-> "none"]
Idle  == [at |-> "idle", user |-> NoUser, email |-> NoEmail, key |-> NoPassword]

Init ==
    /\ users = [u \in Users |-> NoRow]
    /\ session = [b \in Browsers |-> NoSession]
    /\ req = [q \in Requests |-> Idle]
    /\ paying = {} /\ due = {} /\ gone = {} /\ overlap = {}
    /\ welcomes = [u \in Users |-> 0]
-----------------------------------------------------------------------------
(* Helpers *)

Exists(u)    == users[u].email # NoEmail
Valid(link)  == link # "none"
Taken(e)     == \E u \in Users : users[u].email = e

\* "where email = $1".
Addressed(u) == users[u].email \in Emails

\* AuthUser: the version is compared on every request.
Accepted(b) == session[b] # NoSession /\ session[b].version = users[session[b].user].version

\* issue_token, and the cookie that takes it to the browser, if the answer arrives.
SignIn(b, u, v, k) ==
    session' \in {session, [session EXCEPT ![b] = [user |-> u, version |-> v, key |-> k]]}

Start(q, at, u)  == req' = [req EXCEPT ![q] = [Idle EXCEPT !.at = at, !.user = u]]
Go(q, at)        == req' = [req EXCEPT ![q].at = at]
Finish(q)        == req' = [req EXCEPT ![q] = Idle]
-----------------------------------------------------------------------------
(* signup, verify_email, resend_verification *)

\* The insert, which a taken address turns into nothing.
SignUp(q, u, e, p) ==
    /\ req[q].at = "idle"
    /\ ~Exists(u) /\ ~Taken(e)
    /\ users' = [users EXCEPT ![u] = [NoRow EXCEPT !.email = e, !.password = p, !.confirm = "new"]]
    /\ Start(q, "entitling", u)
    /\ UNCHANGED <<session, paying, due, history>>

\* The second insert, and the mail.
Entitle(q) ==
    /\ req[q].at = "entitling"
    /\ users' = [users EXCEPT ![req[q].user].entitled = IF @ = "none" THEN "free" ELSE @]
    /\ Finish(q)
    /\ UNCHANGED <<session, paying, due, history>>

\* A plausible bug: the link stays in the row.
VerifyEmailAgain(b, u) ==
    /\ Valid(users[u].confirm)
    /\ users' = [users EXCEPT ![u].verified = TRUE]
    /\ welcomes' = [welcomes EXCEPT ![u] = IF @ < 2 THEN @ + 1 ELSE @]
    /\ SignIn(b, u, users[u].version, "link")
    /\ UNCHANGED <<req, paying, due, gone, overlap>>

\* The link is followed: confirmed, welcomed and signed in.
VerifyEmail(b, u) ==
    /\ Valid(users[u].confirm)
    /\ users' = [users EXCEPT ![u].verified = TRUE, ![u].confirm = "none"]
    /\ welcomes' = [welcomes EXCEPT ![u] = IF @ < 2 THEN @ + 1 ELSE @]
    /\ SignIn(b, u, users[u].version, "link")
    /\ UNCHANGED <<req, paying, due, gone, overlap>>

ResendRead(q, u) ==
    /\ req[q].at = "idle"
    /\ Addressed(u) /\ ~users[u].verified /\ users[u].confirm # "new"
    /\ Start(q, "resending", u)
    /\ UNCHANGED <<users, session, paying, due, history>>

ResendWrite(q) ==
    LET u == req[q].user IN
    /\ req[q].at = "resending"
    /\ users' = [users EXCEPT ![u].confirm = "new"]
    /\ overlap' = IF users[u].verified \/ u \in gone
                  THEN overlap \union {<<u, "resend">>} ELSE overlap
    /\ Finish(q)
    /\ UNCHANGED <<session, paying, due, gone, welcomes>>
-----------------------------------------------------------------------------
(* login, logout, forgot_password, reset_password *)

Login(b, u, p) ==
    /\ Addressed(u) /\ users[u].verified
    /\ users[u].password = p
    /\ SignIn(b, u, users[u].version, p)
    /\ UNCHANGED <<users, req, paying, due, history>>

\* The cookie is cleared, or its token expires.
Logout(b) ==
    /\ session[b] # NoSession
    /\ session' = [session EXCEPT ![b] = NoSession]
    /\ UNCHANGED <<users, req, paying, due, history>>

ForgotRead(q, u) ==
    /\ req[q].at = "idle"
    /\ Addressed(u) /\ users[u].reset # "new"
    /\ Start(q, "forgetting", u)
    /\ UNCHANGED <<users, session, paying, due, history>>

ForgotWrite(q) ==
    /\ req[q].at = "forgetting"
    /\ users' = [users EXCEPT ![req[q].user].reset = "new"]
    /\ Finish(q)
    /\ UNCHANGED <<session, paying, due, history>>

\* A plausible bug: the sessions from before the reset stay good.
ResetPasswordOnly(b, u, p) ==
    /\ Valid(users[u].reset)
    /\ users' = [users EXCEPT ![u].password = p, ![u].reset = "none", ![u].verified = TRUE]
    /\ SignIn(b, u, users[u].version, p)
    /\ UNCHANGED <<req, paying, due, history>>

ResetPassword(b, u, p) ==
    /\ Valid(users[u].reset) /\ users[u].version < MaxVersion
    /\ users' = [users EXCEPT ![u].password = p, ![u].reset = "none", ![u].verified = TRUE,
                               ![u].version = @ + 1]
    /\ SignIn(b, u, users[u].version + 1, p)
    /\ UNCHANGED <<req, paying, due, history>>
-----------------------------------------------------------------------------
(* Signed in: change_password, change_email, delete_account *)

\* The request's session is good when the handler begins.
Authenticate(q, b, at) ==
    /\ req[q].at = "idle"
    /\ Accepted(b)
    /\ Start(q, at, session[b].user)
    /\ UNCHANGED <<users, session, paying, due, history>>

\* The row is read and the password, typed once more, is the one it has.
CheckPassword(q) ==
    LET u == req[q].user IN
    /\ req[q].at \in {"password", "address", "erasing"} /\ users[u].password # NoPassword
    /\ \/ req[q].at = "password"
          /\ req' = [req EXCEPT ![q].at = "rewriting", ![q].key = users[u].password]
       \/ req[q].at = "address"
          /\ \E e \in Emails \ {users[u].email} :
                req' = [req EXCEPT ![q].at = "looking", ![q].email = e]
       \/ req[q].at = "erasing" /\ Go(q, "billing")
    /\ UNCHANGED <<users, session, paying, due, history>>

\* The update names the id and nothing of what was read.
ChangePassword(b, q, p) ==
    LET u == req[q].user IN
    /\ req[q].at = "rewriting" /\ p # req[q].key /\ users[u].version < MaxVersion
    /\ users' = [users EXCEPT ![u].password = p, ![u].reset = "none", ![u].version = @ + 1]
    /\ SignIn(b, u, users[u].version + 1, p)
    /\ Finish(q)
    /\ UNCHANGED <<paying, due, history>>

CheckTaken(q) ==
    /\ req[q].at = "looking"
    /\ IF Taken(req[q].email) THEN Finish(q) ELSE Go(q, "moving")
    /\ UNCHANGED <<users, session, paying, due, history>>

ChangeEmail(q) ==
    /\ req[q].at = "moving"
    /\ users' = [users EXCEPT ![req[q].user].pending = req[q].email, ![req[q].user].change = "live"]
    /\ Finish(q)
    /\ UNCHANGED <<session, paying, due, history>>

\* One statement: the address is still free, and everybody is signed out.
ConfirmEmailChange(u) ==
    /\ Valid(users[u].change) /\ users[u].version < MaxVersion
    /\ users[u].pending # NoEmail /\ ~Taken(users[u].pending)
    /\ users' = [users EXCEPT ![u].email = users[u].pending, ![u].pending = NoEmail,
                               ![u].change = "none", ![u].verified = TRUE, ![u].version = @ + 1]
    /\ UNCHANGED <<session, req, paying, due, history>>

\* A plausible bug: the subscription is not asked about.
CheckBillingNever(q) ==
    /\ req[q].at = "billing"
    /\ Go(q, "emptying")
    /\ UNCHANGED <<users, session, paying, due, history>>

\* A live subscription has to end first.
CheckBilling(q) ==
    /\ req[q].at = "billing"
    /\ IF users[req[q].user].entitled = "live" THEN Finish(q) ELSE Go(q, "emptying")
    /\ UNCHANGED <<users, session, paying, due, history>>

Open(u)       == Valid(users[u].reset) \/ Valid(users[u].change)
Busy(q, u)    == \E r \in Requests \ {q} : req[r].user = u
Left(q, u)    == (IF Open(u) THEN {<<u, "link">>} ELSE {})
                     \union (IF Busy(q, u) THEN {<<u, "request">>} ELSE {})
Emptied(row)  == [row EXCEPT !.email = Placeholder, !.password = NoPassword, !.verified = FALSE,
                             !.confirm = "none"]

\* A plausible bug: an emptied account keeps its sessions.
EmptySignedIn(q) ==
    LET u == req[q].user IN
    /\ req[q].at = "emptying"
    /\ users' = [users EXCEPT ![u] = Emptied(users[u])]
    /\ gone' = gone \union {u}
    /\ overlap' = overlap \union Left(q, u)
    /\ Go(q, "clearing")
    /\ UNCHANGED <<session, paying, due, welcomes>>

\* The personal fields are overwritten; reset, change and pending are not.
Empty(q) ==
    LET u == req[q].user IN
    /\ req[q].at = "emptying" /\ users[u].version < MaxVersion
    /\ users' = [users EXCEPT ![u] = [Emptied(users[u]) EXCEPT !.version = users[u].version + 1]]
    /\ gone' = gone \union {u}
    /\ overlap' = overlap \union Left(q, u)
    /\ Go(q, "clearing")
    /\ UNCHANGED <<session, paying, due, welcomes>>

\* The row of entitlements goes.
Clear(q) ==
    /\ req[q].at = "clearing"
    /\ users' = [users EXCEPT ![req[q].user].entitled = "none"]
    /\ Finish(q)
    /\ UNCHANGED <<session, paying, due, history>>

\* A refusal, a statement that fails, a process that dies: what is written stays.
Drop(q) ==
    /\ req[q].at # "idle"
    /\ Finish(q)
    /\ UNCHANGED <<users, session, paying, due, history>>
-----------------------------------------------------------------------------
(* Billing and the clock *)

\* Between a deletion's look at the subscription and its end.
Deleting(u) == \E q \in Requests : req[q].user = u /\ req[q].at \in {"emptying", "clearing"}

\* A checkout is paid, or the subscription ends; a webhook will say so.
Subscribe(u) ==
    /\ Exists(u) /\ u \notin paying
    /\ paying' = paying \union {u} /\ due' = due \union {u}
    /\ UNCHANGED <<users, session, req, history>>

SubscriptionEnds(u) ==
    /\ u \in paying
    /\ paying' = paying \ {u} /\ due' = due \union {u}
    /\ UNCHANGED <<users, session, req, history>>

\* The webhook: the row of entitlements, if there is one, gets what Stripe has (see
\* Subscriptions).
Deliver(u) ==
    /\ u \in due
    /\ due' = due \ {u}
    /\ users' = [users EXCEPT ![u].entitled =
                    IF @ = "none" THEN @ ELSE IF u \in paying THEN "live" ELSE "free"]
    /\ overlap' = IF u \in paying /\ (users[u].entitled = "none" \/ Deleting(u))
                  THEN overlap \union {<<u, "payment">>} ELSE overlap
    /\ UNCHANGED <<session, req, paying, gone, welcomes>>

Older(link) == IF link = "new" THEN "live" ELSE "none"

\* Time passes for one of the links.
Age(u) ==
    /\ \/ Valid(users[u].confirm) /\ users' = [users EXCEPT ![u].confirm = Older(@)]
       \/ Valid(users[u].reset) /\ users' = [users EXCEPT ![u].reset = Older(@)]
       \/ Valid(users[u].change) /\ users' = [users EXCEPT ![u].change = Older(@)]
    /\ UNCHANGED <<session, req, paying, due, history>>
-----------------------------------------------------------------------------
Next ==
    \/ \E q \in Requests, u \in Users, e \in Emails, p \in Passwords : SignUp(q, u, e, p)
    \/ \E q \in Requests, u \in Users : ResendRead(q, u) \/ ForgotRead(q, u)
    \/ \E q \in Requests, b \in Browsers, at \in {"password", "address", "erasing"} :
          Authenticate(q, b, at)
    \/ \E q \in Requests, b \in Browsers, p \in Passwords : ChangePassword(b, q, p)
    \/ \E q \in Requests : \/ Entitle(q) \/ ResendWrite(q) \/ ForgotWrite(q)
                           \/ CheckPassword(q) \/ CheckTaken(q) \/ ChangeEmail(q)
                           \/ CheckBilling(q) \/ Empty(q) \/ Clear(q) \/ Drop(q)
    \/ \E b \in Browsers, u \in Users : VerifyEmail(b, u)
    \/ \E b \in Browsers, u \in Users, p \in Passwords : Login(b, u, p) \/ ResetPassword(b, u, p)
    \/ \E u \in Users : ConfirmEmailChange(u) \/ Age(u)
    \/ \E u \in Payers : Subscribe(u) \/ SubscriptionEnds(u) \/ Deliver(u)
    \/ \E b \in Browsers : Logout(b)

Spec == Init /\ [][Next]_vars
-----------------------------------------------------------------------------
(* Properties *)

\* A session that is still good was opened with the password the account has now, or
\* by its confirmation link; and an account that is signed in is confirmed.
SessionsCurrent ==
    \A b \in Browsers :
        LET s == session[b] IN
        s # NoSession =>
            /\ s.version <= users[s.user].version
            /\ Accepted(b) => /\ s.key \in {users[s.user].password, "link"}
                              /\ users[s.user].verified \/ s.user \in gone

\* Nothing refers to an account before its row is there, and a request is idle or of one
\* account; whoever changes a password came in through an account that is confirmed.
Untouched ==
    \A u \in Users : ~Exists(u) =>
        /\ users[u] = NoRow /\ u \notin paying \union due \union gone /\ welcomes[u] = 0
        /\ \A b \in Browsers : session[b] # NoSession => session[b].user # u
        /\ \A q \in Requests : req[q].user # u
RequestsKnown ==
    \A q \in Requests :
        /\ req[q].at = "idle" => req[q].user = NoUser
        /\ req[q].at \in {"password", "rewriting"}
              => users[req[q].user].verified \/ req[q].user \in gone

\* Who was welcomed has no link to be welcomed by, and no resend would write one unseen.
Welcomed ==
    \A u \in Users : welcomes[u] > 0 /\ <<u, "resend">> \notin overlap =>
        /\ welcomes[u] = 1 /\ users[u].confirm = "none"
        /\ users[u].verified \/ u \in gone

\* What is left of an account that was deleted in peace: no link, no session that is good,
\* no request but the one that deletes it.
Buried ==
    \A u \in gone : {<<u, "link">>, <<u, "request">>} \intersect overlap = {} =>
        /\ users[u].email = Placeholder
        /\ users[u].confirm = "none" /\ users[u].reset = "none" /\ users[u].change = "none"
        /\ \A b \in Browsers :
              session[b] # NoSession /\ session[b].user = u => session[b].version < users[u].version
        /\ \A q \in Requests : req[q].user = u => req[q].at = "clearing"

\* A plan that is paid for and delivered, and whose deletion nobody has decided on.
PlanKept ==
    \A u \in paying \ due : <<u, "payment">> \notin overlap => users[u].entitled = "live" /\ ~Deleting(u)

\* The inductive invariant.
AccountInv == TypeOK /\ SessionsCurrent /\ Untouched /\ RequestsKnown /\ Welcomed /\ Buried /\ PlanKept

\* "Exactly once per account" (the welcome in verify_email), unless a resend read the
\* account before it was confirmed and wrote after.
WelcomeOnce == \A u \in Users : welcomes[u] = 2 => <<u, "resend">> \in overlap

SignedIn(u) == \E b \in Browsers : Accepted(b) /\ session[b].user = u

\* A deleted account has no session and no address again, unless it was deleted while a
\* link to it was open or another of its requests was under way.
DeletedStaysDeleted ==
    \A u \in gone :
        \/ {<<u, "link">>, <<u, "request">>} \intersect overlap # {}
        \/ ~Addressed(u) /\ ~SignedIn(u)

\* Who pays has the plan in the row once the webhook is here, unless there was no row
\* then, or a deletion had looked before it came.
PayerHasPlan ==
    \A u \in paying \ due : users[u].entitled = "live" \/ <<u, "payment">> \in overlap

\* "a subscription that, by this point, does not exist" (delete_account, before it deletes
\* the row of entitlements): nobody pays for an account that is being deleted.
ClearedUnpaid == \A q \in Requests : req[q].at = "clearing" => req[q].user \notin paying

\* "once the account cannot sign in" (delete_account).
DeletedCannotSignIn == \A u \in gone : ~SignedIn(u)
=============================================================================
