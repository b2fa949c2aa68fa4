--------------------------- MODULE AccountsProofs ---------------------------
(***************************************************************************)
(* The account is safe whatever the number of accounts, browsers and       *)
(* requests in flight: AccountInv is an invariant of the specification.    *)
(***************************************************************************)
EXTENDS Accounts, TLAPS

\* The fields of an empty row and of an idle request.
LEMMA Blank ==
  /\ NoRow \in Rows /\ NoRow.email = NoEmail /\ ~NoRow.verified /\ NoRow.confirm = "none"
  /\ NoRow.reset = "none" /\ NoRow.change = "none" /\ NoRow.version = 0 /\ NoRow.entitled = "none"
  /\ Idle \in Reqs /\ Idle.at = "idle" /\ Idle.user = NoUser
  BY AccountsAssumption DEF NoRow, Rows, Links, Versions, Idle, Reqs, Stages

\* No account, no session, no request: the invariant holds at the start.
LEMMA InitAccounts == Init => AccountInv
  <1> SUFFICES ASSUME Init PROVE AccountInv
    OBVIOUS
  <1>2. TypeOK
    BY Blank DEF Init, TypeOK
  <1>3. SessionsCurrent /\ Untouched /\ RequestsKnown /\ Welcomed /\ Buried /\ PlanKept
    BY Blank, AccountsAssumption
    DEF Init, SessionsCurrent, Untouched, RequestsKnown, Welcomed, Buried, PlanKept
  <1> QED
    BY <1>2, <1>3 DEF AccountInv

ReqsTyped == /\ req \in [Requests -> Reqs]
             /\ \A q \in Requests : req[q].at # "idle" => req[q].user \in Users

\* What an action does to one row, to one browser and to one request.
Row(u, email, password, verified, confirm, reset, change, version, entitled) ==
    /\ \A v \in Users \ {u} : users'[v] = users[v]
    /\ users'[u].email = email /\ users'[u].password = password /\ users'[u].verified = verified
    /\ users'[u].confirm = confirm /\ users'[u].reset = reset /\ users'[u].change = change
    /\ users'[u].version = version /\ users'[u].entitled = entitled
Cookie(b, u, v, k) ==
    \A c \in Browsers :
        \/ session'[c] = session[c]
        \/ c = b /\ session'[c] \in Sessions /\ session'[c].user = u /\ session'[c].version = v
                 /\ session'[c].key = k
Request(q, at, u) ==
    /\ \A r \in Requests \ {q} : req'[r] = req[r]
    /\ req'[q].at = at /\ req'[q].user = u

\* What the three moves of a request leave behind.
LEMMA StartType ==
  ASSUME TypeOK, NEW q \in Requests, NEW at \in Stages, NEW u \in Users, Start(q, at, u)
  PROVE  ReqsTyped' /\ Request(q, at, u)
  <1>1. [Idle EXCEPT !.at = at, !.user = u] \in Reqs
    BY Blank DEF Reqs
  <1>2. [Idle EXCEPT !.at = at, !.user = u].at = at /\ [Idle EXCEPT !.at = at, !.user = u].user = u
    BY Blank DEF Reqs
  <1> QED
    BY <1>1, <1>2 DEF TypeOK, Start, ReqsTyped, Request

\* A request that goes on to its next statement is still a request.
LEMMA GoType ==
  ASSUME TypeOK, NEW q \in Requests, NEW at \in Stages, Go(q, at), req[q].at # "idle"
  PROVE  ReqsTyped' /\ Request(q, at, req[q].user)
  BY DEF TypeOK, Go, Reqs, ReqsTyped, Request

\* A request that is answered is idle again, and nothing else about requests changes.
LEMMA FinishType ==
  ASSUME TypeOK, NEW q \in Requests, Finish(q)
  PROVE  ReqsTyped' /\ Request(q, "idle", NoUser)
  BY Blank DEF TypeOK, Finish, ReqsTyped, Request

\* A cookie that arrives, or does not.
LEMMA SignInType ==
  ASSUME TypeOK, NEW b \in Browsers, NEW u \in Users, NEW v \in Versions,
         NEW k \in Passwords \union {"link"}, SignIn(b, u, v, k)
  PROVE  session' \in [Browsers -> Sessions \union {NoSession}] /\ Cookie(b, u, v, k)
  BY DEF TypeOK, SignIn, Sessions, Cookie

\* A row that is written.
LEMMA RowType ==
  ASSUME TypeOK, NEW u \in Users, NEW r \in Rows, users' = [users EXCEPT ![u] = r]
  PROVE  /\ users' \in [Users -> Rows]
         /\ Row(u, r.email, r.password, r.verified, r.confirm, r.reset, r.change, r.version, r.entitled)
  BY DEF TypeOK, Row

\* A new account is one that nothing refers to.
LEMMA SignUpKeeps ==
  ASSUME AccountInv, NEW q \in Requests, NEW u \in Users, NEW e \in Emails, NEW p \in Passwords,
         SignUp(q, u, e, p)
  PROVE  AccountInv'
  <1> DEFINE new == [NoRow EXCEPT !.email = e, !.password = p, !.confirm = "new"]
  <1>1. new \in Rows
    BY Blank DEF Rows, Links
  <1>2. /\ new.email = e /\ new.password = p /\ new.verified = FALSE /\ new.confirm = "new"
        /\ new.reset = "none" /\ new.change = "none" /\ new.version = 0 /\ new.entitled = "none"
    BY Blank DEF Rows
  <1> HIDE DEF new
  <1>3. users' = [users EXCEPT ![u] = new] /\ UNCHANGED <<session, paying, due, gone, welcomes, overlap>>
    BY DEF SignUp, new, history
  <1>4. users' \in [Users -> Rows] /\ Row(u, e, p, FALSE, "new", "none", "none", 0, "none")
    BY <1>1, <1>2, <1>3, RowType DEF AccountInv
  <1>5. ReqsTyped' /\ Request(q, "entitling", u)
    BY StartType DEF SignUp, Stages, AccountInv
  <1>6. TypeOK' /\ TypeOK /\ u # NoUser /\ e # NoEmail
    BY <1>3, <1>4, <1>5, AccountsAssumption DEF TypeOK, ReqsTyped, AccountInv
  <1>7. Untouched /\ ~Exists(u)
    BY DEF AccountInv, SignUp
  <1>8. SessionsCurrent'
    BY <1>3, <1>4, <1>6, <1>7 DEF AccountInv, SessionsCurrent, Untouched, Row, Accepted, TypeOK, Sessions
  <1>9. Untouched'
    BY <1>3, <1>4, <1>5, <1>6, <1>7 DEF Untouched, Row, Exists, Request
  <1>10. RequestsKnown'
    BY <1>3, <1>4, <1>5, <1>6, <1>7 DEF AccountInv, RequestsKnown, Untouched, Row, Request
  <1>11. Welcomed'
    BY <1>3, <1>4, <1>6, <1>7 DEF AccountInv, Welcomed, Untouched, Row, TypeOK
  <1>12. Buried'
    BY <1>3, <1>4, <1>5, <1>6, <1>7 DEF AccountInv, Buried, Untouched, Row, Request, TypeOK
  <1>13. PlanKept'
    BY <1>3, <1>4, <1>5, <1>6, <1>7 DEF AccountInv, PlanKept, Deleting, Untouched, Row, Request, TypeOK
  <1> QED
    BY <1>6, <1>8, <1>9, <1>10, <1>11, <1>12, <1>13 DEF AccountInv

\* A request that reads, decides or ends.
LEMMA RequestKeeps ==
  ASSUME AccountInv, UNCHANGED <<users, session, paying, due, gone, welcomes, overlap>>, ReqsTyped',
         NEW q \in Requests, NEW at, NEW u, Request(q, at, u),
         \/ at = "idle" /\ u = NoUser
         \/ at # "idle" /\ u \in Users /\ Exists(u),
         at \in {"password", "rewriting"} => users[u].verified \/ u \in gone,
         u \in gone /\ {<<u, "link">>, <<u, "request">>} \intersect overlap = {} => at = "clearing",
         at \in {"emptying", "clearing"} /\ u \in paying \ due => <<u, "payment">> \in overlap
  PROVE  AccountInv'
  <1>1. TypeOK'
    BY DEF AccountInv, TypeOK, ReqsTyped
  <1>2. SessionsCurrent' /\ Welcomed'
    BY DEF AccountInv, SessionsCurrent, Accepted, Welcomed
  <1>3. Untouched'
    BY AccountsAssumption DEF AccountInv, Untouched, Exists, Request
  <1>4. RequestsKnown'
    BY DEF AccountInv, RequestsKnown, Request
  <1>5. Buried'
    BY AccountsAssumption DEF AccountInv, TypeOK, Buried, Request
  <1>6. PlanKept'
    BY AccountsAssumption DEF AccountInv, TypeOK, PlanKept, Deleting, Request
  <1> QED
    BY <1>1, <1>2, <1>3, <1>4, <1>5, <1>6 DEF AccountInv

\* The account of a request is there; only its deletion goes on once it is buried.
LEMMA RequestOf ==
  ASSUME AccountInv, NEW q \in Requests, req[q].at # "idle"
  PROVE  LET u == req[q].user IN
         /\ u \in Users /\ u # NoUser /\ Exists(u) /\ req[q] \in Reqs /\ users[u] \in Rows
         /\ u \in gone /\ {<<u, "link">>, <<u, "request">>} \intersect overlap = {}
               => req[q].at = "clearing"
  BY AccountsAssumption DEF AccountInv, TypeOK, Untouched, Buried

\* Reading for a link, and the requests of somebody who is signed in.
LEMMA ReadKeeps ==
  ASSUME AccountInv, NEW q \in Requests, NEW u \in Users, ResendRead(q, u) \/ ForgotRead(q, u)
  PROVE  AccountInv'
  <1>1. UNCHANGED <<users, session, paying, due, gone, welcomes, overlap>>
    BY DEF ResendRead, ForgotRead, history
  <1>2. PICK at \in {"resending", "forgetting"} : Start(q, at, u)
    BY DEF ResendRead, ForgotRead
  <1>3. ReqsTyped' /\ Request(q, at, u)
    BY <1>2, StartType DEF AccountInv, Stages
  <1>4. Exists(u) /\ users[u].email # Placeholder
    BY AccountsAssumption DEF ResendRead, ForgotRead, Addressed, Exists
  <1> QED
    BY <1>1, <1>2, <1>3, <1>4, RequestKeeps DEF AccountInv, Buried

\* A signed-in request acts for the account of a session that is good when it begins.
LEMMA AuthenticateKeeps ==
  ASSUME AccountInv, NEW q \in Requests, NEW b \in Browsers, NEW at \in {"password", "address", "erasing"},
         Authenticate(q, b, at)
  PROVE  AccountInv'
  <1> DEFINE u == session[b].user
  <1>1. UNCHANGED <<users, session, paying, due, gone, welcomes, overlap>> /\ Start(q, at, u)
    BY DEF Authenticate, history
  <1>2. session[b] \in Sessions /\ u \in Users /\ session[b] # NoSession /\ Accepted(b)
    BY DEF Authenticate, Accepted, AccountInv, TypeOK, Sessions
  <1>3. ReqsTyped' /\ Request(q, at, u)
    BY <1>1, <1>2, StartType DEF AccountInv, Stages
  <1>4. Exists(u) /\ (users[u].verified \/ u \in gone)
    BY <1>2 DEF AccountInv, Untouched, SessionsCurrent
  <1>5. u \in gone => {<<u, "link">>, <<u, "request">>} \intersect overlap # {}
    BY <1>2 DEF AccountInv, TypeOK, Buried, Accepted, Sessions, Versions, Rows
  <1> QED
    BY <1>1, <1>2, <1>3, <1>4, <1>5, RequestKeeps

\* The password is checked, the address looked up, the subscription asked about.
LEMMA CheckKeeps ==
  ASSUME AccountInv, NEW q \in Requests, CheckPassword(q) \/ CheckTaken(q) \/ CheckBilling(q) \/ Drop(q)
  PROVE  AccountInv'
  <1> DEFINE u == req[q].user
  <1>1. UNCHANGED <<users, session, paying, due, gone, welcomes, overlap>>
    BY DEF CheckPassword, CheckTaken, CheckBilling, Drop, history
  <1>2. req[q].at # "idle" /\ TypeOK
    BY DEF CheckPassword, CheckTaken, CheckBilling, Drop, AccountInv
  <1>3. /\ u \in Users /\ u # NoUser /\ Exists(u) /\ req[q] \in Reqs /\ users[u] \in Rows
        /\ u \in gone /\ {<<u, "link">>, <<u, "request">>} \intersect overlap = {}
              => req[q].at = "clearing"
    BY <1>2, RequestOf
  <1>4. CASE Finish(q)
    BY <1>1, <1>2, <1>4, FinishType, RequestKeeps, AccountsAssumption DEF TypeOK
  <1>5. CASE CheckPassword(q)
    <2>1. PICK at \in {"rewriting", "looking", "billing"} :
             /\ ReqsTyped' /\ Request(q, at, u)
             /\ at = "rewriting" => req[q].at = "password"
      <3>1. CASE req[q].at = "password"
                 /\ req' = [req EXCEPT ![q].at = "rewriting", ![q].key = users[u].password]
        <4> DEFINE new == [req[q] EXCEPT !.at = "rewriting", !.key = users[u].password]
        <4>1. new \in Reqs /\ new.at = "rewriting" /\ new.user = u
          BY <1>3 DEF Reqs, Stages, Rows
        <4>2. req' = [req EXCEPT ![q] = new]
          BY <3>1
        <4> HIDE DEF new
        <4>3. ReqsTyped' /\ Request(q, "rewriting", u)
          BY <1>2, <1>3, <4>1, <4>2 DEF ReqsTyped, TypeOK, Request
        <4> QED
          BY <3>1, <4>3
      <3>2. CASE req[q].at = "address"
                 /\ \E e \in Emails \ {users[u].email} :
                       req' = [req EXCEPT ![q].at = "looking", ![q].email = e]
        <4>0. PICK e \in Emails : req' = [req EXCEPT ![q].at = "looking", ![q].email = e]
          BY <3>2
        <4> DEFINE new == [req[q] EXCEPT !.at = "looking", !.email = e]
        <4>1. new \in Reqs /\ new.at = "looking" /\ new.user = u
          BY <1>3 DEF Reqs, Stages
        <4>2. req' = [req EXCEPT ![q] = new]
          BY <4>0
        <4> HIDE DEF new
        <4>3. ReqsTyped' /\ Request(q, "looking", u)
          BY <1>2, <1>3, <4>1, <4>2 DEF ReqsTyped, TypeOK, Request
        <4> QED
          BY <4>3
      <3>3. CASE Go(q, "billing")
        BY <1>2, <3>3, GoType DEF Stages
      <3> QED
        BY <1>5, <3>1, <3>2, <3>3 DEF CheckPassword
    <2>2. req[q].at # "clearing"
      BY <1>5 DEF CheckPassword
    <2> QED
      BY <1>1, <1>3, <2>1, <2>2, RequestKeeps DEF AccountInv, RequestsKnown
  <1>6. CASE CheckTaken(q) /\ Go(q, "moving")
    <2>1. ReqsTyped' /\ Request(q, "moving", u) /\ req[q].at # "clearing"
      BY <1>2, <1>6, GoType DEF Stages, CheckTaken
    <2> QED
      BY <1>1, <1>3, <2>1, RequestKeeps
  <1>7. CASE CheckBilling(q) /\ Go(q, "emptying") /\ users[u].entitled # "live"
    <2>1. ReqsTyped' /\ Request(q, "emptying", u) /\ req[q].at # "clearing"
      BY <1>2, <1>7, GoType DEF Stages, CheckBilling
    <2>2. u \in paying \ due => <<u, "payment">> \in overlap
      BY <1>7 DEF AccountInv, PlanKept
    <2> QED
      BY <1>1, <1>3, <2>1, <2>2, RequestKeeps
  <1> QED
    BY <1>4, <1>5, <1>6, <1>7 DEF CheckTaken, CheckBilling, Drop

\* Signing in with the password, and out.
LEMMA LoginKeeps ==
  ASSUME AccountInv, NEW b \in Browsers, NEW u \in Users, NEW p \in Passwords, Login(b, u, p)
  PROVE  AccountInv'
  <1>1. UNCHANGED <<users, req, paying, due, gone, welcomes, overlap>>
    BY DEF Login, history
  <1>2. users[u].version \in Versions /\ users[u].version \in Nat
    BY DEF AccountInv, TypeOK, Rows, Versions
  <1>3. session' \in [Browsers -> Sessions \union {NoSession}] /\ Cookie(b, u, users[u].version, p)
    BY <1>2, SignInType DEF Login, AccountInv
  <1>4. TypeOK'
    BY <1>1, <1>3 DEF AccountInv, TypeOK
  <1>5. SessionsCurrent'
    BY <1>1, <1>2, <1>3 DEF AccountInv, SessionsCurrent, Accepted, Cookie, Login
  <1>6. Exists(u) /\ users[u].email # Placeholder
    BY AccountsAssumption DEF Login, Addressed, Exists
  <1>7. Untouched'
    BY <1>1, <1>3, <1>6 DEF AccountInv, Untouched, Exists, Cookie
  <1>8. Buried'
    BY <1>1, <1>3, <1>6 DEF AccountInv, Buried, Cookie
  <1>9. RequestsKnown' /\ Welcomed' /\ PlanKept'
    BY <1>1 DEF AccountInv, RequestsKnown, Welcomed, PlanKept, Deleting
  <1> QED
    BY <1>4, <1>5, <1>7, <1>8, <1>9 DEF AccountInv

\* Signing out only takes a session away.
LEMMA LogoutKeeps ==
  ASSUME AccountInv, NEW b \in Browsers, Logout(b)
  PROVE  AccountInv'
  <1>1. UNCHANGED <<users, req, paying, due, gone, welcomes, overlap>>
    BY DEF Logout, history
  <1>2. \A c \in Browsers : session'[c] \in {session[c], NoSession}
    BY DEF AccountInv, TypeOK, Logout
  <1>3. TypeOK'
    BY <1>1 DEF AccountInv, TypeOK, Logout
  <1>4. SessionsCurrent'
    BY <1>1, <1>2 DEF AccountInv, SessionsCurrent, Accepted
  <1>5. Untouched' /\ Buried'
    BY <1>1, <1>2 DEF AccountInv, Untouched, Exists, Buried
  <1>6. RequestsKnown' /\ Welcomed' /\ PlanKept'
    BY <1>1 DEF AccountInv, RequestsKnown, Welcomed, PlanKept, Deleting
  <1> QED
    BY <1>3, <1>4, <1>5, <1>6 DEF AccountInv

\* A row of an account that is there is written, and the request may end.
LEMMA WriteKeeps ==
  ASSUME AccountInv, UNCHANGED <<session, gone, welcomes>>,
         NEW u \in Users, Exists(u), NEW r \in Rows, users' = [users EXCEPT ![u] = r],
         r.email # NoEmail,
         \/ r.version = users[u].version /\ r.password = users[u].password
         \/ r.version > users[u].version,
         r.verified = users[u].verified \/ r.verified,
         ReqsTyped',
         \A q \in Requests : req'[q] = req[q] \/ (req'[q].at = "idle" /\ req'[q].user = NoUser),
         overlap \subseteq overlap', overlap' \subseteq Overlaps,
         r.confirm = "none" \/ users[u].confirm # "none" \/ welcomes[u] = 0 \/ <<u, "resend">> \in overlap',
         u \in gone /\ {<<u, "link">>, <<u, "request">>} \intersect overlap = {}
            => /\ r.email = Placeholder /\ r.confirm = "none" /\ r.reset = "none" /\ r.change = "none"
               /\ r.version = users[u].version,
         paying' = paying, due' \in {due, due \ {u}},
         u \in paying' \ due' /\ <<u, "payment">> \notin overlap' => r.entitled = "live" /\ ~Deleting(u)
  PROVE  AccountInv'
  <1>0. /\ users' \in [Users -> Rows] /\ TypeOK
        /\ users'[u] = r /\ \A v \in Users \ {u} : users'[v] = users[v]
    BY DEF AccountInv, TypeOK
  <1>1. TypeOK'
    BY <1>0 DEF TypeOK, ReqsTyped
  <1>2. /\ r.version \in Nat /\ users[u].version \in Nat
        /\ \A b \in Browsers : session[b] # NoSession =>
              session[b].user \in Users /\ session[b].version \in Nat
    BY <1>0 DEF TypeOK, Rows, Versions, Sessions
  <1>3. SessionsCurrent'
    BY <1>0, <1>2 DEF AccountInv, SessionsCurrent, Accepted
  <1>4. Untouched'
    BY <1>0, AccountsAssumption DEF AccountInv, Untouched, Exists
  <1>5. RequestsKnown'
    BY <1>0, AccountsAssumption DEF AccountInv, RequestsKnown, TypeOK
  <1>6. Welcomed'
    <2>1. \A v \in Users : welcomes[v] \in Nat
      BY <1>0 DEF TypeOK
    <2> QED
      BY <1>0, <2>1 DEF AccountInv, Welcomed
  <1>7. Buried'
    <2>1. \A v \in gone : {<<v, "link">>, <<v, "request">>} \intersect overlap' = {}
                            => {<<v, "link">>, <<v, "request">>} \intersect overlap = {}
      OBVIOUS
    <2>2. \A v \in gone : v \in Users /\ v # NoUser
      BY <1>0, AccountsAssumption DEF TypeOK
    <2> QED
      BY <1>0, <1>2, <2>1, <2>2 DEF AccountInv, Buried
  <1>8. PlanKept'
    BY <1>0, AccountsAssumption DEF AccountInv, PlanKept, Deleting
  <1> QED
    BY <1>1, <1>3, <1>4, <1>5, <1>6, <1>7, <1>8 DEF AccountInv

\* The request has written and ends.
LEMMA EndOfRequest ==
  ASSUME AccountInv, NEW q \in Requests, Finish(q)
  PROVE  /\ ReqsTyped'
         /\ \A r \in Requests : req'[r] = req[r] \/ (req'[r].at = "idle" /\ req'[r].user = NoUser)
  <1>1. ReqsTyped' /\ Request(q, "idle", NoUser)
    BY FinishType DEF AccountInv
  <1> QED
    BY <1>1 DEF Request

\* Sign-up's second insert completes a row that exists, and touches no session.
LEMMA EntitleKeeps ==
  ASSUME AccountInv, NEW q \in Requests, Entitle(q)
  PROVE  AccountInv'
  <1> DEFINE u == req[q].user
             w == users[u]
             new == [w EXCEPT !.entitled = IF w.entitled = "none" THEN "free" ELSE w.entitled]
  <1>1. /\ u \in Users /\ Exists(u) /\ w \in Rows
        /\ u \in gone => {<<u, "link">>, <<u, "request">>} \intersect overlap # {}
    BY RequestOf DEF Entitle
  <1>2. /\ users' = [users EXCEPT ![u] = new] /\ Finish(q)
        /\ UNCHANGED <<session, paying, due, gone, welcomes, overlap>>
    BY DEF Entitle, history
  <1>3. /\ new \in Rows /\ new.email = w.email /\ new.version = w.version /\ new.password = w.password
        /\ new.verified = w.verified /\ new.confirm = w.confirm
        /\ w.entitled = "live" => new.entitled = "live"
    BY <1>1 DEF Rows
  <1>4. u \in paying \ due /\ <<u, "payment">> \notin overlap => w.entitled = "live" /\ ~Deleting(u)
    BY DEF AccountInv, PlanKept
  <1> HIDE DEF new, u
  <1>5. /\ ReqsTyped'
        /\ \A r \in Requests : req'[r] = req[r] \/ (req'[r].at = "idle" /\ req'[r].user = NoUser)
    BY <1>2, EndOfRequest
  <1>6. new.email # NoEmail /\ overlap \subseteq overlap' /\ overlap' \subseteq Overlaps
    BY <1>1, <1>2, <1>3 DEF Exists, AccountInv, TypeOK
  <1>7. u \in paying' \ due' /\ <<u, "payment">> \notin overlap' => new.entitled = "live" /\ ~Deleting(u)
    BY <1>2, <1>3, <1>4
  <1> QED
    BY <1>1, <1>2, <1>3, <1>5, <1>6, <1>7, WriteKeeps

\* A new reset link, and the new address waiting for its link.
LEMMA ForgotWriteKeeps ==
  ASSUME AccountInv, NEW q \in Requests, ForgotWrite(q)
  PROVE  AccountInv'
  <1> DEFINE u == req[q].user
             w == users[u]
             new == [w EXCEPT !.reset = "new"]
  <1>1. /\ u \in Users /\ Exists(u) /\ w \in Rows
        /\ u \in gone => {<<u, "link">>, <<u, "request">>} \intersect overlap # {}
    BY RequestOf DEF ForgotWrite
  <1>2. /\ users' = [users EXCEPT ![u] = new] /\ Finish(q)
        /\ UNCHANGED <<session, paying, due, gone, welcomes, overlap>>
    BY DEF ForgotWrite, history
  <1>3. /\ new \in Rows /\ new.email = w.email /\ new.version = w.version /\ new.password = w.password
        /\ new.verified = w.verified /\ new.confirm = w.confirm /\ new.entitled = w.entitled
    BY <1>1 DEF Rows, Links
  <1> HIDE DEF new, u
  <1>4. /\ ReqsTyped'
        /\ \A r \in Requests : req'[r] = req[r] \/ (req'[r].at = "idle" /\ req'[r].user = NoUser)
    BY <1>2, EndOfRequest
  <1>5. new.email # NoEmail /\ overlap \subseteq overlap' /\ overlap' \subseteq Overlaps
    BY <1>1, <1>2, <1>3 DEF Exists, AccountInv, TypeOK
  <1>6. u \in paying' \ due' /\ <<u, "payment">> \notin overlap' => new.entitled = "live" /\ ~Deleting(u)
    BY <1>2, <1>3 DEF AccountInv, PlanKept
  <1> QED
    BY <1>1, <1>2, <1>3, <1>4, <1>5, <1>6, WriteKeeps

\* A new address waits for its link; nothing about the sessions changes.
LEMMA ChangeEmailKeeps ==
  ASSUME AccountInv, NEW q \in Requests, ChangeEmail(q)
  PROVE  AccountInv'
  <1> DEFINE u == req[q].user
             w == users[u]
             new == [w EXCEPT !.pending = req[q].email, !.change = "live"]
  <1>1. /\ u \in Users /\ Exists(u) /\ w \in Rows /\ req[q] \in Reqs
        /\ u \in gone => {<<u, "link">>, <<u, "request">>} \intersect overlap # {}
    BY RequestOf DEF ChangeEmail
  <1>2. /\ users' = [users EXCEPT ![u] = new] /\ Finish(q)
        /\ UNCHANGED <<session, paying, due, gone, welcomes, overlap>>
    BY DEF ChangeEmail, history
  <1>3. /\ new \in Rows /\ new.email = w.email /\ new.version = w.version /\ new.password = w.password
        /\ new.verified = w.verified /\ new.confirm = w.confirm /\ new.entitled = w.entitled
    BY <1>1 DEF Rows, Reqs
  <1> HIDE DEF new, u
  <1>4. /\ ReqsTyped'
        /\ \A r \in Requests : req'[r] = req[r] \/ (req'[r].at = "idle" /\ req'[r].user = NoUser)
    BY <1>2, EndOfRequest
  <1>5. new.email # NoEmail /\ overlap \subseteq overlap' /\ overlap' \subseteq Overlaps
    BY <1>1, <1>2, <1>3 DEF Exists, AccountInv, TypeOK
  <1>6. u \in paying' \ due' /\ <<u, "payment">> \notin overlap' => new.entitled = "live" /\ ~Deleting(u)
    BY <1>2, <1>3 DEF AccountInv, PlanKept
  <1> QED
    BY <1>1, <1>2, <1>3, <1>4, <1>5, <1>6, WriteKeeps

\* The plan of an account that is being deleted is one nobody pays for.
LEMMA ClearKeeps ==
  ASSUME AccountInv, NEW q \in Requests, Clear(q)
  PROVE  AccountInv'
  <1> DEFINE u == req[q].user
             w == users[u]
             new == [w EXCEPT !.entitled = "none"]
  <1>1. u \in Users /\ Exists(u) /\ w \in Rows
    BY RequestOf DEF Clear
  <1>2. /\ users' = [users EXCEPT ![u] = new] /\ Finish(q)
        /\ UNCHANGED <<session, paying, due, gone, welcomes, overlap>>
    BY DEF Clear, history
  <1>3. /\ new \in Rows /\ new.email = w.email /\ new.version = w.version /\ new.password = w.password
        /\ new.verified = w.verified /\ new.confirm = w.confirm /\ new.reset = w.reset
        /\ new.change = w.change
    BY <1>1 DEF Rows
  <1>4. u \in gone /\ {<<u, "link">>, <<u, "request">>} \intersect overlap = {}
           => w.email = Placeholder /\ w.confirm = "none" /\ w.reset = "none" /\ w.change = "none"
    BY DEF AccountInv, Buried
  <1>5. Deleting(u)
    BY DEF Deleting, Clear
  <1> HIDE DEF new, u
  <1>6. /\ ReqsTyped'
        /\ \A r \in Requests : req'[r] = req[r] \/ (req'[r].at = "idle" /\ req'[r].user = NoUser)
    BY <1>2, EndOfRequest
  <1>7. new.email # NoEmail /\ overlap \subseteq overlap' /\ overlap' \subseteq Overlaps
    BY <1>1, <1>2, <1>3 DEF Exists, AccountInv, TypeOK
  <1>8. u \in paying' \ due' => <<u, "payment">> \in overlap'
    BY <1>2, <1>5 DEF AccountInv, PlanKept
  <1> QED
    BY <1>1, <1>2, <1>3, <1>4, <1>6, <1>7, <1>8, WriteKeeps

\* A new confirmation link: for an account that is not confirmed, or the overlap is noted.
LEMMA ResendWriteKeeps ==
  ASSUME AccountInv, NEW q \in Requests, ResendWrite(q)
  PROVE  AccountInv'
  <1> DEFINE u == req[q].user
             w == users[u]
             new == [w EXCEPT !.confirm = "new"]
  <1>1. /\ u \in Users /\ Exists(u) /\ w \in Rows
        /\ u \in gone => {<<u, "link">>, <<u, "request">>} \intersect overlap # {}
    BY RequestOf DEF ResendWrite
  <1>2. /\ users' = [users EXCEPT ![u] = new] /\ Finish(q)
        /\ UNCHANGED <<session, paying, due, gone, welcomes>>
        /\ overlap' = IF w.verified \/ u \in gone THEN overlap \union {<<u, "resend">>} ELSE overlap
    BY DEF ResendWrite
  <1>3. /\ new \in Rows /\ new.email = w.email /\ new.version = w.version /\ new.password = w.password
        /\ new.verified = w.verified /\ new.entitled = w.entitled
    BY <1>1 DEF Rows, Links
  <1> HIDE DEF new, u
  <1>4. /\ ReqsTyped'
        /\ \A r \in Requests : req'[r] = req[r] \/ (req'[r].at = "idle" /\ req'[r].user = NoUser)
    BY <1>2, EndOfRequest
  <1>5. new.email # NoEmail /\ overlap \subseteq overlap' /\ overlap' \subseteq Overlaps
    BY <1>1, <1>2, <1>3 DEF Exists, AccountInv, TypeOK, Overlaps
  <1>6. u \in paying' \ due' /\ <<u, "payment">> \notin overlap' => new.entitled = "live" /\ ~Deleting(u)
    BY <1>2, <1>3 DEF AccountInv, PlanKept
  <1>7. welcomes[u] = 0 \/ <<u, "resend">> \in overlap'
    BY <1>1, <1>2 DEF AccountInv, Welcomed, TypeOK
  <1> QED
    BY <1>1, <1>2, <1>3, <1>4, <1>5, <1>6, <1>7, WriteKeeps

\* A link that still works belongs to an account that is there and not buried.
LEMMA LinkOf ==
  ASSUME AccountInv, NEW u \in Users,
         Valid(users[u].confirm) \/ Valid(users[u].reset) \/ Valid(users[u].change)
  PROVE  /\ Exists(u) /\ users[u] \in Rows
         /\ u \in gone => {<<u, "link">>, <<u, "request">>} \intersect overlap # {}
  BY Blank DEF AccountInv, TypeOK, Untouched, Buried, Valid

\* Time closes a link and opens none.
LEMMA AgeKeeps ==
  ASSUME AccountInv, NEW u \in Users, Age(u)
  PROVE  AccountInv'
  <1> DEFINE w == users[u]
  <1>1. /\ Exists(u) /\ w \in Rows
        /\ u \in gone => {<<u, "link">>, <<u, "request">>} \intersect overlap # {}
    BY LinkOf DEF Age
  <1>2. UNCHANGED <<session, req, paying, due, gone, welcomes, overlap>>
    BY DEF Age, history
  <1>3. PICK new \in Rows :
           /\ users' = [users EXCEPT ![u] = new]
           /\ new.email = w.email /\ new.version = w.version /\ new.password = w.password
           /\ new.verified = w.verified /\ new.entitled = w.entitled
           /\ new.confirm = w.confirm \/ w.confirm # "none"
    <2>1. CASE Valid(w.confirm) /\ users' = [users EXCEPT ![u].confirm = Older(@)]
      <3> DEFINE new == [w EXCEPT !.confirm = Older(w.confirm)]
      <3>1. /\ new \in Rows
            /\ new.email = w.email /\ new.version = w.version /\ new.password = w.password
            /\ new.verified = w.verified /\ new.entitled = w.entitled
        BY <1>1 DEF Rows, Older, Links
      <3>2. users' = [users EXCEPT ![u] = new]
        BY <2>1
      <3> HIDE DEF new
      <3> QED
        BY <2>1, <3>1, <3>2 DEF Valid
    <2>2. CASE Valid(w.reset) /\ users' = [users EXCEPT ![u].reset = Older(@)]
      <3> DEFINE new == [w EXCEPT !.reset = Older(w.reset)]
      <3>1. /\ new \in Rows
            /\ new.email = w.email /\ new.version = w.version /\ new.password = w.password
            /\ new.verified = w.verified /\ new.entitled = w.entitled /\ new.confirm = w.confirm
        BY <1>1 DEF Rows, Older, Links
      <3>2. users' = [users EXCEPT ![u] = new]
        BY <2>2
      <3> HIDE DEF new
      <3> QED
        BY <3>1, <3>2
    <2>3. CASE Valid(w.change) /\ users' = [users EXCEPT ![u].change = Older(@)]
      <3> DEFINE new == [w EXCEPT !.change = Older(w.change)]
      <3>1. /\ new \in Rows
            /\ new.email = w.email /\ new.version = w.version /\ new.password = w.password
            /\ new.verified = w.verified /\ new.entitled = w.entitled /\ new.confirm = w.confirm
        BY <1>1, <2>3 DEF Rows, Older, Valid
      <3>2. users' = [users EXCEPT ![u] = new]
        BY <2>3
      <3> HIDE DEF new
      <3> QED
        BY <3>1, <3>2
    <2> QED
      BY <2>1, <2>2, <2>3 DEF Age
  <1>4. /\ ReqsTyped' /\ new.email # NoEmail
        /\ overlap \subseteq overlap' /\ overlap' \subseteq Overlaps
    BY <1>1, <1>2, <1>3 DEF Exists, AccountInv, TypeOK, ReqsTyped
  <1>5. u \in paying' \ due' /\ <<u, "payment">> \notin overlap' => new.entitled = "live" /\ ~Deleting(u)
    BY <1>2, <1>3 DEF AccountInv, PlanKept
  <1> QED
    BY <1>1, <1>2, <1>3, <1>4, <1>5, WriteKeeps

\* A new address that is free, and everybody signed out.
LEMMA ConfirmEmailChangeKeeps ==
  ASSUME AccountInv, NEW u \in Users, ConfirmEmailChange(u)
  PROVE  AccountInv'
  <1> DEFINE w == users[u]
             new == [w EXCEPT !.email = w.pending, !.pending = NoEmail, !.change = "none",
                              !.verified = TRUE, !.version = w.version + 1]
  <1>1. /\ Exists(u) /\ w \in Rows
        /\ u \in gone => {<<u, "link">>, <<u, "request">>} \intersect overlap # {}
    BY LinkOf DEF ConfirmEmailChange
  <1>2. /\ UNCHANGED <<session, req, paying, due, gone, welcomes, overlap>>
        /\ users' = [users EXCEPT ![u] = new]
        /\ w.version < MaxVersion /\ w.pending # NoEmail
    BY DEF ConfirmEmailChange, history
  <1>3. w.version \in Nat /\ w.version + 1 \in Versions
    BY <1>1, <1>2, AccountsAssumption DEF Rows, Versions
  <1>4. /\ new \in Rows /\ new.email = w.pending /\ new.version = w.version + 1 /\ new.verified
        /\ new.confirm = w.confirm /\ new.entitled = w.entitled
    BY <1>1, <1>3 DEF Rows
  <1> HIDE DEF new
  <1>5. /\ ReqsTyped' /\ new.email # NoEmail /\ new.version > w.version
        /\ overlap \subseteq overlap' /\ overlap' \subseteq Overlaps
    BY <1>2, <1>3, <1>4 DEF AccountInv, TypeOK, ReqsTyped
  <1>6. u \in paying' \ due' /\ <<u, "payment">> \notin overlap' => new.entitled = "live" /\ ~Deleting(u)
    BY <1>2, <1>4 DEF AccountInv, PlanKept
  <1> QED
    BY <1>1, <1>2, <1>4, <1>5, <1>6, WriteKeeps

\* A payment, or the end of one, touches no row yet: its webhook is on its way.
LEMMA SubscribeKeeps ==
  ASSUME AccountInv, NEW u \in Payers, Subscribe(u) \/ SubscriptionEnds(u)
  PROVE  AccountInv'
  <1>1. /\ UNCHANGED <<users, session, req, gone, welcomes, overlap>>
        /\ paying' \in {paying \union {u}, paying \ {u}} /\ due' = due \union {u}
    BY DEF Subscribe, SubscriptionEnds, history
  <1>2. u \in Users /\ Exists(u)
    BY AccountsAssumption DEF AccountInv, TypeOK, Untouched, Subscribe, SubscriptionEnds
  <1>3. TypeOK'
    BY <1>1, <1>2 DEF AccountInv, TypeOK
  <1>4. Untouched'
    BY <1>1, <1>2 DEF AccountInv, Untouched, Exists
  <1>5. PlanKept'
    BY <1>1 DEF AccountInv, PlanKept, Deleting
  <1>6. SessionsCurrent' /\ RequestsKnown' /\ Welcomed' /\ Buried'
    BY <1>1 DEF AccountInv, SessionsCurrent, Accepted, RequestsKnown, Welcomed, Buried
  <1> QED
    BY <1>3, <1>4, <1>5, <1>6 DEF AccountInv

\* The webhook finds the row of entitlements, or is noted.
LEMMA DeliverKeeps ==
  ASSUME AccountInv, NEW u \in Payers, Deliver(u)
  PROVE  AccountInv'
  <1> DEFINE w == users[u]
             new == [w EXCEPT !.entitled = IF w.entitled = "none" THEN w.entitled
                                           ELSE IF u \in paying THEN "live" ELSE "free"]
  <1>1. u \in Users /\ w \in Rows /\ Exists(u)
    BY AccountsAssumption DEF AccountInv, TypeOK, Untouched, Deliver
  <1>2. /\ UNCHANGED <<session, req, paying, gone, welcomes>> /\ due' = due \ {u}
        /\ users' = [users EXCEPT ![u] = new]
        /\ overlap' = IF u \in paying /\ (w.entitled = "none" \/ Deleting(u))
                      THEN overlap \union {<<u, "payment">>} ELSE overlap
    BY DEF Deliver
  <1>3. ReqsTyped' /\ w.email # NoEmail
    BY <1>1, <1>2 DEF AccountInv, TypeOK, ReqsTyped, Exists
  <1>4. u \in gone /\ {<<u, "link">>, <<u, "request">>} \intersect overlap = {}
           => w.email = Placeholder /\ w.confirm = "none" /\ w.reset = "none" /\ w.change = "none"
    BY DEF AccountInv, Buried
  <1>5. /\ new \in Rows /\ new.email = w.email /\ new.version = w.version /\ new.password = w.password
        /\ new.verified = w.verified /\ new.confirm = w.confirm /\ new.reset = w.reset
        /\ new.change = w.change /\ (u \in paying /\ w.entitled # "none" => new.entitled = "live")
    BY <1>1 DEF Rows
  <1> HIDE DEF new
  <1>6. overlap \subseteq overlap' /\ overlap' \subseteq Overlaps
    BY <1>1, <1>2 DEF AccountInv, TypeOK, Overlaps
  <1>7. u \in paying' \ due' /\ <<u, "payment">> \notin overlap' => new.entitled = "live" /\ ~Deleting(u)
    BY <1>2, <1>5
  <1>8. w.confirm = "none" \/ welcomes[u] = 0 \/ <<u, "resend">> \in overlap'
    BY <1>1, <1>6 DEF AccountInv, Welcomed, TypeOK
  <1> QED
    BY <1>1, <1>2, <1>3, <1>4, <1>5, <1>6, <1>7, <1>8, WriteKeeps

\* A row is written and the browser signed in with its new version.
LEMMA SignInKeeps ==
  ASSUME AccountInv, UNCHANGED <<gone, paying, due, overlap>>,
         NEW u \in Users, Exists(u), NEW r \in Rows, users' = [users EXCEPT ![u] = r],
         r.email = users[u].email, r.entitled = users[u].entitled,
         \/ r.version = users[u].version /\ r.password = users[u].password
         \/ r.version > users[u].version,
         r.verified \/ u \in gone,
         NEW b \in Browsers, NEW k \in {r.password, "link"}, Cookie(b, u, r.version, k),
         session' \in [Browsers -> Sessions \union {NoSession}],
         u \in gone => {<<u, "link">>, <<u, "request">>} \intersect overlap # {},
         ReqsTyped',
         \A q \in Requests : req'[q] = req[q] \/ (req'[q].at = "idle" /\ req'[q].user = NoUser),
         welcomes' \in [Users -> 0 .. 2], \A v \in Users \ {u} : welcomes'[v] = welcomes[v],
         \/ welcomes'[u] = welcomes[u] /\ r.confirm = users[u].confirm
         \/ users[u].confirm # "none" /\ r.confirm = "none" /\ welcomes[u] < 2
               /\ welcomes'[u] = welcomes[u] + 1
         \/ <<u, "resend">> \in overlap
  PROVE  AccountInv'
  <1>0. /\ users' \in [Users -> Rows] /\ TypeOK
        /\ users'[u] = r /\ \A v \in Users \ {u} : users'[v] = users[v]
    BY DEF AccountInv, TypeOK
  <1>1. TypeOK'
    BY <1>0 DEF TypeOK, ReqsTyped
  <1>2. /\ r.version \in Nat /\ users[u].version \in Nat
        /\ \A c \in Browsers : session[c] # NoSession =>
              session[c].user \in Users /\ session[c].version \in Nat
    BY <1>0 DEF TypeOK, Rows, Versions, Sessions
  <1>3. SessionsCurrent'
    <2> SUFFICES ASSUME NEW c \in Browsers, session'[c] # NoSession
                 PROVE  /\ session'[c].version <= users'[session'[c].user].version
                        /\ session'[c].version = users'[session'[c].user].version
                              => /\ session'[c].key \in {users'[session'[c].user].password, "link"}
                                 /\ users'[session'[c].user].verified \/ session'[c].user \in gone'
      BY DEF SessionsCurrent, Accepted
    <2>1. CASE session'[c] = session[c]
      BY <1>0, <1>2, <2>1 DEF AccountInv, SessionsCurrent, Accepted
    <2>2. CASE session'[c] # session[c]
      BY <1>0, <1>2, <2>2 DEF Cookie
    <2> QED
      BY <2>1, <2>2
  <1>4. Untouched'
    BY <1>0, AccountsAssumption DEF AccountInv, Untouched, Exists, Cookie
  <1>5. RequestsKnown'
    BY <1>0, AccountsAssumption DEF AccountInv, RequestsKnown, TypeOK
  <1>6. Welcomed'
    <2>1. \A v \in Users : welcomes[v] \in Nat /\ welcomes'[v] \in Nat
      BY <1>0 DEF TypeOK
    <2> QED
      BY <1>0, <2>1 DEF AccountInv, Welcomed
  <1>7. Buried'
    <2>1. \A v \in gone : v \in Users /\ v # NoUser
      BY <1>0, AccountsAssumption DEF TypeOK
    <2> QED
      BY <1>0, <1>2, <2>1 DEF AccountInv, Buried, Cookie
  <1>8. PlanKept'
    BY <1>0, AccountsAssumption DEF AccountInv, PlanKept, Deleting, TypeOK
  <1> QED
    BY <1>1, <1>3, <1>4, <1>5, <1>6, <1>7, <1>8 DEF AccountInv

\* The confirmation link works once.
LEMMA VerifyEmailKeeps ==
  ASSUME AccountInv, NEW b \in Browsers, NEW u \in Users, VerifyEmail(b, u)
  PROVE  AccountInv'
  <1> DEFINE w == users[u]
             new == [w EXCEPT !.verified = TRUE, !.confirm = "none"]
  <1>1. /\ Exists(u) /\ w \in Rows
        /\ u \in gone => {<<u, "link">>, <<u, "request">>} \intersect overlap # {}
    BY LinkOf DEF VerifyEmail
  <1>2. /\ UNCHANGED <<req, paying, due, gone, overlap>>
        /\ users' = [users EXCEPT ![u] = new]
        /\ SignIn(b, u, w.version, "link") /\ w.confirm # "none"
        /\ welcomes' = [welcomes EXCEPT ![u] = IF welcomes[u] < 2 THEN welcomes[u] + 1 ELSE welcomes[u]]
    BY DEF VerifyEmail, Valid
  <1>3. /\ new \in Rows /\ new.email = w.email /\ new.version = w.version /\ new.verified
        /\ new.password = w.password /\ new.confirm = "none" /\ new.entitled = w.entitled
    BY <1>1 DEF Rows, Links
  <1> HIDE DEF new
  <1>4. session' \in [Browsers -> Sessions \union {NoSession}] /\ Cookie(b, u, new.version, "link")
    BY <1>1, <1>2, <1>3, SignInType DEF AccountInv, Rows
  <1>5. ReqsTyped'
    BY <1>2 DEF AccountInv, TypeOK, ReqsTyped
  <1>6. /\ welcomes' \in [Users -> 0 .. 2] /\ \A v \in Users \ {u} : welcomes'[v] = welcomes[v]
        /\ \/ welcomes[u] < 2 /\ welcomes'[u] = welcomes[u] + 1
           \/ <<u, "resend">> \in overlap
    BY <1>2 DEF AccountInv, TypeOK, Welcomed
  <1> QED
    BY <1>1, <1>2, <1>3, <1>4, <1>5, <1>6, SignInKeeps

\* A new password makes every session from before it void.
LEMMA ResetPasswordKeeps ==
  ASSUME AccountInv, NEW b \in Browsers, NEW u \in Users, NEW p \in Passwords, ResetPassword(b, u, p)
  PROVE  AccountInv'
  <1> DEFINE w == users[u]
             new == [w EXCEPT !.password = p, !.reset = "none", !.verified = TRUE,
                              !.version = w.version + 1]
  <1>1. /\ Exists(u) /\ w \in Rows
        /\ u \in gone => {<<u, "link">>, <<u, "request">>} \intersect overlap # {}
    BY LinkOf DEF ResetPassword
  <1>2. /\ UNCHANGED <<req, paying, due, gone, welcomes, overlap>>
        /\ users' = [users EXCEPT ![u] = new]
        /\ SignIn(b, u, w.version + 1, p) /\ w.version < MaxVersion
    BY DEF ResetPassword, history
  <1>3. w.version \in Nat /\ w.version + 1 \in Versions
    BY <1>1, <1>2, AccountsAssumption DEF Rows, Versions
  <1>4. /\ new \in Rows /\ new.email = w.email /\ new.version = w.version + 1 /\ new.verified
        /\ new.password = p /\ new.confirm = w.confirm /\ new.entitled = w.entitled
    BY <1>1, <1>3 DEF Rows, Links
  <1> HIDE DEF new
  <1>5. /\ session' \in [Browsers -> Sessions \union {NoSession}] /\ Cookie(b, u, new.version, p)
        /\ new.version > w.version
    BY <1>2, <1>3, <1>4, SignInType DEF AccountInv
  <1>6. ReqsTyped' /\ welcomes' \in [Users -> 0 .. 2]
    BY <1>2 DEF AccountInv, TypeOK, ReqsTyped
  <1> QED
    BY <1>1, <1>2, <1>4, <1>5, <1>6, SignInKeeps

\* A new password goes with a new version, which ends the sessions the old one opened.
LEMMA ChangePasswordKeeps ==
  ASSUME AccountInv, NEW b \in Browsers, NEW q \in Requests, NEW p \in Passwords, ChangePassword(b, q, p)
  PROVE  AccountInv'
  <1> DEFINE u == req[q].user
             w == users[u]
             new == [w EXCEPT !.password = p, !.reset = "none", !.version = w.version + 1]
  <1>1. /\ u \in Users /\ Exists(u) /\ w \in Rows
        /\ u \in gone => {<<u, "link">>, <<u, "request">>} \intersect overlap # {}
    BY RequestOf DEF ChangePassword
  <1>2. /\ UNCHANGED <<paying, due, gone, welcomes, overlap>>
        /\ users' = [users EXCEPT ![u] = new]
        /\ SignIn(b, u, w.version + 1, p) /\ w.version < MaxVersion /\ Finish(q)
    BY DEF ChangePassword, history
  <1>3. w.version \in Nat /\ w.version + 1 \in Versions
    BY <1>1, <1>2, AccountsAssumption DEF Rows, Versions
  <1>4. /\ new \in Rows /\ new.email = w.email /\ new.version = w.version + 1
        /\ new.verified = w.verified
        /\ new.password = p /\ new.confirm = w.confirm /\ new.entitled = w.entitled
    BY <1>1, <1>3 DEF Rows, Links
  <1>5. w.verified \/ u \in gone
    BY DEF AccountInv, RequestsKnown, ChangePassword
  <1> HIDE DEF new, u
  <1>6. /\ session' \in [Browsers -> Sessions \union {NoSession}] /\ Cookie(b, u, new.version, p)
        /\ new.version > w.version
    BY <1>1, <1>2, <1>3, <1>4, SignInType DEF AccountInv
  <1>7. /\ ReqsTyped'
        /\ \A r \in Requests : req'[r] = req[r] \/ (req'[r].at = "idle" /\ req'[r].user = NoUser)
    BY <1>2, EndOfRequest
  <1>8. welcomes' \in [Users -> 0 .. 2]
    BY <1>2 DEF AccountInv, TypeOK
  <1> QED
    BY <1>1, <1>2, <1>4, <1>5, <1>6, <1>7, <1>8, SignInKeeps

\* What a deletion finds open, and that it notes nothing else.
LEMMA LeftOpen ==
  ASSUME NEW q \in Requests, NEW u \in Users
  PROVE  /\ Left(q, u) \subseteq Overlaps
         /\ {<<u, "link">>, <<u, "request">>} \intersect Left(q, u) = {}
               => /\ users[u].reset = "none" /\ users[u].change = "none"
                  /\ \A r \in Requests \ {q} : req[r].user # u
         /\ \A v \in Users \ {u} : {<<v, "link">>, <<v, "request">>} \intersect Left(q, u) = {}
         /\ \A v \in Users : <<v, "resend">> \notin Left(q, u) /\ <<v, "payment">> \notin Left(q, u)
  <1>1. Left(q, u) \subseteq {<<u, "link">>, <<u, "request">>}
    BY DEF Left
  <1>2. /\ <<u, "link">> \notin Left(q, u) => ~Open(u)
        /\ <<u, "request">> \notin Left(q, u) => ~Busy(q, u)
    BY DEF Left
  <1>3. /\ ~Open(u) => users[u].reset = "none" /\ users[u].change = "none"
        /\ ~Busy(q, u) => \A r \in Requests \ {q} : req[r].user # u
    BY DEF Open, Busy, Valid
  <1>4. {<<u, "link">>, <<u, "request">>} \intersect Left(q, u) = {}
           => <<u, "link">> \notin Left(q, u) /\ <<u, "request">> \notin Left(q, u)
    OBVIOUS
  <1>5. Left(q, u) \subseteq Overlaps
    BY <1>1 DEF Overlaps
  <1>6. \A v \in Users : v # u => {<<v, "link">>, <<v, "request">>} \intersect Left(q, u) = {}
    BY <1>1
  <1>7. \A v \in Users : <<v, "resend">> \notin Left(q, u) /\ <<v, "payment">> \notin Left(q, u)
    BY <1>1
  <1> QED
    BY <1>2, <1>3, <1>4, <1>5, <1>6, <1>7

\* The account is emptied: what is left open is noted, and nothing else comes back.
LEMMA EmptyKeeps ==
  ASSUME AccountInv, NEW q \in Requests, Empty(q)
  PROVE  AccountInv'
  <1> DEFINE u == req[q].user
             w == users[u]
             bare == Emptied(w)
             new == [bare EXCEPT !.version = w.version + 1]
  <1>1. u \in Users /\ Exists(u) /\ w \in Rows /\ TypeOK
    BY RequestOf DEF Empty, AccountInv
  <1>2. /\ UNCHANGED <<session, paying, due, welcomes>>
        /\ users' = [users EXCEPT ![u] = new] /\ gone' = gone \union {u}
        /\ overlap' = overlap \union Left(q, u)
        /\ w.version < MaxVersion /\ Go(q, "clearing") /\ req[q].at = "emptying"
    BY DEF Empty
  <1>3. w.version \in Nat /\ w.version + 1 \in Versions
    BY <1>1, <1>2, AccountsAssumption DEF Rows, Versions
  <1>4. /\ bare \in Rows /\ bare.email = Placeholder /\ bare.confirm = "none"
        /\ bare.reset = w.reset /\ bare.change = w.change /\ bare.entitled = w.entitled
    BY <1>1 DEF Emptied, Rows, Links
  <1> HIDE DEF bare
  <1>5. /\ new \in Rows /\ new.email = Placeholder /\ new.confirm = "none" /\ new.version = w.version + 1
        /\ new.reset = w.reset /\ new.change = w.change /\ new.entitled = w.entitled
    BY <1>3, <1>4 DEF Rows
  <1>6. ReqsTyped' /\ Request(q, "clearing", u)
    BY <1>1, <1>2, GoType DEF Stages
  <1>7. Deleting(u)
    BY <1>2 DEF Deleting
  <1>8. /\ Left(q, u) \subseteq Overlaps
        /\ {<<u, "link">>, <<u, "request">>} \intersect Left(q, u) = {}
              => /\ w.reset = "none" /\ w.change = "none"
                 /\ \A r \in Requests \ {q} : req[r].user # u
        /\ \A v \in Users \ {u} : {<<v, "link">>, <<v, "request">>} \intersect Left(q, u) = {}
        /\ \A v \in Users : <<v, "resend">> \notin Left(q, u) /\ <<v, "payment">> \notin Left(q, u)
    BY <1>1, LeftOpen
  <1> HIDE DEF new, u
  <1>9. /\ users' \in [Users -> Rows]
        /\ users'[u] = new /\ \A v \in Users \ {u} : users'[v] = users[v]
    BY <1>1, <1>2, <1>5 DEF TypeOK
  <1>10. TypeOK'
    BY <1>1, <1>2, <1>6, <1>8, <1>9 DEF TypeOK, ReqsTyped
  <1>11. /\ \A c \in Browsers : session[c] # NoSession =>
              session[c].user \in Users /\ session[c].version \in Nat
         /\ \A v \in gone : v \in Users
    BY <1>1 DEF TypeOK, Sessions, Versions
  <1>12. SessionsCurrent'
    BY <1>2, <1>3, <1>5, <1>9, <1>11 DEF AccountInv, SessionsCurrent, Accepted
  <1>13. Untouched'
    BY <1>1, <1>2, <1>5, <1>6, <1>9, AccountsAssumption DEF AccountInv, Untouched, Exists, Request
  <1>14. RequestsKnown'
    BY <1>1, <1>2, <1>6, <1>9, AccountsAssumption DEF AccountInv, RequestsKnown, Request, TypeOK
  <1>15. Welcomed'
    BY <1>1, <1>2, <1>5, <1>8, <1>9 DEF AccountInv, Welcomed
  <1>16. Buried'
    <2> SUFFICES ASSUME NEW v \in gone',
                        {<<v, "link">>, <<v, "request">>} \intersect overlap' = {}
                 PROVE  /\ users'[v].email = Placeholder
                        /\ users'[v].confirm = "none" /\ users'[v].reset = "none" /\ users'[v].change = "none"
                        /\ \A b \in Browsers : session'[b] # NoSession /\ session'[b].user = v
                              => session'[b].version < users'[v].version
                        /\ \A r \in Requests : req'[r].user = v => req'[r].at = "clearing"
      BY DEF Buried
    <2>1. CASE v = u
      <3>1. w.reset = "none" /\ w.change = "none" /\ \A r \in Requests \ {q} : req[r].user # u
        BY <1>2, <1>8, <2>1
      <3>2. \A b \in Browsers : session[b] # NoSession /\ session[b].user = u
              => session[b].version <= w.version
        BY DEF AccountInv, SessionsCurrent
      <3> QED
        BY <1>2, <1>3, <1>5, <1>6, <1>9, <1>11, <2>1, <3>1, <3>2 DEF Request
    <2>2. CASE v # u
      <3>1. v \in gone /\ v \in Users /\ {<<v, "link">>, <<v, "request">>} \intersect overlap = {}
        BY <1>2, <1>11, <2>2
      <3> QED
        BY <1>2, <1>6, <1>9, <2>2, <3>1 DEF AccountInv, Buried, Request
    <2> QED
      BY <2>1, <2>2
  <1>17. PlanKept'
    BY <1>1, <1>2, <1>5, <1>6, <1>7, <1>8, <1>9 DEF AccountInv, PlanKept, Deleting, Request, TypeOK
  <1> QED
    BY <1>10, <1>12, <1>13, <1>14, <1>15, <1>16, <1>17 DEF AccountInv

\* Every step of every handler keeps the invariant.
LEMMA AccountsStep == AccountInv /\ [Next]_vars => AccountInv'
  <1> SUFFICES ASSUME AccountInv, [Next]_vars PROVE AccountInv'
    OBVIOUS
  <1>1. ASSUME NEW q \in Requests, NEW u \in Users, NEW e \in Emails, NEW p \in Passwords,
               SignUp(q, u, e, p)
        PROVE  AccountInv'
    BY <1>1, SignUpKeeps
  <1>2. ASSUME NEW q \in Requests, NEW u \in Users, ResendRead(q, u) \/ ForgotRead(q, u)
        PROVE  AccountInv'
    BY <1>2, ReadKeeps
  <1>3. ASSUME NEW q \in Requests, NEW b \in Browsers, NEW at \in {"password", "address", "erasing"},
               Authenticate(q, b, at)
        PROVE  AccountInv'
    BY <1>3, AuthenticateKeeps
  <1>4. ASSUME NEW q \in Requests, NEW b \in Browsers, NEW p \in Passwords, ChangePassword(b, q, p)
        PROVE  AccountInv'
    BY <1>4, ChangePasswordKeeps
  <1>5. ASSUME NEW q \in Requests,
               \/ Entitle(q) \/ ResendWrite(q) \/ ForgotWrite(q)
               \/ CheckPassword(q) \/ CheckTaken(q) \/ ChangeEmail(q)
               \/ CheckBilling(q) \/ Empty(q) \/ Clear(q) \/ Drop(q)
        PROVE  AccountInv'
    BY <1>5, EntitleKeeps, ResendWriteKeeps, ForgotWriteKeeps, CheckKeeps, ChangeEmailKeeps,
       EmptyKeeps, ClearKeeps
  <1>6. ASSUME NEW b \in Browsers, NEW u \in Users,
               VerifyEmail(b, u) \/ \E p \in Passwords : Login(b, u, p) \/ ResetPassword(b, u, p)
        PROVE  AccountInv'
    BY <1>6, VerifyEmailKeeps, LoginKeeps, ResetPasswordKeeps
  <1>7. ASSUME NEW u \in Users, ConfirmEmailChange(u) \/ Age(u)
        PROVE  AccountInv'
    BY <1>7, ConfirmEmailChangeKeeps, AgeKeeps
  <1>8. ASSUME NEW u \in Payers, Subscribe(u) \/ SubscriptionEnds(u) \/ Deliver(u)
        PROVE  AccountInv'
    BY <1>8, SubscribeKeeps, DeliverKeeps
  <1>9. ASSUME NEW b \in Browsers, Logout(b)
        PROVE  AccountInv'
    BY <1>9, LogoutKeeps
  <1>10. CASE UNCHANGED vars
    <2>1. UNCHANGED <<users, session, req, paying, due, gone, welcomes, overlap>>
      BY <1>10 DEF vars, history
    <2>2. TypeOK' /\ SessionsCurrent' /\ Untouched'
      BY <2>1 DEF AccountInv, TypeOK, SessionsCurrent, Accepted, Untouched, Exists
    <2>3. RequestsKnown' /\ Welcomed'
      BY <2>1 DEF AccountInv, RequestsKnown, Welcomed
    <2>4. Buried' /\ PlanKept'
      BY <2>1 DEF AccountInv, Buried, PlanKept, Deleting
    <2> QED
      BY <2>2, <2>3, <2>4 DEF AccountInv
  <1> QED
    BY <1>1, <1>2, <1>3, <1>4, <1>5, <1>6, <1>7, <1>8, <1>9, <1>10 DEF Next

\* Whatever the accounts, browsers and requests in flight: a session that is good was opened with
\* the password the account has now, and the other parts of AccountInv hold.
THEOREM AccountsSafe == Spec => []AccountInv
  BY InitAccounts, AccountsStep, PTL DEF Spec

\* verify_email welcomes an account once, but for a resend that straddles the confirmation.
THEOREM WelcomedOnce == Spec => []WelcomeOnce
  <1>1. AccountInv => WelcomeOnce
    BY DEF AccountInv, Welcomed, WelcomeOnce
  <1> QED
    BY <1>1, AccountsSafe, PTL

\* delete_account is final for an account that had no open link and no other request.
THEOREM DeletedForGood == Spec => []DeletedStaysDeleted
  <1>1. AccountInv => DeletedStaysDeleted
    <2> SUFFICES ASSUME AccountInv, NEW u \in gone,
                        {<<u, "link">>, <<u, "request">>} \intersect overlap = {}
                 PROVE  ~Addressed(u) /\ ~SignedIn(u)
      BY DEF DeletedStaysDeleted
    <2>1. ~Addressed(u)
      BY AccountsAssumption DEF AccountInv, Buried, Addressed
    <2>2. \A b \in Browsers : session[b] # NoSession =>
             /\ session[b].version \in Nat /\ users[session[b].user].version \in Nat
             /\ session[b].user = u => session[b].version < users[u].version
      BY DEF AccountInv, TypeOK, Sessions, Versions, Rows, Buried
    <2> QED
      BY <2>1, <2>2 DEF SignedIn, Accepted
  <1> QED
    BY <1>1, AccountsSafe, PTL

\* Who pays has the plan once the webhook is here, unless there was no row for it or a
\* deletion had looked before it came.
THEOREM PlanOfPayer == Spec => []PayerHasPlan
  <1>1. AccountInv => PayerHasPlan
    BY DEF AccountInv, PlanKept, PayerHasPlan
  <1> QED
    BY <1>1, AccountsSafe, PTL
=============================================================================
