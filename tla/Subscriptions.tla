--------------------------- MODULE Subscriptions ---------------------------
(***************************************************************************)
(* Checkout and the Stripe webhook (crates/api/src/routes/billing.rs, with *)
(* the rules of crates/api/src/billing.rs).  A subscription lives at       *)
(* Stripe; what the rest of the program knows of it is one row of          *)
(* entitlements per account, written by webhook handlers.  Stripe sends an *)
(* event after every change, in no order, and sends it again until it is   *)
(* answered.  A handler claims the event, takes the advisory lock of the   *)
(* event's customer, reads the subscription back from Stripe, compares it  *)
(* with the row, and writes; each of these is a statement or a request of  *)
(* its own, and the handler may fail between any two.                      *)
(*                                                                         *)
(* A member of Subs is one checkout: its session, then the subscription    *)
(* the session creates.  Its customer is the account's, when the checkout  *)
(* found one, or a new one, which is then named like the subscription.     *)
(* Amounts, dates, prices and the texts of mails are left out.             *)
(***************************************************************************)
EXTENDS Integers, FiniteSets

CONSTANTS
    Users, Subs,
    UserOf,       \* metadata.user_id and client_reference_id of a checkout
    Card,         \* the card's fingerprint
    Mailbox,      \* the normalised address of an account
    ThreeDay,     \* checkouts that ask for the three-day trial
    Returning,    \* accounts that had a subscription before, and so a customer
    Disputable,   \* subscriptions with a payment that may be disputed
    Monitors,     \* accounts that use schedules
    Handlers,     \* webhook deliveries in flight
    Changes,      \* ids of "updated" and invoice events: a bound on Stripe's changes
    Strict,       \* TRIAL_ENABLED
    MaxFaults,    \* bound on handlers that fail
    NoSub, NoCustomer

DisputeKinds == {"opened", "closed"}
NamedKinds   == {"checkout", "created", "deleted", "held", "released"} \union DisputeKinds

ASSUME SubsAssumption ==
    /\ UserOf \in [Subs -> Users] /\ DOMAIN Card = Subs /\ DOMAIN Mailbox = Users
    /\ ThreeDay \subseteq Subs /\ Disputable \subseteq Subs
    /\ Returning \subseteq Users /\ Monitors \subseteq Users
    /\ NoSub \notin Subs /\ NoCustomer \notin Subs \union Users
    /\ Users \intersect Subs = {}
    /\ Changes \intersect NamedKinds = {}
ASSUME SwitchAssumption == Strict \in BOOLEAN /\ MaxFaults \in Nat

Customers == Users \union Subs
Statuses  == {"none", "trialing", "active", "past_due", "canceled"}
Reasons   == {"none", "payment_failed", "disputed", "ended"}

Kinds == NamedKinds \union Changes

VARIABLES
    \* Stripe
    session,   \* "none", "asking" (start_checkout under way), "open", "complete"
    customer,  \* the session's, then the subscription's
    status,
    carded,    \* whether Stripe reports the card already
    charged,   \* latest_invoice is paid, with an amount
    dispute,   \* "none", "open", "won", "lost"
    mark,      \* metadata[DISPUTE_MARK], with collection paused
    event,     \* "unsent", "open" (not completed in stripe_events), "done"
    \* the database
    row,       \* entitlements, by account
    claim,     \* trial_claims: "none", "claimed" without a card, "carded"
    cadence,   \* the schedule of the account's target: "manual", "set", or "late" (see CadenceWrite)
    \* the handlers
    pc, sub, kind,
    seen,      \* the subscription as read back
    prev,      \* the row as read before the write
    outcome,   \* the dispute as read
    setting,   \* accounts with a set_cadence that has read a paid plan
    \* history
    faults,
    welcomes   \* welcomes since the row was last without a plan, up to 2

stripe  == <<session, customer, status, carded, charged, dispute, mark>>
db      == <<row, claim, cadence>>
handler == <<pc, sub, kind, seen, prev, outcome>>
history == <<faults, welcomes>>
vars    == <<stripe, event, db, handler, setting, history>>

Rows == [customer : Customers \union {NoCustomer}, sub : Subs \union {NoSub}, status : Statuses,
         plan : BOOLEAN, reason : Reasons, mailed : Subs \union {NoSub}]
Copies == [status : Statuses, carded : BOOLEAN, charged : BOOLEAN, mark : BOOLEAN]

\* The stages in which a handler holds its customer's lock.
Locked == {"disputing", "judging", "settling", "fetching", "reading", "doubting", "claiming",
           "cancelling", "writing", "mailing", "switching"}

TypeOK ==
    /\ session \in [Subs -> {"none", "asking", "open", "complete"}]
    /\ customer \in [Subs -> Customers \union {NoCustomer}]
    /\ status \in [Subs -> Statuses]
    /\ carded \in [Subs -> BOOLEAN] /\ charged \in [Subs -> BOOLEAN]
    /\ dispute \in [Subs -> {"none", "open", "won", "lost"}]
    /\ mark \in [Subs -> BOOLEAN]
    /\ event \in [Subs -> [Kinds -> {"unsent", "open", "done"}]]
    /\ row \in [Users -> Rows]
    /\ claim \in [Subs -> {"none", "claimed", "carded"}]
    /\ cadence \in [Users -> {"manual", "set", "late"}]
    /\ setting \subseteq Users
    /\ pc \in [Handlers -> Locked \union {"idle", "received", "completing"}]
    /\ sub \in [Handlers -> Subs \union {NoSub}]
    /\ kind \in [Handlers -> Kinds]
    /\ seen \in [Handlers -> Copies]
    /\ prev \in [Handlers -> Rows]
    /\ outcome \in [Handlers -> {"none", "open", "won", "lost"}]
    /\ faults \in 0 .. MaxFaults
    /\ welcomes \in [Users -> 0 .. 2]

NoCopy == [status |-> "none", carded |-> FALSE, charged |-> FALSE, mark |-> FALSE]
NoRow  == [customer |-> NoCustomer, sub |-> NoSub, status |-> "none", plan |-> FALSE,
           reason |-> "none", mailed |-> NoSub]

\* A returning account's row is about a subscription that ended long ago.
Init ==
    /\ session = [s \in Subs |-> "none"]
    /\ customer = [s \in Subs |-> NoCustomer]
    /\ status = [s \in Subs |-> "none"]
    /\ carded = [s \in Subs |-> FALSE]
    /\ charged = [s \in Subs |-> FALSE]
    /\ dispute = [s \in Subs |-> "none"]
    /\ mark = [s \in Subs |-> FALSE]
    /\ event = [s \in Subs |-> [k \in Kinds |-> "unsent"]]
    /\ row = [u \in Users |-> IF u \in Returning
                              THEN [NoRow EXCEPT !.customer = u, !.status = "canceled", !.reason = "ended"]
                              ELSE NoRow]
    /\ claim = [s \in Subs |-> "none"]
    /\ cadence = [u \in Users |-> "manual"]
    /\ setting = {}
    /\ pc = [h \in Handlers |-> "idle"]
    /\ sub = [h \in Handlers |-> NoSub]
    /\ kind = [h \in Handlers |-> "checkout"]
    /\ seen = [h \in Handlers |-> NoCopy]
    /\ prev = [h \in Handlers |-> NoRow]
    /\ outcome = [h \in Handlers |-> "none"]
    /\ faults = 0
    /\ welcomes = [u \in Users |-> 0]
-----------------------------------------------------------------------------
(* The rules *)

\* status_grants_access: alive at Stripe, paid up or still being collected.
Live(st) == st \in {"active", "trialing", "past_due"}

\* status_keeps_plan.
KeepsPlan(s, st) == st \in {"active", "trialing"} \/ (st = "past_due" /\ ~Strict /\ s \notin ThreeDay)

\* The plan a copy of s gives, and why it gives none.
Plan(s, copy)   == KeepsPlan(s, copy.status) /\ ~copy.mark
Reason(s, copy) ==
    CASE KeepsPlan(s, copy.status) /\ copy.mark -> "disputed"
      [] KeepsPlan(s, copy.status) /\ ~copy.mark -> "none"
      [] copy.status = "past_due" /\ ~KeepsPlan(s, copy.status) -> "payment_failed"
      [] OTHER -> "ended"

\* The account has a subscription that is not over, as far as its row says.
Subscribed(r) == r.sub # NoSub /\ Live(r.status)

SubsOf(u) == {s \in Subs : UserOf[s] = u}

\* An event is sent for every change.
Send(s, K) == event' = [event EXCEPT ![s] = [k \in Kinds |-> IF k \in K THEN "open" ELSE event[s][k]]]
-----------------------------------------------------------------------------
(* start_checkout *)

\* The row: no second checkout beside a subscription; and its customer (a second
\* select: what it might find later, completed_checkout_customer finds too).
CheckoutRead(s) ==
    /\ session[s] = "none"
    /\ ~Subscribed(row[UserOf[s]])
    /\ session' = [session EXCEPT ![s] = "asking"]
    /\ customer' = [customer EXCEPT ![s] = row[UserOf[s]].customer]
    /\ UNCHANGED <<status, carded, charged, dispute, mark, event, db, handler, setting, history>>

\* completed_checkout_customer: asked when the row has none.
KnownCustomers(s) ==
    LET completed == {customer[t] : t \in {t \in SubsOf(UserOf[s]) : session[t] = "complete"}}
    IN  IF customer[s] # NoCustomer \/ completed = {} THEN {customer[s]} ELSE completed

\* has_live_subscription.
HasLive(c) == \E t \in Subs : session[t] = "complete" /\ customer[t] = c /\ Live(status[t])

\* trial_available, and never a customer before.
MayTry(s, c) ==
    /\ Strict /\ c = NoCustomer
    /\ \A t \in Subs : claim[t] # "none" =>
          UserOf[t] # UserOf[s] /\ Mailbox[UserOf[t]] # Mailbox[UserOf[s]]

\* Stripe is asked, and the session opened or the checkout refused.
CheckoutAsk(s) ==
    /\ session[s] = "asking"
    /\ \E c \in KnownCustomers(s) :
          LET granted == ~HasLive(c) /\ (s \in ThreeDay => MayTry(s, c))
          IN  /\ session' = [session EXCEPT ![s] = IF granted THEN "open" ELSE "none"]
              /\ customer' = [customer EXCEPT ![s] = IF granted THEN c ELSE NoCustomer]
    /\ UNCHANGED <<status, carded, charged, dispute, mark, event, db, handler, setting, history>>
-----------------------------------------------------------------------------
(* Stripe *)

\* The session is paid: Stripe makes the subscription, and a customer if need be.
\* Without the switch a first subscription may begin with fourteen free days.  The
\* card matters to the three-day trial, and may be reported later.
Pay(s) ==
    /\ session[s] = "open"
    /\ session' = [session EXCEPT ![s] = "complete"]
    /\ customer' = [customer EXCEPT ![s] = IF @ = NoCustomer THEN s ELSE @]
    /\ \E free \in BOOLEAN :
          /\ s \in ThreeDay => free
          /\ free => s \in ThreeDay \/ (~Strict /\ customer[s] = NoCustomer)
          /\ status' = [status EXCEPT ![s] = IF free THEN "trialing" ELSE "active"]
          /\ charged' = [charged EXCEPT ![s] = ~free]
    /\ \E known \in BOOLEAN : /\ s \notin ThreeDay => known
                              /\ carded' = [carded EXCEPT ![s] = known]
    /\ Send(s, {"checkout", "created"})
    /\ UNCHANGED <<dispute, mark, db, handler, setting, history>>

\* A payment fails or succeeds, a trial ends, the card becomes known.
Change(s, k) ==
    /\ Live(status[s])
    /\ \A t \in Subs : event[t][k] = "unsent"
    /\ \/ /\ status' = [status EXCEPT ![s] = IF @ = "past_due" THEN "active" ELSE "past_due"]
          /\ charged' = [charged EXCEPT ![s] = status[s] = "past_due"]
          /\ UNCHANGED carded
       \/ /\ status[s] = "trialing"
          /\ status' = [status EXCEPT ![s] = "active"]
          /\ \E paid \in BOOLEAN : charged' = [charged EXCEPT ![s] = paid]
          /\ UNCHANGED carded
       \/ /\ status[s] = "active" /\ ~charged[s]
          /\ charged' = [charged EXCEPT ![s] = TRUE]
          /\ UNCHANGED <<status, carded>>
       \/ /\ ~carded[s]
          /\ carded' = [carded EXCEPT ![s] = TRUE]
          /\ UNCHANGED <<status, charged>>
    /\ Send(s, {k})
    /\ UNCHANGED <<session, customer, dispute, mark, db, handler, setting, history>>

\* Stripe's side of an end, whoever asks for it.
Cancelled(s) ==
    /\ status' = [status EXCEPT ![s] = "canceled"]
    /\ event' = [event EXCEPT ![s]["deleted"] = IF status[s] = "canceled" THEN @ ELSE "open"]

\* The customer's own cancellation, or the last failed payment.
End(s) ==
    /\ Live(status[s])
    /\ Cancelled(s)
    /\ UNCHANGED <<session, customer, carded, charged, dispute, mark, db, handler, setting, history>>

\* A payment is disputed, and the bank decides.
Dispute(s, to) ==
    /\ s \in Disputable
    /\ \/ charged[s] /\ dispute[s] = "none" /\ to = "open"
       \/ dispute[s] = "open" /\ to \in {"won", "lost"}
    /\ dispute' = [dispute EXCEPT ![s] = to]
    /\ Send(s, {IF to = "open" THEN "opened" ELSE "closed"})
    /\ UNCHANGED <<session, customer, status, carded, charged, mark, db, handler, setting, history>>
-----------------------------------------------------------------------------
(* webhook, up to the lock *)

Goto(h, stage) == pc' = [pc EXCEPT ![h] = stage]

\* The handler answers, well or badly.
Answer(h) ==
    /\ Goto(h, "idle")
    /\ sub' = [sub EXCEPT ![h] = NoSub]
    /\ kind' = [kind EXCEPT ![h] = "checkout"]
    /\ seen' = [seen EXCEPT ![h] = NoCopy]
    /\ prev' = [prev EXCEPT ![h] = NoRow]
    /\ outcome' = [outcome EXCEPT ![h] = "none"]

\* The claim: of an event that nobody claimed, or whose claim is two minutes old
\* and not completed.  Nothing keeps the first claimant from being at work still.
\* A younger claim is answered 409: that is a delivery which comes later.
Receive(h, s, k) ==
    /\ pc[h] = "idle" /\ event[s][k] = "open"
    /\ Goto(h, "received")
    /\ sub' = [sub EXCEPT ![h] = s]
    /\ kind' = [kind EXCEPT ![h] = k]
    /\ UNCHANGED <<stripe, event, db, seen, prev, outcome, setting, history>>

\* checkout.session.completed: binds the customer, never over a live subscription.
CheckoutCompleted(h) ==
    /\ pc[h] = "received" /\ kind[h] = "checkout"
    /\ LET r == row[UserOf[sub[h]]]
           c == customer[sub[h]]
           binds == r.customer \in {NoCustomer, c} \/ ~Live(r.status)
       IN  row' = [row EXCEPT ![UserOf[sub[h]]].customer = IF binds THEN c ELSE @]
    /\ Goto(h, "completing")
    /\ UNCHANGED <<stripe, event, claim, cadence, sub, kind, seen, prev, outcome, setting, history>>

Holds(g, c) == pc[g] \in Locked /\ customer[sub[g]] = c

\* A plausible bug, and the program as it was: no lock.
LockNone(h) ==
    /\ pc[h] = "received" /\ kind[h] # "checkout"
    /\ Goto(h, IF kind[h] \in DisputeKinds THEN "disputing" ELSE "fetching")
    /\ UNCHANGED <<stripe, event, db, sub, kind, seen, prev, outcome, setting, history>>

\* with_customer_lock.
Lock(h) ==
    /\ pc[h] = "received" /\ kind[h] # "checkout"
    /\ \A g \in Handlers : ~Holds(g, customer[sub[h]])
    /\ Goto(h, IF kind[h] \in DisputeKinds THEN "disputing" ELSE "fetching")
    /\ UNCHANGED <<stripe, event, db, sub, kind, seen, prev, outcome, setting, history>>

\* Twenty seconds are over: Conflict.
LockTimeout(h) ==
    /\ pc[h] = "received" /\ kind[h] # "checkout"
    /\ \E g \in Handlers : Holds(g, customer[sub[h]])
    /\ Answer(h)
    /\ UNCHANGED <<stripe, event, db, setting, history>>
-----------------------------------------------------------------------------
(* settle_dispute *)

Copy(s) == [status |-> status[s], carded |-> carded[s], charged |-> charged[s], mark |-> mark[s]]

FetchDisputed(h) ==
    /\ pc[h] = "disputing"
    /\ seen' = [seen EXCEPT ![h] = Copy(sub[h])]
    /\ Goto(h, "judging")
    /\ UNCHANGED <<stripe, event, db, sub, kind, prev, outcome, setting, history>>

\* A plausible bug: the outcome is taken from the event.
JudgeByEvent(h) ==
    /\ pc[h] = "judging"
    /\ outcome' = [outcome EXCEPT ![h] = IF kind[h] = "opened" THEN "open" ELSE dispute[sub[h]]]
    /\ Goto(h, "settling")
    /\ UNCHANGED <<stripe, event, db, sub, kind, seen, prev, setting, history>>

\* current_dispute_outcome: read from Stripe's list, whatever the event says.
Judge(h) ==
    /\ pc[h] = "judging"
    /\ outcome' = [outcome EXCEPT ![h] = dispute[sub[h]]]
    /\ Goto(h, "settling")
    /\ UNCHANGED <<stripe, event, db, sub, kind, seen, prev, setting, history>>

\* The request that follows from it: end, hold or release.  Then the subscription
\* is read back and applied like any other.
Settle(h) ==
    LET s == sub[h]
        ends     == outcome[h] = "lost" /\ seen[h].status # "canceled"
        holds    == outcome[h] = "open" /\ ~seen[h].mark /\ Live(seen[h].status)
        releases == outcome[h] = "won" /\ seen[h].mark
    IN  /\ pc[h] = "settling"
        /\ \/ ends /\ Cancelled(s) /\ UNCHANGED mark
           \/ holds /\ mark' = [mark EXCEPT ![s] = TRUE] /\ Send(s, {"held"}) /\ UNCHANGED status
           \/ releases /\ mark' = [mark EXCEPT ![s] = FALSE] /\ Send(s, {"released"}) /\ UNCHANGED status
           \/ ~ends /\ ~holds /\ ~releases /\ UNCHANGED <<mark, event, status>>
        /\ Goto(h, "fetching")
        /\ UNCHANGED <<session, customer, carded, charged, dispute, db, sub, kind, seen, prev, outcome, setting, history>>
-----------------------------------------------------------------------------
(* apply_subscription *)

\* fetch_subscription: read back under the lock.
Fetch(h) ==
    /\ pc[h] = "fetching"
    /\ seen' = [seen EXCEPT ![h] = Copy(sub[h])]
    /\ Goto(h, "reading")
    /\ UNCHANGED <<stripe, event, db, sub, kind, prev, outcome, setting, history>>

\* A plausible bug: an older subscription's event is applied like any other.
ReplacedNever(h, r) == FALSE

\* An event about an older subscription, beside one that is still paid for.
Replaced(h, r) == Subscribed(r) /\ r.sub # sub[h] /\ ~Live(seen[h].status)

\* A plausible bug: a second subscription is applied like any other.
SecondNever(h, r) == FALSE

\* A second live subscription beside the row's.
Second(h, r) ==
    Subscribed(r) /\ r.sub # sub[h] /\ Live(seen[h].status) /\ sub[h] \notin ThreeDay

\* The row, and which way it leads.
ReadRow(h) ==
    LET r == row[UserOf[sub[h]]]
    IN  /\ pc[h] = "reading"
        /\ prev' = [prev EXCEPT ![h] = r]
        /\ Goto(h, CASE Replaced(h, r) -> "completing"
                     [] Second(h, r) -> "doubting"
                     [] sub[h] \in ThreeDay /\ ~Replaced(h, r) -> "claiming"
                     [] OTHER -> "writing")
        /\ UNCHANGED <<stripe, event, db, sub, kind, seen, outcome, setting, history>>

\* still_live: the one to be kept is read back before the other is ended.
StillLive(h) ==
    /\ pc[h] = "doubting"
    /\ Goto(h, IF Live(status[prev[h].sub]) THEN "cancelling" ELSE "writing")
    /\ UNCHANGED <<stripe, event, db, sub, kind, seen, prev, outcome, setting, history>>

\* A unique index of trial_claims stands in the way of s.
SameCard(s, t) == claim[t] = "carded" /\ Card[t] = Card[s]
Collides(s, known) ==
    \E t \in Subs : /\ claim[t] # "none"
                    /\ \/ t = s \/ UserOf[t] = UserOf[s] \/ Mailbox[UserOf[t]] = Mailbox[UserOf[s]]
                       \/ known /\ SameCard(s, t)

\* A plausible bug: a card that is reported late is not looked at.
ClaimTrialOnce(h) ==
    LET s == sub[h]
        granted == claim[s] # "none" \/ ~Collides(s, seen[h].carded)
    IN  /\ pc[h] = "claiming"
        /\ claim' = [claim EXCEPT ![s] =
               IF @ = "none" /\ granted THEN IF seen[h].carded THEN "carded" ELSE "claimed" ELSE @]
        /\ Goto(h, IF ~granted /\ seen[h].status = "trialing" THEN "cancelling" ELSE "writing")
        /\ UNCHANGED <<stripe, event, row, cadence, sub, kind, seen, prev, outcome, setting, history>>

\* claim_trial: the insert, or the card added to the claim that is there.  A trial
\* that collides is ended, if it is still one.
ClaimTrial(h) ==
    LET s == sub[h]
        inserted == ~Collides(s, seen[h].carded)
        adds     == claim[s] = "claimed" /\ seen[h].carded
        other    == \E t \in Subs \ {s} : SameCard(s, t)
        granted  == inserted \/ (claim[s] # "none" /\ ~(adds /\ other))
    IN  /\ pc[h] = "claiming"
        /\ claim' = [claim EXCEPT ![s] =
               CASE granted /\ (inserted \/ adds) -> IF seen[h].carded THEN "carded" ELSE "claimed"
                 [] OTHER -> @]
        /\ Goto(h, IF ~granted /\ seen[h].status = "trialing" THEN "cancelling" ELSE "writing")
        /\ UNCHANGED <<stripe, event, row, cadence, sub, kind, seen, prev, outcome, setting, history>>

\* cancel_subscription, of a second subscription or a refused trial.  The row is
\* left to the event that follows.
Cancel(h) ==
    /\ pc[h] = "cancelling"
    /\ Cancelled(sub[h])
    /\ Goto(h, "completing")
    /\ UNCHANGED <<session, customer, carded, charged, dispute, mark, db, sub, kind, seen, prev, outcome, setting, history>>

\* "update entitlements": everything from the copy.
Write(h) ==
    LET s == sub[h]
        u == UserOf[s]
    IN  /\ pc[h] = "writing"
        /\ row' = [row EXCEPT ![u] =
               [row[u] EXCEPT !.customer = customer[s], !.sub = s, !.status = seen[h].status,
                              !.plan = Plan(s, seen[h]), !.reason = Reason(s, seen[h])]]
        /\ welcomes' = [welcomes EXCEPT ![u] = IF Plan(s, seen[h]) THEN @ ELSE 0]
        /\ Goto(h, "mailing")
        /\ UNCHANGED <<stripe, event, claim, cadence, sub, kind, seen, prev, outcome, setting, faults>>

\* The welcome goes out on the crossing from unpaid to paid; a three-day trial has
\* one when it begins.
Welcomes(h) ==
    /\ Plan(sub[h], seen[h]) /\ ~prev[h].plan /\ prev[h].reason # "disputed"
    /\ sub[h] \in ThreeDay => seen[h].status = "trialing"

\* The first payment after a trial is confirmed once, and marked on the row.
Activates(h, u) ==
    /\ sub[h] \in ThreeDay /\ seen[h].status = "active" /\ seen[h].charged
    /\ Plan(sub[h], seen[h])
    /\ row[u].customer = customer[sub[h]] /\ row[u].mailed # sub[h]

\* The mails, which may be lost without a word, and where the plan went.
Mail(h) ==
    LET u == UserOf[sub[h]]
    IN  /\ pc[h] = "mailing"
        /\ welcomes' = [welcomes EXCEPT ![u] = IF Welcomes(h) /\ @ < 2 THEN @ + 1 ELSE @]
        /\ row' = [row EXCEPT ![u].mailed = IF Activates(h, u) THEN sub[h] ELSE @]
        /\ Goto(h, IF Reason(sub[h], seen[h]) = "ended" THEN "switching" ELSE "completing")
        /\ UNCHANGED <<stripe, event, claim, cadence, sub, kind, seen, prev, outcome, setting, faults>>

\* A plausible bug: schedules are switched off by the event that saw the plan end.
SwitchOffOnCrossing(h) ==
    /\ pc[h] = "switching"
    /\ cadence' = [u \in Users |-> IF row[u].customer = customer[sub[h]] /\ prev[h].plan THEN "manual" ELSE cadence[u]]
    /\ Goto(h, "completing")
    /\ UNCHANGED <<stripe, event, row, claim, sub, kind, seen, prev, outcome, setting, history>>

\* Losing the plan switches off what it bought, whatever the row said before.
SwitchOff(h) ==
    /\ pc[h] = "switching"
    /\ cadence' = [u \in Users |-> IF row[u].customer = customer[sub[h]] THEN "manual" ELSE cadence[u]]
    /\ Goto(h, "completing")
    /\ UNCHANGED <<stripe, event, row, claim, sub, kind, seen, prev, outcome, setting, history>>

\* completed_at, after the lock was released.
Complete(h) ==
    /\ pc[h] = "completing"
    /\ event' = [event EXCEPT ![sub[h]][kind[h]] = "done"]
    /\ Answer(h)
    /\ UNCHANGED <<stripe, db, setting, history>>

\* A statement or a request fails, or the process dies: the event stays open and
\* the lock goes with its connection.
Fails(h) ==
    /\ pc[h] # "idle" /\ faults < MaxFaults
    /\ faults' = faults + 1
    /\ Answer(h)
    /\ UNCHANGED <<stripe, event, db, setting, welcomes>>

\* set_cadence reads the plan, and writes later, whatever became of the plan.  A
\* schedule written beside a plan that has gone is called late.
CadenceRead(u) ==
    /\ u \in Monitors /\ row[u].plan /\ cadence[u] = "manual"
    /\ setting' = setting \union {u}
    /\ UNCHANGED <<stripe, event, db, handler, history>>

CadenceWrite(u) ==
    /\ u \in setting
    /\ setting' = setting \ {u}
    /\ cadence' = [cadence EXCEPT ![u] = IF row[u].plan THEN "set" ELSE "late"]
    /\ UNCHANGED <<stripe, event, row, claim, handler, history>>
-----------------------------------------------------------------------------
Webhook(h) ==
    \/ CheckoutCompleted(h) \/ Lock(h) \/ LockTimeout(h)
    \/ FetchDisputed(h) \/ Judge(h) \/ Settle(h)
    \/ Fetch(h) \/ ReadRow(h) \/ StillLive(h) \/ ClaimTrial(h) \/ Cancel(h)
    \/ Write(h) \/ Mail(h) \/ SwitchOff(h) \/ Complete(h) \/ Fails(h)

Next ==
    \/ \E s \in Subs : CheckoutRead(s) \/ CheckoutAsk(s) \/ Pay(s) \/ End(s)
    \/ \E s \in Subs, k \in Changes : Change(s, k)
    \/ \E s \in Subs, to \in {"open", "won", "lost"} : Dispute(s, to)
    \/ \E h \in Handlers, s \in Subs, k \in Kinds : Receive(h, s, k)
    \/ \E h \in Handlers : Webhook(h)
    \/ \E u \in Users : CadenceRead(u) \/ CadenceWrite(u)

Spec == Init /\ [][Next]_vars
-----------------------------------------------------------------------------
(* Properties *)

\* Types, and the lock: events of one customer are applied one at a time.
LockInv ==
    /\ TypeOK
    /\ \A g, h \in Handlers : pc[h] \in Locked /\ Holds(g, customer[sub[h]]) => g = h

\* Every event has been answered and nobody is at work.
Settled ==
    /\ \A s \in Subs, k \in Kinds : event[s][k] # "open"
    /\ \A h \in Handlers : pc[h] = "idle"

\* Events come in any order, twice and late, and handlers fail; once all are
\* answered the row says what Stripe says of its subscription, and an account that
\* pays for a subscription has a row about one it pays for.
RowFollowsStripe ==
    Settled => \A u \in Users :
        LET r == row[u]
        IN  /\ r.sub # NoSub => r.status = status[r.sub] /\ r.plan = Plan(r.sub, Copy(r.sub))
            /\ (\E s \in SubsOf(u) : Live(status[s])) => Subscribed(r)

\* "A second live subscription for an account that already has one [...] is ended
\* instead" (billing.rs, apply_subscription): no account is left with two.
OneLiveSubscription ==
    Settled => \A s, t \in Subs :
        UserOf[s] = UserOf[t] /\ Live(status[s]) /\ Live(status[t]) => s = t

\* "both read the account as unpaid and both sent the welcome" is over
\* (with_customer_lock): one welcome each time an account crosses to a paid plan.
OneWelcome == \A u \in Users : welcomes[u] <= 1

\* A plan that has ended takes its schedules with it, although the handler that
\* wrote the end may have died before it switched them off.  Only a request that
\* saw the plan and wrote after its end can leave a schedule behind.
EndedMeansNoSchedule ==
    Settled => \A u \in Users : row[u].reason = "ended" => cadence[u] # "set"

\* One trial per account, mailbox and card, although Stripe may report the card
\* only after the trial was granted; the row of the account that loses its trial says so.
OneTrialPerCard ==
    /\ RowFollowsStripe
    /\ Settled => \A s, t \in ThreeDay :
          /\ status[s] = "trialing" /\ status[t] = "trialing"
          /\ \/ UserOf[s] = UserOf[t] \/ Mailbox[UserOf[s]] = Mailbox[UserOf[t]]
             \/ carded[s] /\ carded[t] /\ Card[s] = Card[t]
          => s = t

\* "created and closed arriving twice or in either order settle the same way"
\* (settle_dispute): the plan is held while the dispute is open, is given back when
\* the payment stands, and ends when it is lost, and the row has it that way.
DisputesSettle ==
    /\ RowFollowsStripe
    /\ Settled => \A s \in Subs :
          /\ dispute[s] = "open" /\ Live(status[s]) => mark[s]
          /\ dispute[s] = "won" /\ Live(status[s]) => ~mark[s]
          /\ dispute[s] = "lost" => status[s] = "canceled"
=============================================================================
