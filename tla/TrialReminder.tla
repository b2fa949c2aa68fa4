--------------------------- MODULE TrialReminder ---------------------------
(***************************************************************************)
(* One three-day trial near its end: the reminder the workers' ticks send  *)
(* (crates/orchestrator/src/trial_reminder.rs), the panel that cancels and *)
(* resumes and mirrors the flag at once (crates/api/src/routes/billing.rs) *)
(* and the webhook that writes what Stripe has.  The webhook is the one of *)
(* Subscriptions with its lock, so its fetch and its write are two steps   *)
(* that exclude other deliveries but not the panel or a worker.  Mail goes *)
(* out through MailRelay, one message for each Mailer::send.               *)
(***************************************************************************)
EXTENDS MailRelay

CONSTANTS
    Workers,     \* processes that run the scheduler's tick
    Panels,      \* requests to cancel or resume
    Ends,        \* instants at which the trial may end
    Hour, Day,   \* the reminder goes out less than Day and more than Hour before the end
    MaxTime,     \* bound on the clock
    MaxChanges,  \* bound on the changes at Stripe
    MaxFaults,   \* bound on crashes and failed statements
    Nothing      \* no message, no subject, nothing fetched

Subs == [status : {"trialing", "over"}, ending : BOOLEAN, end : Ends]

ASSUME WindowAssumption ==
    /\ Ends \subseteq Nat \ {0} /\ Ends # {}
    /\ {Hour, Day, MaxTime, MaxChanges, MaxFaults} \subseteq Nat /\ Hour < Day
    /\ Nothing \notin Messages \union Subs \union Ends

None == 0     \* SQL's null for trial_reminder_for

VARIABLES
    now,
    stripe,      \* the subscription as Stripe has it
    changes,     \* changes at Stripe so far
    dirty,       \* an event of a change is still to be handled
    hook,        \* what the webhook fetched, or Nothing
    row,         \* the entitlement: status, flag, end and trial_reminder_for
    sender,      \* Workers -> the message being sent
    panel,       \* Panels -> the request's stage and what it knows
    notices,     \* end dates claimed in rate_limit_buckets under 'cancel_notice'
    subject,     \* Messages -> the end date the message is about
    faults,      \* history: failures so far
    abandoned,   \* history: messages whose worker died, or could not take its mark back
    visits,      \* history: how often the row came to have each end, up to 2
    overtaken    \* history: the mirrored flag was already out of date, and no event since

vars == <<relay, now, stripe, changes, dirty, hook, row, sender, panel, notices, subject, faults, abandoned, visits, overtaken>>

TypeOK ==
    /\ RelayTypeOK
    /\ now \in 0 .. MaxTime
    /\ stripe \in Subs
    /\ changes \in 0 .. MaxChanges
    /\ dirty \in BOOLEAN
    /\ hook \in Subs \union {Nothing}
    /\ row \in [sub : Subs, reminded : Ends \union {None}]
    /\ sender \in [Workers -> Messages \union {Nothing}]
    /\ panel \in [Panels -> [stage : {"idle", "posting", "mirroring", "noticing"},
                             ending : BOOLEAN, end : Ends]]
    /\ notices \subseteq Ends
    /\ subject \in [Messages -> Ends \union {Nothing}]
    /\ faults \in 0 .. MaxFaults
    /\ abandoned \subseteq Messages
    /\ visits \in [Ends -> 0 .. 2]
    /\ overtaken \in BOOLEAN

Idle == [stage |-> "idle", ending |-> FALSE, end |-> CHOOSE e \in Ends : TRUE]

\* The trial has been claimed and the webhook has written it.
Init ==
    /\ RelayInit
    /\ now = 0
    /\ \E e \in Ends : stripe = [status |-> "trialing", ending |-> FALSE, end |-> e]
    /\ changes = 0
    /\ dirty = FALSE
    /\ hook = Nothing
    /\ row = [sub |-> stripe, reminded |-> None]
    /\ sender = [w \in Workers |-> Nothing]
    /\ panel = [p \in Panels |-> Idle]
    /\ notices = {}
    /\ subject = [m \in Messages |-> Nothing]
    /\ faults = 0
    /\ abandoned = {}
    /\ visits = [e \in Ends |-> IF e = stripe.end THEN 1 ELSE 0]
    /\ overtaken = FALSE
-----------------------------------------------------------------------------
(* Stripe and the clock *)

Tick ==
    /\ now < MaxTime
    /\ now' = now + 1
    /\ UNCHANGED <<relay, stripe, changes, dirty, hook, row, sender, panel, notices, subject, faults, abandoned, visits, overtaken>>

\* A change at Stripe, and the event that tells of it.
Changed(s) ==
    /\ changes < MaxChanges
    /\ changes' = changes + 1
    /\ stripe' = s
    /\ dirty' = TRUE
    /\ UNCHANGED <<relay, now, hook, row, sender, notices, subject, abandoned, visits>>

Running == stripe.status = "trialing"

\* The owner cancels or resumes in Stripe's own portal.
Portal ==
    /\ Running
    /\ Changed([stripe EXCEPT !.ending = ~@])
    /\ UNCHANGED <<panel, faults, overtaken>>

\* The trial is given another end, a later one or an earlier one.
Move(e) ==
    /\ Running /\ stripe.end # e
    /\ Changed([stripe EXCEPT !.end = e])
    /\ UNCHANGED <<panel, faults, overtaken>>

\* Active or cancelled: what follows is none of the reminder's business.
TrialEnds ==
    /\ Running /\ stripe.end <= now
    /\ Changed([stripe EXCEPT !.status = "over"])
    /\ UNCHANGED <<panel, faults, overtaken>>
-----------------------------------------------------------------------------
(* The webhook *)

HookFetch ==
    /\ dirty /\ hook = Nothing
    /\ hook' = stripe
    /\ dirty' = FALSE
    /\ UNCHANGED <<relay, now, stripe, changes, row, sender, panel, notices, subject, faults, abandoned, visits, overtaken>>

HookWrite ==
    /\ hook # Nothing
    /\ row' = [row EXCEPT !.sub = hook]
    /\ hook' = Nothing
    /\ overtaken' = FALSE
    /\ visits' = IF hook.end = row.sub.end THEN visits
                 ELSE [visits EXCEPT ![hook.end] = IF @ < 2 THEN @ + 1 ELSE @]
    /\ UNCHANGED <<relay, now, stripe, changes, dirty, sender, panel, notices, subject, faults, abandoned>>

\* A plausible bug: the event is completed whatever happened to its delivery.
HookFailsForGood ==
    /\ hook # Nothing /\ faults < MaxFaults
    /\ hook' = Nothing
    /\ faults' = faults + 1
    /\ UNCHANGED <<relay, now, stripe, changes, dirty, row, sender, panel, notices, subject, abandoned, visits, overtaken>>

\* The delivery fails, and Stripe sends the event again.
HookFails ==
    /\ hook # Nothing /\ faults < MaxFaults
    /\ hook' = Nothing
    /\ dirty' = TRUE
    /\ faults' = faults + 1
    /\ UNCHANGED <<relay, now, stripe, changes, row, sender, panel, notices, subject, abandoned, visits, overtaken>>
-----------------------------------------------------------------------------
(* send_due *)

Unused == {m \in Messages : subject[m] = Nothing}
Fresh  == CHOOSE m \in Unused : TRUE

\* Mailer::send of one more message.
Post(end) ==
    /\ Unused # {}
    /\ subject' = [subject EXCEPT ![Fresh] = end]
    /\ Hand(Fresh)

\* A plausible bug: the row is read, and not asked whether somebody marked it.
DueUnmarked(began) ==
    /\ row.sub.status = "trialing" /\ ~row.sub.ending
    /\ row.sub.end > began + Hour /\ row.sub.end <= began + Day

\* The where clause, for a tick that began then; the claim it asks for exists.
Due(began) ==
    /\ row.sub.status = "trialing" /\ ~row.sub.ending
    /\ row.sub.end > began + Hour /\ row.sub.end <= began + Day
    /\ row.reminded # row.sub.end

\* The clock was read before the tick's renewals and scans, which may take long.
Mark(w) ==
    /\ sender[w] = Nothing
    /\ \E began \in 0 .. now : Due(began)
    /\ row' = [row EXCEPT !.reminded = row.sub.end]
    /\ Post(row.sub.end)
    /\ sender' = [sender EXCEPT ![w] = Fresh]
    /\ UNCHANGED <<now, stripe, changes, dirty, hook, panel, notices, faults, abandoned, visits, overtaken>>

\* A failed send takes back its own mark, and no other.
Returned(w) ==
    LET m == sender[w] IN
    IF result[m] = "failed" /\ row.reminded = subject[m]
    THEN [row EXCEPT !.reminded = None]
    ELSE row

Finish(w) ==
    /\ sender[w] # Nothing /\ ~Sending(sender[w])
    /\ row' = Returned(w)
    /\ sender' = [sender EXCEPT ![w] = Nothing]
    /\ UNCHANGED <<relay, now, stripe, changes, dirty, hook, panel, notices, subject, faults, abandoned, visits, overtaken>>

\* The worker dies while it sends, or the statement that takes the mark back fails.
Crash(w) ==
    /\ sender[w] # Nothing /\ faults < MaxFaults
    /\ Lose(sender[w])
    /\ abandoned' = abandoned \union {sender[w]}
    /\ sender' = [sender EXCEPT ![w] = Nothing]
    /\ faults' = faults + 1
    /\ UNCHANGED <<now, stripe, changes, dirty, hook, row, panel, notices, subject, visits, overtaken>>
-----------------------------------------------------------------------------
(* schedule_cancellation and resume_subscription *)

Leave(p) == panel' = [panel EXCEPT ![p] = Idle]

\* live_subscription and managed_view: only what would change something goes on.
PanelRead(p, ending) ==
    /\ panel[p].stage = "idle"
    /\ Running /\ stripe.ending # ending
    /\ panel' = [panel EXCEPT ![p].stage = "posting", ![p].ending = ending]
    /\ UNCHANGED <<relay, now, stripe, changes, dirty, hook, row, sender, notices, subject, faults, abandoned, visits, overtaken>>

\* Stripe takes the change, and its answer arrives or does not.
PanelPost(p) ==
    /\ panel[p].stage = "posting"
    /\ Running
    /\ Changed([stripe EXCEPT !.ending = panel[p].ending])
    /\ \/ /\ panel' = [panel EXCEPT ![p].stage = "mirroring", ![p].end = stripe.end]
          /\ UNCHANGED faults
       \/ faults < MaxFaults /\ Leave(p) /\ faults' = faults + 1
    /\ UNCHANGED overtaken

\* Stripe refuses, for one that has ended say.
PanelRefused(p) ==
    /\ panel[p].stage = "posting"
    /\ Leave(p)
    /\ UNCHANGED <<relay, now, stripe, changes, dirty, hook, row, sender, notices, subject, faults, abandoned, visits, overtaken>>

RecordCancelFlag(p) ==
    /\ panel[p].stage = "mirroring"
    /\ row' = [row EXCEPT !.sub.ending = panel[p].ending]
    /\ overtaken' = (stripe.ending # panel[p].ending)
    /\ IF panel[p].ending THEN panel' = [panel EXCEPT ![p].stage = "noticing"] ELSE Leave(p)
    /\ UNCHANGED <<relay, now, stripe, changes, dirty, hook, sender, notices, subject, faults, abandoned, visits>>

\* notify_owner_of_cancellation: one claim for each end date, then one best-effort mail
\* to the operator, which nothing here waits for.
NotifyOwner(p) ==
    /\ panel[p].stage = "noticing"
    /\ Leave(p)
    /\ notices' = notices \union {panel[p].end}
    /\ UNCHANGED <<relay, now, stripe, changes, dirty, hook, row, sender, subject, faults, abandoned, visits, overtaken>>

\* The request dies, or its statement fails.
PanelFails(p) ==
    /\ panel[p].stage \in {"mirroring", "noticing"} /\ faults < MaxFaults
    /\ Leave(p)
    /\ faults' = faults + 1
    /\ UNCHANGED <<relay, now, stripe, changes, dirty, hook, row, sender, notices, subject, abandoned, visits, overtaken>>
-----------------------------------------------------------------------------
Elsewhere == <<now, stripe, changes, dirty, hook, row, sender, panel, notices, subject, faults, abandoned, visits, overtaken>>

AttemptStep(m) == Attempt(m) /\ UNCHANGED Elsewhere

Next ==
    \/ Tick \/ Portal \/ TrialEnds \/ \E e \in Ends : Move(e)
    \/ HookFetch \/ HookWrite \/ HookFails
    \/ \E w \in Workers : Mark(w) \/ Finish(w) \/ Crash(w)
    \/ \E p \in Panels :
          \/ PanelPost(p) \/ PanelRefused(p) \/ RecordCancelFlag(p)
          \/ NotifyOwner(p) \/ PanelFails(p)
          \/ \E ending \in BOOLEAN : PanelRead(p, ending)
    \/ \E m \in Messages : AttemptStep(m)

Spec == Init /\ [][Next]_vars

\* Every attempt has a time-out, and send_due awaits what it does.
FairSpec ==
    /\ Spec
    /\ \A m \in Messages : WF_vars(AttemptStep(m))
    /\ \A w \in Workers : WF_vars(Finish(w))
-----------------------------------------------------------------------------
(* Properties *)

\* Once no event is on its way, the row has what Stripe has, in whatever order the
\* webhook and the panel's record_cancel_flag wrote it; the exception is a mirrored flag
\* that Stripe had already changed again, which stands until the next event.
FlagFollowsStripe == ~dirty /\ hook = Nothing /\ ~overtaken => row.sub = stripe

HasAny(m) == \E p \in Providers : Has(m, p)

\* send_due: "two workers never send the same one".  Two reminders of one end date reach
\* the owner only where the first was a send that failed after an unclear answer, or where
\* the row had another end in between.
OneReminder ==
    \A m, n \in Messages :
        m # n /\ subject[m] = subject[n] /\ HasAny(m) /\ HasAny(n)
            => \/ \E x \in {m, n} : ~Sending(x) /\ result[x] = "failed" /\ unclear[x] # {}
               \/ visits[subject[m]] > 1

\* A mark stands for a reminder that a worker is sending or a provider took, or for one
\* whose worker died, or could not take the mark back.
MarkMeansSent ==
    row.reminded # None
        => \/ \E w \in Workers : sender[w] # Nothing /\ subject[sender[w]] = row.reminded
           \/ \E m \in Messages : subject[m] = row.reminded /\ result[m] = "sent" /\ HasAny(m)
           \/ \E m \in abandoned : subject[m] = row.reminded

\* A mark on the row stands for one reminder: not for none, and not for two.
RemindedOnce == OneReminder /\ MarkMeansSent

\* trial_ending_email: "only while the trial is still running and has not been cancelled":
\* so the row says when a provider takes the reminder.
ToldWhileRunning ==
    [][\A m \in Messages :
          HasAny(m)' /\ ~HasAny(m) => row.sub.status = "trialing" /\ ~row.sub.ending]_vars

\* trial_ending_email: "sent once per trial end" (and 0014_trial.sql: "the same one never
\* twice"): no two sends of a reminder succeed for one end.
ToldOncePerEnd ==
    \A m, n \in Messages :
        m # n /\ result[m] = "sent" /\ result[n] = "sent" => subject[m] # subject[n]

\* The scheduler awaits send_due: a message always comes to an end, and the worker goes on.
WorkerComesBack == \A w \in Workers : sender[w] # Nothing ~> sender[w] = Nothing
=============================================================================
