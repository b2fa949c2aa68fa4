----------------------------- MODULE Ownership -----------------------------
(***************************************************************************)
(* The proof that a customer owns a site: start_verification and           *)
(* check_verification (crates/api/src/routes/targets.rs), the validity     *)
(* rule (crates/orchestrator/src/verification.rs) and the renewal that the *)
(* scheduler's loop makes before a proof lapses (renewal.rs,               *)
(* scheduler.rs).  One target: the proofs of two targets share nothing but *)
(* the scheduler's time.                                                   *)
(*                                                                         *)
(* A handler reads a row, waits for DNS or for the site, and writes the    *)
(* row afterwards; the owner edits the site, and other handlers run,       *)
(* meanwhile.  Time is discrete and kept as distances: left[v] is          *)
(* expires_at - now, and what a process remembers as "now" is the time     *)
(* that went by since it looked at the clock.                              *)
(***************************************************************************)
EXTENDS Integers, FiniteSets

CONSTANTS
    Proofs,       \* ids of target_verifications, numbered in the order of created_at
    Checks,       \* check_verification requests in flight
    Schedulers,   \* worker processes, each with its scheduler loop
    TTL,          \* VERIFICATION_TTL_DAYS
    RenewWithin,  \* RENEW_WITHIN_HOURS
    Reminders,    \* REMINDER_HOURS
    TickLen,      \* TICK_SECS
    Hour,         \* 3600 seconds
    Work,         \* bound on the time a tick takes besides its sleep
    CheckCap,     \* bound on the time a check waits for the site, and for the database
    MaxMails,     \* bound on the warnings counted for one proof
    NoProof

ASSUME ProofsAssumption == Proofs \subseteq Nat /\ NoProof \notin Proofs
ASSUME TimesAssumption ==
    /\ TTL \in Nat /\ RenewWithin \in Nat /\ TickLen \in Nat \ {0} /\ Hour \in Nat \ {0}
    /\ Work \in Nat /\ CheckCap \in Nat /\ MaxMails \in Nat
    /\ Reminders \subseteq Nat
ASSUME RemindersAssumption == IsFiniteSet(Reminders)

Methods == {"dns_txt", "well_known_file"}

VARIABLES
    \* target_verifications, and targets.scan_cadence <> 'manual'
    state,      \* "absent", "pending" (verified_at is null) or "verified"
    left,       \* expires_at - now, 0 when that is past or null
    method,     \* the method column
    monitored,
    \* check_verification
    cpc, crow, cmethod,
    cage,       \* time since the request began, then since it read the clock
    \* the scheduler
    spc, item,
    warn,       \* whether the tick that picked item crosses a reminder point
    sage,       \* time since the tick began
    sleep,      \* time to the next tick
    \* the site and the clock
    published,  \* by method, the proofs whose token a lookup finds now; none in an outage
    phase,      \* now, within the hour
    \* history
    seen,       \* time since the token of v was last seen on the site, TTL + 1 for longer
    mails,      \* warnings since v was last verified or renewed
    kept, gone  \* see History

db     == <<state, left, method, monitored>>
check  == <<cpc, crow, cmethod, cage>>
sched  == <<spc, item, warn, sage, sleep>>
site   == <<published, phase>>
tracks == <<kept, gone>>
vars   == <<db, check, sched, site, seen, mails, tracks>>

TypeOK ==
    /\ state \in [Proofs -> {"absent", "pending", "verified"}]
    /\ left \in [Proofs -> 0 .. TTL]
    /\ method \in [Proofs -> Methods]
    /\ monitored \in BOOLEAN
    /\ cpc \in [Checks -> {"idle", "fetching", "writing"}]
    /\ crow \in [Checks -> Proofs \union {NoProof}]
    /\ cmethod \in [Checks -> Methods]
    /\ cage \in [Checks -> 0 .. CheckCap]
    /\ spc \in [Schedulers -> {"asleep", "fetching", "writing", "working"}]
    /\ item \in [Schedulers -> Proofs \union {NoProof}]
    /\ warn \in [Schedulers -> BOOLEAN]
    /\ sage \in [Schedulers -> 0 .. Work]
    /\ sleep \in [Schedulers -> 0 .. TickLen]
    /\ published \in [Methods -> SUBSET Proofs]
    /\ phase \in 0 .. Hour - 1
    /\ seen \in [Proofs -> 0 .. TTL + 1]
    /\ mails \in [Proofs -> 0 .. MaxMails]
    /\ kept \in [Proofs -> BOOLEAN]
    /\ gone \in [Proofs -> BOOLEAN]

Init ==
    /\ state = [v \in Proofs |-> "absent"]
    /\ left = [v \in Proofs |-> 0]
    /\ method = [v \in Proofs |-> "dns_txt"]
    /\ monitored = FALSE
    /\ cpc = [c \in Checks |-> "idle"]
    /\ crow = [c \in Checks |-> NoProof]
    /\ cmethod = [c \in Checks |-> "dns_txt"]
    /\ cage = [c \in Checks |-> 0]
    /\ spc = [s \in Schedulers |-> "asleep"]
    /\ item = [s \in Schedulers |-> NoProof]
    /\ warn = [s \in Schedulers |-> FALSE]
    /\ sage = [s \in Schedulers |-> 0]
    /\ sleep \in [Schedulers -> 0 .. TickLen]
    /\ published = [m \in Methods |-> {}]
    /\ phase \in 0 .. Hour - 1
    /\ seen = [v \in Proofs |-> TTL + 1]
    /\ mails = [v \in Proofs |-> 0]
    /\ kept = [v \in Proofs |-> FALSE]
    /\ gone = [v \in Proofs |-> FALSE]
-----------------------------------------------------------------------------
(* The rows *)

Pending == {v \in Proofs : state[v] = "pending"}

\* is_currently_verified.
InForce(v) == state[v] = "verified" /\ left[v] > 0

\* "order by verified_at desc limit 1", while in force: expires_at is always
\* verified_at plus the TTL, so the latest proof is the one with most time left.
Latest == {v \in Proofs : InForce(v) /\ \A u \in Proofs : left[u] <= left[v]}

Clip(n) == IF n > 0 THEN n ELSE 0

\* expires_at = expiry_from(now), for a "now" read `ago` before this write.
Prove(v, ago) ==
    /\ state' = [state EXCEPT ![v] = "verified"]
    /\ left' = [left EXCEPT ![v] = Clip(TTL - ago)]
    /\ mails' = [mails EXCEPT ![v] = 0]
-----------------------------------------------------------------------------
(* The API *)

\* start_verification: a new token; the pending ones stay.
StartVerification(v) ==
    /\ state[v] = "absent"
    /\ \A u \in Proofs : u < v => state[u] # "absent"
    /\ state' = [state EXCEPT ![v] = "pending"]
    /\ UNCHANGED <<left, method, monitored, check, sched, site, seen, mails>>

\* The request is answered.
Answer(c) ==
    /\ cpc' = [cpc EXCEPT ![c] = "idle"]
    /\ crow' = [crow EXCEPT ![c] = NoProof]
    /\ cmethod' = [cmethod EXCEPT ![c] = "dns_txt"]
    /\ cage' = [cage EXCEPT ![c] = 0]

\* check_verification, up to the lookup: the pending token issued last.
CheckBegin(c, m) ==
    /\ cpc[c] = "idle"
    /\ \E v \in Pending :
          /\ \A u \in Pending : u <= v
          /\ crow' = [crow EXCEPT ![c] = v]
    /\ cmethod' = [cmethod EXCEPT ![c] = m]
    /\ cage' = [cage EXCEPT ![c] = 0]
    /\ cpc' = [cpc EXCEPT ![c] = "fetching"]
    /\ UNCHANGED <<db, sched, site, seen, mails>>

\* The lookup answers, and the clock is read after a match.
CheckFound(c) ==
    /\ cpc[c] = "fetching"
    /\ crow[c] \in published[cmethod[c]]
    /\ seen' = [seen EXCEPT ![crow[c]] = 0]
    /\ cpc' = [cpc EXCEPT ![c] = "writing"]
    /\ cage' = [cage EXCEPT ![c] = 0]
    /\ UNCHANGED <<db, crow, cmethod, sched, site, mails>>

\* Not there, or not reachable: not_yet.
CheckNotYet(c) ==
    /\ cpc[c] = "fetching"
    /\ crow[c] \notin published[cmethod[c]]
    /\ Answer(c)
    /\ UNCHANGED <<db, sched, site, seen, mails>>

\* A plausible bug: the update does not ask for "verified_at is null".
CheckWriteAgain(c) ==
    /\ cpc[c] = "writing"
    /\ Prove(crow[c], cage[c])
    /\ method' = [method EXCEPT ![crow[c]] = cmethod[c]]
    /\ Answer(c)
    /\ UNCHANGED <<monitored, sched, site, seen>>

\* The update, of a row that is still pending.
CheckWrite(c) ==
    /\ cpc[c] = "writing"
    /\ IF state[crow[c]] = "pending"
       THEN /\ Prove(crow[c], cage[c])
            /\ method' = [method EXCEPT ![crow[c]] = cmethod[c]]
       ELSE UNCHANGED <<state, left, mails, method>>
    /\ Answer(c)
    /\ UNCHANGED <<monitored, sched, site, seen>>

\* A statement fails or the client is gone: the row stays pending.
CheckDrop(c) ==
    /\ cpc[c] # "idle"
    /\ Answer(c)
    /\ UNCHANGED <<db, sched, site, seen, mails>>

\* set_cadence, as renewal sees it: on only with a proof in force.
SetCadence ==
    /\ monitored \/ Latest # {}
    /\ monitored' = ~monitored
    /\ UNCHANGED <<state, left, method, check, sched, site, seen, mails>>
-----------------------------------------------------------------------------
(* The scheduler's loop: renew_due, then the rest of the tick, then sleep *)

\* Renewal is over, and the rest of the tick begins.
Done(s) ==
    /\ spc' = [spc EXCEPT ![s] = "working"]
    /\ item' = [item EXCEPT ![s] = NoProof]
    /\ warn' = [warn EXCEPT ![s] = FALSE]


\* reminder_due: the point expires_at - h is in this tick, [now, now + tick).
ReminderDue(remaining) ==
    \E h \in Reminders : h <= remaining /\ remaining < h + TickLen

\* attempt_due: the tick began in the first TickLen of an hour.
AttemptDue == phase < TickLen

\* The select of renew_due, for a tick that starts now.
Due(v) == monitored /\ v \in Latest /\ left[v] <= RenewWithin

\* The tick begins: it reads the clock, selects, and decides whether to look.
Wake(s) ==
    /\ spc[s] = "asleep" /\ sleep[s] = 0
    /\ sage' = [sage EXCEPT ![s] = 0]
    /\ \/ \E v \in Proofs :
            /\ Due(v)
            /\ ReminderDue(left[v]) \/ AttemptDue
            /\ item' = [item EXCEPT ![s] = v]
            /\ warn' = [warn EXCEPT ![s] = ReminderDue(left[v])]
            /\ spc' = [spc EXCEPT ![s] = "fetching"]
       \/ /\ \A v \in Proofs : Due(v) => ~ReminderDue(left[v]) /\ ~AttemptDue
          /\ Done(s)
    /\ UNCHANGED <<db, check, sleep, site, seen, mails>>

\* A plausible bug: renewal trusts the proof it renews.
StillPublishedAlways(s) ==
    /\ spc[s] = "fetching"
    /\ spc' = [spc EXCEPT ![s] = "writing"]
    /\ UNCHANGED <<db, check, item, warn, sage, sleep, site, seen, mails>>

\* A plausible bug: renewal looks for a TXT record whatever the method.
TokenThereDns(v) == v \in published["dns_txt"]

\* still_published, by the method on record.
TokenThere(v) == v \in published[method[v]]

\* Still there: the proof may be extended.
StillPublished(s) ==
    /\ spc[s] = "fetching"
    /\ TokenThere(item[s])
    /\ seen' = [seen EXCEPT ![item[s]] = 0]
    /\ spc' = [spc EXCEPT ![s] = "writing"]
    /\ UNCHANGED <<db, check, item, warn, sage, sleep, site, mails>>

\* Gone: the owner is told, if this tick crosses a reminder point.
NotPublished(s) ==
    /\ spc[s] = "fetching"
    /\ ~TokenThere(item[s])
    /\ mails' = [mails EXCEPT ![item[s]] = IF warn[s] /\ @ < MaxMails THEN @ + 1 ELSE @]
    /\ Done(s)
    /\ UNCHANGED <<db, check, sage, sleep, site, seen>>

\* The update, with the clock as the tick read it.
Renew(s) ==
    /\ spc[s] = "writing"
    /\ Prove(item[s], sage[s])
    /\ Done(s)
    /\ UNCHANGED <<method, monitored, check, sage, sleep, site, seen>>

\* The rest of the tick is over.
Sleep(s) ==
    /\ spc[s] = "working"
    /\ spc' = [spc EXCEPT ![s] = "asleep"]
    /\ sage' = [sage EXCEPT ![s] = 0]
    /\ sleep' = [sleep EXCEPT ![s] = TickLen]
    /\ UNCHANGED <<db, check, item, warn, site, seen, mails>>

\* The select or the update fails: renew_due returns, and the tick goes on.
RenewalFails(s) ==
    /\ \/ spc[s] = "asleep" /\ sleep[s] = 0 /\ sage' = [sage EXCEPT ![s] = 0]
       \/ spc[s] = "writing" /\ UNCHANGED sage
    /\ Done(s)
    /\ UNCHANGED <<db, check, sleep, site, seen, mails>>
-----------------------------------------------------------------------------
(* The owner and the clock *)

\* TXT records add up; the file holds one token.  An outage of the site or of
\* its DNS is an Unpublish, its end a Publish.
Publish(m, v) ==
    /\ state[v] # "absent"
    /\ published' = [published EXCEPT ![m] = IF m = "dns_txt" THEN @ \union {v} ELSE {v}]
    /\ UNCHANGED <<db, check, sched, phase, seen, mails>>

Unpublish(m, v) ==
    /\ v \in published[m]
    /\ published' = [published EXCEPT ![m] = @ \ {v}]
    /\ UNCHANGED <<db, check, sched, phase, seen, mails>>

\* One unit of time.  A loop that is due runs, and nobody exceeds its bound.
Pass ==
    /\ \A s \in Schedulers : IF spc[s] = "asleep" THEN sleep[s] > 0 ELSE sage[s] < Work
    /\ \A c \in Checks : cpc[c] # "idle" => cage[c] < CheckCap
    /\ left' = [v \in Proofs |-> Clip(left[v] - 1)]
    /\ cage' = [c \in Checks |-> IF cpc[c] = "idle" THEN cage[c] ELSE cage[c] + 1]
    /\ sage' = [s \in Schedulers |-> IF spc[s] = "asleep" THEN sage[s] ELSE sage[s] + 1]
    /\ sleep' = [s \in Schedulers |-> IF spc[s] = "asleep" THEN sleep[s] - 1 ELSE sleep[s]]
    /\ phase' = (phase + 1) % Hour
    /\ seen' = [v \in Proofs |-> IF seen[v] <= TTL THEN seen[v] + 1 ELSE seen[v]]
    /\ UNCHANGED <<state, method, monitored, cpc, crow, cmethod, spc, item, warn, published, mails>>
-----------------------------------------------------------------------------
Step ==
    \/ \E v \in Proofs : StartVerification(v)
    \/ \E c \in Checks, m \in Methods : CheckBegin(c, m)
    \/ \E c \in Checks : CheckFound(c) \/ CheckNotYet(c) \/ CheckWrite(c) \/ CheckDrop(c)
    \/ SetCadence
    \/ \E s \in Schedulers : Wake(s) \/ StillPublished(s) \/ NotPublished(s) \/ Renew(s) \/ Sleep(s)
    \/ \E m \in Methods, v \in Proofs : Publish(m, v) \/ Unpublish(m, v)
    \/ Pass

\* For the properties: since v was verified or renewed, and for as long as it has
\* been within the renewal window, v has been the latest proof of a monitored
\* site and its token has been published (kept) or has not been (gone), and no
\* statement of a renewal failed.
History(failed) ==
    LET Fresh(v)  == state'[v] = "verified" /\ left'[v] > left[v]
        Early(v)  == left'[v] > RenewWithin
        Sole(v)   == monitored' /\ \A u \in Proofs \ {v} : left'[u] < left'[v] \/ left'[u] = 0
        There(v)  == v \in published'[method'[v]]
    IN  /\ kept' = [v \in Proofs |-> ~failed /\ (kept[v] \/ Fresh(v)) /\ (Early(v) \/ (Sole(v) /\ There(v)))]
        /\ gone' = [v \in Proofs |-> ~failed /\ (gone[v] \/ Fresh(v)) /\ (Early(v) \/ (Sole(v) /\ ~There(v)))]

Next ==
    \/ Step /\ History(FALSE)
    \/ (\E s \in Schedulers : RenewalFails(s)) /\ History(TRUE)

Spec == Init /\ [][Next]_vars
-----------------------------------------------------------------------------
(* Properties *)

\* "Nothing here can report success without actually seeing the token": a proof in
\* force stands on a token that was seen on the site when its period began, no
\* matter who wrote the row, how late, and what its owner did meanwhile.
ProofBacked == \A v \in Proofs : InForce(v) => seen[v] + left[v] <= TTL

\* What makes ProofBacked inductive: a request or a loop about to write saw the
\* token no earlier than the clock it will write.
WritersSaw ==
    /\ \A c \in Checks : cpc[c] # "idle" => crow[c] \in Proofs
    /\ \A s \in Schedulers : spc[s] \in {"fetching", "writing"} => item[s] \in Proofs
    /\ \A c \in Checks : cpc[c] = "writing" => seen[crow[c]] <= cage[c]
    /\ \A s \in Schedulers : spc[s] = "writing" => seen[item[s]] <= sage[s]

OwnershipInv == TypeOK /\ WritersSaw /\ ProofBacked

\* Worker s writes its renewal of v in this step.
Renews(s, v) == spc[s] = "writing" /\ item[s] = v /\ spc'[s] = "working"

\* No late write moves expires_at back, of a check that raced another or the
\* renewal; only a renewal does, when another worker renewed the proof after this
\* one read its clock, and then by no more than this one's tick has lasted.
NeverShortened ==
    [][\A v \in Proofs : left'[v] < left[v] =>
          \/ phase' # phase
          \/ \E s \in Schedulers : Renews(s, v) /\ left[v] - left'[v] <= sage[s]]_vars

\* "checked again before it lapses: still there, and the proof is extended" (renewal.rs):
\* a monitored site whose owner leaves the token where it is does not lapse.
KeptStaysInForce == \A v \in Proofs : kept[v] => left[v] > 0

\* The loop sleeps a full tick after its work, and so steps over the first minutes of
\* some hours, when an attempt is due.  It cannot do so in two hours running as long as
\* the work of a tick is short beside the number of ticks in an hour: 25 seconds in the
\* code.  The window, of 72 hours there, has room for two hours and a tick.
QuickTicks ==
    /\ Hour % TickLen = 0 /\ Work * Hour <= TickLen * TickLen
    /\ 2 * Hour + TickLen + Work <= RenewWithin /\ RenewWithin <= TTL

\* With ticks as quick as that a token that is where it was keeps its proof in force.
KeptIfQuick == QuickTicks => KeptStaysInForce

\* "gone, and the owner is told while there is still time to fix it" (renewal.rs):
\* a monitored site whose token is gone does not lapse in silence.
LapseIsAnnounced == \A v \in Proofs : gone[v] /\ left[v] = 0 => mails[v] >= 1

\* "so each warning is sent once without storing anything" (reminder_due): nobody
\* is warned more often than there are reminder points.
WarnedOnce == \A v \in Proofs : mails[v] <= Cardinality(Reminders)


\* "Warnings go out when this many hours remain" (renewal.rs, REMINDER_HOURS), one
\* for each of its members.
EveryWarningSent ==
    \A v \in Proofs : gone[v] /\ left[v] = 0 => mails[v] = Cardinality(Reminders)
=============================================================================
