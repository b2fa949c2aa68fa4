--------------------------- MODULE ScanAdmission ---------------------------
(***************************************************************************)
(* Who may queue a scan: create_scan (crates/api/src/routes/scans.rs), the *)
(* scheduler's tick and enqueue (crates/orchestrator/src/scheduler.rs,     *)
(* due in schedule.rs), set_cadence (routes/targets.rs) and the limits of  *)
(* policy.rs.  Each condition is a query of its own, and the rows that     *)
(* record the decision are written in a transaction after the last of      *)
(* them: requests and scheduler loops decide on what they read before.     *)
(*                                                                         *)
(* Time is kept as ages: age[j] is now - created_at of a job, saturated    *)
(* just past the window of the budget, and since[t] is now -               *)
(* last_scheduled_at, saturated at the cadence's interval, which is also   *)
(* what a null stamp means.                                                *)
(***************************************************************************)
EXTENDS Integers, FiniteSets

CONSTANTS
    Users, Targets,
    Owner,        \* targets.user_id
    Site,         \* targets.domain without a leading www.
    Jobs,         \* ids of scan_jobs, numbered in the order of created_at
    Requests,     \* create_scan requests in flight
    Setters,      \* set_cadence requests in flight
    Schedulers,   \* scheduler loops, one in each worker process
    MaxScans,     \* MAX_SCANS_PER_TARGET_PER_DAY
    TrialMax,     \* TRIAL_MAX_SCANS_PER_TARGET_PER_DAY
    Day,          \* 24 hours
    Interval,     \* Cadence::interval
    NoTarget

ASSUME JobsAssumption   == Jobs \subseteq Nat /\ IsFiniteSet(Jobs)
ASSUME ActorsAssumption == IsFiniteSet(Requests) /\ IsFiniteSet(Schedulers)
ASSUME TargetAssumption == Owner \in [Targets -> Users] /\ NoTarget \notin Targets
ASSUME LimitsAssumption == /\ MaxScans \in Nat \ {0} /\ TrialMax \in Nat
                           /\ Day \in Nat /\ Interval \in Nat \ {0}

\* "new" is the free plan of an account that never was a customer.
Plans == {"new", "trial", "paid", "free"}

VARIABLES
    \* the database
    plan,       \* entitlements: a paid plan, a three-day trial of one, or none
    proved,     \* the target's latest proof is in force (see Ownership)
    cadence,    \* targets.scan_cadence <> 'manual'
    since,      \* now - targets.last_scheduled_at
    target,     \* scan_jobs.target_id, NoTarget before the row exists
    age,        \* now - scan_jobs.created_at
    claim,      \* now is between created_at and trial_ends_at of the user's trial_claims row
    trialScans, \* scan_authorizations accepted in that time: <<user, target, still on trial>>
    \* create_scan
    rpc, rtarget, rtrial,
    \* set_cadence
    cpc, ctarget, con,
    \* the scheduler
    spc, starget,
    todo,       \* candidates of this tick, with what the snapshot said of them
    \* history
    quiet,      \* time since a scheduler last queued a scan of a target
    rearmed     \* the target's schedule was set since then

db      == <<plan, claim, proved, cadence, since, target, age, trialScans>>
request == <<rpc, rtarget, rtrial>>
setter  == <<cpc, ctarget, con>>
sched   == <<spc, starget, todo>>
history == <<quiet, rearmed>>
vars    == <<db, request, setter, sched, history>>

Candidates == [target : Targets, trial : BOOLEAN]

TypeOK ==
    /\ plan \in [Users -> Plans]
    /\ proved \in [Targets -> BOOLEAN]
    /\ cadence \in [Targets -> BOOLEAN]
    /\ since \in [Targets -> 0 .. Interval]
    /\ target \in [Jobs -> Targets \union {NoTarget}]
    /\ age \in [Jobs -> 0 .. Day + 1]
    /\ claim \in [Users -> BOOLEAN]
    /\ trialScans \subseteq Users \X Targets \X BOOLEAN
    /\ rpc \in [Requests -> {"idle", "planning", "counting", "siting", "inserting"}]
    /\ rtarget \in [Requests -> Targets \union {NoTarget}]
    /\ rtrial \in [Requests -> BOOLEAN]
    /\ cpc \in [Setters -> {"idle", "planning", "updating"}]
    /\ ctarget \in [Setters -> Targets \union {NoTarget}]
    /\ con \in [Setters -> BOOLEAN]
    /\ spc \in [Schedulers -> {"asleep", "looping", "inserting"}]
    /\ starget \in [Schedulers -> Targets \union {NoTarget}]
    /\ todo \in [Schedulers -> SUBSET Candidates]
    /\ quiet \in [Schedulers -> [Targets -> 0 .. Interval]]
    /\ rearmed \in [Schedulers -> [Targets -> BOOLEAN]]

Init ==
    /\ plan = [u \in Users |-> "new"]
    /\ proved = [t \in Targets |-> FALSE]
    /\ cadence = [t \in Targets |-> FALSE]
    /\ since = [t \in Targets |-> Interval]
    /\ target = [j \in Jobs |-> NoTarget]
    /\ age = [j \in Jobs |-> 0]
    /\ claim = [u \in Users |-> FALSE]
    /\ trialScans = {}
    /\ rpc = [q \in Requests |-> "idle"]
    /\ rtarget = [q \in Requests |-> NoTarget]
    /\ rtrial = [q \in Requests |-> FALSE]
    /\ cpc = [c \in Setters |-> "idle"]
    /\ ctarget = [c \in Setters |-> NoTarget]
    /\ con = [c \in Setters |-> FALSE]
    /\ spc = [s \in Schedulers |-> "asleep"]
    /\ starget = [s \in Schedulers |-> NoTarget]
    /\ todo = [s \in Schedulers |-> {}]
    /\ quiet = [s \in Schedulers |-> [t \in Targets |-> Interval]]
    /\ rearmed = [s \in Schedulers |-> [t \in Targets |-> FALSE]]
-----------------------------------------------------------------------------
(* The queries *)

\* "select count(*) from scan_jobs ... created_at >= now - 24 hours".
RecentJobs(t) == {j \in Jobs : target[j] = t /\ age[j] <= Day}
Recent(t)     == Cardinality(RecentJobs(t))

\* A plausible bug: at the limit is still within the budget.
WithinBudgetInclusive(t, trial) == Recent(t) <= MaxScans /\ (trial => Recent(t) <= TrialMax)

\* within_scan_budget, and the smaller budget of a trial.
WithinBudget(t, trial) == Recent(t) < MaxScans /\ (trial => Recent(t) < TrialMax)

\* A plausible bug: www.example.com and example.com are two sites.
SiteUsedSameTarget(t) == \E a \in trialScans : a[1] # Owner[t] /\ a[2] = t

\* site_used_in_another_trial.
SiteUsed(t) == \E a \in trialScans : a[1] # Owner[t] /\ Site[a[2]] = Site[t]

\* due.
Due(t) == cadence[t] /\ proved[t] /\ since[t] = Interval

\* current_access: allows_full_scan and allows_scheduling hold of every paid plan.
HasPlan(t) == plan[Owner[t]] \in {"paid", "trial"}
OnTrial(t) == plan[Owner[t]] = "trial"

Unused == {j \in Jobs : target[j] = NoTarget}

\* The authorization trail after a scan of t is authorized now: what decides is the
\* time, and not whether the subscription still is a trial.
Authorized(t) ==
    IF claim[Owner[t]] THEN trialScans \union {<<Owner[t], t, OnTrial(t)>>} ELSE trialScans

\* Insert into scan_jobs: the next ids, for t, now.
InsertJobs(t, J) ==
    /\ J \subseteq Unused
    /\ \A j \in J, i \in Unused \ J : j < i
    /\ target' = [j \in Jobs |-> IF j \in J THEN t ELSE target[j]]
    /\ age' = [j \in Jobs |-> IF j \in J THEN 0 ELSE age[j]]
    /\ trialScans' = Authorized(t)
-----------------------------------------------------------------------------
(* create_scan; a condition that fails ends the request *)

Refuse(q) ==
    /\ rpc' = [rpc EXCEPT ![q] = "idle"]
    /\ UNCHANGED <<db, rtarget, rtrial, setter, sched, history>>

\* (1) to (3) and (5): the user's own target, with a proof in force.
Gate(q, t) ==
    /\ rpc[q] = "idle"
    /\ proved[t]
    /\ rtarget' = [rtarget EXCEPT ![q] = t]
    /\ rpc' = [rpc EXCEPT ![q] = "planning"]
    /\ UNCHANGED <<db, rtrial, setter, sched, history>>

\* (6) the plan.
ReadPlan(q) ==
    /\ rpc[q] = "planning"
    /\ \/ ~HasPlan(rtarget[q]) /\ Refuse(q)
       \/ /\ HasPlan(rtarget[q])
          /\ rtrial' = [rtrial EXCEPT ![q] = OnTrial(rtarget[q])]
          /\ rpc' = [rpc EXCEPT ![q] = "counting"]
          /\ UNCHANGED <<db, rtarget, setter, sched, history>>

\* (4) the budget.
Count(q) ==
    /\ rpc[q] = "counting"
    /\ \/ ~WithinBudget(rtarget[q], rtrial[q]) /\ Refuse(q)
       \/ /\ WithinBudget(rtarget[q], rtrial[q])
          /\ rpc' = [rpc EXCEPT ![q] = IF rtrial[q] THEN "siting" ELSE "inserting"]
          /\ UNCHANGED <<db, rtarget, rtrial, setter, sched, history>>

\* (7) one trial per site.
CheckSite(q) ==
    /\ rpc[q] = "siting"
    /\ \/ SiteUsed(rtarget[q]) /\ Refuse(q)
       \/ /\ ~SiteUsed(rtarget[q])
          /\ rpc' = [rpc EXCEPT ![q] = "inserting"]
          /\ UNCHANGED <<db, rtarget, rtrial, setter, sched, history>>

\* The transaction: authorization and job.
Admit(q) ==
    /\ rpc[q] = "inserting"
    /\ \E j \in Unused : InsertJobs(rtarget[q], {j})
    /\ rpc' = [rpc EXCEPT ![q] = "idle"]
    /\ UNCHANGED <<plan, claim, proved, cadence, since, rtarget, rtrial, setter, sched, history>>

\* A statement fails or the client is gone: nothing was written.
Drop(q) == rpc[q] # "idle" /\ Refuse(q)
-----------------------------------------------------------------------------
(* The scheduler *)

\* tick: the select, and what is decided on its answer alone.
Snapshot(s) ==
    /\ spc[s] = "asleep"
    /\ todo' = [todo EXCEPT ![s] =
            {c \in Candidates : /\ HasPlan(c.target)
                                /\ c.trial = OnTrial(c.target)
                                /\ Due(c.target)
                                /\ WithinBudget(c.target, c.trial)}]
    /\ spc' = [spc EXCEPT ![s] = "looping"]
    /\ UNCHANGED <<db, request, setter, starget, history>>

\* The next candidate; a trial's site is looked up now.
Consider(s, c) ==
    /\ spc[s] = "looping" /\ c \in todo[s]
    /\ todo' = [todo EXCEPT ![s] = @ \ {c}]
    /\ starget' = [starget EXCEPT ![s] = c.target]
    /\ spc' = [spc EXCEPT ![s] = IF c.trial /\ SiteUsed(c.target) THEN "looping" ELSE "inserting"]
    /\ UNCHANGED <<db, request, setter, history>>

\* A plausible bug: the schedule's stamp is forgotten.
EnqueueUnstamped(s) ==
    /\ spc[s] = "inserting"
    /\ \E i, j \in Unused : i # j /\ InsertJobs(starget[s], {i, j})
    /\ quiet' = [quiet EXCEPT ![s][starget[s]] = 0]
    /\ rearmed' = [rearmed EXCEPT ![s][starget[s]] = FALSE]
    /\ spc' = [spc EXCEPT ![s] = "looping"]
    /\ UNCHANGED <<plan, claim, proved, cadence, since, request, setter, starget, todo>>

\* enqueue: authorization, a job for each of the two tools, and the stamp.
Enqueue(s) ==
    /\ spc[s] = "inserting"
    /\ \E i, j \in Unused : i # j /\ InsertJobs(starget[s], {i, j})
    /\ since' = [since EXCEPT ![starget[s]] = 0]
    /\ quiet' = [quiet EXCEPT ![s][starget[s]] = 0]
    /\ rearmed' = [rearmed EXCEPT ![s][starget[s]] = FALSE]
    /\ spc' = [spc EXCEPT ![s] = "looping"]
    /\ UNCHANGED <<plan, claim, proved, cadence, request, setter, starget, todo>>

\* The site lookup fails, or the transaction does and is rolled back; the loop goes on.
EnqueueFails(s) ==
    /\ spc[s] = "inserting"
    /\ spc' = [spc EXCEPT ![s] = "looping"]
    /\ UNCHANGED <<db, request, setter, starget, todo, history>>

Sleep(s) ==
    /\ spc[s] = "looping" /\ todo[s] = {}
    /\ spc' = [spc EXCEPT ![s] = "asleep"]
    /\ UNCHANGED <<db, request, setter, starget, todo, history>>

\* The process dies and another starts: the rest of the tick is forgotten.
Die(s) ==
    /\ spc[s] # "asleep"
    /\ todo' = [todo EXCEPT ![s] = {}]
    /\ spc' = [spc EXCEPT ![s] = "asleep"]
    /\ UNCHANGED <<db, request, setter, starget, history>>
-----------------------------------------------------------------------------
(* set_cadence *)

\* The row: a schedule needs a proof in force, and a paid plan, asked next.
CadenceGate(c, t, on) ==
    /\ cpc[c] = "idle"
    /\ on => proved[t]
    /\ ctarget' = [ctarget EXCEPT ![c] = t]
    /\ con' = [con EXCEPT ![c] = on]
    /\ cpc' = [cpc EXCEPT ![c] = IF on THEN "planning" ELSE "updating"]
    /\ UNCHANGED <<db, request, sched, history>>

CadencePlan(c) ==
    /\ cpc[c] = "planning"
    /\ cpc' = [cpc EXCEPT ![c] = IF HasPlan(ctarget[c]) THEN "updating" ELSE "idle"]
    /\ UNCHANGED <<db, request, ctarget, con, sched, history>>

\* The update clears the stamp when the schedule is set.
CadenceWrite(c) ==
    /\ cpc[c] = "updating"
    /\ cadence' = [cadence EXCEPT ![ctarget[c]] = con[c]]
    /\ since' = [since EXCEPT ![ctarget[c]] = IF con[c] THEN Interval ELSE @]
    /\ rearmed' = [s \in Schedulers |-> [rearmed[s] EXCEPT ![ctarget[c]] = @ \/ con[c]]]
    /\ cpc' = [cpc EXCEPT ![c] = "idle"]
    /\ UNCHANGED <<plan, claim, proved, target, age, trialScans, request, ctarget, con, sched, quiet>>

\* A statement fails or the client is gone: the schedule stays as it was.
CadenceDrop(c) ==
    /\ cpc[c] # "idle"
    /\ cpc' = [cpc EXCEPT ![c] = "idle"]
    /\ UNCHANGED <<db, request, ctarget, con, sched, history>>
-----------------------------------------------------------------------------
(* Billing, Ownership and the clock *)

\* A trial is offered to an account without a Stripe customer (start_checkout).
ChangePlan(u, p) ==
    /\ p \notin {"new", plan[u]}
    /\ p = "trial" => plan[u] = "new"
    /\ plan' = [plan EXCEPT ![u] = p]
    /\ claim' = [claim EXCEPT ![u] = @ \/ p = "trial"]
    /\ UNCHANGED <<proved, cadence, since, target, age, trialScans, request, setter, sched, history>>

\* trial_ends_at is past, whenever billing hears of it.
TrialEnds(u) ==
    /\ claim[u]
    /\ claim' = [claim EXCEPT ![u] = FALSE]
    /\ UNCHANGED <<plan, proved, cadence, since, target, age, trialScans, request, setter, sched, history>>

ChangeProof(t) ==
    /\ proved' = [proved EXCEPT ![t] = ~@]
    /\ UNCHANGED <<plan, claim, cadence, since, target, age, trialScans, request, setter, sched, history>>

\* One unit of time; nobody is bound to be faster than the clock.
Pass ==
    /\ age' = [j \in Jobs |-> IF target[j] # NoTarget /\ age[j] <= Day THEN age[j] + 1 ELSE age[j]]
    /\ since' = [t \in Targets |-> IF since[t] < Interval THEN since[t] + 1 ELSE since[t]]
    /\ quiet' = [s \in Schedulers |->
                    [t \in Targets |-> IF quiet[s][t] < Interval THEN quiet[s][t] + 1 ELSE quiet[s][t]]]
    /\ UNCHANGED <<plan, claim, proved, cadence, target, trialScans, request, setter, sched, rearmed>>
-----------------------------------------------------------------------------
Next ==
    \/ \E q \in Requests, t \in Targets : Gate(q, t)
    \/ \E q \in Requests : ReadPlan(q) \/ Count(q) \/ CheckSite(q) \/ Admit(q) \/ Drop(q)
    \/ \E s \in Schedulers : Snapshot(s) \/ Enqueue(s) \/ EnqueueFails(s) \/ Sleep(s) \/ Die(s)
    \/ \E s \in Schedulers, c \in Candidates : Consider(s, c)
    \/ \E c \in Setters, t \in Targets, on \in BOOLEAN : CadenceGate(c, t, on)
    \/ \E c \in Setters : CadencePlan(c) \/ CadenceWrite(c) \/ CadenceDrop(c)
    \/ \E u \in Users, p \in Plans : ChangePlan(u, p)
    \/ \E u \in Users : TrialEnds(u)
    \/ \E t \in Targets : ChangeProof(t)
    \/ Pass

Spec == Init /\ [][Next]_vars
-----------------------------------------------------------------------------
(* Properties *)

\* Requests and candidates that have passed the budget and not inserted yet.
Admitted(t)  == {q \in Requests : rpc[q] \in {"siting", "inserting"} /\ rtarget[q] = t}
Scheduled(t) ==
    {s \in Schedulers : \/ \E c \in todo[s] : c.target = t
                        \/ spc[s] = "inserting" /\ starget[s] = t}

\* What there is and what is on its way, one job for a request and two for a
\* scheduler, and how much of that there can be.
Load(t)  == Recent(t) + Cardinality(Admitted(t)) + 2 * Cardinality(Scheduled(t))
Overrun  == MaxScans - 1 + Cardinality(Requests) + 2 * Cardinality(Schedulers)

\* How far the budget can be overrun: a count is stale by no more than what is in
\* flight when it is read.  The jobs in flight are counted in, which makes this
\* inductive.
OverrunBounded == \A t \in Targets : Load(t) <= Overrun

\* A tick queues one scan of a target, and a request in flight has a target.
OneOffer ==
    /\ \A q \in Requests : rpc[q] # "idle" => rtarget[q] \in Targets
    /\ \A c \in Setters : cpc[c] # "idle" => ctarget[c] \in Targets
    /\ \A s \in Schedulers :
          /\ spc[s] = "asleep" => todo[s] = {}
          /\ spc[s] = "inserting" => starget[s] \in Targets /\ \A c \in todo[s] : c.target # starget[s]
          /\ \A c, d \in todo[s] : c.target = d.target => c = d

AdmissionInv == TypeOK /\ OneOffer /\ OverrunBounded

\* Scheduler s queues a scan of the target t in this step.
Queues(s, t) ==
    spc[s] = "inserting" /\ spc'[s] = "looping" /\ starget[s] = t /\ target' # target

\* An interval has gone by since r queued a scan of t, or the owner set the schedule again.
Ready(r, t) == quiet[r][t] = Interval \/ rearmed[r][t]

\* However many loops there are, and however long each works on its snapshot, none of
\* them queues two scans of a site within an interval: a site is scanned no more often
\* in an interval than there are workers.
LoopIsWeekly == [][\A s \in Schedulers, t \in Targets : Queues(s, t) => Ready(s, t)]_vars

\* "turn a standing instruction ("check this weekly") into the same queued job a person
\* would have created" (scheduler.rs): one scan of a site in an interval.
Weekly == [][\A r, s \in Schedulers, t \in Targets : Queues(s, t) => Ready(r, t)]_vars

\* "Maximum scans per target per rolling 24 hours" (policy.rs).
BudgetKept == \A t \in Targets : Recent(t) <= MaxScans

\* "One free trial per site" (policy.rs): no site is scanned in the trials of two users;
\* a scan of a user who has paid before the trial's time is over is none of a free trial.
OneTrialPerSite ==
    \A a, b \in trialScans : a[3] /\ b[3] /\ Site[a[2]] = Site[b[2]] => a[1] = b[1]
=============================================================================
