----------------------------- MODULE ScanRunner -----------------------------
(***************************************************************************)
(* The scan worker's job loop (crates/orchestrator/src/runner.rs): several *)
(* worker processes share the scan_jobs table.  Each sweeps interrupted    *)
(* jobs back into the queue, claims one queued job at a time, re-derives   *)
(* the permission to scan, runs the tool, stores one row per finding,      *)
(* marks the job completed and mails the owner when the site changed.      *)
(* Every statement is its own transaction, so the steps of two workers     *)
(* interleave, and a worker may lose its connection or die between any two *)
(* of them.                                                                *)
(*                                                                         *)
(* Time is kept as ages: age[j] is how long the row of j has been in       *)
(* status running (now - started_at), saturated just past the sweep's      *)
(* cut-off; elapsed[r] is how long r has worked on its claim.              *)
(***************************************************************************)
EXTENDS Changes

CONSTANTS
    Runners,     \* worker processes
    Jobs,        \* ids of scan_jobs, numbered in the order of created_at
    Targets, Tools,
    Findings,    \* actionable findings, by rule and matcher (their address is left out)
    Title,       \* the title triage gives a finding: rules may share one
    RunCap,      \* the longest a live worker takes from claim to the job's end
    Stale,       \* STALE_RUNNING_MINUTES
    SweepEvery,  \* the 600 seconds between two sweeps of one worker
    MaxFaults,   \* bound on crashes and lost statements
    NoJob, NoRunner

ASSUME JobsAssumption     == Jobs \subseteq Nat /\ NoJob \notin Jobs
ASSUME RunnersAssumption  == NoRunner \notin Runners
\* "the longest scan is capped well below it": nuclei is killed at 40 of the 60 minutes.
ASSUME CapAssumption      == RunCap \in Nat /\ Stale \in Nat /\ RunCap <= Stale
ASSUME BoundsAssumption   == SweepEvery \in Nat \ {0} /\ MaxFaults \in Nat
ASSUME FindingsAssumption == IsFiniteSet(Findings)

VARIABLES
    \* the database
    status,      \* scan_jobs.status, "absent" before the row exists
    age,         \* now - started_at of a running row, 0 for the others
    subject,     \* <<target, tool>> of the job
    rows,        \* scan_results: the findings stored for a job
    completedAt, \* scan_jobs.completed_at of a completed job, as a count of completions
    monitored,   \* targets.scan_cadence <> 'manual'
    verified,    \* the target's latest proof is in force (see Ownership)
    \* the workers
    pc, job, elapsed, sinceSweep,
    found,       \* findings of the tool run
    base,        \* previous_job: the completed scan compared with, if any
    prev,        \* its keys, as folded before this scan was stored
    todo,        \* findings not inserted yet
    \* the world
    site,        \* what a scan of <<target, tool>> finds now
    faults,
    completions,
    notices,     \* change mails accepted for delivery, per job
    truth        \* what the run that completed a job found

db      == <<status, age, subject, rows, completedAt>>
local   == <<pc, job, elapsed, sinceSweep, found, base, prev, todo>>
world   == <<monitored, verified, site>>
history == <<faults, completions, notices, truth>>
vars    == <<db, local, world, history>>

Subjects == Targets \X Tools

\* Between the claim and the statement that ends the job.
Stages == {"authorizing", "scanning", "comparing", "storing", "failing"}

Executing(r) == pc[r] \in Stages
Busy(r)      == pc[r] \notin {"down", "idle"}

Ended(j) == status[j] \in {"completed", "failed"}

\* actionable_keys of the findings F, for every order they may be listed in: the
\* fold keeps one row of each title, with the rule of the finding listed first,
\* and that rule is in the row's key.
Keys(F) ==
    {K \in SUBSET F : /\ \A f \in F : \E k \in K : Title[k] = Title[f]
                      /\ \A k, l \in K : Title[k] = Title[l] => k = l}

TypeOK ==
    /\ status \in [Jobs -> {"absent", "queued", "running", "completed", "failed"}]
    /\ age \in [Jobs -> 0 .. Stale + 1]
    /\ subject \in [Jobs -> Subjects]
    /\ rows \in [Jobs -> SUBSET Findings]
    /\ completedAt \in [Jobs -> Nat]
    /\ monitored \in [Targets -> BOOLEAN]
    /\ verified \in [Targets -> BOOLEAN]
    /\ pc \in [Runners -> Stages \union {"down", "idle", "polling", "locking", "reporting"}]
    /\ job \in [Runners -> Jobs \union {NoJob}]
    /\ elapsed \in [Runners -> 0 .. RunCap]
    /\ sinceSweep \in [Runners -> 0 .. SweepEvery]
    /\ found \in [Runners -> SUBSET Findings]
    /\ base \in [Runners -> SUBSET Jobs]
    /\ prev \in [Runners -> SUBSET (SUBSET Findings)]
    /\ todo \in [Runners -> SUBSET Findings]
    /\ site \in [Subjects -> SUBSET Findings]
    /\ faults \in 0 .. MaxFaults
    /\ completions \in Nat
    /\ notices \in [Jobs -> Nat]
    /\ truth \in [Jobs -> SUBSET Findings]

\* A worker starts with a sweep due (last_sweep an hour in the past).
Init ==
    /\ status = [j \in Jobs |-> "absent"]
    /\ age = [j \in Jobs |-> 0]
    /\ subject \in [Jobs -> Subjects]
    /\ rows = [j \in Jobs |-> {}]
    /\ completedAt = [j \in Jobs |-> 0]
    /\ monitored \in [Targets -> BOOLEAN]
    /\ verified \in [Targets -> BOOLEAN]
    /\ pc = [r \in Runners |-> "idle"]
    /\ job = [r \in Runners |-> NoJob]
    /\ elapsed = [r \in Runners |-> 0]
    /\ sinceSweep = [r \in Runners |-> SweepEvery]
    /\ found = [r \in Runners |-> {}]
    /\ base = [r \in Runners |-> {}]
    /\ prev = [r \in Runners |-> {}]
    /\ todo = [r \in Runners |-> {}]
    /\ site \in [Subjects -> SUBSET Findings]
    /\ faults = 0
    /\ completions = 0
    /\ notices = [j \in Jobs |-> 0]
    /\ truth = [j \in Jobs |-> {}]
-----------------------------------------------------------------------------
(* The loop *)

\* The worker forgets its job and returns to the top of the loop.
Forget(r, to) ==
    /\ pc' = [pc EXCEPT ![r] = to]
    /\ job' = [job EXCEPT ![r] = NoJob]
    /\ elapsed' = [elapsed EXCEPT ![r] = 0]
    /\ found' = [found EXCEPT ![r] = {}]
    /\ base' = [base EXCEPT ![r] = {}]
    /\ prev' = [prev EXCEPT ![r] = {}]
    /\ todo' = [todo EXCEPT ![r] = {}]

SweepDue(r) == sinceSweep[r] = SweepEvery

\* Two plausible bugs: a sweep with no cut-off, and the worker as it was before
\* it swept at all.
InterruptedAny(j)   == status[j] = "running"
InterruptedNever(j) == FALSE

\* Running for longer than the cut-off.
Interrupted(j) == status[j] = "running" /\ age[j] > Stale

\* requeue_interrupted, one statement over every such row.
Sweep(r) ==
    /\ pc[r] = "idle" /\ SweepDue(r)
    /\ status' = [j \in Jobs |-> IF Interrupted(j) THEN "queued" ELSE status[j]]
    /\ age' = [j \in Jobs |-> IF Interrupted(j) THEN 0 ELSE age[j]]
    /\ sinceSweep' = [sinceSweep EXCEPT ![r] = 0]
    /\ pc' = [pc EXCEPT ![r] = "polling"]
    /\ UNCHANGED <<subject, rows, completedAt, job, elapsed, found, base, prev, todo, world, history>>

\* The statement fails: it is logged, and the next sweep is as far away as ever.
SweepFails(r) ==
    /\ pc[r] = "idle" /\ SweepDue(r) /\ faults < MaxFaults
    /\ faults' = faults + 1
    /\ sinceSweep' = [sinceSweep EXCEPT ![r] = 0]
    /\ pc' = [pc EXCEPT ![r] = "polling"]
    /\ UNCHANGED <<db, job, elapsed, found, base, prev, todo, world, completions, notices, truth>>

\* A worker polls right after its sweep, or at the top of the loop when none is due.
Polling(r) == pc[r] = "polling" \/ (pc[r] = "idle" /\ ~SweepDue(r))

\* Queued rows that no other worker's claim has locked.
Unlocked == {j \in Jobs : status[j] = "queued" /\ \A q \in Runners : ~(pc[q] = "locking" /\ job[q] = j)}

\* claim_next_job, the inner select: lock the oldest queued row, skip locked ones.
Lock(r, j) ==
    /\ Polling(r)
    /\ j \in Unlocked
    /\ \A i \in Unlocked : j <= i
    /\ pc' = [pc EXCEPT ![r] = "locking"]
    /\ job' = [job EXCEPT ![r] = j]
    /\ UNCHANGED <<db, elapsed, sinceSweep, found, base, prev, todo, world, history>>

\* claim_next_job, the update: it commits, which releases the lock.
Claim(r) ==
    /\ pc[r] = "locking"
    /\ status' = [status EXCEPT ![job[r]] = "running"]
    /\ age' = [age EXCEPT ![job[r]] = 0]
    /\ pc' = [pc EXCEPT ![r] = "authorizing"]
    /\ UNCHANGED <<subject, rows, completedAt, job, elapsed, sinceSweep, found, base, prev, todo, world, history>>

\* Nothing to claim: sleep for IDLE_POLL_SECS.
Rest(r) ==
    /\ pc[r] = "polling" /\ Unlocked = {}
    /\ pc' = [pc EXCEPT ![r] = "idle"]
    /\ UNCHANGED <<db, job, elapsed, sinceSweep, found, base, prev, todo, world, history>>
-----------------------------------------------------------------------------
(* execute *)

\* authorized_domain: refused without a proof in force at this moment.
Authorize(r) ==
    /\ pc[r] = "authorizing"
    /\ pc' = [pc EXCEPT ![r] = IF verified[subject[job[r]][1]] THEN "scanning" ELSE "failing"]
    /\ UNCHANGED <<db, job, elapsed, sinceSweep, found, base, prev, todo, world, history>>

\* The tool ends, with what the site shows, or with an error or its timeout.
Scan(r) ==
    /\ pc[r] = "scanning"
    /\ \/ /\ pc' = [pc EXCEPT ![r] = "comparing"]
          /\ found' = [found EXCEPT ![r] = site[subject[job[r]]]]
       \/ /\ pc' = [pc EXCEPT ![r] = "failing"]
          /\ UNCHANGED found
    /\ UNCHANGED <<db, job, elapsed, sinceSweep, base, prev, todo, world, history>>

\* A plausible bug: the comparison takes a scan that is still storing its findings.
EarlierUnfinished(j) ==
    {i \in Jobs \ {j} : status[i] \in {"running", "completed"} /\ subject[i] = subject[j]}

\* The completed jobs on j's target and tool, j itself left out.
Earlier(j) ==
    {i \in Jobs \ {j} : status[i] = "completed" /\ subject[i] = subject[j]}

\* The one completed last.
Latest(S) == {i \in S : \A k \in S : completedAt[k] <= completedAt[i]}

\* previous_actionable_keys, before anything of this scan is stored; the rows are
\* selected with no order.
ReadPrevious(r) ==
    /\ pc[r] = "comparing"
    /\ pc' = [pc EXCEPT ![r] = "storing"]
    /\ \/ /\ Earlier(job[r]) = {}
          /\ base' = [base EXCEPT ![r] = {}]
          /\ prev' = [prev EXCEPT ![r] = {}]
       \/ \E i \in Latest(Earlier(job[r])) :
             /\ base' = [base EXCEPT ![r] = {i}]
             /\ \E keys \in Keys(rows[i]) : prev' = [prev EXCEPT ![r] = {keys}]
    /\ todo' = [todo EXCEPT ![r] = found[r]]
    /\ UNCHANGED <<db, job, elapsed, sinceSweep, found, world, history>>

\* store_findings: one insert, committed on its own.
Insert(r, f) ==
    /\ pc[r] = "storing" /\ f \in todo[r]
    /\ rows' = [rows EXCEPT ![job[r]] = @ \union {f}]
    /\ todo' = [todo EXCEPT ![r] = @ \ {f}]
    /\ UNCHANGED <<status, age, subject, completedAt, pc, job, elapsed, sinceSweep, found, base, prev, world, history>>

\* A plausible bug: the job is marked completed while findings remain to be stored.
CompleteEarly(r) ==
    /\ pc[r] = "storing"
    /\ status' = [status EXCEPT ![job[r]] = "completed"]
    /\ age' = [age EXCEPT ![job[r]] = 0]
    /\ completedAt' = [completedAt EXCEPT ![job[r]] = completions + 1]
    /\ completions' = completions + 1
    /\ truth' = [truth EXCEPT ![job[r]] = found[r]]
    /\ pc' = [pc EXCEPT ![r] = "reporting"]
    /\ UNCHANGED <<subject, rows, job, elapsed, sinceSweep, found, base, prev, todo, world, faults, notices>>

\* The update that completes the job; it names the id and no status.
Complete(r) ==
    /\ pc[r] = "storing" /\ todo[r] = {}
    /\ status' = [status EXCEPT ![job[r]] = "completed"]
    /\ age' = [age EXCEPT ![job[r]] = 0]
    /\ completedAt' = [completedAt EXCEPT ![job[r]] = completions + 1]
    /\ completions' = completions + 1
    /\ truth' = [truth EXCEPT ![job[r]] = found[r]]
    /\ pc' = [pc EXCEPT ![r] = "reporting"]
    /\ UNCHANGED <<subject, rows, job, elapsed, sinceSweep, found, base, prev, todo, world, faults, notices>>

\* report_change, with this scan's findings in the order the tool printed them; a
\* mail that cannot be sent is logged and forgotten.
Report(r) ==
    /\ pc[r] = "reporting"
    /\ \/ /\ \E keys \in Keys(found[r]) : WorthReporting(prev[r], keys)
          /\ monitored[subject[job[r]][1]]
          /\ notices' = [notices EXCEPT ![job[r]] = @ + 1]
       \/ UNCHANGED notices
    /\ Forget(r, "idle")
    /\ UNCHANGED <<db, sinceSweep, world, faults, completions, truth>>

\* fail_job: like Complete, it names the id and no status.
Fail(r) ==
    /\ pc[r] = "failing"
    /\ status' = [status EXCEPT ![job[r]] = "failed"]
    /\ age' = [age EXCEPT ![job[r]] = 0]
    /\ Forget(r, "idle")
    /\ UNCHANGED <<subject, rows, completedAt, sinceSweep, world, history>>
-----------------------------------------------------------------------------
(* Faults: execute returns an error at a failed statement, the loop logs it
   and goes on, the row keeps its status and a lock is rolled back; or the process dies and its
   supervisor starts another.  After Complete the error is the answer to the
   update that was lost, so the report is skipped. *)

Abandon(r) ==
    /\ Busy(r) /\ faults < MaxFaults
    /\ faults' = faults + 1
    /\ Forget(r, "idle")
    /\ UNCHANGED <<db, sinceSweep, world, completions, notices, truth>>

Crash(r) ==
    /\ pc[r] # "down" /\ faults < MaxFaults
    /\ faults' = faults + 1
    /\ Forget(r, "down")
    /\ UNCHANGED <<db, sinceSweep, world, completions, notices, truth>>

Restart(r) ==
    /\ pc[r] = "down"
    /\ pc' = [pc EXCEPT ![r] = "idle"]
    /\ sinceSweep' = [sinceSweep EXCEPT ![r] = SweepEvery]
    /\ UNCHANGED <<db, job, elapsed, found, base, prev, todo, world, history>>
-----------------------------------------------------------------------------
(* The rest of the system, as the worker sees it *)

\* The API or the scheduler commits a job with its authorization.
Enqueue(j) ==
    /\ status[j] = "absent"
    /\ \A i \in Jobs : i < j => status[i] # "absent"
    /\ status' = [status EXCEPT ![j] = "queued"]
    /\ UNCHANGED <<age, subject, rows, completedAt, local, world, history>>

\* A proof lapses or is renewed, a schedule is set or removed, a site changes.
World ==
    /\ \/ \E t \in Targets : /\ verified' = [verified EXCEPT ![t] = ~@]
                             /\ UNCHANGED <<monitored, site>>
       \/ \E t \in Targets : /\ monitored' = [monitored EXCEPT ![t] = ~@]
                             /\ UNCHANGED <<verified, site>>
       \/ \E s \in Subjects, F \in SUBSET Findings : /\ site' = [site EXCEPT ![s] = F]
                                                     /\ UNCHANGED <<monitored, verified>>
    /\ UNCHANGED <<db, local, history>>

\* A plausible bug: no timeout on the tool.
TickNoTimeout ==
    /\ age' = [j \in Jobs |-> IF status[j] = "running" /\ age[j] <= Stale
                              THEN age[j] + 1 ELSE age[j]]
    /\ elapsed' = [r \in Runners |-> IF Executing(r) THEN elapsed[r] + 1 ELSE elapsed[r]]
    /\ sinceSweep' = [r \in Runners |-> IF sinceSweep[r] < SweepEvery
                                        THEN sinceSweep[r] + 1 ELSE sinceSweep[r]]
    /\ UNCHANGED <<status, subject, rows, completedAt, pc, job, found, base, prev, todo, world, history>>

\* A worker's steps between claim and end take at most RunCap.
Tick ==
    /\ \A r \in Runners : Executing(r) => elapsed[r] < RunCap
    /\ age' = [j \in Jobs |-> IF status[j] = "running" /\ age[j] <= Stale
                              THEN age[j] + 1 ELSE age[j]]
    /\ elapsed' = [r \in Runners |-> IF Executing(r) THEN elapsed[r] + 1 ELSE elapsed[r]]
    /\ sinceSweep' = [r \in Runners |-> IF sinceSweep[r] < SweepEvery
                                        THEN sinceSweep[r] + 1 ELSE sinceSweep[r]]
    /\ UNCHANGED <<status, subject, rows, completedAt, pc, job, found, base, prev, todo, world, history>>
-----------------------------------------------------------------------------
\* One turn of run_forever by worker r.
Step(r) ==
    \/ Sweep(r)
    \/ \E j \in Jobs : Lock(r, j)
    \/ Claim(r)
    \/ Rest(r)
    \/ Authorize(r)
    \/ Scan(r)
    \/ ReadPrevious(r)
    \/ \E f \in Findings : Insert(r, f)
    \/ Complete(r)
    \/ Report(r)
    \/ Fail(r)
    \/ Restart(r)

Next ==
    \/ \E r \in Runners : Step(r) \/ SweepFails(r) \/ Abandon(r) \/ Crash(r)
    \/ \E j \in Jobs : Enqueue(j)
    \/ World
    \/ Tick

Spec == Init /\ [][Next]_vars

\* A worker that is up keeps looping, a dead one is restarted, time passes.
Fairness == WF_vars(Tick) /\ \A r \in Runners : WF_vars(Step(r))

FairSpec == Spec /\ Fairness
-----------------------------------------------------------------------------
(* Properties *)

\* No job is in the hands of two workers between its claim and its end, although
\* the sweep takes a job from a worker without asking it.
OneExecutor ==
    \A q, r \in Runners : Executing(q) /\ Executing(r) /\ job[q] = job[r] => q = r

\* A worker that is executing still holds its job: the row says running and was
\* started by this worker's claim.  This is what makes OneExecutor inductive.
HoldsJob ==
    \A r \in Runners : Executing(r) =>
        /\ job[r] \in Jobs
        /\ status[job[r]] = "running"
        /\ age[job[r]] = elapsed[r]

\* A row that a claim has locked stays queued until the claim commits, and no
\* two claims lock one row.
HoldsLock ==
    \A r \in Runners : pc[r] = "locking" =>
        /\ job[r] \in Jobs
        /\ status[job[r]] = "queued"
        /\ \A q \in Runners : pc[q] = "locking" /\ job[q] = job[r] => q = r

\* A worker between lock and report has a job of the table.
HasJob == \A r \in Runners : pc[r] \in Stages \union {"locking", "reporting"} => job[r] \in Jobs

\* The clock of a claim starts with the claim.
ClockAtRest == \A r \in Runners : ~Executing(r) /\ pc[r] # "reporting" => elapsed[r] = 0

\* The inductive invariant: at most one worker holds a job, because the row's
\* age is that worker's own time and RunCap keeps it under the sweep's cut-off.
RunnerInv == TypeOK /\ HasJob /\ OneExecutor /\ HoldsJob /\ HoldsLock /\ ClockAtRest

\* A job that ended never runs again and is never relabelled, although the
\* updates that end a job do not look at its status.
EndedStays ==
    [][\A j \in Jobs : Ended(j) => status'[j] = status[j]]_vars

\* A completed job has every finding of the run that completed it, and nobody
\* adds to a completed report afterwards.
ReportComplete ==
    [][\A j \in Jobs : status'[j] = "completed" =>
            /\ truth'[j] \subseteq rows'[j]
            /\ status[j] = "completed" => rows'[j] = rows[j]]_vars

\* One scan is announced at most once, whatever fails and whoever reruns it.
NoticeOnce == \A j \in Jobs : notices[j] <= 1

\* What makes NoticeOnce and ReportComplete inductive: only one worker is about
\* to announce a job, the job is completed and not announced yet; and the
\* findings that are not waiting to be inserted are in the table.
ReportInv ==
    /\ \A r \in Runners : pc[r] = "reporting" =>
          /\ status[job[r]] = "completed"
          /\ notices[job[r]] = 0
          /\ \A q \in Runners : pc[q] = "reporting" /\ job[q] = job[r] => q = r
    /\ \A r \in Runners : pc[r] = "storing" => found[r] \subseteq rows[job[r]] \union todo[r]
    /\ \A j \in Jobs : status[j] = "completed" => truth[j] \subseteq rows[j]
    /\ \A j \in Jobs : notices[j] = 0 \/ (notices[j] = 1 /\ status[j] = "completed")

\* The step sends a change notice for the scan of worker r.
Notifies(r) == pc[r] = "reporting" /\ notices'[job[r]] # notices[job[r]]

\* The scan r is reporting differs from the one it was compared with, and both
\* are scans of one target by one tool.
Differs(r) == \E b \in base[r] : subject[b] = subject[job[r]] /\ truth[b] # found[r]

\* Two findings of F have one title.
Mixed(F) == \E f, g \in F : f # g /\ Title[f] = Title[g]

\* "Emails the owner when a monitored site has changed. Only on a change"
\* (runner.rs, report_change): a notice goes out only after a scan that found
\* something else than the scan before it, on the same target with the same tool.
NoticeMeansChange == [][\A r \in Runners : Notifies(r) => Differs(r)]_vars

\* What does hold of report_change, with two exceptions.  After a fault the rows
\* of an interrupted run stay, and are part of the next comparison.  And a scan
\* with two findings of one title may name that title's row by either rule.
NoticeMeansChangeUnlessFault ==
    [][faults = 0 => \A r \in Runners : Notifies(r) => Differs(r) \/ Mixed(found[r])]_vars

\* A queued job ends, even if workers die on it: the sweep gives it back.
EveryJobEnds == \A j \in Jobs : status[j] = "queued" ~> Ended(j)

\* The workers implement the queue in which only a job's owner may end it.
Holder(j) ==
    IF \E r \in Runners : Executing(r) /\ job[r] = j
    THEN CHOOSE r \in Runners : Executing(r) /\ job[r] = j
    ELSE NoRunner

Queue == INSTANCE LeasedQueue WITH state <- status, owner <- [j \in Jobs |-> Holder(j)]

ImplementsQueue == Queue!Spec
=============================================================================
