-------------------------- MODULE ScanRunnerProofs --------------------------
(***************************************************************************)
(* Proofs about ScanRunner, for any number of workers, jobs and keys and   *)
(* any time bounds with RunCap <= Stale.                                   *)
(***************************************************************************)
EXTENDS ScanRunner, FiniteSetTheorems, TLAPS

USE DEF Stages, Executing, Subjects

-----------------------------------------------------------------------------
(* Type correctness *)

\* The first state is of the right type.
LEMMA InitTypeOK == Init => TypeOK
  BY CapAssumption, BoundsAssumption DEF Init, TypeOK

\* A worker that is done with its job, or dies, keeps its fields in their types.
LEMMA ForgetType ==
  ASSUME TypeOK, NEW r \in Runners, NEW to \in {"idle", "down"}, Forget(r, to)
  PROVE  /\ pc' \in [Runners -> Stages \union {"down", "idle", "polling", "locking", "reporting"}]
         /\ job' \in [Runners -> Jobs \union {NoJob}]
         /\ elapsed' \in [Runners -> 0 .. RunCap]
         /\ found' \in [Runners -> SUBSET Findings]
         /\ base' \in [Runners -> SUBSET Jobs]
         /\ prev' \in [Runners -> SUBSET (SUBSET Findings)]
         /\ todo' \in [Runners -> SUBSET Findings]
  BY CapAssumption DEF Forget, TypeOK

\* Every step of a worker, of the API and of the clock keeps the types.
LEMMA NextTypeOK == TypeOK /\ HasJob /\ [Next]_vars => TypeOK'
  <1> SUFFICES ASSUME TypeOK, HasJob, [Next]_vars PROVE TypeOK'
    OBVIOUS
  <1> USE CapAssumption, BoundsAssumption
  <1>1. ASSUME NEW r \in Runners, Sweep(r) PROVE TypeOK'
    BY <1>1 DEF Sweep, TypeOK, world, history
  <1>2. ASSUME NEW r \in Runners, NEW j \in Jobs, Lock(r, j) PROVE TypeOK'
    BY <1>2 DEF Lock, TypeOK, db, world, history
  <1>3. ASSUME NEW r \in Runners, Claim(r) PROVE TypeOK'
    <2>1. job[r] \in Jobs
      BY <1>3 DEF Claim, HasJob
    <2> QED
      BY <1>3, <2>1 DEF Claim, TypeOK, world, history
  <1>4. ASSUME NEW r \in Runners, Rest(r) PROVE TypeOK'
    BY <1>4 DEF Rest, TypeOK, db, world, history
  <1>5. ASSUME NEW r \in Runners, Authorize(r) PROVE TypeOK'
    BY <1>5 DEF Authorize, TypeOK, db, world, history
  <1>6. ASSUME NEW r \in Runners, Scan(r) PROVE TypeOK'
    <2>1. job[r] \in Jobs
      BY <1>6 DEF Scan, HasJob
    <2>2. site[subject[job[r]]] \in SUBSET Findings
      BY <2>1 DEF TypeOK
    <2> QED
      BY <1>6, <2>2 DEF Scan, TypeOK, db, world, history
  <1>7. ASSUME NEW r \in Runners, ReadPrevious(r) PROVE TypeOK'
    <2>1. /\ UNCHANGED <<db, job, elapsed, sinceSweep, found, world, history>>
          /\ pc' = [pc EXCEPT ![r] = "storing"]
          /\ todo' = [todo EXCEPT ![r] = found[r]]
      BY <1>7 DEF ReadPrevious
    <2>2. base' \in [Runners -> SUBSET Jobs] /\ prev' \in [Runners -> SUBSET (SUBSET Findings)]
      <3>1. PICK B \in SUBSET Jobs, P \in SUBSET (SUBSET Findings) :
                base' = [base EXCEPT ![r] = B] /\ prev' = [prev EXCEPT ![r] = P]
        <4>1. CASE base' = [base EXCEPT ![r] = {}] /\ prev' = [prev EXCEPT ![r] = {}]
          BY <4>1
        <4>2. ASSUME NEW i \in Latest(Earlier(job[r])), NEW keys \in Keys(rows[i]),
                     base' = [base EXCEPT ![r] = {i}], prev' = [prev EXCEPT ![r] = {keys}]
              PROVE  \E B \in SUBSET Jobs, P \in SUBSET (SUBSET Findings) :
                         base' = [base EXCEPT ![r] = B] /\ prev' = [prev EXCEPT ![r] = P]
          <5>1. i \in Jobs
            BY DEF Latest, Earlier
          <5>2. keys \in SUBSET Findings
            BY <5>1 DEF Keys, TypeOK
          <5> QED
            BY <4>2, <5>1, <5>2
        <4> QED
          BY <1>7, <4>1, <4>2 DEF ReadPrevious
      <3> QED
        BY <3>1 DEF TypeOK
    <2> QED
      BY <2>1, <2>2 DEF TypeOK, db, world, history
  <1>8. ASSUME NEW r \in Runners, NEW f \in Findings, Insert(r, f) PROVE TypeOK'
    <2>1. rows' = [j \in Jobs |-> IF j = job[r] THEN rows[j] \union {f} ELSE rows[j]]
      BY <1>8 DEF Insert, TypeOK
    <2>2. rows' \in [Jobs -> SUBSET Findings]
      <3>1. \A j \in Jobs : rows[j] \in SUBSET Findings /\ rows[j] \union {f} \in SUBSET Findings
        BY DEF TypeOK
      <3> QED
        BY <2>1, <3>1
    <2>3. todo[r] \ {f} \in SUBSET Findings
      BY DEF TypeOK
    <2>4. todo' \in [Runners -> SUBSET Findings]
      BY <1>8, <2>3 DEF Insert, TypeOK
    <2> QED
      BY <1>8, <2>2, <2>4 DEF Insert, TypeOK, world, history
  <1>9. ASSUME NEW r \in Runners, Complete(r) PROVE TypeOK'
    <2>1. job[r] \in Jobs
      BY <1>9 DEF Complete, HasJob
    <2> QED
      BY <1>9, <2>1 DEF Complete, TypeOK, world
  <1>10. ASSUME NEW r \in Runners, Report(r) PROVE TypeOK'
    <2>1. Forget(r, "idle")
      BY <1>10 DEF Report
    <2>2. job[r] \in Jobs
      BY <1>10 DEF Report, HasJob
    <2>3. notices' \in [Jobs -> Nat]
      <3>1. notices' = [notices EXCEPT ![job[r]] = @ + 1] \/ notices' = notices
        BY <1>10 DEF Report
      <3>2. notices \in [Jobs -> Nat]
        BY DEF TypeOK
      <3> HIDE DEF TypeOK
      <3> QED
        BY <2>2, <3>1, <3>2
    <2>4. UNCHANGED <<db, sinceSweep, world, faults, completions, truth>>
      BY <1>10 DEF Report
    <2> QED
      BY <2>1, <2>3, <2>4, ForgetType DEF TypeOK, db, world
  <1>11. ASSUME NEW r \in Runners, Fail(r) PROVE TypeOK'
    <2>1. Forget(r, "idle")
      BY <1>11 DEF Fail
    <2>2. job[r] \in Jobs
      BY <1>11 DEF Fail, HasJob
    <2> QED
      BY <1>11, <2>1, <2>2, ForgetType DEF Fail, TypeOK, world, history
  <1>12. ASSUME NEW r \in Runners, Restart(r) PROVE TypeOK'
    BY <1>12 DEF Restart, TypeOK, db, world, history
  <1>19. ASSUME NEW r \in Runners, SweepFails(r) PROVE TypeOK'
    BY <1>19, BoundsAssumption DEF SweepFails, TypeOK, db, world
  <1>13. ASSUME NEW r \in Runners, Abandon(r) PROVE TypeOK'
    <2>1. Forget(r, "idle")
      BY <1>13 DEF Abandon
    <2> QED
      BY <1>13, <2>1, ForgetType DEF Abandon, TypeOK, db, world
  <1>14. ASSUME NEW r \in Runners, Crash(r) PROVE TypeOK'
    <2>1. Forget(r, "down")
      BY <1>14 DEF Crash
    <2> QED
      BY <1>14, <2>1, ForgetType DEF Crash, TypeOK, db, world
  <1>15. ASSUME NEW j \in Jobs, Enqueue(j) PROVE TypeOK'
    BY <1>15 DEF Enqueue, TypeOK, local, world, history
  <1>16. CASE World
    <2>1. monitored' \in [Targets -> BOOLEAN] /\ verified' \in [Targets -> BOOLEAN]
      BY <1>16, Zenon DEF World, TypeOK
    <2>2. site' \in [Subjects -> SUBSET Findings]
      <3>1. CASE site' = site
        BY <3>1 DEF TypeOK
      <3>2. ASSUME NEW s \in Subjects, NEW K \in SUBSET Findings, site' = [site EXCEPT ![s] = K]
            PROVE  site' \in [Subjects -> SUBSET Findings]
        BY <3>2 DEF TypeOK
      <3> QED
        BY <1>16, <3>1, <3>2 DEF World
    <2> QED
      BY <1>16, <2>1, <2>2 DEF World, TypeOK, db, local, history
  <1>17. CASE Tick
    BY <1>17 DEF Tick, TypeOK, world, history
  <1>18. CASE UNCHANGED vars
    BY <1>18 DEF vars, db, local, world, history, TypeOK
  <1> QED
    BY <1>1, <1>2, <1>3, <1>4, <1>5, <1>6, <1>7, <1>8, <1>9, <1>10, <1>11,
       <1>12, <1>13, <1>14, <1>15, <1>16, <1>17, <1>18, <1>19 DEF Next, Step
-----------------------------------------------------------------------------
(* The lease *)

Lease == HasJob /\ OneExecutor /\ HoldsJob /\ HoldsLock /\ ClockAtRest

\* Nobody holds a job in the first state.
LEMMA InitLease == Init => Lease
  BY DEF Init, Lease, HasJob, OneExecutor, HoldsJob, HoldsLock, ClockAtRest

\* Every step keeps who has which job and lock, and the clock of a worker at rest.
LEMMA NextLease == RunnerInv /\ [Next]_vars => Lease'
  <1> SUFFICES ASSUME RunnerInv, [Next]_vars PROVE Lease'
    OBVIOUS
  <1> USE CapAssumption, JobsAssumption DEF RunnerInv, TypeOK, Lease, HasJob, OneExecutor, HoldsJob, HoldsLock, ClockAtRest
  <1>1. ASSUME NEW r \in Runners, Sweep(r) PROVE Lease'
    BY <1>1 DEF Sweep, Interrupted
  <1>2. ASSUME NEW r \in Runners, NEW j \in Jobs, Lock(r, j) PROVE Lease'
    BY <1>2 DEF Lock, Unlocked, Polling, db
  <1>3. ASSUME NEW r \in Runners, Claim(r) PROVE Lease'
    BY <1>3 DEF Claim
  <1>4. ASSUME NEW r \in Runners, Rest(r) PROVE Lease'
    BY <1>4 DEF Rest, db
  <1>5. ASSUME NEW r \in Runners, Authorize(r) PROVE Lease'
    BY <1>5 DEF Authorize, db
  <1>6. ASSUME NEW r \in Runners, Scan(r) PROVE Lease'
    <2>1. pc' = [pc EXCEPT ![r] = "comparing"] \/ pc' = [pc EXCEPT ![r] = "failing"]
      BY <1>6, Zenon DEF Scan
    <2>2. pc[r] = "scanning" /\ UNCHANGED <<status, age, job, elapsed>>
      BY <1>6 DEF Scan, db
    <2>3. CASE pc' = [pc EXCEPT ![r] = "comparing"]
      BY <2>2, <2>3
    <2>4. CASE pc' = [pc EXCEPT ![r] = "failing"]
      BY <2>2, <2>4
    <2> QED
      BY <2>1, <2>3, <2>4
  <1>7. ASSUME NEW r \in Runners, ReadPrevious(r) PROVE Lease'
    BY <1>7 DEF ReadPrevious, db
  <1>8. ASSUME NEW r \in Runners, NEW f \in Findings, Insert(r, f) PROVE Lease'
    BY <1>8 DEF Insert
  <1>9. ASSUME NEW r \in Runners, Complete(r) PROVE Lease'
    BY <1>9 DEF Complete
  <1>10. ASSUME NEW r \in Runners, Report(r) PROVE Lease'
    BY <1>10 DEF Report, Forget, db
  <1>11. ASSUME NEW r \in Runners, Fail(r) PROVE Lease'
    BY <1>11 DEF Fail, Forget
  <1>12. ASSUME NEW r \in Runners, Restart(r) PROVE Lease'
    BY <1>12 DEF Restart, db
  <1>19. ASSUME NEW r \in Runners, SweepFails(r) PROVE Lease'
    BY <1>19 DEF SweepFails, db
  <1>13. ASSUME NEW r \in Runners, Abandon(r) PROVE Lease'
    BY <1>13 DEF Abandon, Forget, db
  <1>14. ASSUME NEW r \in Runners, Crash(r) PROVE Lease'
    BY <1>14 DEF Crash, Forget, db
  <1>15. ASSUME NEW j \in Jobs, Enqueue(j) PROVE Lease'
    BY <1>15 DEF Enqueue, local
  <1>16. CASE World
    BY <1>16 DEF World, db, local
  <1>17. CASE Tick
    BY <1>17 DEF Tick
  <1>18. CASE UNCHANGED vars
    BY <1>18 DEF vars, db, local
  <1> QED
    BY <1>1, <1>2, <1>3, <1>4, <1>5, <1>6, <1>7, <1>8, <1>9, <1>10, <1>11, <1>12, <1>13, <1>14, <1>15, <1>16, <1>17, <1>18, <1>19 DEF Next, Step

\* Every state of every behaviour satisfies the inductive invariant.
THEOREM RunnerInvariant == Spec => []RunnerInv
  <1>1. Init => RunnerInv
    BY InitTypeOK, InitLease DEF RunnerInv, Lease
  <1>2. RunnerInv /\ [Next]_vars => RunnerInv'
    BY NextTypeOK, NextLease DEF RunnerInv, Lease
  <1> QED
    BY <1>1, <1>2, PTL DEF Spec

\* No two workers ever execute one job: the sweep (requeue_interrupted) takes a
\* job only from a worker that is gone.
THEOREM MutualExclusion == Spec => []OneExecutor
  BY RunnerInvariant, PTL DEF RunnerInv

\* A job that ended stays ended (status 'completed' or 'failed'): the updates of
\* execute and fail_job name only the id, and are safe because their worker holds
\* the job.
THEOREM EndedJobsStayEnded == Spec => EndedStays
  <1>1. RunnerInv /\ [Next]_vars => [\A j \in Jobs : Ended(j) => status'[j] = status[j]]_vars
    <2> SUFFICES ASSUME RunnerInv, [Next]_vars, NEW j \in Jobs, Ended(j)
                 PROVE  status'[j] = status[j]
      BY DEF vars
    <2> USE DEF RunnerInv, TypeOK, Ended
    <2>1. ASSUME NEW r \in Runners, Sweep(r) PROVE status'[j] = status[j]
      BY <2>1 DEF Sweep, Interrupted
    <2>2. ASSUME NEW r \in Runners, Claim(r) PROVE status'[j] = status[j]
      BY <2>2 DEF Claim, HoldsLock
    <2>3. ASSUME NEW r \in Runners, Complete(r) \/ Fail(r) PROVE status'[j] = status[j]
      BY <2>3 DEF Complete, Fail, HoldsJob
    <2>4. ASSUME NEW i \in Jobs, Enqueue(i) PROVE status'[j] = status[j]
      BY <2>4 DEF Enqueue
    <2>5. ASSUME NEW r \in Runners,
                 \/ Rest(r) \/ Authorize(r) \/ Scan(r) \/ ReadPrevious(r)
                 \/ Report(r) \/ Restart(r) \/ SweepFails(r) \/ Abandon(r) \/ Crash(r)
          PROVE  status' = status
      BY <2>5 DEF Rest, Authorize, Scan, ReadPrevious, Report, Restart, SweepFails, Abandon, Crash, db
    <2>6. ASSUME NEW r \in Runners, \/ \E i \in Jobs : Lock(r, i)
                                    \/ \E f \in Findings : Insert(r, f)
          PROVE  status' = status
      BY <2>6 DEF Lock, Insert, db
    <2>7. ASSUME World \/ Tick \/ UNCHANGED vars PROVE status' = status
      BY <2>7 DEF World, Tick, vars, db
    <2> QED
      BY <2>1, <2>2, <2>3, <2>4, <2>5, <2>6, <2>7 DEF Next, Step
  <1> QED
    BY <1>1, RunnerInvariant, PTL DEF Spec, EndedStays
-----------------------------------------------------------------------------
(* Refinement of LeasedQueue *)

\* Holder names the one worker that executes a job.
HolderMeaning ==
    \A j \in Jobs :
        /\ Holder(j) \in Runners \union {NoRunner}
        /\ \A r \in Runners : Holder(j) = r <=> Executing(r) /\ job[r] = j

\* With one executor for each job, Holder finds it.
LEMMA HolderIsExecutor == OneExecutor => HolderMeaning
  <1> SUFFICES ASSUME OneExecutor, NEW j \in Jobs
               PROVE  /\ Holder(j) \in Runners \union {NoRunner}
                      /\ \A r \in Runners : Holder(j) = r <=> Executing(r) /\ job[r] = j
    BY DEF HolderMeaning
  <1>1. CASE \E r \in Runners : Executing(r) /\ job[r] = j
    <2>1. PICK q \in Runners : Executing(q) /\ job[q] = j
      BY <1>1
    <2>2. Holder(j) \in Runners /\ Executing(Holder(j)) /\ job[Holder(j)] = j
      BY <1>1 DEF Holder
    <2> QED
      BY <2>1, <2>2 DEF OneExecutor
  <1>2. CASE ~ \E r \in Runners : Executing(r) /\ job[r] = j
    <2>1. Holder(j) = NoRunner
      BY <1>2 DEF Holder
    <2> QED
      BY <1>2, <2>1, RunnersAssumption
  <1> QED
    BY <1>1, <1>2

\* A step that changes neither who executes what nor a status is a stutter of the queue.
LEMMA SameHolders ==
  ASSUME HolderMeaning, HolderMeaning',
         \A r \in Runners : (Executing(r) /\ job[r] \in Jobs) <=> (Executing(r) /\ job[r] \in Jobs)',
         \A r \in Runners : Executing(r) => job'[r] = job[r]
  PROVE  \A j \in Jobs : Holder(j)' = Holder(j)
  <1> SUFFICES ASSUME NEW j \in Jobs PROVE Holder(j)' = Holder(j)
    OBVIOUS
  <1>1. \A r \in Runners : Holder(j) = r <=> Holder(j)' = r
    BY DEF HolderMeaning
  <1>2. Holder(j) \in Runners \union {NoRunner} /\ Holder(j)' \in Runners \union {NoRunner}
    BY DEF HolderMeaning
  <1> QED
    BY <1>1, <1>2

\* Every step of the workers is a step of the queue, or leaves it as it is.
LEMMA StepImplementsQueue ==
  ASSUME RunnerInv, RunnerInv', HolderMeaning, HolderMeaning', [Next]_vars
  PROVE  [Queue!Next]_(Queue!vars)
  <1> DEFINE own == [j \in Jobs |-> Holder(j)]
  <1> USE DEF RunnerInv, TypeOK
  <1>0. ASSUME status' = status, \A j \in Jobs : Holder(j)' = Holder(j)
        PROVE  UNCHANGED Queue!vars
    BY <1>0 DEF Queue!vars
  <1>1. ASSUME NEW r \in Runners, Sweep(r) PROVE [Queue!Next]_(Queue!vars)
    <2> DEFINE S == {j \in Jobs : Interrupted(j)}
    <2>1. \A j \in Jobs : Holder(j)' = Holder(j)
      BY <1>1, SameHolders DEF Sweep
    <2>2. \A j \in S : status[j] = "running" /\ own[j] = NoRunner
      BY CapAssumption DEF Interrupted, HoldsJob, HolderMeaning
    <2>3. status' = [j \in Jobs |-> IF j \in S THEN "queued" ELSE status[j]]
      BY <1>1 DEF Sweep
    <2>4. Queue!Return(S)
      BY <2>1, <2>2, <2>3 DEF Queue!Return
    <2> QED
      BY <2>4 DEF Queue!Next
  <1>2. ASSUME NEW r \in Runners, Claim(r) PROVE [Queue!Next]_(Queue!vars)
    <2>1. job[r] \in Jobs /\ status[job[r]] = "queued"
      BY <1>2 DEF Claim, HoldsLock
    <2>2. own[job[r]] = NoRunner
      BY <2>1 DEF HoldsJob, HolderMeaning
    <2>3. \A i \in Jobs : own[i] # r
      BY <1>2 DEF Claim, HolderMeaning
    <2>4. \A i \in Jobs : Holder(i)' = IF i = job[r] THEN r ELSE Holder(i)
      <3> SUFFICES ASSUME NEW i \in Jobs
                   PROVE  Holder(i)' = IF i = job[r] THEN r ELSE Holder(i)
        OBVIOUS
      <3>1. \A q \in Runners : (Executing(q) /\ job[q] = i)'
                                <=> (q = r /\ i = job[r]) \/ (Executing(q) /\ job[q] = i)
        BY <1>2 DEF Claim
      <3>2. CASE i = job[r]
        BY <3>1, <3>2 DEF HolderMeaning
      <3>3. CASE i # job[r]
        <4>1. \A q \in Runners : Holder(i)' = q <=> Holder(i) = q
          BY <3>1, <3>3 DEF HolderMeaning
        <4> QED
          BY <3>3, <4>1 DEF HolderMeaning
      <3> QED
        BY <3>2, <3>3
    <2>5. own' = [own EXCEPT ![job[r]] = r]
      BY <2>1, <2>4
    <2>6. Queue!Take(r, job[r])
      BY <1>2, <2>1, <2>2, <2>3, <2>5 DEF Queue!Take, Claim
    <2> QED
      BY <2>1, <2>6 DEF Queue!Next
  <1>3. ASSUME NEW r \in Runners, NEW how \in {"completed", "failed"}, Executing(r), ~Executing(r)',
               status' = [status EXCEPT ![job[r]] = how],
               \A q \in Runners \ {r} : pc'[q] = pc[q] /\ job'[q] = job[q]
        PROVE [Queue!Next]_(Queue!vars)
    <2>1. job[r] \in Jobs /\ status[job[r]] = "running" /\ own[job[r]] = r
      BY <1>3 DEF HoldsJob, HolderMeaning
    <2>2. \A i \in Jobs : Holder(i)' = IF i = job[r] THEN NoRunner ELSE Holder(i)
      <3> SUFFICES ASSUME NEW i \in Jobs
                   PROVE  Holder(i)' = IF i = job[r] THEN NoRunner ELSE Holder(i)
        OBVIOUS
      <3>1. \A q \in Runners : (Executing(q) /\ job[q] = i)' <=> (q # r /\ Executing(q) /\ job[q] = i)
        BY <1>3
      <3> QED
        BY <1>3, <3>1 DEF HolderMeaning, OneExecutor
    <2>3. own' = [own EXCEPT ![job[r]] = NoRunner]
      BY <2>1, <2>2
    <2>4. Queue!End(r, job[r], how)
      BY <1>3, <2>1, <2>3 DEF Queue!End
    <2> QED
      BY <2>1, <2>4 DEF Queue!Next
  <1>4. ASSUME NEW r \in Runners, Complete(r) PROVE [Queue!Next]_(Queue!vars)
    <2>1. /\ Executing(r) /\ ~Executing(r)' /\ status' = [status EXCEPT ![job[r]] = "completed"]
          /\ \A q \in Runners \ {r} : pc'[q] = pc[q] /\ job'[q] = job[q]
      BY <1>4 DEF Complete, Executing, Stages
    <2> QED
      BY <1>3, <2>1
  <1>5. ASSUME NEW r \in Runners, Fail(r) PROVE [Queue!Next]_(Queue!vars)
    <2>1. /\ Executing(r) /\ ~Executing(r)' /\ status' = [status EXCEPT ![job[r]] = "failed"]
          /\ \A q \in Runners \ {r} : pc'[q] = pc[q] /\ job'[q] = job[q]
      BY <1>5 DEF Fail, Forget, Executing, Stages
    <2> QED
      BY <1>3, <2>1
  <1>6. ASSUME NEW r \in Runners, Abandon(r) \/ Crash(r) PROVE [Queue!Next]_(Queue!vars)
    <2>1. /\ status' = status /\ ~Executing(r)'
          /\ \A q \in Runners \ {r} : pc'[q] = pc[q] /\ job'[q] = job[q]
      BY <1>6 DEF Abandon, Crash, Forget, db
    <2>2. CASE Executing(r)
      <3>1. job[r] \in Jobs /\ own[job[r]] = r
        BY <2>2 DEF HoldsJob, HolderMeaning
      <3>2. \A i \in Jobs : Holder(i)' = IF i = job[r] THEN NoRunner ELSE Holder(i)
        <4> SUFFICES ASSUME NEW i \in Jobs
                     PROVE  Holder(i)' = IF i = job[r] THEN NoRunner ELSE Holder(i)
          OBVIOUS
        <4>1. \A q \in Runners : (Executing(q) /\ job[q] = i)' <=> (q # r /\ Executing(q) /\ job[q] = i)
          BY <2>1
        <4> QED
          BY <2>2, <4>1 DEF HolderMeaning, OneExecutor
      <3>3. own' = [own EXCEPT ![job[r]] = NoRunner]
        BY <3>1, <3>2
      <3>4. Queue!Lose(job[r])
        BY <2>1, <3>1, <3>3, RunnersAssumption DEF Queue!Lose
      <3> QED
        BY <3>1, <3>4 DEF Queue!Next
    <2>3. CASE ~Executing(r)
      <3>1. \A j \in Jobs : Holder(j)' = Holder(j)
        BY <2>1, <2>3, SameHolders
      <3> QED
        BY <2>1, <3>1, <1>0
    <2> QED
      BY <2>2, <2>3
  <1>7. ASSUME NEW j \in Jobs, Enqueue(j) PROVE [Queue!Next]_(Queue!vars)
    <2>1. \A i \in Jobs : Holder(i)' = Holder(i)
      BY <1>7, SameHolders DEF Enqueue, local
    <2>2. Queue!Add(j)
      BY <1>7, <2>1 DEF Queue!Add, Enqueue
    <2> QED
      BY <2>2 DEF Queue!Next
  <1>8. ASSUME NEW r \in Runners, \/ Rest(r) \/ Authorize(r) \/ Scan(r) \/ ReadPrevious(r)
                                  \/ Report(r) \/ Restart(r) \/ SweepFails(r)
                                  \/ \E j \in Jobs : Lock(r, j)
                                  \/ \E f \in Findings : Insert(r, f)
        PROVE  [Queue!Next]_(Queue!vars)
    <2>1. status' = status
      BY <1>8 DEF Rest, Authorize, Scan, ReadPrevious, Report, Restart, SweepFails, Lock, Insert, db
    <2>2. \A q \in Runners : Executing(q) <=> Executing(q)'
      BY <1>8 DEF Rest, Authorize, Scan, ReadPrevious, Report, Forget, Restart, SweepFails, Lock, Polling, Insert
    <2>3. \A q \in Runners : Executing(q) => job'[q] = job[q]
      BY <1>8 DEF Rest, Authorize, Scan, ReadPrevious, Report, Forget, Restart, SweepFails, Lock, Polling, Insert
    <2>4. \A j \in Jobs : Holder(j)' = Holder(j)
      BY <2>2, <2>3, SameHolders
    <2> QED
      BY <2>1, <2>4, <1>0
  <1>9. ASSUME World \/ Tick \/ UNCHANGED vars PROVE [Queue!Next]_(Queue!vars)
    <2>1. UNCHANGED <<status, pc, job>>
      BY <1>9 DEF World, Tick, vars, db, local
    <2>2. \A j \in Jobs : Holder(j)' = Holder(j)
      BY <2>1, SameHolders
    <2> QED
      BY <2>1, <2>2, <1>0
  <1> QED
    BY <1>1, <1>2, <1>4, <1>5, <1>6, <1>7, <1>8, <1>9 DEF Next, Step

\* The workers with their clocks, crashes and id-only updates implement the queue
\* in which a job has one owner and only its owner ends it.
THEOREM RunnersImplementQueue == Spec => ImplementsQueue
  <1>1. Init => Queue!Init
    BY DEF Init, Queue!Init, Holder
  <1>2. RunnerInv /\ RunnerInv' /\ [Next]_vars => [Queue!Next]_(Queue!vars)
    <2>1. OneExecutor => HolderMeaning
      BY HolderIsExecutor
    <2>2. (OneExecutor => HolderMeaning)'
      BY HolderIsExecutor, PTL
    <2> QED
      BY <2>1, <2>2, StepImplementsQueue DEF RunnerInv
  <1> QED
    BY <1>1, <1>2, RunnerInvariant, PTL DEF Spec, Queue!Spec, ImplementsQueue
-----------------------------------------------------------------------------
(* Reports and notices *)

\* There is no report in the first state.
LEMMA InitReportInv == Init => ReportInv
  BY DEF Init, ReportInv

\* Every step keeps what a report holds.
LEMMA NextReportInv == RunnerInv /\ ReportInv /\ [Next]_vars => ReportInv'
  <1> SUFFICES ASSUME RunnerInv, ReportInv, [Next]_vars PROVE ReportInv'
    OBVIOUS
  <1> USE DEF RunnerInv, TypeOK, ReportInv, HasJob
  <1>1. ASSUME NEW r \in Runners, Sweep(r) PROVE ReportInv'
    BY <1>1 DEF Sweep, Interrupted, history
  <1>2. ASSUME NEW r \in Runners, NEW j \in Jobs, Lock(r, j) PROVE ReportInv'
    BY <1>2 DEF Lock, Polling, db, history
  <1>3. ASSUME NEW r \in Runners, Claim(r) PROVE ReportInv'
    BY <1>3 DEF Claim, history, HoldsLock
  <1>4. ASSUME NEW r \in Runners, Rest(r) PROVE ReportInv'
    BY <1>4 DEF Rest, db, history
  <1>5. ASSUME NEW r \in Runners, Authorize(r) PROVE ReportInv'
    BY <1>5 DEF Authorize, db, history
  <1>6. ASSUME NEW r \in Runners, Scan(r) PROVE ReportInv'
    BY <1>6 DEF Scan, db, history
  <1>7. ASSUME NEW r \in Runners, ReadPrevious(r) PROVE ReportInv'
    BY <1>7 DEF ReadPrevious, db, history
  <1>8. ASSUME NEW r \in Runners, NEW f \in Findings, Insert(r, f) PROVE ReportInv'
    BY <1>8 DEF Insert, history, HoldsJob, OneExecutor
  <1>9. ASSUME NEW r \in Runners, Complete(r) PROVE ReportInv'
    BY <1>9 DEF Complete, HoldsJob, OneExecutor
  <1>10. ASSUME NEW r \in Runners, Report(r) PROVE ReportInv'
    BY <1>10 DEF Report, Forget, db
  <1>11. ASSUME NEW r \in Runners, Fail(r) PROVE ReportInv'
    BY <1>11 DEF Fail, Forget, history, HoldsJob, OneExecutor
  <1>12. ASSUME NEW r \in Runners, Restart(r) PROVE ReportInv'
    BY <1>12 DEF Restart, db, history
  <1>19. ASSUME NEW r \in Runners, SweepFails(r) PROVE ReportInv'
    BY <1>19 DEF SweepFails, db
  <1>13. ASSUME NEW r \in Runners, Abandon(r) PROVE ReportInv'
    BY <1>13 DEF Abandon, Forget, db
  <1>14. ASSUME NEW r \in Runners, Crash(r) PROVE ReportInv'
    BY <1>14 DEF Crash, Forget, db
  <1>15. ASSUME NEW j \in Jobs, Enqueue(j) PROVE ReportInv'
    BY <1>15 DEF Enqueue, local, history
  <1>16. CASE World
    BY <1>16 DEF World, db, local, history
  <1>17. CASE Tick
    BY <1>17 DEF Tick, history
  <1>18. CASE UNCHANGED vars
    BY <1>18 DEF vars, db, local, history
  <1> QED
    BY <1>1, <1>2, <1>3, <1>4, <1>5, <1>6, <1>7, <1>8, <1>9, <1>10, <1>11, <1>12, <1>13, <1>14, <1>15, <1>16, <1>17, <1>18, <1>19 DEF Next, Step

\* What a report holds is an invariant of the workers, in any interleaving.
THEOREM ReportInvariant == Spec => []ReportInv
  <1>1. RunnerInv /\ ReportInv /\ [Next]_vars => ReportInv'
    BY NextReportInv
  <1> QED
    BY <1>1, InitReportInv, RunnerInvariant, PTL DEF Spec

\* report_change sends at most one mail for a scan, whatever fails in between.
THEOREM OneNoticePerScan == Spec => []NoticeOnce
  <1>1. ReportInv => NoticeOnce
    BY DEF ReportInv, NoticeOnce
  <1> QED
    BY <1>1, ReportInvariant, PTL

\* A completed report holds all its findings and is never added to.
THEOREM ReportsAreComplete == Spec => ReportComplete
  <1>1. RunnerInv /\ ReportInv /\ ReportInv' /\ [Next]_vars =>
          [\A j \in Jobs : status'[j] = "completed" =>
                /\ truth'[j] \subseteq rows'[j]
                /\ status[j] = "completed" => rows'[j] = rows[j]]_vars
    <2> SUFFICES ASSUME RunnerInv, ReportInv, ReportInv', [Next]_vars,
                        NEW j \in Jobs, status'[j] = "completed"
                 PROVE  /\ truth'[j] \subseteq rows'[j]
                        /\ status[j] = "completed" => rows'[j] = rows[j]
      OBVIOUS
    <2>1. truth'[j] \subseteq rows'[j]
      BY DEF ReportInv
    <2>2. ASSUME status[j] = "completed", NEW r \in Runners, NEW f \in Findings, Insert(r, f)
          PROVE  rows'[j] = rows[j]
      BY <2>2 DEF Insert, RunnerInv, HoldsJob, TypeOK
    <2>3. ASSUME NEW r \in Runners,
                 \/ Sweep(r) \/ Claim(r) \/ Rest(r) \/ Authorize(r) \/ Scan(r) \/ ReadPrevious(r)
                 \/ Complete(r) \/ Report(r) \/ Fail(r) \/ Restart(r) \/ SweepFails(r) \/ Abandon(r) \/ Crash(r)
                 \/ \E i \in Jobs : Lock(r, i)
          PROVE  rows' = rows
      BY <2>3 DEF Sweep, Claim, Rest, Authorize, Scan, ReadPrevious, Complete, Report, Fail,
                  Restart, SweepFails, Abandon, Crash, Lock, db
    <2>4. ASSUME World \/ Tick \/ UNCHANGED vars \/ \E i \in Jobs : Enqueue(i)
          PROVE  rows' = rows
      BY <2>4 DEF World, Tick, Enqueue, vars, db
    <2> QED
      BY <2>1, <2>2, <2>3, <2>4 DEF Next, Step
  <1> QED
    BY <1>1, RunnerInvariant, ReportInvariant, PTL DEF Spec, ReportComplete
-----------------------------------------------------------------------------
(* Notices and what changed *)

\* The scan a worker compares with was completed, is one of the same target and
\* tool, and its keys as the worker read them are keys of the rows in the table.
BaseInv ==
    \A r \in Runners : pc[r] \in {"storing", "reporting"} =>
        /\ \A b \in base[r] : status[b] = "completed" /\ subject[b] = subject[job[r]]
        /\ \A K \in prev[r] : \E b \in base[r] : K \in Keys(rows[b])

\* Until something fails, every row in status running has its worker and every
\* job is run once, so that the keys in the table are those of that one run.
CleanInv ==
    faults = 0 =>
        /\ \A j \in Jobs : status[j] = "running" => \E r \in Runners : Executing(r) /\ job[r] = j
        /\ \A j \in Jobs : status[j] \in {"absent", "queued"} => rows[j] = {}
        /\ \A r \in Runners : Executing(r) /\ pc[r] # "storing" => rows[job[r]] = {}
        /\ \A r \in Runners : pc[r] = "storing" => rows[job[r]] \union todo[r] \subseteq found[r]
        /\ \A j \in Jobs : status[j] = "completed" => rows[j] = truth[j]

\* No worker compares anything in the first state.
LEMMA InitNoticeInv == Init => BaseInv /\ CleanInv
  BY DEF Init, BaseInv, CleanInv

\* A completed job stays completed with the rows it has, and no job changes its
\* target or tool.
LEMMA CompletedKept ==
  ASSUME RunnerInv, [Next]_vars
  PROVE  /\ subject' = subject
         /\ \A b \in Jobs : status[b] = "completed" => status'[b] = "completed" /\ rows'[b] = rows[b]
  <1> USE DEF RunnerInv, TypeOK, HasJob
  <1>1. ASSUME NEW r \in Runners, Sweep(r) PROVE subject' = subject /\ rows' = rows
                 /\ \A b \in Jobs : status[b] = "completed" => status'[b] = "completed"
    BY <1>1 DEF Sweep, Interrupted
  <1>2. ASSUME NEW r \in Runners, Claim(r) \/ Fail(r) PROVE subject' = subject /\ rows' = rows
                 /\ \A b \in Jobs : status[b] = "completed" => status'[b] = "completed"
    BY <1>2 DEF Claim, Fail, HoldsLock, HoldsJob
  <1>3. ASSUME NEW r \in Runners, Complete(r) PROVE subject' = subject /\ rows' = rows
                 /\ \A b \in Jobs : status[b] = "completed" => status'[b] = "completed"
    BY <1>3 DEF Complete
  <1>4. ASSUME NEW r \in Runners, NEW f \in Findings, Insert(r, f)
        PROVE  /\ subject' = subject /\ status' = status
               /\ \A b \in Jobs : status[b] = "completed" => rows'[b] = rows[b]
    BY <1>4 DEF Insert, HoldsJob
  <1>5. ASSUME NEW r \in Runners,
               \/ Rest(r) \/ Authorize(r) \/ Scan(r) \/ ReadPrevious(r) \/ Report(r) \/ Restart(r)
               \/ SweepFails(r) \/ Abandon(r) \/ Crash(r) \/ \E j \in Jobs : Lock(r, j)
        PROVE  subject' = subject /\ rows' = rows /\ status' = status
    BY <1>5 DEF Rest, Authorize, Scan, ReadPrevious, Report, Restart, SweepFails, Abandon, Crash, Lock, db
  <1>6. ASSUME NEW j \in Jobs, Enqueue(j) PROVE subject' = subject /\ rows' = rows
                 /\ \A b \in Jobs : status[b] = "completed" => status'[b] = "completed"
    BY <1>6 DEF Enqueue
  <1>7. ASSUME World \/ Tick \/ UNCHANGED vars PROVE subject' = subject /\ rows' = rows /\ status' = status
    BY <1>7 DEF World, Tick, vars, db
  <1> QED
    BY <1>1, <1>2, <1>3, <1>4, <1>5, <1>6, <1>7 DEF Next, Step

\* A worker on its way from the comparison to the report keeps its job, what it
\* found and what it compares with; others get there by ReadPrevious.
LEMMA ComparisonKept ==
  ASSUME RunnerInv, [Next]_vars, NEW q \in Runners, pc'[q] \in {"storing", "reporting"}
  PROVE  \/ /\ pc[q] \in {"storing", "reporting"}
            /\ job'[q] = job[q] /\ base'[q] = base[q] /\ prev'[q] = prev[q] /\ found'[q] = found[q]
         \/ ReadPrevious(q)
  <1> DEFINE Kept == /\ pc[q] \in {"storing", "reporting"}
                     /\ job'[q] = job[q] /\ base'[q] = base[q] /\ prev'[q] = prev[q] /\ found'[q] = found[q]
  <1> USE DEF RunnerInv, TypeOK
  <1>1. ASSUME NEW r \in Runners, Sweep(r) \/ Claim(r) \/ Rest(r) \/ SweepFails(r) PROVE Kept
    BY <1>1 DEF Sweep, Claim, Rest, SweepFails
  <1>2. ASSUME NEW r \in Runners, NEW j \in Jobs, Lock(r, j) PROVE Kept
    BY <1>2 DEF Lock
  <1>3. ASSUME NEW r \in Runners, Authorize(r) PROVE Kept
    BY <1>3 DEF Authorize
  <1>4. ASSUME NEW r \in Runners, Scan(r) PROVE Kept
    BY <1>4 DEF Scan
  <1>5. ASSUME NEW r \in Runners, ReadPrevious(r), r # q PROVE Kept
    BY <1>5 DEF ReadPrevious
  <1>6. ASSUME NEW r \in Runners, NEW f \in Findings, Insert(r, f) PROVE Kept
    BY <1>6 DEF Insert
  <1>7. ASSUME NEW r \in Runners, Complete(r) PROVE Kept
    BY <1>7 DEF Complete
  <1>8. ASSUME NEW r \in Runners, Report(r) \/ Fail(r) \/ Abandon(r) \/ Crash(r) PROVE Kept
    <2>1. Forget(r, "idle") \/ Forget(r, "down")
      BY <1>8 DEF Report, Fail, Abandon, Crash
    <2> QED
      BY <2>1 DEF Forget
  <1>9. ASSUME NEW r \in Runners, Restart(r) PROVE Kept
    BY <1>9 DEF Restart
  <1>10. ASSUME (\E j \in Jobs : Enqueue(j)) \/ World \/ Tick \/ UNCHANGED vars PROVE Kept
    BY <1>10 DEF Enqueue, World, Tick, vars, local
  <1> QED
    BY <1>1, <1>2, <1>3, <1>4, <1>5, <1>6, <1>7, <1>8, <1>9, <1>10 DEF Next, Step

\* Every step keeps the comparisons under way true to the table.
LEMMA NextBaseInv == RunnerInv /\ BaseInv /\ [Next]_vars => BaseInv'
  <1> SUFFICES ASSUME RunnerInv, BaseInv, [Next]_vars,
                      NEW q \in Runners, pc'[q] \in {"storing", "reporting"}
               PROVE  /\ \A b \in base'[q] : status'[b] = "completed" /\ subject'[b] = subject'[job'[q]]
                      /\ \A K \in prev'[q] : \E b \in base'[q] : K \in Keys(rows'[b])
    BY DEF BaseInv
  <1>1. CASE ReadPrevious(q)
    <2>1. /\ \/ base'[q] = {} /\ prev'[q] = {}
             \/ \E i \in Latest(Earlier(job[q])) :
                   base'[q] = {i} /\ \E keys \in Keys(rows[i]) : prev'[q] = {keys}
          /\ job'[q] = job[q] /\ status' = status /\ rows' = rows /\ subject' = subject
      <3>1. base \in [Runners -> SUBSET Jobs] /\ prev \in [Runners -> SUBSET (SUBSET Findings)]
        BY DEF RunnerInv, TypeOK
      <3>2. CASE base' = [base EXCEPT ![q] = {}] /\ prev' = [prev EXCEPT ![q] = {}]
        BY <1>1, <3>1, <3>2 DEF ReadPrevious, db
      <3>3. ASSUME NEW i \in Latest(Earlier(job[q])), NEW keys \in Keys(rows[i]),
                   base' = [base EXCEPT ![q] = {i}], prev' = [prev EXCEPT ![q] = {keys}]
            PROVE  base'[q] = {i} /\ prev'[q] = {keys}
        BY <3>1, <3>3
      <3>4. job'[q] = job[q] /\ status' = status /\ rows' = rows /\ subject' = subject
        BY <1>1 DEF ReadPrevious, db
      <3>5. \/ base' = [base EXCEPT ![q] = {}] /\ prev' = [prev EXCEPT ![q] = {}]
            \/ \E i \in Latest(Earlier(job[q])) : \E keys \in Keys(rows[i]) :
                  base' = [base EXCEPT ![q] = {i}] /\ prev' = [prev EXCEPT ![q] = {keys}]
        BY <1>1 DEF ReadPrevious
      <3>6. CASE \E i \in Latest(Earlier(job[q])) : \E keys \in Keys(rows[i]) :
                   base' = [base EXCEPT ![q] = {i}] /\ prev' = [prev EXCEPT ![q] = {keys}]
        BY <3>3, <3>4, <3>6
      <3> QED
        BY <3>2, <3>5, <3>6
    <2>2. \A b \in Latest(Earlier(job[q])) : status[b] = "completed" /\ subject[b] = subject[job[q]]
      BY DEF Latest, Earlier
    <2>3. CASE base'[q] = {} /\ prev'[q] = {}
      BY <2>3
    <2>4. ASSUME NEW i \in Latest(Earlier(job[q])), NEW keys \in Keys(rows[i]),
                 base'[q] = {i}, prev'[q] = {keys}
          PROVE  /\ \A b \in base'[q] : status'[b] = "completed" /\ subject'[b] = subject'[job'[q]]
                 /\ \A K \in prev'[q] : \E b \in base'[q] : K \in Keys(rows'[b])
      <3>1. status'[i] = "completed" /\ subject'[i] = subject'[job'[q]]
        BY <2>1, <2>2
      <3>2. keys \in Keys(rows'[i])
        BY <2>1
      <3> QED
        BY <2>4, <3>1, <3>2
    <2> QED
      BY <2>1, <2>3, <2>4
  <1>2. CASE /\ pc[q] \in {"storing", "reporting"}
             /\ job'[q] = job[q] /\ base'[q] = base[q] /\ prev'[q] = prev[q]
    <2>1. base[q] \subseteq Jobs
      BY DEF RunnerInv, TypeOK
    <2>2. \A b \in base[q] : status[b] = "completed" /\ subject[b] = subject[job[q]]
      BY <1>2 DEF BaseInv
    <2>3. \A K \in prev[q] : \E b \in base[q] : K \in Keys(rows[b])
      BY <1>2 DEF BaseInv
    <2> QED
      BY <1>2, <2>1, <2>2, <2>3, CompletedKept
  <1> QED
    BY <1>1, <1>2, ComparisonKept

\* A step that leaves the table alone, and in each worker what a run has in hand.
LEMMA CleanKept ==
  ASSUME CleanInv, UNCHANGED <<status, rows, truth, faults>>,
         \A q \in Runners : /\ pc'[q] \in Stages <=> pc[q] \in Stages
                            /\ pc[q] \in Stages => job'[q] = job[q]
                            /\ pc'[q] = "storing" <=> pc[q] = "storing"
                            /\ pc[q] = "storing" => found'[q] = found[q] /\ todo'[q] = todo[q]
  PROVE  CleanInv'
  <1> SUFFICES ASSUME faults = 0
               PROVE  /\ \A j \in Jobs : status[j] = "running" => \E q \in Runners : pc'[q] \in Stages /\ job'[q] = j
                      /\ \A j \in Jobs : status[j] \in {"absent", "queued"} => rows[j] = {}
                      /\ \A q \in Runners : pc'[q] \in Stages /\ pc'[q] # "storing" => rows[job'[q]] = {}
                      /\ \A q \in Runners : pc'[q] = "storing" => rows[job'[q]] \union todo'[q] \subseteq found'[q]
                      /\ \A j \in Jobs : status[j] = "completed" => rows[j] = truth[j]
    BY DEF CleanInv, Executing
  <1>1. \A j \in Jobs : status[j] = "running" => \E q \in Runners : pc[q] \in Stages /\ job[q] = j
    BY DEF CleanInv, Executing
  <1>2. \A j \in Jobs : status[j] = "running" => \E q \in Runners : pc'[q] \in Stages /\ job'[q] = j
    BY <1>1
  <1>3. \A q \in Runners : pc'[q] \in Stages /\ pc'[q] # "storing" => rows[job'[q]] = {}
    <2> SUFFICES ASSUME NEW q \in Runners, pc'[q] \in Stages, pc'[q] # "storing" PROVE rows[job'[q]] = {}
      OBVIOUS
    <2>1. pc[q] \in Stages /\ pc[q] # "storing" /\ job'[q] = job[q]
      OBVIOUS
    <2>2. rows[job[q]] = {}
      BY <2>1 DEF CleanInv, Executing
    <2> QED
      BY <2>1, <2>2
  <1>4. \A q \in Runners : pc'[q] = "storing" => rows[job'[q]] \union todo'[q] \subseteq found'[q]
    <2> SUFFICES ASSUME NEW q \in Runners, pc'[q] = "storing" PROVE rows[job'[q]] \union todo'[q] \subseteq found'[q]
      OBVIOUS
    <2>1. pc[q] = "storing" /\ found'[q] = found[q] /\ todo'[q] = todo[q]
      OBVIOUS
    <2>2. job'[q] = job[q]
      BY <2>1 DEF Stages
    <2>3. rows[job[q]] \union todo[q] \subseteq found[q]
      BY <2>1 DEF CleanInv
    <2> QED
      BY <2>1, <2>2, <2>3
  <1>5. /\ \A j \in Jobs : status[j] \in {"absent", "queued"} => rows[j] = {}
        /\ \A j \in Jobs : status[j] = "completed" => rows[j] = truth[j]
    BY DEF CleanInv
  <1> QED
    BY <1>2, <1>3, <1>4, <1>5

\* Every step keeps the table to one run per job, as long as nothing fails.
LEMMA NextCleanInv == RunnerInv /\ ReportInv /\ CleanInv /\ [Next]_vars => CleanInv'
  <1> SUFFICES ASSUME RunnerInv, ReportInv, CleanInv, [Next]_vars PROVE CleanInv'
    OBVIOUS
  <1> USE DEF RunnerInv, TypeOK, HasJob
  <1>1. ASSUME NEW r \in Runners, Sweep(r) PROVE CleanInv'
    <2>1. ASSUME faults = 0, NEW j \in Jobs PROVE ~Interrupted(j)
      BY <2>1, CapAssumption DEF Interrupted, HoldsJob, CleanInv
    <2>2. ASSUME faults = 0 PROVE status' = status
      BY <1>1, <2>1, <2>2 DEF Sweep
    <2>3. /\ UNCHANGED <<rows, truth, faults, job, found, todo>>
          /\ \A q \in Runners : (pc'[q] \in Stages <=> pc[q] \in Stages) /\ (pc'[q] = "storing" <=> pc[q] = "storing")
      BY <1>1 DEF Sweep, history, Stages
    <2>4. CASE faults = 0
      BY <2>2, <2>3, <2>4, CleanKept
    <2>5. CASE faults # 0
      BY <2>3, <2>5 DEF CleanInv
    <2> QED
      BY <2>4, <2>5
  <1>2. ASSUME NEW r \in Runners, NEW j \in Jobs, Lock(r, j) PROVE CleanInv'
    <2>1. /\ pc[r] \in {"polling", "idle"} /\ pc' = [pc EXCEPT ![r] = "locking"]
          /\ job' = [job EXCEPT ![r] = j]
          /\ UNCHANGED <<status, rows, found, todo, faults, truth>>
      BY <1>2 DEF Lock, Polling, db, history
    <2>2. \A q \in Runners : /\ (pc'[q] \in Stages <=> pc[q] \in Stages) /\ (pc'[q] = "storing" <=> pc[q] = "storing")
                             /\ pc[q] \in Stages => job'[q] = job[q]
      BY <2>1 DEF Stages
    <2> QED
      BY <2>1, <2>2, CleanKept
  <1>3. ASSUME NEW r \in Runners, Claim(r) PROVE CleanInv'
    BY <1>3 DEF Claim, history, HoldsLock, CleanInv
  <1>4. ASSUME NEW r \in Runners, Rest(r) PROVE CleanInv'
    <2>1. /\ UNCHANGED <<status, rows, truth, faults, job, found, todo>>
          /\ \A q \in Runners : (pc'[q] \in Stages <=> pc[q] \in Stages) /\ (pc'[q] = "storing" <=> pc[q] = "storing")
      BY <1>4 DEF Rest, db, history, Stages
    <2> QED
      BY <2>1, CleanKept
  <1>5. ASSUME NEW r \in Runners, Authorize(r) PROVE CleanInv'
    <2>1. /\ UNCHANGED <<status, rows, truth, faults, job, found, todo>>
          /\ \A q \in Runners : (pc'[q] \in Stages <=> pc[q] \in Stages) /\ (pc'[q] = "storing" <=> pc[q] = "storing")
      BY <1>5 DEF Authorize, db, history, Stages
    <2> QED
      BY <2>1, CleanKept
  <1>6. ASSUME NEW r \in Runners, Scan(r) PROVE CleanInv'
    <2>1. /\ UNCHANGED <<status, rows, truth, faults, job, todo>>
          /\ \A q \in Runners : (pc'[q] \in Stages <=> pc[q] \in Stages) /\ (pc'[q] = "storing" <=> pc[q] = "storing")
      BY <1>6 DEF Scan, db, history, Stages
    <2>2. \A q \in Runners : pc[q] = "storing" => found'[q] = found[q]
      BY <1>6 DEF Scan
    <2> QED
      BY <2>1, <2>2, CleanKept
  <1>7. ASSUME NEW r \in Runners, ReadPrevious(r) PROVE CleanInv'
    BY <1>7 DEF ReadPrevious, db, history, CleanInv
  <1>8. ASSUME NEW r \in Runners, NEW f \in Findings, Insert(r, f) PROVE CleanInv'
    BY <1>8 DEF Insert, history, HoldsJob, OneExecutor, CleanInv
  <1>9. ASSUME NEW r \in Runners, Complete(r) PROVE CleanInv'
    <2>1. /\ pc[r] = "storing" /\ todo[r] = {} /\ pc'[r] = "reporting" /\ job[r] \in Jobs
          /\ status'[job[r]] = "completed" /\ truth'[job[r]] = found[r]
          /\ UNCHANGED <<rows, job, found, todo, faults>>
      BY <1>9 DEF Complete
    <2>2. \A q \in Runners : q # r => pc'[q] = pc[q]
      BY <1>9 DEF Complete
    <2>3. \A j \in Jobs : j # job[r] => status'[j] = status[j] /\ truth'[j] = truth[j]
      BY <1>9 DEF Complete
    <2>4. faults = 0 => rows[job[r]] = found[r]
      <3>1. found[r] \subseteq rows[job[r]] \union todo[r]
        BY <2>1 DEF ReportInv
      <3>2. faults = 0 => rows[job[r]] \union todo[r] \subseteq found[r]
        BY <2>1 DEF CleanInv
      <3>3. PICK R : R = rows[job[r]]
        OBVIOUS
      <3>4. R \union todo[r] = R
        BY <2>1
      <3> HIDE DEF RunnerInv, TypeOK, HasJob
      <3> QED
        BY <3>1, <3>2, <3>3, <3>4
    <2>6. ASSUME faults = 0, NEW j \in Jobs, status'[j] = "running"
          PROVE  \E q \in Runners : pc'[q] \in Stages /\ job[q] = j
      <3>1. j # job[r] /\ status[j] = "running"
        BY <2>1, <2>3, <2>6
      <3>2. PICK q \in Runners : Executing(q) /\ job[q] = j
        BY <2>6, <3>1 DEF CleanInv
      <3>3. q # r
        BY <3>1, <3>2
      <3>4. pc'[q] = pc[q]
        BY <2>2, <3>3
      <3> QED
        BY <3>2, <3>4
    <2>7. faults = 0 => \A j \in Jobs : status'[j] = "completed" => rows[j] = truth'[j]
      BY <2>1, <2>3, <2>4 DEF CleanInv
    <2>8. faults = 0 => \A j \in Jobs : status'[j] \in {"absent", "queued"} => rows[j] = {}
      BY <2>1, <2>3 DEF CleanInv
    <2>9. faults = 0 => \A q \in Runners : pc'[q] \in Stages => q # r /\ pc'[q] = pc[q]
      BY <2>1, <2>2
    <2> QED
      BY <2>1, <2>6, <2>7, <2>8, <2>9 DEF CleanInv
  <1>10. ASSUME NEW r \in Runners, Report(r) PROVE CleanInv'
    <2>1. /\ UNCHANGED <<status, rows, truth, faults>>
          /\ pc[r] = "reporting" /\ pc' = [pc EXCEPT ![r] = "idle"]
          /\ \A q \in Runners : q # r => job'[q] = job[q] /\ found'[q] = found[q] /\ todo'[q] = todo[q]
      BY <1>10 DEF Report, Forget, db
    <2>2. \A q \in Runners : /\ (pc'[q] \in Stages <=> pc[q] \in Stages) /\ (pc'[q] = "storing" <=> pc[q] = "storing")
                             /\ (pc[q] \in Stages => q # r) /\ (pc[q] = "storing" => q # r)
      BY <2>1 DEF Stages
    <2> QED
      BY <2>1, <2>2, CleanKept
  <1>11. ASSUME NEW r \in Runners, Fail(r) PROVE CleanInv'
    BY <1>11 DEF Fail, Forget, history, HoldsJob, OneExecutor, CleanInv
  <1>12. ASSUME NEW r \in Runners, Restart(r) PROVE CleanInv'
    <2>1. /\ UNCHANGED <<status, rows, truth, faults, job, found, todo>>
          /\ \A q \in Runners : (pc'[q] \in Stages <=> pc[q] \in Stages) /\ (pc'[q] = "storing" <=> pc[q] = "storing")
      BY <1>12 DEF Restart, db, history, Stages
    <2> QED
      BY <2>1, CleanKept
  <1>13. ASSUME NEW r \in Runners, SweepFails(r) \/ Abandon(r) \/ Crash(r) PROVE CleanInv'
    <2>1. faults' # 0
      BY <1>13 DEF SweepFails, Abandon, Crash
    <2> QED
      BY <2>1 DEF CleanInv
  <1>14. ASSUME NEW j \in Jobs, Enqueue(j) PROVE CleanInv'
    BY <1>14 DEF Enqueue, local, history, CleanInv
  <1>15. CASE World
    <2>1. /\ UNCHANGED <<status, rows, truth, faults, job, found, todo>>
          /\ \A q \in Runners : (pc'[q] \in Stages <=> pc[q] \in Stages) /\ (pc'[q] = "storing" <=> pc[q] = "storing")
      BY <1>15 DEF World, db, local, history
    <2> QED
      BY <2>1, CleanKept
  <1>16. CASE Tick
    <2>1. /\ UNCHANGED <<status, rows, truth, faults, job, found, todo>>
          /\ \A q \in Runners : (pc'[q] \in Stages <=> pc[q] \in Stages) /\ (pc'[q] = "storing" <=> pc[q] = "storing")
      BY <1>16 DEF Tick, history
    <2> QED
      BY <2>1, CleanKept
  <1>17. CASE UNCHANGED vars
    <2>1. /\ UNCHANGED <<status, rows, truth, faults, job, found, todo>>
          /\ \A q \in Runners : (pc'[q] \in Stages <=> pc[q] \in Stages) /\ (pc'[q] = "storing" <=> pc[q] = "storing")
      BY <1>17 DEF vars, db, local, history
    <2> QED
      BY <2>1, CleanKept
  <1> QED
    BY <1>1, <1>2, <1>3, <1>4, <1>5, <1>6, <1>7, <1>8, <1>9, <1>10, <1>11, <1>12, <1>13, <1>14, <1>15, <1>16, <1>17 DEF Next, Step

\* compare_identities says None of a scan that found the very same keys.
LEMMA SameKeysNoChange ==
  ASSUME NEW K, IsFiniteSet(K)
  PROVE  CompareIdentities(K, K) = "None"
  <1>1. Cardinality(K) \in Nat
    BY FS_CardinalityType
  <1>2. CompareIdentities(K, K) = Compare(Cardinality(K), Cardinality(K))
    BY DEF CompareIdentities
  <1> QED
    BY <1>1, <1>2 DEF Compare

\* Findings with a title each are their own keys, in whatever order they are read.
LEMMA KeysOfDistinct ==
  ASSUME NEW F, ~Mixed(F), NEW K \in Keys(F)
  PROVE  K = F
  BY DEF Mixed, Keys

\* A notice is about a difference: some scan in prev has other keys than the one
\* just completed.
LEMMA NoticeNeedsDifference ==
  ASSUME RunnerInv, [Next]_vars, NEW r \in Runners, Notifies(r)
  PROVE  \E q \in Runners : /\ pc[q] = "reporting" /\ job[q] = job[r]
                            /\ \E K \in prev[q], C \in Keys(found[q]) : K # C
  <1> USE DEF RunnerInv, TypeOK, HasJob, Notifies
  <1>1. PICK q \in Runners : Report(q)
    BY DEF Next, Step, Sweep, Claim, Rest, Authorize, Scan, ReadPrevious, Insert, Complete, Fail, Restart,
           SweepFails, Abandon, Crash, Lock, Enqueue, World, Tick, vars, history
  <1>2. /\ pc[q] = "reporting"
        /\ \E C \in Keys(found[q]) : WorthReporting(prev[q], C)
        /\ notices' = [notices EXCEPT ![job[q]] = @ + 1]
    BY <1>1 DEF Report
  <1>3. job[q] = job[r]
    BY <1>2
  <1>4. PICK C \in Keys(found[q]) : WorthReporting(prev[q], C)
    BY <1>2
  <1>5. PICK K \in prev[q] : CompareIdentities(K, C) # "None"
    BY <1>4 DEF WorthReporting
  <1>6. IsFiniteSet(K)
    BY FindingsAssumption, FS_Subset
  <1>7. K # C
    BY <1>5, <1>6, SameKeysNoChange
  <1> QED
    BY <1>2, <1>3, <1>4, <1>5, <1>7

\* Every worker's comparison and, until something fails, every table row are as
\* BaseInv and CleanInv say, in any interleaving of any number of workers.
THEOREM NoticeInvariant == Spec => [](BaseInv /\ CleanInv)
  <1>1. RunnerInv /\ ReportInv /\ BaseInv /\ CleanInv /\ [Next]_vars => BaseInv' /\ CleanInv'
    BY NextBaseInv, NextCleanInv
  <1> QED
    BY <1>1, InitNoticeInv, RunnerInvariant, ReportInvariant, PTL DEF Spec

\* "Only on a change": report_change mails the owner only if the scan found
\* something else than the completed scan of the same target and tool it was
\* compared with, or found two things that triage shows under one title, unless a
\* worker died or lost a statement before.
THEOREM NoticesMeanChanges == Spec => NoticeMeansChangeUnlessFault
  <1>1. RunnerInv /\ ReportInv /\ BaseInv /\ CleanInv /\ [Next]_vars
          => (faults = 0 => \A r \in Runners : Notifies(r) => Differs(r) \/ Mixed(found[r]))
    <2> SUFFICES ASSUME RunnerInv, ReportInv, BaseInv, CleanInv, [Next]_vars, faults = 0,
                        NEW r \in Runners, Notifies(r), ~Mixed(found[r])
                 PROVE  Differs(r)
      OBVIOUS
    <2>1. PICK q \in Runners : /\ pc[q] = "reporting" /\ job[q] = job[r]
                               /\ \E K \in prev[q], C \in Keys(found[q]) : K # C
      BY NoticeNeedsDifference
    <2>2. pc[r] = "reporting" /\ q = r
      BY <2>1 DEF ReportInv, Notifies
    <2>3. PICK K \in prev[r], C \in Keys(found[r]) : K # C
      BY <2>1, <2>2
    <2>4. PICK b \in base[r] : K \in Keys(rows[b])
      BY <2>2, <2>3 DEF BaseInv
    <2>5. b \in Jobs /\ status[b] = "completed" /\ subject[b] = subject[job[r]]
      BY <2>2 DEF BaseInv, RunnerInv, TypeOK
    <2>6. truth[b] = rows[b]
      BY <2>5 DEF CleanInv
    <2>7. C = found[r]
      BY <2>3, KeysOfDistinct
    <2>8. rows[b] # found[r]
      BY <2>3, <2>4, <2>7, KeysOfDistinct
    <2> QED
      BY <2>5, <2>6, <2>8 DEF Differs
  <1> QED
    BY <1>1, RunnerInvariant, ReportInvariant, NoticeInvariant, PTL DEF Spec, NoticeMeansChangeUnlessFault
=============================================================================
