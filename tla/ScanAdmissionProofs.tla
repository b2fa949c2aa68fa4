------------------------ MODULE ScanAdmissionProofs ------------------------
(***************************************************************************)
(* First, how far concurrent requests and schedulers overrun a target's    *)
(* scan budget, for any number of them.  The argument: whoever passes the  *)
(* budget saw fewer than MaxScans jobs, so the jobs there and those in     *)
(* flight are within the bound at that moment (FreshCount); from then on a *)
(* job in flight only becomes a job of the table.  Then what holds exactly *)
(* where less overlaps: the interval between scans of one loop, and the    *)
(* limits with one request at a time.                                      *)
(***************************************************************************)
EXTENDS AdmissionModes, FiniteSetTheorems, TLAPS

\* The three sets a load counts are finite, and no larger than their supersets.
LEMMA Finite ==
  ASSUME NEW t
  PROVE  /\ IsFiniteSet(RecentJobs(t)) /\ IsFiniteSet(Admitted(t)) /\ IsFiniteSet(Scheduled(t))
         /\ IsFiniteSet(RecentJobs(t)') /\ IsFiniteSet(Admitted(t)') /\ IsFiniteSet(Scheduled(t)')
  <1>1. RecentJobs(t) \subseteq Jobs /\ RecentJobs(t)' \subseteq Jobs
    BY DEF RecentJobs
  <1>2. Admitted(t) \subseteq Requests /\ Admitted(t)' \subseteq Requests
    BY DEF Admitted
  <1>3. Scheduled(t) \subseteq Schedulers /\ Scheduled(t)' \subseteq Schedulers
    BY DEF Scheduled
  <1> QED
    BY <1>1, <1>2, <1>3, FS_Subset, JobsAssumption, ActorsAssumption

\* Their sizes are natural numbers.
LEMMA Sizes ==
  ASSUME NEW t
  PROVE  /\ Cardinality(RecentJobs(t)) \in Nat /\ Cardinality(RecentJobs(t)') \in Nat
         /\ Cardinality(Admitted(t)) \in Nat /\ Cardinality(Admitted(t)') \in Nat
         /\ Cardinality(Scheduled(t)) \in Nat /\ Cardinality(Scheduled(t)') \in Nat
         /\ Cardinality(Requests) \in Nat /\ Cardinality(Schedulers) \in Nat
  BY Finite, FS_CardinalityType, ActorsAssumption

\* A target whose sets do not grow keeps its load within the bound.
LEMMA NotMore ==
  ASSUME NEW t, Load(t) <= Overrun,
         RecentJobs(t)' \subseteq RecentJobs(t),
         Admitted(t)' \subseteq Admitted(t),
         Scheduled(t)' \subseteq Scheduled(t)
  PROVE  (Load(t) <= Overrun)'
  <1>1. /\ Cardinality(RecentJobs(t)') <= Cardinality(RecentJobs(t))
        /\ Cardinality(Admitted(t)') <= Cardinality(Admitted(t))
        /\ Cardinality(Scheduled(t)') <= Cardinality(Scheduled(t))
    BY Finite, FS_Subset
  <1> QED
    BY <1>1, Sizes, LimitsAssumption DEF Load, Recent, Overrun

\* A target with fewer than MaxScans jobs is within the bound, whatever is in flight.
LEMMA FreshCount ==
  ASSUME NEW t, Recent(t)' < MaxScans
  PROVE  (Load(t) <= Overrun)'
  <1>1. /\ Cardinality(Admitted(t)') <= Cardinality(Requests)
        /\ Cardinality(Scheduled(t)') <= Cardinality(Schedulers)
    <2>1. Admitted(t)' \subseteq Requests /\ Scheduled(t)' \subseteq Schedulers
      BY DEF Admitted, Scheduled
    <2> QED
      BY <2>1, FS_Subset, ActorsAssumption
  <1> QED
    BY <1>1, Sizes, LimitsAssumption DEF Load, Recent, Overrun

\* Initially nothing is queued and nothing is in flight.
LEMMA InitAdmission == Init => AdmissionInv
  <1> SUFFICES ASSUME Init PROVE AdmissionInv
    OBVIOUS
  <1>1. TypeOK
    <2>1. /\ since \in [Targets -> 0 .. Interval] /\ quiet \in [Schedulers -> [Targets -> 0 .. Interval]]
          /\ age \in [Jobs -> 0 .. Day + 1]
      BY LimitsAssumption DEF Init
    <2>2. /\ proved \in [Targets -> BOOLEAN] /\ cadence \in [Targets -> BOOLEAN] /\ claim \in [Users -> BOOLEAN]
          /\ rearmed \in [Schedulers -> [Targets -> BOOLEAN]] /\ rtrial \in [Requests -> BOOLEAN]
          /\ con \in [Setters -> BOOLEAN]
      BY DEF Init
    <2> QED
      BY <2>1, <2>2 DEF Init, TypeOK, Plans
  <1>2. OneOffer
    BY DEF Init, OneOffer
  <1>3. OverrunBounded
    <2> SUFFICES ASSUME NEW t \in Targets PROVE Load(t) <= Overrun
      BY DEF OverrunBounded
    <2>1. RecentJobs(t) = {} /\ Admitted(t) = {} /\ Scheduled(t) = {}
      BY TargetAssumption DEF Init, RecentJobs, Admitted, Scheduled
    <2>2. Recent(t) = 0 /\ Cardinality(Admitted(t)) = 0 /\ Cardinality(Scheduled(t)) = 0
      BY <2>1, FS_EmptySet DEF Recent
    <2> QED
      BY <2>2, Sizes, LimitsAssumption DEF Load, Overrun
  <1> QED
    BY <1>1, <1>2, <1>3 DEF AdmissionInv

\* Every step keeps the types.
LEMMA NextTypes == TypeOK /\ OneOffer /\ [Next]_vars => TypeOK'
  <1> SUFFICES ASSUME TypeOK, OneOffer, [Next]_vars PROVE TypeOK'
    OBVIOUS
  <1> USE DEF TypeOK
  <1>r. ASSUME NEW q \in Requests, Refuse(q) PROVE TypeOK'
    BY <1>r DEF Refuse, db, setter, sched, history
  <1>i. ASSUME NEW t \in Targets, NEW J, InsertJobs(t, J)
        PROVE  /\ target' \in [Jobs -> Targets \union {NoTarget}]
               /\ age' \in [Jobs -> 0 .. Day + 1]
               /\ trialScans' \subseteq Users \X Targets \X BOOLEAN
    <2>1. target' \in [Jobs -> Targets \union {NoTarget}] /\ age' \in [Jobs -> 0 .. Day + 1]
      BY <1>i, TargetAssumption, LimitsAssumption DEF InsertJobs
    <2>2. OnTrial(t) \in BOOLEAN /\ Owner[t] \in Users
      BY TargetAssumption DEF OnTrial
    <2>3. trialScans' \subseteq Users \X Targets \X BOOLEAN
      BY <1>i, <2>2 DEF InsertJobs, Authorized
    <2> QED
      BY <2>1, <2>3
  <1>1. ASSUME NEW q \in Requests, NEW t \in Targets, Gate(q, t) PROVE TypeOK'
    BY <1>1 DEF Gate, db, setter, sched, history
  <1>2. ASSUME NEW q \in Requests, ReadPlan(q) PROVE TypeOK'
    <2>1. CASE Refuse(q)
      BY <2>1, <1>r
    <2>2. CASE ~Refuse(q)
      <3>1. OnTrial(rtarget[q]) \in BOOLEAN
        BY DEF OnTrial
      <3>2. rtrial' \in [Requests -> BOOLEAN]
        BY <1>2, <2>2, <3>1 DEF ReadPlan
      <3> QED
        BY <1>2, <2>2, <3>2 DEF ReadPlan, db, setter, sched, history
    <2> QED
      BY <2>1, <2>2
  <1>d. ASSUME NEW q \in Requests, Drop(q) PROVE TypeOK'
    BY <1>d, <1>r DEF Drop
  <1>3. ASSUME NEW q \in Requests, Count(q) PROVE TypeOK'
    BY <1>3, <1>r DEF Count, db, setter, sched, history
  <1>4. ASSUME NEW q \in Requests, CheckSite(q) PROVE TypeOK'
    BY <1>4, <1>r DEF CheckSite, db, setter, sched, history
  <1>5. ASSUME NEW q \in Requests, Admit(q) PROVE TypeOK'
    <2>1. rtarget[q] \in Targets
      BY <1>5 DEF Admit, OneOffer
    <2>2. /\ target' \in [Jobs -> Targets \union {NoTarget}]
          /\ age' \in [Jobs -> 0 .. Day + 1]
          /\ trialScans' \subseteq Users \X Targets \X BOOLEAN
      BY <1>5, <1>i, <2>1 DEF Admit
    <2> QED
      BY <1>5, <2>2 DEF Admit, setter, sched, history
  <1>6. ASSUME NEW s \in Schedulers, Snapshot(s) PROVE TypeOK'
    BY <1>6 DEF Snapshot, db, request, setter, history
  <1>7. ASSUME NEW s \in Schedulers, NEW c \in Candidates, Consider(s, c) PROVE TypeOK'
    BY <1>7 DEF Consider, db, request, setter, history, Candidates
  <1>8. ASSUME NEW s \in Schedulers, Enqueue(s) PROVE TypeOK'
    <2>1. starget[s] \in Targets
      BY <1>8 DEF Enqueue, OneOffer
    <2>0. 0 \in 0 .. Interval
      BY LimitsAssumption
    <2>2. since' \in [Targets -> 0 .. Interval]
      BY <1>8, <2>0 DEF Enqueue
    <2>4. quiet' \in [Schedulers -> [Targets -> 0 .. Interval]]
      BY <1>8, <2>0 DEF Enqueue
    <2>3. rearmed' \in [Schedulers -> [Targets -> BOOLEAN]]
      BY <1>8 DEF Enqueue
    <2> QED
      BY <1>8, <1>i, <2>1, <2>2, <2>3, <2>4 DEF Enqueue, request, setter
  <1>9. ASSUME NEW s \in Schedulers, EnqueueFails(s) \/ Sleep(s) \/ Die(s) PROVE TypeOK'
    BY <1>9 DEF EnqueueFails, Sleep, Die, db, request, setter, history
  <1>10. ASSUME NEW c \in Setters, NEW t \in Targets, NEW on \in BOOLEAN, CadenceGate(c, t, on)
         PROVE  TypeOK'
    <2>1. con' \in [Setters -> BOOLEAN]
      BY <1>10 DEF CadenceGate
    <2> QED
      BY <1>10, <2>1 DEF CadenceGate, db, request, sched, history
  <1>11. ASSUME NEW c \in Setters, CadencePlan(c) \/ CadenceDrop(c) PROVE TypeOK'
    BY <1>11 DEF CadencePlan, CadenceDrop, db, request, sched, history
  <1>12. ASSUME NEW c \in Setters, CadenceWrite(c) PROVE TypeOK'
    <2>1. ctarget[c] \in Targets /\ con[c] \in BOOLEAN
      BY <1>12 DEF CadenceWrite, OneOffer
    <2>2. since' \in [Targets -> 0 .. Interval]
      BY <1>12, <2>1, LimitsAssumption DEF CadenceWrite
    <2>3. cadence' \in [Targets -> BOOLEAN]
      BY <1>12, <2>1 DEF CadenceWrite
    <2>4. ASSUME NEW s \in Schedulers
          PROVE  [rearmed[s] EXCEPT ![ctarget[c]] = @ \/ con[c]] \in [Targets -> BOOLEAN]
      <3>1. (rearmed[s][ctarget[c]] \/ con[c]) \in BOOLEAN /\ rearmed[s] \in [Targets -> BOOLEAN]
        OBVIOUS
      <3> QED
        BY <3>1
    <2>5. rearmed' \in [Schedulers -> [Targets -> BOOLEAN]]
      BY <1>12, <2>4 DEF CadenceWrite
    <2> QED
      BY <1>12, <2>2, <2>3, <2>5 DEF CadenceWrite, request, sched
  <1>13. ASSUME NEW u \in Users, NEW p \in Plans, ChangePlan(u, p) PROVE TypeOK'
    <2>1. (claim[u] \/ p = "trial") \in BOOLEAN
      OBVIOUS
    <2>2. claim' \in [Users -> BOOLEAN]
      BY <1>13, <2>1 DEF ChangePlan
    <2> QED
      BY <1>13, <2>2 DEF ChangePlan, request, setter, sched, history
  <1>e. ASSUME NEW u \in Users, TrialEnds(u) PROVE TypeOK'
    <2>1. claim' \in [Users -> BOOLEAN]
      BY <1>e DEF TrialEnds
    <2> QED
      BY <1>e, <2>1 DEF TrialEnds, request, setter, sched, history
  <1>14. ASSUME NEW t \in Targets, ChangeProof(t) PROVE TypeOK'
    BY <1>14 DEF ChangeProof, request, setter, sched, history
  <1>15. CASE Pass
    <2>1. /\ age' \in [Jobs -> 0 .. Day + 1]
          /\ since' \in [Targets -> 0 .. Interval]
      BY <1>15, LimitsAssumption DEF Pass
    <2>2. quiet' \in [Schedulers -> [Targets -> 0 .. Interval]]
      BY <1>15, LimitsAssumption DEF Pass
    <2> QED
      BY <1>15, <2>1, <2>2 DEF Pass, request, setter, sched
  <1>16. CASE UNCHANGED vars
    BY <1>16 DEF vars, db, request, setter, sched, history
  <1> QED
    BY <1>1, <1>2, <1>d, <1>3, <1>4, <1>5, <1>6, <1>7, <1>8, <1>9, <1>10, <1>11, <1>12, <1>13, <1>e, <1>14,
       <1>15, <1>16 DEF Next

\* Every step keeps one offer per target and tick.
LEMMA NextOneOffer == TypeOK /\ OneOffer /\ [Next]_vars => OneOffer'
  <1> SUFFICES ASSUME TypeOK, OneOffer, [Next]_vars PROVE OneOffer'
    OBVIOUS
  <1> USE DEF OneOffer
  <1>1. ASSUME NEW q \in Requests, NEW t \in Targets, Gate(q, t) PROVE OneOffer'
    BY <1>1 DEF Gate, setter, sched, TypeOK
  <1>2. ASSUME NEW q \in Requests, ReadPlan(q) \/ Count(q) \/ CheckSite(q) \/ Admit(q) \/ Drop(q)
        PROVE  OneOffer'
    BY <1>2 DEF ReadPlan, Count, CheckSite, Admit, Drop, Refuse, setter, sched, TypeOK
  <1>3. ASSUME NEW s \in Schedulers, Snapshot(s) PROVE OneOffer'
    <2>1. UNCHANGED <<request, setter, starget>>
      BY <1>3 DEF Snapshot
    <2>2. \A r \in Schedulers \ {s} : spc'[r] = spc[r] /\ todo'[r] = todo[r]
      BY <1>3 DEF Snapshot, TypeOK
    <2>3. /\ spc'[s] = "looping"
          /\ \A c \in todo'[s] : c \in Candidates /\ c.trial = OnTrial(c.target)
      BY <1>3 DEF Snapshot, TypeOK
    <2>4. \A c, d \in todo'[s] : c.target = d.target => c = d
      BY <2>3 DEF Candidates
    <2> QED
      BY <2>1, <2>2, <2>3, <2>4 DEF request, setter
  <1>4. ASSUME NEW s \in Schedulers, NEW c \in Candidates, Consider(s, c) PROVE OneOffer'
    <2>1. UNCHANGED <<request, setter>> /\ c.target \in Targets
      BY <1>4 DEF Consider, Candidates
    <2>2. \A r \in Schedulers \ {s} : spc'[r] = spc[r] /\ todo'[r] = todo[r] /\ starget'[r] = starget[r]
      BY <1>4 DEF Consider, TypeOK
    <2>3. /\ spc[s] = "looping" /\ c \in todo[s] /\ spc'[s] \in {"looping", "inserting"}
          /\ todo'[s] = todo[s] \ {c} /\ starget'[s] = c.target
      BY <1>4 DEF Consider, TypeOK
    <2>4. \A d \in todo'[s] : d.target # c.target
      BY <2>3
    <2>5. \A r \in Schedulers :
             /\ spc'[r] = "asleep" => todo'[r] = {}
             /\ spc'[r] = "inserting" => starget'[r] \in Targets /\ \A d \in todo'[r] : d.target # starget'[r]
             /\ \A d, e \in todo'[r] : d.target = e.target => d = e
      BY <2>1, <2>2, <2>3, <2>4
    <2> QED
      BY <2>1, <2>5 DEF request, setter
  <1>5. ASSUME NEW s \in Schedulers, Enqueue(s) \/ EnqueueFails(s) \/ Sleep(s) \/ Die(s) PROVE OneOffer'
    <2>1. UNCHANGED <<request, setter, starget>>
      BY <1>5 DEF Enqueue, EnqueueFails, Sleep, Die
    <2>2. \A r \in Schedulers : /\ todo'[r] = todo[r] \/ todo'[r] = {}
                                /\ spc'[r] = "inserting" => spc[r] = "inserting"
                                /\ spc'[r] = "asleep" => spc[r] = "asleep" \/ todo'[r] = {}
      BY <1>5 DEF Enqueue, EnqueueFails, Sleep, Die, TypeOK
    <2> QED
      BY <2>1, <2>2 DEF request, setter
  <1>6. ASSUME NEW c \in Setters, NEW t \in Targets, NEW on \in BOOLEAN, CadenceGate(c, t, on)
        PROVE  OneOffer'
    BY <1>6 DEF CadenceGate, request, sched, TypeOK
  <1>7. ASSUME NEW c \in Setters, CadencePlan(c) \/ CadenceWrite(c) \/ CadenceDrop(c) PROVE OneOffer'
    BY <1>7 DEF CadencePlan, CadenceWrite, CadenceDrop, request, sched, TypeOK
  <1>8. ASSUME NEW u \in Users, NEW p \in Plans, ChangePlan(u, p) PROVE OneOffer'
    BY <1>8 DEF ChangePlan, request, setter, sched
  <1>e. ASSUME NEW u \in Users, TrialEnds(u) PROVE OneOffer'
    BY <1>e DEF TrialEnds, request, setter, sched
  <1>9. ASSUME NEW t \in Targets, ChangeProof(t) PROVE OneOffer'
    BY <1>9 DEF ChangeProof, request, setter, sched
  <1>10. CASE Pass
    BY <1>10 DEF Pass, request, setter, sched
  <1>11. CASE UNCHANGED vars
    BY <1>11 DEF vars, request, setter, sched
  <1> QED
    BY <1>1, <1>2, <1>3, <1>4, <1>5, <1>6, <1>7, <1>8, <1>e, <1>9, <1>10, <1>11 DEF Next

\* Inserting jobs for t adds exactly these to the recent jobs of t, and none to
\* those of another target.
LEMMA InsertedJobs ==
  ASSUME TypeOK, NEW t \in Targets, NEW J, InsertJobs(t, J), NEW u \in Targets
  PROVE  /\ J \subseteq Jobs /\ J \intersect RecentJobs(t) = {}
         /\ RecentJobs(u)' = IF u = t THEN RecentJobs(t) \union J ELSE RecentJobs(u)
  BY TargetAssumption, LimitsAssumption DEF TypeOK, InsertJobs, Unused, RecentJobs

\* Every step keeps the load of every target within the bound.
LEMMA NextOverrun ==
  ASSUME TypeOK, OneOffer, OverrunBounded, [Next]_vars
  PROVE  OverrunBounded'
  <1> SUFFICES ASSUME NEW t \in Targets PROVE (Load(t) <= Overrun)'
    BY DEF OverrunBounded
  <1>0. Load(t) <= Overrun
    BY DEF OverrunBounded
  <1>1. ASSUME NEW q \in Requests, NEW u \in Targets, Gate(q, u) PROVE (Load(t) <= Overrun)'
    <2>1. /\ RecentJobs(t)' \subseteq RecentJobs(t)
          /\ Admitted(t)' \subseteq Admitted(t)
          /\ Scheduled(t)' \subseteq Scheduled(t)
      BY <1>1 DEF Gate, RecentJobs, Admitted, Scheduled, db, sched, TypeOK
    <2> QED
      BY <1>0, <2>1, NotMore
  <1>2. ASSUME NEW q \in Requests, ReadPlan(q) \/ CheckSite(q) \/ Drop(q) PROVE (Load(t) <= Overrun)'
    <2>1. /\ RecentJobs(t)' \subseteq RecentJobs(t)
          /\ Admitted(t)' \subseteq Admitted(t)
          /\ Scheduled(t)' \subseteq Scheduled(t)
      BY <1>2 DEF ReadPlan, CheckSite, Drop, Refuse, RecentJobs, Admitted, Scheduled, db, sched, TypeOK
    <2> QED
      BY <1>0, <2>1, NotMore
  <1>3. ASSUME NEW q \in Requests, Count(q) PROVE (Load(t) <= Overrun)'
    <2>1. CASE Refuse(q) \/ rtarget[q] # t
      <3>1. /\ RecentJobs(t)' \subseteq RecentJobs(t)
            /\ Admitted(t)' \subseteq Admitted(t)
            /\ Scheduled(t)' \subseteq Scheduled(t)
        BY <1>3, <2>1 DEF Count, Refuse, RecentJobs, Admitted, Scheduled, db, sched, TypeOK
      <3> QED
        BY <1>0, <3>1, NotMore
    <2>2. CASE WithinBudget(rtarget[q], rtrial[q]) /\ UNCHANGED db /\ rtarget[q] = t
      <3>1. RecentJobs(t)' = RecentJobs(t)
        BY <2>2 DEF RecentJobs, db
      <3>2. Recent(t)' < MaxScans
        BY <2>2, <3>1 DEF WithinBudget, Recent
      <3> QED
        BY <3>2, FreshCount
    <2> QED
      BY <1>3, <2>1, <2>2 DEF Count
  <1>4. ASSUME NEW q \in Requests, Admit(q) PROVE (Load(t) <= Overrun)'
    <2>1. rtarget[q] \in Targets
      BY <1>4 DEF Admit, OneOffer
    <2> PICK j \in Unused : InsertJobs(rtarget[q], {j})
      BY <1>4 DEF Admit
    <2>2. CASE rtarget[q] = t
      <3>1. RecentJobs(t)' = RecentJobs(t) \union {j} /\ j \notin RecentJobs(t)
        BY <2>1, <2>2, InsertedJobs
      <3>2. Cardinality(RecentJobs(t)') = Cardinality(RecentJobs(t)) + 1
        BY <3>1, Finite, FS_AddElement
      <3>3. Admitted(t)' = Admitted(t) \ {q} /\ q \in Admitted(t)
        BY <1>4, <2>2 DEF Admit, Admitted, TypeOK
      <3>4. Cardinality(Admitted(t)') = Cardinality(Admitted(t)) - 1
        BY <3>3, Finite, FS_RemoveElement
      <3>5. Scheduled(t)' = Scheduled(t)
        BY <1>4 DEF Admit, Scheduled, sched
      <3> QED
        BY <1>0, <3>2, <3>4, <3>5, Sizes, LimitsAssumption DEF Load, Recent, Overrun
    <2>3. CASE rtarget[q] # t
      <3>1. RecentJobs(t)' = RecentJobs(t)
        BY <2>1, <2>3, InsertedJobs
      <3>2. Admitted(t)' \subseteq Admitted(t) /\ Scheduled(t)' \subseteq Scheduled(t)
        BY <1>4 DEF Admit, Admitted, Scheduled, sched, TypeOK
      <3> QED
        BY <1>0, <3>1, <3>2, NotMore
    <2> QED
      BY <2>2, <2>3
  <1>5. ASSUME NEW s \in Schedulers, Snapshot(s) PROVE (Load(t) <= Overrun)'
    <2>1. RecentJobs(t)' = RecentJobs(t) /\ Admitted(t)' = Admitted(t)
      BY <1>5 DEF Snapshot, RecentJobs, Admitted, db, request
    <2>2. CASE \E c \in todo'[s] : c.target = t
      <3>1. Recent(t)' < MaxScans
        BY <1>5, <2>1, <2>2 DEF Snapshot, WithinBudget, Recent, TypeOK
      <3> QED
        BY <3>1, FreshCount
    <2>3. CASE ~\E c \in todo'[s] : c.target = t
      <3>1. Scheduled(t)' \subseteq Scheduled(t)
        BY <1>5, <2>3 DEF Snapshot, Scheduled, TypeOK
      <3> QED
        BY <1>0, <2>1, <3>1, NotMore
    <2> QED
      BY <2>2, <2>3
  <1>6. ASSUME NEW s \in Schedulers, NEW c \in Candidates, Consider(s, c) PROVE (Load(t) <= Overrun)'
    <2>1. /\ RecentJobs(t)' \subseteq RecentJobs(t)
          /\ Admitted(t)' \subseteq Admitted(t)
      BY <1>6 DEF Consider, RecentJobs, Admitted, db, request
    <2>2. Scheduled(t)' \subseteq Scheduled(t)
      BY <1>6 DEF Consider, Scheduled, TypeOK
    <2> QED
      BY <1>0, <2>1, <2>2, NotMore
  <1>7. ASSUME NEW s \in Schedulers, Enqueue(s) PROVE (Load(t) <= Overrun)'
    <2>1. starget[s] \in Targets
      BY <1>7 DEF Enqueue, OneOffer
    <2> PICK i \in Unused, j \in Unused : i # j /\ InsertJobs(starget[s], {i, j})
      BY <1>7 DEF Enqueue
    <2>2. CASE starget[s] = t
      <3>1. RecentJobs(t)' = RecentJobs(t) \union {i, j} /\ i \notin RecentJobs(t) /\ j \notin RecentJobs(t)
        BY <2>1, <2>2, InsertedJobs
      <3>2. Cardinality(RecentJobs(t) \union {i}) = Cardinality(RecentJobs(t)) + 1
        BY <3>1, Finite, FS_AddElement
      <3>3. IsFiniteSet(RecentJobs(t) \union {i})
        BY Finite, FS_AddElement
      <3>4. /\ RecentJobs(t)' = (RecentJobs(t) \union {i}) \union {j}
            /\ j \notin RecentJobs(t) \union {i}
        BY <3>1
      <3>5. Cardinality(RecentJobs(t)') = Cardinality(RecentJobs(t) \union {i}) + 1
        <4>1. PICK A : A = RecentJobs(t) \union {i}
          OBVIOUS
        <4>2. Cardinality(A \union {j}) = Cardinality(A) + 1
          BY <3>3, <3>4, <4>1, FS_AddElement
        <4> QED
          BY <3>4, <4>1, <4>2
      <3>6. Scheduled(t)' = Scheduled(t) \ {s} /\ s \in Scheduled(t)
        BY <1>7, <2>2 DEF Enqueue, Scheduled, TypeOK, OneOffer
      <3>7. Cardinality(Scheduled(t)') = Cardinality(Scheduled(t)) - 1
        BY <3>6, Finite, FS_RemoveElement
      <3>8. Admitted(t)' = Admitted(t)
        BY <1>7 DEF Enqueue, Admitted, request
      <3> QED
        BY <1>0, <3>2, <3>5, <3>7, <3>8, Sizes, LimitsAssumption DEF Load, Recent, Overrun
    <2>3. CASE starget[s] # t
      <3>1. RecentJobs(t)' = RecentJobs(t)
        BY <2>1, <2>3, InsertedJobs
      <3>2. Admitted(t)' \subseteq Admitted(t) /\ Scheduled(t)' \subseteq Scheduled(t)
        BY <1>7 DEF Enqueue, Admitted, Scheduled, request, TypeOK
      <3> QED
        BY <1>0, <3>1, <3>2, NotMore
    <2> QED
      BY <2>2, <2>3
  <1>8. ASSUME NEW s \in Schedulers, EnqueueFails(s) \/ Sleep(s) \/ Die(s) PROVE (Load(t) <= Overrun)'
    <2>1. /\ RecentJobs(t)' \subseteq RecentJobs(t)
          /\ Admitted(t)' \subseteq Admitted(t)
          /\ Scheduled(t)' \subseteq Scheduled(t)
      BY <1>8 DEF EnqueueFails, Sleep, Die, RecentJobs, Admitted, Scheduled, db, request, TypeOK
    <2> QED
      BY <1>0, <2>1, NotMore
  <1>9. ASSUME UNCHANGED <<request, sched, target>>, age' = age \/ Pass PROVE (Load(t) <= Overrun)'
    <2>1. RecentJobs(t)' \subseteq RecentJobs(t)
      BY <1>9, LimitsAssumption DEF RecentJobs, Pass, TypeOK
    <2>2. Admitted(t)' \subseteq Admitted(t) /\ Scheduled(t)' \subseteq Scheduled(t)
      BY <1>9 DEF Admitted, Scheduled, request, sched
    <2> QED
      BY <1>0, <2>1, <2>2, NotMore
  <1>10. ASSUME NEW c \in Setters, NEW u \in Targets, NEW on \in BOOLEAN,
                CadenceGate(c, u, on) \/ CadencePlan(c) \/ CadenceWrite(c) \/ CadenceDrop(c)
         PROVE  (Load(t) <= Overrun)'
    BY <1>10, <1>9 DEF CadenceGate, CadencePlan, CadenceWrite, CadenceDrop, db
  <1>11. ASSUME NEW u \in Users, NEW p \in Plans, ChangePlan(u, p) PROVE (Load(t) <= Overrun)'
    BY <1>11, <1>9 DEF ChangePlan
  <1>e. ASSUME NEW u \in Users, TrialEnds(u) PROVE (Load(t) <= Overrun)'
    BY <1>e, <1>9 DEF TrialEnds
  <1>12. ASSUME NEW u \in Targets, ChangeProof(u) PROVE (Load(t) <= Overrun)'
    BY <1>12, <1>9 DEF ChangeProof
  <1>13. CASE Pass
    BY <1>13, <1>9 DEF Pass
  <1>14. CASE UNCHANGED vars
    BY <1>14, <1>9 DEF vars, db
  <1> QED
    BY <1>1, <1>2, <1>3, <1>4, <1>5, <1>6, <1>7, <1>8, <1>10, <1>11, <1>e, <1>12, <1>13, <1>14 DEF Next

\* Whatever number of requests and scheduler loops race on a target, it never has
\* more than MaxScans - 1 jobs in 24 hours plus one for each of these requests and
\* two for each of these loops.
THEOREM AdmissionInvariant == Spec => []AdmissionInv
  <1>1. AdmissionInv /\ [Next]_vars => AdmissionInv'
    BY NextTypes, NextOneOffer, NextOverrun DEF AdmissionInv
  <1> QED
    BY InitAdmission, <1>1, PTL DEF Spec
-----------------------------------------------------------------------------
(***************************************************************************)
(* Schedules: of the scans that one loop queues of a site, each follows    *)
(* the one before it by an interval, however slow its tick, and whatever   *)
(* the other loops do between its snapshot and its transactions.           *)
(***************************************************************************)

\* The stamp is no older than the last scan that r queued unless the owner cleared it,
\* and what a snapshot offered is still ready when its turn comes.
ScheduleInv ==
    /\ \A r \in Schedulers, t \in Targets : rearmed[r][t] \/ since[t] <= quiet[r][t]
    /\ \A s \in Schedulers : /\ \A c \in todo[s] : Ready(s, c.target)
                             /\ spc[s] = "inserting" => Ready(s, starget[s])

\* A step that moves neither the stamps nor the tick.
LEMMA ScheduleSame ==
  ASSUME ScheduleInv, UNCHANGED <<since, sched, history>>
  PROVE  ScheduleInv'
  BY DEF ScheduleInv, Ready, sched, history

\* What is ready stays so when the stamps are as old or older, for a loop whose tick is
\* as it was.
LEMMA StaysReady ==
  ASSUME TypeOK, OneOffer, ScheduleInv, NEW s \in Schedulers,
         todo'[s] \subseteq todo[s], starget'[s] = starget[s], spc'[s] = "inserting" => spc[s] = "inserting",
         \A t \in Targets : (\E c \in todo'[s] : c.target = t) \/ (spc'[s] = "inserting" /\ starget[s] = t) =>
                             (Ready(s, t) => Ready(s, t)')
  PROVE  /\ \A c \in todo'[s] : Ready(s, c.target)'
         /\ spc'[s] = "inserting" => Ready(s, starget[s])'
  <1>1. \A c \in todo[s] : c.target \in Targets /\ Ready(s, c.target)
    BY DEF TypeOK, Candidates, ScheduleInv
  <1>2. spc[s] = "inserting" => starget[s] \in Targets /\ Ready(s, starget[s])
    BY DEF OneOffer, ScheduleInv
  <1> QED
    BY <1>1, <1>2

\* Every step keeps what the snapshots offered ready.
LEMMA NextSchedule == TypeOK /\ OneOffer /\ ScheduleInv /\ [Next]_vars => ScheduleInv'
  <1> SUFFICES ASSUME TypeOK, OneOffer, ScheduleInv, [Next]_vars PROVE ScheduleInv'
    OBVIOUS
  \* The tick of each loop, when the step changes no stamp.
  <1>k. ASSUME UNCHANGED <<since, quiet, rearmed>>,
               \A s \in Schedulers : /\ \A c \in todo'[s] : Ready(s, c.target)
                                     /\ spc'[s] = "inserting" => Ready(s, starget'[s])
        PROVE  ScheduleInv'
    <2>0. quiet' = quiet /\ rearmed' = rearmed
      BY <1>k
    <2>1. \A s \in Schedulers : \A c \in todo'[s] : Ready(s, c.target)'
      BY <1>k, <2>0, Zenon DEF Ready
    <2>2. \A s \in Schedulers : spc'[s] = "inserting" => Ready(s, starget[s])'
      BY <1>k, <2>0, Zenon DEF Ready
    <2>3. \A r \in Schedulers, t \in Targets : rearmed'[r][t] \/ since'[t] <= quiet'[r][t]
      BY <1>k DEF ScheduleInv
    <2> QED
      BY <2>1, <2>2, <2>3 DEF ScheduleInv
  <1>1. ASSUME NEW q \in Requests, NEW t \in Targets, Gate(q, t) PROVE ScheduleInv'
    BY <1>1, ScheduleSame DEF Gate, db
  <1>2. ASSUME NEW q \in Requests, ReadPlan(q) \/ Count(q) \/ CheckSite(q) \/ Admit(q) \/ Drop(q)
        PROVE  ScheduleInv'
    BY <1>2, ScheduleSame DEF ReadPlan, Count, CheckSite, Admit, Drop, Refuse, db
  <1>3. ASSUME NEW s \in Schedulers, Snapshot(s) PROVE ScheduleInv'
    <2>1. \A t \in Targets : Due(t) => Ready(s, t)
      BY LimitsAssumption DEF Due, ScheduleInv, Ready, TypeOK
    <2>2. UNCHANGED <<since, quiet, rearmed, starget>>
      BY <1>3 DEF Snapshot, db, history
    <2>3. \A r \in Schedulers \ {s} : todo'[r] = todo[r] /\ spc'[r] = spc[r]
      BY <1>3 DEF Snapshot, TypeOK
    <2>4. spc'[s] = "looping" /\ \A c \in todo'[s] : c.target \in Targets /\ Due(c.target)
      BY <1>3 DEF Snapshot, TypeOK, Candidates
    <2>5. \A r \in Schedulers \ {s} : /\ \A c \in todo'[r] : Ready(r, c.target)
                                      /\ spc'[r] = "inserting" => Ready(r, starget'[r])
      BY <2>2, <2>3 DEF ScheduleInv
    <2> QED
      BY <1>k, <2>1, <2>2, <2>4, <2>5
  <1>4. ASSUME NEW s \in Schedulers, NEW c \in Candidates, Consider(s, c) PROVE ScheduleInv'
    <2>1. UNCHANGED <<since, quiet, rearmed>>
      BY <1>4 DEF Consider, db, history
    <2>2. \A r \in Schedulers \ {s} : todo'[r] = todo[r] /\ spc'[r] = spc[r] /\ starget'[r] = starget[r]
      BY <1>4 DEF Consider, TypeOK
    <2>3. todo'[s] \subseteq todo[s] /\ starget'[s] = c.target /\ c \in todo[s]
      BY <1>4 DEF Consider, TypeOK
    <2>4. \A r \in Schedulers : /\ \A d \in todo'[r] : Ready(r, d.target)
                                /\ spc'[r] = "inserting" => Ready(r, starget'[r])
      BY <2>2, <2>3 DEF ScheduleInv
    <2> QED
      BY <1>k, <2>1, <2>4
  <1>5. ASSUME NEW s \in Schedulers, Enqueue(s) PROVE ScheduleInv'
    <2>0. starget[s] \in Targets
      BY <1>5 DEF Enqueue, OneOffer
    <2>1. /\ \A t \in Targets : since'[t] = IF t = starget[s] THEN 0 ELSE since[t]
          /\ \A r \in Schedulers, t \in Targets :
                 r # s \/ t # starget[s] => quiet'[r][t] = quiet[r][t] /\ rearmed'[r][t] = rearmed[r][t]
          /\ quiet'[s][starget[s]] = 0
      BY <1>5, <2>0 DEF Enqueue, TypeOK
    <2>2. \A r \in Schedulers, t \in Targets : rearmed'[r][t] \/ since'[t] <= quiet'[r][t]
      <3> SUFFICES ASSUME NEW r \in Schedulers, NEW t \in Targets
                   PROVE  rearmed'[r][t] \/ since'[t] <= quiet'[r][t]
        OBVIOUS
      <3>1. quiet[r][t] \in 0 .. Interval /\ (rearmed[r][t] \/ since[t] <= quiet[r][t])
        BY DEF TypeOK, ScheduleInv
      <3> QED
        BY <2>1, <3>1, LimitsAssumption
    <2>3. spc'[s] = "looping" /\ todo' = todo /\ starget' = starget /\ \A r \in Schedulers \ {s} : spc'[r] = spc[r]
      BY <1>5 DEF Enqueue, TypeOK
    <2>4. \A c \in todo[s] : c.target # starget[s]
      BY <1>5 DEF Enqueue, OneOffer
    <2>5. \A r \in Schedulers, t \in Targets : r # s \/ t # starget[s] => (Ready(r, t) => Ready(r, t)')
      BY <2>1 DEF Ready
    <2>6. ASSUME NEW r \in Schedulers
          PROVE  /\ \A c \in todo'[r] : Ready(r, c.target)'
                 /\ spc'[r] = "inserting" => Ready(r, starget[r])'
      <3>1. \A t \in Targets : (\E c \in todo'[r] : c.target = t) \/ (spc'[r] = "inserting" /\ starget[r] = t) =>
                                (Ready(r, t) => Ready(r, t)')
        BY <2>3, <2>4, <2>5
      <3> QED
        BY <2>3, <3>1, StaysReady
    <2> QED
      BY <2>2, <2>3, <2>6 DEF ScheduleInv
  <1>6. ASSUME NEW s \in Schedulers, EnqueueFails(s) \/ Sleep(s) \/ Die(s) PROVE ScheduleInv'
    <2>1. UNCHANGED <<since, quiet, rearmed, starget>>
      BY <1>6 DEF EnqueueFails, Sleep, Die, db, history
    <2>2. \A r \in Schedulers : todo'[r] \subseteq todo[r] /\ (spc'[r] = "inserting" => spc[r] = "inserting")
      BY <1>6 DEF EnqueueFails, Sleep, Die, TypeOK
    <2>3. \A r \in Schedulers : /\ \A d \in todo'[r] : Ready(r, d.target)
                                /\ spc'[r] = "inserting" => Ready(r, starget'[r])
      BY <2>1, <2>2 DEF ScheduleInv
    <2> QED
      BY <1>k, <2>1, <2>3
  <1>7. ASSUME NEW c \in Setters, NEW t \in Targets, NEW on \in BOOLEAN, CadenceGate(c, t, on)
        PROVE  ScheduleInv'
    BY <1>7, ScheduleSame DEF CadenceGate, db
  <1>8. ASSUME NEW c \in Setters, CadencePlan(c) \/ CadenceDrop(c) PROVE ScheduleInv'
    BY <1>8, ScheduleSame DEF CadencePlan, CadenceDrop, db
  \* A step after which no loop waits longer, and all ticks are as they were.
  <1>l. ASSUME UNCHANGED sched,
               \A r \in Schedulers, t \in Targets :
                   /\ rearmed[r][t] \/ since[t] <= quiet[r][t] => rearmed'[r][t] \/ since'[t] <= quiet'[r][t]
                   /\ Ready(r, t) => Ready(r, t)'
        PROVE  ScheduleInv'
    <2>1. \A r \in Schedulers : /\ \A d \in todo'[r] : Ready(r, d.target)'
                                /\ spc'[r] = "inserting" => Ready(r, starget[r])'
      BY <1>l, StaysReady DEF sched
    <2>2. starget' = starget
      BY <1>l DEF sched
    <2> QED
      BY <1>l, <2>1, <2>2 DEF ScheduleInv
  <1>9. ASSUME NEW c \in Setters, CadenceWrite(c) PROVE ScheduleInv'
    <2>1. ctarget[c] \in Targets /\ quiet' = quiet /\ UNCHANGED sched
      BY <1>9 DEF CadenceWrite, OneOffer
    <2>2. \A r \in Schedulers, t \in Targets :
             /\ rearmed[r][t] => rearmed'[r][t]
             /\ rearmed'[r][t] \/ since'[t] = since[t]
      BY <1>9, <2>1 DEF CadenceWrite, TypeOK
    <2>3. \A r \in Schedulers, t \in Targets :
             /\ rearmed[r][t] \/ since[t] <= quiet[r][t] => rearmed'[r][t] \/ since'[t] <= quiet'[r][t]
             /\ Ready(r, t) => Ready(r, t)'
      BY <2>1, <2>2 DEF Ready
    <2> QED
      BY <1>l, <2>1, <2>3
  <1>10. ASSUME NEW u \in Users, NEW p \in Plans, ChangePlan(u, p) PROVE ScheduleInv'
    BY <1>10, ScheduleSame DEF ChangePlan
  <1>e. ASSUME NEW u \in Users, TrialEnds(u) PROVE ScheduleInv'
    BY <1>e, ScheduleSame DEF TrialEnds
  <1>11. ASSUME NEW t \in Targets, ChangeProof(t) PROVE ScheduleInv'
    BY <1>11, ScheduleSame DEF ChangeProof
  <1>12. ASSUME Pass PROVE ScheduleInv'
    <2>1. UNCHANGED sched /\ rearmed' = rearmed
      BY <1>12 DEF Pass
    <2>2. ASSUME NEW r \in Schedulers, NEW t \in Targets
          PROVE  /\ since[t] <= quiet[r][t] => since'[t] <= quiet'[r][t]
                 /\ quiet[r][t] = Interval => quiet'[r][t] = Interval
      <3>1. /\ quiet[r][t] \in 0 .. Interval /\ since[t] \in 0 .. Interval
            /\ since'[t] = IF since[t] < Interval THEN since[t] + 1 ELSE since[t]
            /\ quiet'[r][t] = IF quiet[r][t] < Interval THEN quiet[r][t] + 1 ELSE quiet[r][t]
        BY <1>12 DEF Pass, TypeOK
      <3> QED
        BY <3>1, LimitsAssumption
    <2>3. \A r \in Schedulers, t \in Targets :
             /\ rearmed[r][t] \/ since[t] <= quiet[r][t] => rearmed'[r][t] \/ since'[t] <= quiet'[r][t]
             /\ Ready(r, t) => Ready(r, t)'
      BY <2>1, <2>2 DEF Ready
    <2> QED
      BY <1>l, <2>1, <2>3
  <1>13. CASE UNCHANGED vars
    BY <1>13, ScheduleSame DEF vars, db
  <1> QED
    BY <1>1, <1>2, <1>3, <1>4, <1>5, <1>6, <1>7, <1>8, <1>9, <1>10, <1>e, <1>11, <1>12, <1>13 DEF Next

\* However many loops there are, none of them queues two scans of a site within an
\* interval: a tick decides on a snapshot, and its transactions may come much later, but
\* other loops only make the stamp younger, and the snapshot offers each target once.
THEOREM SchedulesAreWeekly == Spec => LoopIsWeekly
  <1> DEFINE Inv == TypeOK /\ OneOffer /\ ScheduleInv
  <1>1. Init => Inv
    <2>1. Init => ScheduleInv
      BY LimitsAssumption DEF Init, ScheduleInv, Ready
    <2> QED
      BY <2>1, InitAdmission DEF AdmissionInv
  <1>2. Inv /\ [Next]_vars => Inv'
    BY NextTypes, NextOneOffer, NextSchedule
  <1>3. Inv => [\A s \in Schedulers, t \in Targets : Queues(s, t) => Ready(s, t)]_vars
    BY DEF ScheduleInv, Queues
  <1> QED
    BY <1>1, <1>2, <1>3, PTL DEF Spec, LoopIsWeekly
-----------------------------------------------------------------------------
(***************************************************************************)
(* Requests that do not overlap keep both limits.                          *)
(***************************************************************************)

\* One request is in flight and no tick; what it was told of the budget, the plan and the
\* site is still so when it inserts.  (A trial begins only for an account that is new, so a
\* plan that was paid when it was read is not a trial now.)
Sequential ==
    /\ \A q, r \in Requests : rpc[q] # "idle" /\ rpc[r] # "idle" => q = r
    /\ \A s \in Schedulers : spc[s] = "asleep"
BudgetSeen == \A q \in Requests : rpc[q] \in {"siting", "inserting"} => Recent(rtarget[q]) < MaxScans
PlanSeen ==
    \A q \in Requests : rpc[q] \in {"counting", "siting", "inserting"} =>
        plan[Owner[rtarget[q]]] # "new" /\ (OnTrial(rtarget[q]) => rtrial[q])
SiteSeen == \A q \in Requests : rpc[q] = "inserting" /\ rtrial[q] => ~SiteUsed(rtarget[q])

AloneInv == Sequential /\ BudgetSeen /\ PlanSeen /\ SiteSeen /\ BudgetKept /\ OneTrialPerSite

\* A step that leaves jobs, plans and trials alone.
LEMMA LimitsSame ==
  ASSUME BudgetKept, OneTrialPerSite, UNCHANGED <<target, age, trialScans>>
  PROVE  /\ BudgetKept' /\ OneTrialPerSite'
         /\ \A t : Recent(t)' = Recent(t) /\ SiteUsed(t)' = SiteUsed(t)
  BY DEF BudgetKept, OneTrialPerSite, Recent, RecentJobs, SiteUsed

\* A step that does not concern create_scan.
LEMMA AloneSame ==
  ASSUME AloneInv, UNCHANGED <<plan, target, age, trialScans, request>>, spc' = spc
  PROVE  AloneInv'
  <1>1. BudgetKept' /\ OneTrialPerSite'
    BY LimitsSame DEF AloneInv
  <1>2. Sequential' /\ PlanSeen' /\ SiteSeen' /\ BudgetSeen'
    BY DEF AloneInv, Sequential, PlanSeen, SiteSeen, BudgetSeen, Recent, RecentJobs, SiteUsed, OnTrial, request
  <1> QED
    BY <1>1, <1>2 DEF AloneInv

\* Steps of one request, or of the world around it, keep the limits.
LEMMA NextAlone ==
  ASSUME TypeOK, OneOffer, AloneInv, [Next]_vars, [OneAtATime]_vars
  PROVE  AloneInv'
  <1> USE DEF AloneInv
  <1>0. OneOffer' /\ TypeOK'
    BY NextTypes, NextOneOffer
  <1>s. ASSUME Next PROVE Sequential'
    BY <1>s DEF OneAtATime, Sequential, vars, request, sched
  <1>u. ASSUME NEW q \in Requests, rpc'[q] # "idle", Next PROVE \A r \in Requests : rpc'[r] # "idle" => r = q
    BY <1>u, <1>s DEF Sequential
  \* A step of the request q that writes nothing.
  <1>r. ASSUME Next, NEW q \in Requests, UNCHANGED db, rpc[q] # "idle" \/ rpc'[q] # "idle",
               \A r \in Requests \ {q} : rpc'[r] = rpc[r],
               rpc'[q] \in {"siting", "inserting"} => Recent(rtarget'[q]) < MaxScans,
               rpc'[q] \in {"counting", "siting", "inserting"} =>
                   plan[Owner[rtarget'[q]]] # "new" /\ (OnTrial(rtarget'[q]) => rtrial'[q]),
               rpc'[q] = "inserting" /\ rtrial'[q] => ~SiteUsed(rtarget'[q])
        PROVE  AloneInv'
    <2>1. UNCHANGED <<plan, target, age, trialScans>>
      BY <1>r DEF db
    <2>2. BudgetKept' /\ OneTrialPerSite' /\ \A t : Recent(t)' = Recent(t) /\ SiteUsed(t)' = SiteUsed(t)
      BY <2>1, LimitsSame
    <2>3. \A r \in Requests : rpc'[r] # "idle" => r = q
      BY <1>r, <1>u DEF Sequential
    <2>4. BudgetSeen'
      BY <1>r, <2>1, <2>3 DEF BudgetSeen, Recent, RecentJobs
    <2>5. PlanSeen'
      BY <1>r, <2>1, <2>3 DEF PlanSeen, OnTrial
    <2>6. SiteSeen'
      BY <1>r, <2>1, <2>3 DEF SiteSeen, SiteUsed
    <2> QED
      BY <1>r, <1>s, <2>2, <2>4, <2>5, <2>6
  <1>f. ASSUME Next, NEW q \in Requests, rpc[q] # "idle", Refuse(q) PROVE AloneInv'
    <2>1. rpc'[q] = "idle" /\ UNCHANGED db /\ \A r \in Requests \ {q} : rpc'[r] = rpc[r]
      BY <1>f DEF Refuse, TypeOK
    <2> QED
      BY <1>f, <1>r, <2>1
  <1>1. ASSUME Next, NEW q \in Requests, NEW t \in Targets, Gate(q, t) PROVE AloneInv'
    <2>1. rpc'[q] = "planning" /\ UNCHANGED db /\ \A r \in Requests \ {q} : rpc'[r] = rpc[r]
      BY <1>1 DEF Gate, TypeOK
    <2> QED
      BY <1>1, <1>r, <2>1
  <1>2. ASSUME Next, NEW q \in Requests, ReadPlan(q) PROVE AloneInv'
    <2>1. CASE Refuse(q)
      BY <1>2, <1>f, <2>1 DEF ReadPlan
    <2>2. CASE ~Refuse(q)
      <3>1. /\ rpc[q] = "planning" /\ rpc'[q] = "counting" /\ UNCHANGED db /\ rtarget' = rtarget
            /\ rtrial'[q] = OnTrial(rtarget[q]) /\ HasPlan(rtarget[q])
            /\ \A r \in Requests \ {q} : rpc'[r] = rpc[r]
        BY <1>2, <2>2 DEF ReadPlan, TypeOK
      <3>2. plan[Owner[rtarget[q]]] # "new"
        BY <3>1 DEF HasPlan
      <3> QED
        BY <1>2, <1>r, <3>1, <3>2
    <2> QED
      BY <2>1, <2>2
  <1>3. ASSUME Next, NEW q \in Requests, Count(q) PROVE AloneInv'
    <2>1. CASE Refuse(q)
      BY <1>3, <1>f, <2>1 DEF Count
    <2>2. CASE ~Refuse(q)
      <3>1. /\ rpc[q] = "counting" /\ UNCHANGED db /\ rtarget' = rtarget /\ rtrial' = rtrial
            /\ rpc'[q] = IF rtrial[q] THEN "siting" ELSE "inserting"
            /\ WithinBudget(rtarget[q], rtrial[q])
            /\ \A r \in Requests \ {q} : rpc'[r] = rpc[r]
        BY <1>3, <2>2 DEF Count, TypeOK
      <3>2. Recent(rtarget[q]) < MaxScans
        BY <3>1 DEF WithinBudget
      <3>3. plan[Owner[rtarget[q]]] # "new" /\ (OnTrial(rtarget[q]) => rtrial[q])
        BY <3>1 DEF PlanSeen
      <3> QED
        BY <1>3, <1>r, <3>1, <3>2, <3>3
    <2> QED
      BY <2>1, <2>2
  <1>4. ASSUME Next, NEW q \in Requests, CheckSite(q) PROVE AloneInv'
    <2>1. CASE Refuse(q)
      BY <1>4, <1>f, <2>1 DEF CheckSite
    <2>2. CASE ~Refuse(q)
      <3>1. /\ rpc[q] = "siting" /\ UNCHANGED db /\ rtarget' = rtarget /\ rtrial' = rtrial
            /\ rpc'[q] = "inserting" /\ ~SiteUsed(rtarget[q])
            /\ \A r \in Requests \ {q} : rpc'[r] = rpc[r]
        BY <1>4, <2>2 DEF CheckSite, TypeOK
      <3>2. Recent(rtarget[q]) < MaxScans
        BY <3>1 DEF BudgetSeen
      <3>3. plan[Owner[rtarget[q]]] # "new" /\ (OnTrial(rtarget[q]) => rtrial[q])
        BY <3>1 DEF PlanSeen
      <3> QED
        BY <1>4, <1>r, <3>1, <3>2, <3>3
    <2> QED
      BY <2>1, <2>2
  <1>5. ASSUME Next, NEW q \in Requests, Admit(q) PROVE AloneInv'
    <2>1. PICK j \in Unused : InsertJobs(rtarget[q], {j})
      BY <1>5 DEF Admit
    <2>2. rpc[q] = "inserting" /\ rtarget[q] \in Targets
      BY <1>5 DEF Admit, OneOffer
    <2>3. \A r \in Requests : rpc'[r] = "idle"
      BY <1>5, <2>2 DEF Admit, Sequential, TypeOK
    <2>4. BudgetKept'
      <3> SUFFICES ASSUME NEW t \in Targets PROVE Recent(t)' <= MaxScans
        BY DEF BudgetKept
      <3>1. /\ {j} \subseteq Jobs /\ {j} \intersect RecentJobs(rtarget[q]) = {}
            /\ RecentJobs(t)' = IF t = rtarget[q] THEN RecentJobs(rtarget[q]) \union {j} ELSE RecentJobs(t)
        BY <2>1, <2>2, InsertedJobs
      <3>2. CASE t = rtarget[q]
        <4>1. Cardinality(RecentJobs(t)) < MaxScans
          BY <2>2, <3>2 DEF BudgetSeen, Recent
        <4>2. Cardinality(RecentJobs(t)') = Cardinality(RecentJobs(t)) + 1
          BY <3>1, <3>2, Finite, FS_AddElement
        <4> QED
          BY <4>1, <4>2, Sizes, LimitsAssumption DEF Recent
      <3>3. CASE t # rtarget[q]
        BY <3>1, <3>3 DEF BudgetKept, Recent
      <3> QED
        BY <3>2, <3>3
    <2>5. OneTrialPerSite'
      <3>1. trialScans' = Authorized(rtarget[q])
        BY <2>1 DEF InsertJobs
      <3>0. PICK n : n = <<Owner[rtarget[q]], rtarget[q], OnTrial(rtarget[q])>>
        OBVIOUS
      <3>4. n[1] = Owner[rtarget[q]] /\ n[2] = rtarget[q] /\ n[3] = OnTrial(rtarget[q])
        BY <3>0
      <3>5. trialScans' \subseteq trialScans \union {n}
        BY <3>0, <3>1 DEF Authorized
      <3>2. CASE OnTrial(rtarget[q])
        <4>2. ~SiteUsed(rtarget[q])
          BY <2>2, <3>2 DEF PlanSeen, SiteSeen
        <4>3. \A a \in trialScans : Site[a[2]] = Site[rtarget[q]] => a[1] = Owner[rtarget[q]]
          BY <4>2 DEF SiteUsed
        <4> QED
          BY <3>4, <3>5, <4>3 DEF OneTrialPerSite
      <3>3. CASE ~OnTrial(rtarget[q])
        BY <3>3, <3>4, <3>5 DEF OneTrialPerSite
      <3> QED
        BY <3>2, <3>3
    <2>6. BudgetSeen' /\ PlanSeen' /\ SiteSeen'
      BY <2>3 DEF BudgetSeen, PlanSeen, SiteSeen
    <2> QED
      BY <1>5, <1>s, <2>4, <2>5, <2>6
  <1>6. ASSUME Next, NEW q \in Requests, Drop(q) PROVE AloneInv'
    BY <1>6, <1>f DEF Drop
  <1>7. ASSUME Next, NEW s \in Schedulers,
               Snapshot(s) \/ Enqueue(s) \/ EnqueueFails(s) \/ Sleep(s) \/ Die(s)
                  \/ \E c \in Candidates : Consider(s, c)
        PROVE  FALSE
    <2>1. spc[s] = "asleep" /\ spc'[s] = "asleep"
      BY <1>7, <1>s DEF Sequential
    <2> QED
      BY <1>7, <2>1 DEF Snapshot, Enqueue, EnqueueFails, Sleep, Die, Consider, TypeOK
  <1>8. ASSUME NEW c \in Setters, NEW t \in Targets, NEW on \in BOOLEAN, CadenceGate(c, t, on)
        PROVE  AloneInv'
    BY <1>8, AloneSame DEF CadenceGate, db, sched
  <1>9. ASSUME NEW c \in Setters, CadencePlan(c) \/ CadenceWrite(c) \/ CadenceDrop(c) PROVE AloneInv'
    BY <1>9, AloneSame DEF CadencePlan, CadenceWrite, CadenceDrop, db, sched
  <1>10. ASSUME Next, NEW u \in Users, NEW p \in Plans, ChangePlan(u, p) PROVE AloneInv'
    <2>1. UNCHANGED <<target, age, trialScans, rpc, rtarget, rtrial>>
      BY <1>10 DEF ChangePlan, request
    <2>2. BudgetKept' /\ OneTrialPerSite'
      BY <2>1, LimitsSame
    <2>3. BudgetSeen' /\ SiteSeen'
      BY <2>1 DEF BudgetSeen, SiteSeen, Recent, RecentJobs, SiteUsed
    <2>4. \A v \in Users : plan[v] # "new" => plan'[v] # "new" /\ (plan'[v] = "trial" => plan[v] = "trial")
      BY <1>10 DEF ChangePlan, TypeOK
    <2>5. \A q \in Requests : rpc[q] # "idle" => Owner[rtarget[q]] \in Users
      BY TargetAssumption DEF OneOffer
    <2>6. PlanSeen'
      BY <2>1, <2>4, <2>5 DEF PlanSeen, OnTrial
    <2> QED
      BY <1>10, <1>s, <2>2, <2>3, <2>6
  <1>e. ASSUME NEW u \in Users, TrialEnds(u) PROVE AloneInv'
    BY <1>e, AloneSame DEF TrialEnds, sched
  <1>11. ASSUME NEW t \in Targets, ChangeProof(t) PROVE AloneInv'
    BY <1>11, AloneSame DEF ChangeProof, sched
  <1>12. ASSUME Next, Pass PROVE AloneInv'
    <2>1. UNCHANGED <<plan, target, trialScans, rpc, rtarget, rtrial>>
      BY <1>12 DEF Pass, request
    <2>2. \A t \in Targets : RecentJobs(t)' \subseteq RecentJobs(t)
      BY <1>12, <2>1, TargetAssumption, LimitsAssumption DEF Pass, RecentJobs, TypeOK
    <2>3. \A t \in Targets : Recent(t)' <= Recent(t) /\ Recent(t)' \in Nat /\ Recent(t) \in Nat
      BY <2>2, Finite, Sizes, FS_Subset DEF Recent
    <2>4. BudgetKept'
      BY <2>3, LimitsAssumption DEF BudgetKept
    <2>5. BudgetSeen'
      <3> SUFFICES ASSUME NEW q \in Requests, rpc'[q] \in {"siting", "inserting"}
                   PROVE  Recent(rtarget[q])' < MaxScans
        BY <2>1 DEF BudgetSeen, Recent, RecentJobs
      <3>1. rtarget[q] \in Targets /\ Recent(rtarget[q]) < MaxScans
        BY <2>1 DEF OneOffer, BudgetSeen
      <3> QED
        BY <3>1, <2>1, <2>3, LimitsAssumption DEF Recent, RecentJobs
    <2>6. PlanSeen' /\ SiteSeen' /\ OneTrialPerSite'
      BY <2>1 DEF PlanSeen, SiteSeen, OneTrialPerSite, OnTrial, SiteUsed
    <2> QED
      BY <1>12, <1>s, <2>4, <2>5, <2>6
  <1>13. CASE UNCHANGED vars
    BY <1>13, AloneSame DEF vars, db, sched
  <1> QED
    BY <1>1, <1>2, <1>3, <1>4, <1>5, <1>6, <1>7, <1>8, <1>9, <1>10, <1>e, <1>11, <1>12, <1>13 DEF Next

\* A user who asks for one scan after the other passes no limit, for any limits and any
\* number of users and sites, whatever billing, ownership, schedules and time do between
\* the queries of a request.
THEOREM LimitsHoldAlone == ModesSpec => []LimitsKeptAlone
  <1> DEFINE Inv == TypeOK /\ OneOffer /\ (alone => AloneInv)
  <1>1. ModesInit => Inv
    <2> SUFFICES ASSUME ModesInit PROVE Inv
      OBVIOUS
    <2>1. Init /\ TypeOK /\ OneOffer
      BY InitAdmission DEF ModesInit, AdmissionInv
    <2>2. Sequential /\ BudgetSeen /\ PlanSeen /\ SiteSeen /\ OneTrialPerSite
      BY <2>1 DEF Init, Sequential, BudgetSeen, PlanSeen, SiteSeen, OneTrialPerSite
    <2>3. \A t \in Targets : RecentJobs(t) = {}
      BY <2>1, TargetAssumption DEF Init, RecentJobs
    <2>4. BudgetKept
      BY <2>3, FS_EmptySet, LimitsAssumption DEF BudgetKept, Recent
    <2> QED
      BY <2>1, <2>2, <2>4 DEF AloneInv
  <1>2. Inv /\ [ModesNext]_<<vars, alone>> => Inv'
    <2> SUFFICES ASSUME Inv, [ModesNext]_<<vars, alone>> PROVE Inv'
      OBVIOUS
    <2>1. [Next]_vars /\ alone' = alone /\ (alone => [OneAtATime]_vars)
      BY DEF ModesNext
    <2>2. TypeOK' /\ OneOffer'
      BY <2>1, NextTypes, NextOneOffer
    <2>3. alone => AloneInv'
      BY <2>1, NextAlone
    <2> QED
      BY <2>1, <2>2, <2>3
  <1>3. Inv => LimitsKeptAlone
    BY DEF AloneInv, LimitsKeptAlone
  <1> QED
    BY <1>1, <1>2, <1>3, PTL DEF ModesSpec
=============================================================================
