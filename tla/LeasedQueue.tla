---------------------------- MODULE LeasedQueue ----------------------------
(***************************************************************************)
(* What the scan queue promises, with no clock, no crash and no database:  *)
(* a job that runs has at most one owner, only the owner of a job may end  *)
(* it, an ended job stays ended, and a job goes back to the queue only     *)
(* after its owner is gone.  ScanRunner implements this with a start time  *)
(* on the row and updates that name nothing but the job's id.              *)
(***************************************************************************)
CONSTANTS Jobs, Runners, NoRunner

VARIABLES state,   \* state[j]: "absent", "queued", "running", "completed", "failed"
          owner    \* owner[j]: the runner working on j, or NoRunner

vars == <<state, owner>>

Init ==
    /\ state = [j \in Jobs |-> "absent"]
    /\ owner = [j \in Jobs |-> NoRunner]

\* A request or a schedule adds a job.
Add(j) ==
    /\ state[j] = "absent"
    /\ state' = [state EXCEPT ![j] = "queued"]
    /\ UNCHANGED owner

\* An idle runner becomes the owner of a queued job.
Take(r, j) ==
    /\ state[j] = "queued"
    /\ owner[j] = NoRunner
    /\ \A i \in Jobs : owner[i] # r
    /\ state' = [state EXCEPT ![j] = "running"]
    /\ owner' = [owner EXCEPT ![j] = r]

\* The owner, and nobody else, ends a running job.
End(r, j, how) ==
    /\ owner[j] = r
    /\ state[j] = "running"
    /\ state' = [state EXCEPT ![j] = how]
    /\ owner' = [owner EXCEPT ![j] = NoRunner]

\* The owner goes away without ending its job.
Lose(j) ==
    /\ owner[j] # NoRunner
    /\ owner' = [owner EXCEPT ![j] = NoRunner]
    /\ UNCHANGED state

\* Jobs that run but have no owner any more go back to the queue.
Return(S) ==
    /\ \A j \in S : state[j] = "running" /\ owner[j] = NoRunner
    /\ state' = [j \in Jobs |-> IF j \in S THEN "queued" ELSE state[j]]
    /\ UNCHANGED owner

Next ==
    \/ \E j \in Jobs : Add(j) \/ Lose(j)
    \/ \E r \in Runners, j \in Jobs : Take(r, j)
    \/ \E r \in Runners, j \in Jobs, how \in {"completed", "failed"} : End(r, j, how)
    \/ \E S \in SUBSET Jobs : Return(S)

Spec == Init /\ [][Next]_vars
=============================================================================
