-------------------------- MODULE MCScanAdmission --------------------------
(***************************************************************************)
(* One instance of both questions of AdmissionModes, and of a third.  In a *)
(* crowd two requests, a set_cadence and a scheduler meet on one target;   *)
(* alone, two users hold one site as www.example.com and example.com.  And *)
(* two workers have their loops on one target, with nobody else about but  *)
(* its owner, who sets its schedule.                                       *)
(***************************************************************************)
EXTENDS AdmissionModes, TLC

CONSTANTS u1, u2, t1, t2, s1, s2

VARIABLE loops

OwnerOf == t1 :> u1 @@ t2 :> u2
SiteOf  == t1 :> "example.com" @@ t2 :> "example.com"

FiveJobs  == 1 .. 5
ThreeJobs == 1 .. 3

\* Nobody sets a schedule, one request after another is made by the same process, and
\* three scans are enough to pass each limit.
ThreeScans ==
    /\ cpc' = cpc /\ \A j \in Jobs \ ThreeJobs : target'[j] = NoTarget
    /\ \A q, r \in Requests : rtarget'[q] # NoTarget /\ rtarget'[r] # NoTarget => q = r

\* Everybody works on the first target, with its full budget; the second user stays away.
OneTarget ==
    /\ plan'[u1] # "trial" /\ plan'[u2] = "new" /\ ~proved'[t2]
    /\ \A c \in Setters : ctarget'[c] # t2

\* The two loops; or the crowd, which a second loop joins when all of it is in
\* flight, and which lets that loop go first.
OneLoop ==
    \/ spc[s2] = "asleep" /\ spc'[s2] = "asleep"
    \/ /\ spc[s1] # "asleep" /\ spc'[s1] = spc[s1]
       /\ rpc' = rpc /\ \A q \in Requests : rpc[q] = "inserting"
TwoLoops == rpc' = rpc

MCInit == ModesInit /\ loops \in BOOLEAN /\ ~(alone /\ loops)
MCNext ==
    /\ ModesNext /\ UNCHANGED loops
    /\ IF alone THEN ThreeScans ELSE OneTarget
    /\ IF loops THEN TwoLoops ELSE OneLoop

MCSpec == MCInit /\ [][MCNext]_<<vars, alone, loops>>

\* Requests in flight are interchangeable.
RequestSymmetry == Permutations(Requests)
=============================================================================
