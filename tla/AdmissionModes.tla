--------------------------- MODULE AdmissionModes ---------------------------
(***************************************************************************)
(* ScanAdmission asked two questions, told apart by a flag chosen at the   *)
(* start.  In a crowd requests, set_cadence and the scheduler meet: how    *)
(* far may the limits be overrun?  Alone, one request of create_scan at a  *)
(* time and no scheduler: are the limits kept?                             *)
(***************************************************************************)
EXTENDS ScanAdmission

VARIABLE alone

\* No request begins before the one in flight is answered, and no tick does.
OneAtATime ==
    /\ \A q, r \in Requests : rpc'[q] # "idle" /\ rpc'[r] # "idle" => q = r
    /\ spc' = spc

ModesInit == Init /\ alone \in BOOLEAN
ModesNext == Next /\ (alone => OneAtATime) /\ UNCHANGED alone
ModesSpec == ModesInit /\ [][ModesNext]_<<vars, alone>>

\* "Maximum scans per target per rolling 24 hours" and "One free trial per site"
\* (policy.rs) hold of requests of create_scan that do not overlap: they pass no
\* budget, and never scan one site in the trials of two users.
LimitsKeptAlone == alone => BudgetKept /\ OneTrialPerSite
=============================================================================
