---------------------------- MODULE MCScanRunner ----------------------------
\* Small instances of ScanRunner: job ids are numbers, in the order of created_at.
EXTENDS ScanRunner, TLC

TwoJobs  == 1 .. 2

\* Every finding under one title: the two rules for a CDN's debug headers.
OneTitle == [f \in Findings |-> "title"]

\* The second finding is found together with the first only.  From then on nothing
\* fails, and the site stays on its schedule, with its proof.
OneTrouble ==
    /\ \A r \in Runners : 2 \in found[r] => 1 \in found[r]
    /\ 2 \in UNION {rows[j] \union truth[j] : j \in Jobs} \union UNION {found[r] : r \in Runners}
          => faults = 0 /\ \A t \in Targets : verified[t] /\ monitored[t]

MCSpec == Init /\ [][Next /\ OneTrouble']_vars /\ Fairness
=============================================================================
