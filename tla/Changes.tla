------------------------------ MODULE Changes ------------------------------
(***************************************************************************)
(* How a finished scan compares with the one before it                     *)
(* (crates/orchestrator/src/schedule.rs).  A scan is the set of its        *)
(* actionable keys: triage folds rows with one title together, so a list   *)
(* of keys never repeats one.  Option<keys> is a set with at most one      *)
(* member: {} is None, {K} is Some(K).                                     *)
(***************************************************************************)
EXTENDS Integers, FiniteSets

Kinds == {"None", "Appeared", "Resolved", "Worse", "Better", "Replaced"}

\* compare: by count alone.
Compare(from, to) ==
    CASE from = to              -> "None"
      [] from = 0 /\ to # 0     -> "Appeared"
      [] from # 0 /\ to = 0     -> "Resolved"
      [] from # 0 /\ to > from  -> "Worse"
      [] OTHER                  -> "Better"

\* A plausible bug: the keys are only counted.
CompareCounts(previous, current) == Compare(Cardinality(previous), Cardinality(current))

\* compare_identities: by identity first, then by count.
CompareIdentities(previous, current) ==
    LET from == Cardinality(previous)
        to   == Cardinality(current)
    IN  IF current \ previous # {} /\ to <= from /\ from > 0
        THEN "Replaced"
        ELSE Compare(from, to)

\* Change::worth_reporting of compare_identities; None, a first scan, is not.
WorthReporting(previous, current) ==
    \E keys \in previous : CompareIdentities(keys, current) # "None"
=============================================================================
