--------------------------- MODULE SiteAllowance ---------------------------
(***************************************************************************)
(* Adding a site (create_target, crates/api/src/routes/targets.rs).  What  *)
(* the plan allows, how many sites there are, and the insert are three     *)
(* statements, and the webhook changes the plan whenever it likes.  No     *)
(* site is ever deleted.                                                   *)
(***************************************************************************)
EXTENDS Naturals, FiniteSetsExt

CONSTANTS
    Adders,       \* requests of one account
    Domains,
    Allowances    \* what max_targets can be: plans, and the smaller one of a trial

ASSUME AllowanceAssumption ==
    Allowances \subseteq Nat \ {0} /\ Allowances # {} /\ Domains # {} /\ IsFiniteSet(Adders)

VARIABLES
    allowance,    \* current_access(..).max_targets() now
    sites,        \* the account's targets
    adder,        \* Adders -> stage, the allowance it read and the domain
    highest       \* history: Adders -> the largest allowance since it read its own

allowing == <<allowance, sites, adder, highest>>

SitesTypeOK ==
    /\ allowance \in Allowances
    /\ sites \subseteq Domains
    /\ adder \in [Adders -> [stage : {"idle", "counting", "adding"}, max : Allowances, domain : Domains]]
    /\ highest \in [Adders -> Allowances]

SitesInit ==
    /\ allowance \in Allowances
    /\ sites = {}
    /\ adder = [r \in Adders |-> [stage |-> "idle", max |-> CHOOSE n \in Allowances : TRUE,
                                  domain |-> CHOOSE d \in Domains : TRUE]]
    /\ highest = [r \in Adders |-> allowance]

\* The webhook writes another plan, or the trial begins or ends.
AccessChanges(n) ==
    /\ allowance # n
    /\ allowance' = n
    /\ highest' = [r \in Adders |-> IF adder[r].stage = "idle" THEN n ELSE Max({highest[r], n})]
    /\ UNCHANGED <<sites, adder>>

AccessRead(r, d) ==
    /\ adder[r].stage = "idle"
    /\ adder' = [adder EXCEPT ![r] = [stage |-> "counting", max |-> allowance, domain |-> d]]
    /\ highest' = [highest EXCEPT ![r] = allowance]
    /\ UNCHANGED <<allowance, sites>>

\* A plausible bug: the allowance itself may be exceeded by one.
FullLate(r) == Cardinality(sites) > adder[r].max

Full(r) == Cardinality(sites) >= adder[r].max

CountRead(r) ==
    /\ adder[r].stage = "counting"
    /\ adder' = [adder EXCEPT ![r].stage = IF Full(r) THEN "idle" ELSE "adding"]
    /\ UNCHANGED <<allowance, sites, highest>>

\* on conflict do nothing: the site that is there already stays.
CreateTarget(r) ==
    /\ adder[r].stage = "adding"
    /\ sites' = sites \union {adder[r].domain}
    /\ adder' = [adder EXCEPT ![r].stage = "idle"]
    /\ UNCHANGED <<allowance, highest>>

SitesNext ==
    \/ \E n \in Allowances : AccessChanges(n)
    \/ \E r \in Adders : CountRead(r) \/ CreateTarget(r) \/ \E d \in Domains : AccessRead(r, d)

SitesSpec == SitesInit /\ [][SitesNext]_allowing
-----------------------------------------------------------------------------
\* Nothing holds the count until the insert, so requests in flight together overdraw the
\* allowance, by no more than their number less one: a site is added beyond what the
\* account was allowed while its request ran only beside another such request.
SitesBounded ==
    [][\A r \in Adders :
          adder[r].stage = "adding" /\ adder'[r].stage = "idle" /\ sites' # sites
              => Cardinality(sites') <= highest[r] + Cardinality(Adders) - 1]_allowing
=============================================================================
