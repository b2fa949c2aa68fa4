---------------------------- MODULE PortalConfig ----------------------------
(***************************************************************************)
(* Glarion's own portal configuration at Stripe (portal_configuration and  *)
(* ensure_portal_configuration, crates/api/src/routes/billing.rs): found   *)
(* by its mark or created, and remembered by the process in a OnceCell,    *)
(* which runs one initialisation at a time and keeps nothing of a failed   *)
(* one.                                                                    *)
(***************************************************************************)
EXTENDS Naturals, FiniteSets

CONSTANTS
    Machines,
    Configs,      \* identifiers Stripe may give out
    MaxLost,      \* bound on the posts given up on
    NoConfig

ASSUME ConfigAssumption == NoConfig \notin Configs /\ IsFiniteSet(Machines) /\ MaxLost \in Nat

VARIABLES
    existing,     \* active configurations with Glarion's mark
    machine,      \* Machines -> stage of its initialisation
    remembered,   \* Machines -> PORTAL_CONFIGURATION
    inflight,     \* posts nobody waits for any more that Stripe may still carry out
    lost          \* history: posts given up on before Stripe had carried them out

portal == <<existing, machine, remembered, inflight, lost>>

PortalTypeOK ==
    /\ existing \subseteq Configs
    /\ machine \in [Machines -> {"idle", "creating"}]
    /\ remembered \in [Machines -> Configs \union {NoConfig}]
    /\ inflight \in 0 .. MaxLost /\ lost \in 0 .. MaxLost

PortalInit ==
    /\ existing = {}
    /\ machine = [h \in Machines |-> "idle"]
    /\ remembered = [h \in Machines |-> NoConfig]
    /\ inflight = 0 /\ lost = 0

\* A plausible bug: what is there is not looked for.
FoundNever == {}

Found == existing

\* The list, and the one with the mark if there is one.
ListConfigurations(h) ==
    /\ machine[h] = "idle" /\ remembered[h] = NoConfig
    /\ \/ /\ Found = {}
          /\ machine' = [machine EXCEPT ![h] = "creating"]
          /\ UNCHANGED remembered
       \/ /\ \E c \in Found : remembered' = [remembered EXCEPT ![h] = c]
          /\ UNCHANGED machine
    /\ UNCHANGED <<existing, inflight, lost>>

\* The prices are read and the configuration posted; its answer may be lost on the way.
CreateConfiguration(h, c) ==
    /\ machine[h] = "creating" /\ c \notin existing
    /\ existing' = existing \union {c}
    /\ machine' = [machine EXCEPT ![h] = "idle"]
    /\ remembered' \in {remembered, [remembered EXCEPT ![h] = c]}
    /\ UNCHANGED <<inflight, lost>>

\* A read fails or Stripe refuses: the portal opens with the account's default this time.
CreationFails(h) ==
    /\ machine[h] = "creating"
    /\ machine' = [machine EXCEPT ![h] = "idle"]
    /\ UNCHANGED <<existing, remembered, inflight, lost>>

\* The 15 seconds are over, the request is dropped with the page it was for, or the process
\* dies: the initialisation ends, and the post is still on its way.
GiveUp(h) ==
    /\ machine[h] = "creating" /\ lost < MaxLost
    /\ machine' = [machine EXCEPT ![h] = "idle"]
    /\ inflight' = inflight + 1 /\ lost' = lost + 1
    /\ UNCHANGED <<existing, remembered>>

\* Stripe carries out a post that was given up on.
CommitLate(c) ==
    /\ inflight > 0 /\ c \notin existing
    /\ existing' = existing \union {c}
    /\ inflight' = inflight - 1
    /\ UNCHANGED <<machine, remembered, lost>>

\* A new process has nothing in its OnceCell.
RestartMachine(h) ==
    /\ remembered[h] # NoConfig
    /\ remembered' = [remembered EXCEPT ![h] = NoConfig]
    /\ UNCHANGED <<existing, machine, inflight, lost>>

PortalNext ==
    \/ \E h \in Machines :
          \/ ListConfigurations(h) \/ CreationFails(h) \/ GiveUp(h) \/ RestartMachine(h)
          \/ \E c \in Configs : CreateConfiguration(h, c)
    \/ \E c \in Configs : CommitLate(c)

PortalSpec == PortalInit /\ [][PortalNext]_portal
-----------------------------------------------------------------------------
\* "two machines starting together can each create one; either works": with restarts,
\* refusals and lost answers there is one for each machine at most, and one more for each
\* post that was given up on while it was under way; every machine opens the portal with
\* one that exists.
ConfigsBounded ==
    /\ Cardinality(existing) <= Cardinality(Machines) + lost
    /\ \A h \in Machines : remembered[h] # NoConfig => remembered[h] \in existing
=============================================================================
