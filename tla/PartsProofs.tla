---------------------------- MODULE PartsProofs ----------------------------
(***************************************************************************)
(* The small parts of the billing and preview routes, each for any number  *)
(* of replicas, requests and page views and for any lengths of time.       *)
(***************************************************************************)
EXTENDS PreviewMail, SiteAllowance, Recovery, PriceCache, Promo, PortalConfig,
        FiniteSetTheorems, TLAPS

\* The smaller and the larger of two numbers.
LEMMA MinTwo ==
  ASSUME NEW a \in Int, NEW b \in Int
  PROVE  Min({a, b}) = IF a <= b THEN a ELSE b
  <1>1. \E x \in {a, b} : \A y \in {a, b} : x =< y
    BY SMT
  <1>2. Min({a, b}) \in {a, b} /\ \A y \in {a, b} : Min({a, b}) =< y
    BY <1>1, Zenon DEF Min
  <1> QED
    BY <1>2

\* The larger of two numbers.
LEMMA MaxTwo ==
  ASSUME NEW a \in Int, NEW b \in Int
  PROVE  Max({a, b}) = IF a <= b THEN b ELSE a
  <1>1. \E x \in {a, b} : \A y \in {a, b} : x >= y
    BY SMT
  <1>2. Max({a, b}) \in {a, b} /\ \A y \in {a, b} : Max({a, b}) >= y
    BY <1>1, Zenon DEF Max
  <1> QED
    BY <1>2
-----------------------------------------------------------------------------
(* PortalConfig *)

\* Every machine that is about to create a configuration will add one at most; it looked
\* when there was none, or only what was given up on before had come since.  A post that was
\* given up on and is still under way has been counted as lost.
Creating == {h \in Machines : machine[h] = "creating"}
PortalInv ==
    /\ PortalTypeOK
    /\ IsFiniteSet(existing) /\ inflight <= lost
    /\ Cardinality(existing) + Cardinality(Creating) + inflight <= Cardinality(Machines) + lost
    /\ \A h \in Machines : remembered[h] # NoConfig => remembered[h] \in existing

\* The machines that create a configuration can be counted.
LEMMA CreatingFinite == IsFiniteSet(Creating) /\ Cardinality(Creating) \in Nat
                        /\ Cardinality(Creating) <= Cardinality(Machines)
  <1>1. Creating \subseteq Machines /\ IsFiniteSet(Machines)
    BY ConfigAssumption DEF Creating
  <1> QED
    BY <1>1, FS_Subset, FS_CardinalityType

\* A look-up, a creation, a failure, a post given up on and carried out late, and a restart
\* keep the bound on configurations.
LEMMA PortalStep == PortalInv /\ [PortalNext]_portal => PortalInv'
  <1> SUFFICES ASSUME PortalInv, [PortalNext]_portal PROVE PortalInv'
    OBVIOUS
  <1>0. /\ PortalTypeOK /\ IsFiniteSet(existing) /\ IsFiniteSet(Creating)
        /\ Cardinality(existing) \in Nat /\ Cardinality(Creating) \in Nat /\ Cardinality(Machines) \in Nat
        /\ inflight \in Nat /\ lost \in Nat /\ inflight <= lost
    BY CreatingFinite, ConfigAssumption, FS_CardinalityType DEF PortalInv, PortalTypeOK
  <1>1. ASSUME NEW h \in Machines, ListConfigurations(h)
        PROVE  PortalInv'
    <2>1. PortalTypeOK' /\ existing' = existing /\ inflight' = inflight /\ lost' = lost
      BY <1>0, <1>1 DEF PortalTypeOK, ListConfigurations, Found
    <2>2. CASE existing = {}
      <3>1. Cardinality(existing') = 0 /\ IsFiniteSet(existing')
        BY <2>1, <2>2, FS_EmptySet
      <3>2. Creating' \subseteq Machines
        BY DEF Creating
      <3>3. Cardinality(Creating') \in Nat /\ Cardinality(Creating') <= Cardinality(Machines)
        BY <3>2, ConfigAssumption, FS_Subset, FS_CardinalityType
      <3>4. remembered' = remembered
        BY <1>1, <2>2 DEF ListConfigurations, Found
      <3> QED
        BY <1>0, <2>1, <3>1, <3>3, <3>4 DEF PortalInv
    <2>3. CASE existing # {}
      <3>1. PICK c \in existing : remembered' = [remembered EXCEPT ![h] = c] /\ UNCHANGED machine
        BY <1>1, <2>3 DEF ListConfigurations, Found
      <3>2. Creating' = Creating
        BY <3>1 DEF Creating
      <3> QED
        BY <1>0, <2>1, <3>1, <3>2 DEF PortalInv, PortalTypeOK
    <2> QED
      BY <2>2, <2>3
  <1>2. ASSUME NEW h \in Machines, NEW c \in Configs, CreateConfiguration(h, c)
        PROVE  PortalInv'
    <2>1. /\ PortalTypeOK' /\ h \in Creating /\ c \notin existing
          /\ existing' = existing \union {c} /\ Creating' = Creating \ {h}
          /\ inflight' = inflight /\ lost' = lost
      BY <1>0, <1>2 DEF PortalTypeOK, CreateConfiguration, Creating
    <2>2. IsFiniteSet(existing') /\ Cardinality(existing') = Cardinality(existing) + 1
      BY <1>0, <2>1, FS_AddElement
    <2>3. Cardinality(Creating') = Cardinality(Creating) - 1
      BY <1>0, <2>1, FS_RemoveElement
    <2>4. \A m \in Machines : remembered'[m] # NoConfig => remembered'[m] \in existing'
      BY <1>0, <1>2, <2>1 DEF PortalInv, PortalTypeOK, CreateConfiguration
    <2> QED
      BY <1>0, <2>1, <2>2, <2>3, <2>4 DEF PortalInv
  <1>3. ASSUME NEW h \in Machines, CreationFails(h) \/ RestartMachine(h)
        PROVE  PortalInv'
    <2>1. /\ PortalTypeOK' /\ existing' = existing /\ Creating' \subseteq Creating
          /\ inflight' = inflight /\ lost' = lost
          /\ \A m \in Machines : remembered'[m] \in {remembered[m], NoConfig}
      BY <1>0, <1>3 DEF PortalTypeOK, CreationFails, RestartMachine, Creating
    <2>2. Cardinality(Creating') \in Nat /\ Cardinality(Creating') <= Cardinality(Creating)
      BY <1>0, <2>1, FS_Subset, FS_CardinalityType
    <2> QED
      BY <1>0, <2>1, <2>2 DEF PortalInv
  <1>5. ASSUME NEW h \in Machines, GiveUp(h)
        PROVE  PortalInv'
    <2>1. /\ PortalTypeOK' /\ h \in Creating /\ Creating' = Creating \ {h}
          /\ existing' = existing /\ remembered' = remembered
          /\ inflight' = inflight + 1 /\ lost' = lost + 1
      BY <1>0, <1>5, ConfigAssumption DEF PortalTypeOK, GiveUp, Creating
    <2>2. Cardinality(Creating') = Cardinality(Creating) - 1
      BY <1>0, <2>1, FS_RemoveElement
    <2> QED
      BY <1>0, <2>1, <2>2 DEF PortalInv
  <1>6. ASSUME NEW c \in Configs, CommitLate(c)
        PROVE  PortalInv'
    <2>1. /\ PortalTypeOK' /\ Creating' = Creating /\ c \notin existing
          /\ existing' = existing \union {c} /\ remembered' = remembered
          /\ inflight' = inflight - 1 /\ lost' = lost
      BY <1>0, <1>6, ConfigAssumption DEF PortalTypeOK, CommitLate, Creating
    <2>2. IsFiniteSet(existing') /\ Cardinality(existing') = Cardinality(existing) + 1
      BY <1>0, <2>1, FS_AddElement
    <2> QED
      BY <1>0, <2>1, <2>2 DEF PortalInv
  <1>4. CASE UNCHANGED portal
    <2>1. Creating' = Creating
      BY <1>4 DEF portal, Creating
    <2> QED
      BY <1>4, <2>1 DEF portal, PortalInv, PortalTypeOK
  <1> QED
    BY <1>1, <1>2, <1>3, <1>4, <1>5, <1>6 DEF PortalNext

\* ensure_portal_configuration: however the machines start, fail, give up and restart, Stripe
\* has one configuration for each of them at most and one more for each post that was given
\* up on, and no machine uses one that is not there.
THEOREM PortalBounded == PortalSpec => []ConfigsBounded
  <1>1. PortalInit => PortalInv
    <2> SUFFICES ASSUME PortalInit PROVE PortalInv
      OBVIOUS
    <2>1. Creating = {} /\ existing = {}
      BY DEF PortalInit, Creating
    <2>2. IsFiniteSet(existing) /\ Cardinality(existing) = 0 /\ Cardinality(Creating) = 0
      BY <2>1, FS_EmptySet
    <2>3. Cardinality(Machines) \in Nat
      BY ConfigAssumption, FS_CardinalityType
    <2> QED
      BY <2>2, <2>3, ConfigAssumption DEF PortalInit, PortalInv, PortalTypeOK
  <1>2. PortalInv => ConfigsBounded
    <2> SUFFICES ASSUME PortalInv PROVE ConfigsBounded
      OBVIOUS
    <2>1. /\ Cardinality(existing) \in Nat /\ Cardinality(Creating) \in Nat
          /\ Cardinality(Machines) \in Nat /\ inflight \in Nat /\ lost \in Nat
      BY CreatingFinite, ConfigAssumption, FS_CardinalityType DEF PortalInv, PortalTypeOK
    <2> QED
      BY <2>1 DEF PortalInv, ConfigsBounded
  <1> QED
    BY <1>1, <1>2, PortalStep, PTL DEF PortalSpec
-----------------------------------------------------------------------------
(* SiteAllowance *)

\* The others that may still add a site beyond what r was allowed: they have counted, or
\* they read an allowance larger than any that r has seen.
Ahead(r) ==
    {q \in Adders \ {r} : \/ adder[q].stage = "adding"
                          \/ adder[q].stage = "counting" /\ adder[q].max > highest[r]}
SitesInv ==
    /\ SitesTypeOK /\ IsFiniteSet(sites)
    /\ \A r \in Adders : adder[r].stage # "idle" => adder[r].max <= highest[r] /\ allowance <= highest[r]
    /\ \A r \in Adders : adder[r].stage = "adding"
          => Cardinality(sites) + Cardinality(Ahead(r)) <= highest[r] - 1 + Cardinality(Adders) - 1

\* No request is ahead of itself.
LEMMA AheadBounded ==
  ASSUME NEW r \in Adders
  PROVE  /\ IsFiniteSet(Ahead(r)) /\ Cardinality(Ahead(r)) \in Nat /\ Cardinality(Adders) \in Nat
         /\ Cardinality(Ahead(r)) <= Cardinality(Adders) - 1
  <1>1. IsFiniteSet(Adders \ {r}) /\ Cardinality(Adders \ {r}) = Cardinality(Adders) - 1
    BY AllowanceAssumption, FS_RemoveElement
  <1>2. Ahead(r) \subseteq Adders \ {r}
    BY DEF Ahead
  <1> QED
    BY <1>1, <1>2, AllowanceAssumption, FS_Subset, FS_CardinalityType

\* A request that is no longer ahead makes room for the site it added.
LEMMA AheadStep ==
  ASSUME SitesInv, SitesTypeOK', NEW r \in Adders, adder[r].stage = "adding", adder'[r].stage = "adding",
         highest'[r] \in Nat, highest'[r] >= highest[r],
         \/ /\ Ahead(r)' \subseteq Ahead(r) /\ sites' = sites
         \/ \E q \in Ahead(r) : /\ Ahead(r)' \subseteq Ahead(r) \ {q}
                                /\ \E d \in Domains : sites' = sites \union {d}
  PROVE  Cardinality(sites)' + Cardinality(Ahead(r))' <= highest'[r] - 1 + Cardinality(Adders) - 1
  <1>0. /\ IsFiniteSet(sites) /\ Cardinality(sites) \in Nat /\ IsFiniteSet(Ahead(r))
        /\ Cardinality(Ahead(r)) \in Nat /\ Cardinality(Adders) \in Nat /\ highest[r] \in Nat
        /\ Cardinality(sites) + Cardinality(Ahead(r)) <= highest[r] - 1 + Cardinality(Adders) - 1
    BY AheadBounded, AllowanceAssumption, FS_CardinalityType DEF SitesInv, SitesTypeOK
  <1>1. CASE Ahead(r)' \subseteq Ahead(r) /\ sites' = sites
    <2>1. Cardinality(Ahead(r)') <= Cardinality(Ahead(r)) /\ Cardinality(Ahead(r)') \in Nat
      BY <1>0, <1>1, FS_Subset, FS_CardinalityType
    <2> QED
      BY <1>0, <1>1, <2>1
  <1>2. ASSUME NEW q \in Ahead(r), Ahead(r)' \subseteq Ahead(r) \ {q}, NEW d \in Domains,
               sites' = sites \union {d}
        PROVE  Cardinality(sites)' + Cardinality(Ahead(r))' <= highest'[r] - 1 + Cardinality(Adders) - 1
    <2>1. IsFiniteSet(Ahead(r) \ {q}) /\ Cardinality(Ahead(r) \ {q}) = Cardinality(Ahead(r)) - 1
      BY <1>0, <1>2, FS_RemoveElement
    <2>2. Cardinality(Ahead(r)') <= Cardinality(Ahead(r)) - 1 /\ Cardinality(Ahead(r)') \in Nat
      BY <1>2, <2>1, FS_Subset, FS_CardinalityType
    <2>3. IsFiniteSet(sites') /\ Cardinality(sites') \in {Cardinality(sites), Cardinality(sites) + 1}
      BY <1>0, <1>2, FS_AddElement
    <2> QED
      BY <1>0, <2>2, <2>3
  <1> QED
    BY <1>1, <1>2

\* Every statement of create_target, and every change of plan, keeps the allowance's bound.
LEMMA SitesStep == SitesInv /\ [SitesNext]_allowing => SitesInv'
  <1> SUFFICES ASSUME SitesInv, [SitesNext]_allowing PROVE SitesInv'
    OBVIOUS
  <1>0. /\ SitesTypeOK /\ IsFiniteSet(sites) /\ Cardinality(sites) \in Nat
        /\ \A r \in Adders : highest[r] \in Nat /\ adder[r].max \in Nat
        /\ allowance \in Nat
    BY AllowanceAssumption, FS_CardinalityType DEF SitesInv, SitesTypeOK
  <1>1. ASSUME NEW n \in Allowances, AccessChanges(n)
        PROVE  SitesInv'
    <2>1. n \in Nat
      BY AllowanceAssumption
    <2>2. \A r \in Adders :
             /\ Max({highest[r], n}) = IF highest[r] <= n THEN n ELSE highest[r]
             /\ Max({highest[r], n}) \in Allowances
      BY <1>0, <2>1, MaxTwo DEF SitesTypeOK
    <2>3. SitesTypeOK' /\ UNCHANGED <<sites, adder>> /\ allowance' = n
      BY <1>0, <1>1, <2>2 DEF SitesTypeOK, AccessChanges
    <2>4. \A r \in Adders : highest'[r] = IF adder[r].stage = "idle" THEN n ELSE Max({highest[r], n})
      BY <1>1 DEF AccessChanges
    <2>5. \A r \in Adders : adder[r].stage # "idle" =>
             highest'[r] \in Nat /\ highest'[r] >= highest[r] /\ n <= highest'[r]
      <3> SUFFICES ASSUME NEW r \in Adders, adder[r].stage # "idle"
                   PROVE  highest'[r] \in Nat /\ highest'[r] >= highest[r] /\ n <= highest'[r]
        OBVIOUS
      <3>1. highest'[r] = IF highest[r] <= n THEN n ELSE highest[r]
        BY <2>2, <2>4
      <3> QED
        BY <1>0, <2>1, <3>1
    <2>6. \A r \in Adders : adder'[r].stage # "idle" =>
             adder'[r].max <= highest'[r] /\ allowance' <= highest'[r]
      BY <1>0, <2>3, <2>5 DEF SitesInv
    <2>7. ASSUME NEW r \in Adders, adder'[r].stage = "adding"
          PROVE  Cardinality(sites)' + Cardinality(Ahead(r))' <= highest'[r] - 1 + Cardinality(Adders) - 1
      <3>1. Ahead(r)' \subseteq Ahead(r)
        BY <1>0, <2>3, <2>5, <2>7 DEF Ahead
      <3> QED
        BY <2>3, <2>5, <2>7, <3>1, AheadStep
    <2> QED
      BY <1>0, <2>3, <2>6, <2>7 DEF SitesInv
  <1>2. ASSUME NEW q \in Adders, NEW d \in Domains, AccessRead(q, d)
        PROVE  SitesInv'
    <2>1. /\ SitesTypeOK' /\ UNCHANGED <<allowance, sites>>
          /\ adder'[q].stage = "counting" /\ adder'[q].max = allowance /\ highest'[q] = allowance
          /\ \A r \in Adders \ {q} : adder'[r] = adder[r] /\ highest'[r] = highest[r]
      BY <1>0, <1>2 DEF SitesTypeOK, AccessRead
    <2>2. \A r \in Adders : adder'[r].stage # "idle" =>
             adder'[r].max <= highest'[r] /\ allowance' <= highest'[r]
      BY <1>0, <2>1 DEF SitesInv
    <2>3. ASSUME NEW r \in Adders, adder'[r].stage = "adding"
          PROVE  Cardinality(sites)' + Cardinality(Ahead(r))' <= highest'[r] - 1 + Cardinality(Adders) - 1
      <3>1. r # q /\ adder[r].stage = "adding" /\ highest'[r] = highest[r] /\ allowance <= highest[r]
        BY <2>1, <2>3 DEF SitesInv
      <3>2. Ahead(r)' \subseteq Ahead(r)
        BY <1>0, <2>1, <3>1 DEF Ahead
      <3> QED
        BY <1>0, <2>1, <2>3, <3>1, <3>2, AheadStep
    <2> QED
      BY <1>0, <2>1, <2>2, <2>3 DEF SitesInv
  <1>3. ASSUME NEW q \in Adders, CountRead(q)
        PROVE  SitesInv'
    <2>1. /\ SitesTypeOK' /\ UNCHANGED <<allowance, sites, highest>>
          /\ adder[q].stage = "counting" /\ adder'[q].max = adder[q].max
          /\ adder'[q].stage = IF Full(q) THEN "idle" ELSE "adding"
          /\ \A r \in Adders \ {q} : adder'[r] = adder[r]
      BY <1>0, <1>3 DEF SitesTypeOK, CountRead
    <2>2. \A r \in Adders : adder'[r].stage # "idle" =>
             adder'[r].max <= highest'[r] /\ allowance' <= highest'[r]
      BY <1>0, <2>1 DEF SitesInv
    <2>3. ASSUME NEW r \in Adders, adder'[r].stage = "adding"
          PROVE  Cardinality(sites)' + Cardinality(Ahead(r))' <= highest'[r] - 1 + Cardinality(Adders) - 1
      <3>1. /\ Cardinality(Ahead(r)') \in Nat /\ Cardinality(Adders) \in Nat
            /\ Cardinality(Ahead(r)') <= Cardinality(Adders) - 1
        <4>1. IsFiniteSet(Adders \ {r}) /\ Cardinality(Adders \ {r}) = Cardinality(Adders) - 1
          BY AllowanceAssumption, FS_RemoveElement
        <4>2. Ahead(r)' \subseteq Adders \ {r}
          BY DEF Ahead
        <4> QED
          BY <4>1, <4>2, AllowanceAssumption, FS_Subset, FS_CardinalityType
      <3>2. CASE ~Full(q) /\ adder[q].max <= highest[r]
        <4>1. Cardinality(sites) <= highest[r] - 1
          BY <1>0, <3>2 DEF Full
        <4> QED
          BY <1>0, <2>1, <3>1, <4>1
      <3>3. CASE Full(q) \/ adder[q].max > highest[r]
        <4>1. r # q /\ adder[r].stage = "adding"
          BY <1>0, <2>1, <2>3, <3>3 DEF SitesInv
        <4>2. Ahead(r)' \subseteq Ahead(r)
          BY <1>0, <2>1, <3>3, <4>1 DEF Ahead
        <4> QED
          BY <1>0, <2>1, <2>3, <4>1, <4>2, AheadStep
      <3> QED
        BY <1>0, <3>2, <3>3
    <2> QED
      BY <1>0, <2>1, <2>2, <2>3 DEF SitesInv
  <1>4. ASSUME NEW q \in Adders, CreateTarget(q)
        PROVE  SitesInv'
    <2>1. /\ SitesTypeOK' /\ UNCHANGED <<allowance, highest>>
          /\ adder[q].stage = "adding" /\ adder'[q].stage = "idle" /\ adder'[q].max = adder[q].max
          /\ \A r \in Adders \ {q} : adder'[r] = adder[r]
          /\ sites' = sites \union {adder[q].domain} /\ adder[q].domain \in Domains
      BY <1>0, <1>4 DEF SitesTypeOK, CreateTarget
    <2>2. \A r \in Adders : adder'[r].stage # "idle" =>
             adder'[r].max <= highest'[r] /\ allowance' <= highest'[r]
      BY <1>0, <2>1 DEF SitesInv
    <2>3. ASSUME NEW r \in Adders, adder'[r].stage = "adding"
          PROVE  Cardinality(sites)' + Cardinality(Ahead(r))' <= highest'[r] - 1 + Cardinality(Adders) - 1
      <3>1. r # q /\ adder[r].stage = "adding"
        BY <2>1, <2>3
      <3>2. q \in Ahead(r) /\ Ahead(r)' \subseteq Ahead(r) \ {q}
        BY <2>1, <3>1 DEF Ahead
      <3>3. \E p \in Ahead(r) : /\ Ahead(r)' \subseteq Ahead(r) \ {p}
                                /\ \E d \in Domains : sites' = sites \union {d}
        BY <2>1, <3>2
      <3>4. highest'[r] \in Nat /\ highest'[r] >= highest[r]
        BY <1>0, <2>1
      <3> QED
        BY <2>1, <2>3, <3>1, <3>3, <3>4, AheadStep
    <2>4. IsFiniteSet(sites')
      BY <1>0, <2>1, FS_AddElement
    <2> QED
      BY <2>1, <2>2, <2>3, <2>4 DEF SitesInv
  <1>5. CASE UNCHANGED allowing
    <2>1. \A r \in Adders : Ahead(r)' = Ahead(r)
      BY <1>5 DEF allowing, Ahead
    <2> QED
      BY <1>5, <2>1 DEF allowing, SitesInv, SitesTypeOK
  <1> QED
    BY <1>1, <1>2, <1>3, <1>4, <1>5 DEF SitesNext

\* create_target goes beyond the allowance by less than the number of requests in flight,
\* whatever the webhook does to the plan between its statements.
THEOREM AllowanceKept == SitesSpec => SitesBounded
  <1>1. SitesInit => SitesInv
    <2> SUFFICES ASSUME SitesInit PROVE SitesInv
      OBVIOUS
    <2>1. (CHOOSE n \in Allowances : TRUE) \in Allowances /\ (CHOOSE d \in Domains : TRUE) \in Domains
      BY AllowanceAssumption, Zenon
    <2>2. IsFiniteSet(sites)
      BY FS_EmptySet DEF SitesInit
    <2>3. \A r \in Adders : adder[r].stage = "idle"
      BY DEF SitesInit
    <2> QED
      BY <2>1, <2>2, <2>3 DEF SitesInit, SitesInv, SitesTypeOK
  <1>2. SitesInv /\ [SitesNext]_allowing =>
          [\A r \in Adders :
              adder[r].stage = "adding" /\ adder'[r].stage = "idle" /\ sites' # sites
                  => Cardinality(sites') <= highest[r] + Cardinality(Adders) - 1]_allowing
    <2> SUFFICES ASSUME SitesInv, SitesNext, NEW r \in Adders,
                        adder[r].stage = "adding", adder'[r].stage = "idle", sites' # sites
                 PROVE  Cardinality(sites') <= highest[r] + Cardinality(Adders) - 1
      BY DEF allowing
    <2>1. PICK q \in Adders : CreateTarget(q)
      BY DEF SitesNext, AccessChanges, CountRead, AccessRead
    <2>2. q = r
      BY <2>1 DEF CreateTarget, SitesInv, SitesTypeOK
    <2>3. /\ IsFiniteSet(sites) /\ Cardinality(sites) \in Nat /\ highest[r] \in Nat
          /\ Cardinality(Ahead(r)) \in Nat /\ Cardinality(Adders) \in Nat
          /\ Cardinality(sites) + Cardinality(Ahead(r)) <= highest[r] - 1 + Cardinality(Adders) - 1
      BY AheadBounded, AllowanceAssumption, FS_CardinalityType DEF SitesInv, SitesTypeOK
    <2>4. Cardinality(sites') \in {Cardinality(sites), Cardinality(sites) + 1}
      BY <2>1, <2>3, FS_AddElement DEF CreateTarget
    <2> QED
      BY <2>3, <2>4
  <1> QED
    BY <1>1, <1>2, SitesStep, PTL DEF SitesSpec, SitesBounded
-----------------------------------------------------------------------------
(* Recovery *)

\* The failures a pass has still to do with, and the ones a mail is or was sent about.
Holds(p, f)   == f \in pass[p].list \/ (pass[p].stage \in {"claiming", "mailing"} /\ pass[p].failure = f)
Mailing(p, f) == pass[p].stage = "mailing" /\ pass[p].failure = f
Touched(f)    == mailed[f] > 0 \/ \E p \in Passes : Mailing(p, f)

\* While no pass has lasted half an hour: the claim of a failure that was touched lapses when
\* the failure is too old for any list that a pass may still be working on.
CalmInv ==
    /\ RecoveryTypeOK
    /\ \A p \in Passes :
          /\ pass[p].stage = "idle" => pass[p].list = {}
          /\ pass[p].stage \in {"claiming", "mailing"} => pass[p].failure \in Failures
          /\ \A f \in Failures : Holds(p, f)
                => f \in happened /\ Half <= age[f] /\ age[f] <= Day + pass[p].took
    /\ \A f \in Failures : Touched(f) => f \in happened /\ (age[f] >= Half + claim \/ age[f] = Oldest)
    /\ \A p, q \in Passes : \A f \in Failures : Mailing(p, f) /\ Mailing(q, f) => p = q
    /\ \A f \in Failures : mailed[f] <= 1 /\ \A p \in Passes : Mailing(p, f) => mailed[f] = 0

PassType == [stage : {"idle", "listed", "claiming", "mailing"}, list : SUBSET Failures,
             failure : Failures \union {NoFailure}, took : 0 .. PassCap]

\* A pass that moves on to what it holds already.
LEMMA PassMoves ==
  ASSUME CalmInv, NEW p \in Passes, NEW to \in PassType, pass' = [pass EXCEPT ![p] = to],
         UNCHANGED <<happened, age, complete, granted, claim, mailed, slow>>,
         to.stage # "mailing",
         to.stage = "idle" => to.list = {},
         to.stage = "claiming" => to.failure \in Failures,
         \A f \in Failures : f \in to.list \/ (to.stage = "claiming" /\ to.failure = f)
            => f \in happened /\ Half <= age[f] /\ age[f] <= Day + to.took
  PROVE  CalmInv'
  <1>1. RecoveryTypeOK' /\ pass'[p] = to /\ \A q \in Passes \ {p} : pass'[q] = pass[q]
    BY DEF CalmInv, RecoveryTypeOK, PassType
  <1>2. \A q \in Passes :
          /\ pass'[q].stage = "idle" => pass'[q].list = {}
          /\ pass'[q].stage \in {"claiming", "mailing"} => pass'[q].failure \in Failures
          /\ \A f \in Failures : Holds(q, f)'
                => f \in happened' /\ Half <= age'[f] /\ age'[f] <= Day + pass'[q].took
    BY <1>1 DEF CalmInv, Holds
  <1>3. \A q \in Passes : \A f \in Failures : Mailing(q, f)' => Mailing(q, f)
    BY <1>1 DEF Mailing
  <1>4. \A f \in Failures : Touched(f)' => Touched(f)
    BY <1>3 DEF Touched
  <1> QED
    BY <1>1, <1>2, <1>3, <1>4 DEF CalmInv

\* Every statement of a recovery pass keeps the claim that excludes a second one, as long as
\* no pass has lasted half an hour.
LEMMA CalmStep ==
  ASSUME CalmInv, \A p \in Passes : pass[p].took < Half, [RecoveryNext]_recovery
  PROVE  CalmInv'
  <1>0. /\ RecoveryTypeOK /\ Half \in Nat /\ Day \in Nat /\ PassCap \in Nat /\ Half < Day
        /\ NoFailure \notin Failures /\ claim \in Nat /\ claim <= Day
        /\ \A f \in Failures : age[f] \in Nat /\ age[f] <= Oldest /\ mailed[f] \in Nat
        /\ \A p \in Passes : pass[p] \in PassType /\ pass[p].took \in Nat /\ pass[p].took <= PassCap
                           /\ pass[p].took < Half
    BY RecoveryAssumption DEF CalmInv, RecoveryTypeOK, PassType
  <1>1. ASSUME NEW f \in Failures, PaymentFails(f) \/ SessionCompletes(f) \/ StatusChanges
        PROVE  CalmInv'
    <2>1. RecoveryTypeOK' /\ happened \subseteq happened' /\ UNCHANGED <<age, claim, pass, mailed, slow>>
      BY <1>0, <1>1 DEF RecoveryTypeOK, PaymentFails, SessionCompletes, StatusChanges
    <2> QED
      BY <1>0, <2>1 DEF CalmInv, Holds, Touched, Mailing
  <1>2. CASE RecoveryTick
    <2>1. /\ UNCHANGED <<happened, complete, granted, mailed>> /\ slow' \in BOOLEAN /\ Oldest \in Nat /\ Oldest = Day + PassCap + 1
          /\ \A f \in Failures : f \in happened =>
                age'[f] = IF age[f] + 1 <= Oldest THEN age[f] + 1 ELSE Oldest
          /\ \A f \in Failures : f \notin happened => age'[f] = 0
          /\ claim' = IF claim + 1 <= Day THEN claim + 1 ELSE Day
      <3>1. Oldest \in Nat /\ Oldest = Day + PassCap + 1
        BY <1>0 DEF Oldest
      <3>2. \A f \in Failures : age[f] + 1 \in Int
        BY <1>0
      <3>3. \A f \in Failures :
               Min({age[f] + 1, Oldest}) = IF age[f] + 1 <= Oldest THEN age[f] + 1 ELSE Oldest
        BY <3>1, <3>2, MinTwo
      <3>4. Min({claim + 1, Day}) = IF claim + 1 <= Day THEN claim + 1 ELSE Day
        BY <1>0, MinTwo
      <3> QED
        BY <1>2, <3>1, <3>3, <3>4 DEF RecoveryTick
    <2>2. age' \in [Failures -> 0 .. Oldest]
      <3>1. age' = [f \in Failures |-> age'[f]]
        BY <1>2 DEF RecoveryTick
      <3>2. \A f \in Failures : age'[f] \in 0 .. Oldest
        BY <1>0, <2>1
      <3> QED
        BY <3>1, <3>2
    <2>3. \A p \in Passes :
             /\ pass'[p] \in PassType
             /\ pass'[p].stage = pass[p].stage /\ pass'[p].list = pass[p].list
             /\ pass'[p].failure = pass[p].failure
             /\ pass[p].stage # "idle" => pass'[p].took = pass[p].took + 1
      BY <1>0, <1>2 DEF RecoveryTick, PassType
    <2>4. pass' \in [Passes -> PassType]
      BY <1>2, <2>3 DEF RecoveryTick
    <2>5. RecoveryTypeOK'
      BY <1>0, <2>1, <2>2, <2>4 DEF RecoveryTypeOK, PassType
    <2>6. \A q \in Passes : \A f \in Failures :
             (Mailing(q, f)' <=> Mailing(q, f)) /\ (Holds(q, f)' <=> Holds(q, f))
      BY <2>3 DEF Mailing, Holds
    <2>7. \A f \in Failures : Touched(f)' <=> Touched(f)
      BY <2>1, <2>6 DEF Touched
    <2>8. ASSUME NEW p \in Passes
          PROVE  /\ pass'[p].stage = "idle" => pass'[p].list = {}
                 /\ pass'[p].stage \in {"claiming", "mailing"} => pass'[p].failure \in Failures
                 /\ \A f \in Failures : Holds(p, f)'
                       => f \in happened' /\ Half <= age'[f] /\ age'[f] <= Day + pass'[p].took
      <3>1. \A f \in Failures : Holds(p, f) => /\ pass[p].stage # "idle"
                                               /\ f \in happened /\ Half <= age[f]
                                               /\ age[f] <= Day + pass[p].took
        BY DEF CalmInv, Holds
      <3> QED
        BY <1>0, <2>1, <2>3, <2>6, <3>1 DEF CalmInv
    <2>9. ASSUME NEW f \in Failures, Touched(f)'
          PROVE  f \in happened' /\ (age'[f] >= Half + claim' \/ age'[f] = Oldest)
      <3>1. f \in happened /\ (age[f] >= Half + claim \/ age[f] = Oldest)
        BY <2>7, <2>9 DEF CalmInv
      <3> QED
        BY <1>0, <2>1, <3>1
    <2> QED
      BY <2>1, <2>5, <2>6, <2>8, <2>9 DEF CalmInv
  <1>3. ASSUME NEW p \in Passes, ListFailures(p)
        PROVE  CalmInv'
    <2> DEFINE to == [Asleep EXCEPT !.stage = "listed", !.list = Listed]
    <2>1. Asleep \in PassType /\ Asleep.took = 0 /\ Asleep.failure = NoFailure
      BY <1>0 DEF Asleep, PassType
    <2>2. Listed \subseteq Failures /\ \A f \in Listed : f \in happened /\ Half <= age[f] /\ age[f] <= Day
      BY <1>0 DEF Listed, RecoveryTypeOK
    <2>3. to \in PassType /\ to.stage = "listed" /\ to.list = Listed /\ to.took = 0
      BY <2>1, <2>2 DEF PassType
    <2>4. /\ pass' = [pass EXCEPT ![p] = to]
          /\ UNCHANGED <<happened, age, complete, granted, claim, mailed, slow>>
      BY <1>3 DEF ListFailures
    <2> HIDE DEF to
    <2>5. \A f \in Failures : f \in to.list \/ (to.stage = "claiming" /\ to.failure = f)
             => f \in happened /\ Half <= age[f] /\ age[f] <= Day + to.took
      BY <1>0, <2>2, <2>3
    <2> QED
      BY <2>3, <2>4, <2>5, PassMoves
  <1>4. ASSUME NEW p \in Passes, NEW f \in Failures, TakeFailure(p, f)
        PROVE  CalmInv'
    <2> DEFINE w  == pass[p]
               to == [w EXCEPT !.list = w.list \ {f},
                               !.stage = IF f \in complete \/ granted THEN "listed" ELSE "claiming",
                               !.failure = f]
    <2>1. /\ to \in PassType /\ to.list = w.list \ {f} /\ to.failure = f /\ to.took = w.took
          /\ to.stage \in {"listed", "claiming"}
      BY <1>0 DEF PassType
    <2>2. pass' = [pass EXCEPT ![p] = to] /\ UNCHANGED <<happened, age, complete, granted, claim, mailed, slow>>
      BY <1>4 DEF TakeFailure
    <2>3. \A g \in Failures : g \in w.list => g \in happened /\ Half <= age[g] /\ age[g] <= Day + w.took
      BY DEF CalmInv, Holds
    <2>4. f \in w.list
      BY <1>4 DEF TakeFailure
    <2> HIDE DEF to
    <2>5. \A g \in Failures : g \in to.list \/ (to.stage = "claiming" /\ to.failure = g)
             => g \in happened /\ Half <= age[g] /\ age[g] <= Day + to.took
      BY <2>1, <2>3, <2>4
    <2> QED
      BY <2>1, <2>2, <2>5, PassMoves
  <1>5. ASSUME NEW p \in Passes, PassEnds(p)
        PROVE  CalmInv'
    <2>1. Asleep \in PassType /\ Asleep.stage = "idle" /\ Asleep.list = {}
      BY <1>0 DEF Asleep, PassType
    <2>2. pass' = [pass EXCEPT ![p] = Asleep] /\ UNCHANGED <<happened, age, complete, granted, claim, mailed, slow>>
      BY <1>5 DEF PassEnds
    <2> QED
      BY <2>1, <2>2, PassMoves
  <1>6. ASSUME NEW p \in Passes, ClaimRecovery(p), ~Lapsed
        PROVE  CalmInv'
    <2> DEFINE w  == pass[p]
               to == [w EXCEPT !.stage = "listed"]
    <2>1. to \in PassType /\ to.list = w.list /\ to.took = w.took /\ to.stage = "listed"
      BY <1>0 DEF PassType
    <2>2. pass' = [pass EXCEPT ![p] = to] /\ UNCHANGED <<happened, age, complete, granted, claim, mailed, slow>>
      BY <1>6 DEF ClaimRecovery
    <2>3. \A g \in Failures : g \in w.list => g \in happened /\ Half <= age[g] /\ age[g] <= Day + w.took
      BY DEF CalmInv, Holds
    <2> HIDE DEF to
    <2> QED
      BY <2>1, <2>2, <2>3, PassMoves
  <1>7. ASSUME NEW p \in Passes, ClaimRecovery(p), Lapsed
        PROVE  CalmInv'
    <2> DEFINE w  == pass[p]
               to == [w EXCEPT !.stage = "mailing"]
               f  == w.failure
    <2>1. /\ to \in PassType /\ to.list = w.list /\ to.took = w.took /\ to.failure = f
          /\ to.stage = "mailing"
      BY <1>0 DEF PassType
    <2>2. /\ pass' = [pass EXCEPT ![p] = to] /\ claim' = 0 /\ claim = Day /\ w.stage = "claiming"
          /\ UNCHANGED <<happened, age, complete, granted, mailed, slow>>
      BY <1>0, <1>7 DEF ClaimRecovery, Lapsed
    <2>3. f \in Failures /\ f \in happened /\ Half <= age[f] /\ age[f] <= Day + w.took
      BY <2>2 DEF CalmInv, Holds
    <2>4. ~Touched(f)
      <3>1. age[f] < Half + claim /\ age[f] < Oldest
        BY <1>0, <2>2, <2>3 DEF Oldest
      <3> QED
        BY <1>0, <2>2, <2>3, <3>1 DEF CalmInv
    <2> HIDE DEF to, f
    <2>5. RecoveryTypeOK' /\ pass'[p] = to /\ \A q \in Passes \ {p} : pass'[q] = pass[q]
      BY <1>0, <2>1, <2>2 DEF RecoveryTypeOK, PassType
    <2>6. \A q \in Passes : /\ pass'[q].took = pass[q].took
                            /\ \A g \in Failures : Holds(q, g)' => Holds(q, g)
      BY <2>1, <2>2, <2>5 DEF Holds, f
    <2>7. \A q \in Passes : \A g \in Failures :
             Mailing(q, g)' => Mailing(q, g) \/ (q = p /\ g = f)
      BY <2>1, <2>5 DEF Mailing
    <2>8. \A g \in Failures : Touched(g)' => Touched(g) \/ g = f
      BY <2>2, <2>7 DEF Touched
    <2>9. \A g \in Failures : Touched(g)' => g \in happened' /\ age'[g] >= Half + claim'
      BY <1>0, <2>2, <2>3, <2>8 DEF CalmInv, Oldest
    <2>10. \A q \in Passes :
             /\ pass'[q].stage = "idle" => pass'[q].list = {}
             /\ pass'[q].stage \in {"claiming", "mailing"} => pass'[q].failure \in Failures
      BY <2>1, <2>3, <2>5 DEF CalmInv
    <2>11. \A q \in Passes : \A g \in Failures : Holds(q, g)'
                => g \in happened' /\ Half <= age'[g] /\ age'[g] <= Day + pass'[q].took
      BY <2>2, <2>6 DEF CalmInv
    <2>12. \A q, r \in Passes : \A g \in Failures : Mailing(q, g)' /\ Mailing(r, g)' => q = r
      BY <2>4, <2>7 DEF CalmInv, Touched
    <2>13. \A g \in Failures : mailed'[g] <= 1 /\ \A q \in Passes : Mailing(q, g)' => mailed'[g] = 0
      BY <1>0, <2>2, <2>3, <2>4, <2>7 DEF CalmInv, Touched
    <2> QED
      BY <2>5, <2>9, <2>10, <2>11, <2>12, <2>13 DEF CalmInv
  <1>8. ASSUME NEW p \in Passes, MailRecovery(p)
        PROVE  CalmInv'
    <2> DEFINE w  == pass[p]
               to == [w EXCEPT !.stage = "listed"]
               f  == w.failure
    <2>1. to \in PassType /\ to.list = w.list /\ to.took = w.took /\ to.stage = "listed"
      BY <1>0 DEF PassType
    <2>2. /\ pass' = [pass EXCEPT ![p] = to] /\ w.stage = "mailing"
          /\ mailed' = [mailed EXCEPT ![f] = mailed[f] + 1]
          /\ UNCHANGED <<happened, age, complete, granted, claim, slow>>
      BY <1>8 DEF MailRecovery
    <2>3. f \in Failures /\ Mailing(p, f) /\ mailed[f] = 0 /\ \A q \in Passes : Mailing(q, f) => q = p
      BY <2>2 DEF CalmInv, Mailing
    <2> HIDE DEF to, f
    <2>4. /\ RecoveryTypeOK' /\ pass'[p] = to /\ \A q \in Passes \ {p} : pass'[q] = pass[q]
          /\ mailed'[f] = 1 /\ \A g \in Failures \ {f} : mailed'[g] = mailed[g]
      BY <1>0, <2>1, <2>2, <2>3 DEF RecoveryTypeOK, PassType
    <2>5. \A q \in Passes : /\ pass'[q].took = pass[q].took
                            /\ \A g \in Failures : Holds(q, g)' => Holds(q, g)
      BY <2>1, <2>4 DEF Holds
    <2>6. \A q \in Passes : \A g \in Failures : Mailing(q, g)' => Mailing(q, g) /\ g # f
      BY <2>1, <2>3, <2>4 DEF Mailing
    <2>7. \A g \in Failures : Touched(g)' => Touched(g)
      BY <2>3, <2>4, <2>6 DEF Touched
    <2>8. \A q \in Passes :
             /\ pass'[q].stage = "idle" => pass'[q].list = {}
             /\ pass'[q].stage \in {"claiming", "mailing"} => pass'[q].failure \in Failures
      BY <2>1, <2>4 DEF CalmInv
    <2>9. \A q \in Passes : \A g \in Failures : Holds(q, g)'
                => g \in happened' /\ Half <= age'[g] /\ age'[g] <= Day + pass'[q].took
      BY <2>2, <2>5 DEF CalmInv
    <2>10. \A g \in Failures : mailed'[g] <= 1 /\ \A q \in Passes : Mailing(q, g)' => mailed'[g] = 0
      BY <1>0, <2>4, <2>6 DEF CalmInv
    <2> QED
      BY <2>2, <2>4, <2>6, <2>7, <2>8, <2>9, <2>10 DEF CalmInv
  <1>9. CASE UNCHANGED recovery
    BY <1>9 DEF recovery, CalmInv, RecoveryTypeOK, Holds, Touched, Mailing
  <1>10. CASE StatusChanges
    <2>1. RecoveryTypeOK' /\ UNCHANGED <<happened, age, claim, pass, mailed, slow>>
      BY <1>0, <1>10 DEF RecoveryTypeOK, StatusChanges
    <2> QED
      BY <2>1 DEF CalmInv, Holds, Touched, Mailing
  <1> QED
    BY <1>1, <1>2, <1>3, <1>4, <1>5, <1>6, <1>7, <1>8, <1>9, <1>10 DEF RecoveryNext

\* A pass that has lasted half an hour is on record.
SlowInv == RecoveryTypeOK /\ \A p \in Passes : pass[p].took >= Half => slow

\* The record is kept by every statement and every tick, and never taken back.
LEMMA SlowStep == SlowInv /\ [RecoveryNext]_recovery => SlowInv' /\ (slow => slow')
  <1> SUFFICES ASSUME SlowInv, [RecoveryNext]_recovery PROVE SlowInv' /\ (slow => slow')
    OBVIOUS
  <1>0. /\ RecoveryTypeOK /\ Half \in Nat /\ Day \in Nat /\ PassCap \in Nat /\ 0 < Half
        /\ NoFailure \notin Failures /\ claim \in Nat /\ claim <= Day
        /\ \A f \in Failures : age[f] \in Nat /\ age[f] <= Oldest /\ mailed[f] \in Nat
        /\ \A p \in Passes : pass[p] \in PassType /\ pass[p].took \in Nat /\ pass[p].took <= PassCap
    BY RecoveryAssumption DEF SlowInv, RecoveryTypeOK, PassType
  <1>1. ASSUME NEW p \in Passes, NEW to \in PassType, pass' = [pass EXCEPT ![p] = to],
               to.took \in {0, pass[p].took},
               UNCHANGED <<happened, age, complete, granted, slow>>, claim' \in {0, claim},
               mailed' \in [Failures -> Nat]
        PROVE  SlowInv' /\ (slow => slow')
    <2>1. pass' \in [Passes -> PassType] /\ \A q \in Passes : pass'[q].took \in {0, pass[q].took}
      BY <1>0, <1>1 DEF RecoveryTypeOK, PassType
    <2>2. RecoveryTypeOK'
      BY <1>0, <1>1, <2>1 DEF RecoveryTypeOK, PassType
    <2> QED
      BY <1>0, <1>1, <2>1, <2>2 DEF SlowInv
  <1>2. Asleep \in PassType /\ Asleep.took = 0
    BY <1>0 DEF Asleep, PassType
  <1>3. CASE RecoveryTick
    <2>1. Oldest \in Nat
      BY <1>0 DEF Oldest
    <2>2. age' \in [Failures -> 0 .. Oldest]
      <3>1. \A f \in Failures : age[f] + 1 \in Int
        BY <1>0
      <3>2. \A f \in Failures :
               Min({age[f] + 1, Oldest}) = IF age[f] + 1 <= Oldest THEN age[f] + 1 ELSE Oldest
        BY <2>1, <3>1, MinTwo
      <3>3. \A f \in Failures : age'[f] \in 0 .. Oldest
        BY <1>0, <1>3, <2>1, <3>2 DEF RecoveryTick
      <3>4. age' = [f \in Failures |-> age'[f]]
        BY <1>3 DEF RecoveryTick
      <3> QED
        BY <3>3, <3>4
    <2>3. claim' \in 0 .. Day
      <3>1. Min({claim + 1, Day}) = IF claim + 1 <= Day THEN claim + 1 ELSE Day
        BY <1>0, MinTwo
      <3> QED
        BY <1>0, <1>3, <3>1 DEF RecoveryTick
    <2>4. \A p \in Passes : /\ pass'[p] \in PassType
                            /\ pass[p].stage = "idle" => pass'[p].took = pass[p].took
                            /\ pass[p].stage # "idle" => pass'[p].took = pass[p].took + 1
      BY <1>0, <1>3 DEF RecoveryTick, PassType
    <2>5. pass' \in [Passes -> PassType]
      BY <1>3, <2>4 DEF RecoveryTick
    <2>6. slow' \in BOOLEAN /\ (slow => slow')
      BY <1>3, Zenon DEF RecoveryTick
    <2>7. \A p \in Passes : pass[p].stage # "idle" /\ pass[p].took + 1 >= Half => slow'
      BY <1>3, Zenon DEF RecoveryTick
    <2>8. RecoveryTypeOK'
      BY <1>0, <1>3, <2>2, <2>3, <2>5, <2>6 DEF RecoveryTypeOK, RecoveryTick, PassType
    <2>9. \A p \in Passes : pass'[p].took >= Half => slow'
      BY <1>0, <2>4, <2>6, <2>7 DEF SlowInv
    <2> QED
      BY <2>6, <2>8, <2>9 DEF SlowInv
  <1>4. ASSUME NEW f \in Failures, PaymentFails(f) \/ SessionCompletes(f)
        PROVE  SlowInv' /\ (slow => slow')
    BY <1>0, <1>4 DEF SlowInv, RecoveryTypeOK, PaymentFails, SessionCompletes
  <1>5. CASE StatusChanges
    BY <1>0, <1>5 DEF SlowInv, RecoveryTypeOK, StatusChanges
  <1>6. ASSUME NEW p \in Passes, ListFailures(p)
        PROVE  SlowInv' /\ (slow => slow')
    <2> DEFINE to == [Asleep EXCEPT !.stage = "listed", !.list = Listed]
    <2>1. Listed \subseteq Failures
      BY <1>0 DEF Listed, RecoveryTypeOK
    <2>2. to \in PassType /\ to.took = 0
      BY <1>2, <2>1 DEF PassType
    <2>3. /\ pass' = [pass EXCEPT ![p] = to]
          /\ UNCHANGED <<happened, age, complete, granted, claim, mailed, slow>>
      BY <1>6 DEF ListFailures
    <2> HIDE DEF to
    <2> QED
      BY <1>0, <1>1, <2>2, <2>3 DEF RecoveryTypeOK
  <1>7. ASSUME NEW p \in Passes, NEW f \in Failures, TakeFailure(p, f)
        PROVE  SlowInv' /\ (slow => slow')
    <2> DEFINE to == [pass[p] EXCEPT !.list = @ \ {f},
                         !.stage = IF f \in complete \/ granted THEN "listed" ELSE "claiming",
                         !.failure = f]
    <2>1. to \in PassType /\ to.took = pass[p].took
      BY <1>0 DEF PassType
    <2>2. /\ pass' = [pass EXCEPT ![p] = to]
          /\ UNCHANGED <<happened, age, complete, granted, claim, mailed, slow>>
      BY <1>7 DEF TakeFailure
    <2> HIDE DEF to
    <2> QED
      BY <1>0, <1>1, <2>1, <2>2 DEF RecoveryTypeOK
  <1>8. ASSUME NEW p \in Passes, ClaimRecovery(p) \/ MailRecovery(p)
        PROVE  SlowInv' /\ (slow => slow')
    <2>1. PICK s \in {"listed", "mailing"} : pass' = [pass EXCEPT ![p].stage = s]
      BY <1>8 DEF ClaimRecovery, MailRecovery
    <2> DEFINE to == [pass[p] EXCEPT !.stage = s]
    <2>2. to \in PassType /\ to.took = pass[p].took
      BY <1>0 DEF PassType
    <2>3. /\ UNCHANGED <<happened, age, complete, granted, slow>> /\ claim' \in {0, claim}
          /\ mailed' \in {mailed, [mailed EXCEPT ![pass[p].failure] = @ + 1]}
      BY <1>8 DEF ClaimRecovery, MailRecovery
    <2>4. mailed' \in [Failures -> Nat]
      BY <1>0, <2>3 DEF RecoveryTypeOK
    <2>5. pass' = [pass EXCEPT ![p] = to]
      BY <2>1
    <2> HIDE DEF to
    <2> QED
      BY <1>1, <2>2, <2>3, <2>4, <2>5
  <1>9. ASSUME NEW p \in Passes, PassEnds(p)
        PROVE  SlowInv' /\ (slow => slow')
    BY <1>0, <1>1, <1>2, <1>9 DEF PassEnds, RecoveryTypeOK
  <1>10. CASE UNCHANGED recovery
    BY <1>10 DEF recovery, SlowInv, RecoveryTypeOK
  <1> QED
    BY <1>3, <1>4, <1>5, <1>6, <1>7, <1>8, <1>9, <1>10 DEF RecoveryNext

\* Half an hour is what the claim's day leaves a pass: within it nothing is met twice.
RecoveryInv == SlowInv /\ (slow \/ CalmInv)

\* recover_failed_checkouts writes about a failed payment once at most, however many replicas
\* run it and whatever their order, until some pass has lasted half an hour.
THEOREM RecoveredOnce == RecoverySpec => []FailureOnceUnlessSlow
  <1>1. RecoveryInit => RecoveryInv
    <2> SUFFICES ASSUME RecoveryInit PROVE RecoveryInv
      OBVIOUS
    <2>1. Asleep \in PassType /\ Asleep.stage = "idle" /\ Asleep.list = {} /\ Asleep.took = 0
      BY RecoveryAssumption DEF Asleep, PassType
    <2>2. 0 \in 0 .. Oldest /\ Day \in 0 .. Day
      BY RecoveryAssumption DEF Oldest
    <2>3. pass \in [Passes -> PassType]
      BY <2>1 DEF RecoveryInit
    <2>4. RecoveryTypeOK
      BY <2>2, <2>3 DEF RecoveryInit, RecoveryTypeOK, PassType
    <2>5. CalmInv
      BY <2>1, <2>4 DEF RecoveryInit, CalmInv, Holds, Touched, Mailing
    <2>6. SlowInv
      BY <2>1, <2>4, RecoveryAssumption DEF RecoveryInit, SlowInv
    <2> QED
      BY <2>5, <2>6 DEF RecoveryInv
  <1>2. RecoveryInv /\ [RecoveryNext]_recovery => RecoveryInv'
    <2> SUFFICES ASSUME RecoveryInv, [RecoveryNext]_recovery PROVE RecoveryInv'
      OBVIOUS
    <2>1. SlowInv' /\ (slow => slow')
      BY SlowStep DEF RecoveryInv
    <2>2. ASSUME ~slow PROVE CalmInv'
      <3>1. ASSUME NEW p \in Passes PROVE pass[p].took < Half
        <4>1. pass[p].took \in Nat /\ Half \in Nat
          BY RecoveryAssumption DEF RecoveryInv, SlowInv, RecoveryTypeOK
        <4>2. ~(pass[p].took >= Half)
          BY <2>2 DEF RecoveryInv, SlowInv
        <4> QED
          BY <4>1, <4>2
      <3> QED
        BY <2>2, <3>1, CalmStep DEF RecoveryInv
    <2> QED
      BY <2>1, <2>2 DEF RecoveryInv
  <1>3. RecoveryInv => FailureOnceUnlessSlow
    BY Zenon DEF RecoveryInv, CalmInv, FailureOnceUnlessSlow, FailureOnce
  <1> QED
    BY <1>1, <1>2, <1>3, PTL DEF RecoverySpec
-----------------------------------------------------------------------------
(* PriceCache *)

\* A copy is behind by no more than the read that made it and the time it was kept.
Blank(copy) == copy.kind # "prices" => copy.behind = 0
PricesInv ==
    /\ PricesTypeOK
    /\ \A v \in Viewers : Blank(viewer[v].copy) /\ viewer[v].copy.behind <= viewer[v].took + 1
    /\ \A v \in Viewers : viewer[v].stage = "idle" => viewer[v].copy.kind # "prices"
    /\ Blank(cache.copy)
    /\ cache.age < Ttl => cache.copy.behind <= cache.age + ReadCap + 1
    /\ shown <= Ttl + ReadCap

Views == [stage : {"idle", "reading", "storing"}, copy : Copies, took : 0 .. ReadCap]

\* What a price change and a tick make of a copy.
LEMMA CopyChanges ==
  ASSUME NEW c \in Copies
  PROVE  /\ Changed(c) \in Copies /\ Changed(c).kind = c.kind
         /\ Changed(c).behind = IF c.kind = "prices" THEN IF c.behind = 0 THEN 1 ELSE c.behind ELSE 0
         /\ Older(c) \in Copies /\ Older(c).kind = c.kind
         /\ Older(c).behind <= c.behind + 1 /\ (c.behind = 0 => Older(c).behind = 0)
  <1>1. Late \in Nat /\ Late >= 1 /\ c.behind \in Nat /\ c.behind <= Late
    BY PriceAssumption DEF Late, Copies
  <1>2. Max({c.behind, 1}) = IF c.behind = 0 THEN 1 ELSE c.behind
    BY <1>1, MaxTwo
  <1>3. Min({Max({c.behind, 1}), Late}) = IF c.behind = 0 THEN 1 ELSE c.behind
    <2>1. Max({c.behind, 1}) \in Int /\ Max({c.behind, 1}) <= Late
      BY <1>1, <1>2
    <2> QED
      BY <1>1, <1>2, <2>1, MinTwo
  <1>4. Min({c.behind + 1, Late}) = IF c.behind + 1 <= Late THEN c.behind + 1 ELSE Late
    BY <1>1, MinTwo
  <1> DEFINE x == IF c.kind = "prices" THEN Min({Max({c.behind, 1}), Late}) ELSE 0
             y == IF c.behind = 0 THEN 0 ELSE Min({c.behind + 1, Late})
  <1>5. x \in 0 .. Late /\ y \in 0 .. Late /\ y <= c.behind + 1 /\ (c.behind = 0 => y = 0)
    BY <1>1, <1>3, <1>4
  <1>6. x = IF c.kind = "prices" THEN IF c.behind = 0 THEN 1 ELSE c.behind ELSE 0
    BY <1>3
  <1>7. Changed(c) = [c EXCEPT !.behind = x] /\ Older(c) = [c EXCEPT !.behind = y]
    BY DEF Changed, Older
  <1> HIDE DEF x, y
  <1> QED
    BY <1>5, <1>6, <1>7 DEF Copies

\* A read, a refresh and a change at Stripe keep the cache within its age.
LEMMA PricesStep == PricesInv /\ [PricesNext]_prices => PricesInv'
  <1> SUFFICES ASSUME PricesInv, [PricesNext]_prices PROVE PricesInv'
    OBVIOUS
  <1>0. /\ PricesTypeOK /\ Ttl \in Nat /\ Ttl >= 1 /\ ReadCap \in Nat
        /\ \A v \in Viewers : /\ viewer[v] \in Views /\ viewer[v].copy \in Copies
                              /\ viewer[v].took \in Nat /\ viewer[v].took <= ReadCap
                              /\ viewer[v].copy.behind \in Nat
        /\ cache.copy \in Copies /\ cache.age \in Nat /\ cache.age <= Ttl /\ cache.copy.behind \in Nat
        /\ cache \in [copy : Copies, age : 0 .. Ttl] /\ viewer \in [Viewers -> Views]
        /\ shown \in 0 .. Late
    BY PriceAssumption DEF PricesInv, PricesTypeOK, Views, Copies
  <1>1. CASE PriceChanges
    <2> DEFINE kept == Changed(cache.copy)
               now(v) == Changed(viewer[v].copy)
    <2>1. /\ kept \in Copies /\ Blank(kept)
          /\ cache.age < Ttl => kept.behind <= cache.age + ReadCap + 1
      BY <1>0, CopyChanges DEF PricesInv, Blank
    <2>2. \A v \in Viewers : /\ now(v) \in Copies /\ Blank(now(v)) /\ now(v).behind <= viewer[v].took + 1
                             /\ now(v).kind = viewer[v].copy.kind
      BY <1>0, CopyChanges DEF PricesInv, Blank
    <2>3. /\ cache' = [cache EXCEPT !.copy = kept] /\ shown' = shown
          /\ viewer' = [v \in Viewers |-> [viewer[v] EXCEPT !.copy = now(v)]]
      BY <1>1 DEF PriceChanges
    <2> HIDE DEF kept, now
    <2>4. /\ cache' \in [copy : Copies, age : 0 .. Ttl] /\ cache'.copy = kept /\ cache'.age = cache.age
      BY <1>0, <2>1, <2>3
    <2>5. \A v \in Viewers : /\ [viewer[v] EXCEPT !.copy = now(v)] \in Views
                             /\ [viewer[v] EXCEPT !.copy = now(v)].copy = now(v)
                             /\ [viewer[v] EXCEPT !.copy = now(v)].took = viewer[v].took
                             /\ [viewer[v] EXCEPT !.copy = now(v)].stage = viewer[v].stage
      BY <1>0, <2>2 DEF Views
    <2>6. /\ viewer' \in [Viewers -> Views]
          /\ \A v \in Viewers : /\ viewer'[v].copy = now(v) /\ viewer'[v].took = viewer[v].took
                                /\ viewer'[v].stage = viewer[v].stage
      BY <2>3, <2>5
    <2> QED
      BY <1>0, <2>1, <2>2, <2>3, <2>4, <2>6 DEF PricesInv, PricesTypeOK, Views
  <1>2. CASE PriceTick
    <2> DEFINE kept == Older(cache.copy)
               now(v) == Older(viewer[v].copy)
    <2>1. kept \in Copies /\ Blank(kept) /\ kept.behind <= cache.copy.behind + 1 /\ kept.behind \in Nat
      BY <1>0, CopyChanges DEF PricesInv, Blank, Copies
    <2>2. \A v \in Viewers : /\ now(v) \in Copies /\ Blank(now(v)) /\ now(v).kind = viewer[v].copy.kind
                             /\ now(v).behind <= viewer[v].copy.behind + 1 /\ now(v).behind \in Nat
      <3> SUFFICES ASSUME NEW v \in Viewers
                   PROVE  /\ now(v) \in Copies /\ Blank(now(v)) /\ now(v).kind = viewer[v].copy.kind
                          /\ now(v).behind <= viewer[v].copy.behind + 1 /\ now(v).behind \in Nat
        OBVIOUS
      <3>1. /\ now(v) \in Copies /\ now(v).kind = viewer[v].copy.kind
            /\ now(v).behind <= viewer[v].copy.behind + 1
            /\ viewer[v].copy.behind = 0 => now(v).behind = 0
        BY <1>0, CopyChanges
      <3>2. now(v).behind \in Nat
        BY <3>1 DEF Copies
      <3>3. Blank(now(v))
        BY <3>1 DEF PricesInv, Blank
      <3> QED
        BY <3>1, <3>2, <3>3
    <2>3. /\ cache' = [copy |-> kept, age |-> Min({cache.age + 1, Ttl})] /\ shown' = shown
          /\ viewer' = [v \in Viewers |->
                           IF viewer[v].stage = "idle" THEN viewer[v]
                           ELSE [viewer[v] EXCEPT !.copy = now(v), !.took = viewer[v].took + 1]]
      BY <1>2 DEF PriceTick
    <2> HIDE DEF kept, now
    <2>4. /\ Min({cache.age + 1, Ttl}) \in 0 .. Ttl
          /\ Min({cache.age + 1, Ttl}) < Ttl => Min({cache.age + 1, Ttl}) = cache.age + 1
      <3>1. Min({cache.age + 1, Ttl}) = IF cache.age + 1 <= Ttl THEN cache.age + 1 ELSE Ttl
        BY <1>0, MinTwo
      <3> QED
        BY <1>0, <3>1
    <2>5. /\ cache' \in [copy : Copies, age : 0 .. Ttl] /\ cache'.copy = kept
          /\ cache'.age < Ttl => cache'.age = cache.age + 1
      <3> DEFINE m == Min({cache.age + 1, Ttl})
      <3>1. cache' = [copy |-> kept, age |-> m] /\ m \in 0 .. Ttl /\ (m < Ttl => m = cache.age + 1)
        BY <2>3, <2>4
      <3> HIDE DEF m
      <3> QED
        BY <2>1, <3>1
    <2>6. ASSUME NEW v \in Viewers
          PROVE  /\ viewer'[v] \in Views /\ viewer'[v].stage = viewer[v].stage
                 /\ \/ viewer'[v] = viewer[v]
                    \/ viewer'[v].copy = now(v) /\ viewer'[v].took = viewer[v].took + 1
      <3> DEFINE new == [viewer[v] EXCEPT !.copy = now(v), !.took = viewer[v].took + 1]
      <3>1. viewer[v].took + 1 \in 0 .. ReadCap
        <4>1. viewer[v].took < ReadCap
          BY <1>2 DEF PriceTick
        <4> QED
          BY <1>0, <4>1
      <3>2. /\ new \in Views /\ new.stage = viewer[v].stage /\ new.copy = now(v)
            /\ new.took = viewer[v].took + 1
        BY <1>0, <2>2, <3>1 DEF Views
      <3>3. viewer'[v] = IF viewer[v].stage = "idle" THEN viewer[v] ELSE new
        BY <2>3
      <3> HIDE DEF new
      <3> QED
        BY <1>0, <3>2, <3>3
    <2>7. viewer' \in [Viewers -> Views]
      BY <2>3, <2>6
    <2>8. PricesTypeOK'
      BY <1>0, <2>3, <2>5, <2>7 DEF PricesTypeOK, Views
    <2>9. \A v \in Viewers : /\ Blank(viewer'[v].copy) /\ viewer'[v].copy.behind <= viewer'[v].took + 1
                             /\ viewer'[v].stage = "idle" => viewer'[v].copy.kind # "prices"
      BY <1>0, <2>2, <2>6 DEF PricesInv
    <2>10. cache'.age < Ttl => cache'.copy.behind <= cache'.age + ReadCap + 1
      BY <1>0, <2>1, <2>5 DEF PricesInv
    <2> QED
      BY <2>1, <2>3, <2>5, <2>8, <2>9, <2>10 DEF PricesInv
  <1>3. ASSUME NEW v \in Viewers, LookUp(v)
        PROVE  PricesInv'
    <2>1. CASE Usable
      <3>1. UNCHANGED <<cache, viewer>> /\ shown' = cache.copy.behind
        BY <1>3, <2>1 DEF LookUp
      <3>2. cache.copy.behind \in 0 .. Late /\ cache.copy.behind <= Ttl + ReadCap
        BY <1>0, <2>1 DEF PricesInv, Usable, Blank, Copies
      <3> QED
        BY <1>0, <3>1, <3>2 DEF PricesInv, PricesTypeOK, Views
    <2>2. CASE ~Usable
      <3> DEFINE new == [viewer[v] EXCEPT !.stage = "reading"]
      <3>1. new \in Views /\ new.stage = "reading" /\ new.copy = viewer[v].copy /\ new.took = viewer[v].took
        BY <1>0 DEF Views
      <3>2. UNCHANGED <<cache, shown>> /\ viewer' = [viewer EXCEPT ![v] = new]
        BY <1>3, <2>2 DEF LookUp
      <3> HIDE DEF new
      <3>3. /\ viewer' \in [Viewers -> Views] /\ viewer'[v] = new
            /\ \A x \in Viewers \ {v} : viewer'[x] = viewer[x]
        BY <1>0, <3>1, <3>2
      <3> QED
        BY <1>0, <3>1, <3>2, <3>3 DEF PricesInv, PricesTypeOK, Views
    <2> QED
      BY <2>1, <2>2
  <1>4. ASSUME NEW v \in Viewers, ReadPrices(v)
        PROVE  PricesInv'
    <2>1. PICK kind \in {"prices", "empty"} :
             viewer' = [viewer EXCEPT ![v].stage = "storing", ![v].copy = [kind |-> kind, behind |-> 0]]
      BY <1>4 DEF ReadPrices
    <2> DEFINE copy == [kind |-> kind, behind |-> 0]
               new  == [viewer[v] EXCEPT !.stage = "storing", !.copy = copy]
    <2>2. copy \in Copies /\ copy.behind = 0
      BY PriceAssumption DEF Copies, Late
    <2>3. viewer' = [viewer EXCEPT ![v] = new] /\ UNCHANGED <<cache, shown>>
      BY <1>4, <2>1 DEF ReadPrices
    <2> HIDE DEF copy
    <2>4. new \in Views /\ new.stage = "storing" /\ new.copy = copy /\ new.took = viewer[v].took
      BY <1>0, <2>2 DEF Views
    <2> HIDE DEF new
    <2>5. /\ viewer' \in [Viewers -> Views] /\ viewer'[v] = new
          /\ \A x \in Viewers \ {v} : viewer'[x] = viewer[x]
      BY <1>0, <2>3, <2>4
    <2> QED
      BY <1>0, <2>2, <2>3, <2>4, <2>5 DEF PricesInv, PricesTypeOK, Views, Blank
  <1>5. ASSUME NEW v \in Viewers, Store(v)
        PROVE  PricesInv'
    <2> DEFINE copy == viewer[v].copy
    <2>1. /\ copy \in Copies /\ Blank(copy) /\ copy.behind <= ReadCap + 1 /\ copy.behind \in 0 .. Late
      BY <1>0 DEF PricesInv, Copies
    <2>2. cache' = [copy |-> copy, age |-> 0] /\ shown' = copy.behind /\ viewer' = [viewer EXCEPT ![v] = Away]
      BY <1>5 DEF Store
    <2>3. Away \in Views /\ Away.stage = "idle" /\ Away.copy.kind = "none" /\ Away.copy.behind = 0 /\ Away.took = 0
      BY PriceAssumption DEF Away, Nothing, Views, Copies, Late
    <2> HIDE DEF copy
    <2>4. /\ viewer' \in [Viewers -> Views] /\ viewer'[v] = Away
          /\ \A x \in Viewers \ {v} : viewer'[x] = viewer[x]
      BY <1>0, <2>2, <2>3
    <2>5. cache' \in [copy : Copies, age : 0 .. Ttl] /\ cache'.copy = copy /\ cache'.age = 0
      BY <1>0, <2>1, <2>2
    <2> QED
      BY <1>0, <2>1, <2>2, <2>3, <2>4, <2>5 DEF PricesInv, PricesTypeOK, Views, Blank
  <1>6. CASE UNCHANGED prices
    BY <1>6 DEF prices, PricesInv, PricesTypeOK
  <1> QED
    BY <1>1, <1>2, <1>3, <1>4, <1>5, <1>6 DEF PricesNext

\* public_prices shows no price that Stripe dropped longer ago than the cache keeps one and
\* a read may take, whoever writes the cache last.
THEOREM PricesStayFresh == PricesSpec => []PricesFresh
  <1>1. PricesInit => PricesInv
    <2> SUFFICES ASSUME PricesInit PROVE PricesInv
      OBVIOUS
    <2>1. /\ Nothing \in Copies /\ Nothing.kind = "none" /\ Nothing.behind = 0
          /\ Away \in Views /\ Away.stage = "idle" /\ Away.copy = Nothing /\ Away.took = 0
      BY PriceAssumption DEF Away, Nothing, Views, Copies, Late
    <2>2. 0 \in 0 .. Late /\ 0 \in 0 .. Ttl /\ 0 <= Ttl + ReadCap /\ 0 <= 0 + ReadCap + 1
      BY PriceAssumption DEF Late
    <2>3. cache \in [copy : Copies, age : 0 .. Ttl] /\ cache.copy = Nothing /\ cache.age = 0
      BY <2>1, <2>2 DEF PricesInit
    <2>4. viewer \in [Viewers -> Views] /\ \A v \in Viewers : viewer[v] = Away
      BY <2>1 DEF PricesInit
    <2> QED
      BY <2>1, <2>2, <2>3, <2>4 DEF PricesInit, PricesInv, PricesTypeOK, Views, Blank
  <1>2. PricesInv => PricesFresh
    BY DEF PricesInv, PricesFresh
  <1> QED
    BY <1>1, <1>2, PricesStep, PTL DEF PricesSpec
-----------------------------------------------------------------------------
(* Promo *)

PromoInv ==
    /\ PromoTypeOK
    /\ session.open /\ session.discounted => session.closes <= EndsAt + Grace + 1
    /\ PromoCloses

\* Every checkout and every tick of the two clocks keeps the promotion's end.
LEMMA PromoStep == PromoInv /\ [PromoNext]_promo => PromoInv'
  <1> SUFFICES ASSUME PromoInv, [PromoNext]_promo PROVE PromoInv'
    OBVIOUS
  <1>0. /\ PromoTypeOK
        /\ StartsAt \in Nat /\ EndsAt \in Nat /\ Grace \in Nat /\ Session \in Nat /\ Skew \in Nat
        /\ LastTick \in Nat /\ Skew <= 1 /\ 0 < Grace /\ Grace + 1 < Session /\ clock \in Nat
        /\ session.closes \in Nat /\ lastPaid \in Nat
    BY PromoAssumption DEF PromoInv, PromoTypeOK
  <1>1. NoSession \in [open : BOOLEAN, discounted : BOOLEAN, closes : Nat] /\ ~NoSession.open
    BY DEF NoSession
  <1>2. CASE PromoTick
    <2>1. /\ clock' \in 0 .. LastTick /\ session' \in {session, NoSession}
          /\ UNCHANGED <<enabled, refused, lastPaid>>
      BY <1>0, <1>2 DEF PromoTick, PromoTypeOK
    <2> QED
      BY <1>0, <1>1, <2>1 DEF PromoInv, PromoTypeOK, PromoCloses
  <1>3. CASE PromoSwitch
    BY <1>0, <1>3 DEF PromoSwitch, PromoInv, PromoTypeOK, PromoCloses
  <1>4. ASSUME NEW skew \in Skews, OpenSession(skew)
        PROVE  PromoInv'
    <2> DEFINE created == clock + skew
               at      == IF Status = "active" THEN ExpiresAt ELSE Default
               closes  == IF at = Default THEN created + Session ELSE at
               new     == [open |-> TRUE, discounted |-> Status = "active", closes |-> closes]
    <2>1. skew \in Int /\ -1 <= skew /\ skew <= 1
      BY <1>0 DEF Skews
    <2>2. Status = "active" => clock < EndsAt
      BY <1>0 DEF Status
    <2>3. /\ \/ at = Default /\ (Status = "active" => EndsAt - clock >= Session - Grace)
             \/ /\ at \in Nat /\ clock < EndsAt /\ EndsAt - clock < Session - Grace
                /\ at = IF EndsAt <= clock + Grace + 1 THEN clock + Grace + 1 ELSE EndsAt
      <3>1. Max({EndsAt, clock + Grace + 1})
               = IF EndsAt <= clock + Grace + 1 THEN clock + Grace + 1 ELSE EndsAt
        BY <1>0, MaxTwo
      <3> QED
        BY <1>0, <2>2, <3>1 DEF ExpiresAt
    <2>4. Default = -1
      BY DEF Default
    <2>9. session' = IF Accepted(at, created) THEN new ELSE session
      BY <1>4 DEF OpenSession
    <2>10. refused' = (refused \/ ~Accepted(at, created)) /\ UNCHANGED <<clock, enabled, lastPaid>>
      BY <1>4 DEF OpenSession
    <2> HIDE DEF at
    <2>5. Accepted(at, created)
      <3>1. CASE at = Default
        BY <3>1 DEF Accepted
      <3>2. CASE at # Default
        <4>1. clock + skew + Grace <= at /\ at <= clock + skew + Session
          BY <1>0, <2>1, <2>3, <3>2
        <4> QED
          BY <4>1 DEF Accepted
      <3> QED
        BY <3>1, <3>2
    <2>6. closes \in Nat /\ (Status = "active" => closes <= EndsAt + Grace + 1)
      <3>1. CASE at = Default
        <4>1. Status = "active" => EndsAt - clock >= Session - Grace
          <5>1. at \notin Nat
            BY <2>4, <3>1
          <5> QED
            BY <2>3, <5>1
        <4>2. closes = clock + skew + Session
          BY <3>1
        <4> HIDE DEF closes
        <4> QED
          BY <1>0, <2>1, <4>1, <4>2
      <3>2. CASE at # Default
        <4>1. closes = at
          BY <3>2
        <4> QED
          BY <1>0, <2>3, <3>2, <4>1
      <3> QED
        BY <3>1, <3>2
    <2>7. session' = new /\ refused' = refused /\ UNCHANGED <<clock, enabled, lastPaid>>
      BY <2>5, <2>9, <2>10, <1>0 DEF PromoTypeOK
    <2> HIDE DEF closes
    <2>8. /\ new \in [open : BOOLEAN, discounted : BOOLEAN, closes : Nat]
          /\ new.discounted = (Status = "active") /\ new.closes = closes
      BY <2>6
    <2> HIDE DEF new
    <2> QED
      BY <1>0, <2>6, <2>7, <2>8 DEF PromoInv, PromoTypeOK, PromoCloses
  <1>5. ASSUME NEW skew \in Skews, PaySession(skew)
        PROVE  PromoInv'
    <2>1. skew \in Int /\ -Skew <= skew
      BY <1>0 DEF Skews
    <2>2. session' = NoSession /\ UNCHANGED <<clock, enabled, refused>>
      BY <1>5 DEF PaySession
    <2>3. lastPaid' \in 0 .. LastTick /\ lastPaid' <= EndsAt + Grace + 1 + Skew
      BY <1>0, <1>5, <2>1 DEF PaySession, PromoInv, PromoTypeOK, PromoCloses
    <2> QED
      BY <1>0, <1>1, <2>2, <2>3 DEF PromoInv, PromoTypeOK, PromoCloses
  <1>6. CASE UNCHANGED promo
    BY <1>6 DEF promo, PromoInv, PromoTypeOK, PromoCloses
  <1> QED
    BY <1>2, <1>3, <1>4, <1>5, <1>6 DEF PromoNext

\* Stripe takes every expiry that expires_at asks for, and the promotion is over for good soon
\* after its end, for any window and any clocks no more than a minute apart.
THEOREM PromoEnds == PromoSpec => []PromoCloses
  <1>1. PromoInit => PromoInv
    <2> SUFFICES ASSUME PromoInit PROVE PromoInv
      OBVIOUS
    <2>1. NoSession \in [open : BOOLEAN, discounted : BOOLEAN, closes : Nat] /\ ~NoSession.open
      BY DEF NoSession
    <2>2. 0 \in 0 .. LastTick /\ 0 <= EndsAt + Grace + 1 + Skew
      BY PromoAssumption
    <2> QED
      BY <2>1, <2>2 DEF PromoInit, PromoInv, PromoTypeOK, PromoCloses
  <1>2. PromoInv => PromoCloses
    BY DEF PromoInv
  <1> QED
    BY <1>1, <1>2, PromoStep, PTL DEF PromoSpec
-----------------------------------------------------------------------------
(* RateLimiter and PreviewMail *)

\* The numbers of this tick are taken in their order.
Numbered(log) == \A x \in log : x[1] = 0 => x[2] < Cardinality({y \in log : y[1] = 0})

\* What is noted is new, and one more.
LEMMA LogNoted ==
  ASSUME NEW length \in Nat \ {0}, NEW log \in Logs(length), IsFiniteSet(log), Numbered(log)
  PROVE  \E new \in {0} \X Nat :
            /\ new \notin log /\ Noted(log) = log \union {new} /\ Noted(log) \in Logs(length)
            /\ IsFiniteSet(Noted(log)) /\ Cardinality(Noted(log)) = Cardinality(log) + 1
            /\ Numbered(Noted(log))
  <1> DEFINE now == {x \in log : x[1] = 0}
             n   == Cardinality(now)
             new == <<0, n>>
  <1>1. IsFiniteSet(now) /\ n \in Nat
    BY FS_Subset, FS_CardinalityType
  <1>2. Noted(log) = log \union {new}
    BY DEF Noted
  <1>3. \A x \in log : x[1] = 0 => x[2] < n
    BY DEF Numbered
  <1>4. {y \in Noted(log) : y[1] = 0} = now \union {new}
    BY <1>2
  <1> HIDE DEF n
  <1>5. new \notin log /\ new \notin now
    BY <1>1, <1>3
  <1>6. IsFiniteSet(Noted(log)) /\ Cardinality(Noted(log)) = Cardinality(log) + 1
    BY <1>2, <1>5, FS_AddElement
  <1>7. Cardinality({y \in Noted(log) : y[1] = 0}) = n + 1
    BY <1>1, <1>4, <1>5, FS_AddElement DEF n
  <1>8. \A x \in log : x[2] \in Nat
    BY DEF Logs
  <1>9. Numbered(Noted(log))
    BY <1>1, <1>2, <1>3, <1>7, <1>8 DEF Numbered
  <1>10. Noted(log) \in Logs(length)
    BY <1>1, <1>2 DEF Logs
  <1> QED
    BY <1>1, <1>2, <1>5, <1>6, <1>9, <1>10

\* A part of a log is no larger a tick later.
LEMMA LogPassed ==
  ASSUME NEW length \in Nat \ {0}, NEW log \in Logs(length), IsFiniteSet(log)
  PROVE  /\ Passed(log, length) \in Logs(length) /\ Numbered(Passed(log, length))
         /\ IsFiniteSet(Passed(log, length)) /\ Cardinality(Passed(log, length)) <= Cardinality(log)
         /\ \A y \in Passed(log, length) : y[1] >= 1 /\ \E x \in log : y = <<x[1] + 1, x[2]>>
  <1> DEFINE kept == {y \in log : y[1] + 1 < length}
             f    == [x \in kept |-> <<x[1] + 1, x[2]>>]
             T    == Passed(log, length)
  <1>1. /\ IsFiniteSet(kept) /\ Cardinality(kept) <= Cardinality(log) /\ Cardinality(kept) \in Nat
        /\ Cardinality(log) \in Nat
    BY FS_Subset, FS_CardinalityType
  <1>2. T = {<<x[1] + 1, x[2]>> : x \in kept}
    BY DEF Passed
  <1> HIDE DEF T
  <1>3. f \in Surjection(kept, T)
    BY <1>2 DEF Surjection
  <1>4. IsFiniteSet(T) /\ Cardinality(T) <= Cardinality(kept)
    BY <1>1, <1>3, FS_Surjection
  <1>5. Cardinality(T) <= Cardinality(log)
    BY <1>1, <1>4, FS_CardinalityType
  <1>6. \A x \in kept : x[1] \in Nat /\ x[1] + 1 < length /\ x[2] \in Nat /\ x \in log
    BY DEF Logs
  <1>7. \A y \in T : /\ y[1] \in 0 .. length - 1 /\ y[2] \in Nat /\ y[1] >= 1
                     /\ \E x \in log : y = <<x[1] + 1, x[2]>>
    BY <1>2, <1>6
  <1>8. T \in Logs(length)
    BY <1>2, <1>6 DEF Logs
  <1>9. Numbered(T)
    BY <1>7 DEF Numbered
  <1> QED
    BY <1>4, <1>5, <1>7, <1>8, <1>9 DEF T

\* The part of a log that is still remembered after a tick is no larger than it was.
LEMMA LogPart ==
  ASSUME NEW length \in Nat \ {0}, NEW log \in Logs(length), IsFiniteSet(log), NEW part \in SUBSET log,
         NEW later \in SUBSET Passed(log, length),
         \A x \in log : <<x[1] + 1, x[2]>> \in later => x \in part
  PROVE  Cardinality(later) \in Nat /\ Cardinality(later) <= Cardinality(part)
  <1>1. IsFiniteSet(part) /\ part \in Logs(length)
    BY FS_Subset DEF Logs
  <1>2. /\ IsFiniteSet(Passed(part, length)) /\ Cardinality(Passed(part, length)) <= Cardinality(part)
    BY <1>1, LogPassed
  <1>3. later \subseteq Passed(part, length)
    BY DEF Passed
  <1>4. IsFiniteSet(later) /\ Cardinality(later) <= Cardinality(Passed(part, length))
    BY <1>2, <1>3, FS_Subset
  <1> QED
    BY <1>1, <1>2, <1>4, FS_CardinalityType

\* What was allowed in the window that runs now, and before it.
Recent(c)  == {x \in allowed[c] : x[1] <= bucket[c].age}
Earlier(c) == {x \in allowed[c] : x[1] > bucket[c].age}

ClientInv(c) ==
    /\ IsFiniteSet(allowed[c]) /\ Numbered(allowed[c])
    /\ bucket[c].age = Window => \A x \in allowed[c] : x[1] >= 1
    /\ Cardinality(Recent(c)) <= bucket[c].count /\ Cardinality(Recent(c)) <= Limit
    /\ Cardinality(Earlier(c)) <= Limit
LimiterInv == LimiterTypeOK /\ \A c \in Clients : ClientInv(c)

\* The bucket after an attempt: the window restarts, or counts one more.
LEMMA BucketDecides ==
  ASSUME NEW b \in Buckets
  PROVE  /\ Decide(b) \in Buckets
         /\ b.age = Window => Decide(b).count = 1 /\ Decide(b).age = 0
         /\ b.age # Window => /\ Decide(b).age = b.age /\ Decide(b).count >= b.count
                              /\ Decide(b).count <= Limit => Decide(b).count = b.count + 1
  <1>1. b.count \in Nat /\ b.count <= Limit + 1 /\ Limit \in Nat /\ Window \in Nat /\ Limit >= 1
        /\ b.age \in Nat /\ b.age <= Window
    BY LimitAssumption DEF Buckets
  <1> DEFINE m == Min({b.count + 1, Limit + 1})
  <1>2. m \in 0 .. Limit + 1 /\ m >= b.count /\ (m <= Limit => m = b.count + 1)
    <2>1. m = IF b.count + 1 <= Limit + 1 THEN b.count + 1 ELSE Limit + 1
      BY <1>1, MinTwo
    <2> QED
      BY <1>1, <2>1
  <1>3. Decide(b) = IF b.age = Window THEN [count |-> 1, age |-> 0] ELSE [b EXCEPT !.count = m]
    BY <1>1 DEF Decide
  <1> HIDE DEF m
  <1>4. CASE b.age = Window
    BY <1>1, <1>3, <1>4 DEF Buckets
  <1>5. CASE b.age # Window
    BY <1>1, <1>2, <1>3, <1>5 DEF Buckets
  <1> QED
    BY <1>4, <1>5

\* An attempt that is let through, and one that is not, keep the bucket's count.
LEMMA CheckKeepsLimit ==
  ASSUME LimiterInv, NEW c \in Clients, NEW ok \in BOOLEAN, CheckShared(c, ok)
  PROVE  LimiterInv'
  <1> DEFINE b == bucket[c]
             log == allowed[c]
  <1>0. /\ Limit \in Nat /\ Limit >= 1 /\ Window \in Nat \ {0} /\ b \in Buckets /\ b.age \in Nat /\ b.age <= Window
        /\ b.count \in Nat
        /\ log \in Logs(Window) /\ IsFiniteSet(log) /\ Numbered(log)
        /\ \A x \in log : x[1] \in Nat /\ x[1] < Window
    BY LimitAssumption DEF LimiterInv, LimiterTypeOK, ClientInv, Logs, Buckets
  <1>1. /\ Decide(b) \in Buckets
        /\ b.age = Window => Decide(b).count = 1 /\ Decide(b).age = 0
        /\ b.age # Window => /\ Decide(b).age = b.age /\ Decide(b).count >= b.count
                             /\ Decide(b).count <= Limit => Decide(b).count = b.count + 1
    BY <1>0, BucketDecides
  <1>2. /\ bucket' = [bucket EXCEPT ![c] = Decide(b)] /\ ok = (bucket'[c].count <= Limit)
        /\ allowed' = [allowed EXCEPT ![c] = IF ok THEN Noted(log) ELSE log]
    BY DEF CheckShared
  <1>3. PICK new \in {0} \X Nat :
          /\ new \notin log /\ Noted(log) = log \union {new} /\ Noted(log) \in Logs(Window)
          /\ IsFiniteSet(Noted(log)) /\ Cardinality(Noted(log)) = Cardinality(log) + 1
          /\ Numbered(Noted(log))
    BY <1>0, LogNoted
  <1>4. /\ LimiterTypeOK' /\ bucket'[c] = Decide(b) /\ allowed'[c] = IF ok THEN Noted(log) ELSE log
        /\ \A d \in Clients \ {c} : bucket'[d] = bucket[d] /\ allowed'[d] = allowed[d]
    BY <1>0, <1>1, <1>2, <1>3 DEF LimiterInv, LimiterTypeOK
  <1>5. \A d \in Clients \ {c} : ClientInv(d)'
    BY <1>4 DEF LimiterInv, ClientInv, Recent, Earlier
  <1>6. IsFiniteSet(allowed'[c]) /\ Numbered(allowed'[c])
    BY <1>0, <1>3, <1>4
  <1>7. /\ IsFiniteSet(Recent(c)) /\ IsFiniteSet(Earlier(c))
        /\ Cardinality(Recent(c)) \in Nat /\ Cardinality(Earlier(c)) \in Nat
    BY <1>0, FS_Subset, FS_CardinalityType DEF Recent, Earlier
  <1>8. /\ Cardinality(Recent(c)) <= b.count /\ Cardinality(Recent(c)) <= Limit
        /\ Cardinality(Earlier(c)) <= Limit
        /\ b.age = Window => \A x \in log : x[1] >= 1
    BY DEF LimiterInv, ClientInv
  <1>9. CASE b.age = Window
    <2>1. ok /\ bucket'[c].count = 1 /\ bucket'[c].age = 0 /\ bucket'[c].age # Window
      BY <1>0, <1>1, <1>2, <1>4, <1>9
    <2>2. Recent(c) = log
      BY <1>0, <1>9 DEF Recent
    <2>3. Earlier(c)' = log
      BY <1>0, <1>3, <1>4, <1>8, <1>9, <2>1 DEF Earlier
    <2>4. Recent(c)' = {new}
      BY <1>0, <1>3, <1>4, <1>8, <1>9, <2>1 DEF Recent
    <2>5. Cardinality(Recent(c)') = 1
      BY <2>4, FS_Singleton
    <2>6. ClientInv(c)'
      BY <1>0, <1>6, <1>8, <2>1, <2>2, <2>3, <2>5 DEF ClientInv
    <2> QED
      BY <1>4, <1>5, <2>6 DEF LimiterInv
  <1>10. CASE b.age # Window
    <2>1. /\ bucket'[c].age = b.age /\ bucket'[c].age # Window /\ bucket'[c].count >= b.count
          /\ ok => bucket'[c].count = b.count + 1 /\ bucket'[c].count <= Limit
          /\ bucket'[c].count \in Nat
      <3>1. Decide(b).count \in Nat
        BY <1>1 DEF Buckets
      <3>2. bucket'[c] = Decide(b) /\ ok = (bucket'[c].count <= Limit)
        BY <1>2, <1>4
      <3> QED
        BY <1>1, <1>10, <3>1, <3>2
    <2>2. Earlier(c)' = Earlier(c)
      BY <1>0, <1>3, <1>4, <2>1 DEF Earlier
    <2>3. CASE ok
      <3>1. Recent(c)' = Recent(c) \union {new} /\ new \notin Recent(c)
        BY <1>0, <1>3, <1>4, <2>1, <2>3 DEF Recent
      <3>2. Cardinality(Recent(c)') = Cardinality(Recent(c)) + 1
        BY <1>7, <3>1, FS_AddElement
      <3> QED
        BY <1>0, <1>4, <1>5, <1>6, <1>7, <1>8, <2>1, <2>2, <2>3, <3>2 DEF LimiterInv, ClientInv
    <2>4. CASE ~ok
      <3>1. Recent(c)' = Recent(c)
        BY <1>4, <2>1, <2>4 DEF Recent
      <3> QED
        BY <1>0, <1>4, <1>5, <1>6, <1>7, <1>8, <2>1, <2>2, <3>1 DEF LimiterInv, ClientInv
    <2> QED
      BY <2>3, <2>4
  <1> QED
    BY <1>9, <1>10

\* A tick ages the bucket and its log alike.
LEMMA PassKeepsLimit ==
  ASSUME LimiterInv, LimiterPass
  PROVE  LimiterInv'
  <1>0. /\ Limit \in Nat /\ Window \in Nat \ {0}
        /\ \A c \in Clients :
              /\ bucket[c] \in Buckets /\ bucket[c].age \in Nat /\ bucket[c].age <= Window
              /\ bucket[c].count \in Nat /\ allowed[c] \in Logs(Window) /\ IsFiniteSet(allowed[c])
              /\ \A x \in allowed[c] : x[1] \in Nat /\ x[1] < Window
    BY LimitAssumption DEF LimiterInv, LimiterTypeOK, ClientInv, Logs, Buckets
  <1>1. \A c \in Clients :
           /\ Passed(allowed[c], Window) \in Logs(Window) /\ Numbered(Passed(allowed[c], Window))
           /\ IsFiniteSet(Passed(allowed[c], Window))
           /\ \A y \in Passed(allowed[c], Window) :
                 y[1] >= 1 /\ \E x \in allowed[c] : y = <<x[1] + 1, x[2]>>
    BY <1>0, LogPassed
  <1>2. allowed' \in [Clients -> Logs(Window)] /\ \A c \in Clients : allowed'[c] = Passed(allowed[c], Window)
    BY <1>1 DEF LimiterPass
  <1>3. ASSUME NEW c \in Clients
        PROVE  /\ bucket'[c] \in Buckets /\ bucket'[c].count = bucket[c].count
               /\ bucket'[c].age = IF bucket[c].age = Window THEN Window ELSE bucket[c].age + 1
    <2> DEFINE m == Min({bucket[c].age + 1, Window})
    <2>1. m = IF bucket[c].age = Window THEN Window ELSE bucket[c].age + 1
      <3>1. m = IF bucket[c].age + 1 <= Window THEN bucket[c].age + 1 ELSE Window
        BY <1>0, MinTwo
      <3> QED
        BY <1>0, <3>1
    <2>2. m \in 0 .. Window
      BY <1>0, <2>1
    <2>3. bucket'[c] = [bucket[c] EXCEPT !.age = m]
      BY DEF LimiterPass
    <2> HIDE DEF m
    <2> QED
      BY <1>0, <2>1, <2>2, <2>3 DEF Buckets
  <1>4. LimiterTypeOK'
    <2>1. bucket' = [c \in Clients |-> bucket'[c]]
      BY DEF LimiterPass
    <2> QED
      BY <1>2, <1>3, <2>1 DEF LimiterTypeOK
  <1>5. ASSUME NEW c \in Clients
        PROVE  ClientInv(c)'
    <2>1. /\ Cardinality(Recent(c)) <= bucket[c].count /\ Cardinality(Recent(c)) <= Limit
          /\ Cardinality(Earlier(c)) <= Limit
          /\ Cardinality(Recent(c)) \in Nat /\ Cardinality(Earlier(c)) \in Nat
      BY <1>0, FS_Subset, FS_CardinalityType DEF LimiterInv, ClientInv, Recent, Earlier
    <2>2. Cardinality(Recent(c)') \in Nat /\ Cardinality(Recent(c)') <= Cardinality(Recent(c))
      <3>1. Recent(c) \in SUBSET allowed[c] /\ Recent(c)' \in SUBSET Passed(allowed[c], Window)
        BY <1>2 DEF Recent
      <3>2. ASSUME NEW x \in allowed[c], <<x[1] + 1, x[2]>> \in Recent(c)'
            PROVE  x \in Recent(c)
        <4>1. x[1] + 1 <= bucket'[c].age
          BY <3>2 DEF Recent
        <4>2. x[1] <= bucket[c].age
          BY <1>0, <1>3, <4>1
        <4> QED
          BY <4>2 DEF Recent
      <3> QED
        BY <1>0, <3>1, <3>2, LogPart
    <2>3. Cardinality(Earlier(c)') \in Nat /\ Cardinality(Earlier(c)') <= Cardinality(Earlier(c))
      <3>1. Earlier(c) \in SUBSET allowed[c] /\ Earlier(c)' \in SUBSET Passed(allowed[c], Window)
        BY <1>2 DEF Earlier
      <3>2. ASSUME NEW x \in allowed[c], <<x[1] + 1, x[2]>> \in Earlier(c)'
            PROVE  x \in Earlier(c)
        <4>1. x[1] + 1 > bucket'[c].age
          BY <3>2 DEF Earlier
        <4>2. x[1] > bucket[c].age
          BY <1>0, <1>3, <4>1
        <4> QED
          BY <4>2 DEF Earlier
      <3> QED
        BY <1>0, <3>1, <3>2, LogPart
    <2> QED
      BY <1>0, <1>1, <1>2, <1>3, <2>1, <2>2, <2>3 DEF ClientInv
  <1> QED
    BY <1>4, <1>5 DEF LimiterInv

\* check_shared_key lets through twice the limit at most in any stretch as long as a window,
\* for every limit, window and sequence of attempts.
THEOREM BurstsBounded == PreviewSpec => []BurstBounded
  <1>1. PreviewInit => LimiterInv
    <2> SUFFICES ASSUME PreviewInit PROVE LimiterInv
      OBVIOUS
    <2>1. \A c \in Clients : allowed[c] = {} /\ Recent(c) = {} /\ Earlier(c) = {} /\ bucket[c].count = 0
      BY DEF PreviewInit, LimiterInit, Recent, Earlier
    <2>2. IsFiniteSet({}) /\ Cardinality({}) = 0 /\ Numbered({})
      BY FS_EmptySet DEF Numbered
    <2>3. LimiterTypeOK
      <3>1. [count |-> 0, age |-> Window] \in Buckets /\ {} \in Logs(Window)
        BY LimitAssumption DEF Buckets, Logs
      <3> QED
        BY <3>1 DEF PreviewInit, LimiterInit, LimiterTypeOK
    <2>4. 0 <= 0 /\ 0 <= Limit
      BY LimitAssumption
    <2>5. \A c \in Clients : ClientInv(c)
      <3> SUFFICES ASSUME NEW c \in Clients PROVE ClientInv(c)
        OBVIOUS
      <3>1. Cardinality(Recent(c)) = 0 /\ Cardinality(Earlier(c)) = 0 /\ bucket[c].count = 0
        BY <2>1, <2>2
      <3>2. allowed[c] = {}
        BY <2>1
      <3> QED
        BY <2>2, <2>4, <3>1, <3>2 DEF ClientInv
    <2> QED
      BY <2>3, <2>5 DEF LimiterInv
  <1>2. LimiterInv /\ [PreviewNext]_preview => LimiterInv'
    <2> SUFFICES ASSUME LimiterInv, [PreviewNext]_preview PROVE LimiterInv'
      OBVIOUS
    <2>1. ASSUME NEW c \in Clients, NEW ok \in BOOLEAN, CheckShared(c, ok)
          PROVE  LimiterInv'
      BY <2>1, CheckKeepsLimit
    <2>2. CASE LimiterPass
      BY <2>2, PassKeepsLimit
    <2>3. CASE UNCHANGED limiter
      BY <2>3 DEF limiter, LimiterInv, LimiterTypeOK, ClientInv, Recent, Earlier
    <2> QED
      BY <2>1, <2>2, <2>3
      DEF PreviewNext, PreviewPass, RunPreview, PreviewFails, ClaimRead, ClaimWrite, EmailPreview, preview
  <1>3. LimiterInv => BurstBounded
    <2> SUFFICES ASSUME LimiterInv, NEW c \in Clients PROVE Cardinality(allowed[c]) <= 2 * Limit
      BY DEF BurstBounded
    <2>1. IsFiniteSet(Recent(c)) /\ IsFiniteSet(Earlier(c))
      BY FS_Subset DEF LimiterInv, ClientInv, Recent, Earlier
    <2>2. \A x \in allowed[c] : x[1] \in Nat /\ bucket[c].age \in Nat
      BY DEF LimiterInv, LimiterTypeOK, Logs, Buckets
    <2>3. allowed[c] = Recent(c) \union Earlier(c) /\ Recent(c) \intersect Earlier(c) = {}
      BY <2>2 DEF Recent, Earlier
    <2>4. Cardinality(allowed[c]) = Cardinality(Recent(c)) + Cardinality(Earlier(c))
      <3>1. Cardinality(Recent(c) \intersect Earlier(c)) = 0
        BY <2>3, FS_EmptySet
      <3>2. Cardinality(Recent(c) \union Earlier(c))
               = Cardinality(Recent(c)) + Cardinality(Earlier(c)) - Cardinality(Recent(c) \intersect Earlier(c))
        BY <2>1, FS_Union
      <3>3. Cardinality(Recent(c)) \in Nat /\ Cardinality(Earlier(c)) \in Nat
        BY <2>1, FS_CardinalityType
      <3> QED
        BY <2>3, <3>1, <3>2, <3>3
    <2> QED
      BY <2>1, <2>4, LimitAssumption, FS_CardinalityType DEF LimiterInv, ClientInv
  <1> QED
    BY <1>1, <1>2, <1>3, PTL DEF PreviewSpec

\* The requests that have read the slot of a recipient and will write to it: they share what
\* the slot had left, and none joins them until the reports of the last cooldown are forgotten.
Claiming(e) == {r \in Requests : request[r].stage = "claiming" /\ request[r].to = e}
Slots       == [count : Nat, age : 0 .. Cooldown]
Asked       == [stage : Stages, to : Recipients]
SlotInv(e) ==
    /\ IsFiniteSet(reports[e]) /\ Numbered(reports[e])
    /\ \A x \in reports[e] : x[1] >= slot[e].age
    /\ Cardinality(reports[e]) + Cardinality(Claiming(e)) <= Cardinality(Requests)
    /\ slot[e].count + Cardinality(Claiming(e)) <= Lifetime - 1 + Cardinality(Requests)
SlotsInv ==
    /\ slot \in [Recipients -> Slots]
    /\ request \in [Requests -> Asked]
    /\ reports \in [Recipients -> Logs(Cooldown)]
    /\ \A e \in Recipients : SlotInv(e)

\* The requests that are claiming a slot can be counted, and are requests.
LEMMA ClaimingFinite ==
  ASSUME NEW e
  PROVE  /\ IsFiniteSet(Claiming(e)) /\ Cardinality(Claiming(e)) \in Nat /\ Cardinality(Requests) \in Nat
         /\ Cardinality(Claiming(e)) <= Cardinality(Requests)
  <1>1. Claiming(e) \subseteq Requests /\ IsFiniteSet(Requests)
    BY SlotAssumption DEF Claiming
  <1> QED
    BY <1>1, FS_Subset, FS_CardinalityType

\* Requests come and go; nothing is written, and nobody begins to claim.
LEMMA NobodyClaims ==
  ASSUME SlotsInv, UNCHANGED <<slot, reports>>, request' \in [Requests -> Asked],
         \A r \in Requests : request'[r] = request[r] \/ request'[r].stage # "claiming"
  PROVE  SlotsInv'
  <1>1. ASSUME NEW e \in Recipients PROVE SlotInv(e)'
    <2>1. Claiming(e)' \subseteq Claiming(e)
      BY DEF Claiming
    <2>2. Cardinality(Claiming(e)') \in Nat /\ Cardinality(Claiming(e)') <= Cardinality(Claiming(e))
      BY <2>1, ClaimingFinite, FS_Subset, FS_CardinalityType
    <2>3. SlotInv(e) /\ Cardinality(reports[e]) \in Nat /\ slot[e].count \in Nat /\ Lifetime \in Nat
      BY SlotAssumption, FS_CardinalityType DEF SlotsInv, SlotInv, Slots
    <2>4. /\ Cardinality(reports[e]) + Cardinality(Claiming(e)') <= Cardinality(Requests)
          /\ slot[e].count + Cardinality(Claiming(e)') <= Lifetime - 1 + Cardinality(Requests)
      BY <2>2, <2>3, ClaimingFinite DEF SlotInv
    <2> QED
      BY <2>3, <2>4 DEF SlotInv
  <1> QED
    BY <1>1 DEF SlotsInv

\* Every statement of a preview request, and every tick, keeps the slots' bound.
LEMMA SlotsStep == SlotsInv /\ [PreviewNext]_preview => SlotsInv'
  <1> SUFFICES ASSUME SlotsInv, [PreviewNext]_preview PROVE SlotsInv'
    OBVIOUS
  <1>0. /\ Lifetime \in Nat /\ Lifetime >= 1 /\ Cooldown \in Nat \ {0} /\ IsFiniteSet(Requests)
        /\ \A e \in Recipients :
              /\ slot[e] \in Slots /\ slot[e].count \in Nat /\ slot[e].age \in Nat /\ slot[e].age <= Cooldown
              /\ reports[e] \in Logs(Cooldown) /\ IsFiniteSet(reports[e]) /\ Cardinality(reports[e]) \in Nat
              /\ \A x \in reports[e] : x[1] \in Nat /\ x[1] < Cooldown
        /\ \A r \in Requests : request[r] \in Asked /\ request[r].to \in Recipients
    BY SlotAssumption, FS_CardinalityType DEF SlotsInv, SlotInv, Slots, Asked, Logs
  <1>1. CASE UNCHANGED <<slot, request, reports>>
    BY <1>1, NobodyClaims DEF SlotsInv
  <1>2. ASSUME NEW r \in Requests, NEW c \in Clients, NEW e \in Recipients, EmailPreview(r, c, e)
        PROVE  SlotsInv'
    <2>1. [stage |-> "checking", to |-> e] \in Asked /\ [stage |-> "checking", to |-> e].stage = "checking"
      BY DEF Asked, Stages
    <2>2. /\ UNCHANGED <<slot, reports>>
          /\ request' \in {request, [request EXCEPT ![r] = [stage |-> "checking", to |-> e]]}
      BY <1>2 DEF EmailPreview
    <2> QED
      BY <2>1, <2>2, NobodyClaims DEF SlotsInv
  <1>3. ASSUME NEW r \in Requests, PreviewFails(r) \/ (ClaimRead(r) /\ Refused(slot[request[r].to]))
        PROVE  SlotsInv'
    <2> DEFINE new == [request[r] EXCEPT !.stage = "idle"]
    <2>1. new \in Asked /\ new.stage = "idle"
      BY <1>0 DEF Asked, Stages
    <2>2. request' = [request EXCEPT ![r] = new] /\ UNCHANGED <<slot, reports>>
      BY <1>3 DEF PreviewFails, ClaimRead, Goto
    <2> HIDE DEF new
    <2> QED
      BY <2>1, <2>2, NobodyClaims DEF SlotsInv
  <1>4. ASSUME NEW r \in Requests, ClaimRead(r), ~Refused(slot[request[r].to])
        PROVE  SlotsInv'
    <2>0. PICK e \in Recipients : e = request[r].to
      BY <1>0
    <2> DEFINE new == [request[r] EXCEPT !.stage = "claiming"]
    <2>1. new \in Asked /\ new.to = e
      BY <1>0, <2>0 DEF Asked, Stages
    <2>2. request' = [request EXCEPT ![r] = new] /\ UNCHANGED <<slot, reports>>
      BY <1>4 DEF ClaimRead, Goto
    <2>3. slot[e].count < Lifetime /\ slot[e].age = Cooldown
      BY <1>0, <1>4, <2>0 DEF Refused
    <2> HIDE DEF new
    <2>4. reports[e] = {}
      BY <1>0, <2>3 DEF SlotsInv, SlotInv
    <2>5. /\ request' \in [Requests -> Asked] /\ request'[r] = new
          /\ \A q \in Requests \ {r} : request'[q] = request[q]
      BY <2>1, <2>2 DEF SlotsInv
    <2>7. \A g \in Recipients \ {e} : Claiming(g)' = Claiming(g)
      BY <2>0, <2>1, <2>5 DEF Claiming
    <2>8. Cardinality(Claiming(e)') \in Nat /\ Cardinality(Claiming(e)') <= Cardinality(Requests)
      <3>1. Claiming(e)' \subseteq Requests
        BY DEF Claiming
      <3> QED
        BY <1>0, <3>1, FS_Subset, FS_CardinalityType
    <2>9. SlotInv(e)'
      <3>1. Cardinality(reports[e]) = 0
        BY <2>4, FS_EmptySet
      <3>2. Cardinality(Requests) \in Nat
        BY <1>0, FS_CardinalityType
      <3>3. /\ Cardinality(reports[e]) + Cardinality(Claiming(e)') <= Cardinality(Requests)
            /\ slot[e].count + Cardinality(Claiming(e)') <= Lifetime - 1 + Cardinality(Requests)
        BY <1>0, <2>3, <2>8, <3>1, <3>2
      <3> QED
        BY <2>2, <2>3, <3>3 DEF SlotsInv, SlotInv
    <2>10. \A g \in Recipients \ {e} : SlotInv(g)'
      BY <2>2, <2>7 DEF SlotsInv, SlotInv
    <2> QED
      BY <2>2, <2>5, <2>9, <2>10 DEF SlotsInv
  <1>5. ASSUME NEW r \in Requests, ClaimWrite(r)
        PROVE  SlotsInv'
    <2>3. PICK e \in Recipients : e = request[r].to
      BY <1>0
    <2> DEFINE new == [request[r] EXCEPT !.stage = "idle"]
               s   == [count |-> slot[e].count + 1, age |-> 0]
    <2>1. new \in Asked /\ new.to = e /\ new.stage = "idle"
      BY <1>0, <2>3 DEF Asked, Stages
    <2>2. /\ request' = [request EXCEPT ![r] = new] /\ request[r].stage = "claiming"
          /\ slot' = [slot EXCEPT ![e] = s] /\ reports' = [reports EXCEPT ![e] = Noted(reports[e])]
      BY <1>5, <2>3 DEF ClaimWrite, Goto
    <2> HIDE DEF new
    <2>4. s \in Slots /\ s.count = slot[e].count + 1 /\ s.age = 0
      BY <1>0, <2>3 DEF Slots
    <2> HIDE DEF s
    <2>5. PICK x \in {0} \X Nat :
            /\ x \notin reports[e] /\ Noted(reports[e]) = reports[e] \union {x}
            /\ Noted(reports[e]) \in Logs(Cooldown)
            /\ IsFiniteSet(Noted(reports[e]))
            /\ Cardinality(Noted(reports[e])) = Cardinality(reports[e]) + 1 /\ Numbered(Noted(reports[e]))
      BY <1>0, <2>3, LogNoted DEF SlotsInv, SlotInv
    <2>6. /\ request' \in [Requests -> Asked] /\ request'[r] = new
          /\ \A q \in Requests \ {r} : request'[q] = request[q]
          /\ slot' \in [Recipients -> Slots] /\ reports' \in [Recipients -> Logs(Cooldown)]
          /\ slot'[e] = s /\ reports'[e] = Noted(reports[e])
          /\ \A g \in Recipients \ {e} : slot'[g] = slot[g] /\ reports'[g] = reports[g]
      BY <2>1, <2>2, <2>3, <2>4, <2>5 DEF SlotsInv
    <2>7. \A g \in Recipients \ {e} : Claiming(g)' = Claiming(g)
      BY <2>1, <2>3, <2>6 DEF Claiming
    <2>8. Claiming(e)' = Claiming(e) \ {r} /\ r \in Claiming(e)
      BY <2>1, <2>2, <2>3, <2>6 DEF Claiming
    <2>9. /\ Cardinality(Claiming(e)') = Cardinality(Claiming(e)) - 1 /\ Cardinality(Claiming(e)) \in Nat
          /\ Cardinality(Requests) \in Nat
      BY <2>8, ClaimingFinite, FS_RemoveElement
    <2>10. \A y \in reports'[e] : y[1] >= slot'[e].age
      BY <1>0, <2>3, <2>4, <2>5, <2>6
    <2>11. /\ Cardinality(reports'[e]) + Cardinality(Claiming(e)') <= Cardinality(Requests)
           /\ slot'[e].count + Cardinality(Claiming(e)') <= Lifetime - 1 + Cardinality(Requests)
      BY <1>0, <2>3, <2>4, <2>5, <2>6, <2>9 DEF SlotsInv, SlotInv
    <2>12. SlotInv(e)'
      BY <2>5, <2>6, <2>10, <2>11 DEF SlotInv
    <2>13. \A g \in Recipients \ {e} : SlotInv(g)'
      BY <2>6, <2>7 DEF SlotsInv, SlotInv
    <2> QED
      BY <2>6, <2>12, <2>13 DEF SlotsInv
  <1>6. CASE PreviewPass
    <2>1. /\ request' = request
          /\ slot' = [e \in Recipients |-> [slot[e] EXCEPT !.age = Min({slot[e].age + 1, Cooldown})]]
          /\ reports' = [e \in Recipients |-> Passed(reports[e], Cooldown)]
      BY <1>6 DEF PreviewPass
    <2>2. ASSUME NEW e \in Recipients
          PROVE  /\ slot'[e] \in Slots /\ slot'[e].count = slot[e].count /\ slot'[e].age <= slot[e].age + 1
                 /\ slot'[e].age \in Nat
      <3> DEFINE m == Min({slot[e].age + 1, Cooldown})
      <3>1. m \in 0 .. Cooldown /\ m <= slot[e].age + 1
        <4>1. m = IF slot[e].age + 1 <= Cooldown THEN slot[e].age + 1 ELSE Cooldown
          BY <1>0, MinTwo
        <4> QED
          BY <1>0, <4>1
      <3>2. slot'[e] = [slot[e] EXCEPT !.age = m]
        BY <2>1
      <3> HIDE DEF m
      <3>3. slot'[e] \in Slots /\ slot'[e].count = slot[e].count /\ slot'[e].age = m
        BY <1>0, <3>1, <3>2 DEF Slots
      <3> QED
        BY <1>0, <3>1, <3>3
    <2>3. ASSUME NEW e \in Recipients
          PROVE  /\ reports'[e] \in Logs(Cooldown) /\ Numbered(reports'[e])
                 /\ IsFiniteSet(reports'[e]) /\ Cardinality(reports'[e]) <= Cardinality(reports[e])
                 /\ \A y \in reports'[e] : \E x \in reports[e] : y = <<x[1] + 1, x[2]>>
      BY <1>0, <2>1, LogPassed
    <2>4. slot' \in [Recipients -> Slots] /\ reports' \in [Recipients -> Logs(Cooldown)]
      BY <2>1, <2>2, <2>3
    <2>5. ASSUME NEW e \in Recipients PROVE SlotInv(e)'
      <3>1. Claiming(e)' = Claiming(e)
        BY <2>1 DEF Claiming
      <3>2. SlotInv(e)
        BY DEF SlotsInv
      <3>3. \A y \in reports'[e] : y[1] >= slot'[e].age
        BY <1>0, <2>2, <2>3, <3>2 DEF SlotInv
      <3>4. Cardinality(reports'[e]) \in Nat
        BY <2>3, FS_CardinalityType
      <3> QED
        BY <1>0, <2>2, <2>3, <3>1, <3>2, <3>3, <3>4, ClaimingFinite DEF SlotInv
    <2> QED
      BY <2>1, <2>4, <2>5 DEF SlotsInv
  <1> QED
    BY <1>1, <1>2, <1>3, <1>4, <1>5, <1>6 DEF PreviewNext, RunPreview, preview

\* claim_recipient_slot: requests that read a slot together overdraw it by less than their
\* number, for any limit and any cooldown, and however many clients and recipients there are.
THEOREM SlotsKept == PreviewSpec => []SlotsBounded
  <1>1. PreviewInit => SlotsInv
    <2> SUFFICES ASSUME PreviewInit PROVE SlotsInv
      OBVIOUS
    <2>1. (CHOOSE e \in Recipients : TRUE) \in Recipients
      BY SlotAssumption, Zenon
    <2>2. request \in [Requests -> Asked] /\ \A r \in Requests : request[r].stage = "idle"
      BY <2>1 DEF PreviewInit, Asked, Stages
    <2>3. /\ \A e \in Recipients : Claiming(e) = {} /\ reports[e] = {} /\ slot[e].count = 0
          /\ Cardinality({}) = 0 /\ IsFiniteSet({}) /\ Numbered({})
      BY <2>2, FS_EmptySet DEF Claiming, PreviewInit, Numbered
    <2>4. [count |-> 0, age |-> Cooldown] \in Slots /\ {} \in Logs(Cooldown)
      BY SlotAssumption DEF Slots, Logs
    <2>5. Cardinality(Requests) \in Nat /\ Lifetime - 1 \in Nat
      BY SlotAssumption, FS_CardinalityType
    <2>6. ASSUME NEW e \in Recipients PROVE SlotInv(e)
      <3>1. Cardinality(Claiming(e)) = 0 /\ Cardinality(reports[e]) = 0 /\ slot[e].count = 0
        BY <2>3
      <3>2. reports[e] = {} /\ IsFiniteSet(reports[e]) /\ Numbered(reports[e])
        BY <2>3
      <3>3. 0 + 0 <= Cardinality(Requests) /\ 0 + 0 <= Lifetime - 1 + Cardinality(Requests)
        BY <2>5, SlotAssumption
      <3> QED
        BY <3>1, <3>2, <3>3 DEF SlotInv
    <2> QED
      BY <2>2, <2>4, <2>6 DEF PreviewInit, SlotsInv
  <1>2. SlotsInv => SlotsBounded
    <2> SUFFICES ASSUME SlotsInv, NEW e \in Recipients
                 PROVE  /\ slot[e].count <= Lifetime - 1 + Cardinality(Requests)
                        /\ Cardinality(reports[e]) <= Cardinality(Requests)
      BY DEF SlotsBounded
    <2>1. Cardinality(reports[e]) \in Nat /\ slot[e].count \in Nat /\ Lifetime \in Nat
      BY SlotAssumption, FS_CardinalityType DEF SlotsInv, SlotInv, Slots
    <2> QED
      BY <2>1, ClaimingFinite DEF SlotsInv, SlotInv
  <1> QED
    BY <1>1, <1>2, SlotsStep, PTL DEF PreviewSpec
=============================================================================
