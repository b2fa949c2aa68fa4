-------------------------- MODULE OwnershipProofs --------------------------
(***************************************************************************)
(* First, a proof of ownership in force always stands on a token that was  *)
(* seen, for any number of rows, requests and workers, any TTL and any     *)
(* delays: whoever writes a row saw its token no earlier than the clock it *)
(* writes (WritersSaw), and time adds the same to both.                    *)
(*                                                                         *)
(* Then what a late write can do to a proof: a request's does nothing, and *)
(* a renewal's takes back no more than its own tick has lasted.            *)
(***************************************************************************)
EXTENDS Ownership, TLAPS

\* Initially nothing is verified and nobody is writing.
LEMMA InitOwnership == Init => OwnershipInv
  <1> SUFFICES ASSUME Init PROVE OwnershipInv
    OBVIOUS
  <1>1. TypeOK
    <2>1. /\ left \in [Proofs -> 0 .. TTL] /\ seen \in [Proofs -> 0 .. TTL + 1]
          /\ mails \in [Proofs -> 0 .. MaxMails]
      BY TimesAssumption DEF Init
    <2>2. cage \in [Checks -> 0 .. CheckCap] /\ sage \in [Schedulers -> 0 .. Work]
      BY TimesAssumption DEF Init
    <2>3. kept \in [Proofs -> BOOLEAN] /\ gone \in [Proofs -> BOOLEAN] /\ warn \in [Schedulers -> BOOLEAN]
      BY DEF Init
    <2> QED
      BY <2>1, <2>2, <2>3 DEF Init, TypeOK, Methods
  <1>2. WritersSaw
    BY DEF Init, WritersSaw
  <1>3. ProofBacked
    BY DEF Init, ProofBacked, InForce
  <1> QED
    BY <1>1, <1>2, <1>3 DEF OwnershipInv

\* Time left, when clipped, is within the TTL.
LEMMA ClipType ==
  ASSUME NEW ago \in Nat
  PROVE  Clip(TTL - ago) \in 0 .. TTL /\ (Clip(TTL - ago) > 0 => Clip(TTL - ago) = TTL - ago)
  BY TimesAssumption DEF Clip

\* Writing a proof keeps the types of the row's columns.
LEMMA ProveType ==
  ASSUME TypeOK, NEW v \in Proofs, NEW ago \in Nat, Prove(v, ago)
  PROVE  /\ state' \in [Proofs -> {"absent", "pending", "verified"}]
         /\ left' \in [Proofs -> 0 .. TTL]
         /\ mails' \in [Proofs -> 0 .. MaxMails]
  BY ClipType, TimesAssumption DEF TypeOK, Prove

\* Writing a proof with a clock no later than the sighting leaves every proof backed.
LEMMA ProveBacked ==
  ASSUME TypeOK, ProofBacked, NEW v \in Proofs, NEW ago \in Nat, Prove(v, ago),
         seen[v] <= ago, seen' = seen
  PROVE  ProofBacked'
  <1> SUFFICES ASSUME NEW u \in Proofs, InForce(u)'
               PROVE  seen[u] + left'[u] <= TTL
    BY DEF ProofBacked
  <1>1. CASE u = v
    BY <1>1, ClipType, TimesAssumption DEF Prove, InForce, TypeOK
  <1>2. CASE u # v
    BY <1>2 DEF Prove, InForce, ProofBacked, TypeOK
  <1> QED
    BY <1>1, <1>2

\* The history variables are Booleans whatever the step.
LEMMA HistoryType ==
  ASSUME NEW failed \in BOOLEAN, History(failed)
  PROVE  kept' \in [Proofs -> BOOLEAN] /\ gone' \in [Proofs -> BOOLEAN]
  BY DEF History

\* One step of anyone keeps the invariant.
LEMMA NextOwnership == OwnershipInv /\ [Next]_vars => OwnershipInv'
  <1> SUFFICES ASSUME OwnershipInv, [Next]_vars PROVE OwnershipInv'
    OBVIOUS
  <1> USE DEF OwnershipInv
  <1>h. ASSUME Next PROVE kept' \in [Proofs -> BOOLEAN] /\ gone' \in [Proofs -> BOOLEAN]
    BY <1>h, HistoryType DEF Next
  <1>1. ASSUME Next, NEW v \in Proofs, StartVerification(v) PROVE OwnershipInv'
    <2>1. TypeOK'
      BY <1>1, <1>h DEF StartVerification, TypeOK, check, sched, site
    <2>2. WritersSaw'
      BY <1>1 DEF StartVerification, WritersSaw, check, sched
    <2>3. ProofBacked'
      BY <1>1 DEF StartVerification, ProofBacked, InForce, TypeOK
    <2> QED
      BY <2>1, <2>2, <2>3
  <1>2. ASSUME Next, NEW c \in Checks, NEW m \in Methods, CheckBegin(c, m) PROVE OwnershipInv'
    <2>1. TypeOK'
      BY <1>2, <1>h, TimesAssumption DEF CheckBegin, TypeOK, db, sched, site, Pending
    <2>2. WritersSaw'
      BY <1>2 DEF CheckBegin, WritersSaw, TypeOK, sched, Pending
    <2>3. ProofBacked'
      BY <1>2 DEF CheckBegin, ProofBacked, InForce, db
    <2> QED
      BY <2>1, <2>2, <2>3
  <1>3. ASSUME Next, NEW c \in Checks, CheckFound(c) PROVE OwnershipInv'
    <2>0. crow[c] \in Proofs
      BY <1>3 DEF CheckFound, WritersSaw
    <2>1. TypeOK'
      <3>1. seen' \in [Proofs -> 0 .. TTL + 1] /\ cage' \in [Checks -> 0 .. CheckCap]
        BY <1>3, <2>0, TimesAssumption DEF CheckFound, TypeOK
      <3> QED
        BY <1>3, <1>h, <3>1 DEF CheckFound, TypeOK, db, sched, site
    <2>2. \A v \in Proofs : seen'[v] <= seen[v]
      BY <1>3, <2>0, TimesAssumption DEF CheckFound, TypeOK
    <2>3. WritersSaw'
      <3>1. \A d \in Checks : cpc'[d] # "idle" => crow'[d] \in Proofs
        BY <1>3, <2>0 DEF CheckFound, WritersSaw, TypeOK
      <3>2. \A s \in Schedulers : spc'[s] \in {"fetching", "writing"} => item'[s] \in Proofs
        BY <1>3 DEF CheckFound, WritersSaw, sched
      <3>3. \A d \in Checks : cpc'[d] = "writing" => seen'[crow'[d]] <= cage'[d]
        <4> SUFFICES ASSUME NEW d \in Checks, cpc'[d] = "writing" PROVE seen'[crow'[d]] <= cage'[d]
          OBVIOUS
        <4>1. CASE d = c
          BY <4>1, <1>3, <2>0 DEF CheckFound, TypeOK
        <4>2. CASE d # c
          <5>1. cpc[d] = "writing" /\ crow'[d] = crow[d] /\ cage'[d] = cage[d] /\ crow[d] \in Proofs
            BY <4>2, <1>3 DEF CheckFound, TypeOK, WritersSaw
          <5>2. seen'[crow[d]] <= seen[crow[d]] /\ seen[crow[d]] <= cage[d]
            BY <5>1, <2>2 DEF WritersSaw
          <5>3. seen'[crow[d]] \in Int /\ seen[crow[d]] \in Int /\ cage[d] \in Int
            BY <5>1, <2>1, TimesAssumption DEF TypeOK
          <5> QED
            BY <5>1, <5>2, <5>3
        <4> QED
          BY <4>1, <4>2
      <3>4. \A s \in Schedulers : spc'[s] = "writing" => seen'[item'[s]] <= sage'[s]
        <4> SUFFICES ASSUME NEW s \in Schedulers, spc'[s] = "writing" PROVE seen'[item'[s]] <= sage'[s]
          OBVIOUS
        <4>1. spc[s] = "writing" /\ item'[s] = item[s] /\ sage'[s] = sage[s] /\ item[s] \in Proofs
          BY <1>3 DEF CheckFound, sched, WritersSaw
        <4>2. seen'[item[s]] <= seen[item[s]] /\ seen[item[s]] <= sage[s]
          BY <4>1, <2>2 DEF WritersSaw
        <4>3. seen'[item[s]] \in Int /\ seen[item[s]] \in Int /\ sage[s] \in Int
          BY <4>1, <2>1, TimesAssumption DEF TypeOK
        <4> QED
          BY <4>1, <4>2, <4>3
      <3> QED
        BY <3>1, <3>2, <3>3, <3>4 DEF WritersSaw
    <2>4. ProofBacked'
      BY <1>3, <2>1, <2>2, TimesAssumption DEF CheckFound, ProofBacked, InForce, db, TypeOK
    <2> QED
      BY <2>1, <2>3, <2>4
  <1>4. ASSUME Next, NEW c \in Checks, CheckNotYet(c) \/ CheckDrop(c) PROVE OwnershipInv'
    <2>1. TypeOK'
      BY <1>4, <1>h, TimesAssumption DEF CheckNotYet, CheckDrop, Answer, Methods, TypeOK, db, sched, site
    <2>2. WritersSaw'
      BY <1>4 DEF CheckNotYet, CheckDrop, Answer, WritersSaw, TypeOK, sched
    <2>3. ProofBacked'
      BY <1>4 DEF CheckNotYet, CheckDrop, Answer, ProofBacked, InForce, db
    <2> QED
      BY <2>1, <2>2, <2>3
  <1>5. ASSUME Next, NEW c \in Checks, CheckWrite(c) PROVE OwnershipInv'
    <2>0. crow[c] \in Proofs /\ cage[c] \in Nat /\ seen[crow[c]] <= cage[c] /\ cmethod[c] \in Methods
      BY <1>5 DEF CheckWrite, WritersSaw, TypeOK
    <2>1. /\ state' \in [Proofs -> {"absent", "pending", "verified"}]
          /\ left' \in [Proofs -> 0 .. TTL]
          /\ mails' \in [Proofs -> 0 .. MaxMails]
          /\ method' \in [Proofs -> Methods]
      BY <1>5, <2>0, ProveType DEF CheckWrite, TypeOK
    <2>2. TypeOK'
      BY <1>5, <1>h, <2>1, TimesAssumption DEF CheckWrite, Answer, Methods, TypeOK, sched, site
    <2>3. WritersSaw'
      BY <1>5 DEF CheckWrite, Answer, WritersSaw, TypeOK, sched
    <2>4. ProofBacked'
      <3>1. CASE state[crow[c]] = "pending"
        BY <3>1, <1>5, <2>0, ProveBacked DEF CheckWrite
      <3>2. CASE state[crow[c]] # "pending"
        BY <3>2, <1>5 DEF CheckWrite, ProofBacked, InForce
      <3> QED
        BY <3>1, <3>2
    <2> QED
      BY <2>2, <2>3, <2>4
  <1>6. ASSUME Next, SetCadence PROVE OwnershipInv'
    <2>1. TypeOK'
      BY <1>6, <1>h DEF SetCadence, TypeOK, check, sched, site
    <2>2. WritersSaw'
      BY <1>6 DEF SetCadence, WritersSaw, check, sched
    <2>3. ProofBacked'
      BY <1>6 DEF SetCadence, ProofBacked, InForce
    <2> QED
      BY <2>1, <2>2, <2>3
  <1>7. ASSUME Next, NEW s \in Schedulers, Wake(s) PROVE OwnershipInv'
    <2>0. \A v \in Proofs : ReminderDue(left[v]) \in BOOLEAN
      BY DEF ReminderDue
    <2>1. TypeOK'
      <3>1. spc' \in [Schedulers -> {"asleep", "fetching", "writing", "working"}]
        BY <1>7 DEF Wake, Done, TypeOK
      <3>2. item' \in [Schedulers -> Proofs \union {NoProof}]
        BY <1>7 DEF Wake, Done, TypeOK
      <3>3. warn' \in [Schedulers -> BOOLEAN]
        <4>1. CASE warn' = warn
          BY <4>1 DEF TypeOK
        <4>0. CASE warn' = [warn EXCEPT ![s] = FALSE]
          BY <4>0 DEF TypeOK
        <4>2. CASE \E v \in Proofs : warn' = [warn EXCEPT ![s] = ReminderDue(left[v])]
          <5> PICK v \in Proofs : warn' = [warn EXCEPT ![s] = ReminderDue(left[v])]
            BY <4>2
          <5>1. ReminderDue(left[v]) \in BOOLEAN
            BY <2>0
          <5> QED
            BY <5>1 DEF TypeOK
        <4> QED
          BY <1>7, <4>0, <4>1, <4>2 DEF Wake, Done
      <3>4. sage' \in [Schedulers -> 0 .. Work]
        BY <1>7, TimesAssumption DEF Wake, Done, TypeOK
      <3> QED
        BY <1>7, <1>h, <3>1, <3>2, <3>3, <3>4 DEF Wake, Done, TypeOK, db, check, site
    <2>2. WritersSaw'
      BY <1>7 DEF Wake, Done, WritersSaw, TypeOK, check
    <2>3. ProofBacked'
      BY <1>7 DEF Wake, Done, ProofBacked, InForce, db
    <2> QED
      BY <2>1, <2>2, <2>3
  <1>8. ASSUME Next, NEW s \in Schedulers, StillPublished(s) PROVE OwnershipInv'
    <2>0. item[s] \in Proofs
      BY <1>8 DEF StillPublished, WritersSaw
    <2>1. TypeOK'
      <3>1. seen' \in [Proofs -> 0 .. TTL + 1]
        BY <1>8, <2>0, TimesAssumption DEF StillPublished, TypeOK
      <3> QED
        BY <1>8, <1>h, <3>1 DEF StillPublished, TypeOK, db, check, site
    <2>2. \A v \in Proofs : seen'[v] <= seen[v]
      BY <1>8, <2>0, TimesAssumption DEF StillPublished, TypeOK
    <2>3. WritersSaw'
      <3>1. \A d \in Checks : cpc'[d] # "idle" => crow'[d] \in Proofs
        BY <1>8 DEF StillPublished, WritersSaw, check
      <3>2. \A q \in Schedulers : spc'[q] \in {"fetching", "writing"} => item'[q] \in Proofs
        BY <1>8, <2>0 DEF StillPublished, WritersSaw, TypeOK
      <3>3. \A d \in Checks : cpc'[d] = "writing" => seen'[crow'[d]] <= cage'[d]
        <4> SUFFICES ASSUME NEW d \in Checks, cpc'[d] = "writing" PROVE seen'[crow'[d]] <= cage'[d]
          OBVIOUS
        <4>1. cpc[d] = "writing" /\ crow'[d] = crow[d] /\ cage'[d] = cage[d] /\ crow[d] \in Proofs
          BY <1>8 DEF StillPublished, check, WritersSaw
        <4>2. seen'[crow[d]] <= seen[crow[d]] /\ seen[crow[d]] <= cage[d]
          BY <4>1, <2>2 DEF WritersSaw
        <4>3. seen'[crow[d]] \in Int /\ seen[crow[d]] \in Int /\ cage[d] \in Int
          BY <4>1, <2>1, TimesAssumption DEF TypeOK
        <4> QED
          BY <4>1, <4>2, <4>3
      <3>4. \A q \in Schedulers : spc'[q] = "writing" => seen'[item'[q]] <= sage'[q]
        <4> SUFFICES ASSUME NEW q \in Schedulers, spc'[q] = "writing" PROVE seen'[item'[q]] <= sage'[q]
          OBVIOUS
        <4>1. CASE q = s
          BY <4>1, <1>8, <2>0, TimesAssumption DEF StillPublished, TypeOK
        <4>2. CASE q # s
          <5>1. spc[q] = "writing" /\ item'[q] = item[q] /\ sage'[q] = sage[q] /\ item[q] \in Proofs
            BY <4>2, <1>8 DEF StillPublished, TypeOK, WritersSaw
          <5>2. seen'[item[q]] <= seen[item[q]] /\ seen[item[q]] <= sage[q]
            BY <5>1, <2>2 DEF WritersSaw
          <5>3. seen'[item[q]] \in Int /\ seen[item[q]] \in Int /\ sage[q] \in Int
            BY <5>1, <2>1, TimesAssumption DEF TypeOK
          <5> QED
            BY <5>1, <5>2, <5>3
        <4> QED
          BY <4>1, <4>2
      <3> QED
        BY <3>1, <3>2, <3>3, <3>4 DEF WritersSaw
    <2>4. ProofBacked'
      BY <1>8, <2>1, <2>2, TimesAssumption DEF StillPublished, ProofBacked, InForce, db, TypeOK
    <2> QED
      BY <2>1, <2>3, <2>4
  <1>9. ASSUME Next, NEW s \in Schedulers, NotPublished(s) PROVE OwnershipInv'
    <2>0. item[s] \in Proofs
      BY <1>9 DEF NotPublished, Done, WritersSaw
    <2>1. TypeOK'
      <3>1. mails' \in [Proofs -> 0 .. MaxMails]
        BY <1>9, <2>0, TimesAssumption DEF NotPublished, Done, TypeOK
      <3> QED
        BY <1>9, <1>h, <3>1 DEF NotPublished, Done, TypeOK, db, check, site
    <2>2. WritersSaw'
      BY <1>9 DEF NotPublished, Done, WritersSaw, TypeOK, check
    <2>3. ProofBacked'
      BY <1>9 DEF NotPublished, Done, ProofBacked, InForce, db
    <2> QED
      BY <2>1, <2>2, <2>3
  <1>10. ASSUME Next, NEW s \in Schedulers, Renew(s) PROVE OwnershipInv'
    <2>0. item[s] \in Proofs /\ sage[s] \in Nat /\ seen[item[s]] <= sage[s]
      BY <1>10 DEF Renew, Done, WritersSaw, TypeOK
    <2>1. TypeOK'
      BY <1>10, <1>h, <2>0, ProveType DEF Renew, Done, TypeOK, check, site
    <2>2. WritersSaw'
      BY <1>10 DEF Renew, Done, WritersSaw, TypeOK, check
    <2>3. ProofBacked'
      BY <1>10, <2>0, ProveBacked DEF Renew
    <2> QED
      BY <2>1, <2>2, <2>3
  <1>11. ASSUME Next, NEW s \in Schedulers, Sleep(s) PROVE OwnershipInv'
    <2>1. TypeOK'
      BY <1>11, <1>h, TimesAssumption DEF Sleep, TypeOK, db, check, site
    <2>2. WritersSaw'
      BY <1>11 DEF Sleep, WritersSaw, TypeOK, check
    <2>3. ProofBacked'
      BY <1>11 DEF Sleep, ProofBacked, InForce, db
    <2> QED
      BY <2>1, <2>2, <2>3
  <1>f. ASSUME Next, NEW s \in Schedulers, RenewalFails(s) PROVE OwnershipInv'
    <2>1. TypeOK'
      BY <1>f, <1>h, TimesAssumption DEF RenewalFails, Done, TypeOK, db, check, site
    <2>2. WritersSaw'
      BY <1>f DEF RenewalFails, Done, WritersSaw, TypeOK, check
    <2>3. ProofBacked'
      BY <1>f DEF RenewalFails, Done, ProofBacked, InForce, db
    <2> QED
      BY <2>1, <2>2, <2>3
  <1>12. ASSUME Next, NEW m \in Methods, NEW v \in Proofs, Publish(m, v) \/ Unpublish(m, v)
         PROVE  OwnershipInv'
    <2>1. TypeOK'
      BY <1>12, <1>h DEF Publish, Unpublish, TypeOK, db, check, sched
    <2>2. WritersSaw'
      BY <1>12 DEF Publish, Unpublish, WritersSaw, check, sched
    <2>3. ProofBacked'
      BY <1>12 DEF Publish, Unpublish, ProofBacked, InForce, db
    <2> QED
      BY <2>1, <2>2, <2>3
  <1>13. ASSUME Next, Pass PROVE OwnershipInv'
    <2>1. TypeOK'
      <3>1. left' \in [Proofs -> 0 .. TTL] /\ seen' \in [Proofs -> 0 .. TTL + 1]
        BY <1>13, TimesAssumption DEF Pass, TypeOK, Clip
      <3>2. cage' \in [Checks -> 0 .. CheckCap]
        BY <1>13, TimesAssumption DEF Pass, TypeOK
      <3>3. sage' \in [Schedulers -> 0 .. Work] /\ sleep' \in [Schedulers -> 0 .. TickLen]
        BY <1>13, TimesAssumption DEF Pass, TypeOK
      <3>4. phase' \in 0 .. Hour - 1
        BY <1>13, TimesAssumption DEF Pass, TypeOK
      <3> QED
        BY <1>13, <1>h, <3>1, <3>2, <3>3, <3>4 DEF Pass, TypeOK
    <2>2. \A v \in Proofs : seen'[v] <= seen[v] + 1
      BY <1>13, TimesAssumption DEF Pass, TypeOK
    <2>3. WritersSaw'
      <3>1. \A c \in Checks : cpc'[c] = "writing" => seen'[crow'[c]] <= cage'[c]
        <4> SUFFICES ASSUME NEW c \in Checks, cpc'[c] = "writing" PROVE seen'[crow'[c]] <= cage'[c]
          OBVIOUS
        <4>1. crow[c] \in Proofs /\ seen[crow[c]] <= cage[c] /\ crow' = crow /\ cpc' = cpc
          BY <1>13 DEF Pass, WritersSaw
        <4>2. cage'[c] = cage[c] + 1
          BY <4>1, <1>13 DEF Pass
        <4>3. cage[c] \in Int /\ seen[crow[c]] \in Int /\ seen'[crow[c]] \in Int
          BY <4>1, <2>1, TimesAssumption DEF TypeOK
        <4> QED
          BY <4>1, <4>2, <4>3, <2>2
      <3>2. \A s \in Schedulers : spc'[s] = "writing" => seen'[item'[s]] <= sage'[s]
        <4> SUFFICES ASSUME NEW s \in Schedulers, spc'[s] = "writing" PROVE seen'[item'[s]] <= sage'[s]
          OBVIOUS
        <4>1. item[s] \in Proofs /\ seen[item[s]] <= sage[s] /\ item' = item /\ spc' = spc
          BY <1>13 DEF Pass, WritersSaw
        <4>2. sage'[s] = sage[s] + 1
          BY <4>1, <1>13 DEF Pass
        <4>3. sage[s] \in Int /\ seen[item[s]] \in Int /\ seen'[item[s]] \in Int
          BY <4>1, <2>1, TimesAssumption DEF TypeOK
        <4> QED
          BY <4>1, <4>2, <4>3, <2>2
      <3> QED
        BY <1>13, <3>1, <3>2 DEF Pass, WritersSaw
    <2>4. ProofBacked'
      BY <1>13, <2>2, TimesAssumption DEF Pass, ProofBacked, InForce, TypeOK, Clip
    <2> QED
      BY <2>1, <2>3, <2>4
  <1>14. CASE UNCHANGED vars
    <2>1. TypeOK'
      BY <1>14 DEF vars, db, check, sched, site, tracks, TypeOK
    <2>2. WritersSaw' /\ ProofBacked'
      BY <1>14 DEF vars, db, check, sched, site, tracks, WritersSaw, ProofBacked, InForce
    <2> QED
      BY <2>1, <2>2
  <1> QED
    BY <1>1, <1>2, <1>3, <1>4, <1>5, <1>6, <1>7, <1>8, <1>9, <1>10, <1>11, <1>f, <1>12, <1>13, <1>14
    DEF Next, Step

\* The gate that create_scan, set_cadence, the scheduler and the worker all read
\* (is_currently_verified) never opens on a proof whose token was not seen within
\* the TTL, in whatever order requests, renewals and the owner's edits happen.
THEOREM OwnershipInvariant == Spec => []OwnershipInv
  <1> QED
    BY InitOwnership, NextOwnership, PTL DEF Spec

\* The same, for the part a reader wants.
THEOREM ProofsAreBacked == Spec => []ProofBacked
  <1>1. OwnershipInv => ProofBacked
    BY DEF OwnershipInv
  <1> QED
    BY OwnershipInvariant, <1>1, PTL
-----------------------------------------------------------------------------
(* Late writes *)

\* Only a verified row has time left, and only a verified row is renewed.
RowInv ==
    /\ \A v \in Proofs : state[v] # "verified" => left[v] = 0
    /\ \A s \in Schedulers : spc[s] \in {"fetching", "writing"} => state[item[s]] = "verified"

\* A step of the owner or of a request before its write: no time passes, no row gains
\* or loses its proof, and the schedulers stay where they are.
Quiet ==
    /\ UNCHANGED <<left, mails, sched, phase>>
    /\ \A v \in Proofs : state'[v] = "verified" <=> state[v] = "verified"

\* A request writes its proof, to a row that is still pending.
Verifies(v, ago) == state[v] = "pending" /\ Prove(v, ago) /\ UNCHANGED <<sched, phase>>

\* Every step is of one of these kinds.
LEMMA StepKinds ==
  ASSUME OwnershipInv, [Next]_vars
  PROVE  \/ Quiet
         \/ \E v \in Proofs, ago \in 0 .. CheckCap : Verifies(v, ago)
         \/ \E s \in Schedulers : Wake(s) \/ StillPublished(s) \/ NotPublished(s) \/ Renew(s) \/ Sleep(s)
         \/ \E s \in Schedulers : RenewalFails(s)
         \/ Pass
  <1>1. ASSUME NEW v \in Proofs, StartVerification(v) PROVE Quiet
    <2>1. \A u \in Proofs : state'[u] = IF u = v THEN "pending" ELSE state[u]
      BY <1>1 DEF StartVerification, OwnershipInv, TypeOK
    <2> QED
      BY <1>1, <2>1 DEF StartVerification, Quiet, sched, site
  <1>2. ASSUME NEW c \in Checks, NEW m \in Methods, CheckBegin(c, m) PROVE Quiet
    BY <1>2 DEF CheckBegin, Quiet, db, sched, site
  <1>3. ASSUME NEW c \in Checks, CheckFound(c) \/ CheckNotYet(c) \/ CheckDrop(c) PROVE Quiet
    BY <1>3 DEF CheckFound, CheckNotYet, CheckDrop, Quiet, db, sched, site
  <1>4. ASSUME NEW c \in Checks, CheckWrite(c)
        PROVE  Quiet \/ \E v \in Proofs, ago \in 0 .. CheckCap : Verifies(v, ago)
    <2>1. crow[c] \in Proofs /\ cage[c] \in 0 .. CheckCap
      BY <1>4 DEF CheckWrite, OwnershipInv, TypeOK, WritersSaw
    <2> QED
      BY <1>4, <2>1 DEF CheckWrite, Quiet, Verifies, sched, site
  <1>5. ASSUME SetCadence PROVE Quiet
    BY <1>5 DEF SetCadence, Quiet, sched, site
  <1>6. ASSUME NEW m \in Methods, NEW v \in Proofs, Publish(m, v) \/ Unpublish(m, v) PROVE Quiet
    BY <1>6 DEF Publish, Unpublish, Quiet, db, sched
  <1>7. ASSUME UNCHANGED vars PROVE Quiet
    BY <1>7 DEF vars, Quiet, db, sched, site
  <1> QED
    BY <1>1, <1>2, <1>3, <1>4, <1>5, <1>6, <1>7 DEF Next, Step

\* The clock within the hour.
LEMMA NextPhase ==
  ASSUME TypeOK, Pass
  PROVE  phase' = IF phase + 1 = Hour THEN 0 ELSE phase + 1
  <1>1. phase \in Nat /\ phase < Hour /\ Hour \in Nat \ {0} /\ phase' = (phase + 1) % Hour
    BY TimesAssumption DEF TypeOK, Pass
  <1>2. CASE phase + 1 = Hour
    <2>1. Hour % Hour = 0
      BY <1>1
    <2> QED
      BY <1>1, <1>2, <2>1
  <1>3. CASE phase + 1 < Hour
    <2>1. (phase + 1) % Hour = phase + 1
      BY <1>1, <1>3
    <2> QED
      BY <1>1, <1>3, <2>1
  <1> QED
    BY <1>1, <1>2, <1>3

\* A row that is verified stays so, and one that is not has no time left.
LEMMA NextRow == OwnershipInv /\ RowInv /\ [Next]_vars => RowInv'
  <1> SUFFICES ASSUME OwnershipInv, RowInv, [Next]_vars PROVE RowInv'
    OBVIOUS
  <1> USE DEF OwnershipInv
  <1>1. ASSUME Quiet PROVE RowInv'
    BY <1>1 DEF Quiet, sched, RowInv, WritersSaw
  <1>2. ASSUME NEW v \in Proofs, NEW ago \in 0 .. CheckCap, Verifies(v, ago) PROVE RowInv'
    BY <1>2 DEF Verifies, Prove, sched, RowInv, WritersSaw, TypeOK
  <1>3. ASSUME NEW s \in Schedulers, Wake(s) PROVE RowInv'
    <2>1. \A t \in Schedulers : spc'[t] \in {"fetching", "writing"} => state[item'[t]] = "verified"
      BY <1>3 DEF Wake, Done, Due, Latest, InForce, RowInv, TypeOK
    <2> QED
      BY <1>3, <2>1 DEF Wake, RowInv, db
  <1>4. ASSUME NEW s \in Schedulers, StillPublished(s) PROVE RowInv'
    BY <1>4 DEF StillPublished, db, RowInv, TypeOK
  <1>5. ASSUME NEW s \in Schedulers, NotPublished(s) \/ RenewalFails(s) PROVE RowInv'
    BY <1>5 DEF NotPublished, RenewalFails, Done, db, RowInv, TypeOK
  <1>6. ASSUME NEW s \in Schedulers, Renew(s) PROVE RowInv'
    BY <1>6 DEF Renew, Prove, Done, RowInv, TypeOK, WritersSaw
  <1>7. ASSUME NEW s \in Schedulers, Sleep(s) PROVE RowInv'
    BY <1>7 DEF Sleep, db, RowInv, TypeOK
  <1>8. ASSUME Pass PROVE RowInv'
    BY <1>8 DEF Pass, Clip, RowInv
  <1> QED
    BY <1>1, <1>2, <1>3, <1>4, <1>5, <1>6, <1>7, <1>8, StepKinds

\* A request that comes back late from the database never moves expires_at back, because
\* its update asks for "verified_at is null"; a renewal writes the clock of its tick's
\* start over whatever another worker wrote meanwhile, and takes back no more than its
\* tick has lasted.  For any number of workers and requests and any delay.
THEOREM ProofsNeverShortened ==
  ASSUME Hour > 1
  PROVE  Spec => NeverShortened
  <1> DEFINE Inv == OwnershipInv /\ RowInv
             Shortens(v) == \/ phase' # phase
                            \/ \E s \in Schedulers : Renews(s, v) /\ left[v] - left'[v] <= sage[s]
  <1>1. Init => Inv
    <2>1. Init => RowInv
      BY DEF Init, RowInv
    <2> QED
      BY <2>1, InitOwnership
  <1>2. Inv /\ [Next]_vars => Inv'
    BY NextOwnership, NextRow
  <1>3. Inv /\ [Next]_vars => [\A v \in Proofs : left'[v] < left[v] => Shortens(v)]_vars
    <2> SUFFICES ASSUME Inv, [Next]_vars, NEW v \in Proofs, left'[v] < left[v] PROVE Shortens(v)
      OBVIOUS
    <2> USE TimesAssumption DEF OwnershipInv
    <2>0. left \in [Proofs -> 0 .. TTL]
      BY DEF TypeOK
    <2>1. ~Quiet
      BY <2>0 DEF Quiet
    <2>2. ASSUME NEW u \in Proofs, NEW ago \in 0 .. CheckCap, Verifies(u, ago) PROVE FALSE
      BY <2>0, <2>2, ClipType DEF Verifies, Prove, RowInv
    <2>3. ASSUME NEW s \in Schedulers, Renew(s) PROVE Shortens(v)
      <3>1. item[s] \in Proofs /\ sage[s] \in Nat
        BY <2>3 DEF Renew, WritersSaw, TypeOK
      <3>2. \A u \in Proofs : left'[u] = IF u = item[s] THEN Clip(TTL - sage[s]) ELSE left[u]
        BY <2>0, <2>3 DEF Renew, Prove
      <3>3. item[s] = v
        BY <2>0, <3>2
      <3>4. Renews(s, v)
        BY <2>3, <3>3 DEF Renews, Renew, Done, TypeOK
      <3>5. left[v] - left'[v] <= sage[s]
        BY <2>0, <3>1, <3>2, <3>3 DEF Clip
      <3> QED
        BY <3>4, <3>5
    <2>4. ASSUME NEW s \in Schedulers,
                 Wake(s) \/ StillPublished(s) \/ NotPublished(s) \/ Sleep(s) \/ RenewalFails(s)
          PROVE  FALSE
      <3>1. left' = left
        BY <2>4 DEF Wake, StillPublished, NotPublished, Sleep, RenewalFails, db
      <3> QED
        BY <2>0, <3>1
    <2>5. ASSUME Pass PROVE phase' # phase
      BY <2>5, NextPhase DEF TypeOK
    <2> QED
      BY <2>1, <2>2, <2>3, <2>4, <2>5, StepKinds
  <1> QED
    BY <1>1, <1>2, <1>3, PTL DEF Spec, NeverShortened
=============================================================================
