------------------------ MODULE TrialReminderProofs ------------------------
(***************************************************************************)
(* The mail relay's promise, the mirrored flag and the reminder's mark, for *)
(* any chain of providers, any workers and requests, any ends of the trial  *)
(* and any number of messages, changes and faults.                          *)
(***************************************************************************)
EXTENDS TrialReminder, TLAPS

\* What the relay's chain has behind it when a message is at its place: whoever came
\* before and has a copy was unclear about it, whoever comes after has none, and the one
\* being asked has one only if it knows the key.
ChainInv(m) ==
    /\ \A p \in Providers : copies[m][p] <= 1
    /\ \A i, j \in DOMAIN Chain : i < j /\ Has(m, Chain[i]) /\ Has(m, Chain[j]) => Chain[i] \in unclear[m]
    /\ Sending(m) =>
         \A i \in DOMAIN Chain :
            Has(m, Chain[i]) =>
               /\ i <= at[m] /\ Chain[i] \in unclear[m]
               /\ i = at[m] => Chain[i] = Keyed

\* A message not yet handed over has left no trace; a send has no result while it runs;
\* one that ended in an error and left a copy had an unclear answer.
SendInv(m) ==
    /\ subject[m] = Nothing => at[m] = 0 /\ result[m] = "none" /\ ~HasAny(m)
    /\ Sending(m) => result[m] = "none"
    /\ result[m] = "sent" => HasAny(m)
    /\ result[m] = "failed" /\ HasAny(m) => unclear[m] # {}

\* What the webhook has fetched is what Stripe has unless another event is on its way, and
\* so is what it wrote, but for a flag mirrored too late.
FlagInv ==
    ~dirty =>
       /\ hook # Nothing => hook = stripe
       /\ hook = Nothing => /\ row.sub.status = stripe.status /\ row.sub.end = stripe.end
                            /\ ~overtaken => row.sub.ending = stripe.ending

\* The row has had the end it has, and every end a message was about.
VisitInv ==
    /\ visits[row.sub.end] >= 1
    /\ \A m \in Messages : subject[m] # Nothing => visits[subject[m]] >= 1

Held(m) == \E w \in Workers : sender[w] = m

\* A worker holds its message alone, from the mark until the send is over.
HolderInv ==
    /\ \A v, w \in Workers : sender[v] = sender[w] /\ sender[v] # Nothing => v = w
    /\ \A m \in Messages :
          /\ Held(m) => subject[m] # Nothing
          /\ Sending(m) => Held(m)
          /\ Held(m) /\ ~Sending(m) => result[m] # "none"

\* A message that reached the owner, may still do so, or whose mark is not taken back yet.
Live(m) == subject[m] # Nothing /\ (Sending(m) \/ Held(m) \/ result[m] # "failed")

\* One live message for each end the row had once, and the row's own end is marked while
\* there is.
MarkInv ==
    /\ \A m, n \in Messages :
          m # n /\ Live(m) /\ Live(n) /\ subject[m] = subject[n] => visits[subject[m]] > 1
    /\ \A m \in Messages :
          Live(m) /\ subject[m] = row.sub.end /\ visits[row.sub.end] = 1 => row.reminded = row.sub.end

ReminderInv ==
    /\ TypeOK
    /\ \A m \in Messages : ChainInv(m) /\ SendInv(m)
    /\ FlagInv /\ VisitInv /\ HolderInv /\ MarkInv /\ MarkMeansSent
-----------------------------------------------------------------------------
(* The relay *)

\* The chain is a non-empty sequence of different providers.
LEMMA ChainFacts ==
  /\ Len(Chain) \in Nat /\ Len(Chain) > 0 /\ DOMAIN Chain = 1 .. Len(Chain)
  /\ \A i \in 1 .. Len(Chain) : Chain[i] \in Providers
  /\ \A p \in Providers : \E i \in 1 .. Len(Chain) : Chain[i] = p
  /\ \A i, j \in 1 .. Len(Chain) : Chain[i] = Chain[j] => i = j
  BY ChainAssumption DEF Providers

\* A fresh message is one of the messages and not used.
LEMMA FreshUnused ==
  ASSUME Unused # {}
  PROVE  Fresh \in Messages /\ subject[Fresh] = Nothing
  <1>1. Fresh \in Unused
    BY DEF Fresh
  <1> QED
    BY <1>1 DEF Unused

\* What one attempt does to its own message: at most one more copy, with the provider it
\* is at; then the send is over, or goes on with the next provider, or asks the keyed one
\* again.
Outcome(m) ==
    LET p == Provider(m) IN
    \/ at'[m] = 0 /\ result'[m] = "sent" /\ copies'[m][p] > 0
    \/ at'[m] = 0 /\ result'[m] = "failed" /\ (copies'[m][p] > 0 => p \in unclear'[m])
    \/ /\ at'[m] = at[m] + 1 /\ result'[m] = result[m]
       /\ copies'[m][p] > 0 => p \in unclear'[m]
    \/ at'[m] = at[m] /\ result'[m] = result[m] /\ p = Keyed /\ p \in unclear'[m]

\* One more copy, or the copy the keyed provider has already.
LEMMA DeliverEffect ==
  ASSUME RelayTypeOK, NEW m \in Messages, NEW p \in Providers, Deliver(m, p),
         copies[m][p] <= 1, copies[m][p] > 0 => p = Keyed
  PROVE  /\ copies' \in [Messages -> [Providers -> 0 .. 2]]
         /\ copies'[m][p] = 1
         /\ \A q \in Providers : q # p => copies'[m][q] = copies[m][q]
         /\ \A n \in Messages : n # m => copies'[n] = copies[n]
  <1> DEFINE c == IF p = Keyed /\ copies[m][p] > 0 THEN copies[m][p] ELSE copies[m][p] + 1
  <1>0. copies \in [Messages -> [Providers -> 0 .. 2]] /\ copies[m] \in [Providers -> 0 .. 2] /\ copies[m][p] \in 0 .. 2
    BY DEF RelayTypeOK
  <1>1. c = 1
    BY <1>0
  <1>2. copies' = [copies EXCEPT ![m] = [copies[m] EXCEPT ![p] = c]]
    BY DEF Deliver
  <1> HIDE DEF c
  <1> QED
    BY <1>0, <1>1, <1>2

\* The next provider, or an error.
LEMMA AdvanceEffect ==
  ASSUME RelayTypeOK, NEW m \in Messages, Sending(m), Advance(m)
  PROVE  /\ at' \in [Messages -> 0 .. Len(Chain)] /\ again' \in [Messages -> BOOLEAN]
         /\ result' \in [Messages -> {"none", "sent", "failed"}]
         /\ \A n \in Messages : n # m => at'[n] = at[n] /\ result'[n] = result[n]
         /\ \/ at'[m] = 0 /\ result'[m] = "failed"
            \/ at'[m] = at[m] + 1 /\ result'[m] = result[m]
  <1>1. CASE at[m] = Len(Chain) /\ End(m, "failed")
    BY <1>1, ChainFacts DEF End, RelayTypeOK
  <1>2. CASE at[m] # Len(Chain) \/ ~End(m, "failed")
    <2>1. /\ at[m] < Len(Chain) /\ at' = [at EXCEPT ![m] = at[m] + 1]
          /\ again' = [again EXCEPT ![m] = FALSE] /\ UNCHANGED result
      BY <1>2 DEF Advance
    <2>2. at[m] \in 0 .. Len(Chain) /\ at[m] + 1 \in 0 .. Len(Chain)
      BY <2>1, ChainFacts DEF RelayTypeOK
    <2> QED
      BY <2>1, <2>2 DEF RelayTypeOK
  <1> QED
    BY <1>1, <1>2

\* An attempt leaves the other messages alone and does to its own what Outcome says.
LEMMA AttemptEffect ==
  ASSUME RelayTypeOK, NEW m \in Messages, ChainInv(m), Attempt(m)
  PROVE  /\ RelayTypeOK' /\ Sending(m) /\ at[m] \in 1 .. Len(Chain) /\ Outcome(m)
         /\ \A n \in Messages : n # m => /\ at'[n] = at[n] /\ result'[n] = result[n]
                                         /\ copies'[n] = copies[n] /\ unclear'[n] = unclear[n]
         /\ \A q \in Providers : q # Provider(m) => copies'[m][q] = copies[m][q]
         /\ copies'[m][Provider(m)] \in {copies[m][Provider(m)], 1}
         /\ unclear[m] \subseteq unclear'[m]
  <1>0. /\ Sending(m) /\ at[m] \in 1 .. Len(Chain) /\ Provider(m) \in Providers
        /\ unclear \in [Messages -> SUBSET Providers]
    BY ChainFacts DEF Attempt, Sent, Rejected, Ambiguous, Conflict, RelayTypeOK, Provider, Sending
  <1>1. copies[m][Provider(m)] <= 1 /\ (copies[m][Provider(m)] > 0 => Provider(m) = Keyed /\ Provider(m) \in unclear[m])
    BY <1>0, ChainFacts DEF ChainInv, Provider, Has
  <1>2. CASE Sent(m)
    <2>1. Deliver(m, Provider(m)) /\ End(m, "sent") /\ UNCHANGED unclear
      BY <1>2 DEF Sent
    <2>2. /\ copies' \in [Messages -> [Providers -> 0 .. 2]]
          /\ copies'[m][Provider(m)] = 1
          /\ \A q \in Providers : q # Provider(m) => copies'[m][q] = copies[m][q]
          /\ \A n \in Messages : n # m => copies'[n] = copies[n]
      BY <1>0, <1>1, <2>1, DeliverEffect
    <2>3. /\ at' \in [Messages -> 0 .. Len(Chain)] /\ again' \in [Messages -> BOOLEAN]
          /\ result' \in [Messages -> {"none", "sent", "failed"}]
          /\ at'[m] = 0 /\ result'[m] = "sent"
          /\ \A n \in Messages : n # m => at'[n] = at[n] /\ result'[n] = result[n]
      BY <2>1, ChainFacts DEF End, RelayTypeOK
    <2> QED
      BY <1>0, <2>1, <2>2, <2>3 DEF Outcome, RelayTypeOK
  <1>3. CASE Rejected(m)
    BY <1>0, <1>1, <1>3, AdvanceEffect DEF Rejected, Outcome, RelayTypeOK
  <1>4. CASE Conflict(m)
    <2>3. /\ at' \in [Messages -> 0 .. Len(Chain)] /\ again' \in [Messages -> BOOLEAN]
          /\ result' \in [Messages -> {"none", "sent", "failed"}]
          /\ at'[m] = 0 /\ result'[m] = "failed"
          /\ \A n \in Messages : n # m => at'[n] = at[n] /\ result'[n] = result[n]
      BY <1>4, ChainFacts DEF Conflict, End, RelayTypeOK
    <2> QED
      BY <1>0, <1>1, <1>4, <2>3 DEF Conflict, Outcome, RelayTypeOK
  <1>5. CASE Ambiguous(m)
    <2>1. /\ copies' \in [Messages -> [Providers -> 0 .. 2]]
          /\ copies'[m][Provider(m)] \in {copies[m][Provider(m)], 1}
          /\ \A q \in Providers : q # Provider(m) => copies'[m][q] = copies[m][q]
          /\ \A n \in Messages : n # m => copies'[n] = copies[n]
      <3>1. CASE Deliver(m, Provider(m))
        BY <1>0, <1>1, <3>1, DeliverEffect
      <3>2. CASE UNCHANGED copies
        BY <3>2 DEF RelayTypeOK
      <3> QED
        BY <1>5, <3>1, <3>2 DEF Ambiguous
    <2>2. /\ unclear' \in [Messages -> SUBSET Providers] /\ unclear'[m] = unclear[m] \union {Provider(m)}
          /\ \A n \in Messages : n # m => unclear'[n] = unclear[n]
      BY <1>0, <1>5 DEF Ambiguous
    <2>3. CASE AskAgain(m)
      <3>1. again' = [again EXCEPT ![m] = TRUE] /\ UNCHANGED <<at, result>> /\ Provider(m) = Keyed
        BY <1>5, <2>3 DEF Ambiguous, NextAfterUnclear, AskAgain
      <3>2. again' \in [Messages -> BOOLEAN]
        BY <3>1 DEF RelayTypeOK
      <3> QED
        BY <1>0, <2>1, <2>2, <3>1, <3>2 DEF Outcome, RelayTypeOK
    <2>4. CASE ~AskAgain(m)
      <3>1. Advance(m)
        BY <1>5, <2>4 DEF Ambiguous, NextAfterUnclear
      <3> QED
        BY <1>0, <2>1, <2>2, <3>1, AdvanceEffect DEF Outcome, RelayTypeOK
    <2> QED
      BY <2>3, <2>4
  <1> QED
    BY <1>2, <1>3, <1>4, <1>5 DEF Attempt

\* An attempt keeps what the relay knows of every message.
LEMMA AttemptKeeps ==
  ASSUME RelayTypeOK, NEW m \in Messages, Attempt(m), UNCHANGED subject,
         \A n \in Messages : ChainInv(n) /\ SendInv(n)
  PROVE  \A n \in Messages : ChainInv(n)' /\ SendInv(n)'
  <1>k. PICK k : k = at[m]
    OBVIOUS
  <1>p. PICK p : p = Provider(m)
    OBVIOUS
  <1>0. ChainInv(m) /\ SendInv(m)
    OBVIOUS
  <1>1. /\ RelayTypeOK' /\ Sending(m) /\ k \in 1 .. Len(Chain) /\ Outcome(m)
        /\ \A n \in Messages : n # m => /\ at'[n] = at[n] /\ result'[n] = result[n]
                                        /\ copies'[n] = copies[n] /\ unclear'[n] = unclear[n]
        /\ \A q \in Providers : q # p => copies'[m][q] = copies[m][q]
        /\ copies'[m][p] \in {copies[m][p], 1}
        /\ unclear[m] \subseteq unclear'[m]
    BY <1>0, <1>k, <1>p, AttemptEffect
  <1>2. p = Chain[k] /\ p \in Providers
    BY <1>1, <1>k, <1>p, ChainFacts DEF Provider
  <1>3. \A q \in Providers : copies[m][q] \in Nat /\ copies'[m][q] \in Nat
    <2>1. copies \in [Messages -> [Providers -> 0 .. 2]] /\ copies' \in [Messages -> [Providers -> 0 .. 2]]
      BY <1>1 DEF RelayTypeOK
    <2> QED
      BY <2>1
  <1>4. ASSUME NEW n \in Messages, n # m
        PROVE  ChainInv(n)' /\ SendInv(n)'
    <2>1. /\ at'[n] = at[n] /\ result'[n] = result[n]
          /\ copies'[n] = copies[n] /\ unclear'[n] = unclear[n] /\ subject' = subject
      BY <1>1, <1>4
    <2> QED
      BY <2>1 DEF ChainInv, SendInv, Has, HasAny, Sending
  <1>5. ChainInv(m)'
    <2>1. \A q \in Providers : copies'[m][q] <= 1
      BY <1>0, <1>1, <1>3 DEF ChainInv
    <2>2. \A i \in 1 .. Len(Chain) : Has(m, Chain[i])' /\ i # k => i < k /\ Chain[i] \in unclear'[m]
      <3> SUFFICES ASSUME NEW i \in 1 .. Len(Chain), Has(m, Chain[i])', i # k
                   PROVE  i < k /\ Chain[i] \in unclear'[m]
        OBVIOUS
      <3>1. Chain[i] # p /\ Chain[i] \in Providers
        BY <1>1, <1>2, ChainFacts
      <3>2. Has(m, Chain[i])
        BY <1>1, <3>1 DEF Has
      <3>3. i <= k /\ Chain[i] \in unclear[m]
        BY <1>0, <1>1, <1>k, <3>2, ChainFacts DEF ChainInv
      <3> QED
        BY <1>1, <3>3
    <2>3. \A i, j \in 1 .. Len(Chain) :
             i < j /\ Has(m, Chain[i])' /\ Has(m, Chain[j])' => Chain[i] \in unclear'[m]
      BY <1>1, <2>2
    <2>4. Sending(m)' =>
             \A i \in 1 .. Len(Chain) :
                Has(m, Chain[i])' => /\ i <= at'[m] /\ Chain[i] \in unclear'[m]
                                     /\ i = at'[m] => Chain[i] = Keyed
      <3> SUFFICES ASSUME Sending(m)', NEW i \in 1 .. Len(Chain), Has(m, Chain[i])'
                   PROVE  /\ i <= at'[m] /\ Chain[i] \in unclear'[m]
                          /\ i = at'[m] => Chain[i] = Keyed
        OBVIOUS
      <3>1. /\ at'[m] = k + 1 \/ (at'[m] = k /\ p = Keyed)
            /\ Has(m, Chain[k])' => Chain[k] \in unclear'[m]
        BY <1>1, <1>2, <1>k, <1>p DEF Outcome, Sending, Has
      <3>2. i <= k /\ Chain[i] \in unclear'[m]
        BY <1>1, <2>2, <3>1
      <3> QED
        BY <1>1, <1>2, <3>1, <3>2
    <2> QED
      BY <2>1, <2>3, <2>4, ChainFacts DEF ChainInv
  <1>6. SendInv(m)'
    <2>1. subject[m] # Nothing /\ subject' = subject /\ result[m] = "none"
      BY <1>0, <1>1 DEF SendInv, Sending
    <2>2. Sending(m)' => result'[m] = "none"
      BY <1>1, <2>1 DEF Outcome, Sending
    <2>3. result'[m] = "sent" => HasAny(m)'
      <3>1. result'[m] = "sent" => copies'[m][p] > 0
        BY <1>1, <2>1, <1>p DEF Outcome
      <3> QED
        BY <1>2, <3>1 DEF HasAny, Has
    <2>4. result'[m] = "failed" /\ HasAny(m)' => unclear'[m] # {}
      <3> SUFFICES ASSUME result'[m] = "failed", NEW q \in Providers, copies'[m][q] > 0
                   PROVE  unclear'[m] # {}
        BY DEF HasAny, Has
      <3>1. CASE q = p
        BY <1>1, <2>1, <3>1, <1>p DEF Outcome
      <3>2. CASE q # p
        <4>1. PICK i \in 1 .. Len(Chain) : Chain[i] = q
          BY ChainFacts
        <4>2. Has(m, Chain[i])
          BY <1>1, <3>2, <4>1 DEF Has
        <4>3. Chain[i] \in unclear[m]
          BY <1>0, <1>1, <4>2, ChainFacts DEF ChainInv
        <4> QED
          BY <1>1, <4>3
      <3> QED
        BY <3>1, <3>2
    <2> QED
      BY <2>1, <2>2, <2>3, <2>4 DEF SendInv
  <1> QED
    BY <1>4, <1>5, <1>6

\* A message that is handed over starts from nothing.
LEMMA HandKeeps ==
  ASSUME RelayTypeOK, NEW e, Post(e), e # Nothing, subject \in [Messages -> Ends \union {Nothing}],
         \A n \in Messages : ChainInv(n) /\ SendInv(n)
  PROVE  /\ RelayTypeOK' /\ \A n \in Messages : ChainInv(n)' /\ SendInv(n)'
         /\ Fresh \in Messages /\ subject[Fresh] = Nothing /\ subject' = [subject EXCEPT ![Fresh] = e]
         /\ at' = [at EXCEPT ![Fresh] = 1] /\ UNCHANGED <<again, result, copies, unclear>>
  <1>f. PICK f : f = Fresh
    OBVIOUS
  <1>1. f \in Messages /\ subject[f] = Nothing
    BY <1>f, FreshUnused DEF Post
  <1>2. /\ subject' = [subject EXCEPT ![f] = e]
        /\ at' = [at EXCEPT ![f] = 1] /\ UNCHANGED <<again, result, copies, unclear>>
    BY <1>f DEF Post, Hand
  <1>3. RelayTypeOK'
    BY <1>1, <1>2, ChainFacts DEF RelayTypeOK
  <1>4. ASSUME NEW n \in Messages, n # f
        PROVE  ChainInv(n)' /\ SendInv(n)'
    <2>1. at'[n] = at[n] /\ subject'[n] = subject[n] /\ UNCHANGED <<result, copies, unclear>>
      BY <1>1, <1>2, <1>4 DEF RelayTypeOK
    <2> QED
      BY <2>1 DEF ChainInv, SendInv, Has, HasAny, Sending
  <1>5. /\ \A q \in Providers : ~Has(f, q)
        /\ UNCHANGED <<result, copies, unclear>> /\ result[f] = "none" /\ subject'[f] # Nothing
    BY <1>1, <1>2 DEF SendInv, HasAny
  <1>6. ChainInv(f)'
    <2>1. \A q \in Providers : copies'[f][q] <= 1 /\ ~Has(f, q)'
      BY <1>1, <1>5 DEF ChainInv, Has
    <2> QED
      BY <2>1, ChainFacts DEF ChainInv
  <1>7. SendInv(f)'
    BY <1>5 DEF SendInv, HasAny, Has
  <1> QED
    BY <1>1, <1>2, <1>3, <1>4, <1>6, <1>7, <1>f

\* A send that is lost with its process leaves what it had done.
LEMMA LoseKeeps ==
  ASSUME RelayTypeOK, NEW m \in Messages, Lose(m), UNCHANGED subject,
         \A n \in Messages : ChainInv(n) /\ SendInv(n)
  PROVE  RelayTypeOK' /\ \A n \in Messages : ChainInv(n)' /\ SendInv(n)'
  <1>1. RelayTypeOK'
    BY ChainFacts DEF RelayTypeOK, Lose
  <1>2. /\ UNCHANGED <<result, copies, unclear, subject>>
        /\ \A n \in Messages : at'[n] \in {at[n], 0}
    BY DEF Lose, RelayTypeOK
  <1> QED
    BY <1>1, <1>2 DEF ChainInv, SendInv, Has, HasAny, Sending
-----------------------------------------------------------------------------
(* Types *)

Requests == [stage : {"idle", "posting", "mirroring", "noticing"}, ending : BOOLEAN, end : Ends]
Rows     == [sub : Subs, reminded : Ends \union {None}]

\* The idle request is a request, and null is no end of a trial.
LEMMA IdleFacts == Idle \in Requests /\ None \notin Ends /\ Ends \subseteq Nat /\ Nothing \notin Ends \union Messages \union Subs
  <1>1. (CHOOSE e \in Ends : TRUE) \in Ends
    BY WindowAssumption
  <1> QED
    BY <1>1, WindowAssumption DEF Idle, Requests, None

\* Whatever the panel does to a request leaves it a request.
LEMMA PanelType ==
  ASSUME TypeOK, NEW p \in Panels, NEW e \in BOOLEAN,
         \/ Leave(p)
         \/ panel' = [panel EXCEPT ![p].stage = "posting", ![p].ending = e]
         \/ panel' = [panel EXCEPT ![p].stage = "mirroring", ![p].end = stripe.end]
         \/ panel' = [panel EXCEPT ![p].stage = "noticing"]
  PROVE  panel' \in [Panels -> Requests]
  <1>0. panel \in [Panels -> Requests] /\ panel[p] \in Requests /\ stripe.end \in Ends
    BY DEF TypeOK, Requests, Subs
  <1>1. CASE Leave(p)
    BY <1>0, <1>1, IdleFacts DEF Leave
  <1>2. CASE panel' = [panel EXCEPT ![p].stage = "posting", ![p].ending = e]
    <2> DEFINE new == [[panel[p] EXCEPT !.stage = "posting"] EXCEPT !.ending = e]
    <2>1. new \in Requests
      BY <1>0 DEF Requests
    <2>2. panel' = [panel EXCEPT ![p] = new]
      BY <1>0, <1>2
    <2> HIDE DEF new
    <2> QED
      BY <1>0, <2>1, <2>2
  <1>3. CASE panel' = [panel EXCEPT ![p].stage = "mirroring", ![p].end = stripe.end]
    <2> DEFINE new == [[panel[p] EXCEPT !.stage = "mirroring"] EXCEPT !.end = stripe.end]
    <2>1. new \in Requests
      BY <1>0 DEF Requests
    <2>2. panel' = [panel EXCEPT ![p] = new]
      BY <1>0, <1>3
    <2> HIDE DEF new
    <2> QED
      BY <1>0, <2>1, <2>2
  <1>4. CASE panel' = [panel EXCEPT ![p].stage = "noticing"]
    <2> DEFINE new == [panel[p] EXCEPT !.stage = "noticing"]
    <2>1. new \in Requests
      BY <1>0 DEF Requests
    <2>2. panel' = [panel EXCEPT ![p] = new]
      BY <1>0, <1>4
    <2> HIDE DEF new
    <2> QED
      BY <1>0, <2>1, <2>2
  <1> QED
    BY <1>1, <1>2, <1>3, <1>4

\* The relay's own facts need nothing but the relay and the subjects.
LEMMA RelayStays ==
  ASSUME RelayTypeOK, \A m \in Messages : ChainInv(m) /\ SendInv(m), UNCHANGED <<relay, subject>>
  PROVE  RelayTypeOK' /\ \A m \in Messages : ChainInv(m)' /\ SendInv(m)'
  BY DEF relay, RelayTypeOK, ChainInv, SendInv, Has, HasAny, Sending

\* Steps that touch only the clock, a request, the notices or the count of faults.
LEMMA QuietKeeps ==
  ASSUME ReminderInv, UNCHANGED <<relay, stripe, changes, dirty, hook, row, sender, subject, abandoned, visits, overtaken>>,
         now' \in 0 .. MaxTime, panel' \in [Panels -> Requests], notices' \subseteq Ends,
         faults' \in 0 .. MaxFaults
  PROVE  ReminderInv'
  <1>1. RelayTypeOK' /\ \A m \in Messages : ChainInv(m)' /\ SendInv(m)'
    BY RelayStays DEF ReminderInv, TypeOK
  <1>2. TypeOK'
    BY <1>1 DEF ReminderInv, TypeOK, Requests
  <1>3. FlagInv' /\ VisitInv'
    BY DEF ReminderInv, FlagInv, VisitInv
  <1>4. HolderInv' /\ MarkInv'
    BY DEF ReminderInv, HolderInv, MarkInv, Held, Live, Sending, relay
  <1>5. MarkMeansSent'
    BY DEF ReminderInv, MarkMeansSent, HasAny, Has, relay
  <1> QED
    BY <1>1, <1>2, <1>3, <1>4, <1>5 DEF ReminderInv

\* A change at Stripe brings an event.
LEMMA ChangedKeeps ==
  ASSUME ReminderInv, NEW s \in Subs, Changed(s), UNCHANGED overtaken,
         panel' \in [Panels -> Requests], faults' \in 0 .. MaxFaults
  PROVE  ReminderInv'
  <1>0. /\ stripe' = s /\ dirty' = TRUE /\ UNCHANGED <<relay, now, hook, row, sender, notices, subject, abandoned, visits>>
        /\ changes < MaxChanges /\ changes' = changes + 1
    BY DEF Changed
  <1>1. RelayTypeOK' /\ \A m \in Messages : ChainInv(m)' /\ SendInv(m)'
    BY <1>0, RelayStays DEF ReminderInv, TypeOK
  <1>2. TypeOK'
    <2>1. changes' \in 0 .. MaxChanges
      BY <1>0, WindowAssumption DEF ReminderInv, TypeOK
    <2> QED
      BY <1>0, <1>1, <2>1 DEF ReminderInv, TypeOK, Requests
  <1>3. FlagInv'
    BY <1>0 DEF FlagInv
  <1>4. VisitInv'
    BY <1>0 DEF ReminderInv, VisitInv
  <1>5. HolderInv' /\ MarkInv'
    BY <1>0 DEF ReminderInv, HolderInv, MarkInv, Held, Live, Sending, relay
  <1>6. MarkMeansSent'
    BY <1>0 DEF ReminderInv, MarkMeansSent, HasAny, Has, relay
  <1> QED
    BY <1>1, <1>2, <1>3, <1>4, <1>5, <1>6 DEF ReminderInv
-----------------------------------------------------------------------------
(* The steps of the webhook, the panel and the workers *)

\* The fetch, the write and the failed delivery.
LEMMA HookKeeps ==
  ASSUME ReminderInv, HookFetch \/ HookWrite \/ HookFails
  PROVE  ReminderInv'
  <1>0. /\ UNCHANGED <<relay, now, stripe, changes, sender, panel, notices, subject, abandoned>>
        /\ RelayTypeOK' /\ \A m \in Messages : ChainInv(m)' /\ SendInv(m)'
    BY RelayStays DEF ReminderInv, TypeOK, HookFetch, HookWrite, HookFails
  <1>t. /\ row \in Rows /\ stripe \in Subs /\ hook \in Subs \union {Nothing} /\ row.sub \in Subs
        /\ row.sub.end \in Nat /\ stripe.end \in Nat /\ (hook # Nothing => hook \in Subs /\ hook.end \in Nat)
        /\ faults \in 0 .. MaxFaults /\ MaxFaults \in Nat
    BY IdleFacts, WindowAssumption DEF ReminderInv, TypeOK, Subs, Rows
  <1>1. CASE HookFetch
    <2>1. hook' = stripe /\ dirty' = FALSE /\ UNCHANGED <<row, faults, visits, overtaken>>
      BY <1>1 DEF HookFetch
    <2>2. TypeOK'
      BY <1>0, <1>t, <2>1 DEF ReminderInv, TypeOK
    <2>3. FlagInv'
      BY <1>0, <1>t, <2>1, IdleFacts DEF FlagInv
    <2>4. VisitInv'
      BY <1>0, <1>t, <2>1 DEF ReminderInv, VisitInv
    <2>5. HolderInv' /\ MarkInv'
      BY <1>0, <2>1 DEF ReminderInv, HolderInv, MarkInv, Held, Live, Sending, relay
    <2>6. MarkMeansSent'
      BY <1>0, <2>1 DEF ReminderInv, MarkMeansSent, HasAny, Has, relay
    <2> QED
      BY <1>0, <2>2, <2>3, <2>4, <2>5, <2>6 DEF ReminderInv
  <1>2. CASE HookWrite
    <2>1. /\ hook # Nothing /\ row' = [row EXCEPT !.sub = hook] /\ hook' = Nothing /\ overtaken' = FALSE
          /\ UNCHANGED <<dirty, faults>>
          /\ visits' = IF hook.end = row.sub.end THEN visits
                       ELSE [visits EXCEPT ![hook.end] = IF visits[hook.end] < 2 THEN visits[hook.end] + 1
                                                         ELSE visits[hook.end]]
      BY <1>2 DEF HookWrite
    <2>2. row' \in Rows /\ row'.sub = hook /\ row'.reminded = row.reminded
      BY <1>t, <2>1 DEF Rows
    <2>v. /\ visits \in [Ends -> 0 .. 2] /\ hook.end \in Ends /\ row.sub.end \in Ends
          /\ \A e \in Ends : visits[e] \in 0 .. 2
      BY <1>t, <2>1 DEF ReminderInv, TypeOK, Subs
    <2>w. /\ visits' \in [Ends -> 0 .. 2]
          /\ \A e \in Ends : visits'[e] \in 0 .. 2 /\ visits'[e] >= visits[e]
          /\ hook.end # row.sub.end => visits'[hook.end] = 2 \/ (visits[hook.end] = 0 /\ visits'[hook.end] = 1)
          /\ visits[hook.end] >= 1 => visits'[hook.end] >= 1
      BY <2>1, <2>v
    <2>3. TypeOK'
      BY <1>0, <1>t, <2>1, <2>2, <2>w DEF ReminderInv, TypeOK, Rows
    <2>4. FlagInv'
      BY <1>0, <2>1, <2>2 DEF ReminderInv, FlagInv
    <2>5. \A m \in Messages : subject[m] # Nothing => subject[m] \in Ends /\ visits[subject[m]] >= 1
      BY DEF ReminderInv, TypeOK, VisitInv
    <2>6. visits'[hook.end] >= 1
      BY <2>1, <2>v, <2>w DEF ReminderInv, VisitInv
    <2>7. VisitInv'
      <3>1. ASSUME NEW m \in Messages, subject[m] # Nothing PROVE visits'[subject[m]] >= 1
        BY <2>5, <2>v, <2>w, <3>1
      <3> QED
        BY <1>0, <2>2, <2>6, <3>1 DEF VisitInv
    <2>8. HolderInv'
      BY <1>0 DEF ReminderInv, HolderInv, Held, Sending, relay
    <2>9. MarkInv'
      <3>1. \A m \in Messages : Live(m)' <=> Live(m)
        BY <1>0 DEF Live, Held, Sending, relay
      <3>2. ASSUME NEW m \in Messages, Live(m), subject[m] = hook.end, visits'[hook.end] = 1
            PROVE  row.reminded = hook.end
        <4>1. visits[hook.end] >= 1 /\ visits[hook.end] \in 0 .. 2
          BY <2>5, <2>v, <3>2 DEF Live
        <4>2. hook.end = row.sub.end
          BY <2>w, <3>2, <4>1
        <4>3. visits[row.sub.end] = 1
          BY <2>1, <3>2, <4>2
        <4> QED
          BY <3>2, <4>2, <4>3 DEF ReminderInv, MarkInv
      <3>3. ASSUME NEW m \in Messages, NEW n \in Messages, m # n, Live(m), Live(n), subject[m] = subject[n]
            PROVE  visits'[subject[m]] > 1
        <4>1. subject[m] \in Ends /\ visits[subject[m]] > 1
          BY <2>5, <3>3 DEF ReminderInv, MarkInv, Live
        <4> QED
          BY <2>v, <2>w, <4>1
      <3> QED
        BY <1>0, <2>2, <3>1, <3>2, <3>3 DEF MarkInv
    <2>10. MarkMeansSent'
      BY <1>0, <2>1, <2>2 DEF ReminderInv, MarkMeansSent, HasAny, Has, relay
    <2> QED
      BY <1>0, <2>3, <2>4, <2>7, <2>8, <2>9, <2>10 DEF ReminderInv
  <1>3. CASE HookFails
    <2>1. /\ hook' = Nothing /\ dirty' = TRUE /\ faults < MaxFaults /\ faults' = faults + 1
          /\ UNCHANGED <<row, visits, overtaken>>
      BY <1>3 DEF HookFails
    <2>2. faults' \in 0 .. MaxFaults
      BY <1>t, <2>1
    <2>3. TypeOK'
      BY <1>0, <2>1, <2>2 DEF ReminderInv, TypeOK
    <2>4. FlagInv' /\ VisitInv'
      BY <1>0, <2>1 DEF ReminderInv, FlagInv, VisitInv
    <2>5. HolderInv' /\ MarkInv'
      BY <1>0, <2>1 DEF ReminderInv, HolderInv, MarkInv, Held, Live, Sending, relay
    <2>6. MarkMeansSent'
      BY <1>0, <2>1 DEF ReminderInv, MarkMeansSent, HasAny, Has, relay
    <2> QED
      BY <1>0, <2>3, <2>4, <2>5, <2>6 DEF ReminderInv
  <1> QED
    BY <1>1, <1>2, <1>3

\* The panel mirrors the flag, and the flag alone.
LEMMA MirrorKeeps ==
  ASSUME ReminderInv, NEW p \in Panels, RecordCancelFlag(p)
  PROVE  ReminderInv'
  <1> DEFINE sub == [row.sub EXCEPT !.ending = panel[p].ending]
  <1>0. /\ UNCHANGED <<relay, now, stripe, changes, dirty, hook, sender, notices, subject, faults, abandoned, visits>>
        /\ RelayTypeOK' /\ \A m \in Messages : ChainInv(m)' /\ SendInv(m)'
    BY RelayStays DEF ReminderInv, TypeOK, RecordCancelFlag
  <1>1. /\ row \in Rows /\ stripe \in Subs /\ row.sub \in Subs /\ panel[p].ending \in BOOLEAN
    BY DEF ReminderInv, TypeOK, Rows
  <1>2. panel' \in [Panels -> Requests]
    BY <1>1, PanelType DEF ReminderInv, RecordCancelFlag
  <1>3. row' = [row EXCEPT !.sub = sub] /\ overtaken' = (stripe.ending # panel[p].ending)
    BY DEF RecordCancelFlag
  <1>4. sub \in Subs /\ sub.status = row.sub.status /\ sub.end = row.sub.end /\ sub.ending = panel[p].ending
    BY <1>1 DEF Subs
  <1> HIDE DEF sub
  <1>5. row' \in Rows /\ row'.sub = sub /\ row'.reminded = row.reminded
    BY <1>1, <1>3, <1>4 DEF Rows
  <1>6. TypeOK'
    BY <1>0, <1>2, <1>3, <1>5 DEF ReminderInv, TypeOK, Rows, Requests
  <1>7. FlagInv'
    BY <1>0, <1>3, <1>4, <1>5 DEF ReminderInv, FlagInv
  <1>8. VisitInv'
    BY <1>0, <1>4, <1>5 DEF ReminderInv, VisitInv
  <1>9. HolderInv' /\ MarkInv'
    BY <1>0, <1>4, <1>5 DEF ReminderInv, HolderInv, MarkInv, Held, Live, Sending, relay
  <1>10. MarkMeansSent'
    BY <1>0, <1>5 DEF ReminderInv, MarkMeansSent, HasAny, Has, relay
  <1> QED
    BY <1>0, <1>6, <1>7, <1>8, <1>9, <1>10 DEF ReminderInv

\* The mark: nobody is sending about this end, or it would be marked already.
LEMMA MarkKeeps ==
  ASSUME ReminderInv, NEW w \in Workers, Mark(w)
  PROVE  ReminderInv'
  <1>f. PICK f : f = Fresh
    OBVIOUS
  <1>e. PICK e : e = row.sub.end
    OBVIOUS
  <1>0. /\ sender[w] = Nothing /\ row' = [row EXCEPT !.reminded = e] /\ Post(e)
        /\ sender' = [sender EXCEPT ![w] = f] /\ row.reminded # e
        /\ UNCHANGED <<now, stripe, changes, dirty, hook, panel, notices, faults, abandoned, visits, overtaken>>
    BY <1>f, <1>e DEF Mark, Due
  <1>1. /\ row \in Rows /\ row.sub \in Subs /\ e \in Ends /\ e # Nothing /\ e \in Nat
        /\ sender \in [Workers -> Messages \union {Nothing}] /\ subject \in [Messages -> Ends \union {Nothing}]
    BY <1>e, IdleFacts DEF ReminderInv, TypeOK, Rows, Subs
  <1>2. /\ RelayTypeOK' /\ \A n \in Messages : ChainInv(n)' /\ SendInv(n)'
        /\ f \in Messages /\ subject[f] = Nothing /\ subject' = [subject EXCEPT ![f] = e]
        /\ at' = [at EXCEPT ![f] = 1] /\ UNCHANGED <<again, result, copies, unclear>>
    BY <1>0, <1>1, <1>f, HandKeeps DEF ReminderInv, TypeOK
  <1>3. row' \in Rows /\ row'.sub = row.sub /\ row'.reminded = e
    BY <1>0, <1>1 DEF Rows
  <1>4. f # Nothing /\ (\A n \in Messages : n # f => at'[n] = at[n] /\ subject'[n] = subject[n])
        /\ at'[f] = 1 /\ subject'[f] = e /\ sender'[w] = f
        /\ \A v \in Workers : v # w => sender'[v] = sender[v]
    BY <1>0, <1>1, <1>2, IdleFacts DEF ReminderInv, TypeOK, RelayTypeOK
  <1>5. TypeOK'
    <2>1. sender' \in [Workers -> Messages \union {Nothing}] /\ subject' \in [Messages -> Ends \union {Nothing}]
      BY <1>0, <1>1, <1>2
    <2> QED
      BY <1>0, <1>2, <1>3, <2>1 DEF ReminderInv, TypeOK, Rows
  <1>6. FlagInv'
    BY <1>0, <1>3 DEF ReminderInv, FlagInv
  <1>7. VisitInv'
    <2>1. visits[e] >= 1
      BY <1>e DEF ReminderInv, VisitInv
    <2>2. \A m \in Messages : subject'[m] # Nothing => visits[subject'[m]] >= 1
      BY <1>4, <2>1 DEF ReminderInv, VisitInv
    <2> QED
      BY <1>0, <1>3, <1>e, <2>1, <2>2 DEF VisitInv
  <1>8. \A v \in Workers : sender[v] # f
    BY <1>2 DEF ReminderInv, HolderInv, Held
  <1>9. \A n \in Messages : n # f => (Held(n)' <=> Held(n)) /\ (Sending(n)' <=> Sending(n)) /\ (Live(n)' <=> Live(n))
    <2> SUFFICES ASSUME NEW n \in Messages, n # f
                 PROVE  (Held(n)' <=> Held(n)) /\ (Sending(n)' <=> Sending(n)) /\ (Live(n)' <=> Live(n))
      OBVIOUS
    <2>1. Held(n)' <=> Held(n)
      <3>1. n # Nothing
        BY IdleFacts
      <3>2. \A v \in Workers : sender'[v] = n <=> sender[v] = n
        BY <1>0, <1>4, <3>1
      <3> QED
        BY <3>2 DEF Held
    <2>2. Sending(n)' <=> Sending(n)
      BY <1>4 DEF Sending
    <2> QED
      BY <1>2, <1>4, <2>1, <2>2 DEF Live
  <1>10. Held(f)' /\ Sending(f)'
    BY <1>4 DEF Held, Sending
  <1>11. HolderInv'
    <2>1. \A u, v \in Workers : sender'[u] = sender'[v] /\ sender'[u] # Nothing => u = v
      BY <1>4, <1>8 DEF ReminderInv, HolderInv
    <2>2. \A m \in Messages :
          /\ Held(m)' => subject'[m] # Nothing
          /\ Sending(m)' => Held(m)'
          /\ Held(m)' /\ ~Sending(m)' => result'[m] # "none"
      BY <1>1, <1>2, <1>4, <1>9, <1>10 DEF ReminderInv, HolderInv
    <2> QED
      BY <2>1, <2>2 DEF HolderInv
  <1>12. MarkInv'
    <2>0. visits[e] \in 0 .. 2 /\ visits[e] >= 1
      BY <1>1, <1>e DEF ReminderInv, TypeOK, VisitInv
    <2>1. \A n \in Messages : n # f /\ Live(n) /\ subject[n] = e => visits[e] > 1
      BY <1>0, <1>e, <2>0 DEF ReminderInv, MarkInv
    <2>2. \A m, n \in Messages :
             m # n /\ Live(m)' /\ Live(n)' /\ subject'[m] = subject'[n] => visits[subject'[m]] > 1
      BY <1>4, <1>9, <2>1 DEF ReminderInv, MarkInv
    <2> QED
      BY <1>0, <1>3, <1>e, <2>2 DEF MarkInv
  <1>13. MarkMeansSent'
    BY <1>3, <1>4 DEF MarkMeansSent
  <1> QED
    BY <1>2, <1>5, <1>6, <1>7, <1>11, <1>12, <1>13 DEF ReminderInv

\* The worker lets go of a message whose send is over: if it failed its own mark goes, and
\* nobody else is live about that end; if it was sent the mark stands for it.
LEMMA FinishKeeps ==
  ASSUME ReminderInv, NEW w \in Workers, Finish(w)
  PROVE  ReminderInv'
  <1>m. PICK m : m = sender[w]
    OBVIOUS
  <1>0. /\ m # Nothing /\ ~Sending(m) /\ row' = Returned(w) /\ sender' = [sender EXCEPT ![w] = Nothing]
        /\ UNCHANGED <<relay, now, stripe, changes, dirty, hook, panel, notices, subject, faults, abandoned, visits, overtaken>>
    BY <1>m DEF Finish
  <1>1. /\ row \in Rows /\ row.sub \in Subs /\ m \in Messages
        /\ sender \in [Workers -> Messages \union {Nothing}] /\ result \in [Messages -> {"none", "sent", "failed"}]
    BY <1>0, <1>m DEF ReminderInv, TypeOK, RelayTypeOK, Rows
  <1>2. RelayTypeOK' /\ \A n \in Messages : ChainInv(n)' /\ SendInv(n)'
    BY <1>0, RelayStays DEF ReminderInv, TypeOK
  <1>3. /\ row' \in Rows /\ row'.sub = row.sub
        /\ IF result[m] = "failed" /\ row.reminded = subject[m] THEN row'.reminded = None
                                                                ELSE row' = row
    BY <1>0, <1>1, <1>m DEF Returned, Rows
  <1>4. /\ sender'[w] = Nothing /\ sender' \in [Workers -> Messages \union {Nothing}]
        /\ \A v \in Workers : v # w => sender'[v] = sender[v]
    BY <1>0, <1>1
  <1>5. Held(m) /\ subject[m] # Nothing /\ result[m] \in {"sent", "failed"} /\ Live(m)
    <2>1. Held(m)
      BY <1>m DEF Held
    <2>2. subject[m] # Nothing /\ result[m] # "none"
      BY <1>0, <1>1, <2>1 DEF ReminderInv, HolderInv
    <2> QED
      BY <1>1, <2>1, <2>2 DEF Live
  <1>6. /\ ~Held(m)'
        /\ \A n \in Messages : n # m => (Held(n)' <=> Held(n))
    <2>1. \A v \in Workers : v # w => sender[v] # m
      BY <1>0, <1>m DEF ReminderInv, HolderInv
    <2>2. \A n \in Messages : n # Nothing
      BY IdleFacts
    <2> QED
      BY <1>0, <1>1, <1>4, <1>m, <2>1, <2>2 DEF Held
  <1>7. /\ UNCHANGED <<at, result, copies, subject, abandoned, visits>>
        /\ \A n \in Messages : (Sending(n)' <=> Sending(n)) /\ (HasAny(n)' <=> HasAny(n))
    BY <1>0 DEF relay, Sending, HasAny, Has
  <1>8. TypeOK'
    BY <1>0, <1>2, <1>3, <1>4 DEF ReminderInv, TypeOK, Rows
  <1>9. FlagInv' /\ VisitInv'
    BY <1>0, <1>3 DEF ReminderInv, FlagInv, VisitInv
  <1>10. HolderInv'
    <2>1. \A u, v \in Workers : sender'[u] = sender'[v] /\ sender'[u] # Nothing => u = v
      BY <1>4 DEF ReminderInv, HolderInv
    <2> QED
      BY <1>0, <1>6, <1>7, <2>1 DEF ReminderInv, HolderInv
  <1>11. MarkInv'
    <2>1. \A n \in Messages : Live(n)' => Live(n)
      BY <1>5, <1>6, <1>7 DEF Live
    <2>2. \A n, o \in Messages :
             n # o /\ Live(n)' /\ Live(o)' /\ subject'[n] = subject'[o] => visits[subject'[n]] > 1
      BY <1>7, <2>1 DEF ReminderInv, MarkInv
    <2>3. ASSUME NEW n \in Messages, Live(n)', subject[n] = row.sub.end, visits[row.sub.end] = 1
          PROVE  row'.reminded = row.sub.end
      <3>1. row.reminded = row.sub.end
        BY <2>1, <2>3 DEF ReminderInv, MarkInv
      <3>2. CASE result[m] = "failed" /\ row.reminded = subject[m]
        <4>1. n # m
          BY <1>0, <1>6, <1>7, <2>3, <3>2 DEF Live
        <4>2. visits[subject[m]] > 1
          BY <1>1, <1>5, <2>1, <2>3, <3>1, <3>2, <4>1 DEF ReminderInv, MarkInv
        <4> QED
          BY <2>3, <3>1, <3>2, <4>2
      <3> QED
        BY <1>3, <3>1, <3>2
    <2> QED
      BY <1>3, <1>7, <2>2, <2>3 DEF MarkInv
  <1>12. MarkMeansSent'
    <2> SUFFICES ASSUME row'.reminded # None
                 PROVE  \/ \E v \in Workers : sender'[v] # Nothing /\ subject'[sender'[v]] = row'.reminded
                        \/ \E n \in Messages : subject'[n] = row'.reminded /\ result'[n] = "sent" /\ HasAny(n)'
                        \/ \E n \in abandoned' : subject'[n] = row'.reminded
      BY DEF MarkMeansSent
    <2>1. row' = row /\ (subject[m] = row.reminded => result[m] = "sent")
      BY <1>3, <1>5
    <2>2. CASE \E n \in Messages : subject[n] = row.reminded /\ result[n] = "sent" /\ HasAny(n)
      BY <1>7, <2>1, <2>2
    <2>3. CASE \E v \in Workers : sender[v] # Nothing /\ subject[sender[v]] = row.reminded
      <3>1. PICK v \in Workers : sender[v] # Nothing /\ subject[sender[v]] = row.reminded
        BY <2>3
      <3>2. CASE v = w
        <4>1. result[m] = "sent" /\ subject[m] = row.reminded /\ HasAny(m)
          BY <1>1, <1>m, <2>1, <3>1, <3>2 DEF ReminderInv, SendInv
        <4> QED
          BY <1>1, <2>2, <4>1
      <3>3. CASE v # w
        BY <1>4, <1>7, <2>1, <3>1, <3>3
      <3> QED
        BY <3>2, <3>3
    <2>4. CASE \E n \in abandoned : subject[n] = row.reminded
      BY <1>7, <2>1, <2>4
    <2> QED
      BY <1>7, <2>1, <2>2, <2>3, <2>4 DEF ReminderInv, MarkMeansSent
  <1> QED
    BY <1>2, <1>8, <1>9, <1>10, <1>11, <1>12 DEF ReminderInv

\* A worker that dies leaves its mark and whatever its message became.
LEMMA CrashKeeps ==
  ASSUME ReminderInv, NEW w \in Workers, Crash(w)
  PROVE  ReminderInv'
  <1>m. PICK m : m = sender[w]
    OBVIOUS
  <1>0. /\ m # Nothing /\ Lose(m) /\ sender' = [sender EXCEPT ![w] = Nothing]
        /\ faults < MaxFaults /\ faults' = faults + 1
        /\ abandoned' = abandoned \union {m}
        /\ UNCHANGED <<now, stripe, changes, dirty, hook, row, panel, notices, subject, visits, overtaken>>
    BY <1>m DEF Crash
  <1>1. /\ m \in Messages /\ sender \in [Workers -> Messages \union {Nothing}]
        /\ at \in [Messages -> 0 .. Len(Chain)]
    BY <1>0, <1>m DEF ReminderInv, TypeOK, RelayTypeOK
  <1>2. RelayTypeOK' /\ \A n \in Messages : ChainInv(n)' /\ SendInv(n)'
    BY <1>0, <1>1, LoseKeeps DEF ReminderInv, TypeOK
  <1>3. faults' \in 0 .. MaxFaults
    BY <1>0, WindowAssumption DEF ReminderInv, TypeOK
  <1>4. /\ sender'[w] = Nothing /\ sender' \in [Workers -> Messages \union {Nothing}]
        /\ \A v \in Workers : v # w => sender'[v] = sender[v]
        /\ at'[m] = 0 /\ \A n \in Messages : n # m => at'[n] = at[n]
        /\ UNCHANGED <<result, copies, subject>>
    BY <1>0, <1>1 DEF Lose
  <1>5. /\ ~Held(m)'
        /\ \A n \in Messages : n # m => (Held(n)' <=> Held(n))
    <2>1. \A v \in Workers : v # w => sender[v] # m
      BY <1>0, <1>m DEF ReminderInv, HolderInv
    <2>2. \A n \in Messages : n # Nothing
      BY IdleFacts
    <2> QED
      BY <1>0, <1>1, <1>4, <1>m, <2>1, <2>2 DEF Held
  <1>6. TypeOK'
    BY <1>0, <1>1, <1>2, <1>3, <1>4 DEF ReminderInv, TypeOK
  <1>7. FlagInv' /\ VisitInv'
    BY <1>0 DEF ReminderInv, FlagInv, VisitInv
  <1>10. MarkMeansSent'
    <2> SUFFICES ASSUME row.reminded # None
                 PROVE  \/ \E v \in Workers : sender'[v] # Nothing /\ subject'[sender'[v]] = row.reminded
                        \/ \E n \in Messages : subject'[n] = row.reminded /\ result'[n] = "sent" /\ HasAny(n)'
                        \/ \E n \in abandoned' : subject'[n] = row.reminded
      BY <1>0 DEF MarkMeansSent
    <2>1. CASE \E v \in Workers : sender[v] # Nothing /\ subject[sender[v]] = row.reminded
      <3>1. PICK v \in Workers : sender[v] # Nothing /\ subject[sender[v]] = row.reminded
        BY <2>1
      <3>2. CASE v = w
        BY <1>0, <1>4, <1>m, <3>1, <3>2
      <3>3. CASE v # w
        BY <1>4, <3>1, <3>3
      <3> QED
        BY <3>2, <3>3
    <2>2. CASE \E n \in Messages : subject[n] = row.reminded /\ result[n] = "sent" /\ HasAny(n)
      BY <1>4, <2>2 DEF HasAny, Has
    <2>3. CASE \E n \in abandoned : subject[n] = row.reminded
      BY <1>0, <1>4, <2>3
    <2> QED
      BY <2>1, <2>2, <2>3 DEF ReminderInv, MarkMeansSent
  <1>8. HolderInv'
    <2>1. \A u, v \in Workers : sender'[u] = sender'[v] /\ sender'[u] # Nothing => u = v
      BY <1>4 DEF ReminderInv, HolderInv
    <2> QED
      BY <1>4, <1>5, <2>1 DEF ReminderInv, HolderInv, Sending
  <1>9. MarkInv'
    <2>1. \A n \in Messages : Live(n)' => Live(n)
      BY <1>4, <1>5 DEF Live, Sending
    <2> QED
      BY <1>0, <2>1 DEF ReminderInv, MarkInv
  <1> QED
    BY <1>2, <1>6, <1>7, <1>8, <1>9, <1>10 DEF ReminderInv

\* An attempt settles a message or carries it on, and wakes up none.
LEMMA AttemptStepKeeps ==
  ASSUME ReminderInv, NEW m \in Messages, AttemptStep(m)
  PROVE  ReminderInv'
  <1>0. /\ Attempt(m) /\ RelayTypeOK /\ ChainInv(m)
        /\ UNCHANGED <<now, stripe, changes, dirty, hook, row, sender, panel, notices, subject, faults, abandoned, visits, overtaken>>
    BY DEF AttemptStep, Elsewhere, ReminderInv, TypeOK
  <1>1. /\ RelayTypeOK' /\ Sending(m) /\ at[m] \in 1 .. Len(Chain) /\ Outcome(m)
        /\ \A n \in Messages : n # m => /\ at'[n] = at[n] /\ result'[n] = result[n]
                                        /\ copies'[n] = copies[n] /\ unclear'[n] = unclear[n]
    BY <1>0, AttemptEffect
  <1>2. \A n \in Messages : ChainInv(n)' /\ SendInv(n)'
    BY <1>0, AttemptKeeps DEF ReminderInv
  <1>3. \A n \in Messages : Held(n)' <=> Held(n)
    BY <1>0 DEF Held
  <1>4. ~Sending(m)' => result'[m] # "none"
    BY <1>1, ChainFacts DEF Outcome, Sending
  <1>5. TypeOK'
    BY <1>0, <1>1 DEF ReminderInv, TypeOK
  <1>6. FlagInv' /\ VisitInv'
    BY <1>0 DEF ReminderInv, FlagInv, VisitInv
  <1>7. HolderInv'
    <2>1. \A n \in Messages : Sending(n)' => Sending(n)
      BY <1>1 DEF Sending
    <2>2. \A n \in Messages :
             /\ Held(n)' => subject'[n] # Nothing
             /\ Sending(n)' => Held(n)'
             /\ Held(n)' /\ ~Sending(n)' => result'[n] # "none"
      BY <1>0, <1>1, <1>3, <1>4, <2>1 DEF ReminderInv, HolderInv, Sending
    <2> QED
      BY <1>0, <2>2 DEF ReminderInv, HolderInv
  <1>8. MarkInv'
    <2>1. \A n \in Messages : Live(n)' => Live(n)
      BY <1>0, <1>1, <1>3 DEF Live, Sending
    <2> QED
      BY <1>0, <2>1 DEF ReminderInv, MarkInv
  <1>9. MarkMeansSent'
    <2>1. \A n \in Messages : result[n] = "sent" /\ HasAny(n) => result'[n] = "sent" /\ HasAny(n)'
      <3>1. result[m] = "none"
        BY <1>1 DEF ReminderInv, SendInv
      <3> QED
        BY <1>1, <3>1 DEF HasAny, Has
    <2> QED
      BY <1>0, <2>1 DEF ReminderInv, MarkMeansSent
  <1> QED
    BY <1>1, <1>2, <1>5, <1>6, <1>7, <1>8, <1>9 DEF ReminderInv
-----------------------------------------------------------------------------
(* The theorems *)

\* Nothing is sent yet, and the row is what Stripe has.
LEMMA ReminderStart == Init => ReminderInv
  <1> SUFFICES ASSUME Init PROVE ReminderInv
    OBVIOUS
  <1>0. PICK e \in Ends : stripe = [status |-> "trialing", ending |-> FALSE, end |-> e]
    BY DEF Init
  <1>1. /\ stripe \in Subs /\ stripe.end \in Nat /\ row = [sub |-> stripe, reminded |-> None]
        /\ row.sub = stripe /\ row.reminded = None /\ row \in Rows
    BY <1>0, IdleFacts DEF Init, Subs, Rows
  <1>2. RelayTypeOK /\ \A m \in Messages : ChainInv(m) /\ SendInv(m)
    <2>1. RelayTypeOK
      BY ChainFacts DEF Init, RelayInit, RelayTypeOK
    <2>2. \A m \in Messages : at[m] = 0 /\ result[m] = "none" /\ (\A p \in Providers : copies[m][p] = 0)
      BY DEF Init, RelayInit
    <2>3. \A m \in Messages : ~HasAny(m) /\ \A i \in DOMAIN Chain : ~Has(m, Chain[i])
      BY <2>2, ChainFacts DEF HasAny, Has
    <2> QED
      BY <2>1, <2>2, <2>3 DEF ChainInv, SendInv, Sending
  <1>3. TypeOK
    <2>1. panel \in [Panels -> Requests]
      BY IdleFacts DEF Init
    <2>n. MaxTime \in Nat /\ MaxChanges \in Nat /\ MaxFaults \in Nat
      BY WindowAssumption
    <2>m. now = 0 /\ changes = 0 /\ faults = 0
      BY DEF Init
    <2>2. now \in 0 .. MaxTime /\ changes \in 0 .. MaxChanges /\ faults \in 0 .. MaxFaults
      BY <2>n, <2>m
    <2>4. /\ dirty \in BOOLEAN /\ overtaken \in BOOLEAN /\ hook \in Subs \union {Nothing} /\ notices \subseteq Ends
      BY Zenon DEF Init
    <2>5. visits \in [Ends -> 0 .. 2] /\ abandoned \subseteq Messages
      BY DEF Init
    <2>3. /\ sender \in [Workers -> Messages \union {Nothing}]
          /\ subject \in [Messages -> Ends \union {Nothing}]
      BY DEF Init
    <2> QED
      BY <1>1, <1>2, <2>1, <2>2, <2>3, <2>4, <2>5 DEF TypeOK, Rows, Requests
  <1>4. FlagInv /\ MarkMeansSent
    BY <1>1 DEF Init, FlagInv, MarkMeansSent
  <1>5. VisitInv
    BY <1>1 DEF Init, VisitInv, Subs
  <1>6. HolderInv
    BY IdleFacts DEF Init, RelayInit, HolderInv, Held, Sending
  <1>7. MarkInv
    BY DEF Init, MarkInv, Live
  <1> QED
    BY <1>2, <1>3, <1>4, <1>5, <1>6, <1>7 DEF ReminderInv

\* Every step keeps the invariant.
LEMMA ReminderStep == ReminderInv /\ [Next]_vars => ReminderInv'
  <1> SUFFICES ASSUME ReminderInv, [Next]_vars PROVE ReminderInv'
    OBVIOUS
  <1>t. /\ stripe \in Subs /\ stripe.end \in Nat /\ now \in 0 .. MaxTime /\ panel \in [Panels -> Requests]
        /\ notices \subseteq Ends /\ faults \in 0 .. MaxFaults /\ MaxFaults \in Nat /\ MaxTime \in Nat
        /\ \A p \in Panels : panel[p].ending \in BOOLEAN /\ panel[p].end \in Ends
        /\ TypeOK
    BY IdleFacts, WindowAssumption DEF ReminderInv, TypeOK, Subs, Requests
  <1>1. CASE Tick
    <2>1. now' \in 0 .. MaxTime
      BY <1>t, <1>1 DEF Tick
    <2> QED
      BY <1>t, <1>1, <2>1, QuietKeeps DEF Tick
  <1>2. CASE Portal
    <2>1. PICK s : s = [stripe EXCEPT !.ending = ~stripe.ending]
      OBVIOUS
    <2>2. s \in Subs
      BY <1>t, <2>1 DEF Subs
    <2>3. Changed(s) /\ UNCHANGED <<panel, faults, overtaken>>
      BY <1>2, <2>1 DEF Portal
    <2> QED
      BY <1>t, <2>2, <2>3, ChangedKeeps
  <1>3. CASE TrialEnds
    <2>1. PICK s : s = [stripe EXCEPT !.status = "over"]
      OBVIOUS
    <2>2. s \in Subs
      BY <1>t, <2>1 DEF Subs
    <2>3. Changed(s) /\ UNCHANGED <<panel, faults, overtaken>>
      BY <1>3, <2>1 DEF TrialEnds
    <2> QED
      BY <1>t, <2>2, <2>3, ChangedKeeps
  <1>4. ASSUME NEW e \in Ends, Move(e) PROVE ReminderInv'
    <2>1. PICK s : s = [stripe EXCEPT !.end = e]
      OBVIOUS
    <2>2. s \in Subs
      BY <1>t, <1>4, <2>1 DEF Subs, Move
    <2>3. Changed(s) /\ UNCHANGED <<panel, faults, overtaken>>
      BY <1>4, <2>1 DEF Move
    <2> QED
      BY <1>t, <2>2, <2>3, ChangedKeeps
  <1>5. CASE HookFetch \/ HookWrite \/ HookFails
    BY <1>5, HookKeeps
  <1>6. ASSUME NEW w \in Workers, Mark(w) \/ Finish(w) \/ Crash(w) PROVE ReminderInv'
    BY <1>6, MarkKeeps, FinishKeeps, CrashKeeps
  <1>7. ASSUME NEW p \in Panels, PanelPost(p) PROVE ReminderInv'
    <2>1. PICK s : s = [stripe EXCEPT !.ending = panel[p].ending]
      OBVIOUS
    <2>2. s \in Subs
      BY <1>t, <2>1 DEF Subs
    <2>3. Changed(s) /\ UNCHANGED overtaken
      BY <1>7, <2>1 DEF PanelPost
    <2>4. panel' \in [Panels -> Requests]
      BY <1>t, <1>7, PanelType DEF PanelPost
    <2>5. faults' = faults \/ (faults < MaxFaults /\ faults' = faults + 1)
      BY <1>7 DEF PanelPost
    <2>6. faults' \in 0 .. MaxFaults
      BY <1>t, <2>5
    <2> QED
      BY <1>t, <2>2, <2>3, <2>4, <2>6, ChangedKeeps
  <1>8. ASSUME NEW p \in Panels, PanelRefused(p) \/ NotifyOwner(p) \/ PanelFails(p) PROVE ReminderInv'
    <2>1. Leave(p) /\ UNCHANGED <<relay, now, stripe, changes, dirty, hook, row, sender, subject, abandoned, visits, overtaken>>
      BY <1>8 DEF PanelRefused, NotifyOwner, PanelFails
    <2>2. panel' \in [Panels -> Requests]
      BY <1>t, <2>1, PanelType
    <2>3. notices' \subseteq Ends
      BY <1>t, <1>8 DEF PanelRefused, NotifyOwner, PanelFails
    <2>4. faults' = faults \/ (faults < MaxFaults /\ faults' = faults + 1)
      BY <1>8 DEF PanelRefused, NotifyOwner, PanelFails
    <2>5. faults' \in 0 .. MaxFaults
      BY <1>t, <2>4
    <2> QED
      BY <1>t, <2>1, <2>2, <2>3, <2>5, QuietKeeps
  <1>9. ASSUME NEW p \in Panels, RecordCancelFlag(p) PROVE ReminderInv'
    BY <1>9, MirrorKeeps
  <1>10. ASSUME NEW p \in Panels, NEW ending \in BOOLEAN, PanelRead(p, ending) PROVE ReminderInv'
    <2>1. panel' \in [Panels -> Requests]
      BY <1>t, <1>10, PanelType DEF PanelRead
    <2> QED
      BY <1>t, <1>10, <2>1, QuietKeeps DEF PanelRead
  <1>11. ASSUME NEW m \in Messages, AttemptStep(m) PROVE ReminderInv'
    BY <1>11, AttemptStepKeeps
  <1>12. CASE UNCHANGED vars
    BY <1>t, <1>12, QuietKeeps DEF vars
  <1> QED
    BY <1>1, <1>2, <1>3, <1>4, <1>5, <1>6, <1>7, <1>8, <1>9, <1>10, <1>11, <1>12 DEF Next

\* The inductive invariant, type correctness included.
THEOREM ReminderSafe == Spec => []ReminderInv
  BY ReminderStart, ReminderStep, PTL DEF Spec

\* deliver's promise: no provider sends a message twice, and two providers have it only
\* where the answers of all but the last were unclear.
THEOREM CopiesBounded == Spec => []OneCopy
  <1>1. ReminderInv => OneCopy
    <2> SUFFICES ASSUME ReminderInv, NEW m \in Messages
                 PROVE  /\ \A p \in Providers : copies[m][p] <= 1
                        /\ \A i, j \in DOMAIN Chain :
                             i < j /\ Has(m, Chain[i]) /\ (Has(m, Chain[j]) \/ at[m] = j) => Chain[i] \in unclear[m]
      BY DEF OneCopy
    <2>1. ChainInv(m)
      BY DEF ReminderInv
    <2>2. \A i, j \in DOMAIN Chain : i < j /\ Has(m, Chain[i]) /\ at[m] = j => Chain[i] \in unclear[m]
      BY <2>1, ChainFacts DEF ChainInv, Sending
    <2> QED
      BY <2>1, <2>2 DEF ChainInv
  <1> QED
    BY <1>1, ReminderSafe, PTL

\* The row follows Stripe in whatever order the webhook and the panel write it.
THEOREM RowHasStripesFlag == Spec => []FlagFollowsStripe
  <1>1. ReminderInv => FlagFollowsStripe
    <2> SUFFICES ASSUME ReminderInv, ~dirty, hook = Nothing, ~overtaken PROVE row.sub = stripe
      BY DEF FlagFollowsStripe
    <2>1. row.sub \in Subs /\ stripe \in Subs
      BY DEF ReminderInv, TypeOK
    <2>2. row.sub.status = stripe.status /\ row.sub.end = stripe.end /\ row.sub.ending = stripe.ending
      BY DEF ReminderInv, FlagInv
    <2> QED
      BY <2>1, <2>2 DEF Subs
  <1> QED
    BY <1>1, ReminderSafe, PTL

\* A mark stands for one reminder: two workers never send the same one, and a mark nobody
\* acts on is a message a provider took, or one whose worker died.
THEOREM ReminderOnce == Spec => []RemindedOnce
  <1>1. ReminderInv => RemindedOnce
    <2> SUFFICES ASSUME ReminderInv, NEW m \in Messages, NEW n \in Messages,
                        m # n, subject[m] = subject[n], HasAny(m), HasAny(n), ~(visits[subject[m]] > 1)
                 PROVE  \E x \in {m, n} : ~Sending(x) /\ result[x] = "failed" /\ unclear[x] # {}
      BY DEF RemindedOnce, OneReminder, ReminderInv
    <2>1. subject[m] # Nothing /\ subject[n] # Nothing
      BY DEF ReminderInv, SendInv
    <2>2. PICK x \in {m, n} : ~Live(x)
      BY DEF ReminderInv, MarkInv
    <2>3. ~Sending(x) /\ result[x] = "failed"
      BY <2>1, <2>2 DEF Live
    <2>4. unclear[x] # {}
      BY <2>3 DEF ReminderInv, SendInv
    <2> QED
      BY <2>3, <2>4
  <1> QED
    BY <1>1, ReminderSafe, PTL
=============================================================================
