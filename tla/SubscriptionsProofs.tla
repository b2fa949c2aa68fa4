------------------------ MODULE SubscriptionsProofs ------------------------
(***************************************************************************)
(* The webhook for any number of accounts, checkouts, deliveries, changes  *)
(* at Stripe and failures.  The lock, the disputes and the trial claims    *)
(* need no assumption on who buys what.  That the row follows Stripe and   *)
(* that no account is left with two subscriptions needs the lock to cover  *)
(* an account, which is what Apart says.                                   *)
(***************************************************************************)
EXTENDS Subscriptions, TLAPS

-----------------------------------------------------------------------------
(* Steps, value by value *)

\* The fields of a handler that takes no part in a step.
Others(h) ==
    \A g \in Handlers : g # h =>
       /\ pc'[g] = pc[g] /\ sub'[g] = sub[g] /\ kind'[g] = kind[g]
       /\ seen'[g] = seen[g] /\ prev'[g] = prev[g] /\ outcome'[g] = outcome[g]

\* A handler goes on to another stage of the same event.
Moves(h, to) == pc'[h] = to /\ sub'[h] = sub[h] /\ kind'[h] = kind[h] /\ Others(h)

HandlerType ==
    /\ pc \in [Handlers -> Locked \union {"idle", "received", "completing"}]
    /\ sub \in [Handlers -> Subs \union {NoSub}]
    /\ kind \in [Handlers -> Kinds]
    /\ seen \in [Handlers -> Copies]
    /\ prev \in [Handlers -> Rows]
    /\ outcome \in [Handlers -> {"none", "open", "won", "lost"}]

StripeType ==
    /\ session \in [Subs -> {"none", "asking", "open", "complete"}]
    /\ customer \in [Subs -> Customers \union {NoCustomer}]
    /\ status \in [Subs -> Statuses]
    /\ carded \in [Subs -> BOOLEAN] /\ charged \in [Subs -> BOOLEAN]
    /\ dispute \in [Subs -> {"none", "open", "won", "lost"}]
    /\ mark \in [Subs -> BOOLEAN]
    /\ event \in [Subs -> [Kinds -> {"unsent", "open", "done"}]]

RowsType ==
    /\ row \in [Users -> Rows]
    /\ claim \in [Subs -> {"none", "claimed", "carded"}]
    /\ cadence \in [Users -> {"manual", "set", "late"}]
    /\ setting \subseteq Users
    /\ faults \in 0 .. MaxFaults
    /\ welcomes \in [Users -> 0 .. 2]

\* The type invariant, in three parts.
LEMMA TypeParts ==
  /\ TypeOK => HandlerType /\ StripeType /\ RowsType
  /\ HandlerType' /\ StripeType' /\ RowsType' => TypeOK'
  BY DEF TypeOK, HandlerType, StripeType, RowsType

\* The names of the events that no bound counts.
LEMMA KindFacts ==
  /\ "checkout" \in Kinds /\ "created" \in Kinds /\ "deleted" \in Kinds /\ "held" \in Kinds
  /\ "released" \in Kinds /\ "opened" \in Kinds /\ "closed" \in Kinds
  /\ Changes \subseteq Kinds
  /\ \A k \in Changes : k \notin {"checkout", "created", "deleted", "held", "released", "opened", "closed"}
  BY SubsAssumption DEF Kinds, NamedKinds, DisputeKinds

\* The empty copy and the empty row are a copy and a row.
LEMMA Blank == NoCopy \in Copies /\ NoRow \in Rows
  BY DEF NoCopy, NoRow, Copies, Rows, Statuses, Reasons, Customers

\* A subscription as it is read back.
LEMMA CopyType ==
  ASSUME StripeType, NEW s \in Subs
  PROVE  /\ Copy(s) \in Copies /\ Copy(s).status = status[s] /\ Copy(s).carded = carded[s]
         /\ Copy(s).charged = charged[s] /\ Copy(s).mark = mark[s]
  BY DEF StripeType, Copy, Copies

\* What Send does to every event.
LEMMA SendDoes ==
  ASSUME StripeType, NEW s \in Subs, NEW K \in SUBSET Kinds, Send(s, K)
  PROVE  /\ event' \in [Subs -> [Kinds -> {"unsent", "open", "done"}]]
         /\ \A t \in Subs, k \in Kinds : event'[t][k] = IF t = s /\ k \in K THEN "open" ELSE event[t][k]
  <1> DEFINE new == [k \in Kinds |-> IF k \in K THEN "open" ELSE event[s][k]]
  <1>1. event \in [Subs -> [Kinds -> {"unsent", "open", "done"}]] /\ event' = [event EXCEPT ![s] = new]
    BY DEF StripeType, Send
  <1>2. new \in [Kinds -> {"unsent", "open", "done"}] /\ \A k \in Kinds : new[k] = IF k \in K THEN "open" ELSE event[s][k]
    BY <1>1
  <1> HIDE DEF new
  <1> QED
    BY <1>1, <1>2

\* What an end does at Stripe: a last event, once.
LEMMA CancelledDoes ==
  ASSUME StripeType, NEW s \in Subs, Cancelled(s)
  PROVE  /\ status' \in [Subs -> Statuses] /\ status'[s] = "canceled"
         /\ \A t \in Subs : t # s => status'[t] = status[t]
         /\ event' \in [Subs -> [Kinds -> {"unsent", "open", "done"}]]
         /\ \A t \in Subs, k \in Kinds :
               event'[t][k] = IF t = s /\ k = "deleted" /\ status[s] # "canceled" THEN "open" ELSE event[t][k]
  <1> DEFINE last == IF status[s] = "canceled" THEN event[s]["deleted"] ELSE "open"
  <1>1. /\ event \in [Subs -> [Kinds -> {"unsent", "open", "done"}]] /\ status \in [Subs -> Statuses]
        /\ "canceled" \in Statuses
    BY DEF StripeType, Statuses
  <1>2. event' = [event EXCEPT ![s] = [event[s] EXCEPT !["deleted"] = last]] /\ status' = [status EXCEPT ![s] = "canceled"]
    BY DEF Cancelled
  <1>3. last \in {"unsent", "open", "done"}
    BY <1>1, KindFacts
  <1>4. \A t \in Subs, k \in Kinds : event'[t][k] = IF t = s /\ k = "deleted" THEN last ELSE event[t][k]
    BY <1>1, <1>2, KindFacts
  <1>5. event' \in [Subs -> [Kinds -> {"unsent", "open", "done"}]]
    BY <1>1, <1>2, <1>3
  <1> QED
    BY <1>1, <1>2, <1>4, <1>5

\* The answer clears the handler.
LEMMA AnswerDoes ==
  ASSUME HandlerType, NEW h \in Handlers, Answer(h)
  PROVE  HandlerType' /\ pc'[h] = "idle" /\ Others(h)
  <1>1. HandlerType'
    <2>1. /\ pc' \in [Handlers -> Locked \union {"idle", "received", "completing"}]
          /\ sub' \in [Handlers -> Subs \union {NoSub}] /\ kind' \in [Handlers -> Kinds]
          /\ outcome' \in [Handlers -> {"none", "open", "won", "lost"}]
      BY KindFacts DEF HandlerType, Answer, Goto
    <2>2. seen' \in [Handlers -> Copies] /\ prev' \in [Handlers -> Rows]
      BY Blank DEF HandlerType, Answer
    <2> QED
      BY <2>1, <2>2 DEF HandlerType
  <1>2. pc'[h] = "idle" /\ Others(h)
    BY DEF HandlerType, Answer, Goto, Others
  <1> QED
    BY <1>1, <1>2

\* A stage of the same event.
LEMMA GotoDoes ==
  ASSUME HandlerType, NEW h \in Handlers, NEW to \in Locked \union {"idle", "received", "completing"}, Goto(h, to)
  PROVE  /\ pc' \in [Handlers -> Locked \union {"idle", "received", "completing"}] /\ pc'[h] = to
         /\ \A g \in Handlers : g # h => pc'[g] = pc[g]
  BY DEF HandlerType, Goto
-----------------------------------------------------------------------------
(* What each step does *)

\* Nothing about t changes at Stripe, but for what its events say.
SameAtStripe(t) ==
    /\ session'[t] = session[t] /\ customer'[t] = customer[t] /\ status'[t] = status[t]
    /\ carded'[t] = carded[t] /\ charged'[t] = charged[t] /\ dispute'[t] = dispute[t] /\ mark'[t] = mark[t]

\* start_checkout writes nothing but its session.
LEMMA BuyDoes ==
  ASSUME TypeOK, NEW s \in Subs, CheckoutRead(s) \/ CheckoutAsk(s)
  PROVE  /\ TypeOK' /\ UNCHANGED <<status, carded, charged, dispute, mark, event, db, handler, setting, history>>
         /\ session[s] # "complete" /\ session'[s] # "complete"
         /\ \A t \in Subs : t # s => SameAtStripe(t)
         /\ \/ session'[s] = "asking" /\ customer'[s] = row[UserOf[s]].customer
            \/ session'[s] = "none"
            \/ /\ session[s] = "asking" /\ session'[s] = "open"
               /\ \E c \in KnownCustomers(s) : customer'[s] = c /\ (s \in ThreeDay => MayTry(s, c))
  <1>0. HandlerType /\ StripeType /\ RowsType /\ UserOf[s] \in Users
    BY TypeParts, SubsAssumption
  <1>1. CASE CheckoutRead(s)
    <2>1. row[UserOf[s]].customer \in Customers \union {NoCustomer}
      BY <1>0 DEF RowsType, Rows
    <2>2. StripeType'
      BY <1>0, <1>1, <2>1 DEF CheckoutRead, StripeType
    <2>3. HandlerType' /\ RowsType'
      BY <1>0, <1>1 DEF CheckoutRead, HandlerType, RowsType, db, handler, history
    <2>4. /\ session[s] # "complete" /\ session'[s] = "asking" /\ customer'[s] = row[UserOf[s]].customer
          /\ UNCHANGED <<status, carded, charged, dispute, mark, event, db, handler, setting, history>>
          /\ \A t \in Subs : t # s => session'[t] = session[t] /\ customer'[t] = customer[t]
      BY <1>0, <1>1 DEF CheckoutRead, StripeType
    <2> QED
      BY <2>2, <2>3, <2>4, TypeParts DEF SameAtStripe
  <1>2. CASE CheckoutAsk(s)
    <2>1. PICK c \in KnownCustomers(s) :
            LET granted == ~HasLive(c) /\ (s \in ThreeDay => MayTry(s, c))
            IN  /\ session' = [session EXCEPT ![s] = IF granted THEN "open" ELSE "none"]
                /\ customer' = [customer EXCEPT ![s] = IF granted THEN c ELSE NoCustomer]
      BY <1>2 DEF CheckoutAsk
    <2>2. c \in Customers \union {NoCustomer}
      BY <1>0 DEF KnownCustomers, StripeType, SubsOf
    <2>3. /\ session[s] = "asking"
          /\ UNCHANGED <<status, carded, charged, dispute, mark, event, db, handler, setting, history>>
      BY <1>2 DEF CheckoutAsk
    <2>4. StripeType'
      BY <1>0, <2>1, <2>2, <2>3 DEF StripeType
    <2>5. HandlerType' /\ RowsType'
      BY <1>0, <2>3 DEF HandlerType, RowsType, db, handler, history
    <2>6. \A t \in Subs : t # s => session'[t] = session[t] /\ customer'[t] = customer[t]
      BY <1>0, <2>1 DEF StripeType
    <2>7. session'[s] = "none" \/ (session'[s] = "open" /\ customer'[s] = c /\ (s \in ThreeDay => MayTry(s, c)))
      BY <1>0, <2>1 DEF StripeType
    <2> QED
      BY <2>3, <2>4, <2>5, <2>6, <2>7, TypeParts DEF SameAtStripe
  <1> QED
    BY <1>1, <1>2

\* Stripe makes the subscription and tells of it.
LEMMA PayDoes ==
  ASSUME TypeOK, NEW s \in Subs, Pay(s)
  PROVE  /\ TypeOK' /\ UNCHANGED <<dispute, mark, db, handler, setting, history>>
         /\ session[s] = "open" /\ session'[s] = "complete" /\ customer'[s] # NoCustomer
         /\ customer[s] # NoCustomer => customer'[s] = customer[s]
         /\ Live(status'[s])
         /\ \A t \in Subs : t # s => SameAtStripe(t)
         /\ \A t \in Subs, k \in Kinds :
               event'[t][k] = IF t = s /\ k \in {"checkout", "created"} THEN "open" ELSE event[t][k]
  <1>0. HandlerType /\ StripeType /\ RowsType /\ NoCustomer \notin Subs
    BY TypeParts, SubsAssumption
  <1>1. /\ session[s] = "open" /\ session' = [session EXCEPT ![s] = "complete"]
        /\ customer' = [customer EXCEPT ![s] = IF customer[s] = NoCustomer THEN s ELSE customer[s]]
        /\ Send(s, {"checkout", "created"}) /\ UNCHANGED <<dispute, mark, db, handler, setting, history>>
    BY DEF Pay
  <1>2. PICK free \in BOOLEAN : /\ status' = [status EXCEPT ![s] = IF free THEN "trialing" ELSE "active"]
                                /\ charged' = [charged EXCEPT ![s] = ~free]
    BY DEF Pay
  <1>3. PICK known \in BOOLEAN : carded' = [carded EXCEPT ![s] = known]
    BY DEF Pay
  <1>4. /\ event' \in [Subs -> [Kinds -> {"unsent", "open", "done"}]]
        /\ \A t \in Subs, k \in Kinds :
               event'[t][k] = IF t = s /\ k \in {"checkout", "created"} THEN "open" ELSE event[t][k]
    BY <1>0, <1>1, SendDoes, KindFacts
  <1>5. /\ session' \in [Subs -> {"none", "asking", "open", "complete"}] /\ session'[s] = "complete"
        /\ customer' \in [Subs -> Customers \union {NoCustomer}]
        /\ customer'[s] # NoCustomer /\ (customer[s] # NoCustomer => customer'[s] = customer[s])
        /\ \A t \in Subs : t # s => session'[t] = session[t] /\ customer'[t] = customer[t]
    BY <1>0, <1>1 DEF StripeType, Customers
  <1>6. /\ status' \in [Subs -> Statuses] /\ Live(status'[s])
        /\ \A t \in Subs : t # s => status'[t] = status[t]
    BY <1>0, <1>2 DEF StripeType, Statuses, Live
  <1>7. /\ charged' \in [Subs -> BOOLEAN] /\ \A t \in Subs : t # s => charged'[t] = charged[t]
    BY <1>0, <1>2 DEF StripeType
  <1>8. /\ carded' \in [Subs -> BOOLEAN] /\ \A t \in Subs : t # s => carded'[t] = carded[t]
    BY <1>0, <1>3 DEF StripeType
  <1>9. StripeType'
    BY <1>0, <1>1, <1>4, <1>5, <1>6, <1>7, <1>8 DEF StripeType
  <1>10. HandlerType' /\ RowsType'
    BY <1>0, <1>1 DEF HandlerType, RowsType, db, handler, history
  <1> QED
    BY <1>1, <1>4, <1>5, <1>6, <1>7, <1>8, <1>9, <1>10, TypeParts DEF SameAtStripe

\* A change of a live subscription, with an event that was not sent before.
LEMMA ChangeDoes ==
  ASSUME TypeOK, NEW s \in Subs, NEW k \in Changes, Change(s, k)
  PROVE  /\ TypeOK' /\ UNCHANGED <<session, customer, dispute, mark, db, handler, setting, history>>
         /\ Live(status[s]) /\ Live(status'[s]) /\ event[s][k] = "unsent"
         /\ \A t \in Subs : t # s => SameAtStripe(t)
         /\ \A t \in Subs, j \in Kinds : event'[t][j] = IF t = s /\ j = k THEN "open" ELSE event[t][j]
  <1>0. HandlerType /\ StripeType /\ RowsType /\ k \in Kinds
    BY TypeParts, KindFacts
  <1>1. /\ Live(status[s]) /\ event[s][k] = "unsent" /\ Send(s, {k})
        /\ UNCHANGED <<session, customer, dispute, mark, db, handler, setting, history>>
    BY DEF Change
  <1>2. /\ event' \in [Subs -> [Kinds -> {"unsent", "open", "done"}]]
        /\ \A t \in Subs, j \in Kinds : event'[t][j] = IF t = s /\ j \in {k} THEN "open" ELSE event[t][j]
    BY <1>0, <1>1, SendDoes
  <1>3. /\ status' \in [Subs -> Statuses] /\ Live(status'[s])
        /\ \A t \in Subs : t # s => status'[t] = status[t]
    BY <1>0, <1>1 DEF Change, StripeType, Statuses, Live
  <1>4. /\ charged' \in [Subs -> BOOLEAN] /\ \A t \in Subs : t # s => charged'[t] = charged[t]
    <2>1. charged \in [Subs -> BOOLEAN]
      BY <1>0 DEF StripeType
    <2>2. charged' = charged \/ \E paid \in BOOLEAN : charged' = [charged EXCEPT ![s] = paid]
      BY Zenon DEF Change
    <2>3. ASSUME NEW paid \in BOOLEAN, charged' = [charged EXCEPT ![s] = paid]
          PROVE  charged' \in [Subs -> BOOLEAN] /\ \A t \in Subs : t # s => charged'[t] = charged[t]
      BY <2>1, <2>3
    <2> QED
      BY <2>1, <2>2, <2>3
  <1>5. /\ carded' \in [Subs -> BOOLEAN] /\ \A t \in Subs : t # s => carded'[t] = carded[t]
    BY <1>0 DEF Change, StripeType
  <1>6. StripeType'
    BY <1>0, <1>1, <1>2, <1>3, <1>4, <1>5 DEF StripeType
  <1>7. HandlerType' /\ RowsType'
    BY <1>0, <1>1 DEF HandlerType, RowsType, db, handler, history
  <1> QED
    BY <1>1, <1>2, <1>3, <1>4, <1>5, <1>6, <1>7, TypeParts DEF SameAtStripe

\* The end of a live subscription.
LEMMA EndDoes ==
  ASSUME TypeOK, NEW s \in Subs, End(s)
  PROVE  /\ TypeOK' /\ UNCHANGED <<session, customer, carded, charged, dispute, mark, db, handler, setting, history>>
         /\ Live(status[s]) /\ status'[s] = "canceled"
         /\ \A t \in Subs : t # s => status'[t] = status[t]
         /\ \A t \in Subs, j \in Kinds : event'[t][j] = IF t = s /\ j = "deleted" THEN "open" ELSE event[t][j]
  <1>0. HandlerType /\ StripeType /\ RowsType
    BY TypeParts
  <1>1. /\ Live(status[s]) /\ Cancelled(s)
        /\ UNCHANGED <<session, customer, carded, charged, dispute, mark, db, handler, setting, history>>
    BY DEF End
  <1>2. status[s] # "canceled"
    BY <1>1 DEF Live
  <1>3. /\ status' \in [Subs -> Statuses] /\ status'[s] = "canceled"
        /\ \A t \in Subs : t # s => status'[t] = status[t]
        /\ event' \in [Subs -> [Kinds -> {"unsent", "open", "done"}]]
        /\ \A t \in Subs, k \in Kinds :
               event'[t][k] = IF t = s /\ k = "deleted" /\ status[s] # "canceled" THEN "open" ELSE event[t][k]
    BY <1>0, <1>1, CancelledDoes
  <1>4. StripeType'
    BY <1>0, <1>1, <1>3 DEF StripeType
  <1>5. HandlerType' /\ RowsType'
    BY <1>0, <1>1 DEF HandlerType, RowsType, db, handler, history
  <1> QED
    BY <1>1, <1>2, <1>3, <1>4, <1>5, TypeParts

\* The bank's part.
LEMMA DisputeDoes ==
  ASSUME TypeOK, NEW s \in Subs, NEW to \in {"open", "won", "lost"}, Dispute(s, to)
  PROVE  /\ TypeOK' /\ UNCHANGED <<session, customer, status, carded, charged, mark, db, handler, setting, history>>
         /\ \/ charged[s] /\ dispute[s] = "none" /\ to = "open"
            \/ dispute[s] = "open" /\ to \in {"won", "lost"}
         /\ dispute'[s] = to /\ \A t \in Subs : t # s => dispute'[t] = dispute[t]
         /\ \A t \in Subs, j \in Kinds :
               event'[t][j] = IF t = s /\ j = (IF to = "open" THEN "opened" ELSE "closed") THEN "open" ELSE event[t][j]
  <1>0. HandlerType /\ StripeType /\ RowsType
    BY TypeParts
  <1>k. PICK k : k = IF to = "open" THEN "opened" ELSE "closed"
    OBVIOUS
  <1>1. /\ \/ charged[s] /\ dispute[s] = "none" /\ to = "open"
           \/ dispute[s] = "open" /\ to \in {"won", "lost"}
        /\ dispute' = [dispute EXCEPT ![s] = to] /\ Send(s, {k}) /\ k \in Kinds
        /\ UNCHANGED <<session, customer, status, carded, charged, mark, db, handler, setting, history>>
    BY <1>k, KindFacts DEF Dispute
  <1>2. /\ event' \in [Subs -> [Kinds -> {"unsent", "open", "done"}]]
        /\ \A t \in Subs, j \in Kinds : event'[t][j] = IF t = s /\ j \in {k} THEN "open" ELSE event[t][j]
    BY <1>0, <1>1, SendDoes
  <1>3. /\ dispute' \in [Subs -> {"none", "open", "won", "lost"}]
        /\ dispute'[s] = to /\ \A t \in Subs : t # s => dispute'[t] = dispute[t]
    BY <1>0, <1>1 DEF StripeType
  <1>4. StripeType'
    BY <1>0, <1>1, <1>2, <1>3 DEF StripeType
  <1>5. HandlerType' /\ RowsType'
    BY <1>0, <1>1 DEF HandlerType, RowsType, db, handler, history
  <1> QED
    BY <1>1, <1>2, <1>3, <1>4, <1>5, <1>k, TypeParts

\* The stages are what they are called.
LEMMA Stages ==
  /\ Locked \subseteq Locked \union {"idle", "received", "completing"}
  /\ "idle" \notin Locked /\ "received" \notin Locked /\ "completing" \notin Locked
  /\ {"disputing", "judging", "settling", "fetching", "reading", "doubting", "claiming",
      "cancelling", "writing", "mailing", "switching"} = Locked
  BY DEF Locked

\* A delivery begins.
LEMMA ReceiveDoes ==
  ASSUME TypeOK, NEW h \in Handlers, NEW s \in Subs, NEW k \in Kinds, Receive(h, s, k)
  PROVE  /\ TypeOK' /\ UNCHANGED <<stripe, event, db, setting, history>>
         /\ pc[h] = "idle" /\ event[s][k] = "open"
         /\ pc'[h] = "received" /\ sub'[h] = s /\ kind'[h] = k /\ Others(h)
  <1>0. HandlerType /\ StripeType /\ RowsType
    BY TypeParts
  <1>1. /\ pc[h] = "idle" /\ event[s][k] = "open" /\ Goto(h, "received")
        /\ sub' = [sub EXCEPT ![h] = s] /\ kind' = [kind EXCEPT ![h] = k]
        /\ UNCHANGED <<stripe, event, db, seen, prev, outcome, setting, history>>
    BY DEF Receive
  <1>2. HandlerType' /\ pc'[h] = "received" /\ sub'[h] = s /\ kind'[h] = k /\ Others(h)
    BY <1>0, <1>1, GotoDoes DEF HandlerType, Others
  <1>3. StripeType' /\ RowsType'
    BY <1>0, <1>1 DEF StripeType, RowsType, stripe, db, history
  <1> QED
    BY <1>1, <1>2, <1>3, TypeParts

\* The lock is free.
LEMMA LockDoes ==
  ASSUME TypeOK, NEW h \in Handlers, Lock(h)
  PROVE  /\ TypeOK' /\ UNCHANGED <<stripe, event, db, seen, prev, outcome, setting, history>>
         /\ pc[h] = "received" /\ kind[h] # "checkout"
         /\ \A g \in Handlers : ~Holds(g, customer[sub[h]])
         /\ \/ kind[h] \in DisputeKinds /\ Moves(h, "disputing")
            \/ kind[h] \notin DisputeKinds /\ Moves(h, "fetching")
  <1>0. HandlerType /\ StripeType /\ RowsType
    BY TypeParts
  <1>k. PICK to : to = IF kind[h] \in DisputeKinds THEN "disputing" ELSE "fetching"
    OBVIOUS
  <1>1. /\ pc[h] = "received" /\ kind[h] # "checkout" /\ \A g \in Handlers : ~Holds(g, customer[sub[h]])
        /\ Goto(h, to) /\ UNCHANGED <<stripe, event, db, sub, kind, seen, prev, outcome, setting, history>>
    BY <1>k DEF Lock
  <1>2. to \in Locked \union {"idle", "received", "completing"}
    BY <1>k, Stages
  <1>3. HandlerType' /\ Moves(h, to)
    BY <1>0, <1>1, <1>2, GotoDoes DEF HandlerType, Others, Moves
  <1>4. StripeType' /\ RowsType'
    BY <1>0, <1>1 DEF StripeType, RowsType, stripe, db, history
  <1>5. TypeOK'
    BY <1>3, <1>4, TypeParts
  <1> QED
    BY <1>1, <1>3, <1>5, <1>k

\* The subscription is read back, before a dispute is judged or before the row is written.
LEMMA FetchDoes ==
  ASSUME TypeOK, NEW h \in Handlers, sub[h] \in Subs, FetchDisputed(h) \/ Fetch(h)
  PROVE  /\ TypeOK' /\ UNCHANGED <<stripe, event, db, prev, outcome, setting, history>>
         /\ seen'[h] = Copy(sub[h])
         /\ \/ pc[h] = "disputing" /\ Moves(h, "judging")
            \/ pc[h] = "fetching" /\ Moves(h, "reading")
  <1>0. HandlerType /\ StripeType /\ RowsType
    BY TypeParts
  <1>1. Copy(sub[h]) \in Copies
    BY <1>0, CopyType
  <1>2. PICK to \in {"judging", "reading"} :
          /\ Goto(h, to) /\ pc[h] = IF to = "judging" THEN "disputing" ELSE "fetching"
          /\ seen' = [seen EXCEPT ![h] = Copy(sub[h])]
          /\ UNCHANGED <<stripe, event, db, sub, kind, prev, outcome, setting, history>>
    <2>1. CASE FetchDisputed(h)
      <3>1. "judging" \in {"judging", "reading"}
        OBVIOUS
      <3> QED
        BY <2>1, <3>1 DEF FetchDisputed
    <2>2. CASE Fetch(h)
      <3>1. "reading" \in {"judging", "reading"} /\ "reading" # "judging"
        OBVIOUS
      <3> QED
        BY <2>2, <3>1 DEF Fetch
    <2> QED
      BY <2>1, <2>2
  <1>3. to \in Locked \union {"idle", "received", "completing"}
    BY Stages
  <1>4. /\ pc' \in [Handlers -> Locked \union {"idle", "received", "completing"}] /\ pc'[h] = to
        /\ \A g \in Handlers : g # h => pc'[g] = pc[g]
    BY <1>0, <1>2, <1>3, GotoDoes
  <1>5. /\ seen' \in [Handlers -> Copies] /\ seen'[h] = Copy(sub[h])
        /\ \A g \in Handlers : g # h => seen'[g] = seen[g]
    BY <1>0, <1>1, <1>2 DEF HandlerType
  <1>6. HandlerType' /\ Moves(h, to)
    BY <1>0, <1>2, <1>4, <1>5 DEF HandlerType, Moves, Others
  <1>7. StripeType' /\ RowsType'
    BY <1>0, <1>2 DEF StripeType, RowsType, stripe, db, history
  <1>8. TypeOK'
    BY <1>6, <1>7, TypeParts
  <1> QED
    BY <1>2, <1>5, <1>6, <1>8

\* The dispute as it stands at Stripe.
LEMMA JudgeDoes ==
  ASSUME TypeOK, NEW h \in Handlers, sub[h] \in Subs, Judge(h)
  PROVE  /\ TypeOK' /\ UNCHANGED <<stripe, event, db, seen, prev, setting, history>>
         /\ pc[h] = "judging" /\ Moves(h, "settling") /\ outcome'[h] = dispute[sub[h]]
  <1>0. HandlerType /\ StripeType /\ RowsType
    BY TypeParts
  <1>1. /\ pc[h] = "judging" /\ outcome' = [outcome EXCEPT ![h] = dispute[sub[h]]] /\ Goto(h, "settling")
        /\ UNCHANGED <<stripe, event, db, sub, kind, seen, prev, setting, history>>
    BY DEF Judge
  <1>2. /\ pc' \in [Handlers -> Locked \union {"idle", "received", "completing"}] /\ pc'[h] = "settling"
        /\ \A g \in Handlers : g # h => pc'[g] = pc[g]
    BY <1>0, <1>1, Stages, GotoDoes
  <1>3. HandlerType' /\ Moves(h, "settling") /\ outcome'[h] = dispute[sub[h]]
    BY <1>0, <1>1, <1>2 DEF HandlerType, StripeType, Moves, Others
  <1>4. StripeType' /\ RowsType'
    BY <1>0, <1>1 DEF StripeType, RowsType, stripe, db, history
  <1> QED
    BY <1>1, <1>3, <1>4, TypeParts

\* The request that follows: an end, a hold, a release or none.
LEMMA SettleDoes ==
  ASSUME TypeOK, NEW h \in Handlers, sub[h] \in Subs, Settle(h)
  PROVE  /\ TypeOK' /\ UNCHANGED <<session, customer, carded, charged, dispute, db, seen, prev, outcome, setting, history>>
         /\ pc[h] = "settling" /\ Moves(h, "fetching")
         /\ \A t \in Subs : t # sub[h] => status'[t] = status[t] /\ mark'[t] = mark[t]
         /\ \/ /\ outcome[h] = "lost" /\ seen[h].status # "canceled"
               /\ status'[sub[h]] = "canceled" /\ mark' = mark
               /\ \A t \in Subs, k \in Kinds :
                     event'[t][k] = IF t = sub[h] /\ k = "deleted" /\ status[sub[h]] # "canceled" THEN "open" ELSE event[t][k]
            \/ /\ outcome[h] = "open" /\ ~seen[h].mark /\ Live(seen[h].status)
               /\ mark'[sub[h]] = TRUE /\ status' = status
               /\ \A t \in Subs, k \in Kinds : event'[t][k] = IF t = sub[h] /\ k = "held" THEN "open" ELSE event[t][k]
            \/ /\ outcome[h] = "won" /\ seen[h].mark
               /\ mark'[sub[h]] = FALSE /\ status' = status
               /\ \A t \in Subs, k \in Kinds : event'[t][k] = IF t = sub[h] /\ k = "released" THEN "open" ELSE event[t][k]
            \/ /\ UNCHANGED <<mark, event, status>>
               /\ ~(outcome[h] = "lost" /\ seen[h].status # "canceled")
               /\ ~(outcome[h] = "open" /\ ~seen[h].mark /\ Live(seen[h].status))
               /\ ~(outcome[h] = "won" /\ seen[h].mark)
  <1>0. HandlerType /\ StripeType /\ RowsType
    BY TypeParts
  <1>s. PICK s \in Subs : s = sub[h]
    OBVIOUS
  <1>1. /\ pc[h] = "settling" /\ Goto(h, "fetching")
        /\ UNCHANGED <<session, customer, carded, charged, dispute, db, sub, kind, seen, prev, outcome, setting, history>>
    BY DEF Settle
  <1>2. HandlerType' /\ Moves(h, "fetching")
    BY <1>0, <1>1, Stages, GotoDoes DEF HandlerType, Moves, Others
  <1>3. RowsType'
    BY <1>0, <1>1 DEF RowsType, db, history
  <1>4. CASE outcome[h] = "lost" /\ seen[h].status # "canceled" /\ Cancelled(s) /\ UNCHANGED mark
    <2>1. /\ status' \in [Subs -> Statuses] /\ status'[s] = "canceled"
          /\ \A t \in Subs : t # s => status'[t] = status[t]
          /\ event' \in [Subs -> [Kinds -> {"unsent", "open", "done"}]]
          /\ \A t \in Subs, k \in Kinds :
               event'[t][k] = IF t = s /\ k = "deleted" /\ status[s] # "canceled" THEN "open" ELSE event[t][k]
      BY <1>0, <1>4, CancelledDoes
    <2>2. StripeType'
      BY <1>0, <1>1, <1>4, <2>1 DEF StripeType
    <2>3. TypeOK'
      BY <1>2, <1>3, <2>2, TypeParts
    <2> QED
      BY <1>1, <1>2, <1>4, <1>s, <2>1, <2>3
  <1>5. CASE outcome[h] = "open" /\ ~seen[h].mark /\ Live(seen[h].status) /\ mark' = [mark EXCEPT ![s] = TRUE] /\ Send(s, {"held"}) /\ UNCHANGED status
    <2>1. /\ event' \in [Subs -> [Kinds -> {"unsent", "open", "done"}]]
          /\ \A t \in Subs, j \in Kinds : event'[t][j] = IF t = s /\ j \in {"held"} THEN "open" ELSE event[t][j]
      BY <1>0, <1>5, SendDoes, KindFacts
    <2>2. mark' \in [Subs -> BOOLEAN] /\ mark'[s] = TRUE /\ \A t \in Subs : t # s => mark'[t] = mark[t]
      BY <1>0, <1>5 DEF StripeType
    <2>3. StripeType'
      BY <1>0, <1>1, <1>5, <2>1, <2>2 DEF StripeType
    <2>4. TypeOK'
      BY <1>2, <1>3, <2>3, TypeParts
    <2> QED
      BY <1>1, <1>2, <1>5, <1>s, <2>1, <2>2, <2>4
  <1>6. CASE outcome[h] = "won" /\ seen[h].mark /\ mark' = [mark EXCEPT ![s] = FALSE] /\ Send(s, {"released"}) /\ UNCHANGED status
    <2>1. /\ event' \in [Subs -> [Kinds -> {"unsent", "open", "done"}]]
          /\ \A t \in Subs, j \in Kinds : event'[t][j] = IF t = s /\ j \in {"released"} THEN "open" ELSE event[t][j]
      BY <1>0, <1>6, SendDoes, KindFacts
    <2>2. mark' \in [Subs -> BOOLEAN] /\ mark'[s] = FALSE /\ \A t \in Subs : t # s => mark'[t] = mark[t]
      BY <1>0, <1>6 DEF StripeType
    <2>3. StripeType'
      BY <1>0, <1>1, <1>6, <2>1, <2>2 DEF StripeType
    <2>4. TypeOK'
      BY <1>2, <1>3, <2>3, TypeParts
    <2> QED
      BY <1>1, <1>2, <1>6, <1>s, <2>1, <2>2, <2>4
  <1>7. CASE /\ UNCHANGED <<mark, event, status>>
             /\ ~(outcome[h] = "lost" /\ seen[h].status # "canceled")
             /\ ~(outcome[h] = "open" /\ ~seen[h].mark /\ Live(seen[h].status))
             /\ ~(outcome[h] = "won" /\ seen[h].mark)
    <2>1. StripeType'
      BY <1>0, <1>1, <1>7 DEF StripeType
    <2>2. TypeOK'
      BY <1>2, <1>3, <2>1, TypeParts
    <2> QED
      BY <1>1, <1>2, <1>7, <2>2
  <1> QED
    BY <1>4, <1>5, <1>6, <1>7, <1>s DEF Settle

\* What the row of v says of a subscription.
SameRow(v) ==
    /\ row'[v].sub = row[v].sub /\ row'[v].status = row[v].status
    /\ row'[v].plan = row[v].plan /\ row'[v].reason = row[v].reason

\* checkout.session.completed binds the customer, or leaves it.
LEMMA BindDoes ==
  ASSUME TypeOK, NEW h \in Handlers, sub[h] \in Subs, CheckoutCompleted(h)
  PROVE  /\ TypeOK' /\ UNCHANGED <<stripe, event, claim, cadence, seen, prev, outcome, setting, history>>
         /\ pc[h] = "received" /\ kind[h] = "checkout" /\ Moves(h, "completing")
         /\ row'[UserOf[sub[h]]].customer \in {customer[sub[h]], row[UserOf[sub[h]]].customer}
         /\ \A v \in Users : SameRow(v) /\ (v # UserOf[sub[h]] => row'[v] = row[v])
  <1>0. HandlerType /\ StripeType /\ RowsType
    BY TypeParts
  <1>u. PICK u \in Users : u = UserOf[sub[h]]
    BY SubsAssumption
  <1>c. PICK c : c = IF row[u].customer \in {NoCustomer, customer[sub[h]]} \/ ~Live(row[u].status)
                     THEN customer[sub[h]] ELSE row[u].customer
    OBVIOUS
  <1>1. /\ pc[h] = "received" /\ kind[h] = "checkout" /\ Goto(h, "completing")
        /\ UNCHANGED <<stripe, event, claim, cadence, sub, kind, seen, prev, outcome, setting, history>>
    BY DEF CheckoutCompleted
  <1>2. row' = [row EXCEPT ![u] = [row[u] EXCEPT !.customer = c]]
    BY <1>u, <1>c DEF CheckoutCompleted
  <1>3. row \in [Users -> Rows] /\ row[u] \in Rows /\ c \in {customer[sub[h]], row[u].customer} /\ c \in Customers \union {NoCustomer}
    BY <1>0, <1>c DEF RowsType, StripeType, Rows
  <1>r. PICK r : r = [row[u] EXCEPT !.customer = c]
    OBVIOUS
  <1>4. /\ r \in Rows /\ r.customer = c /\ r.sub = row[u].sub
        /\ r.status = row[u].status /\ r.plan = row[u].plan /\ r.reason = row[u].reason
    BY <1>3, <1>r DEF Rows
  <1>5. row' \in [Users -> Rows] /\ row'[u] = r /\ \A v \in Users : v # u => row'[v] = row[v]
    BY <1>2, <1>3, <1>4, <1>r
  <1>6. HandlerType' /\ Moves(h, "completing")
    BY <1>0, <1>1, Stages, GotoDoes DEF HandlerType, Moves, Others
  <1>7. StripeType' /\ RowsType'
    BY <1>0, <1>1, <1>5 DEF StripeType, RowsType, stripe, history
  <1>8. TypeOK'
    BY <1>6, <1>7, TypeParts
  <1>9. \A v \in Users : SameRow(v)
    BY <1>4, <1>5 DEF SameRow
  <1> QED
    BY <1>1, <1>3, <1>4, <1>5, <1>6, <1>8, <1>9, <1>u

\* The row is read, and one of four ways taken.
LEMMA ReadRowDoes ==
  ASSUME TypeOK, NEW h \in Handlers, sub[h] \in Subs, ReadRow(h)
  PROVE  /\ TypeOK' /\ UNCHANGED <<stripe, event, db, seen, outcome, setting, history>>
         /\ pc[h] = "reading" /\ prev'[h] = row[UserOf[sub[h]]]
         /\ LET r == row[UserOf[sub[h]]] IN
            \/ Replaced(h, r) /\ Moves(h, "completing")
            \/ Second(h, r) /\ Moves(h, "doubting")
            \/ ~Replaced(h, r) /\ sub[h] \in ThreeDay /\ Moves(h, "claiming")
            \/ ~Replaced(h, r) /\ ~Second(h, r) /\ sub[h] \notin ThreeDay /\ Moves(h, "writing")
  <1>0. HandlerType /\ StripeType /\ RowsType
    BY TypeParts
  <1>u. PICK u \in Users : u = UserOf[sub[h]]
    BY SubsAssumption
  <1>1. /\ pc[h] = "reading" /\ prev' = [prev EXCEPT ![h] = row[u]]
        /\ UNCHANGED <<stripe, event, db, sub, kind, seen, outcome, setting, history>>
    BY <1>u DEF ReadRow
  <1>2. Replaced(h, row[u]) => ~Second(h, row[u])
    BY DEF Replaced, Second
  <1>3. PICK to \in {"completing", "doubting", "claiming", "writing"} :
          /\ Goto(h, to)
          /\ \/ Replaced(h, row[u]) /\ to = "completing"
             \/ Second(h, row[u]) /\ to = "doubting"
             \/ ~Replaced(h, row[u]) /\ sub[h] \in ThreeDay /\ to = "claiming"
             \/ ~Replaced(h, row[u]) /\ ~Second(h, row[u]) /\ sub[h] \notin ThreeDay /\ to = "writing"
    <2>0. Second(h, row[u]) => sub[h] \notin ThreeDay
      BY DEF Second
    <2>1. CASE Replaced(h, row[u])
      <3>1. Goto(h, "completing")
        BY <1>u, <1>2, <2>1 DEF ReadRow
      <3> QED
        BY <2>1, <3>1
    <2>2. CASE Second(h, row[u])
      <3>1. Goto(h, "doubting")
        BY <1>u, <1>2, <2>0, <2>2 DEF ReadRow
      <3> QED
        BY <2>2, <3>1
    <2>3. CASE ~Replaced(h, row[u]) /\ sub[h] \in ThreeDay
      <3>1. Goto(h, "claiming")
        BY <1>u, <2>0, <2>3 DEF ReadRow
      <3> QED
        BY <2>3, <3>1
    <2>4. CASE ~Replaced(h, row[u]) /\ ~Second(h, row[u]) /\ sub[h] \notin ThreeDay
      <3>1. Goto(h, "writing")
        BY <1>u, <2>4 DEF ReadRow
      <3> QED
        BY <2>4, <3>1
    <2> QED
      BY <2>1, <2>2, <2>3, <2>4
  <1>4. /\ pc' \in [Handlers -> Locked \union {"idle", "received", "completing"}] /\ pc'[h] = to
        /\ \A g \in Handlers : g # h => pc'[g] = pc[g]
    BY <1>0, <1>3, Stages, GotoDoes
  <1>5. /\ prev' \in [Handlers -> Rows] /\ prev'[h] = row[u] /\ \A g \in Handlers : g # h => prev'[g] = prev[g]
    BY <1>0, <1>1 DEF HandlerType, RowsType
  <1>6. HandlerType' /\ Moves(h, to)
    BY <1>0, <1>1, <1>4, <1>5 DEF HandlerType, Moves, Others
  <1>7. StripeType' /\ RowsType'
    BY <1>0, <1>1 DEF StripeType, RowsType, stripe, db, history
  <1>8. TypeOK'
    BY <1>6, <1>7, TypeParts
  <1> QED
    BY <1>1, <1>3, <1>5, <1>6, <1>8, <1>u

\* The other subscription is looked at.
LEMMA StillLiveDoes ==
  ASSUME TypeOK, NEW h \in Handlers, StillLive(h)
  PROVE  /\ TypeOK' /\ UNCHANGED <<stripe, event, db, seen, prev, outcome, setting, history>>
         /\ pc[h] = "doubting"
         /\ \/ Live(status[prev[h].sub]) /\ Moves(h, "cancelling")
            \/ ~Live(status[prev[h].sub]) /\ Moves(h, "writing")
  <1>0. HandlerType /\ StripeType /\ RowsType
    BY TypeParts
  <1>k. PICK to : to = IF Live(status[prev[h].sub]) THEN "cancelling" ELSE "writing"
    OBVIOUS
  <1>1. /\ pc[h] = "doubting" /\ Goto(h, to)
        /\ UNCHANGED <<stripe, event, db, sub, kind, seen, prev, outcome, setting, history>>
    BY <1>k DEF StillLive
  <1>2. to \in Locked \union {"idle", "received", "completing"}
    BY <1>k, Stages
  <1>3. HandlerType' /\ Moves(h, to)
    BY <1>0, <1>1, <1>2, GotoDoes DEF HandlerType, Others, Moves
  <1>4. StripeType' /\ RowsType'
    BY <1>0, <1>1 DEF StripeType, RowsType, stripe, db, history
  <1>5. TypeOK'
    BY <1>3, <1>4, TypeParts
  <1> QED
    BY <1>1, <1>3, <1>5, <1>k

\* The claim is inserted, completed with a card, left, or refused.
LEMMA ClaimDoes ==
  ASSUME TypeOK, NEW h \in Handlers, sub[h] \in Subs, ClaimTrial(h)
  PROVE  /\ TypeOK' /\ UNCHANGED <<stripe, event, row, cadence, seen, prev, outcome, setting, history>>
         /\ pc[h] = "claiming" /\ \A t \in Subs : t # sub[h] => claim'[t] = claim[t]
         /\ \/ /\ ~Collides(sub[h], seen[h].carded) /\ Moves(h, "writing")
               /\ claim'[sub[h]] = IF seen[h].carded THEN "carded" ELSE "claimed"
            \/ /\ claim[sub[h]] = "claimed" /\ seen[h].carded /\ Moves(h, "writing")
               /\ ~\E t \in Subs \ {sub[h]} : SameCard(sub[h], t)
               /\ claim'[sub[h]] = "carded"
            \/ /\ claim[sub[h]] # "none" /\ ~(claim[sub[h]] = "claimed" /\ seen[h].carded)
               /\ claim' = claim /\ Moves(h, "writing")
            \/ /\ claim' = claim /\ seen[h].status = "trialing" /\ Moves(h, "cancelling")
            \/ /\ claim' = claim /\ seen[h].status # "trialing" /\ Moves(h, "writing")
  <1>0. HandlerType /\ StripeType /\ RowsType
    BY TypeParts
  <1>s. PICK s \in Subs : s = sub[h]
    OBVIOUS
  <1>c. PICK known \in BOOLEAN : known = seen[h].carded
    BY <1>0 DEF HandlerType, Copies
  <1>i. PICK inserted \in BOOLEAN : inserted = ~Collides(s, known)
    BY DEF Collides
  <1>a. PICK adds \in BOOLEAN : adds = (claim[s] = "claimed" /\ known)
    OBVIOUS
  <1>o. PICK other \in BOOLEAN : other = (\E t \in Subs \ {s} : SameCard(s, t))
    OBVIOUS
  <1>g. PICK granted \in BOOLEAN : granted = (inserted \/ (claim[s] # "none" /\ ~(adds /\ other)))
    OBVIOUS
  <1>n. PICK new : new = IF granted /\ (inserted \/ adds) THEN IF known THEN "carded" ELSE "claimed" ELSE claim[s]
    OBVIOUS
  <1>t. PICK to : to = IF ~granted /\ seen[h].status = "trialing" THEN "cancelling" ELSE "writing"
    OBVIOUS
  <1>1. /\ pc[h] = "claiming"
        /\ claim' = [claim EXCEPT ![s] =
               CASE granted /\ (inserted \/ adds) -> IF known THEN "carded" ELSE "claimed"
                 [] OTHER -> claim[s]]
        /\ Goto(h, to)
        /\ UNCHANGED <<stripe, event, row, cadence, sub, kind, seen, prev, outcome, setting, history>>
    BY <1>s, <1>c, <1>i, <1>a, <1>o, <1>g, <1>t, Zenon DEF ClaimTrial
  <1>2. claim' = [claim EXCEPT ![s] = new]
    BY <1>1, <1>n
  <1>3. claim \in [Subs -> {"none", "claimed", "carded"}] /\ new \in {"none", "claimed", "carded"}
    BY <1>0, <1>n DEF RowsType
  <1>4. claim' \in [Subs -> {"none", "claimed", "carded"}] /\ claim'[s] = new /\ \A t \in Subs : t # s => claim'[t] = claim[t]
    BY <1>2, <1>3
  <1>5. to \in Locked \union {"idle", "received", "completing"}
    BY <1>t, Stages
  <1>6. HandlerType' /\ Moves(h, to)
    BY <1>0, <1>1, <1>5, GotoDoes DEF HandlerType, Others, Moves
  <1>7. StripeType' /\ RowsType'
    BY <1>0, <1>1, <1>4 DEF StripeType, RowsType, stripe, history
  <1>8. TypeOK'
    BY <1>6, <1>7, TypeParts
  <1>9. CASE inserted
    <2>1. new = IF known THEN "carded" ELSE "claimed"
      BY <1>9, <1>g, <1>n
    <2>2. to = "writing" /\ ~Collides(s, known)
      BY <1>9, <1>g, <1>t, <1>i
    <2> QED
      BY <1>1, <1>4, <1>6, <1>8, <1>s, <1>c, <2>1, <2>2
  <1>10. CASE ~inserted /\ granted /\ adds
    <2>1. new = "carded" /\ to = "writing" /\ ~other /\ claim[s] = "claimed" /\ known
      BY <1>10, <1>g, <1>n, <1>t, <1>a
    <2> QED
      BY <1>1, <1>4, <1>6, <1>8, <1>s, <1>c, <1>o, <2>1
  <1>11. CASE ~inserted /\ granted /\ ~adds
    <2>1. claim' = claim /\ to = "writing" /\ claim[s] # "none" /\ ~(claim[s] = "claimed" /\ known)
      BY <1>11, <1>2, <1>3, <1>g, <1>n, <1>t, <1>a
    <2> QED
      BY <1>1, <1>4, <1>6, <1>8, <1>s, <1>c, <2>1
  <1>12. CASE ~granted
    <2>1. claim' = claim
      BY <1>12, <1>2, <1>3, <1>n
    <2> QED
      BY <1>1, <1>4, <1>6, <1>8, <1>12, <1>s, <1>t, <2>1
  <1> QED
    BY <1>9, <1>10, <1>11, <1>12

\* The subscription is ended, and the row left to the event of that.
LEMMA CancelDoes ==
  ASSUME TypeOK, NEW h \in Handlers, sub[h] \in Subs, Cancel(h)
  PROVE  /\ TypeOK' /\ UNCHANGED <<session, customer, carded, charged, dispute, mark, db, seen, prev, outcome, setting, history>>
         /\ pc[h] = "cancelling" /\ Moves(h, "completing") /\ status'[sub[h]] = "canceled"
         /\ \A t \in Subs : t # sub[h] => status'[t] = status[t]
         /\ \A t \in Subs, k \in Kinds :
               event'[t][k] = IF t = sub[h] /\ k = "deleted" /\ status[sub[h]] # "canceled" THEN "open" ELSE event[t][k]
  <1>0. HandlerType /\ StripeType /\ RowsType
    BY TypeParts
  <1>1. /\ pc[h] = "cancelling" /\ Cancelled(sub[h]) /\ Goto(h, "completing")
        /\ UNCHANGED <<session, customer, carded, charged, dispute, mark, db, sub, kind, seen, prev, outcome, setting, history>>
    BY DEF Cancel
  <1>2. /\ status' \in [Subs -> Statuses] /\ status'[sub[h]] = "canceled"
        /\ \A t \in Subs : t # sub[h] => status'[t] = status[t]
        /\ event' \in [Subs -> [Kinds -> {"unsent", "open", "done"}]]
        /\ \A t \in Subs, k \in Kinds :
               event'[t][k] = IF t = sub[h] /\ k = "deleted" /\ status[sub[h]] # "canceled" THEN "open" ELSE event[t][k]
    BY <1>0, <1>1, CancelledDoes
  <1>3. HandlerType' /\ Moves(h, "completing")
    BY <1>0, <1>1, Stages, GotoDoes DEF HandlerType, Moves, Others
  <1>4. StripeType' /\ RowsType'
    BY <1>0, <1>1, <1>2 DEF StripeType, RowsType, db, history
  <1> QED
    BY <1>1, <1>2, <1>3, <1>4, TypeParts

\* Why a copy gives no plan.
LEMMA ReasonFacts ==
  ASSUME NEW s \in Subs, NEW copy \in Copies
  PROVE  /\ Reason(s, copy) \in Reasons /\ Plan(s, copy) \in BOOLEAN
         /\ Plan(s, copy) => Reason(s, copy) = "none"
         /\ copy.status # "none" => (Reason(s, copy) = "ended" <=> ~Live(copy.status))
  <1>1. copy.status \in Statuses /\ copy.mark \in BOOLEAN
    BY DEF Copies
  <1>2. KeepsPlan(s, copy.status) => Live(copy.status)
    BY DEF KeepsPlan, Live
  <1>k. PICK keeps \in BOOLEAN : keeps = KeepsPlan(s, copy.status)
    BY SwitchAssumption DEF KeepsPlan
  <1>3. CASE keeps /\ copy.mark
    <2>1. Reason(s, copy) = "disputed"
      BY <1>3, <1>k DEF Reason
    <2> QED
      BY <1>2, <1>3, <1>k, <2>1 DEF Plan, Reasons
  <1>4. CASE keeps /\ ~copy.mark
    <2>1. Reason(s, copy) = "none"
      BY <1>4, <1>k DEF Reason
    <2> QED
      BY <1>2, <1>4, <1>k, <2>1 DEF Plan, Reasons
  <1>5. CASE ~keeps /\ copy.status = "past_due"
    <2>1. Reason(s, copy) = "payment_failed"
      BY <1>5, <1>k DEF Reason
    <2> QED
      BY <1>5, <1>k, <2>1 DEF Plan, Reasons, Live
  <1>6. CASE ~keeps /\ copy.status # "past_due"
    <2>1. Reason(s, copy) = "ended"
      BY <1>6, <1>k DEF Reason
    <2>2. copy.status \notin {"active", "trialing"}
      BY <1>6, <1>k DEF KeepsPlan
    <2> QED
      BY <1>1, <1>6, <1>k, <2>1, <2>2 DEF Plan, Reasons, Live, Statuses
  <1> QED
    BY <1>3, <1>4, <1>5, <1>6

\* The row is written from the copy.
LEMMA WriteDoes ==
  ASSUME TypeOK, NEW h \in Handlers, sub[h] \in Subs, Write(h)
  PROVE  /\ TypeOK' /\ UNCHANGED <<stripe, event, claim, cadence, seen, prev, outcome, setting, faults>>
         /\ pc[h] = "writing" /\ Moves(h, "mailing")
         /\ LET s == sub[h]
                r == row'[UserOf[s]]
            IN  /\ r.customer = customer[s] /\ r.sub = s /\ r.status = seen[h].status
                /\ r.plan = Plan(s, seen[h]) /\ r.reason = Reason(s, seen[h])
                /\ welcomes'[UserOf[s]] = IF Plan(s, seen[h]) THEN welcomes[UserOf[s]] ELSE 0
         /\ \A v \in Users : v # UserOf[sub[h]] => row'[v] = row[v] /\ welcomes'[v] = welcomes[v]
  <1>0. HandlerType /\ StripeType /\ RowsType /\ sub[h] \in Subs
    BY TypeParts
  <1>s. PICK s \in Subs : s = sub[h]
    OBVIOUS
  <1>u. PICK u \in Users : u = UserOf[s]
    BY SubsAssumption
  <1>y. PICK why \in Reasons : why = Reason(s, seen[h])
    BY <1>0, ReasonFacts DEF HandlerType
  <1>p. PICK plan \in BOOLEAN : plan = Plan(s, seen[h])
    BY <1>0, ReasonFacts DEF HandlerType
  <1>r. PICK r : r = [row[u] EXCEPT !.customer = customer[s], !.sub = s, !.status = seen[h].status,
                                    !.plan = plan, !.reason = why]
    OBVIOUS
  <1>1. /\ pc[h] = "writing" /\ row' = [row EXCEPT ![u] = r]
        /\ welcomes' = [welcomes EXCEPT ![u] = IF plan THEN welcomes[u] ELSE 0]
        /\ Goto(h, "mailing")
        /\ UNCHANGED <<stripe, event, claim, cadence, sub, kind, seen, prev, outcome, setting, faults>>
    BY <1>s, <1>u, <1>y, <1>p, <1>r DEF Write
  <1>2. /\ row \in [Users -> Rows] /\ row[u] \in Rows /\ customer[s] \in Customers \union {NoCustomer}
        /\ seen[h].status \in Statuses /\ welcomes \in [Users -> 0 .. 2] /\ welcomes[u] \in 0 .. 2
    BY <1>0 DEF RowsType, StripeType, HandlerType, Copies
  <1>3. /\ r \in Rows /\ r.customer = customer[s] /\ r.sub = s /\ r.status = seen[h].status
        /\ r.plan = plan /\ r.reason = why
    BY <1>2, <1>r DEF Rows
  <1>4. row' \in [Users -> Rows] /\ row'[u] = r /\ \A v \in Users : v # u => row'[v] = row[v]
    BY <1>1, <1>2, <1>3
  <1>5. /\ welcomes' \in [Users -> 0 .. 2] /\ welcomes'[u] = (IF plan THEN welcomes[u] ELSE 0)
        /\ \A v \in Users : v # u => welcomes'[v] = welcomes[v]
    <2>1. PICK n \in 0 .. 2 : n = IF plan THEN welcomes[u] ELSE 0
      BY <1>2
    <2>2. welcomes' = [welcomes EXCEPT ![u] = n]
      BY <1>1, <2>1
    <2> QED
      BY <1>2, <2>1, <2>2
  <1>6. HandlerType' /\ Moves(h, "mailing")
    BY <1>0, <1>1, Stages, GotoDoes DEF HandlerType, Moves, Others
  <1>7. StripeType' /\ RowsType'
    BY <1>0, <1>1, <1>4, <1>5 DEF StripeType, RowsType, stripe
  <1>8. TypeOK'
    BY <1>6, <1>7, TypeParts
  <1> QED
    BY <1>1, <1>3, <1>4, <1>5, <1>6, <1>8, <1>s, <1>u, <1>y, <1>p

\* The mails change nothing the row says of its subscription.
LEMMA MailDoes ==
  ASSUME TypeOK, NEW h \in Handlers, sub[h] \in Subs, Mail(h)
  PROVE  /\ TypeOK' /\ UNCHANGED <<stripe, event, claim, cadence, seen, prev, outcome, setting, faults>>
         /\ pc[h] = "mailing"
         /\ \/ Reason(sub[h], seen[h]) = "ended" /\ Moves(h, "switching")
            \/ Reason(sub[h], seen[h]) # "ended" /\ Moves(h, "completing")
         /\ \A v \in Users : SameRow(v) /\ row'[v].customer = row[v].customer
         /\ welcomes'[UserOf[sub[h]]] =
               IF Welcomes(h) /\ welcomes[UserOf[sub[h]]] < 2 THEN welcomes[UserOf[sub[h]]] + 1 ELSE welcomes[UserOf[sub[h]]]
         /\ \A v \in Users : v # UserOf[sub[h]] => welcomes'[v] = welcomes[v]
  <1>0. HandlerType /\ StripeType /\ RowsType /\ sub[h] \in Subs
    BY TypeParts
  <1>u. PICK u \in Users : u = UserOf[sub[h]]
    BY SubsAssumption
  <1>k. PICK to : to = IF Reason(sub[h], seen[h]) = "ended" THEN "switching" ELSE "completing"
    OBVIOUS
  <1>m. PICK m : m = IF Activates(h, u) THEN sub[h] ELSE row[u].mailed
    OBVIOUS
  <1>n. PICK n : n = IF Welcomes(h) /\ welcomes[u] < 2 THEN welcomes[u] + 1 ELSE welcomes[u]
    OBVIOUS
  <1>1. /\ pc[h] = "mailing" /\ Goto(h, to)
        /\ welcomes' = [welcomes EXCEPT ![u] = n]
        /\ row' = [row EXCEPT ![u] = [row[u] EXCEPT !.mailed = m]]
        /\ UNCHANGED <<stripe, event, claim, cadence, sub, kind, seen, prev, outcome, setting, faults>>
    BY <1>u, <1>k, <1>m, <1>n DEF Mail
  <1>2. /\ row \in [Users -> Rows] /\ row[u] \in Rows /\ m \in Subs \union {NoSub}
        /\ welcomes \in [Users -> 0 .. 2] /\ welcomes[u] \in 0 .. 2
    BY <1>0, <1>m DEF RowsType, Rows
  <1>r. PICK r : r = [row[u] EXCEPT !.mailed = m]
    OBVIOUS
  <1>3. /\ r \in Rows /\ r.customer = row[u].customer /\ r.sub = row[u].sub
        /\ r.status = row[u].status /\ r.plan = row[u].plan /\ r.reason = row[u].reason
    BY <1>2, <1>r DEF Rows
  <1>4. row' \in [Users -> Rows] /\ row'[u] = r /\ \A v \in Users : v # u => row'[v] = row[v]
    BY <1>1, <1>2, <1>3, <1>r
  <1>5. n \in 0 .. 2
    BY <1>2, <1>n
  <1>6. /\ welcomes' \in [Users -> 0 .. 2] /\ welcomes'[u] = n /\ \A v \in Users : v # u => welcomes'[v] = welcomes[v]
    BY <1>1, <1>2, <1>5
  <1>7. to \in Locked \union {"idle", "received", "completing"}
    BY <1>k, Stages
  <1>8. HandlerType' /\ Moves(h, to)
    BY <1>0, <1>1, <1>7, GotoDoes DEF HandlerType, Others, Moves
  <1>9. StripeType' /\ RowsType'
    BY <1>0, <1>1, <1>4, <1>6 DEF StripeType, RowsType, stripe
  <1>10. TypeOK'
    BY <1>8, <1>9, TypeParts
  <1>11. \A v \in Users : SameRow(v) /\ row'[v].customer = row[v].customer
    BY <1>3, <1>4 DEF SameRow
  <1> QED
    BY <1>1, <1>6, <1>8, <1>10, <1>11, <1>u, <1>k, <1>n

\* The schedules of the customer go.
LEMMA SwitchOffDoes ==
  ASSUME TypeOK, NEW h \in Handlers, sub[h] \in Subs, SwitchOff(h)
  PROVE  /\ TypeOK' /\ UNCHANGED <<stripe, event, row, claim, seen, prev, outcome, setting, history>>
         /\ pc[h] = "switching" /\ Moves(h, "completing")
         /\ \A v \in Users : cadence'[v] = IF row[v].customer = customer[sub[h]] THEN "manual" ELSE cadence[v]
  <1>0. HandlerType /\ StripeType /\ RowsType
    BY TypeParts
  <1>1. /\ pc[h] = "switching" /\ Goto(h, "completing")
        /\ cadence' = [u \in Users |-> IF row[u].customer = customer[sub[h]] THEN "manual" ELSE cadence[u]]
        /\ UNCHANGED <<stripe, event, row, claim, sub, kind, seen, prev, outcome, setting, history>>
    BY DEF SwitchOff
  <1>2. HandlerType' /\ Moves(h, "completing")
    BY <1>0, <1>1, Stages, GotoDoes DEF HandlerType, Moves, Others
  <1>3. cadence' \in [Users -> {"manual", "set", "late"}]
    BY <1>0, <1>1 DEF RowsType
  <1>4. StripeType' /\ RowsType'
    BY <1>0, <1>1, <1>3 DEF StripeType, RowsType, stripe, history
  <1> QED
    BY <1>1, <1>2, <1>4, TypeParts

\* The event is done, and the handler free.
LEMMA CompleteDoes ==
  ASSUME TypeOK, NEW h \in Handlers, sub[h] \in Subs, Complete(h)
  PROVE  /\ TypeOK' /\ UNCHANGED <<stripe, db, setting, history>>
         /\ pc[h] = "completing" /\ pc'[h] = "idle" /\ Others(h)
         /\ \A t \in Subs, k \in Kinds : event'[t][k] = IF t = sub[h] /\ k = kind[h] THEN "done" ELSE event[t][k]
  <1>0. HandlerType /\ StripeType /\ RowsType /\ kind[h] \in Kinds
    BY TypeParts DEF HandlerType
  <1>1. /\ pc[h] = "completing" /\ Answer(h) /\ UNCHANGED <<stripe, db, setting, history>>
        /\ event' = [event EXCEPT ![sub[h]] = [event[sub[h]] EXCEPT ![kind[h]] = "done"]]
    BY DEF Complete
  <1>2. HandlerType' /\ pc'[h] = "idle" /\ Others(h)
    BY <1>0, <1>1, AnswerDoes
  <1>3. /\ event' \in [Subs -> [Kinds -> {"unsent", "open", "done"}]]
        /\ \A t \in Subs, k \in Kinds : event'[t][k] = IF t = sub[h] /\ k = kind[h] THEN "done" ELSE event[t][k]
    BY <1>0, <1>1 DEF StripeType
  <1>4. StripeType' /\ RowsType'
    BY <1>0, <1>1, <1>3 DEF StripeType, RowsType, stripe, db, history
  <1> QED
    BY <1>1, <1>2, <1>3, <1>4, TypeParts

\* A delivery that gives up, or dies, leaves all but itself.
LEMMA GiveUpDoes ==
  ASSUME TypeOK, NEW h \in Handlers, LockTimeout(h) \/ Fails(h)
  PROVE  /\ TypeOK' /\ UNCHANGED <<stripe, event, db, setting, welcomes>>
         /\ pc[h] # "idle" /\ pc'[h] = "idle" /\ Others(h)
  <1>0. HandlerType /\ StripeType /\ RowsType
    BY TypeParts
  <1>1. Answer(h) /\ UNCHANGED <<stripe, event, db, setting, welcomes>> /\ pc[h] # "idle"
    BY DEF LockTimeout, Fails, history
  <1>2. HandlerType' /\ pc'[h] = "idle" /\ Others(h)
    BY <1>0, <1>1, AnswerDoes
  <1>3. faults' \in 0 .. MaxFaults
    <2>1. CASE LockTimeout(h)
      BY <1>0, <2>1 DEF LockTimeout, history, RowsType
    <2>2. CASE Fails(h)
      BY <1>0, <2>2, SwitchAssumption DEF Fails, RowsType
    <2> QED
      BY <2>1, <2>2
  <1>4. StripeType' /\ RowsType'
    BY <1>0, <1>1, <1>3 DEF StripeType, RowsType, stripe, db
  <1> QED
    BY <1>1, <1>2, <1>4, TypeParts

\* set_cadence, its read and its write.
LEMMA CadenceDoes ==
  ASSUME TypeOK, NEW u \in Users, CadenceRead(u) \/ CadenceWrite(u)
  PROVE  /\ TypeOK' /\ UNCHANGED <<stripe, event, row, claim, handler, history>>
         /\ \A v \in Users : v # u => cadence'[v] = cadence[v]
         /\ cadence'[u] = cadence[u] \/ cadence'[u] = (IF row[u].plan THEN "set" ELSE "late")
  <1>0. HandlerType /\ StripeType /\ RowsType
    BY TypeParts
  <1>1. UNCHANGED <<stripe, event, row, claim, handler, history>> /\ setting' \subseteq Users
    BY <1>0 DEF CadenceRead, CadenceWrite, db, RowsType
  <1>2. /\ cadence' \in [Users -> {"manual", "set", "late"}]
        /\ \A v \in Users : v # u => cadence'[v] = cadence[v]
        /\ cadence'[u] = cadence[u] \/ cadence'[u] = (IF row[u].plan THEN "set" ELSE "late")
    <2>1. CASE CadenceRead(u)
      BY <1>0, <2>1 DEF CadenceRead, db, RowsType
    <2>2. CASE CadenceWrite(u)
      BY <1>0, <2>2 DEF CadenceWrite, RowsType
    <2> QED
      BY <2>1, <2>2
  <1>3. StripeType' /\ HandlerType' /\ RowsType'
    BY <1>0, <1>1, <1>2 DEF StripeType, HandlerType, RowsType, stripe, handler, history
  <1> QED
    BY <1>1, <1>2, <1>3, TypeParts
-----------------------------------------------------------------------------
(* The lock *)

\* A checkout that is not paid has nothing at Stripe.
SessionInv ==
    \A s \in Subs :
       /\ session[s] # "complete" =>
             /\ status[s] = "none" /\ ~charged[s] /\ dispute[s] = "none" /\ ~mark[s]
             /\ \A k \in Kinds : event[s][k] = "unsent"
       /\ session[s] = "complete" => status[s] # "none" /\ customer[s] # NoCustomer

\* Whoever is at work has an event that was sent.
WorkInv ==
    \A h \in Handlers :
       /\ pc[h] # "idle" => sub[h] \in Subs /\ event[sub[h]][kind[h]] # "unsent"
       /\ pc[h] \in Locked => kind[h] # "checkout"

OneHolder ==
    \A g, h \in Handlers :
       pc[g] \in Locked /\ pc[h] \in Locked /\ customer[sub[g]] = customer[sub[h]] => g = h

BaseInv == TypeOK /\ SessionInv /\ WorkInv /\ OneHolder

\* What a handler may do to Stripe's data and to its own: end or mark its own
\* subscription, send events of it, and take the lock when it is free.
AtWork(h) ==
    /\ pc[h] # "idle" /\ UNCHANGED <<session, customer, carded, charged, dispute>>
    /\ \A t \in Subs : t # sub[h] => status'[t] = status[t] /\ mark'[t] = mark[t]
    /\ status'[sub[h]] \in {status[sub[h]], "canceled"}
    /\ \A t \in Subs, k \in Kinds : event'[t][k] = event[t][k] \/ (t = sub[h] /\ event'[t][k] # "unsent")
    /\ Others(h)
    /\ \/ pc'[h] = "idle"
       \/ /\ sub'[h] = sub[h] /\ kind'[h] = kind[h] /\ pc'[h] # "idle"
          /\ \/ pc'[h] \notin Locked \/ pc[h] \in Locked
             \/ kind[h] # "checkout" /\ \A g \in Handlers : ~Holds(g, customer[sub[h]])

\* Every stage of the webhook is such a step.
LEMMA WebhookDoes ==
  ASSUME BaseInv, NEW h \in Handlers, Webhook(h)
  PROVE  TypeOK' /\ AtWork(h)
  <1>0. TypeOK /\ WorkInv
    BY DEF BaseInv
  <1>1. pc[h] # "idle"
    BY DEF Webhook, CheckoutCompleted, Lock, LockTimeout, FetchDisputed, Judge, Settle, Fetch, ReadRow,
           StillLive, ClaimTrial, Cancel, Write, Mail, SwitchOff, Complete, Fails
  <1>2. sub[h] \in Subs
    BY <1>0, <1>1 DEF WorkInv
  <1>3. CASE CheckoutCompleted(h)
    BY <1>0, <1>1, <1>2, <1>3, BindDoes, Stages DEF AtWork, stripe, Moves
  <1>4. CASE Lock(h)
    BY <1>0, <1>1, <1>2, <1>4, LockDoes, Stages DEF AtWork, stripe, Moves
  <1>5. CASE LockTimeout(h) \/ Fails(h)
    BY <1>0, <1>1, <1>2, <1>5, GiveUpDoes DEF AtWork, stripe
  <1>6. CASE FetchDisputed(h) \/ Fetch(h)
    BY <1>0, <1>1, <1>2, <1>6, FetchDoes, Stages DEF AtWork, stripe, Moves
  <1>7. CASE Judge(h)
    BY <1>0, <1>1, <1>2, <1>7, JudgeDoes, Stages DEF AtWork, stripe, Moves
  <1>8. CASE Settle(h)
    <2>1. /\ TypeOK' /\ UNCHANGED <<session, customer, carded, charged, dispute>>
          /\ pc[h] = "settling" /\ Moves(h, "fetching")
          /\ \A t \in Subs : t # sub[h] => status'[t] = status[t] /\ mark'[t] = mark[t]
      BY <1>0, <1>2, <1>8, SettleDoes
    <2>2. status'[sub[h]] \in {status[sub[h]], "canceled"}
      BY <1>0, <1>2, <1>8, SettleDoes
    <2>3. ASSUME NEW t \in Subs, NEW k \in Kinds
          PROVE  event'[t][k] = event[t][k] \/ (t = sub[h] /\ event'[t][k] = "open")
      <3>1. \/ event' = event
            \/ event'[t][k] = IF t = sub[h] /\ k = "deleted" /\ status[sub[h]] # "canceled" THEN "open" ELSE event[t][k]
            \/ event'[t][k] = IF t = sub[h] /\ k = "held" THEN "open" ELSE event[t][k]
            \/ event'[t][k] = IF t = sub[h] /\ k = "released" THEN "open" ELSE event[t][k]
        <4>1. \/ UNCHANGED event
              \/ \A j \in Subs, i \in Kinds : event'[j][i] = IF j = sub[h] /\ i = "deleted" /\ status[sub[h]] # "canceled" THEN "open" ELSE event[j][i]
              \/ \A j \in Subs, i \in Kinds : event'[j][i] = IF j = sub[h] /\ i = "held" THEN "open" ELSE event[j][i]
              \/ \A j \in Subs, i \in Kinds : event'[j][i] = IF j = sub[h] /\ i = "released" THEN "open" ELSE event[j][i]
          BY <1>0, <1>2, <1>8, SettleDoes
        <4> QED
          BY <4>1
      <3> QED
        BY <3>1
    <2> QED
      BY <1>1, <2>1, <2>2, <2>3, Stages DEF AtWork, Moves
  <1>9. CASE ReadRow(h)
    BY <1>0, <1>1, <1>2, <1>9, ReadRowDoes, Stages DEF AtWork, stripe, Moves
  <1>10. CASE StillLive(h)
    BY <1>0, <1>1, <1>2, <1>10, StillLiveDoes, Stages DEF AtWork, stripe, Moves
  <1>11. CASE ClaimTrial(h)
    BY <1>0, <1>1, <1>2, <1>11, ClaimDoes, Stages DEF AtWork, stripe, Moves
  <1>12. CASE Cancel(h)
    BY <1>0, <1>1, <1>2, <1>12, CancelDoes, Stages DEF AtWork, Moves
  <1>13. CASE Write(h)
    BY <1>0, <1>1, <1>2, <1>13, WriteDoes, Stages DEF AtWork, stripe, Moves
  <1>14. CASE Mail(h)
    BY <1>0, <1>1, <1>2, <1>14, MailDoes, Stages DEF AtWork, stripe, Moves
  <1>15. CASE SwitchOff(h)
    BY <1>0, <1>1, <1>2, <1>15, SwitchOffDoes, Stages DEF AtWork, stripe, Moves
  <1>16. CASE Complete(h)
    BY <1>0, <1>1, <1>2, <1>16, CompleteDoes DEF AtWork, stripe
  <1> QED
    BY <1>3, <1>4, <1>5, <1>6, <1>7, <1>8, <1>9, <1>10, <1>11, <1>12, <1>13, <1>14, <1>15, <1>16 DEF Webhook

\* A handler at work is on a subscription, not on a checkout.
LEMMA OnPaid ==
  ASSUME SessionInv, WorkInv, HandlerType, NEW h \in Handlers, pc[h] # "idle"
  PROVE  sub[h] \in Subs /\ session[sub[h]] = "complete" /\ kind[h] \in Kinds
  BY DEF SessionInv, WorkInv, HandlerType

\* A step outside the handlers, by what it does to the subscription or checkout s.
StripeStep(s) ==
    /\ UNCHANGED <<db, handler, setting, history>>
    /\ \A t \in Subs : t # s => SameAtStripe(t) /\ \A k \in Kinds : event'[t][k] = event[t][k]
    /\ \A k \in Kinds : event[s][k] # "unsent" => event'[s][k] # "unsent"
    /\ session[s] = "complete" => session'[s] = "complete" /\ customer'[s] = customer[s] /\ status'[s] # "none"
    /\ session[s] # "complete" /\ session'[s] # "complete" =>
          /\ status'[s] = status[s] /\ charged'[s] = charged[s] /\ dispute'[s] = dispute[s] /\ mark'[s] = mark[s]
          /\ \A k \in Kinds : event'[s][k] = event[s][k]
    /\ session'[s] = "complete" => status'[s] # "none"
    /\ session[s] # "complete" /\ session'[s] = "complete" => customer'[s] # NoCustomer

\* Customers and Stripe make such steps.
LEMMA StripeDoes ==
  ASSUME BaseInv, NEW s \in Subs,
         \/ CheckoutRead(s) \/ CheckoutAsk(s) \/ Pay(s) \/ End(s)
         \/ \E k \in Changes : Change(s, k)
         \/ \E to \in {"open", "won", "lost"} : Dispute(s, to)
  PROVE  TypeOK' /\ StripeStep(s)
  <1>0. TypeOK /\ SessionInv /\ StripeType
    BY TypeParts DEF BaseInv
  <1>1. CASE CheckoutRead(s) \/ CheckoutAsk(s)
    BY <1>0, <1>1, BuyDoes DEF StripeStep, SameAtStripe
  <1>2. CASE Pay(s)
    BY <1>0, <1>2, PayDoes DEF StripeStep, SameAtStripe, Live
  <1>3. CASE End(s)
    BY <1>0, <1>3, EndDoes DEF StripeStep, SameAtStripe, Live, SessionInv
  <1>4. CASE \E k \in Changes : Change(s, k)
    <2>1. PICK k \in Changes : Change(s, k)
      BY <1>4
    <2>2. session[s] = "complete"
      BY <1>0, <2>1, ChangeDoes DEF SessionInv, Live
    <2> QED
      BY <1>0, <2>1, <2>2, ChangeDoes DEF StripeStep, SameAtStripe, Live
  <1>5. CASE \E to \in {"open", "won", "lost"} : Dispute(s, to)
    <2>1. PICK to \in {"open", "won", "lost"} : Dispute(s, to)
      BY <1>5
    <2>2. session[s] = "complete" /\ status[s] # "none"
      BY <1>0, <2>1, DisputeDoes DEF SessionInv
    <2> QED
      BY <1>0, <2>1, <2>2, DisputeDoes DEF StripeStep, SameAtStripe
  <1> QED
    BY <1>1, <1>2, <1>3, <1>4, <1>5

\* The lock and what it rests on are kept by every step.
LEMMA BaseStep ==
  ASSUME BaseInv, [Next]_vars
  PROVE  BaseInv'
  <1>0. TypeOK /\ SessionInv /\ WorkInv /\ OneHolder /\ HandlerType /\ StripeType
    BY TypeParts DEF BaseInv
  <1>1. ASSUME NEW s \in Subs, StripeStep(s), TypeOK'
        PROVE  BaseInv'
    <2>1. UNCHANGED <<pc, sub, kind>>
      BY <1>1 DEF StripeStep, handler
    <2>2. SessionInv'
      BY <1>0, <1>1 DEF StripeStep, SameAtStripe, SessionInv
    <2>3. \A g \in Handlers : pc[g] # "idle" => customer'[sub[g]] = customer[sub[g]]
      BY <1>0, <1>1, OnPaid DEF StripeStep, SameAtStripe
    <2>4. \A g \in Handlers : pc[g] # "idle" => event'[sub[g]][kind[g]] # "unsent"
      BY <1>0, <1>1, OnPaid DEF StripeStep, WorkInv
    <2>5. WorkInv'
      BY <1>0, <2>1, <2>4 DEF WorkInv
    <2>6. OneHolder'
      BY <1>0, <2>1, <2>3, Stages DEF OneHolder
    <2> QED
      BY <1>1, <2>2, <2>5, <2>6 DEF BaseInv
  <1>2. ASSUME NEW h \in Handlers, NEW s \in Subs, NEW k \in Kinds, Receive(h, s, k)
        PROVE  BaseInv'
    <2>1. /\ TypeOK' /\ UNCHANGED <<stripe, event>> /\ event[s][k] = "open"
          /\ pc'[h] = "received" /\ sub'[h] = s /\ kind'[h] = k /\ Others(h)
      BY <1>0, <1>2, ReceiveDoes
    <2>2. SessionInv'
      BY <1>0, <2>1 DEF SessionInv, stripe
    <2>3. WorkInv'
      BY <1>0, <2>1, Stages DEF WorkInv, Others
    <2>4. OneHolder'
      BY <1>0, <2>1, Stages DEF OneHolder, Others, stripe
    <2> QED
      BY <2>1, <2>2, <2>3, <2>4 DEF BaseInv
  <1>3. ASSUME NEW h \in Handlers, Webhook(h)
        PROVE  BaseInv'
    <2>1. TypeOK' /\ AtWork(h) /\ StripeType' /\ HandlerType'
      BY <1>3, WebhookDoes, TypeParts DEF TypeOK, StripeType, HandlerType
    <2>2. sub[h] \in Subs /\ session[sub[h]] = "complete" /\ kind[h] \in Kinds
      BY <1>0, <2>1, OnPaid DEF AtWork
    <2>3. SessionInv'
      BY <1>0, <2>1, <2>2 DEF SessionInv, AtWork
    <2>4. \A g \in Handlers : pc[g] # "idle" => event'[sub[g]][kind[g]] # "unsent"
      BY <1>0, <2>1, OnPaid DEF AtWork, WorkInv
    <2>5. WorkInv'
      BY <1>0, <2>1, <2>2, <2>4, Stages DEF WorkInv, AtWork, Others
    <2>6. OneHolder'
      BY <1>0, <2>1, Stages DEF OneHolder, AtWork, Others, Holds
    <2> QED
      BY <2>1, <2>3, <2>5, <2>6 DEF BaseInv
  <1>4. ASSUME NEW u \in Users, CadenceRead(u) \/ CadenceWrite(u)
        PROVE  BaseInv'
    <2>1. TypeOK' /\ UNCHANGED <<stripe, event, handler>>
      BY <1>0, <1>4, CadenceDoes
    <2> QED
      BY <1>0, <2>1 DEF BaseInv, SessionInv, WorkInv, OneHolder, stripe, handler
  <1>5. CASE UNCHANGED vars
    BY <1>0, <1>5 DEF BaseInv, TypeOK, SessionInv, WorkInv, OneHolder, vars, stripe, handler, db, history
  <1>6. CASE Next
    BY <1>1, <1>2, <1>3, <1>4, <1>6, StripeDoes DEF Next
  <1> QED
    BY <1>5, <1>6

\* Nothing is paid, nothing claimed, and nobody at work.
LEMMA Start ==
  ASSUME Init
  PROVE  /\ \A s \in Subs : /\ session[s] = "none" /\ status[s] = "none" /\ dispute[s] = "none"
                            /\ ~mark[s] /\ ~charged[s] /\ claim[s] = "none"
                            /\ \A k \in Kinds : event[s][k] = "unsent"
         /\ \A h \in Handlers : pc[h] = "idle"
         /\ \A u \in Users : cadence[u] = "manual" /\ welcomes[u] = 0
  <1>1. /\ session = [s \in Subs |-> "none"] /\ status = [s \in Subs |-> "none"]
        /\ dispute = [s \in Subs |-> "none"] /\ mark = [s \in Subs |-> FALSE] /\ charged = [s \in Subs |-> FALSE]
        /\ claim = [s \in Subs |-> "none"] /\ event = [s \in Subs |-> [k \in Kinds |-> "unsent"]]
        /\ pc = [h \in Handlers |-> "idle"]
        /\ cadence = [u \in Users |-> "manual"] /\ welcomes = [u \in Users |-> 0]
    BY Zenon DEF Init
  <1> QED
    BY <1>1

\* The lock is free at first.
LEMMA BaseStart == Init => BaseInv
  <1> SUFFICES ASSUME Init PROVE BaseInv
    OBVIOUS
  <1>1. HandlerType
    BY Blank, KindFacts DEF Init, HandlerType
  <1>2. StripeType
    BY DEF Init, StripeType, Statuses
  <1>3. ASSUME NEW u \in Returning
        PROVE  [NoRow EXCEPT !.customer = u, !.status = "canceled", !.reason = "ended"] \in Rows
    BY Blank, SubsAssumption DEF Rows, Customers, Statuses, Reasons
  <1>4. row \in [Users -> Rows]
    BY <1>3, Blank DEF Init
  <1>5. RowsType
    <2>1. /\ claim = [s \in Subs |-> "none"] /\ cadence = [u \in Users |-> "manual"] /\ setting = {}
          /\ faults = 0 /\ welcomes = [u \in Users |-> 0]
      BY Zenon DEF Init
    <2> QED
      BY <1>4, <2>1, SwitchAssumption DEF RowsType
  <1>6. TypeOK
    BY <1>1, <1>2, <1>5 DEF TypeOK, HandlerType, StripeType, RowsType
  <1>7. SessionInv
    BY DEF Init, SessionInv
  <1>8. WorkInv /\ OneHolder
    BY Stages DEF Init, WorkInv, OneHolder
  <1> QED
    BY <1>6, <1>7, <1>8 DEF BaseInv

\* with_customer_lock: at any time at most one handler is between the lock and the
\* end of its work for a customer, however deliveries are repeated and die, and
\* although the customer of a checkout is known only when it is paid.
THEOREM OneAtATime == Spec => []LockInv
  <1>1. BaseInv => LockInv
    BY Stages DEF BaseInv, LockInv, OneHolder, Holds
  <1> QED
    BY <1>1, BaseStart, BaseStep, PTL DEF Spec
-----------------------------------------------------------------------------
(* The way of a delivery, and what Stripe tells *)

\* From stage to stage.
Way(h) ==
    LET s == sub[h]
        r == row[UserOf[s]]
        to == pc'[h]
    IN  \/ to = "idle"
        \/ pc[h] = "received" /\ kind[h] = "checkout" /\ to = "completing"
        \/ pc[h] = "received" /\ kind[h] # "checkout" /\ kind[h] \in DisputeKinds /\ to = "disputing"
        \/ pc[h] = "received" /\ kind[h] # "checkout" /\ kind[h] \notin DisputeKinds /\ to = "fetching"
        \/ pc[h] = "disputing" /\ to = "judging" /\ seen'[h] = Copy(s)
        \/ pc[h] = "judging" /\ to = "settling" /\ outcome'[h] = dispute[s]
        \/ pc[h] = "settling" /\ to = "fetching"
        \/ pc[h] = "fetching" /\ to = "reading" /\ seen'[h] = Copy(s)
        \/ pc[h] = "reading" /\ prev'[h] = r /\ Replaced(h, r) /\ to = "completing"
        \/ pc[h] = "reading" /\ prev'[h] = r /\ Second(h, r) /\ to = "doubting"
        \/ pc[h] = "reading" /\ prev'[h] = r /\ ~Replaced(h, r) /\ s \in ThreeDay /\ to = "claiming"
        \/ pc[h] = "reading" /\ prev'[h] = r /\ ~Replaced(h, r) /\ ~Second(h, r) /\ s \notin ThreeDay /\ to = "writing"
        \/ pc[h] = "doubting" /\ Live(status[prev[h].sub]) /\ to = "cancelling"
        \/ pc[h] = "doubting" /\ ~Live(status[prev[h].sub]) /\ to = "writing"
        \/ pc[h] = "claiming" /\ to = "writing"
        \/ pc[h] = "claiming" /\ seen[h].status = "trialing" /\ to = "cancelling"
        \/ pc[h] = "cancelling" /\ to = "completing"
        \/ pc[h] = "writing" /\ to = "mailing"
        \/ pc[h] = "mailing" /\ Reason(s, seen[h]) = "ended" /\ to = "switching"
        \/ pc[h] = "mailing" /\ Reason(s, seen[h]) # "ended" /\ to = "completing"
        \/ pc[h] = "switching" /\ to = "completing"

\* What it takes along.
Carries(h) ==
    pc'[h] # "idle" =>
       /\ sub'[h] = sub[h] /\ kind'[h] = kind[h]
       /\ pc'[h] \notin {"judging", "reading"} => seen'[h] = seen[h]
       /\ pc'[h] # "settling" => outcome'[h] = outcome[h]
       /\ pc[h] # "reading" => prev'[h] = prev[h]

\* What it leaves alone: other subscriptions, the events that are open but for its
\* own at the end, and the rows but for its own when it writes.
Spares(h) ==
    /\ Others(h)
    /\ \A t \in Subs : t # sub[h] \/ pc[h] \notin {"settling", "cancelling"} \/ pc'[h] = "idle" => SameAtStripe(t)
    /\ \A t \in Subs, k \in Kinds :
          event[t][k] = "open" => event'[t][k] = "open" \/ (t = sub[h] /\ k = kind[h] /\ pc[h] = "completing")
    /\ \A t \in Subs, k \in Kinds : event[t][k] = "unsent" =>
          \/ event'[t][k] = "unsent"
          \/ t = sub[h] /\ k = "deleted" /\ status'[t] = "canceled"
          \/ t = sub[h] /\ k \in {"held", "released"} /\ pc[h] = "settling" /\ pc'[h] # "idle"
    /\ \A t \in Subs : mark'[t] = mark[t] \/ (t = sub[h] /\ pc[h] = "settling" /\ pc'[h] # "idle")
    /\ claim' = claim \/ (pc[h] = "claiming" /\ pc'[h] # "idle")
    /\ welcomes' = welcomes \/ (pc[h] \in {"writing", "mailing"} /\ pc'[h] # "idle")
    /\ \A v \in Users : cadence'[v] = cadence[v] \/ (cadence'[v] = "manual" /\ pc[h] = "switching" /\ pc'[h] # "idle")
    /\ \A v \in Users : SameRow(v) \/ (v = UserOf[sub[h]] /\ pc[h] = "writing" /\ pc'[h] = "mailing")
    /\ \A v \in Users : \/ row'[v].customer = row[v].customer
                        \/ v = UserOf[sub[h]] /\ row'[v].customer = customer[sub[h]]

Progress(h) == Way(h) /\ Carries(h) /\ Spares(h)

\* Every stage is one of these.
LEMMA WebhookProgress ==
  ASSUME BaseInv, NEW h \in Handlers, Webhook(h)
  PROVE  Progress(h)
  <1>0. /\ TypeOK /\ sub[h] \in Subs /\ pc[h] # "idle" /\ UserOf[sub[h]] \in Users
        /\ event[sub[h]][kind[h]] # "unsent"
    BY WebhookDoes, SubsAssumption DEF BaseInv, AtWork, WorkInv
  <1> USE DEF Progress, Carries, Moves
  <1>3. CASE CheckoutCompleted(h)
    <2>1. Way(h) /\ Carries(h)
      BY <1>0, <1>3, BindDoes DEF Way, Others
    <2> QED
      BY <1>0, <1>3, <2>1, BindDoes DEF Spares, history, SameAtStripe, stripe
  <1>4. CASE Lock(h)
    <2>1. Way(h) /\ Carries(h)
      BY <1>0, <1>4, LockDoes DEF Way
    <2> QED
      BY <1>0, <1>4, <2>1, LockDoes DEF Spares, history, SameAtStripe, SameRow, stripe, db
  <1>5. CASE LockTimeout(h) \/ Fails(h)
    <2>1. Way(h) /\ Carries(h)
      BY <1>0, <1>5, GiveUpDoes DEF Way
    <2> QED
      BY <1>0, <1>5, <2>1, GiveUpDoes DEF Spares, history, SameAtStripe, SameRow, stripe, db
  <1>6. CASE FetchDisputed(h) \/ Fetch(h)
    <2>1. Way(h) /\ Carries(h)
      BY <1>0, <1>6, FetchDoes DEF Way
    <2> QED
      BY <1>0, <1>6, <2>1, FetchDoes DEF Spares, history, SameAtStripe, SameRow, stripe, db
  <1>7. CASE Judge(h)
    <2>1. Way(h) /\ Carries(h)
      BY <1>0, <1>7, JudgeDoes DEF Way
    <2> QED
      BY <1>0, <1>7, <2>1, JudgeDoes DEF Spares, history, SameAtStripe, SameRow, stripe, db
  <1>8. CASE Settle(h)
    <2>1. /\ UNCHANGED <<session, customer, carded, charged, dispute, db, seen, prev, outcome, setting, history>>
          /\ pc[h] = "settling" /\ Moves(h, "fetching")
          /\ \A t \in Subs : t # sub[h] => status'[t] = status[t] /\ mark'[t] = mark[t]
      BY <1>0, <1>8, SettleDoes
    <2>2. Way(h) /\ Carries(h)
      BY <2>1 DEF Way
    <2>3. \A t \in Subs, k \in Kinds :
            /\ event[t][k] = "open" => event'[t][k] = "open"
            /\ event[t][k] = "unsent" => \/ event'[t][k] = "unsent"
                                         \/ t = sub[h] /\ k = "deleted" /\ status'[t] = "canceled"
                                         \/ t = sub[h] /\ k \in {"held", "released"}
      <3>1. \/ UNCHANGED event
            \/ /\ status'[sub[h]] = "canceled"
               /\ \A j \in Subs, i \in Kinds : event'[j][i] = IF j = sub[h] /\ i = "deleted" /\ status[sub[h]] # "canceled" THEN "open" ELSE event[j][i]
            \/ \A j \in Subs, i \in Kinds : event'[j][i] = IF j = sub[h] /\ i = "held" THEN "open" ELSE event[j][i]
            \/ \A j \in Subs, i \in Kinds : event'[j][i] = IF j = sub[h] /\ i = "released" THEN "open" ELSE event[j][i]
        BY <1>0, <1>8, SettleDoes
      <3> QED
        BY <3>1
    <2> QED
      BY <2>1, <2>2, <2>3 DEF Spares, history, SameAtStripe, SameRow, db
  <1>9. CASE ReadRow(h)
    <2>1. Way(h) /\ Carries(h)
      BY <1>0, <1>9, ReadRowDoes DEF Way
    <2> QED
      BY <1>0, <1>9, <2>1, ReadRowDoes DEF Spares, history, SameAtStripe, SameRow, stripe, db
  <1>10. CASE StillLive(h)
    <2>1. Way(h) /\ Carries(h)
      BY <1>0, <1>10, StillLiveDoes DEF Way
    <2> QED
      BY <1>0, <1>10, <2>1, StillLiveDoes DEF Spares, history, SameAtStripe, SameRow, stripe, db
  <1>11. CASE ClaimTrial(h)
    <2>1. Way(h) /\ Carries(h)
      BY <1>0, <1>11, ClaimDoes DEF Way
    <2> QED
      BY <1>0, <1>11, <2>1, ClaimDoes DEF Spares, history, SameAtStripe, SameRow, stripe
  <1>12. CASE Cancel(h)
    <2>1. Way(h) /\ Carries(h)
      BY <1>0, <1>12, CancelDoes DEF Way
    <2> QED
      BY <1>0, <1>12, <2>1, CancelDoes DEF Spares, history, SameAtStripe, SameRow, db
  <1>13. CASE Write(h)
    <2>1. Way(h) /\ Carries(h)
      BY <1>0, <1>13, WriteDoes DEF Way
    <2> QED
      BY <1>0, <1>13, <2>1, WriteDoes DEF Spares, history, SameAtStripe, SameRow, stripe
  <1>14. CASE Mail(h)
    <2>1. Way(h) /\ Carries(h)
      BY <1>0, <1>14, MailDoes DEF Way
    <2> QED
      BY <1>0, <1>14, <2>1, MailDoes DEF Spares, history, SameAtStripe, stripe
  <1>15. CASE SwitchOff(h)
    <2>1. Way(h) /\ Carries(h)
      BY <1>0, <1>15, SwitchOffDoes DEF Way
    <2> QED
      BY <1>0, <1>15, <2>1, SwitchOffDoes DEF Spares, history, SameAtStripe, SameRow, stripe
  <1>16. CASE Complete(h)
    <2>1. Way(h) /\ Carries(h)
      BY <1>0, <1>16, CompleteDoes DEF Way
    <2> QED
      BY <1>0, <1>16, <2>1, CompleteDoes DEF Spares, history, SameAtStripe, SameRow, stripe, db
  <1> QED
    BY <1>3, <1>4, <1>5, <1>6, <1>7, <1>8, <1>9, <1>10, <1>11, <1>12, <1>13, <1>14, <1>15, <1>16 DEF Webhook

\* The stage tells the step.
LEMMA Which ==
  ASSUME BaseInv, NEW h \in Handlers, Webhook(h), pc'[h] # "idle"
  PROVE  /\ pc[h] = "received" /\ kind[h] = "checkout" => CheckoutCompleted(h)
         /\ pc[h] = "received" /\ kind[h] # "checkout" => Lock(h)
         /\ pc[h] = "settling" => Settle(h)
         /\ pc[h] = "claiming" => ClaimTrial(h)
         /\ pc[h] = "cancelling" => Cancel(h)
         /\ pc[h] = "writing" => Write(h)
         /\ pc[h] = "mailing" => Mail(h)
         /\ pc[h] = "switching" => SwitchOff(h)
  <1>1. TypeOK /\ sub[h] \in Subs
    BY WebhookDoes DEF BaseInv, AtWork, WorkInv
  <1>2. ~LockTimeout(h) /\ ~Fails(h) /\ ~Complete(h)
    BY <1>1, GiveUpDoes, CompleteDoes
  <1> QED
    BY <1>2 DEF Webhook, CheckoutCompleted, Lock, FetchDisputed, Judge, Settle, Fetch, ReadRow,
                StillLive, ClaimTrial, Cancel, Write, Mail, SwitchOff

\* The same for the steps of customers and of Stripe: an end is for good and told
\* by its event, and the events that are open stay so.
Tells(s) ==
    /\ session[s] = "complete" => session'[s] = "complete" /\ customer'[s] = customer[s]
    /\ session[s] = "complete" /\ Live(status'[s]) => Live(status[s])
    /\ status[s] = "canceled" => status'[s] = "canceled"
    /\ status'[s] # "canceled" /\ event[s]["deleted"] = "unsent" => event'[s]["deleted"] = "unsent"
    /\ \A k \in Kinds : event[s][k] = "open" => event'[s][k] = "open"

\* A change that a copy of s would show is told by an event that nobody has yet.
Tidings(s) ==
    \/ Copy(s)' = Copy(s)
    \/ \E j \in Kinds \ {"checkout"} : event[s][j] = "unsent" /\ event'[s][j] = "open"

\* No copy differs where Stripe has changed nothing.
LEMMA SameCopy ==
  ASSUME NEW s \in Subs, SameAtStripe(s)
  PROVE  Copy(s)' = Copy(s) /\ Tidings(s)
  BY DEF SameAtStripe, Copy, Tidings

\* What has ended is told: "deleted" is not sent before.
EndInv == \A s \in Subs : status[s] # "canceled" => event[s]["deleted"] = "unsent"

\* Customers and Stripe make no other steps.
LEMMA StripeTells ==
  ASSUME BaseInv, EndInv, NEW s \in Subs,
         \/ CheckoutRead(s) \/ CheckoutAsk(s) \/ Pay(s) \/ End(s)
         \/ \E k \in Changes : Change(s, k)
         \/ \E to \in {"open", "won", "lost"} : Dispute(s, to)
  PROVE  Tells(s) /\ Tidings(s)
  <1>0. TypeOK /\ SessionInv /\ StripeType
    BY TypeParts DEF BaseInv
  <1>1. CASE CheckoutRead(s) \/ CheckoutAsk(s)
    BY <1>0, <1>1, BuyDoes DEF Tells, Tidings, Copy
  <1>2. CASE Pay(s)
    <2>1. session[s] # "complete" /\ "created" \in Kinds \ {"checkout"} /\ event'[s]["created"] = "open"
      BY <1>0, <1>2, PayDoes, KindFacts
    <2>2. Tidings(s)
      BY <1>0, <2>1 DEF Tidings, SessionInv
    <2> QED
      BY <1>0, <1>2, <2>1, <2>2, PayDoes, KindFacts DEF Tells, SessionInv
  <1>3. CASE End(s)
    <2>1. /\ event[s]["deleted"] = "unsent" /\ "deleted" \in Kinds \ {"checkout"}
          /\ event'[s]["deleted"] = "open"
      BY <1>0, <1>3, EndDoes, KindFacts DEF EndInv, Live
    <2> QED
      BY <1>0, <1>3, <2>1, EndDoes DEF Tells, Tidings, Live
  <1>4. CASE \E k \in Changes : Change(s, k)
    <2>1. PICK k \in Changes : Change(s, k)
      BY <1>4
    <2>2. k \in Kinds \ {"checkout"} /\ k # "deleted"
      BY KindFacts
    <2> QED
      BY <1>0, <2>1, <2>2, ChangeDoes, KindFacts DEF Tells, Tidings, Live
  <1>5. CASE \E to \in {"open", "won", "lost"} : Dispute(s, to)
    <2>1. PICK to \in {"open", "won", "lost"} : Dispute(s, to)
      BY <1>5
    <2>2. Tidings(s)
      BY <1>0, <2>1, DisputeDoes DEF Tidings, Copy
    <2> QED
      BY <1>0, <2>1, <2>2, DisputeDoes, KindFacts DEF Tells
  <1> QED
    BY <1>1, <1>2, <1>3, <1>4, <1>5

\* A dispute is told as well.
Deals(s) ==
    /\ mark'[s] = mark[s] /\ event'[s]["held"] = event[s]["held"] /\ event'[s]["released"] = event[s]["released"]
    /\ \/ /\ dispute'[s] = dispute[s]
          /\ event'[s]["opened"] = event[s]["opened"] /\ event'[s]["closed"] = event[s]["closed"]
       \/ /\ dispute[s] = "none" /\ dispute'[s] = "open" /\ session[s] = "complete"
          /\ event'[s]["opened"] = "open" /\ event'[s]["closed"] = event[s]["closed"]
       \/ /\ dispute[s] = "open" /\ dispute'[s] \in {"won", "lost"}
          /\ event'[s]["opened"] = event[s]["opened"] /\ event'[s]["closed"] = "open"

\* Of a dispute, too.
LEMMA StripeDeals ==
  ASSUME BaseInv, NEW s \in Subs,
         \/ CheckoutRead(s) \/ CheckoutAsk(s) \/ Pay(s) \/ End(s)
         \/ \E k \in Changes : Change(s, k)
         \/ \E to \in {"open", "won", "lost"} : Dispute(s, to)
  PROVE  Deals(s)
  <1>0. TypeOK /\ SessionInv
    BY DEF BaseInv
  <1>1. CASE CheckoutRead(s) \/ CheckoutAsk(s)
    BY <1>0, <1>1, BuyDoes DEF Deals
  <1>2. CASE Pay(s)
    BY <1>0, <1>2, PayDoes, KindFacts DEF Deals
  <1>3. CASE End(s)
    BY <1>0, <1>3, EndDoes, KindFacts DEF Deals
  <1>4. CASE \E k \in Changes : Change(s, k)
    <2>1. PICK k \in Changes : Change(s, k)
      BY <1>4
    <2> QED
      BY <1>0, <2>1, ChangeDoes, KindFacts DEF Deals
  <1>5. CASE \E to \in {"open", "won", "lost"} : Dispute(s, to)
    <2>1. PICK to \in {"open", "won", "lost"} : Dispute(s, to)
      BY <1>5
    <2> QED
      BY <1>0, <2>1, DisputeDoes, KindFacts DEF Deals, SessionInv
  <1> QED
    BY <1>1, <1>2, <1>3, <1>4, <1>5

\* A step in which no handler has a part.
Outside ==
    /\ UNCHANGED <<handler, row, claim, welcomes>>
    /\ \A s \in Subs : Tells(s) /\ Tidings(s) /\ Deals(s)
    /\ \A u \in Users : cadence'[u] = cadence[u] \/ cadence'[u] # "set" \/ row[u].plan

\* A step has no part for a handler, begins a delivery, or goes on with one.
LEMMA Steps ==
  ASSUME BaseInv, EndInv, [Next]_vars
  PROVE  \/ Outside
         \/ \E h \in Handlers, s \in Subs, k \in Kinds : Receive(h, s, k)
         \/ \E h \in Handlers : Webhook(h)
  <1>0. TypeOK
    BY DEF BaseInv
  <1>1. ASSUME NEW s \in Subs, SameAtStripe(s), \A k \in Kinds : event'[s][k] = event[s][k]
        PROVE  Tells(s) /\ Tidings(s) /\ Deals(s)
    BY <1>1, SameCopy, KindFacts DEF SameAtStripe, Tells, Deals
  <1>2. ASSUME NEW s \in Subs,
               \/ CheckoutRead(s) \/ CheckoutAsk(s) \/ Pay(s) \/ End(s)
               \/ \E k \in Changes : Change(s, k)
               \/ \E to \in {"open", "won", "lost"} : Dispute(s, to)
        PROVE  Outside
    <2>1. StripeStep(s) /\ Tells(s) /\ Tidings(s) /\ Deals(s)
      BY <1>2, StripeDoes, StripeTells, StripeDeals
    <2> QED
      BY <1>1, <2>1 DEF Outside, StripeStep, db, history
  <1>3. ASSUME UNCHANGED <<stripe, event, row, claim, handler, welcomes>>,
               \A u \in Users : cadence'[u] = cadence[u] \/ cadence'[u] # "set" \/ row[u].plan
        PROVE  Outside
    <2>1. \A s \in Subs : SameAtStripe(s) /\ \A k \in Kinds : event'[s][k] = event[s][k]
      BY <1>3 DEF stripe, SameAtStripe
    <2> QED
      BY <1>1, <1>3, <2>1 DEF Outside
  <1>4. ASSUME NEW u \in Users, CadenceRead(u) \/ CadenceWrite(u)
        PROVE  Outside
    BY <1>0, <1>3, <1>4, CadenceDoes DEF history
  <1>5. CASE UNCHANGED vars
    BY <1>3, <1>5 DEF vars, db, history
  <1>6. CASE Next
    BY <1>2, <1>4, <1>6 DEF Next
  <1> QED
    BY <1>5, <1>6
-----------------------------------------------------------------------------
(* What a handler has read *)

\* The stages from the copy to the row, and all stages that have a copy.
Copying == {"reading", "doubting", "claiming", "cancelling", "writing"}
Reading == {"judging", "settling", "mailing", "switching"} \union Copying

\* A copy that says "canceled" is never out of date.
SeenInv ==
    /\ EndInv
    /\ \A h \in Handlers :
         /\ pc[h] \in Reading => /\ seen[h].status # "none"
                                 /\ seen[h].status = "canceled" => status[sub[h]] = "canceled"
         /\ pc[h] \in {"doubting", "cancelling"} => Live(seen[h].status)

\* Nobody has read anything yet.
LEMMA SeenStart == Init => SeenInv
  BY Start, KindFacts DEF SeenInv, EndInv, Reading, Copying

\* A copy is read while the subscription exists, and what has ended does not come back.
LEMMA SeenStep ==
  ASSUME BaseInv, SeenInv, [Next]_vars
  PROVE  SeenInv'
  <1>0. TypeOK /\ SessionInv /\ WorkInv /\ HandlerType /\ StripeType /\ EndInv
    BY TypeParts DEF BaseInv, SeenInv
  <1>1. CASE Outside
    <2>1. EndInv'
      BY <1>0, <1>1 DEF Outside, Tells, EndInv
    <2>2. ASSUME NEW g \in Handlers, pc[g] # "idle"
          PROVE  sub[g] \in Subs /\ (status[sub[g]] = "canceled" => status'[sub[g]] = "canceled")
      BY <1>0, <1>1, <2>2 DEF Outside, Tells, WorkInv
    <2>3. \A g \in Handlers : pc[g] \in Reading => pc[g] # "idle"
      BY DEF Reading, Copying
    <2> QED
      BY <1>1, <2>1, <2>2, <2>3 DEF Outside, handler, SeenInv
  <1>2. CASE \E h \in Handlers, s \in Subs, k \in Kinds : Receive(h, s, k)
    <2>1. PICK h \in Handlers, s \in Subs, k \in Kinds : Receive(h, s, k)
      BY <1>2
    <2>2. UNCHANGED <<stripe, event>> /\ pc'[h] = "received" /\ Others(h)
      BY <1>0, <2>1, ReceiveDoes
    <2>3. EndInv'
      BY <1>0, <2>2 DEF EndInv, stripe
    <2> QED
      BY <2>2, <2>3 DEF SeenInv, Others, stripe, Reading, Copying
  <1>3. CASE \E h \in Handlers : Webhook(h)
    <2>1. PICK h \in Handlers : Webhook(h)
      BY <1>3
    <2>2. AtWork(h) /\ Way(h) /\ Carries(h) /\ Spares(h)
      BY <2>1, WebhookDoes, WebhookProgress DEF Progress
    <2>3. sub[h] \in Subs /\ session[sub[h]] = "complete"
      BY <1>0, <2>2, OnPaid DEF AtWork
    <2>4. \A t \in Subs : status'[t] \in {status[t], "canceled"}
      BY <2>2, <2>3 DEF AtWork
    <2>5. EndInv'
      BY <1>0, <2>2, <2>4, KindFacts DEF EndInv, Spares
    <2>6. ASSUME NEW g \in Handlers, g # h
          PROVE  /\ pc'[g] \in Reading => /\ seen'[g].status # "none"
                                          /\ seen'[g].status = "canceled" => status'[sub'[g]] = "canceled"
                 /\ pc'[g] \in {"doubting", "cancelling"} => Live(seen'[g].status)
      <3>1. pc'[g] = pc[g] /\ sub'[g] = sub[g] /\ seen'[g] = seen[g]
        BY <2>2, <2>6 DEF Spares, Others
      <3>2. pc[g] \in Reading => sub[g] \in Subs
        BY <1>0 DEF WorkInv, Reading, Copying
      <3> QED
        BY <2>4, <3>1, <3>2 DEF SeenInv
    <2>7. Copy(sub[h]).status = status[sub[h]] /\ status[sub[h]] # "none"
      BY <1>0, <2>3, CopyType DEF SessionInv
    <2>8. /\ pc'[h] \in Reading => /\ seen'[h].status # "none"
                                   /\ seen'[h].status = "canceled" => status'[sub'[h]] = "canceled"
          /\ pc'[h] \in {"doubting", "cancelling"} => Live(seen'[h].status)
      <3>1. pc'[h] \in Reading => sub'[h] = sub[h]
        BY <2>2 DEF Carries, Reading, Copying
      <3>2. CASE pc'[h] \in {"judging", "reading"}
        BY <2>2, <2>3, <2>4, <2>7, <3>1, <3>2 DEF Way, Reading, Copying
      <3>3. CASE pc'[h] \in Reading \ {"judging", "reading"}
        <4>1. pc[h] \in Reading /\ seen'[h] = seen[h]
          BY <2>2, <3>3 DEF Way, Carries, Reading, Copying
        <4>2. pc'[h] \in {"doubting", "cancelling"} => Live(seen[h].status)
          BY <2>2 DEF Way, Second, Live, SeenInv
        <4> QED
          BY <2>3, <2>4, <3>1, <4>1, <4>2 DEF SeenInv
      <3> QED
        BY <3>2, <3>3 DEF Reading, Copying
    <2> QED
      BY <2>5, <2>6, <2>8 DEF SeenInv
  <1> QED
    BY <1>0, <1>1, <1>2, <1>3, Steps
-----------------------------------------------------------------------------
(* Disputes *)

\* A handler has the event k of s.
On(h, s, k) == pc[h] # "idle" /\ sub[h] = s /\ kind[h] = k

\* Marks and disputes are told: the hold once, and the release after it once.
MarkInv ==
    \A s \in Subs :
       /\ dispute[s] = "none" => event[s]["opened"] = "unsent"
       /\ dispute[s] \in {"none", "open"} => event[s]["closed"] = "unsent"
       /\ event[s]["held"] # "unsent" => mark[s] \/ event[s]["released"] # "unsent"
       /\ event[s]["released"] # "unsent" => dispute[s] = "won" /\ ~mark[s]
       /\ mark[s] => event[s]["held"] # "unsent" /\ dispute[s] # "none"

\* The dispute was decided after h looked at it: the bank's event is still to come.
Overtaken(h) ==
    /\ outcome[h] = "open" /\ dispute[sub[h]] \in {"won", "lost"}
    /\ event[sub[h]]["released"] = "unsent" /\ event[sub[h]]["closed"] = "open"
    /\ \A g \in Handlers : On(g, sub[h], "closed") => pc[g] = "received"

\* A handler that judges has the mark right, and the dispute unless overtaken.
JudgeInv ==
    \A h \in Handlers :
       /\ pc[h] \in {"disputing", "judging", "settling"} => kind[h] \in DisputeKinds
       /\ pc[h] \in {"judging", "settling"} => seen[h].mark = mark[sub[h]]
       /\ pc[h] = "settling" => outcome[h] = dispute[sub[h]] \/ Overtaken(h)

\* No dispute, no mark, no judge.
LEMMA MarkStart == Init => MarkInv /\ JudgeInv
  BY Start, KindFacts DEF MarkInv, JudgeInv

\* What a handler does to marks.
LEMMA MarkWork ==
  ASSUME BaseInv, MarkInv, JudgeInv, NEW h \in Handlers, Webhook(h)
  PROVE  MarkInv'
  <1>0. TypeOK /\ AtWork(h) /\ Spares(h) /\ sub[h] \in Subs
    BY WebhookDoes, WebhookProgress DEF BaseInv, AtWork, WorkInv, Progress
  <1>1. \A t \in Subs, k \in Kinds : event[t][k] # "unsent" => event'[t][k] # "unsent"
    BY <1>0 DEF AtWork
  <1>2. \A t \in Subs : /\ event[t]["opened"] = "unsent" => event'[t]["opened"] = "unsent"
                        /\ event[t]["closed"] = "unsent" => event'[t]["closed"] = "unsent"
    BY <1>0, KindFacts DEF Spares
  <1>3. dispute' = dispute
    BY <1>0 DEF AtWork
  <1>4. ASSUME NEW t \in Subs, t # sub[h] \/ pc[h] # "settling" \/ pc'[h] = "idle"
        PROVE  /\ mark'[t] = mark[t]
               /\ event[t]["held"] = "unsent" => event'[t]["held"] = "unsent"
               /\ event[t]["released"] = "unsent" => event'[t]["released"] = "unsent"
    BY <1>0, <1>4, KindFacts DEF Spares
  <1>5. CASE pc[h] # "settling" \/ pc'[h] = "idle"
    BY <1>1, <1>2, <1>3, <1>4, <1>5, KindFacts DEF MarkInv
  <1>6. CASE pc[h] = "settling" /\ pc'[h] # "idle"
    <2>s. PICK s \in Subs : s = sub[h]
      BY <1>0
    <2>1. seen[h].mark = mark[s] /\ (outcome[h] = dispute[s] \/ Overtaken(h))
      BY <1>6, <2>s DEF JudgeInv
    <2>2. Settle(h)
      BY <1>6, Which
    <2>3. /\ outcome[h] \in {"won", "lost"} => dispute[s] = outcome[h]
          /\ outcome[h] = "open" => dispute[s] # "none" /\ event[s]["released"] = "unsent"
      BY <2>1, <2>s, KindFacts DEF Overtaken, MarkInv
    <2>4. CASE mark' = mark /\ \A k \in {"held", "released"} : event'[s][k] = event[s][k]
      BY <1>1, <1>2, <1>3, <1>4, <2>s, <2>4, KindFacts DEF MarkInv
    <2>5. CASE /\ outcome[h] = "open" /\ ~seen[h].mark /\ mark'[s] = TRUE
               /\ \A t \in Subs, k \in Kinds : event'[t][k] = IF t = sub[h] /\ k = "held" THEN "open" ELSE event[t][k]
      BY <1>1, <1>2, <1>3, <1>4, <2>s, <2>1, <2>3, <2>5, KindFacts DEF MarkInv
    <2>6. CASE /\ outcome[h] = "won" /\ seen[h].mark /\ mark'[s] = FALSE
               /\ \A t \in Subs, k \in Kinds : event'[t][k] = IF t = sub[h] /\ k = "released" THEN "open" ELSE event[t][k]
      BY <1>1, <1>2, <1>3, <1>4, <2>s, <2>1, <2>3, <2>6, KindFacts DEF MarkInv
    <2>7. \/ mark' = mark /\ UNCHANGED event
          \/ mark' = mark /\ \A t \in Subs, k \in Kinds :
                event'[t][k] = IF t = sub[h] /\ k = "deleted" /\ status[sub[h]] # "canceled" THEN "open" ELSE event[t][k]
          \/ /\ outcome[h] = "open" /\ ~seen[h].mark /\ mark'[s] = TRUE
             /\ \A t \in Subs, k \in Kinds : event'[t][k] = IF t = sub[h] /\ k = "held" THEN "open" ELSE event[t][k]
          \/ /\ outcome[h] = "won" /\ seen[h].mark /\ mark'[s] = FALSE
             /\ \A t \in Subs, k \in Kinds : event'[t][k] = IF t = sub[h] /\ k = "released" THEN "open" ELSE event[t][k]
      BY <1>0, <2>2, <2>s, SettleDoes
    <2>8. CASE mark' = mark /\ UNCHANGED event
      BY <2>4, <2>8
    <2>9. CASE /\ mark' = mark
               /\ \A t \in Subs, k \in Kinds :
                    event'[t][k] = IF t = sub[h] /\ k = "deleted" /\ status[sub[h]] # "canceled" THEN "open" ELSE event[t][k]
      <3>1. event'[s]["held"] = event[s]["held"] /\ event'[s]["released"] = event[s]["released"]
        BY <2>9, KindFacts
      <3> QED
        BY <2>4, <2>9, <3>1
    <2> QED
      BY <2>5, <2>6, <2>7, <2>8, <2>9
  <1> QED
    BY <1>5, <1>6

\* Two handlers that hold the lock are not on one subscription.
LEMMA OneOnSub ==
  ASSUME OneHolder, NEW g \in Handlers, NEW h \in Handlers, pc[g] \in Locked, pc[h] \in Locked, sub[g] = sub[h]
  PROVE  g = h
  BY DEF OneHolder

\* The lock keeps what a judge has read as it was.
LEMMA JudgeWork ==
  ASSUME BaseInv, MarkInv, JudgeInv, NEW h \in Handlers, Webhook(h)
  PROVE  JudgeInv'
  <1>0. /\ TypeOK /\ AtWork(h) /\ Spares(h) /\ Way(h) /\ Carries(h) /\ sub[h] \in Subs /\ OneHolder
        /\ WorkInv /\ StripeType /\ HandlerType
    BY WebhookDoes, WebhookProgress, TypeParts DEF BaseInv, AtWork, WorkInv, Progress
  <1>1. dispute' = dispute
    BY <1>0 DEF AtWork
  <1>2. \A t \in Subs : mark'[t] = mark[t] \/ (t = sub[h] /\ pc[h] = "settling")
    BY <1>0 DEF Spares
  <1>3. ASSUME NEW g \in Handlers, g # h, pc[g] = "settling", Overtaken(g)
        PROVE  Overtaken(g)'
    <2>1. sub[g] \in Subs /\ pc[g] \in Locked /\ pc'[g] = pc[g] /\ sub'[g] = sub[g] /\ outcome'[g] = outcome[g]
      BY <1>0, <1>3, Stages DEF WorkInv, Spares, Others
    <2>2. sub[h] = sub[g] => pc[h] \notin Locked
      BY <1>0, <1>3, <2>1, OneOnSub
    <2>3. event'[sub[g]]["released"] = "unsent" /\ event[sub[g]]["released"] = "unsent"
      BY <1>0, <1>3, <2>1, <2>2, KindFacts, Stages DEF Overtaken, Spares
    <2>4. sub[h] = sub[g] /\ kind[h] = "closed" => pc[h] = "received" /\ pc'[h] = "idle"
      <3> SUFFICES ASSUME sub[h] = sub[g], kind[h] = "closed" PROVE pc[h] = "received" /\ pc'[h] = "idle"
        OBVIOUS
      <3>1. pc[h] = "received"
        BY <1>0, <1>3 DEF Overtaken, On, AtWork
      <3>2. ~\A i \in Handlers : ~Holds(i, customer[sub[h]])
        BY <2>1 DEF Holds
      <3>3. pc'[h] = "idle" \/ pc'[h] \in {"disputing", "fetching"}
        BY <1>0, <3>1 DEF Way
      <3> QED
        BY <1>0, <3>1, <3>2, <3>3, Stages DEF AtWork
    <2>5. event'[sub[g]]["closed"] = "open"
      BY <1>0, <1>3, <2>1, <2>4, KindFacts DEF Overtaken, Spares
    <2>6. ASSUME NEW i \in Handlers, On(i, sub[g], "closed")'
          PROVE  pc'[i] = "received"
      <3>1. CASE i = h
        BY <1>0, <2>1, <2>4, <2>6, <3>1 DEF On, Carries
      <3>2. CASE i # h
        BY <1>0, <1>3, <2>1, <2>6, <3>2 DEF On, Overtaken, Spares, Others
      <3> QED
        BY <3>1, <3>2
    <2> QED
      BY <1>1, <1>3, <2>1, <2>3, <2>5, <2>6 DEF Overtaken
  <1>4. ASSUME NEW g \in Handlers, g # h
        PROVE  /\ pc'[g] \in {"disputing", "judging", "settling"} => kind'[g] \in DisputeKinds
               /\ pc'[g] \in {"judging", "settling"} => seen'[g].mark = mark'[sub'[g]]
               /\ pc'[g] = "settling" => outcome'[g] = dispute'[sub'[g]] \/ Overtaken(g)'
    <2>1. /\ pc'[g] = pc[g] /\ sub'[g] = sub[g] /\ kind'[g] = kind[g] /\ outcome'[g] = outcome[g] /\ seen'[g] = seen[g]
      BY <1>0, <1>4 DEF Spares, Others
    <2>2. pc[g] \in {"judging", "settling"} => mark'[sub[g]] = mark[sub[g]]
      BY <1>0, <1>2, <1>4, OneOnSub, Stages DEF WorkInv
    <2> QED
      BY <1>1, <1>3, <1>4, <2>1, <2>2 DEF JudgeInv
  <1>5. /\ pc'[h] \in {"disputing", "judging", "settling"} => kind'[h] \in DisputeKinds
        /\ pc'[h] \in {"judging", "settling"} => seen'[h].mark = mark'[sub'[h]]
        /\ pc'[h] = "settling" => outcome'[h] = dispute'[sub'[h]] \/ Overtaken(h)'
    <2>1. Copy(sub[h]).mark = mark[sub[h]]
      BY <1>0, CopyType
    <2>2. CASE pc'[h] = "disputing"
      BY <1>0, <2>2 DEF Way, Carries
    <2>3. CASE pc'[h] = "judging"
      BY <1>0, <1>2, <2>1, <2>3 DEF Way, Carries, JudgeInv
    <2>4. CASE pc'[h] = "settling"
      BY <1>0, <1>1, <1>2, <2>4 DEF Way, Carries, JudgeInv
    <2> QED
      BY <2>2, <2>3, <2>4
  <1> QED
    BY <1>4, <1>5 DEF JudgeInv

\* Marks and judges, whoever takes the step.
LEMMA MarkStep ==
  ASSUME BaseInv, EndInv, MarkInv, JudgeInv, [Next]_vars
  PROVE  MarkInv' /\ JudgeInv'
  <1>0. TypeOK /\ WorkInv /\ HandlerType
    BY TypeParts DEF BaseInv
  <1>1. CASE Outside
    <2>0. UNCHANGED <<pc, sub, kind, seen, outcome>> /\ \A s \in Subs : Deals(s)
      BY <1>1 DEF Outside, handler
    <2>1. MarkInv'
      BY <2>0 DEF MarkInv, Deals
    <2>2. ASSUME NEW h \in Handlers, pc[h] \in {"disputing", "judging", "settling"}
          PROVE  /\ kind[h] \in DisputeKinds /\ sub[h] \in Subs
                 /\ pc[h] # "disputing" => seen[h].mark = mark'[sub[h]]
                 /\ pc[h] = "settling" => outcome[h] = dispute'[sub[h]] \/ Overtaken(h)'
      <3>1. /\ kind[h] \in {"opened", "closed"} /\ sub[h] \in Subs /\ event[sub[h]][kind[h]] # "unsent"
            /\ kind[h] \in DisputeKinds
        BY <1>0, <2>2 DEF WorkInv, JudgeInv, DisputeKinds
      <3>2. dispute[sub[h]] # "none" /\ Deals(sub[h])
        BY <2>0, <3>1 DEF MarkInv
      <3>3. pc[h] # "disputing" => seen[h].mark = mark'[sub[h]]
        BY <2>2, <3>2 DEF JudgeInv, Deals
      <3>4. ASSUME pc[h] = "settling"
            PROVE  outcome[h] = dispute'[sub[h]] \/ Overtaken(h)'
        <4>1. CASE dispute[sub[h]] = "open" /\ dispute'[sub[h]] # "open"
          <5>1. /\ outcome[h] = "open" /\ event[sub[h]]["closed"] = "unsent" /\ event[sub[h]]["released"] = "unsent"
            BY <3>1, <3>4, <4>1 DEF JudgeInv, Overtaken, MarkInv
          <5>2. /\ dispute'[sub[h]] \in {"won", "lost"} /\ event'[sub[h]]["closed"] = "open"
                /\ event'[sub[h]]["released"] = "unsent"
            BY <3>2, <4>1, <5>1 DEF Deals
          <5>3. \A g \in Handlers : ~On(g, sub[h], "closed")
            BY <1>0, <5>1 DEF On, WorkInv
          <5>4. Overtaken(h)'
            BY <2>0, <5>1, <5>2, <5>3 DEF Overtaken, On
          <5> QED
            BY <5>4
        <4>2. CASE ~(dispute[sub[h]] = "open" /\ dispute'[sub[h]] # "open")
          <5>1. /\ dispute'[sub[h]] = dispute[sub[h]] /\ event'[sub[h]]["closed"] = event[sub[h]]["closed"]
                /\ event'[sub[h]]["released"] = event[sub[h]]["released"]
            BY <3>2, <4>2 DEF Deals
          <5>2. Overtaken(h) => Overtaken(h)'
            BY <2>0, <5>1 DEF Overtaken, On
          <5> QED
            BY <3>4, <5>1, <5>2 DEF JudgeInv
        <4> QED
          BY <4>1, <4>2
      <3> QED
        BY <3>1, <3>3, <3>4
    <2>3. JudgeInv'
      BY <2>0, <2>2 DEF JudgeInv
    <2> QED
      BY <2>1, <2>3
  <1>2. CASE \E h \in Handlers, s \in Subs, k \in Kinds : Receive(h, s, k)
    <2>1. PICK h \in Handlers, s \in Subs, k \in Kinds : Receive(h, s, k)
      BY <1>2
    <2>2. UNCHANGED <<stripe, event>> /\ pc[h] = "idle" /\ pc'[h] = "received" /\ Others(h)
      BY <1>0, <2>1, ReceiveDoes
    <2>3. MarkInv'
      BY <2>2 DEF MarkInv, stripe
    <2>4. ASSUME NEW g \in Handlers, pc[g] = "settling", Overtaken(g)
          PROVE  Overtaken(g)'
      BY <2>2, <2>4 DEF Overtaken, On, Others, stripe
    <2>5. JudgeInv'
      BY <2>2, <2>4 DEF JudgeInv, Others, stripe
    <2> QED
      BY <2>3, <2>5
  <1>3. CASE \E h \in Handlers : Webhook(h)
    BY <1>3, MarkWork, JudgeWork
  <1> QED
    BY <1>1, <1>2, <1>3, Steps

\* What the webhook promises of a dispute.
Judged(s) ==
    /\ dispute[s] = "open" /\ Live(status[s]) => mark[s]
    /\ dispute[s] = "won" /\ Live(status[s]) => ~mark[s]
    /\ dispute[s] = "lost" => status[s] = "canceled"

\* The event k of s is still to be judged, by whoever has it.
Unjudged(s, k) ==
    /\ k \in DisputeKinds /\ event[s][k] = "open"
    /\ \A h \in Handlers : On(h, s, k) =>
          \/ pc[h] \in {"received", "disputing", "judging"}
          \/ pc[h] = "settling" /\ outcome[h] = dispute[s]

DisputeInv == \A s \in Subs : Judged(s) \/ \E k \in Kinds : Unjudged(s, k)

\* A dispute that is not judged as it stands has an event that will be.
LEMMA DisputeStep ==
  ASSUME BaseInv, SeenInv, MarkInv, JudgeInv, DisputeInv, [Next]_vars
  PROVE  DisputeInv'
  <1>0. TypeOK /\ SessionInv /\ WorkInv /\ HandlerType /\ StripeType /\ EndInv
    BY TypeParts DEF BaseInv, SeenInv
  <1>1. CASE Outside
    <2>0. UNCHANGED <<pc, sub, kind, seen, outcome>>
      BY <1>1 DEF Outside, handler
    <2>1. SUFFICES ASSUME NEW s \in Subs PROVE (Judged(s) \/ \E k \in Kinds : Unjudged(s, k))'
      BY DEF DisputeInv
    <2>2. Deals(s) /\ Tells(s)
      BY <1>1 DEF Outside
    <2>3. CASE dispute'[s] = dispute[s]
      <3>1. Judged(s) => Judged(s)'
        BY <1>0, <2>2, <2>3 DEF Judged, Deals, Tells, SessionInv
      <3>2. ASSUME NEW k \in Kinds, Unjudged(s, k) PROVE Unjudged(s, k)'
        BY <2>0, <2>2, <2>3, <3>2 DEF Unjudged, On, Tells
      <3> QED
        BY <3>1, <3>2 DEF DisputeInv
    <2>4. CASE dispute'[s] # dispute[s]
      <3>1. PICK k \in {"opened", "closed"} : event[s][k] = "unsent" /\ event'[s][k] = "open"
        BY <2>2, <2>4 DEF Deals, MarkInv
      <3>2. \A h \in Handlers : ~On(h, s, k)
        BY <1>0, <3>1 DEF On, WorkInv
      <3>3. Unjudged(s, k)'
        BY <2>0, <3>1, <3>2 DEF Unjudged, On, DisputeKinds
      <3> QED
        BY <3>3, KindFacts
    <2> QED
      BY <2>3, <2>4
  <1>2. CASE \E h \in Handlers, s \in Subs, k \in Kinds : Receive(h, s, k)
    <2>1. PICK h \in Handlers, t \in Subs, j \in Kinds : Receive(h, t, j)
      BY <1>2
    <2>2. UNCHANGED <<stripe, event>> /\ pc'[h] = "received" /\ Others(h)
      BY <1>0, <2>1, ReceiveDoes
    <2>3. ASSUME NEW s \in Subs, NEW k \in Kinds, Unjudged(s, k) PROVE Unjudged(s, k)'
      BY <2>2, <2>3 DEF Unjudged, On, Others, stripe
    <2>4. ASSUME NEW s \in Subs, Judged(s) PROVE Judged(s)'
      BY <2>2, <2>4 DEF Judged, stripe
    <2> QED
      BY <2>3, <2>4 DEF DisputeInv
  <1>3. CASE \E h \in Handlers : Webhook(h)
    <2>1. PICK h \in Handlers : Webhook(h)
      BY <1>3
    <2>2. /\ AtWork(h) /\ Spares(h) /\ Way(h) /\ Carries(h) /\ sub[h] \in Subs
      BY <2>1, WebhookDoes, WebhookProgress DEF BaseInv, AtWork, WorkInv, Progress
    <2>3. dispute' = dispute
      BY <2>2 DEF AtWork
    <2>4. CASE ~(pc[h] = "settling" /\ pc'[h] # "idle")
      <3>1. \A t \in Subs : mark'[t] = mark[t] /\ status'[t] \in {status[t], "canceled"}
        BY <2>2, <2>4 DEF Spares, AtWork
      <3>2. ASSUME NEW s \in Subs, Judged(s) PROVE Judged(s)'
        BY <2>3, <3>1, <3>2 DEF Judged, Live
      <3>3. ASSUME NEW s \in Subs, NEW k \in Kinds, Unjudged(s, k) PROVE Unjudged(s, k)'
        <4>1. k # "checkout" /\ k \in DisputeKinds
          BY <3>3 DEF Unjudged, DisputeKinds
        <4>2. ASSUME On(h, s, k)
              PROVE  /\ pc[h] # "completing"
                     /\ \/ pc'[h] \in {"idle", "received", "disputing", "judging"}
                        \/ pc'[h] = "settling" /\ outcome'[h] = dispute[s]
          BY <2>2, <2>4, <3>3, <4>1, <4>2 DEF Unjudged, On, Way
        <4>3. event'[s][k] = "open"
          BY <2>2, <3>3, <4>2 DEF Unjudged, Spares, On, AtWork
        <4>4. ASSUME NEW g \in Handlers, On(g, s, k)'
              PROVE  \/ pc'[g] \in {"received", "disputing", "judging"}
                     \/ pc'[g] = "settling" /\ outcome'[g] = dispute'[s]
          <5>1. CASE g = h
            <6>1. On(h, s, k) /\ pc'[h] # "idle"
              BY <2>2, <4>4, <5>1 DEF On, Carries, AtWork
            <6> QED
              BY <2>3, <4>2, <5>1, <6>1
          <5>2. CASE g # h
            BY <2>2, <2>3, <3>3, <4>4, <5>2 DEF On, Unjudged, Spares, Others
          <5> QED
            BY <5>1, <5>2
        <4> QED
          BY <4>1, <4>3, <4>4 DEF Unjudged
      <3> QED
        BY <3>2, <3>3 DEF DisputeInv
    <2>5. CASE pc[h] = "settling" /\ pc'[h] # "idle"
      <3>0. Settle(h) /\ pc'[h] = "fetching"
        BY <2>1, <2>2, <2>5, Which DEF Way
      <3>s. PICK s \in Subs : s = sub[h]
        BY <2>2
      <3>1. ASSUME NEW t \in Subs, t # s, Judged(t) PROVE Judged(t)'
        BY <2>2, <2>3, <3>1, <3>s DEF Judged, AtWork
      <3>2. ASSUME NEW t \in Subs, t # s, NEW k \in Kinds, Unjudged(t, k) PROVE Unjudged(t, k)'
        BY <2>2, <2>3, <2>5, <3>2, <3>s DEF Unjudged, On, Spares, Others, AtWork
      <3>3. CASE Overtaken(h)
        <4>1. kind[h] # "closed"
          BY <2>5, <3>3 DEF Overtaken, On
        <4>2. event'[s]["closed"] = "open"
          BY <2>2, <2>5, <3>3, <3>s, KindFacts DEF Overtaken, Spares
        <4>3. \A g \in Handlers : On(g, s, "closed")' => pc'[g] = "received"
          BY <2>2, <2>5, <3>3, <3>s, <4>1 DEF Overtaken, On, Spares, Others, Carries
        <4>4. Unjudged(s, "closed")'
          BY <4>2, <4>3 DEF Unjudged, DisputeKinds
        <4> QED
          BY <3>1, <3>2, <4>4, KindFacts DEF DisputeInv
      <3>4. CASE outcome[h] = dispute[s]
        <4>1. seen[h].mark = mark[s] /\ seen[h].status # "none" /\ (seen[h].status = "canceled" => status[s] = "canceled")
          BY <2>5, <3>s DEF JudgeInv, SeenInv, Reading
        <4>2. seen[h].status \in Statuses /\ (~Live(seen[h].status) => seen[h].status = "canceled") /\ mark[s] \in BOOLEAN
          BY <1>0, <4>1 DEF HandlerType, StripeType, Copies, Statuses, Live
        <4>3. \/ outcome[h] = "lost" /\ status'[s] = "canceled"
              \/ outcome[h] = "open" /\ mark'[s] = TRUE
              \/ outcome[h] = "won" /\ mark'[s] = FALSE
              \/ /\ UNCHANGED <<mark, status>>
                 /\ ~(outcome[h] = "lost" /\ seen[h].status # "canceled")
                 /\ ~(outcome[h] = "open" /\ ~seen[h].mark /\ Live(seen[h].status))
                 /\ ~(outcome[h] = "won" /\ seen[h].mark)
          BY <1>0, <2>2, <3>0, <3>s, SettleDoes
        <4>4. Judged(s)'
          BY <2>3, <3>4, <4>1, <4>2, <4>3 DEF Judged, Live
        <4> QED
          BY <3>1, <3>2, <4>4 DEF DisputeInv
      <3> QED
        BY <2>5, <3>s, <3>3, <3>4 DEF JudgeInv
    <2> QED
      BY <2>4, <2>5
  <1> QED
    BY <1>0, <1>1, <1>2, <1>3, Steps
-----------------------------------------------------------------------------
(* What is still to be applied *)

\* A change that a handler makes is told as well.
LEMMA WorkTells ==
  ASSUME BaseInv, EndInv, MarkInv, JudgeInv, NEW h \in Handlers, Webhook(h), NEW s \in Subs
  PROVE  Tidings(s)
  <1>0. TypeOK /\ StripeType /\ AtWork(h) /\ Spares(h) /\ sub[h] \in Subs
    BY WebhookDoes, WebhookProgress, TypeParts DEF BaseInv, AtWork, WorkInv, Progress
  <1>1. CASE s # sub[h] \/ pc[h] \notin {"settling", "cancelling"} \/ pc'[h] = "idle"
    BY <1>0, <1>1, SameCopy DEF Spares
  <1>2. CASE s = sub[h] /\ pc[h] = "cancelling" /\ pc'[h] # "idle"
    <2>1. Cancel(h)
      BY <1>2, Which
    <2>2. /\ UNCHANGED <<carded, charged, mark>> /\ status'[s] = "canceled"
          /\ status[s] # "canceled" => event'[s]["deleted"] = "open"
      BY <1>0, <1>2, <2>1, CancelDoes, KindFacts
    <2> QED
      BY <2>2, KindFacts DEF Tidings, Copy, EndInv
  <1>3. CASE s = sub[h] /\ pc[h] = "settling" /\ pc'[h] # "idle"
    <2>1. Settle(h)
      BY <1>3, Which
    <2>2. /\ seen[h].mark = mark[s] /\ (outcome[h] = "open" => event[s]["released"] = "unsent")
      BY <1>3 DEF JudgeInv, Overtaken, MarkInv
    <2>3. /\ UNCHANGED <<carded, charged>>
          /\ \/ /\ status'[s] = "canceled" /\ mark' = mark
                /\ status[s] # "canceled" => event'[s]["deleted"] = "open"
             \/ outcome[h] = "open" /\ ~seen[h].mark /\ event'[s]["held"] = "open"
             \/ seen[h].mark /\ event'[s]["released"] = "open"
             \/ UNCHANGED <<mark, status>>
      BY <1>0, <1>3, <2>1, SettleDoes, KindFacts
    <2>4. CASE outcome[h] = "open" /\ ~seen[h].mark /\ event'[s]["held"] = "open"
      BY <2>2, <2>4, KindFacts DEF Tidings, MarkInv
    <2>5. CASE seen[h].mark /\ event'[s]["released"] = "open"
      BY <2>2, <2>5, KindFacts DEF Tidings, MarkInv
    <2>6. CASE status'[s] = "canceled" /\ mark' = mark /\ (status[s] # "canceled" => event'[s]["deleted"] = "open")
      BY <2>3, <2>6, KindFacts DEF Tidings, Copy, EndInv
    <2>7. CASE UNCHANGED <<mark, status>>
      BY <2>3, <2>7 DEF Tidings, Copy
    <2> QED
      BY <2>3, <2>4, <2>5, <2>6, <2>7
  <1> QED
    BY <1>1, <1>2, <1>3

\* The stages before the copy.
Unfetched == {"received", "disputing", "judging", "settling", "fetching"}

\* The event k of s is still to be applied: whoever has it will read s, or has read
\* it as it is and is at one of these stages.
Due(s, k, stages) ==
    /\ k # "checkout" /\ event[s][k] = "open"
    /\ \A h \in Handlers : On(h, s, k) => pc[h] \in Unfetched \/ (pc[h] \in stages /\ seen[h] = Copy(s))

\* An event that was just sent is due.
LEMMA DueFresh ==
  ASSUME BaseInv, NEW s \in Subs, NEW stages, NEW j \in Kinds \ {"checkout"},
         event[s][j] = "unsent", event'[s][j] = "open",
         \/ UNCHANGED handler
         \/ \E h \in Handlers : AtWork(h)
  PROVE  Due(s, j, stages)'
  <1>0. WorkInv
    BY DEF BaseInv
  <1>1. \A g \in Handlers : ~On(g, s, j)
    BY <1>0 DEF On, WorkInv
  <1>2. \A g \in Handlers : ~On(g, s, j)'
    BY <1>1 DEF On, handler, AtWork, Others
  <1> QED
    BY <1>2 DEF Due

\* It stays due while no handler has a part.
LEMMA DueOutside ==
  ASSUME BaseInv, NEW s \in Subs, NEW k \in Kinds, NEW stages, Due(s, k, stages), Copy(s)' = Copy(s),
         \/ Outside
         \/ \E h \in Handlers, t \in Subs, j \in Kinds : Receive(h, t, j)
  PROVE  Due(s, k, stages)'
  <1>1. CASE Outside
    BY <1>1 DEF Due, On, Outside, handler, Tells
  <1>2. CASE \E h \in Handlers, t \in Subs, j \in Kinds : Receive(h, t, j)
    <2>1. PICK h \in Handlers, t \in Subs, j \in Kinds : Receive(h, t, j)
      BY <1>2
    <2>2. UNCHANGED <<stripe, event>> /\ pc'[h] = "received" /\ Others(h)
      BY <2>1, ReceiveDoes DEF BaseInv
    <2> QED
      BY <2>2 DEF Due, On, Others, Unfetched
  <1> QED
    BY <1>1, <1>2

\* And while the handlers that have it go on within the stages.
LEMMA DueWork ==
  ASSUME BaseInv, NEW s \in Subs, NEW k \in Kinds, NEW stages \in SUBSET Copying, "reading" \in stages,
         Due(s, k, stages), Copy(s)' = Copy(s), NEW h \in Handlers, AtWork(h), Progress(h),
         On(h, s, k) /\ pc[h] \in stages => pc'[h] = "idle" \/ pc'[h] \in stages
  PROVE  Due(s, k, stages)'
  <1>0. Way(h) /\ Carries(h) /\ Spares(h) /\ pc[h] # "idle"
    BY DEF Progress, AtWork
  <1>1. "completing" \notin stages /\ "completing" \notin Unfetched
    BY DEF Copying, Unfetched
  <1>2. event'[s][k] = "open"
    BY <1>0, <1>1 DEF Due, On, Spares
  <1>3. ASSUME NEW g \in Handlers, g # h, On(g, s, k)'
        PROVE  pc'[g] \in Unfetched \/ (pc'[g] \in stages /\ seen'[g] = Copy(s)')
    BY <1>0, <1>3 DEF Due, On, Spares, Others
  <1>4. ASSUME On(h, s, k)'
        PROVE  pc'[h] \in Unfetched \/ (pc'[h] \in stages /\ seen'[h] = Copy(s)')
    <2>1. On(h, s, k) /\ pc'[h] # "idle" /\ sub[h] = s /\ kind[h] # "checkout"
      BY <1>0, <1>4 DEF On, Carries, Due
    <2>2. CASE pc[h] \in Unfetched
      BY <1>0, <2>1, <2>2 DEF Unfetched, Way
    <2>3. CASE pc[h] \in stages /\ seen[h] = Copy(s)
      <3>1. pc'[h] \in stages /\ pc'[h] \notin {"judging", "reading"}
        BY <1>0, <2>1, <2>3 DEF Way, Copying
      <3> QED
        BY <1>0, <2>1, <2>3, <3>1 DEF Carries
    <2> QED
      BY <2>1, <2>2, <2>3 DEF Due
  <1> QED
    BY <1>2, <1>3, <1>4 DEF Due
-----------------------------------------------------------------------------
(* Trial claims *)

\* The unique indexes of trial_claims.
Unique ==
    \A s, t \in Subs : claim[s] # "none" /\ claim[t] # "none" /\ s # t =>
       /\ UserOf[s] # UserOf[t] /\ Mailbox[UserOf[s]] # Mailbox[UserOf[t]]
       /\ claim[s] = "carded" /\ claim[t] = "carded" => Card[s] # Card[t]

\* The claim of s, with its card if that is known.
Claimed(s) == claim[s] # "none" /\ (carded[s] => claim[s] = "carded")

Trying == {"reading", "claiming", "cancelling"}

\* A trial that runs is claimed, or an event will claim or end it.
TrialInv == \A s \in ThreeDay : status[s] = "trialing" => Claimed(s) \/ \E k \in Kinds : Due(s, k, Trying)

\* claim_trial inserts or completes a claim only where no index stands in the way.
LEMMA UniqueStep ==
  ASSUME BaseInv, EndInv, Unique, [Next]_vars
  PROVE  Unique'
  <1>0. TypeOK
    BY DEF BaseInv
  <1>1. CASE claim' = claim
    BY <1>1 DEF Unique
  <1>2. ASSUME NEW h \in Handlers, Webhook(h), claim' # claim
        PROVE  Unique'
    <2>1. sub[h] \in Subs /\ ClaimTrial(h)
      BY <1>2, WebhookDoes, WebhookProgress, Which DEF BaseInv, AtWork, WorkInv, Progress, Spares
    <2>s. PICK s \in Subs : s = sub[h]
      BY <2>1
    <2>2. /\ \A t \in Subs : t # s => claim'[t] = claim[t]
          /\ \/ ~Collides(s, seen[h].carded) /\ claim'[s] = IF seen[h].carded THEN "carded" ELSE "claimed"
             \/ claim[s] = "claimed" /\ claim'[s] = "carded" /\ ~\E t \in Subs \ {s} : SameCard(s, t)
      BY <1>0, <1>2, <2>1, <2>s, ClaimDoes
    <2>3. CASE ~Collides(s, seen[h].carded) /\ claim'[s] = IF seen[h].carded THEN "carded" ELSE "claimed"
      BY <2>2, <2>3 DEF Unique, Collides, SameCard
    <2>4. CASE claim[s] = "claimed" /\ claim'[s] = "carded" /\ ~\E t \in Subs \ {s} : SameCard(s, t)
      BY <2>2, <2>4 DEF Unique, SameCard
    <2> QED
      BY <2>2, <2>3, <2>4
  <1>3. CASE Outside
    BY <1>1, <1>3 DEF Outside
  <1>4. CASE \E h \in Handlers, s \in Subs, k \in Kinds : Receive(h, s, k)
    BY <1>0, <1>1, <1>4, ReceiveDoes DEF db
  <1> QED
    BY <1>1, <1>2, <1>3, <1>4, Steps

\* A claim that meets an older one ends its trial; a card that is told late is an event of its own.
LEMMA TrialStep ==
  ASSUME BaseInv, SeenInv, MarkInv, JudgeInv, TrialInv, [Next]_vars
  PROVE  TrialInv'
  <1>0. TypeOK /\ StripeType /\ HandlerType /\ EndInv /\ ThreeDay \subseteq Subs
    BY TypeParts, SubsAssumption DEF BaseInv, SeenInv
  <1> SUFFICES ASSUME NEW s \in ThreeDay, status'[s] = "trialing"
               PROVE  (Claimed(s) \/ \E k \in Kinds : Due(s, k, Trying))'
    BY DEF TrialInv
  <1>1. s \in Subs
    BY <1>0
  <1>2. ASSUME Tidings(s), UNCHANGED handler \/ \E h \in Handlers : AtWork(h)
        PROVE  Copy(s)' = Copy(s) \/ \E k \in Kinds : Due(s, k, Trying)'
    BY <1>1, <1>2, DueFresh DEF Tidings
  <1>3. ASSUME Copy(s)' = Copy(s)
        PROVE  status[s] = "trialing" /\ carded'[s] = carded[s]
    <2>1. /\ Copy(s).status = status[s] /\ Copy(s).carded = carded[s]
          /\ Copy(s)'.status = status'[s] /\ Copy(s)'.carded = carded'[s]
      BY DEF Copy
    <2> QED
      BY <1>3, <2>1
  <1>4. CASE Outside
    <2>1. CASE Copy(s)' = Copy(s)
      <3>1. Claimed(s) => Claimed(s)'
        BY <1>3, <1>4, <2>1 DEF Claimed, Outside
      <3>2. ASSUME NEW k \in Kinds, Due(s, k, Trying) PROVE Due(s, k, Trying)'
        BY <1>1, <1>4, <2>1, <3>2, DueOutside
      <3> QED
        BY <1>3, <2>1, <3>1, <3>2 DEF TrialInv
    <2> QED
      BY <1>1, <1>2, <1>4, <2>1 DEF Outside
  <1>5. CASE \E h \in Handlers, t \in Subs, k \in Kinds : Receive(h, t, k)
    <2>1. PICK h \in Handlers, t \in Subs, j \in Kinds : Receive(h, t, j)
      BY <1>5
    <2>2. UNCHANGED <<stripe, claim>>
      BY <1>0, <2>1, ReceiveDoes DEF db
    <2>3. Copy(s)' = Copy(s)
      BY <2>2 DEF stripe, Copy
    <2>4. Claimed(s) => Claimed(s)'
      BY <2>2 DEF Claimed, stripe
    <2>5. ASSUME NEW k \in Kinds, Due(s, k, Trying) PROVE Due(s, k, Trying)'
      BY <1>1, <1>5, <2>3, <2>5, DueOutside
    <2> QED
      BY <1>3, <2>3, <2>4, <2>5 DEF TrialInv
  <1>6. CASE \E h \in Handlers : Webhook(h)
    <2>1. PICK h \in Handlers : Webhook(h)
      BY <1>6
    <2>2. AtWork(h) /\ Progress(h) /\ Way(h) /\ Carries(h) /\ Spares(h) /\ sub[h] \in Subs
      BY <2>1, WebhookDoes, WebhookProgress DEF BaseInv, AtWork, WorkInv, Progress
    <2>3. Tidings(s)
      BY <1>0, <1>1, <2>1, WorkTells
    <2>4. CASE Copy(s)' = Copy(s)
      <3>0. status[s] = "trialing" /\ carded'[s] = carded[s] /\ Copy(s).status = status[s] /\ Copy(s).carded = carded[s]
        BY <1>3, <2>4 DEF Copy
      <3>1. \/ claim' = claim
            \/ /\ ClaimTrial(h) /\ \A t \in Subs : t # sub[h] => claim'[t] = claim[t]
               /\ \/ ~Collides(sub[h], seen[h].carded)
                  \/ claim'[sub[h]] = "carded"
        BY <1>0, <2>1, <2>2, ClaimDoes, Which DEF Spares
      <3>2. Claimed(s) => Claimed(s)'
        <4>1. Claimed(s) /\ s = sub[h] => Collides(sub[h], seen[h].carded)
          BY <1>1 DEF Claimed, Collides
        <4> QED
          BY <1>1, <3>0, <3>1, <4>1 DEF Claimed
      <3>3. ASSUME NEW k \in Kinds, Due(s, k, Trying)
            PROVE  Claimed(s)' \/ Due(s, k, Trying)'
        <4>1. CASE ~(On(h, s, k) /\ pc[h] \in Trying) \/ pc'[h] = "idle" \/ pc'[h] \in Trying
          <5>1. Trying \in SUBSET Copying /\ "reading" \in Trying
            BY DEF Trying, Copying
          <5> QED
            BY <1>1, <2>2, <2>4, <3>3, <4>1, <5>1, DueWork
        <4>2. CASE On(h, s, k) /\ pc[h] \in Trying /\ pc'[h] # "idle" /\ pc'[h] \notin Trying
          <5>1. s = sub[h] /\ seen[h] = Copy(s)
            BY <3>3, <4>2 DEF Due, On, Trying, Unfetched
          <5>2. pc[h] = "claiming" \/ pc[h] = "cancelling"
            BY <2>2, <3>0, <4>2, <5>1 DEF Trying, Way, Replaced, Second, Live
          <5>3. pc[h] # "cancelling"
            <6>1. pc[h] = "cancelling" => Cancel(h)
              BY <2>1, <4>2, Which
            <6> QED
              BY <1>0, <2>2, <5>1, <6>1, CancelDoes
          <5>4. ClaimTrial(h)
            BY <2>1, <4>2, <5>2, <5>3, Which
          <5>5. claim[s] \in {"none", "claimed", "carded"} /\ carded[s] \in BOOLEAN
            BY <1>0, <1>1, TypeParts DEF RowsType, StripeType
          <5>6. pc'[h] = "writing"
            BY <2>2, <4>2, <5>2, <5>3 DEF Way, Trying
          <5>7. \/ claim'[s] = IF carded[s] THEN "carded" ELSE "claimed"
                \/ claim'[s] = "carded"
                \/ claim[s] # "none" /\ ~(claim[s] = "claimed" /\ carded[s]) /\ claim' = claim
            BY <1>0, <2>2, <3>0, <5>1, <5>4, <5>6, ClaimDoes DEF Moves
          <5>8. Claimed(s)'
            BY <3>0, <5>5, <5>7 DEF Claimed
          <5> QED
            BY <5>8
        <4> QED
          BY <4>1, <4>2
      <3> QED
        BY <3>0, <3>2, <3>3 DEF TrialInv
    <2> QED
      BY <1>2, <2>2, <2>3, <2>4
  <1> QED
    BY <1>0, <1>4, <1>5, <1>6, Steps
-----------------------------------------------------------------------------
(* Accounts *)

\* An account makes one checkout, or has a customer before it makes any: the lock
\* of a customer is then the lock of the account.  (start_checkout reuses a
\* customer it knows; two first checkouts that are paid at once have two.)
Apart == \A s, t \in Subs : UserOf[s] = UserOf[t] => s = t \/ UserOf[s] \in Returning

\* A returning account keeps its customer, and gets no three-day trial.
ReturnInv ==
    /\ \A u \in Returning : row[u].customer = u
    /\ \A s \in Subs : UserOf[s] \in Returning =>
          /\ session[s] # "none" => customer[s] = UserOf[s]
          /\ s \in ThreeDay => session[s] \in {"none", "asking"}

\* A returning account begins with its customer.
LEMMA ReturnStart == Init => ReturnInv
  <1> SUFFICES ASSUME Init PROVE ReturnInv
    OBVIOUS
  <1>1. ASSUME NEW u \in Returning PROVE row[u].customer = u
    <2>1. row[u] = [NoRow EXCEPT !.customer = u, !.status = "canceled", !.reason = "ended"]
      BY SubsAssumption DEF Init
    <2>2. NoRow \in Rows
      BY Blank
    <2> QED
      BY <2>1, <2>2 DEF Rows
  <1> QED
    BY <1>1, Start DEF ReturnInv

\* start_checkout asks with the customer the row has, and a customer gets no trial.
LEMMA ReturnStep ==
  ASSUME BaseInv, ReturnInv, [Next]_vars
  PROVE  ReturnInv'
  <1>0. TypeOK /\ SessionInv /\ WorkInv /\ HandlerType /\ Returning \subseteq Users /\ NoCustomer \notin Users
    BY TypeParts, SubsAssumption DEF BaseInv
  <1>1. CASE UNCHANGED <<session, customer, row>>
    BY <1>1 DEF ReturnInv
  <1>2. ASSUME NEW s \in Subs, CheckoutRead(s) \/ CheckoutAsk(s)
        PROVE  ReturnInv'
    <2>1. /\ UNCHANGED row /\ \A t \in Subs : t # s => SameAtStripe(t)
          /\ \/ session'[s] = "asking" /\ customer'[s] = row[UserOf[s]].customer
             \/ session'[s] = "none"
             \/ /\ session[s] = "asking" /\ session'[s] = "open"
                /\ \E c \in KnownCustomers(s) : customer'[s] = c /\ (s \in ThreeDay => MayTry(s, c))
      BY <1>0, <1>2, BuyDoes DEF db
    <2>2. ASSUME UserOf[s] \in Returning
          PROVE  /\ session'[s] # "none" => customer'[s] = UserOf[s]
                 /\ s \in ThreeDay => session'[s] \in {"none", "asking"}
      <3>1. row[UserOf[s]].customer = UserOf[s]
        BY <2>2 DEF ReturnInv
      <3>2. session[s] = "asking" => KnownCustomers(s) = {UserOf[s]}
        BY <1>0, <2>2 DEF ReturnInv, KnownCustomers
      <3>3. ~MayTry(s, UserOf[s])
        BY <1>0, <2>2 DEF MayTry
      <3> QED
        BY <2>1, <3>1, <3>2, <3>3
    <2> QED
      BY <2>1, <2>2 DEF ReturnInv, SameAtStripe
  <1>3. ASSUME NEW s \in Subs, Pay(s)
        PROVE  ReturnInv'
    <2>1. /\ UNCHANGED row /\ \A t \in Subs : t # s => SameAtStripe(t)
          /\ session[s] = "open" /\ (customer[s] # NoCustomer => customer'[s] = customer[s])
      BY <1>0, <1>3, PayDoes DEF db
    <2>2. UserOf[s] \in Returning => customer'[s] = UserOf[s] /\ s \notin ThreeDay
      BY <1>0, <2>1 DEF ReturnInv
    <2> QED
      BY <2>1, <2>2 DEF ReturnInv, SameAtStripe
  <1>4. ASSUME NEW h \in Handlers, Webhook(h)
        PROVE  ReturnInv'
    <2>1. UNCHANGED <<session, customer>> /\ Spares(h) /\ sub[h] \in Subs /\ session[sub[h]] = "complete"
      BY <1>0, <1>4, WebhookDoes, WebhookProgress, OnPaid DEF AtWork, Progress
    <2>2. ASSUME NEW u \in Returning PROVE row'[u].customer = u
      BY <1>0, <2>1 DEF Spares, ReturnInv
    <2> QED
      BY <2>1, <2>2 DEF ReturnInv
  <1>5. ASSUME NEW s \in Subs, \/ End(s)
                               \/ \E k \in Changes : Change(s, k)
                               \/ \E to \in {"open", "won", "lost"} : Dispute(s, to)
        PROVE  UNCHANGED <<session, customer, row>>
    BY <1>5 DEF End, Change, Dispute, db
  <1>6. ASSUME NEW u \in Users, CadenceRead(u) \/ CadenceWrite(u)
        PROVE  UNCHANGED <<session, customer, row>>
    BY <1>6 DEF CadenceRead, CadenceWrite, stripe, db
  <1>7. ASSUME NEW h \in Handlers, NEW s \in Subs, NEW k \in Kinds, Receive(h, s, k)
        PROVE  UNCHANGED <<session, customer, row>>
    BY <1>7 DEF Receive, stripe, db
  <1>8. CASE UNCHANGED vars
    BY <1>1, <1>8 DEF vars, stripe, db
  <1>9. CASE Next
    BY <1>1, <1>2, <1>3, <1>4, <1>5, <1>6, <1>7, <1>9 DEF Next
  <1> QED
    BY <1>8, <1>9

\* The handlers that hold a lock for one account are one.
LEMMA Alone ==
  ASSUME Apart, BaseInv, ReturnInv, NEW g \in Handlers, NEW h \in Handlers,
         pc[g] \in Locked, pc[h] \in Locked, UserOf[sub[g]] = UserOf[sub[h]]
  PROVE  g = h
  <1>1. /\ sub[g] \in Subs /\ session[sub[g]] = "complete"
        /\ sub[h] \in Subs /\ session[sub[h]] = "complete"
    BY OnPaid, TypeParts, Stages DEF BaseInv
  <1>2. customer[sub[g]] = customer[sub[h]]
    BY <1>1 DEF Apart, ReturnInv
  <1> QED
    BY <1>2 DEF BaseInv, OneHolder

\* The row's subscription is one the account has paid, under the row's customer.
BoundInv ==
    \A u \in Users : row[u].sub # NoSub =>
       /\ UserOf[row[u].sub] = u /\ session[row[u].sub] = "complete"
       /\ row[u].customer = customer[row[u].sub]

\* A row without a subscription is empty but for its customer.
LEMMA RowStart ==
  ASSUME Init, NEW u \in Users
  PROVE  row[u].sub = NoSub /\ ~row[u].plan /\ ~Live(row[u].status)
  <1>1. NoRow \in Rows /\ NoRow.sub = NoSub /\ ~NoRow.plan /\ NoRow.status = "none"
    BY Blank DEF NoRow
  <1>2. CASE u \in Returning
    <2>1. row[u] = [NoRow EXCEPT !.customer = u, !.status = "canceled", !.reason = "ended"]
      BY <1>2 DEF Init
    <2> QED
      BY <1>1, <2>1 DEF Rows, Live
  <1>3. CASE u \notin Returning
    <2>1. row[u] = NoRow
      BY <1>3 DEF Init
    <2> QED
      BY <1>1, <2>1 DEF Live
  <1> QED
    BY <1>2, <1>3

\* checkout.session.completed and the write agree on the customer.
LEMMA BoundStep ==
  ASSUME Apart, BaseInv, EndInv, ReturnInv, BoundInv, [Next]_vars
  PROVE  BoundInv'
  <1>0. TypeOK /\ SessionInv /\ WorkInv /\ HandlerType /\ UserOf \in [Subs -> Users]
    BY TypeParts, SubsAssumption DEF BaseInv
  <1>s. \A u \in Users : row[u].sub # NoSub => row[u].sub \in Subs
    BY TypeParts, <1>0 DEF RowsType, Rows
  <1>1. CASE Outside
    BY <1>1, <1>s DEF Outside, Tells, BoundInv
  <1>2. CASE \E h \in Handlers, s \in Subs, k \in Kinds : Receive(h, s, k)
    BY <1>2 DEF Receive, stripe, db, BoundInv
  <1>3. ASSUME NEW h \in Handlers, Webhook(h)
        PROVE  BoundInv'
    <2>1. /\ UNCHANGED <<session, customer>> /\ Spares(h) /\ sub[h] \in Subs /\ session[sub[h]] = "complete"
      BY <1>0, <1>3, WebhookDoes, WebhookProgress, OnPaid DEF AtWork, Progress
    <2>2. SUFFICES ASSUME NEW u \in Users, row'[u].sub # NoSub
                   PROVE  /\ UserOf[row'[u].sub] = u /\ session[row'[u].sub] = "complete"
                          /\ row'[u].customer = customer[row'[u].sub]
      BY <2>1 DEF BoundInv
    <2>3. CASE SameRow(u)
      <3>1. /\ row'[u].sub = row[u].sub /\ row[u].sub \in Subs /\ UserOf[row[u].sub] = u
            /\ session[row[u].sub] = "complete" /\ row[u].customer = customer[row[u].sub]
        BY <1>s, <2>2, <2>3 DEF SameRow, BoundInv
      <3>2. u = UserOf[sub[h]] => customer[row[u].sub] = customer[sub[h]]
        BY <2>1, <3>1 DEF Apart, ReturnInv
      <3> QED
        BY <2>1, <3>1, <3>2 DEF Spares
    <2>4. CASE u = UserOf[sub[h]] /\ pc[h] = "writing" /\ pc'[h] = "mailing"
      <3>1. Write(h)
        BY <1>3, <2>4, Which
      <3> QED
        BY <1>0, <2>1, <2>4, <3>1, WriteDoes
    <2> QED
      BY <2>1, <2>3, <2>4 DEF Spares
  <1> QED
    BY <1>1, <1>2, <1>3, Steps

\* What the row says fits together.
RowInv ==
    \A u \in Users :
       /\ row[u].plan => row[u].reason = "none"
       /\ row[u].sub = NoSub => ~row[u].plan /\ cadence[u] # "set" /\ ~Live(row[u].status)
       /\ row[u].sub # NoSub => (row[u].reason = "ended" <=> ~Live(row[u].status))

\* The write takes plan, status and reason from one copy.
LEMMA RowStep ==
  ASSUME BaseInv, SeenInv, RowInv, [Next]_vars
  PROVE  RowInv'
  <1>0. TypeOK /\ WorkInv /\ HandlerType /\ EndInv /\ UserOf \in [Subs -> Users] /\ NoSub \notin Subs
    BY TypeParts, SubsAssumption DEF BaseInv, SeenInv
  <1>1. CASE Outside
    BY <1>1 DEF Outside, RowInv
  <1>2. CASE \E h \in Handlers, s \in Subs, k \in Kinds : Receive(h, s, k)
    BY <1>2 DEF Receive, db, RowInv
  <1>3. ASSUME NEW h \in Handlers, Webhook(h)
        PROVE  RowInv'
    <2>1. Spares(h) /\ sub[h] \in Subs /\ pc[h] # "idle"
      BY <1>0, <1>3, WebhookDoes, WebhookProgress DEF AtWork, Progress, WorkInv
    <2>2. \A u \in Users : cadence'[u] = "set" => cadence[u] = "set"
      BY <2>1 DEF Spares
    <2>3. ASSUME NEW u \in Users, SameRow(u)
          PROVE  /\ row'[u].plan => row'[u].reason = "none"
                 /\ row'[u].sub = NoSub => ~row'[u].plan /\ cadence'[u] # "set" /\ ~Live(row'[u].status)
                 /\ row'[u].sub # NoSub => (row'[u].reason = "ended" <=> ~Live(row'[u].status))
      BY <2>2, <2>3 DEF SameRow, RowInv
    <2>4. ASSUME NEW u \in Users, u = UserOf[sub[h]], pc[h] = "writing", pc'[h] = "mailing"
          PROVE  /\ row'[u].plan => row'[u].reason = "none"
                 /\ row'[u].sub # NoSub /\ (row'[u].reason = "ended" <=> ~Live(row'[u].status))
      <3>1. Write(h)
        BY <1>3, <2>4, Which
      <3>2. /\ row'[u].sub = sub[h] /\ row'[u].status = seen[h].status
            /\ row'[u].plan = Plan(sub[h], seen[h]) /\ row'[u].reason = Reason(sub[h], seen[h])
        BY <1>0, <2>1, <2>4, <3>1, WriteDoes
      <3>3. seen[h] \in Copies /\ seen[h].status # "none"
        BY <1>0, <2>4 DEF HandlerType, SeenInv, Reading, Copying
      <3> QED
        BY <1>0, <2>1, <3>2, <3>3, ReasonFacts
    <2> QED
      BY <2>1, <2>3, <2>4 DEF Spares, RowInv
  <1> QED
    BY <1>0, <1>1, <1>2, <1>3, Steps

\* The stages between the read of the row and its write.
Deciding == {"doubting", "claiming", "cancelling", "writing"}

\* Nobody writes the row between: what was read is what is there.  A row about
\* another subscription is written over only when that one has ended.
ReadInv ==
    \A h \in Handlers :
       LET r == row[UserOf[sub[h]]] IN
       /\ pc[h] \in Deciding => prev[h].sub = r.sub /\ prev[h].status = r.status /\ prev[h].plan = r.plan
       /\ pc[h] = "doubting" => r.sub # NoSub
       /\ pc[h] = "claiming" => sub[h] \in ThreeDay
       /\ pc[h] = "writing" /\ r.sub \notin {NoSub, sub[h]} =>
             ~Live(r.status) \/ (Live(seen[h].status) /\ ~Live(status[r.sub]))
       /\ pc[h] = "mailing" => r.plan = Plan(sub[h], seen[h])

\* The lock of the account keeps other writers away between the read and the write.
LEMMA ReadStep ==
  ASSUME Apart, BaseInv, SeenInv, ReturnInv, BoundInv, ReadInv, [Next]_vars
  PROVE  ReadInv'
  <1>0. /\ TypeOK /\ SessionInv /\ WorkInv /\ HandlerType /\ StripeType /\ EndInv
        /\ UserOf \in [Subs -> Users] /\ NoSub \notin Subs
    BY TypeParts, SubsAssumption DEF BaseInv, SeenInv
  <1>s. \A u \in Users : row[u].sub # NoSub => row[u].sub \in Subs /\ session[row[u].sub] = "complete"
    BY TypeParts, <1>0 DEF RowsType, Rows, BoundInv
  <1>1. CASE Outside
    <2>0. UNCHANGED <<pc, sub, seen, prev, row>>
      BY <1>1 DEF Outside, handler
    <2>1. \A u \in Users : row[u].sub # NoSub => (Live(status'[row[u].sub]) => Live(status[row[u].sub]))
      BY <1>1, <1>s DEF Outside, Tells
    <2>2. \A h \in Handlers : pc[h] = "writing" => UserOf[sub[h]] \in Users
      BY <1>0 DEF WorkInv
    <2> QED
      BY <2>0, <2>1, <2>2 DEF ReadInv
  <1>2. CASE \E h \in Handlers, s \in Subs, k \in Kinds : Receive(h, s, k)
    <2>1. PICK h \in Handlers, s \in Subs, k \in Kinds : Receive(h, s, k)
      BY <1>2
    <2>2. UNCHANGED <<status, row>> /\ pc'[h] = "received" /\ Others(h)
      BY <1>0, <2>1, ReceiveDoes DEF stripe, db
    <2> QED
      BY <2>2 DEF ReadInv, Others, Deciding
  <1>3. ASSUME NEW h \in Handlers, Webhook(h)
        PROVE  ReadInv'
    <2>1. Way(h) /\ Carries(h) /\ Spares(h) /\ AtWork(h) /\ sub[h] \in Subs /\ UserOf[sub[h]] \in Users /\ session[sub[h]] = "complete"
      BY <1>0, <1>3, WebhookDoes, WebhookProgress, OnPaid DEF AtWork, Progress
    <2>2. \A t \in Subs : Live(status'[t]) => Live(status[t])
      BY <2>1 DEF AtWork, Live
    <2>3. ASSUME NEW g \in Handlers, g # h
          PROVE  LET r == row'[UserOf[sub'[g]]] IN
                 /\ pc'[g] \in Deciding => prev'[g].sub = r.sub /\ prev'[g].status = r.status /\ prev'[g].plan = r.plan
                 /\ pc'[g] = "doubting" => r.sub # NoSub
                 /\ pc'[g] = "claiming" => sub'[g] \in ThreeDay
                 /\ pc'[g] = "writing" /\ r.sub \notin {NoSub, sub'[g]} =>
                       ~Live(r.status) \/ (Live(seen'[g].status) /\ ~Live(status'[r.sub]))
                 /\ pc'[g] = "mailing" => r.plan = Plan(sub'[g], seen'[g])
      <3>1. pc'[g] = pc[g] /\ sub'[g] = sub[g] /\ seen'[g] = seen[g] /\ prev'[g] = prev[g]
        BY <2>1, <2>3 DEF Spares, Others
      <3>2. CASE pc[g] \in Deciding \union {"mailing"}
        <4>1. pc[g] \in Locked /\ pc[g] # "idle"
          BY <3>2, Stages DEF Deciding
        <4>2. sub[g] \in Subs /\ UserOf[sub[g]] \in Users
          BY <1>0, <4>1 DEF WorkInv
        <4>3. SameRow(UserOf[sub[g]])
          <5>1. pc[h] = "writing" => UserOf[sub[g]] # UserOf[sub[h]]
            BY <2>3, <4>1, Alone, Stages
          <5> QED
            BY <2>1, <4>2, <5>1 DEF Spares
        <4>4. ReadInv!(g)
          BY DEF ReadInv
        <4> QED
          BY <1>s, <2>2, <3>1, <4>2, <4>3, <4>4 DEF SameRow
      <3>3. CASE pc[g] \notin Deciding \union {"mailing"}
        BY <3>1, <3>3 DEF Deciding
      <3> QED
        BY <3>2, <3>3
    <2>4. LET r == row'[UserOf[sub'[h]]] IN
          /\ pc'[h] \in Deciding => prev'[h].sub = r.sub /\ prev'[h].status = r.status /\ prev'[h].plan = r.plan
          /\ pc'[h] = "doubting" => r.sub # NoSub
          /\ pc'[h] = "claiming" => sub'[h] \in ThreeDay
          /\ pc'[h] = "writing" /\ r.sub \notin {NoSub, sub'[h]} =>
                ~Live(r.status) \/ (Live(seen'[h].status) /\ ~Live(status'[r.sub]))
          /\ pc'[h] = "mailing" => r.plan = Plan(sub'[h], seen'[h])
      <3>u. PICK u \in Users : u = UserOf[sub[h]]
        BY <2>1
      <3>1. CASE pc'[h] = "mailing"
        <4>1. pc[h] = "writing" /\ sub'[h] = sub[h] /\ seen'[h] = seen[h]
          BY <2>1, <3>1 DEF Way, Carries
        <4>2. Write(h)
          BY <1>3, <3>1, <4>1, Which
        <4>3. row'[UserOf[sub[h]]].plan = Plan(sub[h], seen[h])
          BY <1>0, <2>1, <4>2, WriteDoes
        <4> QED
          BY <3>1, <4>1, <4>3 DEF Deciding
      <3>2. CASE pc'[h] \in Deciding
        <4>1. sub'[h] = sub[h] /\ seen'[h] = seen[h]
          BY <2>1, <3>2 DEF Deciding, Carries
        <4>2. SameRow(u)
          BY <2>1, <3>2, <3>u DEF Spares, Deciding
        <4>3. prev'[h].sub = row[u].sub /\ prev'[h].status = row[u].status /\ prev'[h].plan = row[u].plan
          BY <2>1, <3>2, <3>u DEF Way, Carries, ReadInv, Deciding
        <4>4. pc'[h] = "doubting" => row[u].sub # NoSub
          BY <2>1, <3>u DEF Way, Second, Subscribed
        <4>5. pc'[h] = "claiming" => sub[h] \in ThreeDay
          BY <2>1 DEF Way
        <4>6. ASSUME pc'[h] = "writing", row[u].sub # NoSub, row[u].sub # sub[h]
              PROVE  ~Live(row[u].status) \/ (Live(seen[h].status) /\ ~Live(status[row[u].sub]))
          <5>1. CASE pc[h] = "reading"
            BY <2>1, <3>u, <4>6, <5>1 DEF Way, Replaced, Second, Subscribed
          <5>2. CASE pc[h] = "doubting"
            BY <2>1, <3>u, <4>6, <5>2 DEF Way, ReadInv, Deciding, SeenInv
          <5>3. CASE pc[h] = "claiming"
            <6>1. sub[h] \in ThreeDay /\ row[u].sub \in Subs /\ UserOf[row[u].sub] = u
              BY <1>s, <3>u, <4>6, <5>3 DEF ReadInv, BoundInv
            <6> QED
              BY <2>1, <3>u, <4>6, <6>1 DEF Apart, ReturnInv
          <5> QED
            BY <2>1, <4>6, <5>1, <5>2, <5>3 DEF Way
        <4>7. row[u].sub # NoSub => (Live(status'[row[u].sub]) => Live(status[row[u].sub]))
          BY <1>s, <2>2
        <4> QED
          BY <3>2, <3>u, <4>1, <4>2, <4>3, <4>4, <4>5, <4>6, <4>7 DEF SameRow, Deciding
      <3>3. CASE pc'[h] \notin Deciding \union {"mailing"}
        BY <3>3 DEF Deciding
      <3> QED
        BY <3>1, <3>2, <3>3
    <2> QED
      BY <2>3, <2>4 DEF ReadInv
  <1> QED
    BY <1>0, <1>1, <1>2, <1>3, Steps
-----------------------------------------------------------------------------
(* The row follows Stripe *)

\* The row says what Stripe says of s, if it is about s, and it is if s is live; and
\* so will whoever is about to write it.
UpToDate(s) ==
    /\ row[UserOf[s]].sub = s => row[UserOf[s]].status = status[s] /\ row[UserOf[s]].plan = Plan(s, Copy(s))
    /\ Live(status[s]) => row[UserOf[s]].sub = s
    /\ \A h \in Handlers : sub[h] = s /\ pc[h] \in Copying => seen[h] = Copy(s)

FreshInv == \A s \in Subs : UpToDate(s) \/ \E k \in Kinds : Due(s, k, Copying)

\* A handler writes what it has read under the lock.
LEMMA FreshWork ==
  ASSUME Apart, BaseInv, SeenInv, ReturnInv, BoundInv, ReadInv, FreshInv,
         NEW h \in Handlers, Webhook(h), NEW s \in Subs, Copy(s)' = Copy(s)
  PROVE  (UpToDate(s) \/ \E k \in Kinds : Due(s, k, Copying))'
  <1>0. /\ TypeOK /\ OneHolder /\ HandlerType /\ StripeType /\ WorkInv
        /\ Way(h) /\ Carries(h) /\ Spares(h) /\ AtWork(h) /\ Progress(h) /\ sub[h] \in Subs /\ pc[h] # "idle"
    BY WebhookDoes, WebhookProgress, TypeParts DEF BaseInv, AtWork, WorkInv, Progress
  <1>u. PICK u \in Users : u = UserOf[s]
    BY SubsAssumption
  <1>1. status'[s] = status[s] /\ Copy(s).status = status[s]
    <2>1. Copy(s).status = status[s] /\ Copy(s)'.status = status'[s]
      BY DEF Copy
    <2> QED
      BY <2>1
  <1>2. Copying \in SUBSET Copying /\ "reading" \in Copying /\ Copying \subseteq Locked /\ "idle" \notin Copying
    BY Stages DEF Copying
  <1>3. ASSUME NEW k \in Kinds, Due(s, k, Copying), ~(On(h, s, k) /\ pc[h] \in Copying) \/ pc'[h] = "idle" \/ pc'[h] \in Copying
        PROVE  Due(s, k, Copying)'
    BY <1>0, <1>2, <1>3, DueWork
  <1>4. ASSUME UpToDate(s)
        PROVE  \A g \in Handlers : sub'[g] = s /\ pc'[g] \in Copying => seen'[g] = Copy(s)
    <2>1. ASSUME NEW g \in Handlers, g # h, sub'[g] = s, pc'[g] \in Copying PROVE seen'[g] = Copy(s)
      BY <1>0, <1>4, <2>1 DEF UpToDate, Spares, Others
    <2>2. ASSUME sub'[h] = s, pc'[h] \in Copying PROVE seen'[h] = Copy(s)
      <3>1. sub[h] = s
        BY <1>0, <1>2, <2>2 DEF Carries
      <3>2. CASE pc'[h] = "reading"
        BY <1>0, <3>1, <3>2 DEF Way
      <3>3. CASE pc'[h] # "reading"
        <4>1. pc[h] \in Copying /\ seen'[h] = seen[h]
          BY <1>0, <2>2, <3>3 DEF Way, Carries, Copying
        <4> QED
          BY <1>4, <3>1, <4>1 DEF UpToDate
      <3> QED
        BY <3>2, <3>3
    <2> QED
      BY <2>1, <2>2
  <1>5. ASSUME sub[h] = s, pc[h] \in Copying, pc'[h] \notin Copying
        PROVE  \A g \in Handlers : sub'[g] = s /\ pc'[g] \in Copying => seen'[g] = Copy(s)
    BY <1>0, <1>2, <1>5, OneOnSub DEF Spares, Others
  <1>6. CASE SameRow(u) /\ ~(u = UserOf[sub[h]] /\ pc[h] = "writing" /\ pc'[h] = "mailing")
    <2>1. CASE UpToDate(s)
      <3>1. UpToDate(s)'
        BY <1>1, <1>4, <1>6, <1>u, <2>1 DEF UpToDate, SameRow
      <3> QED
        BY <3>1
    <2>2. ASSUME NEW k \in Kinds, Due(s, k, Copying), On(h, s, k), pc[h] \in Copying, pc'[h] # "idle", pc'[h] \notin Copying
          PROVE  UpToDate(s)'
      <3>1. sub[h] = s /\ seen[h] = Copy(s)
        BY <2>2 DEF Due, On, Copying, Unfetched
      <3>2. pc[h] # "cancelling"
        <4>1. pc[h] = "cancelling" => Cancel(h) /\ Live(seen[h].status)
          BY <2>2, Which DEF SeenInv
        <4> QED
          BY <1>0, <1>1, <3>1, <4>1, CancelDoes DEF Live
      <3>3. Replaced(h, row[u])
        BY <1>0, <1>6, <1>u, <2>2, <3>1, <3>2 DEF Way, Copying
      <3>4. row'[u].sub # s /\ ~Live(status'[s])
        BY <1>1, <1>6, <3>1, <3>3 DEF Replaced, SameRow
      <3> QED
        BY <1>5, <1>u, <2>2, <3>1, <3>4 DEF UpToDate
    <2> QED
      BY <1>3, <2>1, <2>2 DEF FreshInv
  <1>7. CASE u = UserOf[sub[h]] /\ pc[h] = "writing" /\ pc'[h] = "mailing"
    <2>1. Write(h)
      BY <1>7, Which
    <2>2. /\ row'[u].sub = sub[h] /\ row'[u].status = seen[h].status /\ row'[u].plan = Plan(sub[h], seen[h])
      BY <1>0, <1>7, <2>1, WriteDoes
    <2>3. pc[h] \in Copying /\ pc'[h] \notin Copying /\ pc[h] \in Locked
      BY <1>7, <1>2 DEF Copying
    <2>4. CASE sub[h] = s
      <3>1. ASSUME seen[h] = Copy(s) PROVE UpToDate(s)'
        BY <1>1, <1>5, <1>u, <2>2, <2>3, <2>4, <3>1 DEF UpToDate
      <3>2. UpToDate(s) => seen[h] = Copy(s)
        BY <2>3, <2>4 DEF UpToDate
      <3>3. ASSUME NEW k \in Kinds, Due(s, k, Copying), On(h, s, k) PROVE seen[h] = Copy(s)
        BY <1>7, <3>3 DEF Due, Unfetched
      <3> QED
        BY <1>3, <3>1, <3>2, <3>3 DEF FreshInv
    <2>5. CASE sub[h] # s
      <3>1. ASSUME UpToDate(s) PROVE UpToDate(s)'
        <4>1. ~Live(status[s])
          <5>1. CASE row[u].sub = s
            <6>1. s # NoSub
              BY SubsAssumption
            <6>2. ~Live(row[u].status) \/ ~Live(status[row[u].sub])
              BY <1>7, <2>5, <5>1, <6>1 DEF ReadInv
            <6> QED
              BY <1>u, <3>1, <5>1, <6>2 DEF UpToDate
          <5>2. CASE row[u].sub # s
            BY <1>u, <3>1, <5>2 DEF UpToDate
          <5> QED
            BY <5>1, <5>2
        <4> QED
          BY <1>1, <1>4, <1>u, <2>2, <2>5, <3>1, <4>1 DEF UpToDate
      <3>2. \A k \in Kinds : ~On(h, s, k)
        BY <2>5 DEF On
      <3> QED
        BY <1>3, <3>1, <3>2 DEF FreshInv
    <2> QED
      BY <2>4, <2>5
  <1>8. SameRow(u) \/ (u = UserOf[sub[h]] /\ pc[h] = "writing" /\ pc'[h] = "mailing")
    BY <1>0 DEF Spares
  <1> QED
    BY <1>6, <1>7, <1>8

\* A change opens an event, and an event is not done before its handler has written what Stripe says.
LEMMA FreshStep ==
  ASSUME Apart, BaseInv, SeenInv, MarkInv, JudgeInv, ReturnInv, BoundInv, ReadInv, FreshInv, [Next]_vars
  PROVE  FreshInv'
  <1>0. TypeOK /\ EndInv
    BY DEF BaseInv, SeenInv
  <1> SUFFICES ASSUME NEW s \in Subs
               PROVE  (UpToDate(s) \/ \E k \in Kinds : Due(s, k, Copying))'
    BY DEF FreshInv
  <1>1. ASSUME Tidings(s), UNCHANGED handler \/ \E h \in Handlers : AtWork(h)
        PROVE  Copy(s)' = Copy(s) \/ \E k \in Kinds : Due(s, k, Copying)'
    BY <1>1, DueFresh DEF Tidings
  <1>2. ASSUME Copy(s)' = Copy(s) PROVE status'[s] = status[s]
    <2>1. Copy(s).status = status[s] /\ Copy(s)'.status = status'[s]
      BY DEF Copy
    <2> QED
      BY <1>2, <2>1
  <1>3. CASE Outside
    <2>1. CASE Copy(s)' = Copy(s)
      <3>1. UpToDate(s) => UpToDate(s)'
        BY <1>2, <1>3, <2>1 DEF UpToDate, Outside, handler
      <3>2. ASSUME NEW k \in Kinds, Due(s, k, Copying) PROVE Due(s, k, Copying)'
        BY <1>3, <2>1, <3>2, DueOutside
      <3> QED
        BY <3>1, <3>2 DEF FreshInv
    <2> QED
      BY <1>1, <1>3, <2>1 DEF Outside
  <1>4. CASE \E h \in Handlers, t \in Subs, k \in Kinds : Receive(h, t, k)
    <2>1. PICK h \in Handlers, t \in Subs, j \in Kinds : Receive(h, t, j)
      BY <1>4
    <2>2. UNCHANGED <<stripe, row>> /\ pc'[h] = "received" /\ Others(h)
      BY <1>0, <2>1, ReceiveDoes DEF db
    <2>3. Copy(s)' = Copy(s)
      BY <2>2 DEF stripe, Copy
    <2>4. UpToDate(s) => UpToDate(s)'
      BY <1>2, <2>2, <2>3 DEF UpToDate, Others, Copying
    <2>5. ASSUME NEW k \in Kinds, Due(s, k, Copying) PROVE Due(s, k, Copying)'
      BY <1>4, <2>3, <2>5, DueOutside
    <2> QED
      BY <2>4, <2>5 DEF FreshInv
  <1>5. ASSUME NEW h \in Handlers, Webhook(h)
        PROVE  (UpToDate(s) \/ \E k \in Kinds : Due(s, k, Copying))'
    <2>1. Tidings(s) /\ AtWork(h)
      BY <1>0, <1>5, WorkTells, WebhookDoes
    <2>2. CASE Copy(s)' = Copy(s)
      BY <1>5, <2>2, FreshWork
    <2> QED
      BY <1>1, <2>1, <2>2
  <1> QED
    BY <1>0, <1>3, <1>4, <1>5, Steps
-----------------------------------------------------------------------------
(* Welcomes *)

\* An account without a plan has no welcome behind it, and who is about to send one
\* is the first to.
WelcomeInv ==
    /\ \A u \in Users : welcomes[u] <= 1 /\ (~row[u].plan => welcomes[u] = 0)
    /\ \A h \in Handlers : pc[h] = "mailing" /\ ~prev[h].plan => welcomes[UserOf[sub[h]]] = 0

\* The welcome is sent under the lock, after the write, by who read the row as unpaid.
LEMMA WelcomeStep ==
  ASSUME Apart, BaseInv, EndInv, ReturnInv, ReadInv, WelcomeInv, [Next]_vars
  PROVE  WelcomeInv'
  <1>0. TypeOK /\ WorkInv /\ HandlerType /\ UserOf \in [Subs -> Users] /\ welcomes \in [Users -> 0 .. 2]
    BY TypeParts, SubsAssumption DEF BaseInv, RowsType
  <1>1. CASE Outside
    BY <1>1 DEF Outside, handler, WelcomeInv
  <1>2. CASE \E h \in Handlers, s \in Subs, k \in Kinds : Receive(h, s, k)
    <2>1. PICK h \in Handlers, s \in Subs, k \in Kinds : Receive(h, s, k)
      BY <1>2
    <2>2. UNCHANGED <<welcomes, row>> /\ pc'[h] = "received" /\ Others(h)
      BY <1>0, <2>1, ReceiveDoes DEF history, db
    <2> QED
      BY <2>2 DEF WelcomeInv, Others
  <1>3. ASSUME NEW h \in Handlers, Webhook(h)
        PROVE  WelcomeInv'
    <2>1. Way(h) /\ Carries(h) /\ Spares(h) /\ sub[h] \in Subs /\ UserOf[sub[h]] \in Users
      BY <1>0, <1>3, WebhookDoes, WebhookProgress DEF AtWork, Progress, WorkInv
    <2>u. PICK u \in Users : u = UserOf[sub[h]]
      BY <2>1
    <2>2. ASSUME NEW g \in Handlers, g # h, pc[g] = "mailing", pc[h] \in {"writing", "mailing"}
          PROVE  UserOf[sub[g]] # u
      BY <2>2, <2>u, Alone, Stages
    <2>3. CASE pc[h] = "writing" /\ pc'[h] # "idle"
      <3>1. Write(h) /\ pc'[h] = "mailing" /\ sub'[h] = sub[h] /\ prev'[h] = prev[h]
        BY <1>3, <2>1, <2>3, Which DEF Way, Carries
      <3>2. /\ row'[u].plan = Plan(sub[h], seen[h])
            /\ welcomes'[u] = IF Plan(sub[h], seen[h]) THEN welcomes[u] ELSE 0
            /\ \A v \in Users : v # u => row'[v] = row[v] /\ welcomes'[v] = welcomes[v]
        BY <1>0, <2>1, <2>u, <3>1, WriteDoes
      <3>3. prev[h].plan = row[u].plan
        BY <2>3, <2>u DEF ReadInv, Deciding
      <3>4. ~prev[h].plan => welcomes'[u] = 0
        BY <3>2, <3>3 DEF WelcomeInv
      <3>5. \A v \in Users : welcomes'[v] <= 1 /\ (~row'[v].plan => welcomes'[v] = 0)
        BY <3>2 DEF WelcomeInv
      <3>6. ASSUME NEW g \in Handlers, g # h, pc'[g] = "mailing", ~prev'[g].plan
            PROVE  welcomes'[UserOf[sub'[g]]] = 0
        <4>1. pc[g] = "mailing" /\ ~prev[g].plan /\ sub'[g] = sub[g] /\ sub[g] \in Subs
          BY <1>0, <2>1, <3>6 DEF Spares, Others, WorkInv
        <4> QED
          BY <1>0, <2>2, <2>3, <3>2, <3>6, <4>1 DEF WelcomeInv
      <3> QED
        BY <2>u, <3>1, <3>4, <3>5, <3>6 DEF WelcomeInv
    <2>4. CASE pc[h] = "mailing" /\ pc'[h] # "idle"
      <3>1. Mail(h) /\ pc'[h] # "mailing"
        BY <1>3, <2>1, <2>4, Which DEF Way
      <3>2. /\ welcomes'[u] = IF Welcomes(h) /\ welcomes[u] < 2 THEN welcomes[u] + 1 ELSE welcomes[u]
            /\ \A v \in Users : v # u => welcomes'[v] = welcomes[v]
            /\ \A v \in Users : SameRow(v)
        BY <1>0, <2>1, <2>u, <3>1, MailDoes
      <3>3. Welcomes(h) => welcomes[u] = 0 /\ row[u].plan
        BY <2>4, <2>u DEF Welcomes, WelcomeInv, ReadInv
      <3>4. welcomes'[u] <= 1 /\ (~row[u].plan => welcomes'[u] = 0)
        BY <3>2, <3>3 DEF WelcomeInv
      <3>5. \A v \in Users : welcomes'[v] <= 1 /\ (~row'[v].plan => welcomes'[v] = 0)
        BY <3>2, <3>4 DEF WelcomeInv, SameRow
      <3>6. ASSUME NEW g \in Handlers, g # h, pc'[g] = "mailing", ~prev'[g].plan
            PROVE  welcomes'[UserOf[sub'[g]]] = 0
        <4>1. pc[g] = "mailing" /\ ~prev[g].plan /\ sub'[g] = sub[g] /\ sub[g] \in Subs
          BY <1>0, <2>1, <3>6 DEF Spares, Others, WorkInv
        <4> QED
          BY <1>0, <2>2, <2>4, <3>2, <3>6, <4>1 DEF WelcomeInv
      <3> QED
        BY <3>1, <3>5, <3>6 DEF WelcomeInv
    <2>5. CASE pc[h] \notin {"writing", "mailing"} \/ pc'[h] = "idle"
      <3>1. welcomes' = welcomes /\ pc'[h] # "mailing" /\ \A v \in Users : SameRow(v)
        BY <2>1, <2>5 DEF Spares, Way
      <3> QED
        BY <2>1, <3>1 DEF WelcomeInv, SameRow, Spares, Others
    <2> QED
      BY <2>3, <2>4, <2>5
  <1> QED
    BY <1>1, <1>2, <1>3, Steps
-----------------------------------------------------------------------------
(* Schedules *)

\* The event k of s will switch the schedules off: s has ended, and whoever has the
\* event knows or will know it.
Ending(s, k) ==
    /\ k # "checkout" /\ event[s][k] = "open" /\ status[s] = "canceled"
    /\ \A h \in Handlers : On(h, s, k) =>
          /\ pc[h] # "completing"
          /\ pc[h] \in Copying \union {"mailing", "switching"} => seen[h].status = "canceled"

ScheduleInv ==
    \A u \in Users : row[u].reason = "ended" /\ cadence[u] = "set" =>
        \E s \in SubsOf(u), k \in Kinds : Ending(s, k)

\* A handler at work leaves a plan's end to be acted on, or acts on it.
LEMMA ScheduleWork ==
  ASSUME Apart, BaseInv, SeenInv, ReturnInv, BoundInv, RowInv, ReadInv, FreshInv, ScheduleInv,
         NEW h \in Handlers, Webhook(h)
  PROVE  ScheduleInv'
  <1>0. /\ TypeOK /\ HandlerType /\ StripeType /\ WorkInv /\ SessionInv /\ UserOf \in [Subs -> Users]
        /\ Way(h) /\ Carries(h) /\ Spares(h) /\ AtWork(h) /\ sub[h] \in Subs /\ pc[h] # "idle"
        /\ session[sub[h]] = "complete" /\ seen[h] \in Copies
    BY WebhookDoes, WebhookProgress, TypeParts, SubsAssumption, OnPaid DEF BaseInv, AtWork, Progress, HandlerType
  <1> SUFFICES ASSUME NEW u \in Users, row'[u].reason = "ended", cadence'[u] = "set"
               PROVE  \E s \in SubsOf(u), k \in Kinds : Ending(s, k)'
    BY DEF ScheduleInv, SubsOf
  <1>1. cadence[u] = "set"
    BY <1>0 DEF Spares
  <1>2. row[u].sub # NoSub
    BY <1>1 DEF RowInv
  <1>3. ASSUME NEW s \in Subs, NEW k \in Kinds, Ending(s, k), UserOf[s] = u,
               row[u].reason = "ended" \/ (pc[h] = "writing" /\ u = UserOf[sub[h]])
        PROVE  Ending(s, k)'
    <2>1. status'[s] = "canceled" /\ seen[h] \in Copies
      BY <1>0, <1>3 DEF Ending, AtWork
    <2>2. event'[s][k] = "open"
      BY <1>0, <1>3 DEF Ending, Spares, On
    <2>3. ASSUME NEW g \in Handlers, g # h, On(g, s, k)'
          PROVE  /\ pc'[g] # "completing"
                 /\ pc'[g] \in Copying \union {"mailing", "switching"} => seen'[g].status = "canceled"
      BY <1>0, <1>3, <2>3 DEF Ending, On, Spares, Others
    <2>4. ASSUME On(h, s, k)'
          PROVE  /\ pc'[h] # "completing"
                 /\ pc'[h] \in Copying \union {"mailing", "switching"} => seen'[h].status = "canceled"
      <3>1. On(h, s, k) /\ sub[h] = s /\ pc'[h] # "idle" /\ kind[h] # "checkout"
        BY <1>0, <1>3, <2>4 DEF On, Carries, Ending
      <3>2. pc[h] \in Copying \union {"mailing", "switching"} => seen[h].status = "canceled"
        BY <1>3, <3>1 DEF Ending
      <3>3. pc[h] \notin {"doubting", "cancelling"}
        BY <3>2 DEF SeenInv, Copying, Live
      <3>4. Copy(s).status = "canceled"
        BY <1>3 DEF Copy, Ending
      <3>5. pc'[h] \in Copying \union {"mailing", "switching"} => seen'[h].status = "canceled"
        BY <1>0, <3>1, <3>2, <3>4 DEF Way, Carries, Copying
      <3>6. pc[h] = "reading" => pc'[h] # "completing"
        <4>1. pc[h] = "reading" => row[u].reason = "ended" /\ ~Live(row[u].status)
          BY <1>2, <1>3 DEF RowInv
        <4> QED
          BY <1>0, <1>3, <3>1, <4>1 DEF Way, Replaced, Subscribed
      <3>7. pc[h] = "mailing" => pc'[h] # "completing"
        <4>1. pc[h] = "mailing" => Reason(s, seen[h]) = "ended"
          BY <1>3, <2>1, <3>2, ReasonFacts DEF Live
        <4> QED
          BY <1>0, <3>1, <4>1 DEF Way
      <3>8. pc[h] # "switching"
        <4> SUFFICES ASSUME pc[h] = "switching" PROVE FALSE
          OBVIOUS
        <4>1. SwitchOff(h)
          BY <3>1, Which
        <4>2. row[u].sub \in Subs /\ UserOf[row[u].sub] = u /\ session[row[u].sub] = "complete"
              /\ row[u].customer = customer[row[u].sub]
          BY <1>0, <1>2, TypeParts DEF BoundInv, RowsType, Rows
        <4>3. customer[row[u].sub] = customer[s]
          BY <1>0, <1>3, <3>1, <4>2 DEF Apart, ReturnInv
        <4>4. cadence'[u] = "manual"
          BY <1>0, <3>1, <4>1, <4>2, <4>3, SwitchOffDoes
        <4> QED
          BY <4>4
      <3> QED
        BY <1>0, <3>1, <3>3, <3>5, <3>6, <3>7, <3>8 DEF Way
    <2> QED
      BY <1>3, <2>1, <2>2, <2>3, <2>4 DEF Ending
  <1>4. CASE row[u].reason = "ended"
    <2>1. PICK s \in SubsOf(u), k \in Kinds : Ending(s, k)
      BY <1>1, <1>4 DEF ScheduleInv
    <2>2. s \in Subs /\ UserOf[s] = u
      BY DEF SubsOf
    <2>3. Ending(s, k)'
      BY <1>3, <1>4, <2>1, <2>2
    <2> QED
      BY <2>3
  <1>5. CASE row[u].reason # "ended"
    <2>1. pc[h] = "writing" /\ pc'[h] = "mailing" /\ u = UserOf[sub[h]]
      BY <1>0, <1>5 DEF Spares, SameRow
    <2>2. Write(h)
      BY <2>1, Which
    <2>3. row'[u].reason = Reason(sub[h], seen[h])
      BY <1>0, <2>1, <2>2, WriteDoes
    <2>4. seen[h].status = "canceled" /\ status[sub[h]] = "canceled"
      <3>1. seen[h].status # "none" /\ (seen[h].status = "canceled" => status[sub[h]] = "canceled")
        BY <2>1 DEF SeenInv, Reading, Copying
      <3>2. ~Live(seen[h].status)
        BY <1>0, <2>3, <3>1, ReasonFacts
      <3> QED
        BY <1>0, <3>1, <3>2 DEF Live, Copies, Statuses
    <2>5. Live(row[u].status)
      BY <1>2, <1>5 DEF RowInv
    <2>6. row[u].sub = sub[h]
      BY <1>2, <2>1, <2>4, <2>5 DEF ReadInv, Live
    <2>7. ~UpToDate(sub[h])
      BY <2>1, <2>4, <2>5, <2>6 DEF UpToDate, Live
    <2>8. PICK k \in Kinds : Due(sub[h], k, Copying)
      BY <1>0, <2>7 DEF FreshInv
    <2>9. Copy(sub[h]).status = "canceled"
      BY <2>4 DEF Copy
    <2>10. Ending(sub[h], k)
      BY <2>4, <2>8, <2>9 DEF Due, Ending, Copying, Unfetched
    <2>s. PICK s \in Subs : s = sub[h]
      BY <1>0
    <2>11. Ending(s, k)' /\ s \in SubsOf(u)
      BY <1>3, <2>1, <2>10, <2>s DEF SubsOf
    <2> QED
      BY <2>11
  <1> QED
    BY <1>4, <1>5

\* Whoever takes the step, an end that is not acted on has an event that will be.
LEMMA ScheduleStep ==
  ASSUME Apart, BaseInv, SeenInv, ReturnInv, BoundInv, RowInv, ReadInv, FreshInv, ScheduleInv, [Next]_vars
  PROVE  ScheduleInv'
  <1>0. TypeOK /\ EndInv
    BY DEF BaseInv, SeenInv
  <1>1. CASE Outside
    <2>1. SUFFICES ASSUME NEW u \in Users, row'[u].reason = "ended", cadence'[u] = "set"
                   PROVE  \E s \in SubsOf(u), k \in Kinds : Ending(s, k)'
      BY DEF ScheduleInv, SubsOf
    <2>2. row[u].reason = "ended" /\ cadence[u] = "set"
      BY <1>1, <2>1 DEF Outside, RowInv
    <2>3. PICK s \in SubsOf(u), k \in Kinds : Ending(s, k)
      BY <2>2 DEF ScheduleInv
    <2>4. Ending(s, k)'
      BY <1>1, <2>3 DEF Ending, On, Outside, handler, Tells, SubsOf
    <2> QED
      BY <2>4
  <1>2. CASE \E h \in Handlers, s \in Subs, k \in Kinds : Receive(h, s, k)
    <2>1. PICK h \in Handlers, t \in Subs, j \in Kinds : Receive(h, t, j)
      BY <1>2
    <2>2. UNCHANGED <<stripe, event, row, cadence>> /\ pc'[h] = "received" /\ Others(h)
      BY <1>0, <2>1, ReceiveDoes DEF db
    <2>3. ASSUME NEW s \in Subs, NEW k \in Kinds, Ending(s, k) PROVE Ending(s, k)'
      BY <2>2, <2>3 DEF Ending, On, Others, stripe, Copying
    <2> QED
      BY <2>2, <2>3 DEF ScheduleInv, SubsOf
  <1>3. CASE \E h \in Handlers : Webhook(h)
    BY <1>3, ScheduleWork
  <1> QED
    BY <1>0, <1>1, <1>2, <1>3, Steps
-----------------------------------------------------------------------------
(* Theorems *)

\* What needs no assumption on who buys what, and what does.
StripeInv == BaseInv /\ SeenInv /\ MarkInv /\ JudgeInv /\ DisputeInv /\ Unique /\ TrialInv
EntitlementInv ==
    StripeInv /\ ReturnInv /\ BoundInv /\ RowInv /\ ReadInv /\ FreshInv /\ WelcomeInv /\ ScheduleInv

\* The first part holds at first.
LEMMA StripeStart == Init => StripeInv
  <1> SUFFICES ASSUME Init PROVE StripeInv
    OBVIOUS
  <1>1. DisputeInv
    BY Start DEF DisputeInv, Judged
  <1>2. Unique /\ TrialInv
    BY Start, SubsAssumption DEF Unique, TrialInv
  <1> QED
    BY <1>1, <1>2, BaseStart, SeenStart, MarkStart DEF StripeInv

\* And is kept.
LEMMA StripeKept ==
  ASSUME StripeInv, [Next]_vars
  PROVE  StripeInv'
  <1>1. EndInv
    BY DEF StripeInv, SeenInv
  <1> QED
    BY <1>1, BaseStep, SeenStep, MarkStep, DisputeStep, UniqueStep, TrialStep DEF StripeInv

\* So does the second.
LEMMA EntitlementStart == Init => EntitlementInv
  <1> SUFFICES ASSUME Init PROVE EntitlementInv
    OBVIOUS
  <1>1. StripeInv /\ ReturnInv
    BY StripeStart, ReturnStart
  <1>2. BoundInv /\ RowInv
    BY RowStart, Start DEF BoundInv, RowInv
  <1>3. ReadInv
    BY Start DEF ReadInv, Deciding
  <1>4. FreshInv
    <2>1. \A s \in Subs : row[UserOf[s]].sub # s
      BY RowStart, SubsAssumption
    <2> QED
      BY <2>1, Start DEF FreshInv, UpToDate, Live, Copying
  <1>5. WelcomeInv /\ ScheduleInv
    BY Start DEF WelcomeInv, ScheduleInv
  <1> QED
    BY <1>1, <1>2, <1>3, <1>4, <1>5 DEF EntitlementInv

\* And is kept, where accounts are apart.
LEMMA EntitlementKept ==
  ASSUME Apart, EntitlementInv, [Next]_vars
  PROVE  EntitlementInv'
  <1>1. StripeInv /\ BaseInv /\ SeenInv /\ EndInv /\ MarkInv /\ JudgeInv
    BY DEF EntitlementInv, StripeInv, SeenInv
  <1>2. StripeInv'
    BY <1>1, StripeKept
  <1>3. ReturnInv' /\ BoundInv' /\ RowInv'
    BY <1>1, ReturnStep, BoundStep, RowStep DEF EntitlementInv
  <1>4. ReadInv' /\ FreshInv'
    BY <1>1, ReadStep, FreshStep DEF EntitlementInv
  <1>5. WelcomeInv' /\ ScheduleInv'
    BY <1>1, WelcomeStep, ScheduleStep DEF EntitlementInv
  <1> QED
    BY <1>2, <1>3, <1>4, <1>5 DEF EntitlementInv

\* Once every event is answered each dispute is judged as it stands at Stripe, for
\* any accounts and checkouts: the request that follows a stale judgement is put
\* right by the event that overtook it.
THEOREM DisputesJudged == Spec => [](Settled => \A s \in Subs : Judged(s))
  <1>1. StripeInv => (Settled => \A s \in Subs : Judged(s))
    BY DEF StripeInv, DisputeInv, Unjudged, Settled
  <1> QED
    BY <1>1, StripeStart, StripeKept, PTL DEF Spec

\* Everything the account-level results rest on.
THEOREM EntitlementsHold == ASSUME Apart PROVE Spec => []EntitlementInv
  <1>1. Init => EntitlementInv
    BY EntitlementStart
  <1>2. EntitlementInv /\ [Next]_vars => EntitlementInv'
    BY EntitlementKept
  <1> QED
    BY <1>1, <1>2, PTL DEF Spec

\* Once every event is answered the row mirrors Stripe, whatever the order in which
\* events came, and although they came twice, late, and to handlers that died: every
\* change has an event that is still to be applied by someone who will read the
\* subscription after it.
THEOREM RowMirrorsStripe == ASSUME Apart PROVE Spec => []RowFollowsStripe
  <1>1. EntitlementInv => RowFollowsStripe
    <2> SUFFICES ASSUME EntitlementInv, Settled, NEW u \in Users
                 PROVE  /\ row[u].sub # NoSub => row[u].status = status[row[u].sub] /\ row[u].plan = Plan(row[u].sub, Copy(row[u].sub))
                        /\ (\E s \in SubsOf(u) : Live(status[s])) => Subscribed(row[u])
      BY DEF RowFollowsStripe
    <2>1. \A s \in Subs : UpToDate(s)
      BY DEF EntitlementInv, FreshInv, Due, Settled
    <2>2. row[u].sub # NoSub => row[u].sub \in Subs /\ UserOf[row[u].sub] = u
      BY TypeParts DEF EntitlementInv, StripeInv, BaseInv, BoundInv, RowsType, Rows
    <2>3. row[u].sub # NoSub => row[u].status = status[row[u].sub] /\ row[u].plan = Plan(row[u].sub, Copy(row[u].sub))
      BY <2>1, <2>2 DEF UpToDate
    <2>4. ASSUME NEW s \in SubsOf(u), Live(status[s]) PROVE Subscribed(row[u])
      <3>1. s \in Subs /\ UserOf[s] = u /\ s # NoSub
        BY SubsAssumption DEF SubsOf
      <3> QED
        BY <2>1, <2>4, <3>1 DEF UpToDate, Subscribed
    <2> QED
      BY <2>3, <2>4
  <1> QED
    BY <1>1, EntitlementsHold, PTL

\* A second subscription never stays beside a live one.
THEOREM NeverTwo == ASSUME Apart PROVE Spec => []OneLiveSubscription
  <1>1. EntitlementInv => OneLiveSubscription
    <2> SUFFICES ASSUME EntitlementInv, Settled, NEW s \in Subs, NEW t \in Subs,
                        UserOf[s] = UserOf[t], Live(status[s]), Live(status[t])
                 PROVE  s = t
      BY DEF OneLiveSubscription
    <2>1. UpToDate(s) /\ UpToDate(t)
      BY DEF EntitlementInv, FreshInv, Due, Settled
    <2> QED
      BY <2>1 DEF UpToDate
  <1> QED
    BY <1>1, EntitlementsHold, PTL

\* An account is welcomed once each time it crosses to a paid plan.
THEOREM WelcomedOnceEach == ASSUME Apart PROVE Spec => []OneWelcome
  <1>1. EntitlementInv => OneWelcome
    BY DEF EntitlementInv, WelcomeInv, OneWelcome
  <1> QED
    BY <1>1, EntitlementsHold, PTL

\* Schedules do not outlive the plan, although the handler that wrote its end may
\* have died before it switched them off.
THEOREM SchedulesGo == ASSUME Apart PROVE Spec => []EndedMeansNoSchedule
  <1>1. EntitlementInv => EndedMeansNoSchedule
    BY DEF EntitlementInv, ScheduleInv, EndedMeansNoSchedule, Settled, Ending, SubsOf
  <1> QED
    BY <1>1, EntitlementsHold, PTL

\* One trial per account, mailbox and card: the unique indexes, and a claim that is
\* looked at again when Stripe reports the card late.
THEOREM OneTrial == ASSUME Apart PROVE Spec => []OneTrialPerCard
  <1>1. StripeInv /\ Settled => \A s, t \in ThreeDay :
          /\ status[s] = "trialing" /\ status[t] = "trialing"
          /\ \/ UserOf[s] = UserOf[t] \/ Mailbox[UserOf[s]] = Mailbox[UserOf[t]]
             \/ carded[s] /\ carded[t] /\ Card[s] = Card[t]
          => s = t
    <2> SUFFICES ASSUME StripeInv, Settled, NEW s \in ThreeDay, NEW t \in ThreeDay,
                        status[s] = "trialing", status[t] = "trialing", s # t
                 PROVE  /\ UserOf[s] # UserOf[t] /\ Mailbox[UserOf[s]] # Mailbox[UserOf[t]]
                        /\ ~(carded[s] /\ carded[t] /\ Card[s] = Card[t])
      OBVIOUS
    <2>1. s \in Subs /\ t \in Subs
      BY SubsAssumption
    <2>2. Claimed(s) /\ Claimed(t)
      BY <2>1 DEF StripeInv, TrialInv, Due, Settled
    <2> QED
      BY <2>1, <2>2 DEF StripeInv, Unique, Claimed
  <1>2. EntitlementInv /\ RowFollowsStripe => OneTrialPerCard
    BY <1>1 DEF EntitlementInv, OneTrialPerCard
  <1> QED
    BY <1>2, EntitlementsHold, RowMirrorsStripe, PTL

\* Disputes settle the same way in whatever order "created" and "closed" arrive, and
\* although the bank may decide between the read and the request that follows it.
THEOREM DisputesEnd == ASSUME Apart PROVE Spec => []DisputesSettle
  <1>1. (Settled => \A s \in Subs : Judged(s)) /\ RowFollowsStripe => DisputesSettle
    BY DEF DisputesSettle, Judged
  <1> QED
    BY <1>1, DisputesJudged, RowMirrorsStripe, PTL
=============================================================================
