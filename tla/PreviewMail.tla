---------------------------- MODULE PreviewMail ----------------------------
(***************************************************************************)
(* The free check and its mailed report (crates/api/src/routes/preview.rs):*)
(* the client's budget first, then the check itself, then the recipient's  *)
(* slot, which is read in one statement and written in another.            *)
(***************************************************************************)
EXTENDS RateLimiter

CONSTANTS
    Requests,
    Recipients,
    Lifetime,    \* RECIPIENT_LIFETIME_LIMIT
    Cooldown     \* RECIPIENT_COOLDOWN_MINUTES, in ticks

ASSUME SlotAssumption ==
    Lifetime \in Nat \ {0} /\ Cooldown \in Nat \ {0} /\ Recipients # {} /\ IsFiniteSet(Requests)

VARIABLES
    slot,      \* preview_email_sends: send_count and the age of last_sent_at
    request,   \* Requests -> stage and recipient
    reports    \* history: the reports sent in the last Cooldown ticks

preview == <<limiter, slot, request, reports>>

Stages == {"idle", "checking", "claiming"}

PreviewTypeOK ==
    /\ LimiterTypeOK
    /\ slot \in [Recipients -> [count : Nat, age : 0 .. Cooldown]]
    /\ request \in [Requests -> [stage : Stages, to : Recipients]]
    /\ reports \in [Recipients -> Logs(Cooldown)]

\* An address without a row may be written to like one whose cooldown is over.
PreviewInit ==
    /\ LimiterInit
    /\ slot = [e \in Recipients |-> [count |-> 0, age |-> Cooldown]]
    /\ request \in [Requests -> [stage : {"idle"}, to : {CHOOSE e \in Recipients : TRUE}]]
    /\ reports = [e \in Recipients |-> {}]

Goto(r, stage) == request' = [request EXCEPT ![r].stage = stage]

\* run_preview writes nothing beside the budget it shares.
RunPreview(c) ==
    /\ \E ok \in BOOLEAN : CheckShared(c, ok)
    /\ UNCHANGED <<slot, request, reports>>

EmailPreview(r, c, e) ==
    /\ request[r].stage = "idle"
    /\ \E ok \in BOOLEAN :
          /\ CheckShared(c, ok)
          /\ request' = IF ok THEN [request EXCEPT ![r] = [stage |-> "checking", to |-> e]]
                        ELSE request
    /\ UNCHANGED <<slot, reports>>

\* The host cannot be reached, or a statement fails.
PreviewFails(r) ==
    /\ request[r].stage # "idle"
    /\ Goto(r, "idle")
    /\ UNCHANGED <<limiter, slot, reports>>

\* A plausible bug: the last report of the lifetime is followed by one more.
RefusedLate(s) == s.count > Lifetime \/ s.age < Cooldown

Refused(s) == s.count >= Lifetime \/ s.age < Cooldown

\* claim_recipient_slot: the select ...
ClaimRead(r) ==
    /\ request[r].stage = "checking"
    /\ Goto(r, IF Refused(slot[request[r].to]) THEN "idle" ELSE "claiming")
    /\ UNCHANGED <<limiter, slot, reports>>

\* ... and the upsert, which asks nothing; one send follows, and its failure is logged.
ClaimWrite(r) ==
    LET e == request[r].to IN
    /\ request[r].stage = "claiming"
    /\ slot' = [slot EXCEPT ![e] = [count |-> slot[e].count + 1, age |-> 0]]
    /\ reports' = [reports EXCEPT ![e] = Noted(@)]
    /\ Goto(r, "idle")
    /\ UNCHANGED limiter

PreviewPass ==
    /\ LimiterPass
    /\ slot' = [e \in Recipients |-> [slot[e] EXCEPT !.age = Min({@ + 1, Cooldown})]]
    /\ reports' = [e \in Recipients |-> Passed(reports[e], Cooldown)]
    /\ UNCHANGED request

PreviewNext ==
    \/ PreviewPass
    \/ \E c \in Clients : RunPreview(c)
    \/ \E r \in Requests :
          \/ PreviewFails(r) \/ ClaimRead(r) \/ ClaimWrite(r)
          \/ \E c \in Clients, e \in Recipients : EmailPreview(r, c, e)

PreviewSpec == PreviewInit /\ [][PreviewNext]_preview
-----------------------------------------------------------------------------
\* The recipient is what the slot protects.  Requests that read it together all pass, so
\* an address gets no more reports in one cooldown than requests can be in flight, and
\* over its lifetime no more than the limit and the rest of them.
SlotsBounded ==
    \A e \in Recipients :
        /\ slot[e].count <= Lifetime - 1 + Cardinality(Requests)
        /\ Cardinality(reports[e]) <= Cardinality(Requests)
=============================================================================
