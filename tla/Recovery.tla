------------------------------ MODULE Recovery ------------------------------
(***************************************************************************)
(* The mail after a first payment that failed (recover_failed_checkouts,   *)
(* crates/api/src/routes/billing.rs).  Every replica of the API runs a     *)
(* pass every quarter of an hour.  A pass lists the failures between Half  *)
(* and Day old and takes them one at a time; a claim for the account and   *)
(* plan, good for Day, is what keeps the mail single.  One account and one *)
(* plan are modelled.                                                      *)
(***************************************************************************)
EXTENDS Naturals, FiniteSetsExt

CONSTANTS
    Failures,    \* payment_intent.payment_failed events of the account
    Passes,      \* loops, one for each replica
    Half, Day,   \* 30 minutes and 24 hours, in ticks
    PassCap,     \* bound on how long a pass lasts; the code has none
    NoFailure

ASSUME RecoveryAssumption ==
    /\ {Half, Day, PassCap} \subseteq Nat /\ 0 < Half /\ Half < Day
    /\ NoFailure \notin Failures

Oldest == Day + PassCap + 1

VARIABLES
    happened,   \* failures so far
    age,        \* and how old they are
    complete,   \* failures whose checkout session went through after all
    granted,    \* the account's subscription_status grants access
    claim,      \* age of the claim, Day when there is none or it has lapsed
    pass,       \* Passes -> what is left of the list, the failure in hand, its stage, the time
    mailed,     \* history: mails for each failure
    slow        \* history: a pass has lasted Half

recovery == <<happened, age, complete, granted, claim, pass, mailed, slow>>

RecoveryTypeOK ==
    /\ happened \subseteq Failures
    /\ age \in [Failures -> 0 .. Oldest]
    /\ complete \subseteq Failures
    /\ granted \in BOOLEAN
    /\ claim \in 0 .. Day
    /\ pass \in [Passes -> [stage : {"idle", "listed", "claiming", "mailing"},
                            list : SUBSET Failures, failure : Failures \union {NoFailure},
                            took : 0 .. PassCap]]
    /\ mailed \in [Failures -> Nat]
    /\ slow \in BOOLEAN

Asleep == [stage |-> "idle", list |-> {}, failure |-> NoFailure, took |-> 0]

RecoveryInit ==
    /\ happened = {}
    /\ age = [f \in Failures |-> 0]
    /\ complete = {}
    /\ granted = FALSE
    /\ claim = Day
    /\ pass = [p \in Passes |-> Asleep]
    /\ mailed = [f \in Failures |-> 0]
    /\ slow = FALSE
-----------------------------------------------------------------------------
PaymentFails(f) ==
    /\ f \notin happened
    /\ happened' = happened \union {f}
    /\ UNCHANGED <<age, complete, granted, claim, pass, mailed, slow>>

\* Another card in the same session.
SessionCompletes(f) ==
    /\ f \in happened \ complete
    /\ complete' = complete \union {f}
    /\ UNCHANGED <<happened, age, granted, claim, pass, mailed, slow>>

\* The webhook writes a status that grants access, or one that does not.
StatusChanges ==
    /\ granted' = ~granted
    /\ UNCHANGED <<happened, age, complete, claim, pass, mailed, slow>>

\* Time passes.
RecoveryTick ==
    /\ \A p \in Passes : pass[p].took < PassCap
    /\ age' = [f \in Failures |-> IF f \in happened THEN Min({age[f] + 1, Oldest}) ELSE 0]
    /\ claim' = Min({claim + 1, Day})
    /\ pass' = [p \in Passes |->
                   IF pass[p].stage = "idle" THEN pass[p] ELSE [pass[p] EXCEPT !.took = @ + 1]]
    /\ slow' = (slow \/ \E p \in Passes : pass[p].stage # "idle" /\ pass[p].took + 1 >= Half)
    /\ UNCHANGED <<happened, complete, granted, mailed>>

\* The Events API, with both ends of the range.
Listed == {f \in happened : Half <= age[f] /\ age[f] <= Day}

ListFailures(p) ==
    /\ pass[p].stage = "idle" /\ Listed # {}
    /\ pass' = [pass EXCEPT ![p] = [Asleep EXCEPT !.stage = "listed", !.list = Listed]]
    /\ UNCHANGED <<happened, age, complete, granted, claim, mailed, slow>>

\* The session, its price and the account are read; whoever paid is passed over.
TakeFailure(p, f) ==
    /\ pass[p].stage = "listed" /\ f \in pass[p].list
    /\ pass' = [pass EXCEPT ![p].list = @ \ {f},
                            ![p].stage = IF f \in complete \/ granted THEN "listed" ELSE "claiming",
                            ![p].failure = f]
    /\ UNCHANGED <<happened, age, complete, granted, claim, mailed, slow>>

\* A plausible bug: the claim lapses with the youngest failures the list shows.
LapsedEarly == claim >= Day - Half

Lapsed == claim >= Day

\* One statement, and only one pass gets a row back.
ClaimRecovery(p) ==
    /\ pass[p].stage = "claiming"
    /\ IF Lapsed
       THEN claim' = 0 /\ pass' = [pass EXCEPT ![p].stage = "mailing"]
       ELSE pass' = [pass EXCEPT ![p].stage = "listed"] /\ UNCHANGED claim
    /\ UNCHANGED <<happened, age, complete, granted, mailed, slow>>

\* Sent or not, it is not tried again.
MailRecovery(p) ==
    /\ pass[p].stage = "mailing"
    /\ mailed' = [mailed EXCEPT ![pass[p].failure] = @ + 1]
    /\ pass' = [pass EXCEPT ![p].stage = "listed"]
    /\ UNCHANGED <<happened, age, complete, granted, claim, slow>>

\* The list is done, or a statement failed, or the process died: the loop sleeps.
PassEnds(p) ==
    /\ pass[p].stage # "idle"
    /\ pass' = [pass EXCEPT ![p] = Asleep]
    /\ UNCHANGED <<happened, age, complete, granted, claim, mailed, slow>>

RecoveryNext ==
    \/ RecoveryTick \/ StatusChanges
    \/ \E f \in Failures : PaymentFails(f) \/ SessionCompletes(f)
    \/ \E p \in Passes :
          \/ ListFailures(p) \/ ClaimRecovery(p) \/ MailRecovery(p) \/ PassEnds(p)
          \/ \E f \in Failures : TakeFailure(p, f)

RecoverySpec == RecoveryInit /\ [][RecoveryNext]_recovery
-----------------------------------------------------------------------------
\* "the same failure is never seen after its claim has lapsed": whichever passes meet it
\* and however they interleave, a failed payment is written about once at most.
FailureOnce == \A f \in Failures : mailed[f] <= 1

\* So it is as long as no pass lasts half an hour: a hundred events, with two reads of up
\* to fifteen seconds and a mail for each, may take longer.
FailureOnceUnlessSlow == slow \/ FailureOnce
=============================================================================
