----------------------------- MODULE MailRelay -----------------------------
(***************************************************************************)
(* The way out for mail (crates/orchestrator/src/mail_relay.rs, and        *)
(* Mailer::send in mailer.rs).  A message is tried with one provider after *)
(* another until one takes it.  An answer can be unclear: the provider may *)
(* have taken the message, may be about to, or may never have seen it.     *)
(* Resend recognises a message by its key and is asked once more; the      *)
(* other providers do not.  What the providers do is external.             *)
(***************************************************************************)
EXTENDS Naturals, Sequences, FiniteSets

CONSTANTS
    Messages,
    Chain,      \* the providers in order() for which request() has something to send
    Keyed       \* the one that recognises a key: "resend"

Providers == {Chain[i] : i \in DOMAIN Chain}

ASSUME ChainAssumption ==
    /\ Chain \in Seq(Providers) /\ Len(Chain) > 0
    /\ \A i, j \in DOMAIN Chain : Chain[i] = Chain[j] => i = j

VARIABLES
    at,       \* the place in the chain, 0 for a message that is not being sent
    again,    \* the second attempt with the same key
    result,   \* what send returned (last_send_ok is this, of the last send to end)
    copies,   \* what a provider has taken, sent or still in flight there
    unclear   \* history: providers that gave an unclear answer

relay == <<at, again, result, copies, unclear>>

RelayTypeOK ==
    /\ at \in [Messages -> 0 .. Len(Chain)]
    /\ again \in [Messages -> BOOLEAN]
    /\ result \in [Messages -> {"none", "sent", "failed"}]
    /\ copies \in [Messages -> [Providers -> 0 .. 2]]
    /\ unclear \in [Messages -> SUBSET Providers]

RelayInit ==
    /\ at = [m \in Messages |-> 0]
    /\ again = [m \in Messages |-> FALSE]
    /\ result = [m \in Messages |-> "none"]
    /\ copies = [m \in Messages |-> [p \in Providers |-> 0]]
    /\ unclear = [m \in Messages |-> {}]
-----------------------------------------------------------------------------
Sending(m)  == at[m] # 0
Provider(m) == Chain[at[m]]

\* Mailer::send begins; the key is new.
Hand(m) ==
    /\ at' = [at EXCEPT ![m] = 1]
    /\ UNCHANGED <<again, result, copies, unclear>>

End(m, r) ==
    /\ at' = [at EXCEPT ![m] = 0]
    /\ again' = [again EXCEPT ![m] = FALSE]
    /\ result' = [result EXCEPT ![m] = r]

\* The next provider, or an error when there is none.
Advance(m) ==
    \/ at[m] = Len(Chain) /\ End(m, "failed")
    \/ /\ at[m] < Len(Chain)
       /\ at' = [at EXCEPT ![m] = @ + 1]
       /\ again' = [again EXCEPT ![m] = FALSE]
       /\ UNCHANGED result

\* One more copy, unless the provider knows the key.
Deliver(m, p) ==
    copies' = [copies EXCEPT ![m][p] = IF p = Keyed /\ @ > 0 THEN @ ELSE @ + 1]

\* A 2xx that does not say refused.
Sent(m) ==
    /\ Sending(m)
    /\ Deliver(m, Provider(m))
    /\ End(m, "sent")
    /\ UNCHANGED unclear

\* Any other status below 500, or a body that says refused.
Rejected(m) ==
    /\ Sending(m)
    /\ Advance(m)
    /\ UNCHANGED <<copies, unclear>>

\* A plausible bug: any provider is asked again after an unclear answer.
AskAgainAnyone(m) == ~again[m]

\* Same key, same provider, once.
AskAgain(m) == Provider(m) = Keyed /\ ~again[m]

\* A plausible bug: Resend is asked until its answer is clear.
NextAfterUnclearNever(m) ==
    IF Provider(m) = Keyed
    THEN again' = [again EXCEPT ![m] = ~@] /\ UNCHANGED <<at, result>>
    ELSE Advance(m)

NextAfterUnclear(m) ==
    IF AskAgain(m)
    THEN again' = [again EXCEPT ![m] = TRUE] /\ UNCHANGED <<at, result>>
    ELSE Advance(m)

\* A time-out, a network error or a 5xx: the provider took the message, or it did not.
Ambiguous(m) ==
    /\ Sending(m)
    /\ Deliver(m, Provider(m)) \/ UNCHANGED copies
    /\ unclear' = [unclear EXCEPT ![m] = @ \union {Provider(m)}]
    /\ NextAfterUnclear(m)

\* A 409, for a key the provider has in flight: nothing else is tried, whoever answers so.
Conflict(m) ==
    /\ Sending(m)
    /\ End(m, "failed")
    /\ UNCHANGED <<copies, unclear>>

\* The process dies in the middle of a send.
Lose(m) ==
    /\ at' = [at EXCEPT ![m] = 0]
    /\ again' = [again EXCEPT ![m] = FALSE]
    /\ UNCHANGED <<result, copies, unclear>>

Attempt(m) == Sent(m) \/ Rejected(m) \/ Ambiguous(m) \/ Conflict(m)
-----------------------------------------------------------------------------
(* Properties *)

Has(m, p) == copies[m][p] > 0

\* What deliver says of its key ("cannot send a second copy"): a provider sends a message
\* once, and two providers have it only if the answer of all but the last was unclear.
\* A refusal never leaves a copy behind, and the first one to accept ends the send.
OneCopy ==
    \A m \in Messages :
        /\ \A p \in Providers : copies[m][p] <= 1
        /\ \A i, j \in DOMAIN Chain :
              i < j /\ Has(m, Chain[i]) /\ (Has(m, Chain[j]) \/ at[m] = j) => Chain[i] \in unclear[m]
=============================================================================
