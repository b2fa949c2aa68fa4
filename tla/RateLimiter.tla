---------------------------- MODULE RateLimiter ----------------------------
(***************************************************************************)
(* The fixed-window counter every API replica shares                       *)
(* (crates/api/src/rate_limit.rs).  A window is kept by its age, and a     *)
(* bucket that does not exist is one whose window has elapsed.             *)
(***************************************************************************)
EXTENDS Naturals, FiniteSetsExt

CONSTANTS
    Clients,
    Limit,      \* attempts allowed in a window
    Window      \* its length in ticks

ASSUME LimitAssumption == Limit \in Nat \ {0} /\ Window \in Nat \ {0}

VARIABLES
    bucket,     \* the attempts of the window and its age
    allowed     \* history: the attempts allowed in the last Window ticks

limiter == <<bucket, allowed>>

\* A log is a set of pairs: how many ticks ago, and which of that tick.
Logs(length) == SUBSET ((0 .. length - 1) \X Nat)
Noted(log) == log \union {<<0, Cardinality({x \in log : x[1] = 0})>>}
Passed(log, length) == {<<x[1] + 1, x[2]>> : x \in {y \in log : y[1] + 1 < length}}

Buckets == [count : 0 .. Limit + 1, age : 0 .. Window]

LimiterTypeOK ==
    /\ bucket \in [Clients -> Buckets]
    /\ allowed \in [Clients -> Logs(Window)]

LimiterInit ==
    /\ bucket = [c \in Clients |-> [count |-> 0, age |-> Window]]
    /\ allowed = [c \in Clients |-> {}]

\* A plausible bug: the second of the two cases is forgotten, and the window never restarts.
DecideKeepsStart(b) ==
    IF b.age >= Window
    THEN [b EXCEPT !.count = 1]
    ELSE [b EXCEPT !.count = Min({@ + 1, Limit + 1})]

\* The bucket after one more attempt.  Refused attempts count as well; past the limit
\* the number makes no difference.
Decide(b) ==
    IF b.age >= Window
    THEN [count |-> 1, age |-> 0]
    ELSE [b EXCEPT !.count = Min({@ + 1, Limit + 1})]

\* check_shared_key is one statement.  A database error refuses, and counts nothing.
CheckShared(c, ok) ==
    /\ bucket' = [bucket EXCEPT ![c] = Decide(@)]
    /\ ok = (bucket'[c].count <= Limit)
    /\ allowed' = [allowed EXCEPT ![c] = IF ok THEN Noted(@) ELSE @]

LimiterPass ==
    /\ bucket' = [c \in Clients |-> [bucket[c] EXCEPT !.age = Min({@ + 1, Window})]]
    /\ allowed' = [c \in Clients |-> Passed(allowed[c], Window)]
-----------------------------------------------------------------------------
\* "A fixed window allows a burst of up to 2x the limit across a window boundary": no
\* more than that gets through in any stretch as long as a window.
BurstBounded == \A c \in Clients : Cardinality(allowed[c]) <= 2 * Limit
=============================================================================
