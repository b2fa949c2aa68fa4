------------------------------- MODULE Promo -------------------------------
(***************************************************************************)
(* The promotion's window and the life of a discounted checkout session    *)
(* (crates/api/src/promo.rs).  The server decides on its clock, Stripe     *)
(* measures on its own, and takes an expiry between Grace and Session      *)
(* after the creation.  Times are ticks of the extra minute.               *)
(***************************************************************************)
EXTENDS Integers, FiniteSetsExt

CONSTANTS
    StartsAt, EndsAt,
    Grace,       \* GRACE_SECONDS, also the shortest session Stripe takes
    Session,     \* the longest one, and the default: 24 hours
    Skew,        \* how far Stripe's clock may be from the server's
    LastTick

ASSUME PromoAssumption ==
    /\ {StartsAt, EndsAt, Grace, Session, Skew, LastTick} \subseteq Nat
    /\ StartsAt < EndsAt /\ Skew <= 1 /\ 0 < Grace /\ Grace + 1 < Session

Default == -1    \* no expires_at in the request

VARIABLES
    clock,      \* the server's
    enabled,    \* enabled_from_env
    session,    \* the checkout session: open, discounted, and when Stripe closes it
    refused,    \* history: Stripe refused an expiry
    lastPaid    \* history: when a discounted session was paid last

promo == <<clock, enabled, session, refused, lastPaid>>

PromoTypeOK ==
    /\ clock \in 0 .. LastTick
    /\ enabled \in BOOLEAN
    /\ session \in [open : BOOLEAN, discounted : BOOLEAN, closes : Nat]
    /\ refused \in BOOLEAN
    /\ lastPaid \in 0 .. LastTick

NoSession == [open |-> FALSE, discounted |-> FALSE, closes |-> 0]

PromoInit ==
    /\ clock = 0
    /\ enabled \in BOOLEAN
    /\ session = NoSession
    /\ refused = FALSE
    /\ lastPaid = 0

\* promo_state: the plan's offer is a real reduction, so it is shown.
Status ==
    CASE ~enabled \/ clock >= EndsAt -> "disabled"
      [] enabled /\ clock < StartsAt -> "scheduled"
      [] OTHER -> "active"

\* A plausible bug: the session ends with the promotion, however soon that is.
ExpiresAtEnd == IF EndsAt - clock < Session - Grace THEN EndsAt ELSE Default

ExpiresAt == IF EndsAt - clock < Session - Grace THEN Max({EndsAt, clock + Grace + 1}) ELSE Default

Accepted(at, created) == at = Default \/ (created + Grace <= at /\ at <= created + Session)

\* checkout_fields, and what Stripe makes of them.
OpenSession(skew) ==
    LET created == clock + skew
        at      == IF Status = "active" THEN ExpiresAt ELSE Default
    IN
    /\ ~session.open
    /\ refused' = (refused \/ ~Accepted(at, created))
    /\ session' = IF Accepted(at, created)
                  THEN [open |-> TRUE, discounted |-> Status = "active",
                        closes |-> IF at = Default THEN created + Session ELSE at]
                  ELSE session
    /\ UNCHANGED <<clock, enabled, lastPaid>>

\* Paid on Stripe's page, or left and opened anew.
PaySession(skew) ==
    /\ session.open /\ clock + skew <= session.closes
    /\ lastPaid' = IF session.discounted THEN clock ELSE lastPaid
    /\ session' = NoSession
    /\ UNCHANGED <<clock, enabled, refused>>

PromoSwitch ==
    /\ enabled' = ~enabled
    /\ UNCHANGED <<clock, session, refused, lastPaid>>

PromoTick ==
    /\ clock < LastTick
    /\ clock' = clock + 1
    /\ session' = IF session.open /\ clock + 1 > session.closes + Skew THEN NoSession ELSE session
    /\ UNCHANGED <<enabled, refused, lastPaid>>

Skews == -Skew .. Skew

PromoNext ==
    \/ PromoTick \/ PromoSwitch
    \/ \E skew \in Skews : OpenSession(skew) \/ PaySession(skew)

PromoSpec == PromoInit /\ [][PromoNext]_promo
-----------------------------------------------------------------------------
\* expires_at: "neither bound is ever used exactly" and a session "closes no later than 30
\* minutes after the end".  With clocks a minute apart Stripe refuses no promotional
\* session, and the discount is paid at most Grace, the extra minute and the difference of
\* the clocks after the promotion.
PromoCloses == ~refused /\ lastPaid <= EndsAt + Grace + 1 + Skew
=============================================================================
