-------------------------- MODULE MCSubscriptions --------------------------
\* Small instances of Subscriptions: two checkouts of one account, or one of
\* each of two accounts, with one card.
EXTENDS Subscriptions, TLC

CONSTANTS u1, u2, s1, s2, k1, k2

OneUser  == {u1}
UserOne  == s1 :> u1 @@ s2 :> u1
BoxOne   == u1 :> u1
TwoUsers == {u1, u2}
UserTwo  == s1 :> u1 @@ s2 :> u2
BoxTwo   == u1 :> u1 @@ u2 :> u2
OneCard  == s1 :> "visa" @@ s2 :> "visa"

\* Either a dispute and a schedule, or a second checkout and a change of Stripe's: of
\* the first subscription, the two being interchangeable then.
OneTrouble ==
    /\ \A k \in Changes : event[s2][k] = "unsent"
    /\ \/ session[s2] = "none" /\ \A k \in Changes : event[s1][k] = "unsent"
       \/ dispute[s1] = "none" /\ setting = {} /\ cadence[u1] = "manual"

\* Deliveries in flight are interchangeable.
HandlerSymmetry == Permutations(Handlers)

\* And so are two accounts, together with the checkouts they make.
Swap == u1 :> u2 @@ u2 :> u1 @@ s1 :> s2 @@ s2 :> s1
AccountSymmetry == HandlerSymmetry \union {p @@ Swap : p \in HandlerSymmetry}
=============================================================================
