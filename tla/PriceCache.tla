----------------------------- MODULE PriceCache -----------------------------
(***************************************************************************)
(* The published prices (public_prices and read_prices,                    *)
(* crates/api/src/routes/billing.rs).  The cache is looked at under its    *)
(* lock, Stripe is read without it, and whoever comes back last writes the *)
(* cache.  What a copy of the prices says is abstracted to how long ago    *)
(* Stripe stopped saying so.                                               *)
(***************************************************************************)
EXTENDS Naturals, FiniteSetsExt

CONSTANTS
    Viewers,      \* page views
    Ttl, Retry,   \* PRICE_CACHE_SECS and PRICE_RETRY_SECS, in ticks
    ReadCap       \* how long read_prices may take: the reads run together and time out

ASSUME PriceAssumption == {Ttl, Retry, ReadCap} \subseteq Nat \ {0} /\ Retry <= Ttl

Late == 2 * (Ttl + ReadCap)

VARIABLES
    cache,    \* what is kept, since when, and how far behind Stripe it is
    viewer,   \* Viewers -> stage, what it read, and how long it has been at it
    shown     \* history: how far behind the last answer was

prices == <<cache, viewer, shown>>

\* behind is 0 for a copy that is current, and counts from 1 once it is not.
Copies == [kind : {"none", "empty", "prices"}, behind : 0 .. Late]

PricesTypeOK ==
    /\ cache \in [copy : Copies, age : 0 .. Ttl]
    /\ viewer \in [Viewers -> [stage : {"idle", "reading", "storing"}, copy : Copies, took : 0 .. ReadCap]]
    /\ shown \in 0 .. Late

Nothing == [kind |-> "none", behind |-> 0]
Away    == [stage |-> "idle", copy |-> Nothing, took |-> 0]

PricesInit ==
    /\ cache = [copy |-> Nothing, age |-> 0]
    /\ viewer = [v \in Viewers |-> Away]
    /\ shown = 0
-----------------------------------------------------------------------------
Changed(copy) == [copy EXCEPT !.behind = IF copy.kind = "prices" THEN Min({Max({@, 1}), Late}) ELSE 0]
Older(copy)   == [copy EXCEPT !.behind = IF @ = 0 THEN 0 ELSE Min({@ + 1, Late})]

\* A price changes at Stripe: every copy is now out of date.
PriceChanges ==
    /\ cache' = [cache EXCEPT !.copy = Changed(@)]
    /\ viewer' = [v \in Viewers |-> [viewer[v] EXCEPT !.copy = Changed(@)]]
    /\ UNCHANGED shown

PriceTick ==
    /\ \A v \in Viewers : viewer[v].took < ReadCap
    /\ cache' = [copy |-> Older(cache.copy), age |-> Min({cache.age + 1, Ttl})]
    /\ viewer' = [v \in Viewers |->
                     IF viewer[v].stage = "idle" THEN viewer[v]
                     ELSE [viewer[v] EXCEPT !.copy = Older(@), !.took = @ + 1]]
    /\ UNCHANGED shown

\* A plausible bug: prices are kept for one tick more.
UsableLonger ==
    \/ cache.copy.kind = "prices" /\ cache.age <= Ttl
    \/ cache.copy.kind = "empty" /\ cache.age < Retry

Usable ==
    \/ cache.copy.kind = "prices" /\ cache.age < Ttl
    \/ cache.copy.kind = "empty" /\ cache.age < Retry

\* The cache answers, or Stripe is to be read.
LookUp(v) ==
    /\ viewer[v].stage = "idle"
    /\ IF Usable
       THEN shown' = cache.copy.behind /\ UNCHANGED viewer
       ELSE viewer' = [viewer EXCEPT ![v].stage = "reading"] /\ UNCHANGED shown
    /\ UNCHANGED cache

\* Prices that can be read and fit their slot, or none of them.
ReadPrices(v) ==
    /\ viewer[v].stage = "reading"
    /\ \E kind \in {"prices", "empty"} :
          viewer' = [viewer EXCEPT ![v].stage = "storing", ![v].copy = [kind |-> kind, behind |-> 0]]
    /\ UNCHANGED <<cache, shown>>

\* The age counts from here, not from the read.
Store(v) ==
    /\ viewer[v].stage = "storing"
    /\ cache' = [copy |-> viewer[v].copy, age |-> 0]
    /\ shown' = viewer[v].copy.behind
    /\ viewer' = [viewer EXCEPT ![v] = Away]

PricesNext ==
    \/ PriceChanges \/ PriceTick
    \/ \E v \in Viewers : LookUp(v) \/ ReadPrices(v) \/ Store(v)

PricesSpec == PricesInit /\ [][PricesNext]_prices
-----------------------------------------------------------------------------
\* "A price change shows up within this": no page shows a price for longer than the cache
\* keeps one and a read may take, also when an older read is written over a newer one.
PricesFresh == shown <= Ttl + ReadCap
=============================================================================
