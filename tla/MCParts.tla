------------------------------ MODULE MCParts ------------------------------
(***************************************************************************)
(* Seven small parts that share no state, in one run: a behaviour follows  *)
(* one of them, and the others stand still.  MCTriage brings the findings  *)
(* of the report.                                                          *)
(***************************************************************************)
EXTENDS MCTriage, PreviewMail, SiteAllowance, Recovery, PriceCache, Promo, PortalConfig

VARIABLE part

vars == <<part, out, preview, allowing, recovery, prices, promo, portal>>

PartsInit ==
    /\ part \in {"report", "preview", "sites", "recovery", "prices", "promo", "portal"}
    /\ Init /\ PreviewInit /\ SitesInit /\ RecoveryInit /\ PricesInit /\ PromoInit /\ PortalInit

PartsNext ==
    \/ /\ part = "report" /\ Next
       /\ UNCHANGED <<part, preview, allowing, recovery, prices, promo, portal>>
    \/ /\ part = "preview" /\ PreviewNext
       /\ UNCHANGED <<part, out, allowing, recovery, prices, promo, portal>>
    \/ /\ part = "sites" /\ SitesNext
       /\ UNCHANGED <<part, out, preview, recovery, prices, promo, portal>>
    \/ /\ part = "recovery" /\ RecoveryNext
       /\ UNCHANGED <<part, out, preview, allowing, prices, promo, portal>>
    \/ /\ part = "prices" /\ PricesNext
       /\ UNCHANGED <<part, out, preview, allowing, recovery, promo, portal>>
    \/ /\ part = "promo" /\ PromoNext
       /\ UNCHANGED <<part, out, preview, allowing, recovery, prices, portal>>
    \/ /\ part = "portal" /\ PortalNext
       /\ UNCHANGED <<part, out, preview, allowing, recovery, prices, promo>>

PartsSpec == PartsInit /\ [][PartsNext]_vars
=============================================================================
