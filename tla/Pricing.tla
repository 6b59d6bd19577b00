------------------------------ MODULE Pricing ------------------------------
(***************************************************************************)
(* The price list and the bill arithmetic of the billing service           *)
(* (billing-service/pricing.go, used by cmd/billingcron) and the dashboard *)
(* estimate (billing-service/service.go).  Money is in integer cents.      *)
(* Storage is counted in micro GB-hours, the precision of the DECIMAL      *)
(* columns of usage_aggregates (DECIMAL(20,6)).                            *)
(***************************************************************************)
EXTENDS Integers

-----------------------------------------------------------------------------
(* The price list.                                                         *)

Million == 1000000
Micro == 1000000

PricePerMillionActions == 2500

\* 4.2 cents and 0.105 cents per GB-hour; IntPart drops the fraction of a cent.
ActiveCents(microGBH) == (microGBH * 42) \div (10 * Micro)
RetainedCents(microGBH) == (microGBH * 105) \div (1000 * Micro)

ListedPlan == {"free", "essential", "business", "enterprise"}

\* Plans[name], with the fallback to Plans["free"] for a name not listed.
EffectivePlan(p) == IF p \in ListedPlan THEN p ELSE "free"

BasePriceCents(p) ==
  CASE p = "essential" -> 10000
    [] p = "business"  -> 50000
    [] OTHER           -> 0

ActionsIncluded(p) ==
  CASE p = "essential"  -> Million
    [] p = "business"   -> 2500000
    [] p = "enterprise" -> 10 * Million
    [] OTHER            -> 100000

-----------------------------------------------------------------------------
(* The bill.                                                               *)

Usage == [actions : Nat, active : Nat, retained : Nat]

\* Variants of the rounding: down; of the whole usage instead of the
\* excess; with exact multiples forgotten.
OverageRoundedDown(total, included) ==
  IF total > included THEN (total - included) \div Million ELSE 0

OverageNothingDeducted(total, included) ==
  IF total > included
  THEN total \div Million + (IF total % Million > 0 THEN 1 ELSE 0)
  ELSE 0

OverageOnlyPartial(total, included) ==
  IF total > included /\ (total - included) % Million > 0
  THEN (total - included) \div Million + 1
  ELSE 0

\* Million-action blocks charged: the excess, rounded up.
OverageMillions(total, included) ==
  IF total > included
  THEN LET over == total - included
       IN  over \div Million + (IF over % Million > 0 THEN 1 ELSE 0)
  ELSE 0

\* The four charges of an invoice, in the order the items are created.
LineItem == {"base", "overage", "active", "retained"}

Bill(p, u) ==
  LET q == EffectivePlan(p)
  IN  [i \in LineItem |->
         CASE i = "base"     -> BasePriceCents(q)
           [] i = "overage"  -> PricePerMillionActions
                                  * OverageMillions(u.actions, ActionsIncluded(q))
           [] i = "active"   -> ActiveCents(u.active)
           [] i = "retained" -> RetainedCents(u.retained)]

TotalCents(b) == b["base"] + b["overage"] + b["active"] + b["retained"]

\* The figure GetUsage and GetCurrentUsage show (calculateCost).
EstimatedCostCents(u) ==
  2500 * (u.actions \div Million) + ActiveCents(u.active) + RetainedCents(u.retained)

=============================================================================
