--------------------------- MODULE BillArithmetic ---------------------------
(***************************************************************************)
(* What the arithmetic of CalculateMonthlyBill and of calculateCost        *)
(* computes, compared with reference definitions for every plan string and *)
(* usage of a sample.  No step changes the price list, so each comparison  *)
(* is made once, on the states the job finds when it has never run.        *)
(***************************************************************************)
EXTENDS MonthlyBilling

CONSTANTS
  PlanString,  \* plan strings a subscriptions row may hold, listed or not
  UsageSample  \* sums of usage_aggregates of one organization and period

\* The columns hold no negative amounts.
ASSUME ArithmeticAssumption == UsageSample \subseteq Usage

Included(p) == ActionsIncluded(EffectivePlan(p))

NeverRun == starts = 0 /\ changes = 0

\* The overage blocks are the least number that cover the excess: a customer is
\* never charged a block it did not start, nor given one for free.
OverageIsLeastCover ==
  NeverRun => \A p \in PlanString, u \in UsageSample :
    LET blocks == Bill(p, u)["overage"] \div PricePerMillionActions
    IN  /\ Included(p) + blocks * Million >= u.actions
        /\ blocks > 0 => Included(p) + (blocks - 1) * Million < u.actions

\* How far the dashboard estimate, which knows no plan, is from the bill apart
\* from the base price.  It is short by at most a block, and only on a plan that
\* includes less than one; it is above by at most the whole blocks the plan
\* includes, ten of them on the enterprise plan.
EstimateBoundsBill ==
  NeverRun => \A p \in PlanString, u \in UsageSample :
    LET metered == TotalCents(Bill(p, u)) - Bill(p, u)["base"]
        estimate == EstimatedCostCents(u)
    IN  /\ metered <= estimate +
                        (IF Included(p) < Million THEN PricePerMillionActions ELSE 0)
        /\ estimate <= metered + (Included(p) \div Million) * PricePerMillionActions

AtMost(u, v) ==
  u.actions <= v.actions /\ u.active <= v.active /\ u.retained <= v.retained

\* More usage on the same plan never makes the bill smaller: the roundings of
\* the separate items do not undo one another.
BillGrowsWithUsage ==
  NeverRun => \A p \in PlanString, u, v \in UsageSample :
    AtMost(u, v) => TotalCents(Bill(p, u)) <= TotalCents(Bill(p, v))
=============================================================================
