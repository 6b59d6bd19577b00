------------------------ MODULE BillArithmeticProofs ------------------------
(***************************************************************************)
(* Proofs about the bill arithmetic, for every plan string and usage.      *)
(***************************************************************************)
EXTENDS BillArithmetic, TLAPS

\* The included actions of any plan string and its base price are natural
\* numbers, for a listed plan and for the fallback.
LEMMA IncludedIsNatural ==
  ASSUME NEW p
  PROVE  /\ ActionsIncluded(EffectivePlan(p)) \in Nat
         /\ BasePriceCents(EffectivePlan(p)) \in Nat
<1> DEFINE q == EffectivePlan(p)
<1>1. q \in ListedPlan
  BY DEF EffectivePlan, ListedPlan
<1> HIDE DEF q
<1>2. ActionsIncluded(q) \in Nat /\ BasePriceCents(q) \in Nat
  BY <1>1 DEF ListedPlan, ActionsIncluded, BasePriceCents, Million
<1> QED
  BY <1>2 DEF q

\* The four charges of a bill.
LEMMA BillCharges ==
  ASSUME NEW p, NEW u
  PROVE  /\ Bill(p, u)["base"] = BasePriceCents(EffectivePlan(p))
         /\ Bill(p, u)["overage"] =
              PricePerMillionActions
                * OverageMillions(u.actions, ActionsIncluded(EffectivePlan(p)))
         /\ Bill(p, u)["active"] = ActiveCents(u.active)
         /\ Bill(p, u)["retained"] = RetainedCents(u.retained)
BY DEF Bill, LineItem

\* Quotient and remainder of a number of actions by a million.
LEMMA WholeMillions ==
  ASSUME NEW x \in Nat
  PROVE  /\ x \div 1000000 \in Nat
         /\ x % 1000000 \in Nat
         /\ x % 1000000 < 1000000
         /\ x = 1000000 * (x \div 1000000) + (x % 1000000)
BY SMT

\* Rounding the excess up to whole millions gives the least cover.
LEMMA LeastCover ==
  ASSUME NEW total \in Nat, NEW included \in Nat
  PROVE  /\ OverageMillions(total, included) \in Nat
         /\ included + OverageMillions(total, included) * Million >= total
         /\ OverageMillions(total, included) > 0 =>
              included + (OverageMillions(total, included) - 1) * Million < total
<1> DEFINE over == total - included
           whole == over \div 1000000
           rest == over % 1000000
           blocks == OverageMillions(total, included)
<1>1. CASE total > included
  <2>1. over \in Nat /\ over > 0 /\ total = included + over
    BY SMT, <1>1
  <2>2. blocks = whole + (IF rest > 0 THEN 1 ELSE 0)
    BY SMT, <1>1 DEF OverageMillions, Million
  <2> HIDE DEF over, blocks
  <2>3. /\ whole \in Nat /\ rest \in Nat /\ rest < 1000000
        /\ over = 1000000 * whole + rest
    BY SMT, <2>1, WholeMillions
  <2> HIDE DEF whole, rest
  <2>4. /\ blocks \in Nat
        /\ included + blocks * 1000000 >= total
        /\ blocks > 0 => included + (blocks - 1) * 1000000 < total
    <3>1. CASE rest > 0
      BY SMT, <2>1, <2>2, <2>3, <3>1
    <3>2. CASE rest = 0
      BY SMT, <2>1, <2>2, <2>3, <3>2
    <3> QED
      BY SMT, <2>3, <3>1, <3>2
  <2> QED
    BY SMT, <2>4 DEF blocks, Million
<1>2. CASE ~(total > included)
  BY SMT, <1>2 DEF OverageMillions, Million
<1> QED
  BY SMT, <1>1, <1>2

\* The overage charged is the least number of blocks that covers the excess
\* over the included actions, for every plan string and usage.
THEOREM OverageAlwaysLeastCover == OverageIsLeastCover
<1> SUFFICES ASSUME NEW p \in PlanString, NEW u \in UsageSample
             PROVE  LET blocks == Bill(p, u)["overage"] \div PricePerMillionActions
                    IN  /\ Included(p) + blocks * Million >= u.actions
                        /\ blocks > 0 => Included(p) + (blocks - 1) * Million < u.actions
  BY DEF OverageIsLeastCover
<1> DEFINE n == OverageMillions(u.actions, Included(p))
<1>1. u.actions \in Nat /\ Included(p) \in Nat
  BY ArithmeticAssumption, IncludedIsNatural DEF Usage, Included
<1>2. /\ n \in Nat
      /\ Included(p) + n * Million >= u.actions
      /\ n > 0 => Included(p) + (n - 1) * Million < u.actions
  BY Zenon, <1>1, LeastCover
<1>3. Bill(p, u)["overage"] = 2500 * n
  BY SMT, BillCharges DEF Included, PricePerMillionActions
<1> HIDE DEF n
<1>4. Bill(p, u)["overage"] \div PricePerMillionActions = n
  BY SMT, <1>2, <1>3 DEF PricePerMillionActions
<1> QED
  BY SMT, <1>2, <1>4

\* What the plans include: no whole block below essential, else as many as the
\* quotient says.
LEMMA IncludedBlocks ==
  ASSUME NEW p
  PROVE  \/ Included(p) = 100000 /\ Included(p) \div Million = 0
         \/ Included(p) = 1000000 /\ Included(p) \div Million = 1
         \/ Included(p) = 2500000 /\ Included(p) \div Million = 2
         \/ Included(p) = 10000000 /\ Included(p) \div Million = 10
<1>1. EffectivePlan(p) \in ListedPlan
  BY DEF EffectivePlan, ListedPlan
<1> QED
  BY SMT, <1>1 DEF ListedPlan, Included, ActionsIncluded, Million

\* The estimate shown on the dashboard is below the metered part of the bill by
\* at most a block, on plans that include less than one, and above it by at most
\* the whole blocks the plan includes.
THEOREM EstimateAlwaysBoundsBill == EstimateBoundsBill
<1> SUFFICES ASSUME NEW p \in PlanString, NEW u \in UsageSample
             PROVE  LET metered == TotalCents(Bill(p, u)) - Bill(p, u)["base"]
                        estimate == EstimatedCostCents(u)
                    IN  /\ metered <= estimate +
                              (IF Included(p) < Million THEN PricePerMillionActions ELSE 0)
                        /\ estimate <= metered + (Included(p) \div Million) * PricePerMillionActions
  BY DEF EstimateBoundsBill
<1> DEFINE n == OverageMillions(u.actions, Included(p))
           m == u.actions \div 1000000
           whole == Included(p) \div Million
           storage == ActiveCents(u.active) + RetainedCents(u.retained)
<1>1. u \in Usage /\ u.actions \in Nat /\ Included(p) \in Nat
  BY ArithmeticAssumption, IncludedIsNatural DEF Usage, Included
<1>2. /\ n \in Nat
      /\ Included(p) + n * Million >= u.actions
      /\ n > 0 => Included(p) + (n - 1) * Million < u.actions
  BY Zenon, <1>1, LeastCover
<1>3. m \in Nat /\ 1000000 * m <= u.actions /\ u.actions < 1000000 * m + 1000000
  BY SMT, <1>1
<1>4. ActiveCents(u.active) \in Nat /\ RetainedCents(u.retained) \in Nat
  BY SMT, <1>1 DEF Usage, ActiveCents, RetainedCents, Micro
<1>5. TotalCents(Bill(p, u)) - Bill(p, u)["base"] = 2500 * n + storage
  BY SMT, <1>2, <1>4, BillCharges, IncludedIsNatural
  DEF TotalCents, Included, PricePerMillionActions
<1>6. EstimatedCostCents(u) = 2500 * m + storage
  BY SMT, <1>3, <1>4 DEF EstimatedCostCents, Million
<1>7. storage \in Nat
  BY SMT, <1>4
<1>8. /\ n <= m + (IF Included(p) < Million THEN 1 ELSE 0)
      /\ m <= n + whole
      /\ whole \in Nat
  <2> HIDE DEF n, m
  <2> QED
    BY SMT, <1>1, <1>2, <1>3, IncludedBlocks DEF Million
<1> HIDE DEF n, m, storage, whole
<1>9. /\ 2500 * n <= 2500 * m + (IF Included(p) < Million THEN 2500 ELSE 0)
      /\ 2500 * m <= 2500 * n + whole * 2500
  BY SMT, <1>1, <1>2, <1>3, <1>8 DEF Million
<1> QED
  BY SMT, <1>2, <1>3, <1>5, <1>6, <1>7, <1>8, <1>9 DEF PricePerMillionActions, whole

\* No item gets smaller with more usage: neither the rounding up of the excess
\* nor the fractions of a cent that are dropped can undo the growth.
LEMMA ItemsGrow ==
  ASSUME NEW u \in Usage, NEW v \in Usage, NEW included \in Nat,
         u.actions <= v.actions, u.active <= v.active, u.retained <= v.retained
  PROVE  /\ OverageMillions(u.actions, included) <= OverageMillions(v.actions, included)
         /\ ActiveCents(u.active) <= ActiveCents(v.active)
         /\ RetainedCents(u.retained) <= RetainedCents(v.retained)
<1> DEFINE m == OverageMillions(u.actions, included)
           n == OverageMillions(v.actions, included)
<1>1. u.actions \in Nat /\ v.actions \in Nat
  BY DEF Usage
<1>2. /\ m \in Nat /\ n \in Nat
      /\ included + n * Million >= v.actions
      /\ m > 0 => included + (m - 1) * Million < u.actions
  BY Zenon, <1>1, LeastCover
<1> HIDE DEF m, n
<1>3. m <= n
  BY SMT, <1>1, <1>2 DEF Million
<1>4. /\ u.active \in Nat /\ v.active \in Nat
      /\ u.retained \in Nat /\ v.retained \in Nat
  BY DEF Usage
<1>5. ActiveCents(u.active) <= ActiveCents(v.active)
  BY SMT, <1>4 DEF ActiveCents, Micro
<1>6. RetainedCents(u.retained) <= RetainedCents(v.retained)
  BY SMT, <1>4 DEF RetainedCents, Micro
<1> QED
  BY <1>3, <1>5, <1>6 DEF m, n

\* The bill of a plan string never falls as usage grows.
LEMMA TotalGrows ==
  ASSUME NEW p, NEW u \in Usage, NEW v \in Usage,
         u.actions <= v.actions, u.active <= v.active, u.retained <= v.retained
  PROVE  TotalCents(Bill(p, v)) >= TotalCents(Bill(p, u))
<1> DEFINE q == EffectivePlan(p)
           m == OverageMillions(u.actions, ActionsIncluded(q))
           n == OverageMillions(v.actions, ActionsIncluded(q))
<1>1. ActionsIncluded(q) \in Nat /\ BasePriceCents(q) \in Nat
  BY IncludedIsNatural
<1>2. /\ m <= n
      /\ ActiveCents(u.active) <= ActiveCents(v.active)
      /\ RetainedCents(u.retained) <= RetainedCents(v.retained)
  BY Zenon, <1>1, ItemsGrow
<1>3. m \in Nat /\ n \in Nat
  <2>1. u.actions \in Nat /\ v.actions \in Nat
    BY DEF Usage
  <2> QED
    BY Zenon, <1>1, <2>1, LeastCover
<1>4. /\ ActiveCents(u.active) \in Nat /\ ActiveCents(v.active) \in Nat
      /\ RetainedCents(u.retained) \in Nat /\ RetainedCents(v.retained) \in Nat
  BY SMT DEF Usage, ActiveCents, RetainedCents, Micro
<1>5. /\ TotalCents(Bill(p, u)) = BasePriceCents(q) + 2500 * m
                                   + ActiveCents(u.active) + RetainedCents(u.retained)
      /\ TotalCents(Bill(p, v)) = BasePriceCents(q) + 2500 * n
                                   + ActiveCents(v.active) + RetainedCents(v.retained)
  BY BillCharges DEF TotalCents, PricePerMillionActions
<1> HIDE DEF q, m, n
<1> QED
  BY SMT, <1>1, <1>2, <1>3, <1>4, <1>5

\* More usage on the same plan never makes the bill smaller.
THEOREM BillAlwaysGrows == BillGrowsWithUsage
<1> SUFFICES ASSUME NEW p \in PlanString, NEW u \in UsageSample, NEW v \in UsageSample,
                    AtMost(u, v)
             PROVE  TotalCents(Bill(p, u)) <= TotalCents(Bill(p, v))
  BY DEF BillGrowsWithUsage
<1>1. u \in Usage /\ v \in Usage
  BY ArithmeticAssumption
<1>2. TotalCents(Bill(p, u)) \in Int /\ TotalCents(Bill(p, v)) \in Int
  <2>1. ASSUME NEW w \in Usage
        PROVE  TotalCents(Bill(p, w)) \in Int
    <3>1. OverageMillions(w.actions, ActionsIncluded(EffectivePlan(p))) \in Nat
      BY LeastCover, IncludedIsNatural DEF Usage
    <3>2. ActiveCents(w.active) \in Nat /\ RetainedCents(w.retained) \in Nat
      BY SMT DEF Usage, ActiveCents, RetainedCents, Micro
    <3> QED
      BY <3>1, <3>2, BillCharges, IncludedIsNatural DEF TotalCents, PricePerMillionActions
  <2> QED
    BY <1>1, <2>1
<1>3. TotalCents(Bill(p, v)) >= TotalCents(Bill(p, u))
  BY <1>1, TotalGrows DEF AtMost
<1> QED
  BY <1>2, <1>3
=============================================================================
