-------------------------- MODULE MCMonthlyBilling --------------------------
(***************************************************************************)
(* A small instance of MonthlyBilling, and the sample of the arithmetic.   *)
(***************************************************************************)
EXTENDS BillArithmetic

\* On the essential plan the base price and one block of overage; nothing on
\* the enterprise plan.
MCUsage == {[actions |-> 1500000, active |-> 0, retained |-> 0]}

MCPlans == {"essential", "enterprise"}

\* The listed plans and a name the price list does not know.
MCPlanStrings == ListedPlan \cup {"legacy"}

\* At, one below and one above what a plan includes, with and without whole
\* blocks of overage.
MCActions ==
  {0} \cup UNION {{n - 1, n, n + 1} :
    n \in {100000, 1000000, 1100000, 2000000, 2500000, 3500000, 10000000, 11000000}}

\* 4761904 micro GB-hours of active storage are just under 20 cents, 4761905
\* just over; 9523809 of retained storage are just under a cent, 9523810 over.
MCSample ==
  [actions : MCActions, active : {0, 4761904, 4761905}, retained : {9523809, 9523810}]
=============================================================================
