CONSTANTS
  Orgs = {o1, o2}
  HasCustomer = {o1}
  PlanName <- MCPlans
  UsageLevel <- MCUsage
  MaxMonth = 2
  MaxStarts = 2
  MaxEvents = 2
  MaxRenewals = 1
  MaxChanges = 1
  PlanString <- MCPlanStrings
  UsageSample <- MCSample

SPECIFICATION FairSpec

INVARIANTS
  IInv
  RowIsCovered
  OneInvoicePerStart
  ItemChargedOnce
  StatusJustified
  UndisturbedAreBilled
  OverageIsLeastCover
  EstimateBoundsBill
  BillGrowsWithUsage

PROPERTIES
  ImplementsLedger
  ProcessEnds

CHECK_DEADLOCK FALSE
