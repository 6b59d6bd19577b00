CONSTANTS
  Orgs = {o1}
  HasCustomer = {o1}
  PlanName <- MCPlans
  UsageLevel <- MCUsage
  MaxMonth = 1
  MaxStarts = 2
  MaxEvents = 1
  MaxRenewals = 1
  MaxChanges = 0
  PlanString <- MCPlanStrings
  UsageSample <- MCSample

SPECIFICATION Spec

INVARIANT InvoiceIsForItsBill

CHECK_DEADLOCK FALSE
