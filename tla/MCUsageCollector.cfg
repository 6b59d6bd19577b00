CONSTANTS
  Namespace = {n1, n2}
  Pod = {c1, c2}
  MaxActions = 1
  MaxSlot = 5
  MaxRuns = 2

SPECIFICATION Spec

SYMMETRY MCSymmetry

INVARIANTS
  IInv
  AggregatesArePast
  OneRowPerRun
  AggregatesAreCovered

PROPERTY AggregatesNeverShrink

CHECK_DEADLOCK FALSE
