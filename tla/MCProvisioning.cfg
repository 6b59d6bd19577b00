CONSTANTS
  r1 = r1
  r2 = r2
  r3 = r3
  n1 = n1
  n2 = n2
  Request = {r1, r2, r3}
  Name = {n1, n2}
  NameOf <- MCNameOf
  Nobody = Nobody
  Other = Other
  MaxCrashes = 1

SPECIFICATION FairSpec

INVARIANTS
  ActiveIsOwned
  IInv

PROPERTIES
  LifecycleSpec
  ProvisioningEnds

CHECK_DEADLOCK FALSE
