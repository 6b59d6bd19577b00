CONSTANTS
  o1 = o1
  o2 = o2
  o3 = o3
  s1 = s1
  s2 = s2
  SignUp = {o1, o2, o3}
  Slug = {s1, s2}
  SlugOf <- MCThreeSignUps
  Update = {u1, u2}
  Plan <- MCLegacy
  Priced <- MCLegacyPrice
  Offered <- MCLegacyPrice
  MaxStripe = 2

SPECIFICATION Spec

SYMMETRY MCSymmetry

INVARIANTS
  IInv
  RowIsOneRequests
  StatusReported
  SubscriptionMissingOnlyAfterFailure

PROPERTY ImplementsBook

CHECK_DEADLOCK FALSE
