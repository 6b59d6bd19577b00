CONSTANTS
  o1 = o1
  o2 = o2
  o3 = o3
  s1 = s1
  s2 = s2
  SignUp = {o1}
  Slug = {s1, s2}
  SlugOf <- MCOneSlug
  Update = {u1, u2}
  Plan <- MCTwoPlans
  Priced <- MCOnePrice
  Offered <- MCOnePrice
  MaxStripe = 2

SPECIFICATION Spec

INVARIANT OnlyTheRowsSubscriptionIsLive

CHECK_DEADLOCK FALSE
