CONSTANTS
  Email = {e1, e2}
  Password = {p1}
  SignUp = {s1, s2}
  Link = {l1}
  Visit = {v1, v2}
  Change = {c1}
  SignUpLife = 1
  LinkLife = 0
  MaxTime = 1
  MaxRequests = 4
  None = None

SPECIFICATION Spec

SYMMETRY MCSymmetry

INVARIANTS
  IInv
  AccountAfterVerification
  VerifiedByItsOwner
  LateSignUpLeavesNoTrace
  UsedTokensAreGone

CHECK_DEADLOCK FALSE
