CONSTANTS
  Tab = {t1, t2}
  LoginForm = {f1, f2}
  Google = {o1}
  EmailLink = {e1}
  Change = {c1}
  None = None

SPECIFICATION Spec

SYMMETRY MCSymmetry

INVARIANTS
  IInv
  OneSession

PROPERTIES
  StaysSignedOut

CHECK_DEADLOCK FALSE
