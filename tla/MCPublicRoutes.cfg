CONSTANTS
  Email = {e1, e2}
  Send = {s1, s2}
  Visit = {v1, v2}
  Org = {g1, g2}
  Create = {c1}
  Delete = {d1}
  Call = {s1, s2, v1, v2, c1, d1}
  FirstKey = {k1}
  PrefixOf <- MCPrefixOf
  LinkLife = 0
  KeyLife = 0
  MaxTime = 1
  MaxCalls = 3
  None = None

SPECIFICATION Spec

INVARIANT PublicRoutesAreOpen

CHECK_DEADLOCK FALSE
