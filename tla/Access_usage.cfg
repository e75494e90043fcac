SPECIFICATION Spec
CONSTANTS
  Codes = {c1, c2}
  Browsers = {b}
  Requests = {r1, r2}
  Tokens = {t1, t2}
  Jobs = {j1}
  Admin = Admin
  Nobody = Nobody
  MaxEvents = 3
SYMMETRY
  SymmetricIds
INVARIANTS
  UsageIsTrue
PROPERTIES
  RevokedAccessDrains
