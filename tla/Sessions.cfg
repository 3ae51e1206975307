CONSTANTS
  None = None
  user = user
  Users = {user}
  Codes = {c1}
  Owner <- MCOwner
  Tokens = {t1, t2, t3, t4}
  Requests = {r1, r2}
SYMMETRY MCSymmetry
SPECIFICATION Spec
INVARIANTS TypeOK OneSessionPerCode
PROPERTIES SessionsAreChains
