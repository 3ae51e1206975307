CONSTANTS
  r1 = r1
  r2 = r2
  r3 = r3
  k1 = k1
  k2 = k2
  Keys = {k1, k2}
  KeyOf <- MCKeyOf
  None = None
  Workers = {w1, w2}
  Requests = {r1, r3}
  Reoptimizations = {r3}
  HasPayload = {r1}
  Approvals = {a1}
  MaxAttempts = 1
  SlowSolves = FALSE
SPECIFICATION Spec
PROPERTIES JobsAreSettled JobEnds
