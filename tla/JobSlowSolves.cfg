CONSTANTS
  r1 = r1
  r2 = r2
  r3 = r3
  k1 = k1
  k2 = k2
  Keys = {k1, k2}
  KeyOf <- MCKeyOf
  None = None
  Workers = {w1, w2}
  Requests = {r1, r2}
  Reoptimizations = {r1}
  HasPayload = {r1, r2}
  Approvals = {a1, a2}
  MaxAttempts = 1
  SlowSolves = TRUE
SPECIFICATION Spec
INVARIANTS TypeOK OneJobPerKey ScheduleIsAnnounced SchedulesAreBounded
