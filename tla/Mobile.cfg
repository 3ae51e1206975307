CONSTANTS
  in = in
  out = out
  in2 = in2
  leave = leave
  claim = claim
  ClockIns = {in, in2}
  ClockOuts = {out}
  Leaves = {leave}
  Claims = {}
  At <- MCAt
  OutsideFence = {out}
  Already = {in}
  Passes = {p1, p2}
  MaxTaps = 2
  MaxFaults = 1
SPECIFICATION Spec
INVARIANTS TypeOK SyncedIsAccepted
PROPERTIES ActionsAreRelayed ActionSettles
CHECK_DEADLOCK FALSE
