CONSTANTS
  in = in
  out = out
  in2 = in2
  leave = leave
  claim = claim
  ClockIns = {in}
  ClockOuts = {out}
  Leaves = {}
  Claims = {}
  At <- MCAt
  OutsideFence = {}
  Already = {}
  Passes = {p1}
  MaxTaps = 2
  MaxFaults = 1
SPECIFICATION Spec
INVARIANT ConflictIsReal
CHECK_DEADLOCK FALSE
