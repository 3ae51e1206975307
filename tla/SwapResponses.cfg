CONSTANTS
  s1 = s1
  e1 = e1
  e2 = e2
  h1 = h1
  a1 = a1
  a2 = a2
  a3 = a3
  Swaps = {s1}
  Employees = {e1, e2}
  Shifts = {h1}
  Accepts = {a1, a2, a3}
  Declines = {d1}
  Approvals = {v1, v2}
  Rejections = {x1}
  SwapOf <- MCSwapOf
  ResponderOf <- MCResponderOf
  OfferOf <- MCOfferOf
  NamedTarget <- MCNothing
  NamedShift <- MCNothing
  AutoApproved = {a1}
  None = None
SPECIFICATION Spec
INVARIANTS TypeOK AcceptExecutesAlone ExecutedForTarget AcceptedIsHandedOff
PROPERTIES TargetIsStable TradedWithOne
SYMMETRY Supervisors
