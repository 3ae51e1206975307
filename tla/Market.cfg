CONSTANTS
  p1 = p1
  e1 = e1
  Posts = {p1}
  Employees = {e1}
  ClaimRequests = {c1}
  BidRequests = {b1}
  Approvals = {a1, a2}
  Rejections = {x1}
  PostOf <- MCPostOf
  EmployeeOf <- MCEmployeeOf
  AutoApproved = {c1}
  Limit = 1
  Free = Free
SPECIFICATION Spec
INVARIANTS TypeOK OneLiveClaim QueuedClaimHoldsPost ApprovedIsHandedOff SecondAwardIsSecondApproval
PROPERTIES AwardsOnce OnlyHolderReleases LockIsFreed
