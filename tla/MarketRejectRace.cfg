CONSTANTS
  p1 = p1
  e1 = e1
  Posts = {p1}
  Employees = {e1}
  ClaimRequests = {c1}
  BidRequests = {b1}
  Approvals = {a1}
  Rejections = {x1}
  PostOf <- MCPostOf
  EmployeeOf <- MCEmployeeOf
  AutoApproved = {}
  Limit = 2
  Free = Free
SPECIFICATION Spec
INVARIANT RejectedIsNotGranted
