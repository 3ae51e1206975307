CONSTANTS
  old = old
  new = new
  r1 = r1
  r2 = r2
  r3 = r3
  yes = yes
  no = no
  Requests = {r1, r2, r3}
  Backdated = {r1}
  NoApproval = {r3}
  Dates <- MCDates
  Balances = {old, new}
  BalanceOf <- MCBalanceOf
  Grant <- MCGrant
  CarriedIn <- MCCarriedIn
  Carryovers <- MCCarryovers
  MaxCarryover = 1
  AccrualRate = 1
  BalanceCap = 2
  Decisions = {yes, no, back}
  RequestOf <- MCRequestOf
  Approving = {yes, back}
  Permitted = {back}
  Jobs = {j1, j2}
  None = None
SPECIFICATION Spec
INVARIANT ClawedAtMostCarried
CHECK_DEADLOCK FALSE
