CONSTANTS
  swap = swap
  stray = stray
  o1 = o1
  s1 = s1
  s2 = s2
  x = x
  y = y
  z = z
  Events = {swap, stray}
  Poison = {stray}
  Overrides = {o1}
  Assignments = {s1, s2}
  Employees = {x, y, z}
  Changes <- MCChanges
  FirstHolder <- MCFirstHolder
  Publishers = {p1}
  Consumers = {c1}
  MaxFaults = 1
  MaxCopies = 2
SPECIFICATION Spec
INVARIANTS TypeOK
PROPERTIES DecisionsAreRelayed ChangeIsAnnounced EventSettles
CHECK_DEADLOCK FALSE
