CONSTANTS
  Events = {e1}
  Subscriptions = {s1}
  Flushers = {f1}
  Publishers = {p1}
  Dispatchers = {d1, d2}
  MaxRetries = 2
  MaxAttempts = 3
  MaxRows = 1
  MaxFanOuts = 1
  MaxFaults = 1
  None = None
SPECIFICATION Spec
INVARIANTS TypeOK NoEarlyGiveUp
PROPERTIES EventsAreRelayed EventSettles DeliveryEnds
CHECK_DEADLOCK FALSE
