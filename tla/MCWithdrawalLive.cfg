\* One withdrawal, one driver that may crash, a network that may lose anything.
SPECIFICATION LiveSpec
CONSTANTS
  u1 = u1
  w1 = w1
  d1 = d1
  Users = {u1}
  Rows = {w1}
  Owner <- OwnerIsU1
  Drivers = {d1}
  Amounts = {1}
  InitBalance = 1
  DailyLimit = 1
  FeeReserve = 0
  HotTarget = 1
  AttemptLimits = {1, 2}
  Life = 1
  Margin = 1
  MaxLag = 1
  MaxHeight = 40
  MaxDay = 0
  MaxCrashes = 1
CHECK_DEADLOCK FALSE
PROPERTIES
  ImplementsPayout
  EveryWithdrawalSettles
