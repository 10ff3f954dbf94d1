\* One withdrawal, two concurrent drivers, nodes lagging as far as the margin.
SPECIFICATION RaceSpec
CONSTANTS
  u1 = u1
  Users = {u1}
  Rows = {w1}
  Owner <- OwnerIsU1
  d1 = d1
  d2 = d2
  Drivers = {d1, d2}
  Amounts = {1, 2}
  InitBalance = 1
  DailyLimit = 2
  FeeReserve = 0
  HotTarget = 1
  AttemptLimits = {1, 2}
  Life = 1
  Margin = 1
  MaxLag = 1
  MaxHeight = 4
  MaxDay = 1
  MaxCrashes = 0
SYMMETRY DriverSymmetry
CHECK_DEADLOCK FALSE
INVARIANTS
  AtMostOnePayment
  OneLiveSignature
  SettledTruthfully
  BalanceConserved
  TypeOK
PROPERTY SettledIsFinal
