\* More deposits are held than the retry batch takes.
SPECIFICATION StarvedSpec
CONSTANTS
  u1 = u1
  u2 = u2
  x1 = x1
  x2 = x2
  p1 = p1
  p2 = p2
  NoUser = NoUser
  Users = {u1}
  Players = {u1}
  Wallets = {x1, x2}
  Scanners = {p1}
  NumTx = 2
  Amount <- MCAmount
  Signers <- MCStrangerFirst
  FeePayer <- MCStrangerPays
  FirstOwner <- MCFirstOwner
  MinDeposit = 2
  Batch = 1
  SeedMoney = 1
  MaxBalance = 3
  Rows = {w1, w2}
  Drivers = {d1}
  Amounts = {1, 2}
  Opening = 3
  DailyLimit = 2
  HotTarget = 2
  Life = 1
  MaxHeight = 3
  MaxDay = 1
  Wagers = {b1, b2}
  UnitStakes = {1}
  Returns = {0, 2}
  WagerLimits = {None, 1}
  LossLimits = {None, 1}
  None = None
  Blocks = {"selfExcludedUntil"}
  DayLength = 2
  LastTick = 2
  MaxStakes = 2
  Persons = {x1}
  Replicas = {y1, y2}
  Limit = 1
  WindowTicks = 1
  GateWindows = {}
  MaxTick = 1
  MaxReviews = 2
  MaxAsks = 2
CHECK_DEADLOCK FALSE
PROPERTY HeldIsRetried
