SPECIFICATION Spec
CONSTANTS
  Reserved = {"wagerReward"}
  Attempts = {x1, x2}
  MaxTries = 2
  CashbackRate = 2
  CasePrize = 1
  ClaimWindows = {}
  MaxClaims = 2
  MaxEarned = 1
  MaxLost = 2
  MaxDay = 2
  Players = {x1, x2}
  Runs = {j1, j2}
  Base = 2
  Tips = {1}
  Purse = 1
  DropWindows = {}
  MaxHour = 3
  Miners = {x1, x2}
  Jobs = {j1, j2}
  BlockReward = 3
  BigBps = 5000
  EmissionPool = 4
  Dividend = 3
  MinStake = 1
  StartScad = 1
  RoundWindows = {}
  MaxMoves = 2
  Ttl = 1
  PhaseOne = 4
  EraLength = 3
  Campaigns = {500, 4000}
  MaxMult = 5000
  LastDay = 3
  MaxVolume = 1
  MaxClock = 3
  MaxMints = 2
SYMMETRY Alike
CHECK_DEADLOCK FALSE
INVARIANTS
  
  DropsPaidOnce
  RoundsWithinPool
