SPECIFICATION FairSpec
CONSTANTS
  Users = {u1}
  Funds = 3
  ClientSeeds = {c1, c2}
  Generated = generated
  NoPair = NoPair
  Games = {"mines", "hilo", "tower"}
  Stake = 2
  Limit = 2
  MinesMult <- MCMinesMult
  TowerMult <- MCTowerMult
  HiloSteps <- MCHiloSteps
  Multipliers <- MCMultipliers
  Requests = {q1, q2}
  RngModes = {TRUE, FALSE}
  RepeatSeeds = FALSE
  MaxWagers = 2
  MaxNonce = 3
  MaxServer = 2
  OddsMineCells = 25
  OddsCells = 12
  OddsDraws = 5
  Grid = 2000
  DrawMineCells = 5
  DrawCells = 5
  DrawDraws = 2
  Amounts = {0, 1, 2, 3}
  Entries = 3
  Digits = {0, 1}
  Places = 3
  MaxCards = 4
  Seats = {"d", "s0", "s1"}
  Deals = 5
  Rounds = {q1, q2}
  VerifiedGames = {"crash", "lottery", "jackpot", "mines"}
  Params = {1, 3}
  DefaultParam = 3
  Links = {"page", "profile"}
  RelayFails = TRUE
  MaxSlot = 5
  Window = 2
  Hashes = {h1, h2}
  RngRequests = {q1, q2}
  RoundIds = {c1, c2}
  Offset = 1
  ScreenWindows = {}
  MaxRounds = 2
  MaxDrops = 1
  Visitors = {q1}
  Cap = 2
  DayLength = 3
  Attempts = 2
  SweepTime = 3
  EdgeWindows = {}
  MaxTime = 6
  MaxWakes = 2
  MaxLosses = 1
SYMMETRY Alike
CHECK_DEADLOCK FALSE
INVARIANTS
  BooksBalance
  FieldStaysSecret
  FreshDraws
  TypeOK
  
  VerifierTruthful
  RngRoundsFair
  
PROPERTIES
  SiteSteps
