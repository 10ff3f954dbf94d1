SPECIFICATION Spec
CONSTANTS
  x1 = x1
  x2 = x2
  y1 = y1
  y2 = y2
  Players = {x1, x2}
  StartFunds = 1
  Cap = 3
  SweepWindows = {}
  MaxMoves = 3
  MaxSweeps = 2
  Racers = {1, 2, 3}
  Runs = {x1, x2}
  Late = {3}
  Referrer = r0
  Referees = {e1, e2}
  SameIp = {e2}
  Stakes = {4, 7}
  Edge = 5
  Unit = 10
  Claims = {x1, x2}
  MaxVolume = 22
  SessionRows = {x1, x2}
  SignIns = {y1, y2}
  Refreshes = {z1, z2}
  MaxTokens = 3
  MaxNonces = 2
  Stakers = {u1}
  Pools = {q1, q2}
  Slots = {y1, y2, s3}
  Lots = {1, 3}
  StartScad = 4
  Yields = {0, 3}
  Accruers = {x1, x2}
  MaxHours = 1
  VaultWindows = {}
  Ray = 2
  PenaltyBps = 5000
  Owners = {x1, x2}
  Rent = 1
  Wallet = 2
  Bankroll = 2
  Treasury = 2
  Calls = {y1, y2}
  Buffer = 1
  Authority = Authority
  Cosigner = Cosigner
  Depositors = {x1, x2}
  Tokens = 4
  Yield = 2
  MinLiquidity = 1
  MaxDeposits = 3
  PoolRay = 3
  Traders = {x1, x2}
  StartSol = 4
  SwapFee = 900
  SlipBps = 1000
  Locked = 1
  Amounts = {1, 3}
  Percents = {50, 100}
  MaxSwaps = 2
  MaxSlot = 3
  Window = 1
  Hashes = {h1, h2}
  Buyers = {u1}
  Sigs = {x1, x2}
  Offset = 1
  Price = 2
  Divisor = 2
  LotteryFee = 2500
  HouseInjection = 1
  SweepLimit = 1
  UserIds = {1, 2}
  Addresses = {x1, x2}
  Dids = {d1}
  Nobody = Nobody
  Callers = {z1, z2}
  AccountWindows = {}
  MaxRequests = 4
  Consumers = {y1, y2, z1}
  Cron = Cron
  HourTicks = 2
  LockTtl = 2
  MaxNow = 5
  MaxRuns = 4
  MaxFaults = 1
SYMMETRY Alike
CHECK_DEADLOCK FALSE
INVARIANTS
  AccountsGuarded
  
  SharesBacked
  MarketsKeepTheirWord

  
