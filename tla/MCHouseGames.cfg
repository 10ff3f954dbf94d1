SPECIFICATION HouseSpec
CONSTANTS
  Users = {u1, u2}
  Funds = 3
  FlipUsers = {a, b}
  FlipFunds = 20
  Creators = {a}
  Joiners = {b}
  Flips = {f1, f2}
  Slots = {q1, q2}
  FlipStake = 10
  MaxOpen = 1
  Deposit = 10
  Anchored = TRUE
  Nobody = Nobody
  Bets <- OneAndOne
  SidePays = {0}
  IdleRounds = 1
  MaxHands = 2
  BjWindows = {}
  LottoUsers = {c}
  LottoFunds = 9
  Engines = {e1, e2}
  TicketPrice = 7
  Discount = 20
  Batches = {2}
  FeeBps = 2000
  Breakdown <- ThirdAndRest
  HouseInjection = 5
  Rate = 1
  Unit = 2
  Earned = 1
  MaxDraws = 2
  MaxTickets = 2
  MaxElections = 2
  MaxMishaps = 1
SYMMETRY Alike
CHECK_DEADLOCK FALSE
INVARIANTS
  FlipsSettleOnce
  
  DrawsSettleOnce
