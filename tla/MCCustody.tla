----------------------------- MODULE MCCustody -----------------------------
(***************************************************************************)
(* Custody: deposits, and what bounds the movements of money: the limits   *)
(* on withdrawals, the limits players set on their wagers, and the gates a *)
(* request passes. They share columns that each moves in transactions of   *)
(* its own, so a behaviour runs one of them (`service'); the deposits stay *)
(* in their initial state in the others.                                   *)
(***************************************************************************)
EXTENDS CustodyDeposit, TLC

CONSTANTS
  u1, u2, x1, x2,
  Rows, Drivers, Amounts, DailyLimit, HotTarget, Life, MaxHeight, MaxDay, Opening,
  Wagers, UnitStakes, Returns, WagerLimits, LossLimits, None, Blocks, DayLength, LastTick,
  MaxStakes,
  Persons, Replicas, Limit, WindowTicks, GateWindows, MaxTick, MaxReviews, MaxAsks

VARIABLES
  service,
  row, purse, day, paused, maxAttempts, driver, height, net, landed, hot,
  now, user, bets, open, riding, req, taken, slack, carried, promised,
  cfg, kyc, review, hooks, hits, expires, tick, passed, seen, asks

withdrawalsVars == <<row, purse, day, paused, maxAttempts, driver, height, net, landed, hot>>
limitsVars == <<now, user, bets, open, riding, req, taken, slack, carried, promised>>
gatesVars == <<cfg, kyc, review, hooks, hits, expires, tick, passed, seen, asks>>
custodyVars ==
  <<service, vars, withdrawalsVars, limitsVars, gatesVars>>

\* Amounts, limits and bounds are numbers; a player may have no limit.
ASSUME CustodyAssumption ==
  /\ Rows # {} /\ Amounts \subseteq Nat \ {0} /\ Life \in Nat \ {0}
  /\ {Opening, DailyLimit, HotTarget, MaxHeight, MaxDay} \subseteq Nat
  /\ UnitStakes \subseteq Nat /\ Returns \subseteq Nat
  /\ None \in WagerLimits \cap LossLimits
  /\ (WagerLimits \cup LossLimits) \ {None} \subseteq Nat
  /\ LastTick \in Nat \ {0}
  /\ {Limit, WindowTicks, MaxTick, MaxAsks} \subseteq Nat

MCFirstOwner == [x \in Wallets |-> IF x = x1 THEN u1 ELSE NoUser]
MCAmount == [s \in Txs |-> 2]

\* A wallet that nobody owns yet signs transfer 1 and, with a known one, 2.
MCSigners == [s \in Txs |-> IF s = 1 THEN {x2} ELSE {x1, x2}]
MCFeePayer == [s \in Txs |-> x2]

\* A stranger's transfer comes before one of the account.
MCStrangerFirst == [s \in Txs |-> IF s = 1 THEN {x2} ELSE {x1}]
MCStrangerPays == [s \in Txs |-> IF s = 1 THEN x2 ELSE x1]

Withdrawals == INSTANCE CustodyWithdrawalProofs WITH
  Users <- {u1}, Owner <- [w \in Rows |-> u1], balance <- purse, InitBalance <- Opening,
  FeeReserve <- 0, AttemptLimits <- {1}, Margin <- 0, MaxLag <- 0
Limits == INSTANCE WagerLimits WITH
  Stakes <- UnitStakes, MaxTime <- LastTick
Gates == INSTANCE RequestGates

Off == "off"
WithdrawalsOff ==
  /\ row = Off /\ purse = Off /\ day = Off /\ paused = Off /\ maxAttempts = Off
  /\ driver = Off /\ height = Off /\ net = Off /\ landed = Off /\ hot = Off
LimitsOff ==
  /\ now = Off /\ user = Off /\ bets = Off /\ open = Off /\ riding = Off /\ req = Off
  /\ taken = Off /\ slack = Off /\ carried = Off /\ promised = Off
GatesOff ==
  /\ cfg = Off /\ kyc = Off /\ review = Off /\ hooks = Off /\ hits = Off /\ expires = Off
  /\ tick = Off /\ passed = Off /\ seen = Off /\ asks = Off

CustodyInit ==
  \/ service = "deposits" /\ Init /\ WithdrawalsOff /\ LimitsOff /\ GatesOff
  \/ service = "withdrawals" /\ Init /\ Withdrawals!Init /\ LimitsOff /\ GatesOff
  \/ service = "limits" /\ Init /\ Limits!Init /\ WithdrawalsOff /\ GatesOff
  \/ service = "gates" /\ Init /\ Gates!GatesInit /\ WithdrawalsOff /\ LimitsOff

CustodyNext ==
  \/ /\ service = "deposits" /\ Next
     /\ UNCHANGED <<service, withdrawalsVars, limitsVars, gatesVars>>
  \/ /\ service = "withdrawals" /\ Withdrawals!Next
     /\ UNCHANGED <<service, vars, limitsVars, gatesVars>>
  \/ /\ service = "limits" /\ Limits!Next
     /\ UNCHANGED <<service, vars, withdrawalsVars, gatesVars>>
  \/ /\ service = "gates" /\ Gates!GatesNext
     /\ UNCHANGED <<service, vars, withdrawalsVars, limitsVars>>

CustodySpec == CustodyInit /\ [][CustodyNext]_custodyVars

\* Scanners are interchangeable, and so are concurrent bets.
Alike == Permutations(Scanners) \cup Permutations(Wagers)

\* The deposits alone, on a replica that stays up and runs its job again and again.
OnlyDeposits(step) == step /\ UNCHANGED <<service, withdrawalsVars, limitsVars, gatesVars>>
StarvedSpec ==
  /\ service = "deposits" /\ CustodyInit
  /\ [][OnlyDeposits(UpNext)]_custodyVars
  /\ \A p \in Scanners : WF_custodyVars(OnlyDeposits(ScanNext(p)))

-----------------------------------------------------------------------------
(* What bounds the money a player moves: one withdrawal of an account is   *)
(* in flight at a time, and what a day pays out stays within its daily     *)
(* limit (CustodyWithdrawal); the day's wagers pass the limit a player set *)
(* by no more than stakes its check could not see; nor do the day's        *)
(* losses; a cooling-off or self-exclusion is never shortened              *)
(* (WagerLimits); with real money on, only verified requests pass;         *)
(* handlers run only for those entitled; replicas share the throttle       *)
(* (RequestGates).                                                         *)
LimitsHold ==
  /\ service = "withdrawals" => Withdrawals!TypeOK /\ Withdrawals!LimitsHold
  /\ service = "limits" =>
       /\ Limits!LimitsTypeOK
       /\ Limits!WagersWithinLimit
       /\ Limits!LossesWithinLimit
       /\ Limits!BlocksLast
  /\ service = "gates" =>
       /\ Gates!GatesTypeOK
       /\ Gates!RealMoneyVerified
       /\ Gates!OnlyTheEntitled
       /\ Gates!BurstsCapped
=============================================================================
