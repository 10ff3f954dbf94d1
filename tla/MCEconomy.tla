----------------------------- MODULE MCEconomy -----------------------------
(***************************************************************************)
(* The economy around the games, one instance of each part: reward claims, *)
(* the airdrop, the hourly block and dividend, and the volume counters and *)
(* emission schedule they read. They meet only in columns that each moves  *)
(* in transactions of its own, so a behaviour runs one of them (`part');   *)
(* variables of the same name are shared, and the others are `Off'.        *)
(***************************************************************************)
EXTENDS Integers, FiniteSets, TLC

CONSTANTS
  Reserved, Attempts, MaxTries, CashbackRate, CasePrize, ClaimWindows, MaxClaims,
  MaxEarned, MaxLost, MaxDay,
  Players, Runs, Base, Tips, Purse, DropWindows, MaxHour,
  Miners, Jobs, BlockReward, BigBps, EmissionPool, Dividend, MinStake, StartScad,
  RoundWindows, MaxMoves,
  Ttl, PhaseOne, EraLength, Campaigns, MaxMult, LastDay, MaxVolume, MaxClock, MaxMints

VARIABLES
  part,
  purse,
  lost, baseline, opening, lastCase, claims, attempt, landed, today, earned,
  hour,
  pool, funded, tip, job, spoiled,
  blocks, divs, scad, staked, usds, auto, claim, emitted, jobs, moves,
  base, day, daily, weekly, time, persisted, since, cache, refresh, readers, shown

rewardsVars ==
  <<lost, baseline, opening, lastCase, claims, attempt, landed, today, earned>>
airdropVars == <<pool, funded, tip, job, spoiled>>
roundsVars == <<blocks, divs, scad, staked, usds, auto, claim, emitted, jobs, moves>>
emissionVars ==
  <<base, day, daily, weekly, time, persisted, since, cache, refresh, readers, shown>>
vars ==
  <<part, purse, rewardsVars, hour, airdropVars, roundsVars, emissionVars>>

\* 1 January 2025 to 2028, in days from Monday 29 December 2025.
NewYears == (2025 :> -362) @@ (2026 :> 3) @@ (2027 :> 368) @@ (2028 :> 733)
TwoCaps == <<6, 12>>
TierFrom == <<0, 2, 4>>
TierMult == <<1000, 1100, 1500>>

Rewards == INSTANCE RewardClaims
Drops == INSTANCE Airdrop
Rounds == INSTANCE EngineRounds
Emit == INSTANCE Emission WITH
  YearStarts <- NewYears, Stakes <- Tips, PhaseCaps <- TwoCaps, Thresholds <- TierFrom,
  Multipliers <- TierMult, MaxTime <- MaxClock

Off == "off"
RewardsOff ==
  /\ lost = Off /\ baseline = Off /\ opening = Off /\ lastCase = Off /\ claims = Off
  /\ attempt = Off /\ landed = Off /\ today = Off /\ earned = Off
AirdropOff == pool = Off /\ funded = Off /\ tip = Off /\ job = Off /\ spoiled = Off
RoundsOff ==
  /\ blocks = Off /\ divs = Off /\ scad = Off /\ staked = Off /\ usds = Off /\ auto = Off
  /\ claim = Off /\ emitted = Off /\ jobs = Off /\ moves = Off
EmissionOff ==
  /\ base = Off /\ day = Off /\ daily = Off /\ weekly = Off /\ time = Off
  /\ persisted = Off /\ since = Off /\ cache = Off /\ refresh = Off /\ readers = Off
  /\ shown = Off

Init ==
  \/ /\ part = "rewards" /\ Rewards!Init /\ hour = Off /\ AirdropOff /\ RoundsOff
     /\ EmissionOff
  \/ part = "airdrop" /\ Drops!Init /\ RewardsOff /\ RoundsOff /\ EmissionOff
  \/ /\ part = "rounds" /\ Rounds!Init /\ purse = Off /\ RewardsOff /\ AirdropOff
     /\ EmissionOff
  \/ /\ part = "emission" /\ Emit!EmissionInit /\ purse = Off /\ RewardsOff /\ hour = Off
     /\ AirdropOff /\ RoundsOff

Next ==
  \/ /\ part = "rewards" /\ Rewards!Next
     /\ UNCHANGED <<part, hour, airdropVars, roundsVars, emissionVars>>
  \/ /\ part = "airdrop" /\ Drops!Next
     /\ UNCHANGED <<part, rewardsVars, roundsVars, emissionVars>>
  \/ /\ part = "rounds" /\ Rounds!Next
     /\ UNCHANGED <<part, purse, rewardsVars, airdropVars, emissionVars>>
  \/ /\ part = "emission" /\ Emit!EmissionNext
     /\ UNCHANGED <<part, purse, rewardsVars, hour, airdropVars, roundsVars>>

Spec == Init /\ [][Next]_vars

\* Players and attempts are interchangeable, and so are jobs.  The parts
\* use the same model values for them, as no behaviour runs two parts.
Alike == Permutations(Players) \cup Permutations(Jobs)

-----------------------------------------------------------------------------
(* What a player earns: whatever the chain answers and however often a     *)
(* claim is tried, what is earned is free, reserved or paid, once;         *)
(* cashback is paid on a loss at most once; a day opens one daily case     *)
(* (RewardClaims).                                                         *)
RewardsPaidOnce ==
  /\ part = "rewards" =>
       /\ Rewards!TypeOK
       /\ Rewards!RewardsConserved
       /\ Rewards!CashbackWithinLosses
       /\ Rewards!OneCaseADay

(* The airdrop: a pool is handed out once, whole; no drop reaches an       *)
(* account that has deposited (Airdrop).                                   *)
DropsPaidOnce ==
  /\ part = "airdrop" => Drops!TypeOK /\ Drops!DropGivenOnce /\ Drops!DropsToPlayOnly

(* The hourly rounds and the schedule of what they emit: the $SCAD of the  *)
(* accounts is what blocks emitted; blocks never emit more than the pool;  *)
(* an hour's dividends stay within its pool (EngineRounds); a week's       *)
(* volume is that of its days; the emitted total shown is one there was a  *)
(* short while ago; both halving schedules stay inside the pool; the       *)
(* multiplier of a player stays within its cap (Emission).                 *)
RoundsWithinPool ==
  /\ part = "rounds" =>
       /\ Rounds!TypeOK
       /\ Rounds!ScadAccounted
       /\ Rounds!EmissionCapped
       /\ Rounds!DividendsWithinPool
  /\ part = "emission" =>
       /\ Emit!EmissionTypeOK
       /\ Emit!WeeksAddUp
       /\ Emit!CounterFresh
       /\ Emit!SchedulesDrainPool
       /\ Emit!MultiplierBounded
=============================================================================
