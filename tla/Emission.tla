------------------------------ MODULE Emission ------------------------------
(***************************************************************************)
(* Wager volume and the $SCAD schedule: the daily and weekly leaderboard   *)
(* buckets of accrue, the cached emission counter and the multipliers of   *)
(* the earn rate (proof-of-wager.service.ts), with the halving schedules   *)
(* and the revenue slices of packages/shared/src/constants.ts.             *)
(*                                                                         *)
(* Days are counted from Monday 29 December 2025; a behaviour is a few     *)
(* days around one of the new years.  Multipliers are in milli.            *)
(***************************************************************************)
EXTENDS Naturals, Integers, FiniteSets, FiniteSetsExt, Sequences, SequencesExt

CONSTANTS
  YearStarts,   \* day of 1 January, by year
  Stakes,       \* stakes of an accrual
  Ttl,          \* CACHE_TTL_MS
  PhaseCaps,    \* cumulative caps of EMISSION_PHASES
  PhaseOne,     \* rate and block reward of the first phase
  EraLength,    \* MINING.MS_PER_HALVING, in blocks
  Thresholds, Multipliers,   \* WAGER tiers
  Campaigns,    \* multipliers a campaign may have
  MaxMult,      \* WAGER.MAX_MULTIPLIER
  LastDay, MaxVolume, MaxTime, MaxMints   \* bounds

VARIABLES
  base, day, \* the UTC day: the first of the behaviour, days since
  daily,     \* WagerLeaderboard of one user, daily rows
  weekly,    \* and weekly rows, by week key
  time,      \* the clock of the emission cache
  persisted, \* EmissionState.totalEmittedScad, written by the block worker
  since,     \* history: the totals there have been, by the time they ended
  cache,     \* cachedEmitted, cachedEmittedAt; at 0: never
  refresh,   \* emissionRefresh: the promise under way, its `now'
  readers,   \* earn-rate requests waiting for it
  shown      \* history: total, time asked and time answered of the last readout

emissionVars == <<base, day, daily, weekly, time, persisted, since, cache, refresh, readers, shown>>

-----------------------------------------------------------------------------
(* Period keys.                                                            *)

Years == DOMAIN YearStarts
YearOf(d) == Max({y \in Years : YearStarts[y] <= d})

\* A key that takes the year of the day itself.
WeekOfCalendarYear(d) ==
  LET thursday == d - (d % 7) + 3
      jan4 == YearStarts[YearOf(thursday)] + 3
  IN <<YearOf(d), 1 + ((2 * (thursday - jan4) + 7) \div 14)>>

\* periodKeys: the week of the nearest Thursday, counted from 4 January.
WeekKey(d) ==
  LET thursday == d - (d % 7) + 3
      year == YearOf(thursday)
      jan4 == YearStarts[year] + 3
  IN <<year, 1 + ((2 * (thursday - jan4) + 7) \div 14)>>

\* ISO 8601: the Thursdays of its Thursday's year so far.
IsoWeek(d) ==
  LET thursday == d - (d % 7) + 3
      year == YearOf(thursday)
  IN <<year, ((thursday - YearStarts[year]) \div 7) + 1>>

\* accrue: one reading of the clock, both buckets in the caller's transaction.
Accrue(stake) ==
  /\ FoldLeft(LAMBDA n, d : n + daily[d - 1], 0, [d \in 1..(LastDay + 1) |-> d]) < MaxVolume
  /\ daily' = [daily EXCEPT ![day] = @ + stake]
  /\ weekly' = [weekly EXCEPT ![WeekKey(base + day)] = @ + stake]
  /\ UNCHANGED <<base, day, time, persisted, since, cache, refresh, readers, shown>>

NextDay ==
  /\ day < LastDay /\ day' = day + 1
  /\ UNCHANGED <<base, daily, weekly, time, persisted, since, cache, refresh, readers, shown>>

-----------------------------------------------------------------------------
(* Schedules.                                                              *)

Halved(x, n) == x \div (2 ^ n)
Pool == PhaseCaps[Len(PhaseCaps)]

\* emissionPhaseFor: the first phase whose cap is above the total.
EmissionPhaseFor(e) ==
  LET above == {i \in DOMAIN PhaseCaps : e < PhaseCaps[i]}
      i == IF above = {} THEN Len(PhaseCaps) ELSE Min(above)
  IN [phase |-> i, rate |-> Halved(PhaseOne, i - 1),
      toNext |-> IF above = {} THEN 0 ELSE PhaseCaps[i] - e]

\* A block reward that forgets what is left.
RewardUnclamped(e) == IF e >= Pool THEN 0 ELSE Halved(PhaseOne, EmissionPhaseFor(e).phase - 1)
\* blockRewardFor, the legacy schedule.
BlockRewardFor(e) ==
  IF e >= Pool THEN 0
  ELSE Min({Halved(PhaseOne, EmissionPhaseFor(e).phase - 1), Pool - e})

\* emissionEraAt, GENESIS_BLOCK_REWARD_BASE and msToNextHalving, in blocks.
EraAt(b) == b \div EraLength
GenesisReward == (Pool \div 2) \div EraLength
\* blockRewardAt: the subsidy of block b, never more than what is left.
BlockRewardAt(b, e) == IF e >= Pool THEN 0 ELSE Min({Halved(GenesisReward, EraAt(b)), Pool - e})
ToNextHalving(b) == (EraAt(b) + 1) * EraLength - b
SubsidyUpTo(b) == FoldLeft(LAMBDA s, i : s + Halved(GenesisReward, EraAt(i - 1)), 0, [i \in 1..b |-> i])

-----------------------------------------------------------------------------
(* The emission counter.                                                   *)

\* The block worker, the one writer of the row, at some height.
Mint ==
  /\ Cardinality(since) < MaxMints
  /\ \E b \in 0..(2 * EraLength) :
       BlockRewardAt(b, persisted) > 0 /\ persisted' = persisted + BlockRewardAt(b, persisted)
  /\ since' = since \cup {<<persisted, time>>}
  /\ UNCHANGED <<base, day, daily, weekly, time, cache, refresh, readers, shown>>

TimePasses ==
  /\ time < MaxTime /\ time' = time + 1
  /\ UNCHANGED <<base, day, daily, weekly, persisted, since, cache, refresh, readers, shown>>

\* A cache that is never stale once filled.
StaleAtStart == cache.at = 0
Stale == cache.at = 0 \/ time - cache.at > Ttl

\* effectiveEmitted: a fresh cache answers; the first caller of a stale one starts
\* the refresh and the others wait for the same promise.
EarnRate ==
  IF Stale
    THEN /\ readers < 2 /\ readers' = readers + 1
         /\ refresh' = IF refresh = 0 THEN time ELSE refresh
         /\ UNCHANGED <<base, day, daily, weekly, time, persisted, since, cache, shown>>
    ELSE /\ shown' = [total |-> cache.total, asked |-> time, ok |-> TRUE]
         /\ UNCHANGED <<base, day, daily, weekly, time, persisted, since, cache, refresh, readers>>

\* refreshEmission reads the row; the buffer it would flush has no writer any more.
Refreshed ==
  /\ refresh # 0
  /\ cache' = [total |-> persisted, at |-> refresh]
  /\ shown' = [total |-> persisted, asked |-> refresh, ok |-> TRUE]
  /\ refresh' = 0 /\ readers' = 0
  /\ UNCHANGED <<base, day, daily, weekly, time, persisted, since>>

\* A failure is logged; the callers answer from what the cache had, the next asks again.
RefreshFails ==
  /\ refresh # 0
  /\ shown' = [total |-> cache.total, asked |-> refresh, ok |-> FALSE]
  /\ refresh' = 0 /\ readers' = 0
  /\ UNCHANGED <<base, day, daily, weekly, time, persisted, since, cache>>

-----------------------------------------------------------------------------
(* The earn rate: tiers, campaigns, their cap.                             *)

\* tierMultiplier: the highest tier whose threshold is met.
TierMultiplier(w) == Multipliers[Max({i \in DOMAIN Thresholds : i = 1 \/ w >= Thresholds[i]})]
\* campaignMultiplier: the best running campaign, never below 1.
CampaignMultiplier(running) == Max(running \cup {1000})
\* A multiplier without its ceiling.
Uncapped(w, running) == (TierMultiplier(w) * CampaignMultiplier(running)) \div 1000
EffectiveMultiplier(w, running) ==
  Min({(TierMultiplier(w) * CampaignMultiplier(running)) \div 1000, MaxMult})
\* earnRate: $SCAD for one unit wagered.
ScadPerUnit(w, running, e) == (EmissionPhaseFor(e).rate * EffectiveMultiplier(w, running)) \div 1000

-----------------------------------------------------------------------------
EmissionInit ==
  /\ \E y \in Years : y - 1 \in Years /\ base = YearStarts[y] - 2
  /\ day = 0 /\ daily = [d \in 0..LastDay |-> 0]
  /\ weekly = [k \in {WeekKey(base + d) : d \in 0..LastDay} |-> 0]
  /\ time = 1 /\ persisted = 0 /\ since = {}
  /\ cache = [total |-> 0, at |-> 0] /\ refresh = 0 /\ readers = 0
  /\ shown = [total |-> 0, asked |-> 0, ok |-> TRUE]

EmissionNext ==
  \/ NextDay \/ \E s \in Stakes : Accrue(s)
  \/ Mint \/ TimePasses \/ EarnRate \/ Refreshed \/ RefreshFails

EmissionSpec == EmissionInit /\ [][EmissionNext]_emissionVars

-----------------------------------------------------------------------------
(* The state has its types.                                                *)
EmissionTypeOK ==
  /\ day \in 0..LastDay /\ persisted \in Nat /\ readers \in 0..2
  /\ cache.total \in Nat /\ refresh \in 0..MaxTime

(* A weekly row of a user is the sum of the daily rows of the seven days   *)
(* of its ISO week, across the turn of the year too.                       *)
WeeksAddUp ==
  \A k \in DOMAIN weekly :
    weekly[k] = FoldLeft(LAMBDA s, d : s + (IF IsoWeek(base + d - 1) = k THEN daily[d - 1] ELSE 0), 0,
                         [d \in 1..(LastDay + 1) |-> d])

(* What the earn rate shows as emitted was the row's total at some moment  *)
(* not longer ago than the cache lives, unless the database failed; and    *)
(* however old, it never ran ahead of what was minted.                     *)
CounterFresh ==
  /\ shown.total <= persisted
  /\ shown.ok /\ shown.total # persisted =>
       \E x \in since : x[1] = shown.total /\ x[2] + Ttl >= shown.asked

(* Both schedules stay inside the pool: the legacy one by its clamp, the   *)
(* four-year one even before it; the rate halves phase by phase and the    *)
(* distance to the next halving is what is missing to the phase's cap.     *)
SchedulesDrainPool ==
  /\ persisted <= Pool
  /\ \A e \in 0..Pool : e + BlockRewardFor(e) <= Pool /\ e + BlockRewardAt(0, e) <= Pool
  /\ SubsidyUpTo(day * EraLength) <= Pool
  /\ \A b \in 0..(2 * EraLength) : EraAt(b + ToNextHalving(b)) = EraAt(b) + 1
  /\ LET p == EmissionPhaseFor(persisted) IN
       /\ p.toNext = 0 <=> persisted >= Pool
       /\ p.toNext > 0 => EmissionPhaseFor(persisted + p.toNext - 1).phase = p.phase
       /\ p.toNext > 0 /\ p.phase < Len(PhaseCaps) =>
            2 * EmissionPhaseFor(persisted + p.toNext).rate = p.rate

(* The multiplier of a player grows with the volume, never passes its cap, *)
(* and no campaign takes it below the tier's own.                          *)
MultiplierBounded ==
  \A w \in 0..(Thresholds[Len(Thresholds)] + 1), running \in SUBSET Campaigns :
    LET m == EffectiveMultiplier(w, running) IN
      /\ m <= MaxMult /\ m <= EffectiveMultiplier(w + 1, running)
      /\ m >= Min({TierMultiplier(w), MaxMult})
      /\ ScadPerUnit(w, running, persisted) * 1000 <= EmissionPhaseFor(persisted).rate * MaxMult
=============================================================================
