----------------------------- MODULE EngineRounds -----------------------------
(***************************************************************************)
(* The hourly rounds of the SCAD engine: the block that mints $SCAD to the *)
(* players of an hour (apps/api/src/engine/block-mining.service.ts), the   *)
(* dividend that shares its revenue among stakers                          *)
(* (distribution.service.ts), and staking (apps/api/src/staking).          *)
(*                                                                         *)
(* A round is run by a job, twice at once when the job's Redis lock has    *)
(* expired: it reads what the round shares, and settles it in a READ       *)
(* COMMITTED transaction that creates the round's row.                     *)
(***************************************************************************)
EXTENDS Naturals, FiniteSets, Functions

CONSTANTS
  Miners,
  Jobs,          \* runs that can be under way at once
  BlockReward,   \* scheduled reward of a block
  BigBps,        \* ENGINE.BIG_REWARD_BPS
  EmissionPool,  \* SCAD.P2E_POOL_BASE
  Dividend,      \* dividend pool of an hour with revenue
  MinStake,      \* ENGINE.MIN_STAKE_SCAD_BASE
  StartScad,     \* $SCAD of an account at the start
  RoundWindows,  \* windows of the code that are left open, see the README
  MaxHour, MaxMoves   \* bounds: hours, staking moves

VARIABLES
  hour,
  blocks, divs,  \* EngineBlock and DistributionRound rows by hour
  scad, staked, usds,
  auto,          \* accounts with autoStakeEnabled
  claim,         \* amount a claimAndStake or an unstake has read
  emitted,       \* EmissionState.totalEmittedScad
  jobs,
  moves

roundVars == <<hour, blocks, divs, scad, staked, usds, auto, claim, emitted, jobs, moves>>

Hours == 1..MaxHour
NoRound == [done |-> FALSE, out |-> 0, of |-> 0]
NoJob == [at |-> "no", h |-> 0, of |-> 0, rate |-> [u \in Miners |-> 0]]
NoClaim == [kind |-> "no", n |-> 0]
SumOf(f) == FoldFunction(+, 0, f)

TypeOK ==
  /\ hour \in Hours
  /\ blocks \in [Hours -> [done : BOOLEAN, out : Nat, of : Nat]]
  /\ divs \in [Hours -> [done : BOOLEAN, out : Nat, of : Nat]]
  /\ scad \in [Miners -> Nat] /\ staked \in [Miners -> Nat] /\ usds \in [Miners -> Nat]
  /\ auto \subseteq Miners
  /\ claim \in [Miners -> [kind : {"no", "stake", "unstake"}, n : Nat]]
  /\ emitted \in Nat /\ moves \in 0..MaxMoves
  /\ jobs \in [Jobs -> [at : {"no", "block", "div"}, h : 0..MaxHour, of : Nat,
                        rate : [Miners -> Nat]]]

Init ==
  /\ hour = 1
  /\ blocks = [h \in Hours |-> NoRound] /\ divs = [h \in Hours |-> NoRound]
  /\ scad = [u \in Miners |-> StartScad]
  /\ staked = [u \in Miners |-> 0] /\ usds = [u \in Miners |-> 0]
  /\ auto = {} /\ claim = [u \in Miners |-> NoClaim]
  /\ emitted = 0 /\ moves = 0
  /\ jobs = [j \in Jobs |-> NoJob]

\* An hour ends; the runs of the hour before have ended with it.
Tick ==
  /\ hour < MaxHour
  /\ "slow_run" \in RoundWindows \/ \A j \in Jobs : jobs[j].at = "no"
  /\ hour' = hour + 1
  /\ UNCHANGED <<blocks, divs, scad, staked, usds, auto, claim, emitted, jobs, moves>>

-----------------------------------------------------------------------------
(* mineBlock. *)

LessOf(a, b) == IF a < b THEN a ELSE b

\* Mutant: the schedule alone decides.
ScheduledReward(e) == BlockReward

\* blockRewardAt: the scheduled reward, never more than what is left of the pool.
BlockRewardAt(e) == IF e >= EmissionPool THEN 0 ELSE LessOf(BlockReward, EmissionPool - e)

\* playRatesForWindow: what each player wagered in the hour, plus their stake.
PlayRates == {[u \in Miners |-> w[u] + staked[u]] : w \in [Miners -> 0..1]}

StartBlock(j) ==
  LET h == hour - 1 IN
  /\ jobs[j].at = "no" /\ h \in Hours /\ ~blocks[h].done
  /\ \E rate \in PlayRates :
       jobs' = [jobs EXCEPT ![j] = [at |-> "block", h |-> h, of |-> BlockRewardAt(emitted),
                                    rate |-> rate]]
  /\ UNCHANGED <<hour, blocks, divs, scad, staked, usds, auto, claim, emitted, moves>>

BlockShare(rate, pool) == [u \in Miners |-> (pool * rate[u]) \div SumOf(rate)]

\* Mutant: the row is not looked at again.
MineAgain(h) == TRUE

\* The upsert in the transaction meets a row that another run has settled.
Unmined(h) == ~blocks[h].done

\* Nothing to mint, or nobody to mint to: the row is written without a transaction.
MineNothing(j) ==
  LET h == jobs[j].h IN
  /\ jobs[j].at = "block" /\ (jobs[j].of = 0 \/ SumOf(jobs[j].rate) = 0)
  /\ blocks[h].done => "late_zero" \in RoundWindows
  /\ blocks' = [blocks EXCEPT ![h] = [done |-> TRUE, out |-> 0, of |-> 0]]
  /\ jobs' = [jobs EXCEPT ![j] = NoJob]
  /\ UNCHANGED <<hour, divs, scad, staked, usds, auto, claim, emitted, moves>>

\* Shares, the big reward of the drawn winner, the emission and the row.
MineBlock(j) ==
  LET h == jobs[j].h
      rate == jobs[j].rate
      big == (jobs[j].of * BigBps) \div 10000
      share == BlockShare(rate, jobs[j].of - big)
      minted == SumOf(share) + big IN
  /\ jobs[j].at = "block" /\ jobs[j].of > 0 /\ SumOf(rate) > 0 /\ Unmined(h)
  /\ \E winner \in {u \in Miners : rate[u] > 0} :
       scad' = [u \in Miners |-> scad[u] + share[u] + IF u = winner THEN big ELSE 0]
  /\ emitted' = emitted + minted
  /\ blocks' = [blocks EXCEPT ![h] = [done |-> TRUE, out |-> minted, of |-> jobs[j].of]]
  /\ jobs' = [jobs EXCEPT ![j] = NoJob]
  /\ UNCHANGED <<hour, divs, staked, usds, auto, claim, moves>>

-----------------------------------------------------------------------------
(* distribute. *)

\* Revenue of the hour, none or some, and the stakes as they are now.
StartDividend(j, pool) ==
  LET h == hour - 1 IN
  /\ jobs[j].at = "no" /\ h \in Hours /\ ~divs[h].done
  /\ jobs' = [jobs EXCEPT ![j] = [at |-> "div", h |-> h, of |-> pool, rate |-> staked]]
  /\ UNCHANGED <<hour, blocks, divs, scad, staked, usds, auto, claim, emitted, moves>>

PayNothing(j) ==
  LET h == jobs[j].h IN
  /\ jobs[j].at = "div" /\ (jobs[j].of = 0 \/ SumOf(jobs[j].rate) = 0)
  /\ divs[h].done => "late_zero" \in RoundWindows
  /\ divs' = [divs EXCEPT ![h] = [done |-> TRUE, out |-> 0, of |-> 0]]
  /\ jobs' = [jobs EXCEPT ![j] = NoJob]
  /\ UNCHANGED <<hour, blocks, scad, staked, usds, auto, claim, emitted, moves>>

\* Mutant: the row is not looked at again.
PayAgain(h) == TRUE

Undistributed(h) == ~divs[h].done

PayDividend(j) ==
  LET h == jobs[j].h
      share == BlockShare(jobs[j].rate, jobs[j].of) IN
  /\ jobs[j].at = "div" /\ jobs[j].of > 0 /\ SumOf(jobs[j].rate) > 0 /\ Undistributed(h)
  /\ usds' = [u \in Miners |-> usds[u] + share[u]]
  /\ divs' = [divs EXCEPT ![h] = [done |-> TRUE, out |-> SumOf(share), of |-> jobs[j].of]]
  /\ jobs' = [jobs EXCEPT ![j] = NoJob]
  /\ UNCHANGED <<hour, blocks, scad, staked, auto, claim, emitted, moves>>

\* Another run was first, or the process dies before the commit.
RunEnds(j) ==
  /\ jobs[j].at # "no"
  /\ jobs' = [jobs EXCEPT ![j] = NoJob]
  /\ UNCHANGED <<hour, blocks, divs, scad, staked, usds, auto, claim, emitted, moves>>

-----------------------------------------------------------------------------
(* Staking. *)

Count == moves < MaxMoves /\ moves' = moves + 1

\* move: the guarded debit of one balance and the credit of the other.
Move(u, n) ==
  /\ scad[u] >= n
  /\ scad' = [scad EXCEPT ![u] = @ - n]
  /\ staked' = [staked EXCEPT ![u] = @ + n]

Stake(u, n) ==
  /\ n >= MinStake /\ claim[u] = NoClaim /\ Count
  /\ Move(u, n)
  /\ UNCHANGED <<hour, blocks, divs, usds, auto, claim, emitted, jobs>>

\* claimAndStake and unstake read first ...
ReadClaim(u, k) ==
  LET n == IF k = "stake" THEN scad[u] ELSE staked[u] IN
  /\ claim[u] = NoClaim /\ n >= MinStake /\ Count
  /\ claim' = [claim EXCEPT ![u] = [kind |-> k, n |-> n]]
  /\ UNCHANGED <<hour, blocks, divs, scad, staked, usds, auto, emitted, jobs>>

\* Mutant: the amount was checked when it was read.
AsRead(have, n) == TRUE

\* The debit is guarded on the balance of the row.
Covers(have, n) == have >= n

\* ... and move what they read, or are refused because it is gone.
ClaimAndStake(u) ==
  /\ claim[u].kind = "stake"
  /\ claim' = [claim EXCEPT ![u] = NoClaim]
  /\ Move(u, claim[u].n) \/ UNCHANGED <<scad, staked>>
  /\ UNCHANGED <<hour, blocks, divs, usds, auto, emitted, jobs, moves>>

Unstake(u) ==
  LET n == claim[u].n IN
  /\ claim[u].kind = "unstake"
  /\ claim' = [claim EXCEPT ![u] = NoClaim]
  /\ \/ /\ Covers(staked[u], n)
        /\ staked' = [staked EXCEPT ![u] = @ - n]
        /\ scad' = [scad EXCEPT ![u] = @ + n]
     \/ UNCHANGED <<scad, staked>>
  /\ UNCHANGED <<hour, blocks, divs, usds, auto, emitted, jobs, moves>>

\* A second request of the same player unstakes everything meanwhile.
UnstakeAll(u) ==
  /\ claim[u] # NoClaim /\ staked[u] > 0
  /\ staked' = [staked EXCEPT ![u] = 0]
  /\ scad' = [scad EXCEPT ![u] = @ + staked[u]]
  /\ UNCHANGED <<hour, blocks, divs, usds, auto, claim, emitted, jobs, moves>>

SetAutoStake(u) ==
  /\ Count
  /\ auto' = IF u \in auto THEN auto \ {u} ELSE auto \cup {u}
  /\ UNCHANGED <<hour, blocks, divs, scad, staked, usds, claim, emitted, jobs>>

\* autoStakeSweep, SERIALIZABLE: everything there is.
AutoStakeSweep(u) ==
  /\ u \in auto /\ scad[u] >= MinStake
  /\ Move(u, scad[u])
  /\ UNCHANGED <<hour, blocks, divs, usds, auto, claim, emitted, jobs, moves>>

Next ==
  \/ Tick
  \/ \E j \in Jobs :
       \/ StartBlock(j) \/ MineNothing(j) \/ MineBlock(j)
       \/ \E pool \in {0, Dividend} : StartDividend(j, pool)
       \/ PayNothing(j) \/ PayDividend(j) \/ RunEnds(j)
  \/ \E u \in Miners :
       \/ Stake(u, MinStake) \/ ReadClaim(u, "stake") \/ ReadClaim(u, "unstake")
       \/ ClaimAndStake(u) \/ Unstake(u) \/ UnstakeAll(u)
       \/ SetAutoStake(u) \/ AutoStakeSweep(u)

Spec == Init /\ [][Next]_roundVars

-----------------------------------------------------------------------------
Out(rows) == SumOf([h \in Hours |-> rows[h].out])
Everything(f) == SumOf(f)

(* The $SCAD of the players is what they had and what the blocks record:   *)
(* no hour mints twice, no stake is counted twice or lost, whatever runs   *)
(* overlap and whatever moves between (mineBlock, move, unstake).          *)
ScadAccounted ==
  Everything(scad) + Everything(staked) = StartScad * Cardinality(Miners) + Out(blocks)

(* The emission never exceeds its pool and is the sum of the blocks        *)
(* (blockRewardAt, EmissionState).                                         *)
EmissionCapped == emitted = Out(blocks) /\ emitted <= EmissionPool

(* An hour's revenue is shared once and never beyond its pool, although    *)
(* the stakes move between the snapshot and the payment (distribute).      *)
DividendsWithinPool ==
  /\ Everything(usds) = Out(divs)
  /\ \A h \in Hours : divs[h].out <= divs[h].of
=============================================================================
