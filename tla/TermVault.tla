------------------------------ MODULE TermVault ------------------------------
(***************************************************************************)
(* The SCAD Vault off chain: term positions (VaultService) and the hourly  *)
(* accrual of a slice of the house's revenue (VaultAccrualService).        *)
(*                                                                         *)
(* A deposit and a withdrawal are serializable transactions, one step      *)
(* each.  The accrual reads the pools first and writes absolute indexes in *)
(* a later READ COMMITTED transaction: Read and Settle.                    *)
(***************************************************************************)
EXTENDS Integers, FiniteSets, FiniteSetsExt

CONSTANTS
  Ray,          \* fixed-point scale of the index; an empty pool has index Ray
  PenaltyBps,   \* early-exit penalty, in basis points
  Stakers,      \* players
  Pools,        \* VaultPool rows
  Weight,       \* weightBps of a pool
  Slots,        \* bound: positions ever opened
  Lots,         \* the amounts players deposit
  StartScad,    \* spendable SCAD a player starts with
  Yields,       \* vault slice of an hour's revenue; 0 below MIN_ACCRUAL
  Accruers,     \* runs of the accrual job that may overlap
  MaxHours,     \* bound: hours
  VaultWindows  \* {"stale_index"} when pools may change between Read and Settle

VARIABLES
  pool,      \* VaultPool: shares, assets, index
  pos,       \* VaultPosition rows
  purse,     \* User.scadBalance
  locked,    \* User.scadVaultBalance, the principal aggregate
  clock,     \* hours ended
  slice,     \* what the revenue of each ended hour yields
  settled,   \* VaultAccrualRound rows with distributed
  accrual    \* the RAM of every run of accrue()

termVars == <<pool, pos, purse, locked, clock, slice, settled, accrual>>

Free == [pool |-> "none"]
Closed == [pool |-> "closed"]   \* the row is deleted
IdleRun == [at |-> "idle"]
Taken == {s \in Slots : pos[s] \notin {Free, Closed}}
Fresh == [shares |-> 0, assets |-> 0, index |-> Ray]

Init ==
  /\ pool = [q \in Pools |-> Fresh]
  /\ pos = [s \in Slots |-> Free]
  /\ purse = [u \in Stakers |-> StartScad]
  /\ locked = [u \in Stakers |-> 0]
  /\ clock = 0
  /\ slice = [h \in 1..MaxHours |-> 0]
  /\ settled = {}
  /\ accrual = [j \in Accruers |-> IdleRun]

-----------------------------------------------------------------------------
(* The formulas of @scadium/shared: a share is worth index / Ray assets,   *)
(* and every division rounds down.                                         *)

\* Shares minted for a deposit: off by one up, the deposit is worth more than it paid.
SharesRoundedUp(assets, index) == (assets * Ray) \div index + 1

SharesForDeposit(assets, index) == (assets * Ray) \div index

AssetsForShares(shares, index) == (shares * index) \div Ray

ApplyAccrual(index, totalShares, yield) ==
  IF totalShares = 0 THEN index ELSE index + (yield * Ray) \div totalShares

EarlyExitPenalty(assets) == (assets * PenaltyBps) \div 10000

-----------------------------------------------------------------------------
(* VaultService. *)

\* The debit is unconditional.
CoversAny(u, amount) == TRUE

\* applyBalanceDelta's guarded debit of scadBalance
Covers(u, amount) == purse[u] >= amount

Deposit(u, q, s, amount) ==
  LET minted == SharesForDeposit(amount, pool[q].index) IN
  /\ pos[s] = Free /\ minted > 0 /\ Covers(u, amount)
  /\ purse' = [purse EXCEPT ![u] = @ - amount]
  /\ locked' = [locked EXCEPT ![u] = @ + amount]
  /\ pool' = [pool EXCEPT ![q].assets = @ + amount, ![q].shares = @ + minted]
  /\ pos' = [pos EXCEPT ![s] = [pool |-> q, owner |-> u, shares |-> minted,
                                principal |-> amount, ripe |-> FALSE]]
  /\ UNCHANGED <<clock, slice, settled, accrual>>

PrincipalPortion(p, burn) ==
  IF burn = p.shares THEN p.principal ELSE (p.principal * burn) \div p.shares

\* A partial withdrawal leaves the position's principal as it was.
PrincipalUntouched(p, out) == p.principal

PrincipalLeft(p, out) == p.principal - out

\* The pool after `burn' shares left it with `net', the penalty staying behind.
PoolAfter(q, burn, net, penalty) ==
  LET left == q.shares - burn IN
  IF left = 0 THEN Fresh
  ELSE [shares |-> left, assets |-> q.assets - net,
        index |-> ApplyAccrual(q.index, left, penalty)]

Withdraw(s, burn) ==
  LET p == pos[s]
      gross == AssetsForShares(burn, pool[p.pool].index)
      penalty == IF p.ripe THEN 0 ELSE EarlyExitPenalty(gross)
      out == PrincipalPortion(p, burn)
  IN
  /\ s \in Taken /\ burn \in 1..p.shares
  /\ locked[p.owner] >= out
  /\ locked' = [locked EXCEPT ![p.owner] = @ - out]
  /\ purse' = [purse EXCEPT ![p.owner] = @ + gross - penalty]
  /\ pool' = [pool EXCEPT ![p.pool] = PoolAfter(@, burn, gross - penalty, penalty)]
  /\ pos' = [pos EXCEPT ![s] = IF burn = p.shares THEN Closed
                               ELSE [@ EXCEPT !.shares = @ - burn, !.principal = PrincipalLeft(p, out)]]
  /\ UNCHANGED <<clock, slice, settled, accrual>>

\* maturesAt passes.
Ripen(s) ==
  /\ s \in Taken /\ ~pos[s].ripe
  /\ pos' = [pos EXCEPT ![s].ripe = TRUE]
  /\ UNCHANGED <<pool, purse, locked, clock, slice, settled, accrual>>

\* An hour ends; its bets decide what its accrual has to give.
HourEnds ==
  /\ clock < MaxHours
  /\ clock' = clock + 1
  /\ \E y \in Yields : slice' = [slice EXCEPT ![clock + 1] = y]
  /\ UNCHANGED <<pool, pos, purse, locked, settled, accrual>>

-----------------------------------------------------------------------------
(* VaultAccrualService. *)

\* What every eligible pool gets of `total', by weight and stake.
Portions(seen, total) ==
  LET eligible == {q \in Pools : seen[q].shares > 0}
      sum == MapThenSumSet(LAMBDA q : Weight[q] * seen[q].shares, eligible)
  IN  [q \in eligible |-> (total * Weight[q] * seen[q].shares) \div sum]

\* The first half of accrue(): the round is open, the revenue and the pools are read.
Read(j) ==
  /\ accrual[j].at = "idle" /\ clock > 0 /\ clock \notin settled
  /\ accrual' = [accrual EXCEPT ![j] = [at |-> "settle", hour |-> clock, seen |-> pool]]
  /\ UNCHANGED <<pool, pos, purse, locked, clock, slice, settled>>

\* The flag is not looked at again inside the transaction.
AccrueAgain(h) == TRUE

NotDistributed(h) == h \notin settled

\* The round is settled with nothing to give.
SettleZero(j) ==
  /\ accrual[j].at = "settle"
  /\ slice[accrual[j].hour] = 0 \/ \A q \in Pools : accrual[j].seen[q].shares = 0
  /\ settled' = settled \cup {accrual[j].hour}
  /\ accrual' = [accrual EXCEPT ![j] = IdleRun]
  /\ UNCHANGED <<pool, pos, purse, locked, clock, slice>>

\* The transaction: every index is computed from the pool as read.
Settle(j) ==
  LET run == accrual[j]
      due == Portions(run.seen, slice[run.hour])
  IN
  /\ run.at = "settle"
  /\ slice[run.hour] > 0 /\ DOMAIN due # {}
  /\ run.seen = pool \/ "stale_index" \in VaultWindows \/ run.hour \in settled
  /\ IF NotDistributed(run.hour)
     THEN /\ pool' = [q \in Pools |->
                IF q \in DOMAIN due /\ due[q] > 0
                THEN [pool[q] EXCEPT
                        !.index = ApplyAccrual(run.seen[q].index, run.seen[q].shares, due[q]),
                        !.assets = @ + due[q]]
                ELSE pool[q]]
          /\ settled' = settled \cup {run.hour}
     ELSE UNCHANGED <<pool, settled>>
  /\ accrual' = [accrual EXCEPT ![j] = IdleRun]
  /\ UNCHANGED <<pos, purse, locked, clock, slice>>

\* A run that dies; without its window also one whose pools moved under it.
RunDies(j) ==
  /\ accrual[j].at = "settle"
  /\ accrual' = [accrual EXCEPT ![j] = IdleRun]
  /\ UNCHANGED <<pool, pos, purse, locked, clock, slice, settled>>

Next ==
  \/ \E u \in Stakers, q \in Pools, s \in Slots, a \in Lots : Deposit(u, q, s, a)
  \/ \E s \in Slots : \E burn \in 1..(IF s \in Taken THEN pos[s].shares ELSE 0) : Withdraw(s, burn)
  \/ \E s \in Slots : Ripen(s)
  \/ HourEnds
  \/ \E j \in Accruers : Read(j) \/ SettleZero(j) \/ Settle(j) \/ RunDies(j)

Spec == Init /\ [][Next]_termVars

-----------------------------------------------------------------------------
TypeOK ==
  /\ pool \in [Pools -> [shares : Nat, assets : Nat, index : Nat \ {0}]]
  /\ \A s \in Taken : /\ pos[s].pool \in Pools /\ pos[s].owner \in Stakers
                      /\ pos[s].shares \in Nat \ {0} /\ pos[s].principal \in Nat
                      /\ pos[s].ripe \in BOOLEAN
  /\ purse \in [Stakers -> Nat] /\ locked \in [Stakers -> Nat]
  /\ clock \in 0..MaxHours /\ settled \subseteq 1..clock
  /\ \A j \in Accruers : accrual[j].at \in {"idle", "settle"}

(* Every pool can redeem every share at its index: whatever was deposited, *)
(* withdrawn early or late, partly or whole, and accrued, the value of the *)
(* shares outstanding never exceeds the assets of the pool (deposit,       *)
(* withdraw, accrue of apps/api/src/vault).                                *)
PoolSolvent == \A q \in Pools : pool[q].shares * pool[q].index <= pool[q].assets * Ray

(* No SCAD is made: all spendable and pooled SCAD is what players started  *)
(* with and the slices of the hours settled, each counted once.            *)
ScadFromSlicesOnly ==
  MapThenSumSet(LAMBDA u : purse[u], Stakers)
    + MapThenSumSet(LAMBDA q : pool[q].assets, Pools)
  <= StartScad * Cardinality(Stakers) + MapThenSumSet(LAMBDA h : slice[h], settled)

\* vaultLedgerDrift: the pools and players whose books are not those of their positions.
VaultLedgerDrift ==
  {q \in Pools : pool[q].shares #
     MapThenSumSet(LAMBDA s : pos[s].shares, {s \in Taken : pos[s].pool = q})}
  \cup
  {u \in Stakers : locked[u] #
     MapThenSumSet(LAMBDA s : pos[s].principal, {s \in Taken : pos[s].owner = u})}

(* The books agree: a pool's shares are its positions' shares and a        *)
(* player's scad_vault balance is the principal of the player's positions, *)
(* so that the guarded debit of a withdrawal never refuses, and the sweep  *)
(* that looks for the drift of these books never finds any.                *)
PositionsMatchBooks == VaultLedgerDrift = {}
=============================================================================
