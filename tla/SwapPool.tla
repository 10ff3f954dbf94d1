------------------------------ MODULE SwapPool ------------------------------
(***************************************************************************)
(* The scadium_swap program, a constant-product SCAD/SOL pool, with the    *)
(* two pages that trade with it: a trader signs a swap for a quote of      *)
(* reserves read earlier, with the least output the slippage setting       *)
(* tolerates; liquidity is added and removed with no such floor.           *)
(***************************************************************************)
EXTENDS Naturals, FiniteSets, FiniteSetsExt

CONSTANTS
  Traders,
  StartScad, StartSol,   \* what a trader's wallet starts with
  FeeBps,                \* Pool.fee_bps
  SlipBps,               \* the slippage setting of the trade page
  Locked,                \* MINIMUM_LIQUIDITY
  Rent,                  \* lamports of the sol_vault account when it is created
  Amounts,               \* amounts a trader enters
  Percents,              \* percentages of the LP balance to remove
  MaxSwaps               \* bound: swaps

VARIABLES
  scad, sol,   \* the reserves: pool_scad.amount and the lamports of sol_vault
  lp,          \* the LP mint's supply
  purse,       \* each trader's SCAD, SOL and LP
  order,       \* the swap a trader is about to sign
  fill,        \* the last swap of a trader: quoted and received
  swaps

swapVars == <<scad, sol, lp, purse, order, fill, swaps>>
NoOrder == [quote |-> 0]
Bps == 10000

Init ==
  /\ scad = 0 /\ sol = Rent /\ lp = 0
  /\ purse = [u \in Traders |-> [scad |-> StartScad, sol |-> StartSol, lp |-> 0]]
  /\ order = [u \in Traders |-> NoOrder]
  /\ fill = [u \in Traders |-> [quote |-> 0, got |-> 0]]
  /\ swaps = 0

-----------------------------------------------------------------------------
(* The arithmetic of the program; all divisions floor.                     *)

CeilDiv(a, b) == (a + b - 1) \div b
Root(v) == CHOOSE r \in 0..v : r * r <= v /\ (r + 1) * (r + 1) > v

\* No dead shares.
SplitAll(s, l) == [locked |-> 0, out |-> Root(s * l)]

\* first_lp_split
FirstSplit(s, l) == [locked |-> Locked, out |-> Root(s * l) - Locked]

\* The fee is left out of the curve but paid to the trader.
OutFeeless(in, rIn, rOut) == (in * rOut) \div (rIn + (in * (Bps - FeeBps)) \div Bps)

\* cpmm_out
CpmmOut(in, rIn, rOut) ==
  LET net == (in * (Bps - FeeBps)) \div Bps IN (net * rOut) \div (rIn + net)

\* quoteSwap, the page's own copy of the formula
QuoteSwap(in, rIn, rOut) ==
  IF rIn = 0 \/ rOut = 0 THEN 0
  ELSE LET afterFee == (in * (Bps - FeeBps)) \div Bps
       IN (afterFee * rOut) \div (rIn + afterFee)

\* executeSwap's minOut
MinOut(expected) == (expected * (Bps - SlipBps)) \div Bps

-----------------------------------------------------------------------------
(* The instructions.                                                       *)

AddFirst(u, s, l) ==
  LET split == FirstSplit(s, l) IN
  /\ lp = 0
  /\ Root(s * l) > split.locked
  /\ purse[u].scad >= s /\ purse[u].sol >= l
  /\ scad' = scad + s /\ sol' = sol + l
  /\ lp' = split.locked + split.out
  /\ purse' = [purse EXCEPT ![u] = [scad |-> @.scad - s, sol |-> @.sol - l, lp |-> @.lp + split.out]]
  /\ UNCHANGED <<order, fill, swaps>>

\* The user pays the rounded-down share of the reserves.
NeedDown(shares, reserve) == (shares * reserve) \div lp

\* div_ceil: rounding is in the pool's favour.
Need(shares, reserve) == CeilDiv(shares * reserve, lp)

AddMore(u, s, l) ==
  LET out == Min({(s * lp) \div scad, (l * lp) \div sol})
      sIn == Need(out, scad)
      lIn == Need(out, sol)
  IN
  /\ lp > 0
  /\ out > 0
  /\ purse[u].scad >= sIn /\ purse[u].sol >= lIn
  /\ scad' = scad + sIn /\ sol' = sol + lIn /\ lp' = lp + out
  /\ purse' = [purse EXCEPT ![u] = [scad |-> @.scad - sIn, sol |-> @.sol - lIn, lp |-> @.lp + out]]
  /\ UNCHANGED <<order, fill, swaps>>

\* The runtime refuses a transaction that leaves the lamport vault below its rent.
RentLeft(out) == sol - out >= Rent

RemoveLiquidity(u, shares) ==
  /\ shares > 0
  /\ LET sOut == (shares * scad) \div lp
         lOut == (shares * sol) \div lp
     IN
     /\ RentLeft(lOut)
     /\ scad' = scad - sOut /\ sol' = sol - lOut /\ lp' = lp - shares
     /\ purse' = [purse EXCEPT ![u] = [scad |-> @.scad + sOut, sol |-> @.sol + lOut, lp |-> @.lp - shares]]
  /\ UNCHANGED <<order, fill, swaps>>

\* The share of a balance the pools page takes out for a percentage.
RemovedShares(held, pct) == (held * pct) \div 100

\* poolInfo, as the page fetched it last
PoolInfo == [scadReserve |-> scad, solReserve |-> sol]

\* The trade page: a quote against the reserves it last fetched.
Quote(u, buy, in) ==
  LET pool == PoolInfo
      expected == IF buy THEN QuoteSwap(in, pool.solReserve, pool.scadReserve)
                  ELSE QuoteSwap(in, pool.scadReserve, pool.solReserve)
  IN
  /\ order[u] = NoOrder /\ swaps < MaxSwaps
  /\ expected > 0
  /\ order' = [order EXCEPT ![u] =
                 [quote |-> expected, buy |-> buy, in |-> in, min |-> MinOut(expected)]]
  /\ UNCHANGED <<scad, sol, lp, purse, fill, swaps>>

\* min_amount_out is not looked at.
AnyOutput(out, min) == out > 0

\* require!(amount_out >= min_amount_out && amount_out > 0)
Acceptable(out, min) == out >= min /\ out > 0

\* swap, signed some time after the quote; a failed transaction changes nothing.
SwapIn(u) ==
  LET o == order[u]
      out == IF o.buy THEN CpmmOut(o.in, sol, scad) ELSE CpmmOut(o.in, scad, sol)
  IN
  /\ o # NoOrder
  /\ order' = [order EXCEPT ![u] = NoOrder]
  /\ swaps' = swaps + 1
  /\ IF Acceptable(out, o.min) /\ (IF o.buy THEN purse[u].sol >= o.in
                                   ELSE purse[u].scad >= o.in /\ RentLeft(out))
     THEN /\ scad' = IF o.buy THEN scad - out ELSE scad + o.in
          /\ sol' = IF o.buy THEN sol + o.in ELSE sol - out
          /\ purse' = [purse EXCEPT ![u] =
               IF o.buy THEN [@ EXCEPT !.sol = @ - o.in, !.scad = @ + out]
               ELSE [@ EXCEPT !.scad = @ - o.in, !.sol = @ + out]]
          /\ fill' = [fill EXCEPT ![u] = [quote |-> o.quote, got |-> out]]
     ELSE UNCHANGED <<scad, sol, purse, fill>>
  /\ UNCHANGED lp

Next ==
  \E u \in Traders :
    \/ \E s, l \in Amounts : AddFirst(u, s, l) \/ AddMore(u, s, l)
    \/ \E pct \in Percents : RemoveLiquidity(u, RemovedShares(purse[u].lp, pct))
    \/ \E buy \in BOOLEAN, in \in Amounts : Quote(u, buy, in)
    \/ SwapIn(u)

Spec == Init /\ [][Next]_swapVars

-----------------------------------------------------------------------------
SwapTypeOK ==
  /\ scad \in Nat /\ sol \in Nat /\ lp \in Nat /\ swaps \in 0..MaxSwaps + Cardinality(Traders)
  /\ \A u \in Traders : purse[u] \in [scad : Nat, sol : Nat, lp : Nat]

(* "All amount math floors toward the pool, so k can never decrease via    *)
(* rounding": what one LP share stands for, the geometric mean of the      *)
(* reserves per share, never falls, whoever adds, removes or swaps.        *)
ShareKept == lp > 0 /\ lp' > 0 => scad' * sol' * lp * lp >= scad * sol * lp' * lp'
ShareNeverDiluted == [][ShareKept]_swapVars

(* The dead shares of the first deposit stay in the supply for good, so    *)
(* the reserves a later deposit is divided by are never zero again.        *)
PoolNeverEmptied ==
  \/ scad = 0 /\ lp = 0
  \/ /\ lp = Locked + MapThenSumSet(LAMBDA u : purse[u].lp, Traders)
     /\ scad > 0 /\ sol > 0

(* A swap that goes through gives the trader what the page promised when   *)
(* it quoted, less the tolerated slippage, whatever traded in between.     *)
FilledWithinTolerance ==
  \A u \in Traders : fill[u].got * Bps + Bps > fill[u].quote * (Bps - SlipBps)
=============================================================================
