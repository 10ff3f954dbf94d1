---------------------------- MODULE PlayerAccount ----------------------------
(***************************************************************************)
(* The part of the User row that the games share: the balance, which only  *)
(* applyBalanceDelta moves (apps/api/src/prisma/apply-balance-delta.ts),   *)
(* and the lifetime totals that every settlement bumps in the transaction  *)
(* that pays it (apps/api/src/games/instant/instant-settle.ts).            *)
(***************************************************************************)
EXTENDS Integers

CONSTANTS
  Users,
  Funds    \* balance of an account at the start

ASSUME FundsAssumption == Funds \in Nat

VARIABLES
  bal,      \* playBalanceLamports
  totalWon, totalLost

accountVars == <<bal, totalWon, totalLost>>

AccountTypeOK ==
  /\ bal \in [Users -> Nat]
  /\ totalWon \in [Users -> Nat] /\ totalLost \in [Users -> Nat]

AccountInit ==
  /\ bal = [u \in Users |-> Funds]
  /\ totalWon = [u \in Users |-> 0] /\ totalLost = [u \in Users |-> 0]

\* Mutant: the debit does not require the balance to cover it.
UncheckedDebit(u, n) == TRUE

\* A debit is one UPDATE ... WHERE balance >= n; with no row updated it throws.
CanDebit(u, n) == bal[u] >= n

Profit(n) == IF n > 0 THEN n ELSE 0

\* Pay out a settled wager and count its net result.
Tally(u, payout, stake) ==
  /\ totalWon' = [totalWon EXCEPT ![u] = @ + Profit(payout - stake)]
  /\ totalLost' = [totalLost EXCEPT ![u] = @ + Profit(stake - payout)]
=============================================================================
