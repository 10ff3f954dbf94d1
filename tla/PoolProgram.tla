----------------------------- MODULE PoolProgram -----------------------------
(***************************************************************************)
(* The term pools of the scadium_vault program: vault_deposit,             *)
(* vault_withdraw and vault_accrue over one pool, with the SPL accounts    *)
(* they move tokens between.  The first deposit locks MinLiquidity shares  *)
(* in the pool for good.                                                   *)
(***************************************************************************)
EXTENDS Integers, FiniteSets, FiniteSetsExt

CONSTANTS
  Ray,            \* RAY, the scale of the share price
  PenaltyBps,     \* EARLY_EXIT_PENALTY_BPS
  Depositors,     \* users
  Tokens,         \* SCAD of each user
  Yield,          \* SCAD in the house treasury
  MinLiquidity,   \* MINIMUM_LIQUIDITY
  MaxDeposits,    \* bound: deposits
  Authority, Cosigner    \* the keys in the House

VARIABLES
  term,      \* the VaultPool account: made, shares, assets, index
  stake,     \* the UserVaultPosition accounts: shares, principal, ripe
  coffer,    \* tokens in the pool's token account
  coins,     \* tokens of the users
  reserve,   \* tokens in the treasury
  halted,    \* House.paused
  deposits   \* deposits so far

poolVars == <<term, stake, coffer, coins, reserve, halted, deposits>>

Init ==
  /\ term = [made |-> FALSE, shares |-> 0, assets |-> 0, index |-> 0]
  /\ stake = [u \in Depositors |-> [shares |-> 0, principal |-> 0, ripe |-> FALSE]]
  /\ coffer = 0 /\ coins = [u \in Depositors |-> Tokens] /\ reserve = Yield
  /\ halted = FALSE /\ deposits = 0

-----------------------------------------------------------------------------
(* The program's own copy of the share formulas, in u128. *)

SharesForDeposit(assets, index) == IF index = 0 THEN 0 ELSE (assets * Ray) \div index

\* Rounds in the withdrawer's favour.
AssetsRoundedUp(shares, index) == (shares * index + Ray - 1) \div Ray

AssetsForShares(shares, index) == (shares * index) \div Ray

ApplyAccrual(index, totalShares, yield) ==
  IF totalShares = 0 THEN index ELSE index + (yield * Ray) \div totalShares

EarlyExitPenalty(assets) == (assets * PenaltyBps) \div 10000

-----------------------------------------------------------------------------
Signers == Depositors \cup {Authority, Cosigner}

\* What the accounts of each instruction ask of its signer; the position is the
\* one derived from the user's key.
InitVaultPoolAccounts(by) == by = Authority /\ ~term.made
VaultDepositAccounts(by, u) == by = u /\ term.made

\* The position's owner need not sign.
AnyPosition(by, u) == stake[u].shares > 0
VaultWithdrawAccounts(by, u) == by = u /\ stake[u].shares > 0
VaultAccrueAccounts(by) == by = Cosigner /\ term.made

InitVaultPool(by) ==
  /\ InitVaultPoolAccounts(by)
  /\ term' = [made |-> TRUE, shares |-> 0, assets |-> 0, index |-> Ray]
  /\ UNCHANGED <<stake, coffer, coins, reserve, halted, deposits>>

SetPaused(by) == by = Authority /\ halted' = ~halted /\ UNCHANGED <<term, stake, coffer, coins, reserve, deposits>>

\* Every share goes to the depositor.
AllMinted(shares) == shares

\* What the depositor gets of the shares the pool banks.
Minted(shares) == IF term.shares = 0 THEN shares - MinLiquidity ELSE shares

VaultDeposit(by, u, amount) ==
  LET shares == SharesForDeposit(amount, term.index) IN
  /\ VaultDepositAccounts(by, u) /\ deposits < MaxDeposits
  /\ shares > 0 /\ (term.shares = 0 => shares > MinLiquidity)
  /\ coins[u] >= amount
  /\ coins' = [coins EXCEPT ![u] = @ - amount] /\ coffer' = coffer + amount
  /\ term' = [term EXCEPT !.shares = @ + shares, !.assets = @ + amount]
  /\ stake' = [stake EXCEPT ![u] = [shares |-> @.shares + Minted(shares),
                                    principal |-> @.principal + amount, ripe |-> FALSE]]
  /\ deposits' = deposits + 1
  /\ UNCHANGED <<reserve, halted>>

\* matures_at passes.
Mature(u) ==
  /\ ~stake[u].ripe /\ stake[u].shares > 0
  /\ stake' = [stake EXCEPT ![u].ripe = TRUE]
  /\ UNCHANGED <<term, coffer, coins, reserve, halted, deposits>>

PrincipalPortion(p, shares) ==
  IF shares = p.shares THEN p.principal ELSE (p.principal * shares) \div p.shares

\* The whole gross leaves the pool, the penalty too.
NetGross(gross, penalty) == gross

Net(gross, penalty) == gross - penalty

VaultWithdraw(by, u, shares) ==
  LET p == stake[u]
      gross == AssetsForShares(shares, term.index)
      penalty == IF p.ripe THEN 0 ELSE EarlyExitPenalty(gross)
      net == Net(gross, penalty)
      left == term.shares - shares
  IN
  /\ VaultWithdrawAccounts(by, u) /\ shares \in 1..p.shares /\ coffer >= net
  /\ term' = [term EXCEPT !.index = ApplyAccrual(@, left, penalty), !.shares = left,
                          !.assets = Max({@ - net, 0})]
  /\ stake' = [stake EXCEPT ![u].shares = @ - shares,
                            ![u].principal = @ - PrincipalPortion(p, shares)]
  /\ coffer' = coffer - net /\ coins' = [coins EXCEPT ![u] = @ + net]
  /\ UNCHANGED <<reserve, halted, deposits>>

VaultAccrue(by, amount) ==
  /\ VaultAccrueAccounts(by) /\ ~halted /\ term.shares > 0 /\ reserve >= amount
  /\ reserve' = reserve - amount /\ coffer' = coffer + amount
  /\ term' = [term EXCEPT !.index = ApplyAccrual(@, term.shares, amount), !.assets = @ + amount]
  /\ UNCHANGED <<stake, coins, halted, deposits>>

\* What a key can do by signing.
Instruction(by) ==
  \/ InitVaultPool(by) \/ SetPaused(by)
  \/ \E u \in Depositors :
       \/ \E amount \in 1..Tokens : VaultDeposit(by, u, amount)
       \/ \E shares \in 1..stake[u].shares : VaultWithdraw(by, u, shares)
  \/ \E amount \in 1..Yield : VaultAccrue(by, amount)

Next ==
  \/ \E by \in Signers : Instruction(by)
  \/ \E u \in Depositors : Mature(u)

Spec == Init /\ [][Next]_poolVars

-----------------------------------------------------------------------------
TypeOK ==
  /\ term.made \in BOOLEAN /\ {term.shares, term.assets, term.index} \subseteq Nat
  /\ \A u \in Depositors : {stake[u].shares, stake[u].principal} \subseteq Nat
  /\ coffer \in Nat /\ coins \in [Depositors -> Nat] /\ reserve \in 0..Yield

(* Every share of the pool can be redeemed from the tokens it holds        *)
(* (vault_withdraw's transfer never lacks funds, and its saturating_sub    *)
(* never saturates): the account holds total_assets, which covers the      *)
(* value of all shares, the locked ones too.                               *)
PoolBacked == term.made => coffer = term.assets /\ term.shares * term.index <= coffer * Ray

(* The first-depositor guard: once someone has deposited, the shares no    *)
(* position holds are MINIMUM_LIQUIDITY, whatever was withdrawn since, so  *)
(* the pool never becomes empty and never takes a first deposit again.     *)
MinimumStaysLocked ==
  term.shares - MapThenSumSet(LAMBDA u : stake[u].shares, Depositors)
    = IF deposits = 0 THEN 0 ELSE MinLiquidity

(* A depositor's tokens and shares leave the account only on the           *)
(* depositor's signature, and the treasury pays yield only on the          *)
(* cosigner's (the Signer and seeds constraints of the contexts).          *)
OwnersSign ==
  \A by \in Signers :
    \/ \E u \in Depositors : (coins'[u] < coins[u] \/ stake'[u].shares < stake[u].shares) /\ by # u
    \/ reserve' < reserve /\ by # Cosigner
    => ~Instruction(by)

(* As a property of every step.                                            *)
EveryPoolStepSigned == [][OwnersSign]_poolVars
=============================================================================
