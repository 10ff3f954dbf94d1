---------------------------- MODULE MCPlatform -----------------------------
(***************************************************************************)
(* The platform around the games and the Solana programs it talks to, one  *)
(* instance of each part: reconciliation, the daily race, referrals,       *)
(* sessions, the term vault, and on chain the vault program with its       *)
(* cosigner, the share pools, the swap pool and the lottery. A behaviour   *)
(* runs one part (`part'); variables of the same name are shared and the   *)
(* others are `Off'.                                                       *)
(***************************************************************************)
EXTENDS Integers, Sequences, FiniteSets, TLC

CONSTANTS
  x1, x2, y1, y2,
  Players, StartFunds, Cap, SweepWindows, MaxMoves, MaxSweeps,
  Racers, Runs, Late,
  Referrer, Referees, SameIp, Stakes, Edge, Unit, Claims, MaxVolume,
  SessionRows, SignIns, Refreshes, MaxTokens, MaxNonces,
  Stakers, Pools, Slots, Lots, StartScad, Yields, Accruers, MaxHours, VaultWindows,
  Owners, Rent, Wallet, Bankroll, Treasury, Authority, Cosigner, Calls, Buffer,
  Ray, PenaltyBps, Depositors, Tokens, Yield, MinLiquidity, MaxDeposits, PoolRay,
  Traders, StartSol, SwapFee, SlipBps, Locked, Amounts, Percents, MaxSwaps,
  MaxSlot, Window, Hashes, Buyers, Sigs, Offset, Price, Divisor, LotteryFee,
  HouseInjection, SweepLimit,
  UserIds, Addresses, Dids, Nobody, Callers, AccountWindows, MaxRequests,
  Consumers, Cron, HourTicks, LockTtl, MaxNow, MaxRuns, MaxFaults

VARIABLES
  part,
  stored, rows, bets, direct, sweep, flagged, busy, moves,
  sweeps,
  volume, unsettled, result, credit,
  banned,
  funded,
  run,
  ref, paid, claim,
  nonce, issued, session, call, standing, minted, parent, overlapped, late, spill,
  pool, pos, locked, clock, slice, accrual,
  purse,
  settled,
  house, vault, bank, net, rentBy, record, chest, token,
  wallet,
  req,
  signer,
  term, stake, coffer, coins, reserve, halted, deposits,
  scad, sol, lp, order, fill, swaps,
  slot, hash, acct, treasury, burnt, injected, bought, payout, row, tix, confirm, settle,
  pays, due,
  privy, referrer, owner, proved, kept, asked,
  now, lock, todo, failed, attempted, swept, runs, faults

reconcileVars == <<stored, rows, bets, direct, sweep, flagged, busy, moves>>
raceVars == <<volume, unsettled, result, credit>>
referralsVars == <<ref, paid, claim>>
sessionsVars ==
  <<nonce, issued, session, call, standing, minted, parent, overlapped, late, spill>>
vaultVars == <<pool, pos, locked, clock, slice, accrual>>
sharesVars == <<term, stake, coffer, coins, reserve, halted, deposits>>
swapVars == <<scad, sol, lp, order, fill, swaps>>
lotteryVars ==
  <<slot, hash, acct, treasury, burnt, injected, bought, payout, row, tix, confirm, settle,
    pays, due>>
accountsVars == <<privy, referrer, owner, proved, kept, asked>>
jobsVars == <<now, lock, todo, failed, attempted, swept, runs, faults>>
vars ==
  <<part, reconcileVars, sweeps, raceVars, banned, funded, run, referralsVars,
    sessionsVars, vaultVars, purse, settled, house, vault, bank, net, rentBy, record,
    chest, token, wallet, req, signer, sharesVars, swapVars, lotteryVars, accountsVars,
    jobsVars>>

\* Two prizes for three racers, two of whom start level.
TwoPrizes == <<3, 2>>
Volumes == <<2, 1, 1>>

\* A job that takes a lock and one that takes none.
TwoJobs == <<"a", "b">>

\* Two commission tiers.
TierFrom == <<0, 8>>
TierRate == <<5, 8>>

\* One pool earns twice what the others do.
UnequalWeights == [q \in Pools |-> IF q = CHOOSE p \in Pools : TRUE THEN 2 ELSE 1]

\* A lost bet, a won one and one that returns part of its stake.
SmallWagers == {<<1, 0>>, <<1, 3>>, <<2, 1>>}
OneOfEach == {<<"cashback", 1>>, <<"dividend", 1>>}

\* Tickets of one line and of two.
DigitPicks == LET h == CHOOSE d \in Hashes : TRUE
                  g == CHOOSE d \in Hashes \ {h} : TRUE
              IN  {<<h>>, <<h, h>>, <<g, h>>}

Recon == INSTANCE Reconciliation WITH
  Users <- Players, Opening <- StartFunds
Race == INSTANCE DailyRace WITH
  Prizes <- TwoPrizes, StartVolume <- Volumes
Refer == INSTANCE Referrals WITH
  Thresholds <- TierFrom, Rates <- TierRate
Auth == INSTANCE Sessions WITH
  Rows <- SessionRows
Vaults == INSTANCE TermVault WITH
  Weight <- UnequalWeights
Program == INSTANCE VaultProgram WITH
  Wagers <- SmallWagers, ClaimKeys <- OneOfEach
Client == INSTANCE VaultProgram WITH
  Owners <- {x1}, Wagers <- SmallWagers, ClaimKeys <- OneOfEach, Treasury <- 1
Shares == INSTANCE PoolProgram WITH
  Ray <- PoolRay
Swap == INSTANCE SwapPool WITH
  FeeBps <- SwapFee
Chain == INSTANCE LotteryChain WITH
  Picks <- DigitPicks, FeeBps <- LotteryFee, MaxSweeps <- 1
Acct == INSTANCE Accounts WITH
  Ids <- UserIds, None <- Nobody
Jobs == INSTANCE JobRuns WITH
  JobOrder <- TwoJobs, Lockless <- {"b"}, None <- Nobody

Off == "off"
ReconcileOff ==
  /\ stored = Off /\ rows = Off /\ bets = Off /\ direct = Off /\ sweep = Off
  /\ flagged = Off /\ busy = Off /\ moves = Off
RaceOff == volume = Off /\ unsettled = Off /\ result = Off /\ credit = Off
ReferralsOff == ref = Off /\ paid = Off /\ claim = Off
SessionsOff ==
  /\ nonce = Off /\ issued = Off /\ session = Off /\ call = Off /\ standing = Off
  /\ minted = Off /\ parent = Off /\ overlapped = Off /\ late = Off /\ spill = Off
VaultOff == pool = Off /\ pos = Off /\ locked = Off /\ clock = Off /\ slice = Off /\ accrual = Off
ProgramClientOff ==
  /\ house = Off /\ vault = Off /\ bank = Off /\ net = Off /\ rentBy = Off /\ record = Off
  /\ chest = Off /\ token = Off
SharesOff ==
  /\ term = Off /\ stake = Off /\ coffer = Off /\ coins = Off /\ reserve = Off
  /\ halted = Off /\ deposits = Off
SwapOff == scad = Off /\ sol = Off /\ lp = Off /\ order = Off /\ fill = Off /\ swaps = Off
LotteryOff ==
  /\ slot = Off /\ hash = Off /\ acct = Off /\ treasury = Off /\ burnt = Off
  /\ injected = Off /\ bought = Off /\ payout = Off /\ row = Off /\ tix = Off
  /\ confirm = Off /\ settle = Off /\ pays = Off /\ due = Off
AccountsOff ==
  /\ privy = Off /\ referrer = Off /\ owner = Off /\ proved = Off /\ kept = Off
  /\ asked = Off
JobsOff ==
  /\ now = Off /\ lock = Off /\ todo = Off /\ failed = Off /\ attempted = Off
  /\ swept = Off /\ runs = Off /\ faults = Off

Init ==
  \/ /\ part = "reconcile" /\ Recon!Init /\ RaceOff /\ banned = Off /\ funded = Off
     /\ run = Off /\ ReferralsOff /\ SessionsOff /\ VaultOff /\ purse = Off
     /\ settled = Off /\ ProgramClientOff /\ wallet = Off /\ req = Off /\ signer = Off
     /\ SharesOff /\ SwapOff /\ LotteryOff /\ AccountsOff /\ JobsOff
  \/ /\ part = "race" /\ Race!Init /\ ReconcileOff /\ sweeps = Off /\ ReferralsOff
     /\ SessionsOff /\ VaultOff /\ purse = Off /\ settled = Off /\ ProgramClientOff
     /\ wallet = Off /\ req = Off /\ signer = Off /\ SharesOff /\ SwapOff /\ LotteryOff
     /\ AccountsOff /\ JobsOff
  \/ /\ part = "referrals" /\ Refer!Init /\ ReconcileOff /\ sweeps = Off /\ RaceOff
     /\ banned = Off /\ run = Off /\ SessionsOff /\ VaultOff /\ purse = Off
     /\ settled = Off /\ ProgramClientOff /\ wallet = Off /\ req = Off /\ signer = Off
     /\ SharesOff /\ SwapOff /\ LotteryOff /\ AccountsOff /\ JobsOff
  \/ /\ part = "sessions" /\ Auth!Init /\ ReconcileOff /\ sweeps = Off /\ RaceOff
     /\ banned = Off /\ funded = Off /\ run = Off /\ ReferralsOff /\ VaultOff
     /\ purse = Off /\ settled = Off /\ ProgramClientOff /\ wallet = Off /\ req = Off
     /\ signer = Off /\ SharesOff /\ SwapOff /\ LotteryOff /\ AccountsOff /\ JobsOff
  \/ /\ part = "vault" /\ Vaults!Init /\ ReconcileOff /\ sweeps = Off /\ RaceOff
     /\ banned = Off /\ funded = Off /\ run = Off /\ ReferralsOff /\ SessionsOff
     /\ ProgramClientOff /\ wallet = Off /\ req = Off /\ signer = Off /\ SharesOff
     /\ SwapOff /\ LotteryOff /\ AccountsOff /\ JobsOff
  \/ /\ part = "program" /\ Program!Init /\ ReconcileOff /\ sweeps = Off /\ RaceOff
     /\ banned = Off /\ funded = Off /\ run = Off /\ ReferralsOff /\ SessionsOff
     /\ VaultOff /\ purse = Off /\ settled = Off /\ req = Off /\ signer = Off /\ SharesOff
     /\ SwapOff /\ LotteryOff /\ AccountsOff /\ JobsOff
  \/ /\ part = "client" /\ Client!ClientInit /\ ReconcileOff /\ sweeps = Off /\ RaceOff
     /\ banned = Off /\ funded = Off /\ run = Off /\ ReferralsOff /\ SessionsOff
     /\ VaultOff /\ purse = Off /\ settled = Off /\ SharesOff /\ SwapOff /\ LotteryOff
     /\ AccountsOff /\ JobsOff
  \/ /\ part = "shares" /\ Shares!Init /\ ReconcileOff /\ sweeps = Off /\ RaceOff
     /\ banned = Off /\ funded = Off /\ run = Off /\ ReferralsOff /\ SessionsOff
     /\ VaultOff /\ purse = Off /\ settled = Off /\ ProgramClientOff /\ wallet = Off
     /\ req = Off /\ signer = Off /\ SwapOff /\ LotteryOff /\ AccountsOff /\ JobsOff
  \/ /\ part = "swap" /\ Swap!Init /\ ReconcileOff /\ sweeps = Off /\ RaceOff
     /\ banned = Off /\ funded = Off /\ run = Off /\ ReferralsOff /\ SessionsOff
     /\ VaultOff /\ settled = Off /\ ProgramClientOff /\ wallet = Off /\ req = Off
     /\ signer = Off /\ SharesOff /\ LotteryOff /\ AccountsOff /\ JobsOff
  \/ /\ part = "lottery" /\ Chain!Init /\ ReconcileOff /\ RaceOff /\ banned = Off
     /\ funded = Off /\ run = Off /\ ReferralsOff /\ SessionsOff /\ VaultOff
     /\ purse = Off /\ settled = Off /\ ProgramClientOff /\ req = Off /\ signer = Off
     /\ SharesOff /\ SwapOff /\ AccountsOff /\ JobsOff
  \/ /\ part = "accounts" /\ Acct!Init /\ ReconcileOff /\ sweeps = Off /\ RaceOff
     /\ funded = Off /\ run = Off /\ ReferralsOff /\ SessionsOff /\ VaultOff
     /\ purse = Off /\ settled = Off /\ ProgramClientOff /\ signer = Off /\ SharesOff
     /\ SwapOff /\ LotteryOff /\ JobsOff
  \/ /\ part = "jobs" /\ Jobs!JobsInit /\ ReconcileOff /\ sweeps = Off /\ RaceOff
     /\ banned = Off /\ funded = Off /\ ReferralsOff /\ SessionsOff /\ VaultOff
     /\ purse = Off /\ ProgramClientOff /\ wallet = Off /\ req = Off /\ signer = Off
     /\ SharesOff /\ SwapOff /\ LotteryOff /\ AccountsOff

Next ==
  \/ /\ part = "reconcile" /\ Recon!Next
     /\ UNCHANGED <<part, raceVars, banned, funded, run, referralsVars, sessionsVars, vaultVars,
          purse, settled, house, vault, bank, net, rentBy, record, chest, token, wallet,
          req, signer, sharesVars, swapVars, lotteryVars, accountsVars, jobsVars>>
  \/ /\ part = "race" /\ Race!Next
     /\ UNCHANGED <<part, reconcileVars, sweeps, referralsVars, sessionsVars, vaultVars, purse,
          settled, house, vault, bank, net, rentBy, record, chest, token, wallet, req,
          signer, sharesVars, swapVars, lotteryVars, accountsVars, jobsVars>>
  \/ /\ part = "referrals" /\ Refer!Next
     /\ UNCHANGED <<part, reconcileVars, sweeps, raceVars, banned, run, sessionsVars, vaultVars,
          purse, settled, house, vault, bank, net, rentBy, record, chest, token, wallet,
          req, signer, sharesVars, swapVars, lotteryVars, accountsVars, jobsVars>>
  \/ /\ part = "sessions" /\ Auth!Next
     /\ UNCHANGED <<part, reconcileVars, sweeps, raceVars, banned, funded, run, referralsVars,
          vaultVars, purse, settled, house, vault, bank, net, rentBy, record, chest, token,
          wallet, req, signer, sharesVars, swapVars, lotteryVars, accountsVars, jobsVars>>
  \/ /\ part = "vault" /\ Vaults!Next
     /\ UNCHANGED <<part, reconcileVars, sweeps, raceVars, banned, funded, run, referralsVars,
          sessionsVars, house, vault, bank, net, rentBy, record, chest, token, wallet, req,
          signer, sharesVars, swapVars, lotteryVars, accountsVars, jobsVars>>
  \/ /\ part = "program" /\ Program!Next
     /\ UNCHANGED <<part, reconcileVars, sweeps, raceVars, banned, funded, run, referralsVars,
          sessionsVars, vaultVars, purse, settled, req, signer, sharesVars, swapVars,
          lotteryVars, accountsVars, jobsVars>>
  \/ /\ part = "client" /\ Client!ClientNext
     /\ UNCHANGED <<part, reconcileVars, sweeps, raceVars, banned, funded, run, referralsVars,
          sessionsVars, vaultVars, purse, settled, sharesVars, swapVars, lotteryVars,
          accountsVars, jobsVars>>
  \/ /\ part = "shares" /\ Shares!Next
     /\ UNCHANGED <<part, reconcileVars, sweeps, raceVars, banned, funded, run, referralsVars,
          sessionsVars, vaultVars, purse, settled, house, vault, bank, net, rentBy, record,
          chest, token, wallet, req, signer, swapVars, lotteryVars, accountsVars, jobsVars>>
  \/ /\ part = "swap" /\ Swap!Next
     /\ UNCHANGED <<part, reconcileVars, sweeps, raceVars, banned, funded, run, referralsVars,
          sessionsVars, vaultVars, settled, house, vault, bank, net, rentBy, record, chest,
          token, wallet, req, signer, sharesVars, lotteryVars, accountsVars, jobsVars>>
  \/ /\ part = "lottery" /\ Chain!Next
     /\ UNCHANGED <<part, reconcileVars, raceVars, banned, funded, run, referralsVars, sessionsVars,
          vaultVars, purse, settled, house, vault, bank, net, rentBy, record, chest, token,
          req, signer, sharesVars, swapVars, accountsVars, jobsVars>>
  \/ /\ part = "accounts" /\ Acct!Next
     /\ UNCHANGED <<part, reconcileVars, sweeps, raceVars, funded, run, referralsVars, sessionsVars,
          vaultVars, purse, settled, house, vault, bank, net, rentBy, record, chest, token,
          signer, sharesVars, swapVars, lotteryVars, jobsVars>>
  \/ /\ part = "jobs" /\ Jobs!JobsNext
     /\ UNCHANGED <<part, reconcileVars, sweeps, raceVars, banned, funded, referralsVars,
          sessionsVars, vaultVars, purse, house, vault, bank, net, rentBy, record, chest,
          token, wallet, req, signer, sharesVars, swapVars, lotteryVars, accountsVars>>

Spec == Init /\ [][Next]_vars

\* The values of a set are interchangeable; the parts share model values, as no behaviour
\* runs two of them.
Alike == Permutations(Players) \cup Permutations(SignIns) \cup Permutations(Refreshes)

-----------------------------------------------------------------------------
(* Who may act as an account: a nonce signs in once; a replayed refresh    *)
(* token revokes the session; a refresh token is exchanged once; a self-   *)
(* excluded account has no working token (Sessions); a wallet signs in to  *)
(* the account that keeps it, and to no other; a sign-in reaches only an   *)
(* account that proved the wallet (Accounts).                              *)
AccountsGuarded ==
  /\ part = "sessions" =>
       /\ Auth!AuthTypeOK
       /\ Auth!SignInsWithinNonces
       /\ Auth!ReplayIsTheft
       /\ Auth!ExchangedOnce
       /\ Auth!ExclusionLocksAccount
  /\ part = "accounts" => Acct!AccountsTypeOK /\ Acct!WalletsKept /\ Acct!SignInsProved

(* What the platform gives away it gives once: a rank of a day's race is   *)
(* paid once; a run nobody disturbed leaves no winner unpaid (DailyRace);  *)
(* commission is paid once, whatever claims overlap; commission stays      *)
(* below what the house earned (Referrals); one run at most holds the lock *)
(* of its job; a job settles completed periods only; a sweep runs every    *)
(* job, the ones after a failure too (JobRuns).                            *)
PlatformPaysOnce ==
  /\ part = "reconcile" => Recon!TypeOK
  /\ part = "race" => Race!RaceTypeOK /\ Race!RacePaidOnce /\ Race!RerunHeals
  /\ part = "referrals" =>
       /\ Refer!ReferralsTypeOK
       /\ Refer!CommissionPaidOnce
       /\ Refer!CommissionWithinEdge
  /\ part = "jobs" =>
       /\ Jobs!JobsTypeOK
       /\ Jobs!OneHolder
       /\ Jobs!WholePeriodsOnly
       /\ Jobs!SweepTriesAll

(* Every pool and receipt is covered: the shares of a pool are worth no    *)
(* more than its assets; nothing but a revenue slice adds $SCAD to the     *)
(* vault; positions add up to the books kept beside them (TermVault); what *)
(* users and house hold is what the receipts say; no account the program   *)
(* pays from falls below its rent; a claim is paid once (VaultProgram); a  *)
(* reported signature moved the money; a payout that read the balance it   *)
(* is paid from leaves the reserve (VaultProgram); the pool's token        *)
(* account covers every share; the dead shares of the first deposit stay   *)
(* (PoolProgram).                                                          *)
SharesBacked ==
  /\ part = "vault" =>
       /\ Vaults!TypeOK
       /\ Vaults!PoolSolvent
       /\ Vaults!ScadFromSlicesOnly
       /\ Vaults!PositionsMatchBooks
  /\ part = "program" =>
       /\ Program!TypeOK
       /\ Program!ReceiptsHonest
       /\ Program!RentKept
       /\ Program!RecordsExplainPayouts
  /\ part = "client" =>
       /\ Client!ClientTypeOK
       /\ Client!ReportedMeansMoved
       /\ Client!ReserveKeptAlone
  /\ part = "shares" => Shares!TypeOK /\ Shares!PoolBacked /\ Shares!MinimumStaysLocked

(* The swap and the lottery on chain: the dead shares keep the reserves    *)
(* above zero; a swap gives what the page promised, less the slippage      *)
(* (SwapPool); every ticket row is backed by a purchase of its own; no     *)
(* ticket is sold once the digits are known; a ticket marked paid was      *)
(* paid; a prize is paid once (LotteryChain).                              *)
MarketsKeepTheirWord ==
  /\ part = "swap" => Swap!SwapTypeOK /\ Swap!PoolNeverEmptied /\ Swap!FilledWithinTolerance
  /\ part = "lottery" =>
       /\ Chain!LotteryTypeOK
       /\ Chain!RowsBackedByPurchases
       /\ Chain!SalesEndAtReveal
       /\ Chain!MarkedMeansPaid
       /\ Chain!PrizePaidOnce

(* What no step of the platform does or leaves undone: a flagged column    *)
(* was written past the ledger, or while the sweep ran (Reconciliation); a *)
(* write past the ledger is flagged (Reconciliation); no prize reaches an  *)
(* account that has deposited (DailyRace); a token that stopped working    *)
(* never works again (Sessions); a self-excluded account gets no new token *)
(* (Sessions); nobody is charged but on the right signature                *)
(* (VaultProgram); nor in the pools (PoolProgram); no swap, deposit or     *)
(* withdrawal dilutes an LP share (SwapPool).                              *)
PlatformStepsHeld ==
  /\ part = "reconcile" => Recon!FlagsExplained
  /\ part = "reconcile" => Recon!SweepFindsAll
  /\ part = "race" => Race!NoneToFunded
  /\ part = "sessions" => Auth!NoneRevived
  /\ part = "sessions" => Auth!NoneForExcluded
  /\ part = "program" => Program!SignedFor
  /\ part = "shares" => Shares!OwnersSign
  /\ part = "swap" => Swap!ShareKept
PlatformSteps == [][PlatformStepsHeld]_vars
=============================================================================
