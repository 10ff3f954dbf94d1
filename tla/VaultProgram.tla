---------------------------- MODULE VaultProgram ----------------------------
(***************************************************************************)
(* The scadium_vault program: users' SOL vaults, the settlement of bets    *)
(* against the house vault, and the reward and dividend claims.  An        *)
(* instruction runs alone and reverts as a whole, so each is one step, in  *)
(* any order its signers send them.  The term pools of the same program    *)
(* are in PoolProgram.  Then ChainService as its client: it checks the     *)
(* reserve, signs with the cosigner, sends, and reports a settlement only  *)
(* after reading back that the lamports moved.  The cosigner's key can be  *)
(* rotated at any time, and an answer that is lost reads as null.          *)
(***************************************************************************)
EXTENDS Integers, FiniteSets, FiniteSetsExt

CONSTANTS
  Owners,      \* wallets
  Rent,        \* lamports an account keeps to stay rent-exempt
  Wallet,      \* lamports a wallet starts with
  Bankroll,    \* lamports put into the house vault above its rent
  Wagers,      \* <<stake, payout>> pairs the cosigner settles
  ClaimKeys,   \* <<kind, period>> pairs the cosigner pays
  Treasury,    \* tokens in each of the two treasury accounts
  Authority, Cosigner,   \* the keys init_house stored in the House
  Calls,       \* settleBet, recordBet, claimReward and claimDividend calls of the API
  Buffer       \* MIN_BANKROLL_BUFFER_LAMPORTS

VARIABLES
  house,     \* the House account: "none", "live" or "paused"
  wallet,    \* lamports of the users
  vault,     \* lamports of the UserVault accounts; 0 where there is none
  bank,      \* lamports of the house vault
  net,       \* the sum of payout - stake over the BetSettled events of a user
  rentBy,    \* lamports the cosigner paid for a user's vault
  record,    \* the ClaimRecord accounts: user, key |-> amount
  chest,     \* tokens left in the two treasuries
  token,     \* tokens of the users' associated accounts
  req,       \* the calls
  signer     \* whether the cosigner's key is loaded

programVars == <<house, wallet, vault, bank, net, rentBy, record, chest, token>>
moneyVars == <<wallet, vault, bank, net, rentBy>>
claimVars == <<record, chest, token>>
Mints == {"scad", "usds"}
MintOf(key) == IF key[1] = "dividend" THEN "usds" ELSE "scad"
Nothing == [x \in {} |-> 0]
Keys == Owners \cup {Authority, Cosigner}

Init ==
  /\ house = "none"
  /\ wallet = [u \in Owners |-> Wallet] /\ vault = [u \in Owners |-> 0]
  /\ bank = 0 /\ net = [u \in Owners |-> 0] /\ rentBy = [u \in Owners |-> 0]
  /\ record = Nothing /\ chest = [m \in Mints |-> Treasury]
  /\ token = [u \in Owners |-> [m \in Mints |-> 0]]

Live == house = "live"

-----------------------------------------------------------------------------
(* What the accounts of an instruction ask of its signer: a vault is the   *)
(* one derived from the key of its user, and the handlers of the cosigner  *)
(* compare its key with the one in the House.                              *)

\* The authority is whoever was first.
InitHouseAccounts(by) == by = Authority /\ house = "none"

AdminOnly(by) == by = Authority /\ house # "none"

DepositAccounts(by, u) == by = u

\* Any account may be passed as the user.
UnsignedUser(by, u) == vault[u] > 0

WithdrawAccounts(by, u) == by = u /\ vault[u] > 0

\* Any signer will do.
AnyCosigner(by) == TRUE

SettleBetAccounts(by) == by = Cosigner

RecordBetAccounts(by) == by = Cosigner

-----------------------------------------------------------------------------
\* init_house creates the House and the house vault; the bankroll follows.
InitHouse(by) ==
  /\ InitHouseAccounts(by)
  /\ house' = "live" /\ bank' = Rent + Bankroll
  /\ UNCHANGED <<wallet, vault, net, rentBy, claimVars>>

SetPaused(by) ==
  /\ AdminOnly(by)
  /\ house' = IF Live THEN "paused" ELSE "live"
  /\ UNCHANGED <<moneyVars, claimVars>>

\* What creating the vault on first touch costs (init_if_needed).
Opening(u) == IF vault[u] = 0 THEN Rent ELSE 0

\* The whole balance, the rent included.
AllOf(lamports) == lamports

\* lamports.saturating_sub(rent_min)
Spendable(lamports) == Max({lamports - Rent, 0})

Deposit(by, u, amount) ==
  /\ DepositAccounts(by, u)
  /\ wallet[u] >= amount + Opening(u)
  /\ wallet' = [wallet EXCEPT ![u] = @ - amount - Opening(u)]
  /\ vault' = [vault EXCEPT ![u] = @ + amount + Opening(u)]
  /\ UNCHANGED <<house, bank, net, rentBy, claimVars>>

\* Also while the house is paused: the owner's signature is all it takes.
Withdraw(by, u, amount) ==
  /\ WithdrawAccounts(by, u) /\ amount <= Spendable(vault[u])
  /\ vault' = [vault EXCEPT ![u] = @ - amount]
  /\ wallet' = [wallet EXCEPT ![u] = @ + amount]
  /\ UNCHANGED <<house, bank, net, rentBy, claimVars>>

\* A loss is taken as far as the vault goes, and the receipt says all of it.
LossClamped(u, loss) == Min({loss, Spendable(vault[u] + Opening(u))})

LossTaken(u, loss) == loss

SettleBet(by, u, stake, payout) ==
  LET opened == vault[u] + Opening(u)
      gain == payout - stake
      loss == LossTaken(u, stake - payout)
  IN
  /\ Live /\ SettleBetAccounts(by)
  /\ IF payout >= stake
     THEN /\ gain > 0 => Spendable(bank) >= gain
          /\ bank' = bank - gain
          /\ vault' = [vault EXCEPT ![u] = opened + gain]
     ELSE /\ Spendable(opened) >= loss
          /\ bank' = bank + loss
          /\ vault' = [vault EXCEPT ![u] = opened - loss]
  /\ rentBy' = [rentBy EXCEPT ![u] = @ + Opening(u)]
  /\ net' = [net EXCEPT ![u] = @ + gain]
  /\ UNCHANGED <<house, wallet, claimVars>>

\* A play-money receipt: an event and nothing else.
RecordBet(by, u) == Live /\ RecordBetAccounts(by) /\ UNCHANGED programVars

\* The record may exist already (init_if_needed).
RecordReusable(u, key) == TRUE

\* The record is created by the instruction (init), so it must not exist.
RecordFree(u, key) == <<u, key>> \notin DOMAIN record

Pay(u, key, amount) ==
  LET mint == MintOf(key) IN
  /\ Live /\ RecordFree(u, key) /\ chest[mint] >= amount
  /\ record' = [k \in DOMAIN record \cup {<<u, key>>} |->
                  IF k = <<u, key>> THEN amount ELSE record[k]]
  /\ chest' = [chest EXCEPT ![mint] = @ - amount]
  /\ token' = [token EXCEPT ![u][mint] = @ + amount]
  /\ UNCHANGED <<house, moneyVars>>

\* Each treasury account is the one of its mint in the House.
ClaimRewardAccounts(by, key) == by = Cosigner /\ MintOf(key) = "scad"
ClaimDividendAccounts(by, key) == by = Cosigner /\ MintOf(key) = "usds"

ClaimReward(by, u, key, amount) == ClaimRewardAccounts(by, key) /\ Pay(u, key, amount)
ClaimDividend(by, u, key, amount) == ClaimDividendAccounts(by, key) /\ Pay(u, key, amount)

\* What a key can do by signing.
Instruction(by) ==
  \/ InitHouse(by) \/ SetPaused(by)
  \/ \E u \in Owners :
       \/ \E amount \in 1..Wallet : Deposit(by, u, amount)
       \/ \E amount \in 1..(vault[u]) : Withdraw(by, u, amount)
       \/ \E w \in Wagers : SettleBet(by, u, w[1], w[2])
       \/ RecordBet(by, u)
       \/ \E key \in ClaimKeys, amount \in 1..Treasury :
            ClaimReward(by, u, key, amount) \/ ClaimDividend(by, u, key, amount)

Next == \E by \in Keys : Instruction(by)

Spec == Init /\ [][Next]_programVars

-----------------------------------------------------------------------------
TypeOK ==
  /\ house \in {"none", "live", "paused"} /\ bank \in Nat
  /\ wallet \in [Owners -> Nat] /\ vault \in [Owners -> Nat]
  /\ net \in [Owners -> Int] /\ rentBy \in [Owners -> Nat]
  /\ DOMAIN record \subseteq Owners \X ClaimKeys
  /\ chest \in [Mints -> Nat] /\ token \in [Owners -> [Mints -> Nat]]

(* "The BetSettled event amounts are guaranteed equal to the value netted" *)
(* (settle_bet): what a user holds in wallet and vault is what the user    *)
(* started with, the rent a cosigner paid, and the net of the receipts,    *)
(* whatever deposits, withdrawals and pauses came in between; and the      *)
(* house vault is the other side of the same receipts.                     *)
ReceiptsHonest ==
  /\ \A u \in Owners : wallet[u] + vault[u] = Wallet + rentBy[u] + net[u]
  /\ house # "none" =>
       bank = Rent + Bankroll - MapThenSumSet(LAMBDA u : net[u], Owners)

(* No account the program pays from falls below its rent, so none can be   *)
(* swept by the runtime with funds in it.                                  *)
RentKept ==
  /\ house # "none" => bank >= Rent
  /\ \A u \in Owners : vault[u] # 0 => vault[u] >= Rent

(* A (user, kind, period) is paid once: the tokens a user received in each *)
(* mint are the amounts of the user's ClaimRecords.                        *)
RecordsExplainPayouts ==
  \A u \in Owners, m \in Mints :
    token[u][m] = MapThenSumSet(LAMBDA k : record[k],
                                {k \in DOMAIN record : k[1] = u /\ MintOf(k[2]) = m})

(* The non-custodial claim (withdraw: "nothing but the owner's signature   *)
(* is required"): whichever key signs, a user's wallet pays only on the    *)
(* user's own signature and a vault only on the owner's or the cosigner's; *)
(* the house vault and the treasuries pay on the cosigner's alone, and     *)
(* only the authority stops the house.                                     *)
SignedFor ==
  \A by \in Keys :
    \/ \E u \in Owners : wallet'[u] < wallet[u] /\ by # u
    \/ \E u \in Owners : vault'[u] < vault[u] /\ by \notin {u, Cosigner}
    \/ (bank' < bank \/ \E m \in Mints : chest'[m] < chest[m]) /\ by # Cosigner
    \/ house # "none" /\ house' # house /\ by # Authority
    => ~Instruction(by)

(* As a property of every step.                                            *)
EveryStepSigned == [][SignedFor]_programVars

-----------------------------------------------------------------------------
(* ChainService, which holds the cosigner's key.                           *)

clientVars == <<req, signer>>
allVars == <<programVars, clientVars>>
Floor == Rent + Buffer
NoCall == [at |-> "idle", kind |-> "none"]
Job(kind, u, w) == [at |-> "guard", kind |-> kind, user |-> u, arg |-> w,
                   landed |-> FALSE, seen |-> -1, left |-> Floor]

ClientInit == Init /\ req = [c \in Calls |-> NoCall] /\ signer = TRUE

\* Any payout is let through.
NoReserveCheck(pays) == TRUE

\* coversReserve
CoversReserve(pays) == pays <= 0 \/ bank - pays >= Floor

\* A method is called while the chain layer is enabled and holds a key.
Ask(c, kind, u, w) ==
  /\ req[c].at = "idle" /\ house # "none"
  /\ req' = [req EXCEPT ![c] = IF signer THEN Job(kind, u, w) ELSE [NoCall EXCEPT !.at = "refused"]]
  /\ UNCHANGED <<programVars, signer>>

\* settleBet: the reserve is looked at; an unreadable balance lets the payout through.
Guard(c, readable) ==
  LET r == req[c]
      pays == r.arg[2] - r.arg[1]
  IN
  /\ r.at = "guard" /\ r.kind = "settle"
  /\ req' = [req EXCEPT
       ![c].at = IF (readable => CoversReserve(pays)) /\ signer THEN "sent" ELSE "refused",
       ![c].seen = IF readable /\ pays > 0 THEN bank ELSE -1]
  /\ UNCHANGED <<programVars, signer>>

\* The other methods sign and send at once.
Send(c) ==
  /\ req[c].at = "guard" /\ req[c].kind # "settle"
  /\ req' = [req EXCEPT ![c].at = IF signer THEN "sent" ELSE "refused"]
  /\ UNCHANGED <<programVars, signer>>

\* The transactions the four methods build.
SettleBetTx(r) == r.kind = "settle" /\ SettleBet(Cosigner, r.user, r.arg[1], r.arg[2])
RecordBetTx(r) == r.kind = "record" /\ RecordBet(Cosigner, r.user)
ClaimRewardTx(r) == r.kind = "claim" /\ ClaimReward(Cosigner, r.user, r.arg, 1)
ClaimDividendTx(r) == r.kind = "dividend" /\ ClaimDividend(Cosigner, r.user, r.arg, 1)

\* The transaction executes, perhaps after its sender has given up on it.
Land(c) ==
  LET r == req[c] IN
  /\ r.at \in {"sent", "null"} /\ ~r.landed
  /\ SettleBetTx(r) \/ RecordBetTx(r) \/ ClaimRewardTx(r) \/ ClaimDividendTx(r)
  /\ req' = [req EXCEPT ![c].landed = TRUE,
                         ![c].left = IF bank = r.seen THEN bank' ELSE @]
  /\ UNCHANGED signer

\* A signature is taken for a settlement.
SentIsMoved(r) == TRUE

\* sendAndConfirmTransaction returned, and settlementMoved saw the house vault's delta.
Moved(r) == r.landed

Report(c) ==
  /\ req[c].at = "sent" /\ Moved(req[c])
  /\ req' = [req EXCEPT ![c].at = "signature"]
  /\ UNCHANGED <<programVars, signer>>

\* An error, an expired blockhash or an answer that never came.
AnswerNull(c) ==
  /\ req[c].at = "sent"
  /\ req' = [req EXCEPT ![c].at = "null"]
  /\ UNCHANGED <<programVars, signer>>

\* reloadCosigner finds a key, or none.
ReloadCosigner ==
  /\ signer' = ~signer
  /\ UNCHANGED <<programVars, req>>

ClientNext ==
  \/ (InitHouse(Authority) \/ SetPaused(Authority)) /\ UNCHANGED clientVars
  \/ ReloadCosigner
  \/ \E u \in Owners, amount \in 1..Wallet :
       (Deposit(u, u, amount) \/ Withdraw(u, u, amount)) /\ UNCHANGED clientVars
  \/ \E c \in Calls :
       \/ \E u \in Owners :
            \/ \E w \in Wagers : Ask(c, "settle", u, w) \/ Ask(c, "record", u, w)
            \/ \E k \in ClaimKeys :
                 Ask(c, IF k[1] = "dividend" THEN "dividend" ELSE "claim", u, k)
       \/ \E readable \in BOOLEAN : Guard(c, readable)
       \/ Send(c) \/ Land(c) \/ Report(c) \/ AnswerNull(c)

ClientSpec == ClientInit /\ [][ClientNext]_allVars

-----------------------------------------------------------------------------
ClientTypeOK ==
  /\ TypeOK /\ signer \in BOOLEAN
  /\ \A c \in Calls : req[c].at \in {"idle", "guard", "refused", "sent", "signature", "null"}

(* "Returns the tx signature only when the value provably moved": a call   *)
(* that reported a signature executed, and what a user's receipts add up   *)
(* to is the net of the settlements that executed, each once, whatever     *)
(* rotations, pauses and lost answers fell in between.                     *)
ReportedMeansMoved ==
  /\ \A c \in Calls : req[c].at = "signature" => req[c].landed
  /\ \A u \in Owners :
       net[u] = MapThenSumSet(LAMBDA c : req[c].arg[2] - req[c].arg[1],
                  {c \in Calls : req[c].kind = "settle" /\ req[c].landed /\ req[c].user = u})

(* A payout checked against the balance it is paid from leaves the reserve *)
(* floor in the house vault.  Two payouts that read the balance together   *)
(* may go below it; the program's rent floor is then what stops them.      *)
ReserveKeptAlone == \A c \in Calls : req[c].kind # "none" => req[c].left >= Floor
=============================================================================
