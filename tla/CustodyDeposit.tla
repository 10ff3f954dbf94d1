---------------------------- MODULE CustodyDeposit ----------------------------
(***************************************************************************)
(* Deposits (apps/api/src/custody/deposit.service.ts) and the play/real    *)
(* economy they guard (economy.ts).  Inbound transfers of the treasury are *)
(* walked by scanners, one per API replica, that share a durable cursor; a *)
(* transfer becomes a CustodyTransfer row once, is held until it can be    *)
(* credited, and the first credit of an account turns it from play money   *)
(* to real money, forfeiting what play money earned.                       *)
(*                                                                         *)
(* Transfers are numbered in the order the cluster finalized them.         *)
(***************************************************************************)
EXTENDS Integers, Sequences, FiniteSets, FiniteSetsExt

CONSTANTS
  Users, Wallets,
  Players,      \* bound: the accounts whose bets and limits the model follows
  NumTx,        \* inbound transfers of the treasury
  Signers,      \* Signers[s]: wallets that signed transfer s
  FeePayer,     \* FeePayer[s]: the first of them
  Amount,       \* Amount[s] in lamports
  MinDeposit,   \* minDepositLamports
  FirstOwner,   \* FirstOwner[x]: account a wallet belongs to at the start, or NoUser
  Scanners,     \* API replicas
  Batch,        \* HOLD_RETRY_BATCH
  SeedMoney,    \* play money of a new account
  MaxBalance,   \* bound on a balance
  NoUser

Txs == 1 .. NumTx

ASSUME DepositAssumption ==
  /\ NumTx \in Nat /\ MinDeposit \in Nat /\ SeedMoney \in Nat
  /\ Batch \in Nat \ {0} /\ MaxBalance \in Nat
  /\ Signers \in [Txs -> SUBSET Wallets]
  /\ \A s \in Txs : FeePayer[s] \in Signers[s]
  /\ Amount \in [Txs -> Nat \ {0}]
  /\ FirstOwner \in [Wallets -> Users \cup {NoUser}]
  /\ NoUser \notin Users
  /\ Players \subseteq Users

VARIABLES
  owner,      \* account each wallet is linked to
  listed,     \* transfers the cluster has finalized
  dep,        \* CustodyTransfer rows of kind 'deposit', by transfer
  created,    \* transfers in the order their rows were created
  cursor,     \* ScanCursor
  scan,       \* RAM of each scanner
  balance, funded,
  stake,      \* a stake the user has riding: "none", "play" or "real"
  commission, \* unclaimed play-era referral commission
  blocked,    \* RgService.depositBlock answers with a reason
  won         \* net result of each user's settled real-money bets

vars == <<owner, listed, dep, created, cursor, scan, balance, funded, stake,
          commission, blocked, won>>
moneyVars == <<balance, funded, stake, commission, won>>

Reasons == {"none", "unattributed", "ambiguous_sender", "below_minimum",
            "blocked", "open_play_positions"}
NoDep == [status |-> "absent", reason |-> "none", user |-> NoUser, wallet |-> "none"]
IdleScan == [pc |-> "idle", next |-> 1, last |-> 0, held |-> {}]

Init ==
  /\ owner = FirstOwner
  /\ listed = 0
  /\ dep = [s \in Txs |-> NoDep]
  /\ created = <<>>
  /\ cursor = 0
  /\ scan = [p \in Scanners |-> IdleScan]
  /\ balance = [u \in Users |-> SeedMoney]
  /\ funded = [u \in Users |-> FALSE]
  /\ stake = [u \in Users |-> "none"]
  /\ commission = [u \in Users |-> 0]
  /\ blocked = [u \in Users |-> FALSE]
  /\ won = [u \in Users |-> 0]

-----------------------------------------------------------------------------
\* owners(): the accounts that any of the wallets belongs to.
Owners(ws) == {owner[x] : x \in ws} \ {NoUser}

HeldRow(s) ==
  LET os == Owners(Signers[s]) IN
  IF Cardinality(os) = 1
  THEN LET u == CHOOSE u \in os : TRUE IN
       [status |-> "held", reason |-> "none", user |-> u,
        wallet |-> CHOOSE x \in Signers[s] : owner[x] = u]
  ELSE [status |-> "held", user |-> NoUser, wallet |-> FeePayer[s],
        reason |-> IF os = {} THEN "unattributed" ELSE "ambiguous_sender"]

\* Mutant: txSignature is not unique.
RecordAgain(s) ==
  /\ created' = Append(created, s)
  /\ dep' = [dep EXCEPT ![s] = HeldRow(s)]

\* record(): the row is created once (txSignature is unique), held; dust from a
\* wallet nobody owns leaves no row.
Record(s) ==
  IF \/ dep[s].status # "absent"
     \/ Owners(Signers[s]) = {} /\ Amount[s] < MinDeposit
  THEN UNCHANGED <<dep, created>>
  ELSE /\ created' = Append(created, s)
       /\ dep' = [dep EXCEPT ![s] = HeldRow(s)]

Hold(s, reason, u) ==
  /\ dep' = [dep EXCEPT ![s] = [@ EXCEPT !.reason = reason, !.user = u]]
  /\ UNCHANGED moneyVars

\* Mutant: the first deposit leaves the play balance in place.
ConvertKeepsBalance(u, kept) == kept = balance[u] /\ commission' = [commission EXCEPT ![u] = 0]

\* convert(): at the first deposit the play balance and the unclaimed commission
\* are forfeited; kept is what remains.
Convert(u, kept) == kept = 0 /\ commission' = [commission EXCEPT ![u] = 0]

\* Mutant: open positions do not hold the first deposit back.
NeverOpen(u) == FALSE

\* openPlayPositions(u): a stake is debited and not yet settled.
OpenPlayPositions(u) == stake[u] # "none"

\* credit(id): one Serializable transaction.
Credit(s) ==
  LET u == IF dep[s].user # NoUser THEN dep[s].user ELSE owner[dep[s].wallet] IN
  IF dep[s].status # "held" \/ dep[s].reason = "ambiguous_sender"
  THEN UNCHANGED <<dep, moneyVars>>
  ELSE \/ u = NoUser /\ Hold(s, "unattributed", NoUser)
       \/ u # NoUser /\ Amount[s] < MinDeposit /\ Hold(s, "below_minimum", u)
       \/ /\ u # NoUser /\ Amount[s] >= MinDeposit
          /\ \/ blocked[u] /\ Hold(s, "blocked", u)
             \/ ~blocked[u] /\ ~funded[u] /\ OpenPlayPositions(u)
                  /\ Hold(s, "open_play_positions", u)
             \/ /\ ~blocked[u]
                /\ \E kept \in {0, balance[u]} :
                     /\ \/ funded[u] /\ kept = balance[u] /\ UNCHANGED commission
                        \/ ~funded[u] /\ ~OpenPlayPositions(u) /\ Convert(u, kept)
                     /\ balance' = [balance EXCEPT ![u] = kept + Amount[s]]
                /\ funded' = [funded EXCEPT ![u] = TRUE]
                /\ dep' = [dep EXCEPT ![s] = [@ EXCEPT !.status = "credited",
                                                       !.reason = "none", !.user = u]]
                /\ UNCHANGED <<stake, won>>

-----------------------------------------------------------------------------
\* POST /custody/deposits with a signature the caller names: record, then (in a
\* later await) credit what is held.
ConfirmRecord(s) ==
  /\ s <= listed
  /\ dep[s].status = "absent"
  /\ Record(s)
  /\ UNCHANGED <<owner, listed, cursor, scan, blocked, moneyVars>>

ConfirmCredit(s) ==
  /\ dep[s].status = "held"
  /\ Credit(s)
  /\ UNCHANGED <<owner, listed, created, cursor, scan, blocked>>

\* scanOnce(): list the history after the cursor, as far as the node has it.
ScanStart(p) ==
  /\ scan[p].pc = "idle"
  /\ \E last \in cursor .. listed :
       scan' = [scan EXCEPT ![p] = [@ EXCEPT !.pc = "record", !.next = cursor + 1, !.last = last]]
  /\ UNCHANGED <<owner, listed, dep, created, cursor, blocked, moneyVars>>

\* One transfer of the list: record it unless it is known.  A transfer that is
\* listed but cannot be fetched yet ends the walk.
ScanRecord(p) ==
  LET s == scan[p].next IN
  /\ scan[p].pc = "record" /\ s <= scan[p].last
  /\ \/ /\ dep[s].status = "absent"
        /\ scan' = [scan EXCEPT ![p].last = s - 1]
        /\ UNCHANGED <<dep, created>>
     \/ /\ Record(s)
        /\ scan' = [scan EXCEPT ![p].pc = "advance"]
  /\ UNCHANGED <<owner, listed, cursor, blocked, moneyVars>>

\* Mutant: the cursor moves to the end of the list at once.
AdvanceToLast(p) ==
  /\ scan[p].pc = "advance"
  /\ cursor' = scan[p].last
  /\ scan' = [scan EXCEPT ![p] = [@ EXCEPT !.pc = "record", !.next = scan[p].next + 1]]
  /\ UNCHANGED <<owner, listed, dep, created, blocked, moneyVars>>

\* The cursor follows, one transfer at a time; a slower scanner may set it back.
ScanAdvance(p) ==
  /\ scan[p].pc = "advance"
  /\ cursor' = scan[p].next
  /\ scan' = [scan EXCEPT ![p] = [@ EXCEPT !.pc = "record", !.next = scan[p].next + 1]]
  /\ UNCHANGED <<owner, listed, dep, created, blocked, moneyVars>>

\* retryHeld(): the oldest held rows, at most a batch of them, as places in `created'.
HeldBatch ==
  LET held == {i \in DOMAIN created : dep[created[i]].status = "held"}
  IN {i \in held : Cardinality({j \in held : j < i}) < Batch}

ScanHeld(p) ==
  /\ scan[p].pc = "record" /\ scan[p].next > scan[p].last
  /\ scan' = [scan EXCEPT ![p] = [@ EXCEPT !.pc = "retry", !.held = HeldBatch]]
  /\ UNCHANGED <<owner, listed, dep, created, cursor, blocked, moneyVars>>

\* One of them, the oldest first.
ScanRetry(p) ==
  /\ scan[p].pc = "retry"
  /\ \E i \in scan[p].held :
       /\ \A j \in scan[p].held : i <= j
       /\ Credit(created[i])
       /\ scan' = [scan EXCEPT ![p].held = @ \ {i}]
  /\ UNCHANGED <<owner, listed, created, cursor, blocked>>

ScanEnd(p) ==
  /\ scan[p].pc = "retry" /\ scan[p].held = {}
  /\ scan' = [scan EXCEPT ![p] = IdleScan]
  /\ UNCHANGED <<owner, listed, dep, created, cursor, blocked, moneyVars>>

\* The replica dies, or an RPC or database call throws: this scan is over.
ScanCrash(p) ==
  /\ scan[p].pc # "idle"
  /\ scan' = [scan EXCEPT ![p] = IdleScan]
  /\ UNCHANGED <<owner, listed, dep, created, cursor, blocked, moneyVars>>

-----------------------------------------------------------------------------
\* A transfer to the treasury becomes final.
Arrive ==
  /\ listed < NumTx
  /\ listed' = listed + 1
  /\ UNCHANGED <<owner, dep, created, cursor, scan, blocked, moneyVars>>

\* A player links a wallet nobody owns.
Link(x, u) ==
  /\ owner[x] = NoUser
  /\ owner' = [owner EXCEPT ![x] = u]
  /\ UNCHANGED <<listed, dep, created, cursor, scan, blocked, moneyVars>>

\* Pause, age gate and daily limit come and go.
SetBlocked(u) ==
  /\ blocked' = [blocked EXCEPT ![u] = ~@]
  /\ UNCHANGED <<owner, listed, dep, created, cursor, scan, moneyVars>>

\* Mutant: the debit does not look at the balance.
BetOverdraft(u) ==
  /\ stake[u] = "none"
  /\ stake' = [stake EXCEPT ![u] = IF funded[u] THEN "real" ELSE "play"]
  /\ balance' = [balance EXCEPT ![u] = @ - 1]
  /\ UNCHANGED <<owner, listed, dep, created, cursor, scan, blocked, funded, commission, won>>

\* Any game: one transaction debits the stake and creates the position ...
Bet(u) ==
  /\ stake[u] = "none" /\ balance[u] >= 1
  /\ stake' = [stake EXCEPT ![u] = IF funded[u] THEN "real" ELSE "play"]
  /\ balance' = [balance EXCEPT ![u] = @ - 1]
  /\ UNCHANGED <<owner, listed, dep, created, cursor, scan, blocked, funded, commission, won>>

\* ... and one settles it, paying nothing or double.
Settle(u, pay) ==
  /\ stake[u] # "none"
  /\ balance[u] + pay <= MaxBalance
  /\ balance' = [balance EXCEPT ![u] = @ + pay]
  /\ won' = [won EXCEPT ![u] = IF stake[u] = "real" THEN @ + pay - 1 ELSE @]
  /\ stake' = [stake EXCEPT ![u] = "none"]
  /\ UNCHANGED <<owner, listed, dep, created, cursor, scan, blocked, funded, commission>>

\* A play referee's settled bet accrues commission to a play referrer (E5) ...
Accrue(u) ==
  /\ ~funded[u] /\ commission[u] = 0
  /\ commission' = [commission EXCEPT ![u] = 1]
  /\ UNCHANGED <<owner, listed, dep, created, cursor, scan, blocked, balance, funded, stake, won>>

\* ... who claims it.
ClaimCommission(u) ==
  /\ commission[u] > 0 /\ balance[u] + commission[u] <= MaxBalance
  /\ balance' = [balance EXCEPT ![u] = @ + commission[u]]
  /\ commission' = [commission EXCEPT ![u] = 0]
  /\ UNCHANGED <<owner, listed, dep, created, cursor, scan, blocked, funded, stake, won>>

ScanNext(p) == ScanStart(p) \/ ScanRecord(p) \/ ScanAdvance(p) \/ ScanHeld(p) \/ ScanRetry(p) \/ ScanEnd(p)

\* Every step but a crash.
UpNext ==
  \/ \E s \in Txs : ConfirmRecord(s) \/ ConfirmCredit(s)
  \/ \E p \in Scanners : ScanNext(p)
  \/ Arrive
  \/ \E x \in Wallets, u \in Users : Link(x, u)
  \/ \E u \in Players : SetBlocked(u) \/ Bet(u) \/ Accrue(u) \/ ClaimCommission(u)
  \/ \E u \in Players, pay \in {0, 2} : Settle(u, pay)

Next == UpNext \/ \E p \in Scanners : ScanCrash(p)

Spec == Init /\ [][Next]_vars

-----------------------------------------------------------------------------
\* The type of every variable: balances and commissions never go below zero, and
\* a row that exists names a wallet of the chain.
TypeOK ==
  /\ owner \in [Wallets -> Users \cup {NoUser}]
  /\ listed \in 0 .. NumTx /\ cursor \in 0 .. NumTx
  /\ dep \in [Txs -> [status : {"absent", "held", "credited"}, reason : Reasons,
                     user : Users \cup {NoUser}, wallet : Wallets \cup {"none"}]]
  /\ \A s \in Txs : dep[s].status # "absent" => dep[s].wallet \in Wallets
  /\ created \in Seq(Txs)
  /\ scan \in [Scanners -> [pc : {"idle", "record", "advance", "retry"}, next : Nat,
                            last : 0 .. NumTx, held : SUBSET (DOMAIN created)]]
  /\ balance \in [Users -> Nat] /\ funded \in [Users -> BOOLEAN]
  /\ stake \in [Users -> {"none", "play", "real"}]
  /\ commission \in [Users -> Nat] /\ blocked \in [Users -> BOOLEAN]
  /\ won \in [Users -> Int]

CreditedTo(u) == {s \in Txs : dep[s].status = "credited" /\ dep[s].user = u}

\* Free play money never becomes withdrawable: what a converted account holds is
\* exactly what was deposited, each transfer once, plus the result of its real
\* bets (deposit.service.ts convert, economy.ts E5 and E6).
RealMoneyBacked ==
  \A u \in Users : funded[u] =>
    balance[u] + (IF stake[u] = "real" THEN 1 ELSE 0)
      = MapThenSumSet(LAMBDA s : Amount[s], CreditedTo(u)) + won[u]

\* No stake placed with play money is still riding once the account is real,
\* and an account is real exactly when some deposit was credited to it.
NoPlayStakeAfterFunding ==
  \A u \in Users : /\ funded[u] => stake[u] # "play"
                   /\ funded[u] <=> CreditedTo(u) # {}

\* The cursor never passes a transfer that should have a row: whatever scanners
\* race, stop early or die, what is behind the cursor is recorded or is dust.
CursorSkipsNothing ==
  \A s \in Txs : s <= cursor /\ dep[s].status = "absent" => Amount[s] < MinDeposit

\* A transfer is credited at most once and to one account, for ever.
CreditedOnceForAll ==
  [][\A s \in Txs : dep[s].status = "credited" => dep'[s] = dep[s]]_vars

-----------------------------------------------------------------------------
(***************************************************************************)
(* The inductive invariant behind the properties above.  A scanner walks   *)
(* behind what it has recorded, so where it will put the cursor is         *)
(* recorded already; and an account is wholly in one economy.              *)
(***************************************************************************)
Covered(n) == \A s \in Txs : s <= n /\ dep[s].status = "absent" => Amount[s] < MinDeposit

ScannersCover ==
  \A p \in Scanners :
    /\ scan[p].pc = "record" => scan[p].next \in 1 .. scan[p].last + 1 /\ Covered(scan[p].next - 1)
    /\ scan[p].pc = "advance" => scan[p].next \in 1 .. scan[p].last /\ Covered(scan[p].next)

ErasApart ==
  \A u \in Users : IF funded[u] THEN commission[u] = 0
                   ELSE won[u] = 0 /\ stake[u] # "real"

DepositInv ==
  /\ TypeOK /\ Covered(cursor) /\ ScannersCover
  /\ ErasApart /\ NoPlayStakeAfterFunding /\ RealMoneyBacked

-----------------------------------------------------------------------------
\* Nothing stands in the way of crediting s now.
Creditable(s) ==
  LET u == IF dep[s].user # NoUser THEN dep[s].user ELSE owner[dep[s].wallet] IN
  /\ dep[s].status = "held" /\ dep[s].reason # "ambiguous_sender"
  /\ u # NoUser /\ Amount[s] >= MinDeposit
  /\ ~blocked[u] /\ (funded[u] \/ ~OpenPlayPositions(u))

\* "A deposit that cannot be credited yet is HELD with a reason [...] and retried
\* on every scan" (deposit.service.ts:28): none stays creditable for ever.
HeldIsRetried == \A s \in Txs : []<>~Creditable(s)
=============================================================================
