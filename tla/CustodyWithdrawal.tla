--------------------------- MODULE CustodyWithdrawal ---------------------------
(***************************************************************************)
(* The withdrawal state machine of the custody module                      *)
(* (apps/api/src/custody/withdrawal.service.ts): the hot wallet sends SOL  *)
(* to the player's wallet.  A CustodyTransfer row is driven by any number  *)
(* of concurrent drivers (the request that created it, the job, every API  *)
(* replica), each of which reads the row, talks to the chain and writes    *)
(* back under a compare-and-set.  A driver may die between any two awaits. *)
(*                                                                         *)
(* The chain is the part custody-chain.ts uses: a finalized height, one    *)
(* not yet final block above it, and signatures that may land in a block   *)
(* no higher than their lastValidBlockHeight.  RPC answers may come from a *)
(* node up to MaxLag blocks behind.  Ed25519 signing is deterministic, so  *)
(* a signature IS its row and its blockhash: it is identified here by the  *)
(* pair <<row, lastValidBlockHeight>>.                                     *)
(***************************************************************************)
EXTENDS Integers, FiniteSets, FiniteSetsExt

CONSTANTS
  Users,         \* accounts with fundedAt set
  Rows,          \* ids of CustodyTransfer rows of kind 'withdraw'
  Owner,         \* Owner[w]: the row's userId
  Drivers,       \* concurrent executions of step()
  Amounts,       \* request amounts between minWithdraw and maxWithdraw
  InitBalance,   \* each user's balance at the start
  DailyLimit,    \* dailyWithdrawLamports
  FeeReserve,    \* feeReserveLamports
  HotTarget,     \* what the operator tops the hot wallet up to
  AttemptLimits, \* values withdrawMaxAttempts (read live) may take
  Life,          \* blocks a blockhash stays valid
  Margin,        \* expiryMarginBlocks
  MaxLag,        \* blocks an RPC node may lag behind the cluster
  MaxHeight,     \* bound on the finalized height
  MaxDay         \* bound on the number of days

ASSUME ConstantsAssumption ==
  /\ Owner \in [Rows -> Users]
  /\ Amounts \subseteq Nat \ {0}
  /\ InitBalance \in Nat
  /\ DailyLimit \in Nat
  /\ FeeReserve \in Nat
  /\ HotTarget \in Nat
  /\ AttemptLimits \subseteq Nat \ {0}
  /\ AttemptLimits # {}
  /\ Life \in Nat \ {0}
  /\ Margin \in Nat
  /\ MaxLag \in Nat
  /\ MaxHeight \in Nat
  /\ MaxDay \in Nat
  /\ Rows # {}

\* The margin exists so that a lagging node cannot make a live signature look
\* dead; it does so for nodes that lag no more than it.
ASSUME MarginCoversLag == MaxLag <= Margin

VARIABLES
  row,          \* the CustodyTransfer table
  balance,      \* User.balance
  day,          \* the UTC day
  paused,       \* MaintenanceService: the global pause
  maxAttempts,  \* custodyConfig().withdrawMaxAttempts
  driver,       \* RAM of each running step()
  height,       \* finalized block height
  net,          \* signatures that were handed to the network
  landed,       \* signatures included in a block
  hot           \* lamports of the hot wallet

vars == <<row, balance, day, paused, maxAttempts, driver, height, net, landed, hot>>
chainVars == <<height, net, landed, hot>>
envVars == <<day, paused, maxAttempts>>

NoSig == 0
Statuses == {"none", "pending", "sent", "confirmed", "failed"}
PCs == {"idle", "send", "balance", "sign", "claim", "broadcast",
        "check", "status", "confirm", "requeue", "refund"}

Row == [status : Statuses, sig : Nat, attempts : Nat,
        amount : Amounts \cup {0}, day : Nat]
Landing == [row : Rows, sig : Nat, block : Nat, ok : BOOLEAN]

\* What a driver holds between awaits: the row as it read it (status, sig,
\* attempts), the finalized height it read, and the signature it made.
Driver == [pc : PCs, w : Rows, status : Statuses, sig : Nat, attempts : Nat,
           fin : Int, new : Nat]

-----------------------------------------------------------------------------
NoRow == [status |-> "none", sig |-> NoSig, attempts |-> 0, amount |-> 0, day |-> 0]

\* No step() is running; what the last one held is gone.
Idle == [pc |-> "idle", w |-> CHOOSE w \in Rows : TRUE, status |-> "none",
         sig |-> NoSig, attempts |-> 0, fin |-> 0, new |-> NoSig]

Init ==
  /\ row = [w \in Rows |-> NoRow]
  /\ balance = [u \in Users |-> InitBalance]
  /\ day = 0
  /\ paused = FALSE
  /\ maxAttempts \in AttemptLimits
  /\ driver = [d \in Drivers |-> Idle]
  /\ height = 0
  /\ net = {}
  /\ landed = {}
  /\ hot = HotTarget

InFlight(u) == {w \in Rows : Owner[w] = u /\ row[w].status \in {"pending", "sent"}}

\* Rows of u created on day d that count towards the daily limit.
CountedOn(u, d) ==
  {w \in Rows : /\ Owner[w] = u /\ row[w].day = d
                /\ row[w].status \in {"pending", "sent", "confirmed"}}

\* What the rows of S debited.
debited == [w \in Rows |-> row[w].amount]
AmountOf(S) == MapThenSumSet(LAMBDA w : debited[w], S)

\* MaintenanceService.isPaused: what a reader may see; a failed read is FALSE.
IsPaused == {paused, FALSE}

Debit(w, a) ==
  /\ balance' = [balance EXCEPT ![Owner[w]] = @ - a]
  /\ row' = [row EXCEPT ![w] = [status |-> "pending", sig |-> NoSig, attempts |-> 0,
                                amount |-> a, day |-> day]]
  /\ UNCHANGED <<driver, envVars, chainVars>>

\* Mutants: no check for a withdrawal in flight; no overdraft check.
RequestMany(w, a) ==
  /\ row[w].status = "none" /\ FALSE \in IsPaused
  /\ AmountOf(CountedOn(Owner[w], day)) + a <= DailyLimit
  /\ balance[Owner[w]] >= a
  /\ Debit(w, a)
RequestOverdraft(w, a) ==
  /\ row[w].status = "none" /\ FALSE \in IsPaused
  /\ InFlight(Owner[w]) = {}
  /\ AmountOf(CountedOn(Owner[w], day)) + a <= DailyLimit
  /\ Debit(w, a)

\* POST /custody/withdrawals: one Serializable transaction creates the row and
\* debits the balance (applyBalanceDelta refuses an overdraft).  A retry with
\* the same idempotency key finds the row it made and changes nothing.
Request(w, a) ==
  /\ row[w].status = "none"
  /\ FALSE \in IsPaused
  /\ InFlight(Owner[w]) = {}
  /\ AmountOf(CountedOn(Owner[w], day)) + a <= DailyLimit
  /\ balance[Owner[w]] >= a
  /\ Debit(w, a)

-----------------------------------------------------------------------------
Goto(d, pc) ==
  driver' = [driver EXCEPT ![d] = IF pc = "idle" THEN Idle ELSE [@ EXCEPT !.pc = pc]]

\* step(id): read the row and branch on its status (drive and resumeAll repeat it).
Step(d, w) ==
  /\ driver[d].pc = "idle"
  /\ row[w].status \in {"pending", "sent"}
  /\ driver' = [driver EXCEPT ![d] =
       [pc |-> IF row[w].status = "pending" THEN "send" ELSE "check",
        w |-> w, status |-> row[w].status, sig |-> row[w].sig,
        attempts |-> row[w].attempts, fin |-> 0, new |-> NoSig]]
  /\ UNCHANGED <<row, balance, envVars, chainVars>>

\* send(row): attempts exhausted -> refund; paused -> leave it for later.
SendGuard(d) ==
  /\ driver[d].pc = "send"
  /\ \/ driver[d].attempts >= maxAttempts /\ Goto(d, "refund")
     \/ /\ driver[d].attempts < maxAttempts
        /\ \E p \in IsPaused : Goto(d, IF p THEN "idle" ELSE "balance")
  /\ UNCHANGED <<row, balance, envVars, chainVars>>

HotCovers(w) == hot >= row[w].amount + FeeReserve

\* chain.balance(treasury): wait unless the hot wallet covers amount and fees.
SendBalance(d) ==
  /\ driver[d].pc = "balance"
  /\ Goto(d, IF HotCovers(driver[d].w) THEN "sign" ELSE "idle")
  /\ UNCHANGED <<row, balance, envVars, chainVars>>

\* chain.signTransfer: a blockhash at 'confirmed' from a node that may lag.
Sign(d) ==
  /\ driver[d].pc = "sign"
  /\ \E b \in Nat \cap ((height - MaxLag) .. (height + 1)) :
       driver' = [driver EXCEPT ![d] = [@ EXCEPT !.pc = "claim", !.new = b + Life]]
  /\ UNCHANGED <<row, balance, envVars, chainVars>>

\* Mutant: the update goes by id alone.
ClaimById(l) == TRUE
StillPending(l) == row[l.w].status = "pending" /\ row[l.w].attempts = l.attempts

\* The signature is stored before it is broadcast, if the row is still as read.
Claim(d) ==
  LET l == driver[d] IN
  /\ l.pc = "claim"
  /\ IF StillPending(l)
     THEN /\ row' = [row EXCEPT ![l.w] = [@ EXCEPT !.status = "sent", !.sig = l.new,
                                                   !.attempts = l.attempts + 1]]
          /\ Goto(d, "broadcast")
     ELSE /\ Goto(d, "idle")
          /\ UNCHANGED row
  /\ UNCHANGED <<balance, envVars, chainVars>>

\* chain.broadcast: its result is advisory; the network has it or has not.
Broadcast(d) ==
  LET l == driver[d] IN
  /\ l.pc = "broadcast"
  /\ net' \in {net, net \cup {<<l.w, l.new>>}}
  /\ Goto(d, "idle")
  /\ UNCHANGED <<row, balance, envVars, height, landed, hot>>

-----------------------------------------------------------------------------
\* check(row): the finalized height is read first, perhaps from a lagging node ...
CheckHeight(d) ==
  /\ driver[d].pc = "check"
  /\ \E f \in (height - MaxLag) .. height :
       driver' = [driver EXCEPT ![d] = [@ EXCEPT !.pc = "status", !.fin = f]]
  /\ UNCHANGED <<row, balance, envVars, chainVars>>

\* getSignatureStatuses as answered by a node whose finalized height is view.
Found(w, s, view) == {t \in landed : t.row = w /\ t.sig = s /\ t.block <= view + 1}

DeadPC(attempts) == IF attempts >= maxAttempts THEN "refund" ELSE "requeue"

\* Mutants: an unseen signature is given up at once; or never.
UnseenIsDead(l) == DeadPC(l.attempts)
UnseenWaits(l) == "idle"

\* Unseen: it may still land until its blockhash is past expiry and margin.
UnseenPC(l) == IF l.fin <= l.sig + Margin THEN "idle" ELSE DeadPC(l.attempts)

\* Mutant: a landing is believed before it is at the commitment.
SeenIsSettled(l, t, view) == IF t.ok THEN "confirm" ELSE DeadPC(l.attempts)

\* Seen: a fork could still change it until it is at the commitment.
SeenPC(l, t, view) ==
  CASE t.block > view -> "idle"
    [] t.block <= view /\ t.ok -> "confirm"
    [] t.block <= view /\ ~t.ok -> DeadPC(l.attempts)

\* ... then the signature's state decides: wait, confirm, re-sign or refund.
CheckStatus(d) ==
  LET l == driver[d] IN
  /\ l.pc = "status"
  /\ \E view \in (height - MaxLag) .. height :
       LET found == Found(l.w, l.sig, view) IN
       \/ found = {} /\ Goto(d, UnseenPC(l))
       \/ \E t \in found : Goto(d, SeenPC(l, t, view))
  /\ UNCHANGED <<row, balance, envVars, chainVars>>

\* Mutant: the update goes by id alone.
SentById(l) == TRUE
StillSent(l) == row[l.w].status = "sent" /\ row[l.w].sig = l.sig

\* sent -> confirmed, compare-and-set on status and signature.
Confirm(d) ==
  LET l == driver[d] IN
  /\ l.pc = "confirm"
  /\ row' = IF StillSent(l) THEN [row EXCEPT ![l.w].status = "confirmed"] ELSE row
  /\ Goto(d, "idle")
  /\ UNCHANGED <<balance, envVars, chainVars>>

\* sent -> pending with the dead signature cleared, same compare-and-set.
Requeue(d) ==
  LET l == driver[d] IN
  /\ l.pc = "requeue"
  /\ row' = IF StillSent(l)
            THEN [row EXCEPT ![l.w] = [@ EXCEPT !.status = "pending", !.sig = NoSig]]
            ELSE row
  /\ Goto(d, "idle")
  /\ UNCHANGED <<balance, envVars, chainVars>>

\* Mutant: the update goes by id alone.
RefundById(l) == TRUE
StillAsRead(l) == row[l.w].status = l.status /\ row[l.w].sig = l.sig

\* refund(row): one Serializable transaction fails the row as read and credits.
Refund(d) ==
  LET l == driver[d] IN
  /\ l.pc = "refund"
  /\ IF StillAsRead(l)
     THEN /\ row' = [row EXCEPT ![l.w].status = "failed"]
          /\ balance' = [balance EXCEPT ![Owner[l.w]] = @ + row[l.w].amount]
     ELSE UNCHANGED <<row, balance>>
  /\ Goto(d, "idle")
  /\ UNCHANGED <<envVars, chainVars>>

\* The process dies, or an RPC or database call throws: the step is over.
Crash(d) ==
  /\ driver[d].pc # "idle"
  /\ Goto(d, "idle")
  /\ UNCHANGED <<row, balance, envVars, chainVars>>

-----------------------------------------------------------------------------
\* A signature the network holds is included in the block being built, unless
\* its blockhash expired or it is included already.  It pays if the hot wallet
\* covers it; it may always fail.
Land(w, s, ok) ==
  /\ <<w, s>> \in net
  /\ height + 1 <= s
  /\ ~ \E t \in landed : t.row = w /\ t.sig = s
  /\ ok => hot >= row[w].amount
  /\ landed' = landed \cup {[row |-> w, sig |-> s, block |-> height + 1, ok |-> ok]}
  /\ hot' = IF ok THEN hot - row[w].amount ELSE hot
  /\ UNCHANGED <<row, balance, driver, envVars, height, net>>

\* A fork drops the block that is not final; the signature may land again.
ForkDrops(t) ==
  /\ t.block = height + 1
  /\ landed' = landed \ {t}
  /\ hot' = IF t.ok THEN hot + row[t.row].amount ELSE hot
  /\ UNCHANGED <<row, balance, driver, envVars, height, net>>

\* The block being built becomes final and the next one is started.
AdvanceHeight ==
  /\ height < MaxHeight
  /\ height' = height + 1
  /\ UNCHANGED <<row, balance, driver, envVars, net, landed, hot>>

-----------------------------------------------------------------------------
\* The operator: global pause, hot wallet top-up, live reconfiguration; midnight.
SetPaused ==
  /\ paused' = ~paused
  /\ UNCHANGED <<row, balance, day, maxAttempts, driver, chainVars>>

TopUp ==
  /\ hot < HotTarget
  /\ hot' = HotTarget
  /\ UNCHANGED <<row, balance, driver, envVars, height, net, landed>>

Reconfigure ==
  /\ maxAttempts' \in AttemptLimits \ {maxAttempts}
  /\ UNCHANGED <<row, balance, day, paused, driver, chainVars>>

NewDay ==
  /\ day < MaxDay
  /\ day' = day + 1
  /\ UNCHANGED <<row, balance, paused, maxAttempts, driver, chainVars>>

DriverNext(d) ==
  \/ SendGuard(d) \/ SendBalance(d) \/ Sign(d) \/ Claim(d) \/ Broadcast(d)
  \/ CheckHeight(d) \/ CheckStatus(d) \/ Confirm(d) \/ Requeue(d) \/ Refund(d)

\* Every step but a crash.
UpNext ==
  \/ \E w \in Rows, a \in Amounts : Request(w, a)
  \/ \E d \in Drivers, w \in Rows : Step(d, w)
  \/ \E d \in Drivers : DriverNext(d)
  \/ \E s \in net, ok \in BOOLEAN : Land(s[1], s[2], ok)
  \/ \E t \in landed : ForkDrops(t)
  \/ AdvanceHeight
  \/ SetPaused \/ TopUp \/ Reconfigure \/ NewDay

Next == UpNext \/ \E d \in Drivers : Crash(d)

Spec == Init /\ [][Next]_vars

-----------------------------------------------------------------------------
\* Every variable has its type.
TypeOK ==
  /\ row \in [Rows -> Row]
  /\ balance \in [Users -> Nat]
  /\ day \in Nat
  /\ paused \in BOOLEAN
  /\ maxAttempts \in AttemptLimits
  /\ driver \in [Drivers -> Driver]
  /\ height \in Nat
  /\ net \subseteq Rows \X Nat
  /\ landed \subseteq Landing
  /\ hot \in Nat

Payments(w) == {t \in landed : t.row = w /\ t.ok}

\* A signature that can no longer move value: it did not pay, and it failed in
\* a final block or its blockhash expired.
Dead(w, s) ==
  /\ ~ \E t \in landed : t.row = w /\ t.sig = s /\ t.ok
  /\ \/ height >= s
     \/ \E t \in landed : t.row = w /\ t.sig = s /\ t.block <= height

\* Signatures that are, or may still get, out on the network.
OutThere(w) ==
  {s[2] : s \in {x \in net : x[1] = w}}
    \cup {driver[d].new : d \in {e \in Drivers : driver[e].pc = "broadcast" /\ driver[e].w = w}}

\* The player is never paid twice: over all attempts of a row, whatever drivers
\* race or die, at most one signature lands successfully.
AtMostOnePayment == \A w \in Rows : Cardinality(Payments(w)) <= 1

\* "A row never has two live signatures": every signature that ever reached the
\* network, except the one stored in a row that is sent or confirmed, is dead.
OneLiveSignature ==
  \A w \in Rows : \A s \in OutThere(w) :
    \/ row[w].status \in {"sent", "confirmed"} /\ row[w].sig = s
    \/ Dead(w, s)

\* A refund happens only on proof that nothing was, or ever will be, paid; and a
\* row is confirmed only when its stored signature paid in a final block.
SettledTruthfully ==
  \A w \in Rows :
    /\ row[w].status = "failed" => Payments(w) = {} /\ \A s \in OutThere(w) : Dead(w, s)
    /\ row[w].status = "confirmed" =>
         \E t \in Payments(w) : t.sig = row[w].sig /\ t.block <= height

\* What the user owns is conserved: balance, plus what is on its way, plus what
\* the chain paid, is what the user started with.
BalanceConserved ==
  \A u \in Users :
    balance[u] + AmountOf({w \in Rows : /\ Owner[w] = u
                                        /\ \/ row[w].status \in {"pending", "sent"}
                                           \/ Payments(w) # {}}) = InitBalance

\* A user has at most one withdrawal in flight, and what the chain pays out of
\* one day's requests never exceeds the daily limit.
LimitsHold ==
  \A u \in Users :
    /\ Cardinality(InFlight(u)) <= 1
    /\ \A d \in 0 .. day :
         AmountOf({w \in Rows : Owner[w] = u /\ row[w].day = d /\ Payments(w) # {}}) <= DailyLimit

\* A settled row never changes again, and attempts are never forgotten.
SettledIsFinal ==
  [][\A w \in Rows :
       /\ row[w].status \in {"confirmed", "failed"} => row'[w] = row[w]
       /\ row'[w].attempts \in {row[w].attempts, row[w].attempts + 1}]_vars

-----------------------------------------------------------------------------
(***************************************************************************)
(* The inductive invariant behind the properties above.  A driver acts on  *)
(* what it read some time ago, so what it concluded (paid, dead) must be   *)
(* something no later step of the chain or of a peer can take back.        *)
(***************************************************************************)
\* The signature paid, in a block no fork can drop.
PaidForGood(w, s) ==
  \E t \in landed : t.row = w /\ t.sig = s /\ t.ok /\ t.block <= height

LandingsWellFormed ==
  /\ \A t \in landed : <<t.row, t.sig>> \in net /\ t.block <= t.sig /\ t.block <= height + 1
  /\ \A t, v \in landed : t.row = v.row /\ t.sig = v.sig => t = v

RowsWellFormed ==
  \A w \in Rows :
    /\ row[w].status \in {"none", "pending"} => row[w].sig = NoSig
    /\ row[w].status = "confirmed" => PaidForGood(w, row[w].sig)

DriversKnow ==
  \A d \in Drivers :
    LET l == driver[d] IN
    /\ l.pc \in {"send", "balance", "sign", "claim"} => l.status = "pending" /\ l.sig = NoSig
    /\ l.pc \in {"check", "status"} => l.status = "sent"
    /\ l.pc = "status" => l.fin <= height
    /\ l.pc = "confirm" => PaidForGood(l.w, l.sig)
    /\ l.pc = "requeue" => Dead(l.w, l.sig)
    /\ l.pc = "refund" => \/ l.status = "pending" /\ l.sig = NoSig
                          \/ l.status = "sent" /\ Dead(l.w, l.sig)

SafeInv == TypeOK /\ LandingsWellFormed /\ RowsWellFormed /\ DriversKnow /\ OneLiveSignature

\* The money: rows that were not refunded hold what was debited, one of them at a
\* time in flight, and no day's requests exceed its limit.
Kept(u) == {w \in Rows : Owner[w] = u /\ row[w].status \in {"pending", "sent", "confirmed"}}

BooksInv ==
  /\ IsFiniteSet({w \in Rows : row[w].status # "none"})
  /\ \A w \in Rows : /\ row[w].status = "none" => row[w].attempts = 0
                     /\ row[w].day \in 0 .. day
  /\ \A u \in Users : /\ balance[u] + AmountOf(Kept(u)) = InitBalance
                      /\ \A w, v \in InFlight(u) : w = v
                      /\ \A d \in 0 .. day : AmountOf(CountedOn(u, d)) <= DailyLimit

-----------------------------------------------------------------------------
FinallyPaid(w) == \E t \in Payments(w) : t.block <= height

Phase(w) ==
  CASE FinallyPaid(w) -> "paid"
    [] ~FinallyPaid(w) /\ row[w].status = "none" -> "none"
    [] ~FinallyPaid(w) /\ row[w].status = "failed" -> "returned"
    [] ~FinallyPaid(w) /\ row[w].status \in {"pending", "sent", "confirmed"} -> "owed"

Payout == INSTANCE CustodyPayout WITH
  phase  <- [w \in Rows |-> Phase(w)],
  amount <- [w \in Rows |-> row[w].amount],
  funds  <- balance

\* The retrying, crashing, racing machine implements the promise: each debited
\* amount is paid at most once or returned at most once, never both.
ImplementsPayout == Payout!PSpec
=============================================================================
