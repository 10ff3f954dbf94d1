---------------------------- MODULE LotteryChain ----------------------------
(***************************************************************************)
(* One draw of the on-chain lottery: the scadium_lottery program, the API  *)
(* that commits, reveals and pays through it (LotteryEngine, ChainService),*)
(* the confirmation of purchases (LotteryService.confirmTicket) and the    *)
(* sweep that retries unpaid prizes (ReconciliationService).  A            *)
(* transaction lands at any time after it is sent, or never; its sender    *)
(* may have given up (null) by then.  Digits are one value of Hashes and   *)
(* there is one bracket; brackets and carry are in Lottery.                *)
(***************************************************************************)
EXTENDS SlotHashes, Integers, Sequences, FiniteSetsExt, Functions

CONSTANTS
  Buyers,
  Sigs,                    \* signatures of purchase transactions
  Picks,                   \* sequences of digits a purchase may carry
  Offset,                  \* TARGET_SLOT_OFFSET
  Price, Divisor, FeeBps,  \* ticket price, bulk-discount divisor, treasury fee
  HouseInjection,          \* house $SCAD put into the pool
  StartScad,               \* what a buyer's wallet holds
  SweepLimit,              \* tickets one sweep looks at
  MaxSweeps                \* bound: sweeps

VARIABLES
  acct,       \* the Draw account
  wallet, treasury, burnt, injected,
  bought,     \* purchase transactions on chain: sig |-> buyer, picks
  payout,     \* the Payout account of each buyer; 0 where there is none
  row,        \* the LotteryDraw row
  tix,        \* LotteryTicket rows, oldest first
  confirm,    \* confirmTicket of each buyer between its look and its commit
  settle,     \* the settlement's position: the answer of the reveal
  pays,       \* pay_prize calls: sent, landed, answered
  due,        \* draw_at has passed
  sweeps

lotteryVars == <<acct, wallet, treasury, burnt, injected, bought, payout,
                 row, tix, confirm, settle, pays, due, sweeps>>
vars == <<slotVars, lotteryVars>>
programVars == <<acct, wallet, treasury, burnt, injected, bought, payout>>
apiVars == <<row, tix, confirm, settle, pays, sweeps>>
NoConfirm == "none"

Init ==
  /\ SlotInit
  /\ acct = [status |-> "none"]
  /\ wallet = [u \in Buyers |-> StartScad] /\ treasury = 0 /\ burnt = FALSE
  /\ injected = FALSE
  /\ bought = [s \in {} |-> 0]
  /\ payout = [u \in Buyers |-> 0]
  /\ row = [status |-> "open", target |-> slot + Offset, digits |-> NoHash, onchain |-> FALSE]
  /\ tix = <<>>
  /\ confirm = [u \in Buyers |-> NoConfirm]
  /\ settle = "no"
  /\ pays = {}
  /\ due = FALSE /\ sweeps = 0

-----------------------------------------------------------------------------
(* The program.                                                            *)

\* commit_draw lands, unless the pinned slot has come by then.
CommitDraw ==
  /\ acct.status = "none" /\ row.status = "open"
  /\ row.target > slot
  /\ acct' = [status |-> "open", count |-> 0, sold |-> 0, digits |-> NoHash]
  /\ UNCHANGED <<slotVars, wallet, treasury, burnt, injected, bought, payout, apiVars, due>>

Inject ==
  /\ acct.status # "none" /\ ~injected
  /\ injected' = TRUE /\ treasury' = treasury + HouseInjection
  /\ UNCHANGED <<slotVars, acct, wallet, burnt, bought, payout, apiVars, due>>

\* bulk_discount_total, and bulkDiscountTotal
BulkTotal(n) == (Price * n * (Divisor + 1 - n)) \div Divisor

\* Only the clock closes sales.
ClockOnly == ~due

\* status Open, and unix_timestamp < draw_at
OnSale == acct.status = "open" /\ ~due

\* buy_ticket and buy_tickets
BuyTickets(u, s, picks) ==
  LET n == Len(picks) IN
  /\ acct.status # "none" /\ OnSale
  /\ s \notin DOMAIN bought
  /\ n <= Divisor /\ wallet[u] >= BulkTotal(n)
  /\ wallet' = [wallet EXCEPT ![u] = @ - BulkTotal(n)]
  /\ treasury' = treasury + BulkTotal(n)
  /\ acct' = [acct EXCEPT !.count = @ + n]
  /\ bought' = [t \in DOMAIN bought \cup {s} |->
                  IF t = s THEN [buyer |-> u, picks |-> picks] ELSE bought[t]]
  /\ UNCHANGED <<slotVars, burnt, injected, payout, apiVars, due>>

\* reveal_draw lands: the program derives the digits from the pinned slot's hash.
RevealDraw ==
  LET h == FindSlotHash(row.target) IN
  /\ settle = "revealing"
  /\ acct.status = "open" /\ h # NoHash
  /\ acct' = [acct EXCEPT !.status = "revealed", !.digits = h, !.sold = acct.count]
  /\ UNCHANGED <<slotVars, wallet, treasury, burnt, injected, bought, payout, apiVars, due>>

\* The Payout account may exist.
PayAgain(u) == TRUE

\* The Payout account is created by the instruction.
Unpaid(u) == payout[u] = 0

PayPrize(p) ==
  /\ p \in pays /\ p.at = "sent"
  /\ acct.status = "revealed" /\ Unpaid(p.user) /\ treasury >= p.amount
  /\ treasury' = treasury - p.amount
  /\ wallet' = [wallet EXCEPT ![p.user] = @ + p.amount]
  /\ payout' = [payout EXCEPT ![p.user] = @ + p.amount]
  /\ pays' = (pays \ {p}) \cup {[p EXCEPT !.at = "landed"]}
  /\ UNCHANGED <<slotVars, acct, burnt, injected, bought, row, tix, confirm, settle, due, sweeps>>

Sales == FoldFunction(LAMBDA t, sum : sum + t.cost, 0, tix)
Burn == ((Sales + HouseInjection) * FeeBps) \div 10000

\* burn_pool, sent after the settlement
BurnPool ==
  /\ settle = "paid" /\ ~burnt /\ acct.status = "revealed"
  /\ Burn > 0 /\ treasury >= Burn
  /\ burnt' = TRUE /\ treasury' = treasury - Burn
  /\ UNCHANGED <<slotVars, acct, wallet, injected, bought, payout, apiVars, due>>

-----------------------------------------------------------------------------
(* The API.                                                                *)

DrawAt ==
  /\ ~due /\ due' = TRUE
  /\ UNCHANGED <<slotVars, programVars, apiVars>>

\* verifyTicketTx: the TicketBought events of a transaction, if it is there.
VerifyTicketTx(s) == IF s \in DOMAIN bought THEN {bought[s]} ELSE {}

\* confirmTicket: an open draw, and the events of a transaction the caller signed.
ConfirmLook(u, s) ==
  /\ confirm[u] = NoConfirm
  /\ row.status = "open"
  /\ \E tx \in VerifyTicketTx(s) : tx.buyer = u
  /\ confirm' = [confirm EXCEPT ![u] = s]
  /\ UNCHANGED <<slotVars, programVars, row, tix, settle, pays, due, sweeps>>

\* The rows of a signature are not looked for.
SigUnchecked(s) == TRUE

\* @@unique([txSignature, txIndex])
SigUnused(s) == \A i \in DOMAIN tix : tix[i].sig # s

\* The transaction: the rows, if the draw is still open (assertDrawStillOpen).
ConfirmCommit(u) ==
  LET s == confirm[u]
      n == Len(bought[s].picks)
  IN
  /\ s # NoConfirm
  /\ confirm' = [confirm EXCEPT ![u] = NoConfirm]
  /\ IF SigUnused(s) /\ row.status = "open"
     THEN tix' = tix \o [i \in 1..n |->
            [user |-> u, sig |-> s, pick |-> bought[s].picks[i],
             cost |-> BulkTotal(n) \div n, prize |-> 0, paid |-> FALSE]]
     ELSE UNCHANGED tix
  /\ UNCHANGED <<slotVars, programVars, row, settle, pays, due, sweeps>>

\* settleDraw, at the draw's time or forced: reveal first.
SettleBegin ==
  /\ settle = "no" /\ row.status = "open"
  /\ settle' = "revealing"
  /\ UNCHANGED <<slotVars, programVars, row, tix, confirm, pays, due, sweeps>>

\* The settlement's transaction: the chain's digits when the reveal was answered,
\* the beacon's or the synthetic ones when it was not.
SettleDraw(digits, onchain) ==
  LET winners == {i \in DOMAIN tix : tix[i].pick = digits}
      each == (Sales + HouseInjection - Burn) \div Cardinality(winners)
  IN
  /\ settle = "revealing" /\ row.status = "open"
  /\ onchain => acct.status = "revealed" /\ digits = acct.digits
  /\ settle' = "drawn"
  /\ row' = [row EXCEPT !.status = "drawn", !.digits = digits, !.onchain = onchain]
  /\ tix' = [i \in DOMAIN tix |->
               IF i \in winners THEN [tix[i] EXCEPT !.prize = each] ELSE tix[i]]
  /\ UNCHANGED <<slotVars, programVars, confirm, pays, due, sweeps>>

Winning(i) == tix[i].prize > 0 /\ ~tix[i].paid
RowsOf(u, ids) == {i \in ids : tix[i].user = u}
PayCalls(ids) ==
  {[user |-> u, ids |-> RowsOf(u, ids), at |-> "sent",
    amount |-> MapThenSumSet(LAMBDA i : tix[i].prize, RowsOf(u, ids))] :
     u \in {tix[i].user : i \in ids}}

\* The payouts, one per winner, when the treasury covers them all.
PayWinners ==
  LET ids == {i \in DOMAIN tix : Winning(i)} IN
  /\ settle = "drawn"
  /\ settle' = "paid"
  /\ pays' = IF treasury >= MapThenSumSet(LAMBDA i : tix[i].prize, ids)
             THEN pays \cup PayCalls(ids) ELSE pays
  /\ UNCHANGED <<slotVars, programVars, row, tix, confirm, due, sweeps>>

\* One sweep: some unpaid winning rows, one call per winner the treasury covers.
Sweep ==
  /\ sweeps < MaxSweeps /\ row.status = "drawn"
  /\ \E ids \in SUBSET {i \in DOMAIN tix : Winning(i)} :
       /\ ids # {}
       /\ Cardinality(ids) = Min({SweepLimit, Cardinality({i \in DOMAIN tix : Winning(i)})})
       /\ pays' = pays \cup {c \in PayCalls(ids) : c.amount <= treasury}
  /\ sweeps' = sweeps + 1
  /\ UNCHANGED <<slotVars, programVars, row, tix, confirm, settle, due>>

\* Marked whether or not there was a signature.
AnyAnswer(p) == TRUE

Signed(p) == p.at = "landed"

\* lotteryPayPrize answers with a signature: the rows it paid for are marked.
PayAnswered(p) ==
  /\ p \in pays /\ Signed(p)
  /\ pays' = pays \ {p}
  /\ tix' = [i \in DOMAIN tix |-> IF i \in p.ids THEN [tix[i] EXCEPT !.paid = TRUE] ELSE tix[i]]
  /\ UNCHANGED <<slotVars, programVars, row, confirm, settle, due, sweeps>>

\* The answer is lost, the transaction never lands, or it reverts: null.
PayLost(p) ==
  /\ p \in pays
  /\ pays' = pays \ {p}
  /\ UNCHANGED <<slotVars, programVars, row, tix, confirm, settle, due, sweeps>>

Next ==
  \/ NewSlot /\ UNCHANGED lotteryVars
  \/ CommitDraw \/ Inject \/ RevealDraw \/ BurnPool \/ DrawAt
  \/ \E u \in Buyers :
       \/ \E s \in Sigs :
            (\E picks \in Picks : BuyTickets(u, s, picks)) \/ ConfirmLook(u, s)
       \/ ConfirmCommit(u)
  \/ SettleBegin \/ PayWinners \/ Sweep
  \/ \E digits \in Hashes, onchain \in BOOLEAN : SettleDraw(digits, onchain)
  \/ \E p \in pays : PayPrize(p) \/ PayAnswered(p) \/ PayLost(p)

Spec == Init /\ [][Next]_vars

-----------------------------------------------------------------------------
LotteryTypeOK ==
  /\ SlotTypeOK
  /\ acct.status \in {"none", "open", "revealed"} /\ treasury \in Nat
  /\ wallet \in [Buyers -> Nat] /\ payout \in [Buyers -> Nat]
  /\ row.status \in {"open", "drawn"} /\ settle \in {"no", "revealing", "drawn", "paid"}
  /\ \A i \in DOMAIN tix : tix[i].user \in Buyers /\ tix[i].prize \in Nat

(* Tickets are rows of purchases: each row of a signature was paid for on  *)
(* chain by its owner, and a signature confirmed twice, by two requests at *)
(* once or again after a timeout, still stands for its own picks only.     *)
RowsBackedByPurchases ==
  \A s \in Sigs :
    LET rows == SelectSeq(tix, LAMBDA t : t.sig = s) IN
    rows # <<>> =>
      /\ s \in DOMAIN bought
      /\ [i \in DOMAIN rows |-> rows[i].pick] = bought[s].picks
      /\ \A i \in DOMAIN rows : rows[i].user = bought[s].buyer

(* No ticket is sold once the winning digits are on chain, draw_at or not. *)
SalesEndAtReveal == acct.status = "revealed" => acct.count = acct.sold

(* A prize row marked paid was paid: the marked rows of a winner add up to *)
(* what its Payout account records, and a winner without a record has no   *)
(* marked row, whatever sweeps and first attempts overlapped.              *)
MarkedMeansPaid ==
  \A u \in Buyers :
    LET marked == {i \in DOMAIN tix : tix[i].user = u /\ tix[i].paid} IN
    marked # {} => payout[u] = MapThenSumSet(LAMBDA i : tix[i].prize, marked)

(* "Idempotent per (draw, winner)": a winner never gets more than its      *)
(* tickets won, however often a payout is retried.                         *)
PrizePaidOnce ==
  \A u \in Buyers :
    payout[u] <= MapThenSumSet(LAMBDA i : tix[i].prize, {i \in DOMAIN tix : tix[i].user = u})

(* "No stranded tickets": a prize declared is one the program can pay.     *)
NoStrandedPrize ==
  row.status = "drawn" /\ (\E i \in DOMAIN tix : tix[i].prize > 0) => acct.status = "revealed"
=============================================================================
