------------------------------- MODULE Lottery -------------------------------
(***************************************************************************)
(* The daily lottery with play money (apps/api/src/games/lottery): engines *)
(* of which one is elected open a draw, sell tickets, draw and settle it,  *)
(* and carry what was not won into the next draw's pool.                   *)
(*                                                                         *)
(* An engine runs two flows that interleave at every await: the settlement *)
(* (st), started by the draw's timer, a retry or the watchdog, and the     *)
(* boot sequence (boot), started by an election.  Amounts are in $SCAD     *)
(* units; a ticket's digits are abstracted to the bracket they win.        *)
(***************************************************************************)
EXTENDS PlayerAccount, Sequences, FiniteSets, Functions

CONSTANTS
  Engines,
  TicketPrice, Discount,       \* ticketPriceScadBase, DISCOUNT_DIVISOR
  Batches,                     \* tickets per purchase
  FeeBps, Breakdown,           \* TREASURY_FEE_BPS, REWARDS_BREAKDOWN_BPS
  HouseInjection,
  Rate, Unit,                  \* Rate lamports are worth Unit of $SCAD
  Earned,                      \* free tickets a player's wagers have earned
  MaxDraws, MaxTickets,        \* bounds: draws, tickets
  MaxElections, MaxMishaps     \* bounds: elections, failed steps

VARIABLES
  draws,     \* LotteryDraw rows, oldest first
  tickets,   \* LotteryTicket rows
  spent,     \* free tickets each player has used (freeTicketBaselineWagered)
  buy,       \* each player's purchase between its look at the draw and its commit
  eng,       \* the engines
  lease,     \* who holds lock:engine:lottery
  budget     \* elections and mishaps so far

lotteryVars == <<draws, tickets, spent, buy, eng, lease, budget>>
vars == <<accountVars, lotteryVars>>

NoFlow == [at |-> "no", d |-> 0, roll |-> 0]
NoBuy == [at |-> "no", d |-> 0, n |-> 0]
\* reboot: another boot is scheduled.  The timers of a draw and of a retry are not
\* kept, since the watchdog settles whatever is due.
Standby == [lead |-> FALSE, cur |-> 0, carry |-> 0, reboot |-> FALSE,
            boot |-> [at |-> "no", d |-> 0, roll |-> 0, todo |-> {}], st |-> NoFlow]
Brackets == DOMAIN Breakdown

TypeOK ==
  /\ AccountTypeOK
  /\ \A d \in DOMAIN draws :
       draws[d].status \in {"open", "drawn"} /\ draws[d].due \in BOOLEAN /\ draws[d].roll \in Nat
  /\ \A t \in DOMAIN tickets : tickets[t].draw \in DOMAIN draws /\ tickets[t].user \in Users
  /\ spent \in [Users -> Nat]
  /\ \A p \in Engines : eng[p].cur \in 0..Len(draws) /\ eng[p].carry \in Nat
  /\ lease \in SUBSET Engines /\ Cardinality(lease) <= 1

Init ==
  /\ AccountInit
  /\ draws = <<>> /\ tickets = <<>>
  /\ spent = [u \in Users |-> 0]
  /\ buy = [u \in Users |-> NoBuy]
  /\ eng = [p \in Engines |-> Standby]
  /\ lease = {}
  /\ budget = [elections |-> 0, mishaps |-> 0]

-----------------------------------------------------------------------------
(* Prices and shares. *)

BulkDiscountTotal(n) == (TicketPrice * n * (Discount + 1 - n)) \div Discount
PerTicket(n) == BulkDiscountTotal(n) \div n
ToLamports(scad) == (2 * scad * Rate + Unit) \div (2 * Unit)

SumOver(S, f(_)) == FoldFunction(+, 0, [x \in S |-> f(x)])

Burn(pool) == (pool * FeeBps) \div 10000
Slice(pool, b) == ((pool - Burn(pool)) * Breakdown[b]) \div 10000
PerWinner(pool, b, count) == IF count[b] = 0 THEN 0 ELSE Slice(pool, b) \div count[b]

\* Mutant: the flooring of the slices themselves is forgotten.
RolloverOfSlices(pool, count) ==
  LET Dust(b) == Slice(pool, b) - PerWinner(pool, b, count) * count[b]
  IN  SumOver(Brackets, Dust)

\* splitBracketPrizes: unwon slices, the dust of each, and what the split left over.
NextRollover(pool, count) ==
  LET Dust(b) == Slice(pool, b) - PerWinner(pool, b, count) * count[b]
      Share(b) == Slice(pool, b)
  IN  SumOver(Brackets, Dust) + (pool - Burn(pool) - SumOver(Brackets, Share))

-----------------------------------------------------------------------------
(* Tickets. *)

OnSale(p) == eng[p].cur # 0 /\ ~draws[eng[p].cur].due

\* Checks before the transaction: getOpenDraw of whichever engine is asked.
Ask(u, p, kind, n) ==
  /\ buy[u] = NoBuy /\ OnSale(p) /\ Len(tickets) + n <= MaxTickets
  /\ buy' = [buy EXCEPT ![u] = [at |-> kind, d |-> eng[p].cur, n |-> n]]
  /\ UNCHANGED <<accountVars, draws, tickets, spent, eng, lease, budget>>

\* Mutant: the draw was open when the purchase began.
AsAsked(d) == TRUE

\* assertDrawStillOpen, in the transaction.
StillOpen(d) == draws[d].status = "open"

Sold(u, n, cost) ==
  tickets \o [i \in 1..n |-> [user |-> u, draw |-> buy[u].d, cost |-> cost,
                              prize |-> 0, done |-> FALSE]]

BuyTickets(u) ==
  LET n == buy[u].n
      cost == PerTicket(n) IN
  /\ buy[u].at = "paid" /\ Len(tickets) + n <= MaxTickets
  /\ StillOpen(buy[u].d) /\ CanDebit(u, n * ToLamports(cost))
  /\ bal' = [bal EXCEPT ![u] = @ - n * ToLamports(cost)]
  /\ tickets' = Sold(u, n, cost)
  /\ buy' = [buy EXCEPT ![u] = NoBuy]
  /\ UNCHANGED <<totalWon, totalLost, draws, spent, eng, lease, budget>>

\* Mutant: the balance of earned tickets was read before the transaction.
EarnedWhenAsked(u) == TRUE

\* The guarded UPDATE of the watermark.
HasEarned(u) == spent[u] < Earned

UseFreeTicket(u) ==
  /\ buy[u].at = "free" /\ Len(tickets) < MaxTickets
  /\ StillOpen(buy[u].d) /\ HasEarned(u)
  /\ spent' = [spent EXCEPT ![u] = @ + 1]
  /\ tickets' = Sold(u, 1, 0)
  /\ buy' = [buy EXCEPT ![u] = NoBuy]
  /\ UNCHANGED <<accountVars, draws, eng, lease, budget>>

\* The transaction is refused or fails.
BuyRejected(u) ==
  /\ buy[u] # NoBuy
  /\ buy' = [buy EXCEPT ![u] = NoBuy]
  /\ UNCHANGED <<accountVars, draws, tickets, spent, eng, lease, budget>>

\* drawAt passes.
DrawTime(d) ==
  /\ draws[d].status = "open" /\ ~draws[d].due
  /\ draws' = [draws EXCEPT ![d].due = TRUE]
  /\ UNCHANGED <<accountVars, tickets, spent, buy, eng, lease, budget>>

-----------------------------------------------------------------------------
(* Leadership. *)

Set(p, e) == eng' = [eng EXCEPT ![p] = e]
Idle == UNCHANGED <<accountVars, draws, tickets, spent, buy, lease, budget>>

\* assumeLeadership starts the boot sequence; the timers of the loop are cleared.
Elect(p) ==
  /\ lease = {} /\ ~eng[p].lead /\ eng[p].boot.at = "no"
  /\ budget.elections < MaxElections
  /\ lease' = {p}
  /\ budget' = [budget EXCEPT !.elections = @ + 1]
  /\ Set(p, [eng[p] EXCEPT !.lead = TRUE, !.reboot = FALSE, !.boot.at = "scan"])
  /\ UNCHANGED <<accountVars, draws, tickets, spent, buy>>

\* The lease runs out; the engine still believes that it leads ...
LeaseExpires ==
  /\ lease # {}
  /\ lease' = {}
  /\ UNCHANGED <<accountVars, draws, tickets, spent, buy, eng, budget>>

\* ... until its next tick.  What it has under way goes on.
Demote(p) ==
  /\ eng[p].lead /\ p \notin lease
  /\ Set(p, [eng[p] EXCEPT !.lead = FALSE, !.reboot = FALSE])
  /\ Idle

Crash(p) ==
  /\ eng[p] # Standby /\ budget.mishaps < MaxMishaps
  /\ Set(p, Standby)
  /\ lease' = lease \ {p}
  /\ budget' = [budget EXCEPT !.mishaps = @ + 1]
  /\ UNCHANGED <<accountVars, draws, tickets, spent, buy>>

-----------------------------------------------------------------------------
(* Boot: settle what is due, resume what is not, else open a draw. *)

OpenDraws == {d \in DOMAIN draws : draws[d].status = "open"}
Newest(S) == CHOOSE d \in S : \A e \in S : e <= d
Oldest(S) == CHOOSE d \in S : \A e \in S : d <= e

\* The newest draw that is not due stays live; the others are settled, oldest first.
Scan(p) ==
  LET live == {d \in OpenDraws : ~draws[d].due}
      keep == IF live = {} THEN 0 ELSE Newest(live) IN
  /\ eng[p].boot.at = "scan"
  /\ Set(p, [eng[p] EXCEPT !.reboot = FALSE,
       !.boot = [at |-> "visit", d |-> keep, roll |-> 0, todo |-> OpenDraws \ {keep}]])
  /\ Idle

\* The next draw becomes the current one and is settled by this flow, unless the
\* other flow is settling: then the boot ends and that draw is left to its retry.
Visit(p) ==
  LET e == eng[p]
      d == Oldest(e.boot.todo) IN
  /\ e.boot.at = "visit" /\ e.boot.todo # {}
  /\ IF e.lead /\ e.st.at = "no"
     THEN Set(p, [e EXCEPT !.cur = d, !.boot.todo = @ \ {d}, !.boot.at = "wait",
                           !.st = [NoFlow EXCEPT !.at = "beacon", !.d = d]])
     ELSE Set(p, [e EXCEPT !.cur = d, !.boot = Standby.boot])
  /\ Idle

\* All visited: resume the live draw, or open one.
Resume(p) ==
  LET e == eng[p] IN
  /\ e.boot.at = "visit" /\ e.boot.todo = {}
  /\ IF e.boot.d # 0
     THEN Set(p, [e EXCEPT !.cur = e.boot.d, !.reboot = FALSE, !.boot = Standby.boot])
     ELSE Set(p, [e EXCEPT !.boot.at = "open"])
  /\ Idle

-----------------------------------------------------------------------------
(* openNewDraw, from either flow f. *)

Flow(p, f) == IF f = "st" THEN eng[p].st ELSE eng[p].boot
SetFlow(e, f, at, roll) ==
  IF f = "st" THEN [e EXCEPT !.st = [NoFlow EXCEPT !.at = at, !.roll = roll]]
  ELSE [e EXCEPT !.boot = [Standby.boot EXCEPT !.at = at, !.roll = roll]]

\* Mutant: the carry stays where it is.
CarryKept(p) == eng[p].carry

\* The carry moves into the draw that is about to be opened.
CarryAfterOpen(p) == 0

OpenNewDraw(p, f) ==
  /\ Flow(p, f).at = "open"
  /\ IF eng[p].lead
     THEN Set(p, [SetFlow(eng[p], f, "create", eng[p].carry) EXCEPT !.carry = CarryAfterOpen(p)])
     ELSE Set(p, SetFlow(eng[p], f, "no", 0))
  /\ Idle

\* The row; then the draw is on sale and its timer armed.
CreateDraw(p, f) ==
  /\ Flow(p, f).at = "create" /\ Len(draws) < MaxDraws
  /\ draws' = Append(draws, [status |-> "open", due |-> FALSE, roll |-> Flow(p, f).roll,
                             pool |-> 0, out |-> 0])
  /\ Set(p, [SetFlow(eng[p], f, "no", 0) EXCEPT !.cur = Len(draws) + 1, !.reboot = FALSE])
  /\ UNCHANGED <<accountVars, tickets, spent, buy, lease, budget>>

\* The database refuses: the boot sequence runs again after a pause.
CreateFails(p, f) ==
  /\ Flow(p, f).at = "create" /\ budget.mishaps < MaxMishaps
  /\ budget' = [budget EXCEPT !.mishaps = @ + 1]
  /\ Set(p, [SetFlow(eng[p], f, "no", 0) EXCEPT !.reboot = TRUE])
  /\ UNCHANGED <<accountVars, draws, tickets, spent, buy, lease>>

BootAgain(p) ==
  /\ eng[p].reboot /\ eng[p].boot.at = "no"
  /\ Set(p, [eng[p] EXCEPT !.reboot = FALSE, !.boot.at = "scan"])
  /\ Idle

-----------------------------------------------------------------------------
(* drawAndSettle. *)

\* The draw's timer, a retry, or the watchdog over a draw that is due: only the
\* leader, and one settlement at a time.
DrawAndSettle(p) ==
  LET e == eng[p] IN
  /\ e.cur # 0 /\ draws[e.cur].due /\ e.lead
  /\ e.st.at = "no" /\ e.boot.at \notin {"visit", "wait"}
  /\ Set(p, [e EXCEPT !.st = [NoFlow EXCEPT !.at = "beacon", !.d = e.cur]])
  /\ Idle

\* forceDraw: an admin draws before the draw is due; nothing asks whether a
\* recovery is under way.
ForceDraw(p) ==
  LET e == eng[p] IN
  /\ e.cur # 0 /\ ~draws[e.cur].due /\ e.lead /\ e.st.at = "no"
  /\ Set(p, [e EXCEPT !.st = [NoFlow EXCEPT !.at = "beacon", !.d = e.cur], !.reboot = FALSE])
  /\ Idle

\* The beacon round of drawAt answers, or the settlement is retried later; before
\* drawAt there is no such round.
Beacon(p) ==
  LET due == draws[eng[p].st.d].due
      retry == [eng[p] EXCEPT !.st = NoFlow,
                              !.boot = IF @.at = "wait" THEN Standby.boot ELSE @] IN
  /\ eng[p].st.at = "beacon"
  /\ \/ due /\ Set(p, [eng[p] EXCEPT !.st.at = "tx"]) /\ UNCHANGED budget
     \/ ~due /\ Set(p, retry) /\ UNCHANGED budget
     \/ /\ due /\ budget.mishaps < MaxMishaps
        /\ budget' = [budget EXCEPT !.mishaps = @ + 1]
        /\ Set(p, retry)
  /\ UNCHANGED <<accountVars, draws, tickets, spent, buy, lease>>

\* Mutant: the draw is settled by its id alone.
SettleAgain(d) == TRUE

Claimable(d) == draws[d].status = "open"

\* Recovery goes on with the next draw; the live path opens a new one.
AfterSettle(e) ==
  IF e.boot.at = "wait" THEN [e EXCEPT !.st = NoFlow, !.boot.at = "visit"]
  ELSE IF e.boot.at = "visit" THEN [e EXCEPT !.st = NoFlow]
  ELSE [e EXCEPT !.st = [NoFlow EXCEPT !.at = "open"]]

\* The rows of a draw's tickets with their prizes.
Drawn(prize) ==
  [t \in DOMAIN tickets |->
     IF t \in DOMAIN prize THEN [tickets[t] EXCEPT !.done = TRUE, !.prize = prize[t]]
     ELSE tickets[t]]

\* The sum over a player's tickets, added to the player's row.
Credited(column, amount) ==
  [u \in Users |-> column[u] + FoldFunctionOnSet(+, 0, amount,
                                  {t \in DOMAIN amount : tickets[t].user = u})]

\* One transaction: bracket every ticket of the draw, pay, count and reveal.
Settle(p) ==
  LET d == eng[p].st.d
      mine == {t \in DOMAIN tickets : tickets[t].draw = d}
      Cost(t) == tickets[t].cost
      pool == SumOver(mine, Cost) + HouseInjection + draws[d].roll IN
  /\ eng[p].st.at = "tx" /\ eng[p].lead /\ Claimable(d)
  /\ \E wins \in [mine -> {0} \cup Brackets] :
       LET count == [b \in Brackets |-> Cardinality({t \in mine : wins[t] = b})]
           prize == [t \in mine |-> IF wins[t] = 0 THEN 0 ELSE PerWinner(pool, wins[t], count)]
           paid == [t \in mine |-> ToLamports(prize[t])]
           out == NextRollover(pool, count) IN
       /\ draws' = [draws EXCEPT ![d].status = "drawn", ![d].pool = pool, ![d].out = out]
       /\ tickets' = Drawn(prize)
       /\ bal' = Credited(bal, paid)
       /\ totalWon' = Credited(totalWon, [t \in mine |-> Profit(paid[t] - ToLamports(Cost(t)))])
       /\ totalLost' = Credited(totalLost, [t \in mine |-> Profit(ToLamports(Cost(t)) - paid[t])])
       /\ Set(p, AfterSettle([eng[p] EXCEPT !.carry = out,
                                            !.cur = IF @ = d THEN 0 ELSE @]))
  /\ UNCHANGED <<spent, buy, lease, budget>>

\* A peer settled it, or the lease is gone: no payment and no new draw.
SettleLost(p) ==
  /\ eng[p].st.at = "tx"
  /\ ~eng[p].lead \/ draws[eng[p].st.d].status # "open"
  /\ Set(p, [eng[p] EXCEPT !.st = NoFlow,
                           !.boot.at = IF @ = "wait" THEN "visit" ELSE @])
  /\ Idle

Next ==
  \/ \E u \in Users :
       \/ \E p \in Engines : Ask(u, p, "free", 1) \/ \E n \in Batches : Ask(u, p, "paid", n)
       \/ BuyTickets(u) \/ UseFreeTicket(u) \/ BuyRejected(u)
  \/ \E d \in DOMAIN draws : DrawTime(d)
  \/ \E p \in Engines :
       \/ Elect(p) \/ Demote(p) \/ Crash(p) \/ Scan(p) \/ Visit(p) \/ Resume(p)
       \/ \E f \in {"st", "boot"} : OpenNewDraw(p, f) \/ CreateDraw(p, f) \/ CreateFails(p, f)
       \/ BootAgain(p) \/ DrawAndSettle(p) \/ ForceDraw(p) \/ Beacon(p) \/ Settle(p) \/ SettleLost(p)
  \/ LeaseExpires

Spec == Init /\ [][Next]_vars

-----------------------------------------------------------------------------
(* No ticket is orphaned and none is paid twice: once a draw is drawn all  *)
(* its tickets are settled, also those bought while it was being settled,  *)
(* and every balance is what was there, plus winnings, less losses and the *)
(* tickets still to be drawn (#212, #215 in lottery.engine.ts).            *)
TicketsSettledOnce ==
  /\ \A t \in DOMAIN tickets : tickets[t].done <=> draws[tickets[t].draw].status = "drawn"
  /\ \A u \in Users :
       LET Open(t) == IF tickets[t].user = u /\ ~tickets[t].done
                      THEN ToLamports(tickets[t].cost) ELSE 0
       IN  bal[u] = Funds + totalWon[u] - totalLost[u] - SumOver(DOMAIN tickets, Open)

(* An earned free ticket is spent once, however many requests run at once  *)
(* (useFreeTicket in lottery.service.ts).                                  *)
FreeTicketsEarned ==
  \A u \in Users : Cardinality({t \in DOMAIN tickets : tickets[t].user = u /\ tickets[t].cost = 0})
                     <= Earned

(* Nothing of a pool is lost in the split: what is burned, paid and rolled *)
(* over is the whole pool (lottery.settlement.ts).                         *)
PoolFullyAllocated ==
  \A d \in DOMAIN draws : draws[d].status = "drawn" =>
    LET Prize(t) == IF tickets[t].draw = d THEN tickets[t].prize ELSE 0
    IN  draws[d].pool = Burn(draws[d].pool) + SumOver(DOMAIN tickets, Prize) + draws[d].out

(* A rollover funds one later draw at most, whatever elections, retries    *)
(* and restarts come in between: the pools never promise more than was     *)
(* carried (carryRolloverScadBase in lottery.engine.ts).                   *)
RolloverUsedOnce ==
  LET In(d) == draws[d].roll
      Out(d) == draws[d].out
      Held(p) == eng[p].carry + eng[p].st.roll + eng[p].boot.roll
  IN  SumOver(DOMAIN draws, In) + SumOver(Engines, Held) <= SumOver(DOMAIN draws, Out)
=============================================================================
