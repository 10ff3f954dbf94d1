------------------------------- MODULE Blackjack -------------------------------
(***************************************************************************)
(* A multiplayer blackjack table (apps/api/src/games/blackjack).           *)
(*                                                                         *)
(* Seats, bets and hands live in the memory of one process.  The HTTP      *)
(* facade moves the money in transactions of its own, a debit before the   *)
(* engine is asked and a credit after it has answered; the engine writes   *)
(* the accepted stakes to the round's stateJson, and a process that starts *)
(* or takes over the table's lease refunds every unfinished round from     *)
(* there.  A hand is abstracted to its outcome.                            *)
(***************************************************************************)
EXTENDS PlayerAccount, Sequences, Functions

CONSTANTS
  Bets,        \* bets a player may place: [main, side]
  SidePays,    \* returns of a side bet, per unit staked
  IdleRounds,  \* BLACKJACK.IDLE_ROUNDS_TO_UNSEAT
  MaxHands,    \* bound: rounds
  BjWindows    \* windows of the code that are left open, see the README

\* A bet has a main stake; "deal" stands for the table itself as a writer.
ASSUME BlackjackAssumption ==
  /\ Bets \subseteq [main : Nat \ {0}, side : Nat] /\ SidePays \subseteq Nat
  /\ IdleRounds \in Nat \ {0} /\ MaxHands \in Nat
  /\ "deal" \notin Users

VARIABLES
  tb,       \* the table: phase, round, whose turn, whether this process leads
  seat,     \* the seat of each player
  hands,    \* BlackjackRound rows, one per round opened
  req,      \* each player's request in the facade
  writes,   \* updates of stateJson under way, oldest first
  scan,     \* unfinished rounds a recovery has still to visit
  gone      \* history: money of requests that a crash cut off

bjVars == <<tb, seat, hands, req, writes, scan, gone>>
vars == <<accountVars, bjVars>>

NoBet == [main |-> 0, side |-> 0]
Total(b) == b.main + b.side
NoSeat == [in |-> FALSE, bet |-> NoBet, status |-> "playing", idle |-> 0]
NoReq == [at |-> "idle", bet |-> NoBet, owed |-> 0]
NoTable == [phase |-> "down", round |-> 0, turn |-> {}, leader |-> FALSE]
NewTable == [NoTable EXCEPT !.phase = "idle", !.leader = TRUE]
Doubles == {[b EXCEPT !.main = 2 * @] : b \in Bets}

\* In phase 'betting' the code is "opening" until the round is known, "starting"
\* until its timer runs, then "betting".
Betting == {"opening", "starting", "betting"}
Phases == Betting \cup {"down", "idle", "dealing", "turns", "dealer", "settled"}

TypeOK ==
  /\ AccountTypeOK
  /\ tb \in [phase : Phases, round : 0..MaxHands, turn : SUBSET Users, leader : BOOLEAN]
  /\ seat \in [Users -> [in : BOOLEAN, bet : Bets \cup Doubles \cup {NoBet},
                         status : {"playing", "standing", "busted", "blackjack"},
                         idle : 0..IdleRounds]]
  /\ \A i \in DOMAIN hands : hands[i].ended \in BOOLEAN /\ hands[i].snap \in [Users -> Nat]
  /\ req \in [Users -> [at : {"idle", "bet", "open", "write", "double", "doubled", "owed"},
                        bet : Bets \cup Doubles \cup {NoBet}, owed : Nat]]
  /\ scan \subseteq DOMAIN hands
  /\ gone \in [Users -> Nat]

Init ==
  /\ AccountInit
  /\ tb = NewTable
  /\ seat = [u \in Users |-> NoSeat]
  /\ hands = <<>>
  /\ req = [u \in Users |-> NoReq]
  /\ writes = <<>>
  /\ scan = {}
  /\ gone = [u \in Users |-> 0]

Snapshot == [u \in Users |-> Total(seat[u].bet)]
BettingSeats == {u \in Users : seat[u].bet # NoBet}
Unfinished == {i \in DOMAIN hands : ~hands[i].ended}

\* What a player has at stake in round i: the bet in memory while this process is
\* playing the round, else the stake its row records.
AtStake(u, i) ==
  IF i = tb.round /\ tb.phase \in {"starting", "betting", "dealing", "turns", "dealer"}
  THEN Total(seat[u].bet) ELSE hands[i].snap[u]

Held(u) ==
  (IF tb.phase = "opening" THEN Total(seat[u].bet) ELSE 0)
  + FoldFunction(+, 0, [i \in Unfinished |-> AtStake(u, i)])

-----------------------------------------------------------------------------
(* Seats. *)

TakeSeat(u) ==
  /\ tb.phase # "down" /\ ~seat[u].in
  /\ seat' = [seat EXCEPT ![u] = [NoSeat EXCEPT !.in = TRUE]]
  /\ UNCHANGED <<accountVars, tb, hands, req, writes, scan, gone>>

\* persistBettingStakes: the stakes as they are in memory now, for the round the
\* table knows; with no round yet it returns at once.
Persist(u, seats) ==
  writes' = IF tb.round = 0 THEN writes
            ELSE Append(writes, [round |-> tb.round, by |-> u,
                                 snap |-> [v \in Users |-> Total(seats[v].bet)]])

\* The rest of a request once its write has landed.
Refunding(r) == IF r.owed > 0 THEN [r EXCEPT !.at = "owed"] ELSE NoReq
Waiting(r) == IF tb.round = 0 THEN Refunding(r) ELSE [r EXCEPT !.at = "write"]

\* Leaving with a live bet in the betting window gives it back; in a hand it is
\* refused; otherwise nothing is at stake.
LeaveSeat(u) ==
  /\ tb.phase # "down" /\ seat[u].in /\ req[u] = NoReq
  /\ \/ /\ seat[u].bet # NoBet /\ tb.phase \in Betting
        /\ seat' = [seat EXCEPT ![u] = NoSeat]
        /\ Persist(u, seat')
        /\ req' = [req EXCEPT ![u] = Waiting([NoReq EXCEPT !.owed = Total(seat[u].bet)])]
     \/ /\ seat[u].bet = NoBet \/ tb.phase \in {"idle", "settled"}
        /\ seat' = [seat EXCEPT ![u] = NoSeat]
        /\ UNCHANGED <<req, writes>>
  /\ UNCHANGED <<accountVars, tb, hands, scan, gone>>

-----------------------------------------------------------------------------
(* Betting. *)

\* The facade debits first.
Bet(u, b) ==
  /\ tb.phase # "down" /\ req[u] = NoReq /\ CanDebit(u, Total(b))
  /\ bal' = [bal EXCEPT ![u] = @ - Total(b)]
  /\ req' = [req EXCEPT ![u] = [NoReq EXCEPT !.at = "bet", !.bet = b]]
  /\ UNCHANGED <<totalWon, totalLost, tb, seat, hands, writes, scan, gone>>

\* Mutant: the bets of a settled round stay on the table.
KeepBets(u) == seat[u].bet

\* A bet in the pause after a round starts the next one: every bet of the settled
\* round is dropped first.
Standing(u) == IF tb.phase = "settled" THEN NoBet ELSE seat[u].bet

\* Then the engine takes the bet, or refuses it and the facade gives it back.
PlaceBet(u) ==
  LET b == req[u].bet
      prev == Total(Standing(u))
      taken == [req[u] EXCEPT !.owed = prev] IN
  /\ tb.phase # "down" /\ req[u].at = "bet"
  /\ \/ /\ ~seat[u].in \/ tb.phase \in {"dealing", "turns", "dealer"}
        /\ req' = [req EXCEPT ![u] = [NoReq EXCEPT !.at = "owed", !.owed = Total(b)]]
        /\ UNCHANGED <<tb, seat, writes>>
     \/ /\ seat[u].in /\ tb.phase \in {"idle", "settled"} /\ Len(hands) < MaxHands
        /\ seat' = [v \in Users |-> IF v = u THEN [seat[u] EXCEPT !.bet = b, !.idle = 0]
                                    ELSE [seat[v] EXCEPT !.bet = Standing(v)]]
        /\ tb' = [tb EXCEPT !.phase = "opening"]
        /\ req' = [req EXCEPT ![u] = [taken EXCEPT !.at = "open"]]
        /\ UNCHANGED writes
     \/ /\ seat[u].in /\ tb.phase \in Betting
        /\ tb.phase = "opening" => "bet_while_opening" \in BjWindows
        /\ seat' = [seat EXCEPT ![u].bet = b, ![u].idle = 0]
        /\ Persist(u, seat')
        /\ req' = [req EXCEPT ![u] = Waiting(taken)]
        /\ UNCHANGED tb
  /\ UNCHANGED <<accountVars, hands, scan, gone>>

\* Mutant: the row forgets the bet only when the refund has been paid.
ClearInMemory(u) == /\ req' = [req EXCEPT ![u] = [NoReq EXCEPT !.at = "owed", !.owed = Total(seat[u].bet)]]
                    /\ UNCHANGED writes

\* The cleared bet leaves the row before the facade pays it back.
ClearInRow(u) == /\ Persist(u, seat')
                 /\ req' = [req EXCEPT ![u] = Waiting([NoReq EXCEPT !.owed = Total(seat[u].bet)])]

ClearBet(u) ==
  /\ tb.phase \in Betting /\ seat[u].bet # NoBet /\ req[u] = NoReq
  /\ tb.phase = "opening" => "bet_while_opening" \in BjWindows
  /\ seat' = [seat EXCEPT ![u].bet = NoBet]
  /\ ClearInRow(u)
  /\ UNCHANGED <<accountVars, tb, hands, scan, gone>>

Credit(u) ==
  /\ req[u].at = "owed"
  /\ bal' = [bal EXCEPT ![u] = @ + req[u].owed]
  /\ req' = [req EXCEPT ![u] = NoReq]
  /\ UNCHANGED <<totalWon, totalLost, tb, seat, hands, writes, scan, gone>>

-----------------------------------------------------------------------------
(* The round. *)

\* openBetting creates the seed and the round's row.
OpenBetting(u) ==
  /\ req[u].at = "open" /\ Len(hands) < MaxHands /\ tb.phase = "opening"
  /\ hands' = Append(hands, [snap |-> [v \in Users |-> 0], ended |-> FALSE])
  /\ tb' = [tb EXCEPT !.phase = "starting", !.round = Len(hands) + 1, !.turn = {}]
  /\ seat' = [v \in Users |-> [seat[v] EXCEPT !.status = "playing"]]
  /\ writes' = Append(writes, [round |-> Len(hands) + 1, by |-> u, snap |-> Snapshot])
  /\ req' = [req EXCEPT ![u].at = "write"]
  /\ UNCHANGED <<accountVars, scan, gone>>

\* advanceTurn: a seat that still plays, or the dealer.
NextTurn(seats) ==
  LET playing == {v \in Users : seats[v].bet # NoBet /\ seats[v].status = "playing"} IN
  IF playing = {} THEN tb' = [tb EXCEPT !.phase = "dealer", !.turn = {}]
  ELSE \E v \in playing : tb' = [tb EXCEPT !.phase = "turns", !.turn = {v}]

Rest(i) == SubSeq(writes, 1, i - 1) \o SubSeq(writes, i + 1, Len(writes))

\* An update of stateJson commits, and whoever waited for it goes on.
Land(i) ==
  LET w == writes[i]
      u == w.by IN
  /\ i = 1 \/ "reorder" \in BjWindows
  /\ hands' = [hands EXCEPT ![w.round].snap = w.snap]
  /\ writes' = Rest(i)
  /\ \/ /\ u \in Users /\ req[u].at = "write"
        /\ req' = [req EXCEPT ![u] = Refunding(@)]
        /\ tb' = [tb EXCEPT !.phase = IF @ = "starting" THEN "betting" ELSE @]
        /\ UNCHANGED seat
     \/ /\ u \in Users /\ req[u].at = "doubled"
        /\ req' = [req EXCEPT ![u] = NoReq]
        /\ NextTurn(seat)
        /\ UNCHANGED seat
     \/ /\ u \notin Users
        /\ \E bj \in SUBSET BettingSeats :
             seat' = [v \in Users |-> IF v \in bj THEN [seat[v] EXCEPT !.status = "blackjack"]
                                      ELSE seat[v]]
        /\ NextTurn(seat')
        /\ UNCHANGED req
  /\ UNCHANGED <<accountVars, scan, gone>>

\* The betting window ends.  Seats that sat out too often are freed; with no bet
\* the table goes idle, else the stakes are recorded and the cards are dealt.
Deal ==
  LET sat == [v \in Users |->
        IF ~seat[v].in \/ seat[v].bet # NoBet THEN seat[v]
        ELSE IF seat[v].idle + 1 >= IdleRounds THEN NoSeat
        ELSE [seat[v] EXCEPT !.idle = @ + 1]] IN
  /\ tb.phase = "betting"
  /\ "slow_request" \in BjWindows \/ \A v \in Users : req[v].at # "double"
  /\ seat' = sat
  /\ IF BettingSeats = {}
     THEN /\ tb' = [tb EXCEPT !.phase = "idle"]
          /\ UNCHANGED writes
     ELSE /\ tb' = [tb EXCEPT !.phase = "dealing"]
          /\ writes' = Append(writes, [round |-> tb.round, by |-> "deal", snap |-> Snapshot])
  /\ UNCHANGED <<accountVars, hands, req, scan, gone>>

\* A card: the hand goes on, ends at 21, or is bust.
Hit(u) ==
  /\ tb.phase = "turns" /\ u \in tb.turn /\ seat[u].status = "playing"
  /\ \E st \in {"playing", "standing", "busted"} :
       /\ seat' = [seat EXCEPT ![u].status = st]
       /\ IF st = "playing" THEN UNCHANGED tb ELSE NextTurn(seat')
  /\ UNCHANGED <<accountVars, hands, req, writes, scan, gone>>

\* Standing, or running out of time.
Stand(u) ==
  /\ tb.phase = "turns" /\ u \in tb.turn /\ seat[u].status = "playing"
  /\ seat' = [seat EXCEPT ![u].status = "standing"]
  /\ NextTurn(seat')
  /\ UNCHANGED <<accountVars, hands, req, writes, scan, gone>>

\* A double: the facade reads the main stake and debits it once more ...
DebitDouble(u) ==
  /\ tb.phase # "down" /\ req[u] = NoReq /\ seat[u].bet \in Bets
  /\ CanDebit(u, seat[u].bet.main)
  /\ bal' = [bal EXCEPT ![u] = @ - seat[u].bet.main]
  /\ req' = [req EXCEPT ![u] = [NoReq EXCEPT !.at = "double", !.owed = seat[u].bet.main]]
  /\ UNCHANGED <<totalWon, totalLost, tb, seat, hands, writes, scan, gone>>

\* Mutant: a double is not written to the row.
DoubleInMemory(u) == /\ NextTurn(seat') /\ UNCHANGED writes
                     /\ req' = [req EXCEPT ![u] = NoReq]

\* The doubled stake is in the row before the turn passes on.
DoubleInRow(u) == /\ Persist(u, seat')
                  /\ req' = [req EXCEPT ![u].at = "doubled"]
                  /\ UNCHANGED tb

\* ... the engine doubles it, or refuses and the facade gives it back.
Double(u) ==
  /\ tb.phase # "down" /\ req[u].at = "double"
  /\ \/ /\ tb.phase = "turns" /\ u \in tb.turn
        /\ seat[u].status = "playing" /\ seat[u].bet \in Bets
        /\ \E st \in {"standing", "busted"} :
             seat' = [seat EXCEPT ![u].status = st, ![u].bet.main = 2 * @]
        /\ DoubleInRow(u)
     \/ /\ tb.phase # "turns" \/ u \notin tb.turn
        /\ req' = [req EXCEPT ![u].at = "owed"]
        /\ UNCHANGED <<tb, seat, writes>>
  /\ UNCHANGED <<accountVars, hands, scan, gone>>

\* What a hand pays, given the dealer's.
MainPays(b, status, dealer) ==
  CASE status = "blackjack" -> IF dealer = "blackjack" THEN {b.main}
                               ELSE {(b.main * 5) \div 2}
    [] status = "busted" -> {0}
    [] OTHER -> IF dealer = "blackjack" THEN {0}
                ELSE IF dealer = "bust" THEN {2 * b.main} ELSE {0, b.main, 2 * b.main}

\* Mutant: the row is updated by its id alone.
SettleById(i) == TRUE

\* The guarded flip of endedAt.
Claimable(i) == ~hands[i].ended

\* The dealer has drawn: claim the round, pay and count every seat, reveal.
Settle ==
  /\ tb.phase = "dealer" /\ tb.leader /\ Claimable(tb.round)
  /\ \E dealer \in {"blackjack", "bust", "stands"} :
     \E pay \in [BettingSeats -> 0..12] :
       /\ \A u \in BettingSeats :
            \E m \in MainPays(seat[u].bet, seat[u].status, dealer), x \in SidePays :
              pay[u] = m + x * seat[u].bet.side
       /\ bal' = [u \in Users |-> bal[u] + IF u \in BettingSeats THEN pay[u] ELSE 0]
       /\ totalWon' = [u \in Users |-> totalWon[u] +
            IF u \in BettingSeats THEN Profit(pay[u] - Total(seat[u].bet)) ELSE 0]
       /\ totalLost' = [u \in Users |-> totalLost[u] +
            IF u \in BettingSeats THEN Profit(Total(seat[u].bet) - pay[u]) ELSE 0]
  /\ hands' = [hands EXCEPT ![tb.round].ended = TRUE]
  /\ tb' = [tb EXCEPT !.phase = "settled"]
  /\ UNCHANGED <<seat, req, writes, scan, gone>>

\* The round was settled elsewhere, or the lease is gone: nothing is paid here.
SettleLost ==
  /\ tb.phase = "dealer"
  /\ ~tb.leader \/ hands[tb.round].ended
  /\ tb' = [tb EXCEPT !.phase = "settled"]
  /\ UNCHANGED <<accountVars, seat, hands, req, writes, scan, gone>>

\* The pause after a settled round.
PauseEnds ==
  /\ tb.phase = "settled" /\ tb.leader
  /\ tb' = [tb EXCEPT !.phase = "idle"]
  /\ seat' = [u \in Users |-> [seat[u] EXCEPT !.bet = NoBet]]
  /\ UNCHANGED <<accountVars, hands, req, writes, scan, gone>>

-----------------------------------------------------------------------------
(* Restarts and the lease. *)

\* Of a request that has not been answered the row may record less than was taken.
CutOff(u) ==
  IF req[u] = NoReq THEN gone[u]
  ELSE Funds + totalWon[u] - totalLost[u] - bal[u] - FoldFunction(+, 0, [i \in Unfinished |-> hands[i].snap[u]])

Crash ==
  /\ tb.phase # "down"
  /\ tb' = NoTable
  /\ seat' = [u \in Users |-> NoSeat]
  /\ req' = [u \in Users |-> NoReq]
  /\ writes' = <<>>
  /\ gone' = [u \in Users |-> CutOff(u)]
  /\ scan' = Unfinished
  /\ UNCHANGED <<accountVars, hands>>

\* Another process takes the lease and looks for unfinished rounds.
Usurp ==
  /\ tb.leader /\ tb.round \in Unfinished
  /\ tb.phase = "dealer" \/ "failover_early" \in BjWindows
  /\ scan' = Unfinished
  /\ UNCHANGED <<accountVars, tb, seat, hands, req, writes, gone>>

\* This one notices at its next tick; it may lead again later.
Notice ==
  /\ tb.leader /\ tb.phase = "dealer" /\ scan # {}
  /\ tb' = [tb EXCEPT !.leader = FALSE]
  /\ UNCHANGED <<accountVars, seat, hands, req, writes, scan, gone>>

\* Mutant: a recovery refunds without claiming.
RecoverById(i) == TRUE

Recoverable(i) == ~hands[i].ended

\* recoverStrandedRounds: claim the round and refund what its row records; a
\* round that is already settled is skipped, one that fails is dead-lettered.
RecoverStrandedRound(i) ==
  /\ i \in scan
  /\ scan' = scan \ {i}
  /\ \/ /\ Recoverable(i)
        /\ hands' = [hands EXCEPT ![i].ended = TRUE]
        /\ bal' = [u \in Users |-> bal[u] + hands[i].snap[u]]
     \/ UNCHANGED <<hands, bal>>
  /\ UNCHANGED <<totalWon, totalLost, tb, seat, req, writes, gone>>

\* The table is made once the recovery has run.
CreateTable ==
  /\ tb.phase = "down" /\ scan = {}
  /\ tb' = NewTable
  /\ UNCHANGED <<accountVars, seat, hands, req, writes, scan, gone>>

Next ==
  \/ \E u \in Users :
       \/ TakeSeat(u) \/ LeaveSeat(u) \/ PlaceBet(u) \/ ClearBet(u) \/ Credit(u)
       \/ OpenBetting(u) \/ Hit(u) \/ Stand(u) \/ DebitDouble(u) \/ Double(u)
       \/ \E b \in Bets : Bet(u, b)
  \/ \E i \in DOMAIN writes : Land(i)
  \/ Deal \/ Settle \/ SettleLost \/ PauseEnds
  \/ Crash \/ Usurp \/ Notice \/ CreateTable
  \/ \E i \in scan : RecoverStrandedRound(i)

Spec == Init /\ [][Next]_vars

-----------------------------------------------------------------------------
(* Money is neither lost nor made for a player whose requests have been    *)
(* answered: through restarts, takeovers and replaced, cleared and doubled *)
(* bets the balance is what was there, plus winnings, less losses and what *)
(* is still at stake; a request that a crash cut off may lose its own      *)
(* stake and never gains (blackjack.service.ts, recoverStrandedRounds).    *)
BlackjackBalances ==
  \A u \in Users :
    /\ gone[u] >= 0
    /\ req[u] = NoReq =>
         bal[u] + Held(u) = Funds + totalWon[u] - totalLost[u] - gone[u]

(* No stake rides a hand unpaid and none is forgotten by the row: once the *)
(* cards are out, a player without a request under way has the stake in    *)
(* memory that a recovery would refund (#H1, #68 in blackjack.engine.ts).  *)
StakesOnRecord ==
  tb.phase \in {"turns", "dealer"} =>
    \A u \in Users : req[u] = NoReq => hands[tb.round].snap[u] = Total(seat[u].bet)
=============================================================================
