---------------------------- MODULE MCHouseGames ----------------------------
(***************************************************************************)
(* Coinflip, blackjack and the lottery, one instance of each.  They share  *)
(* nothing but the player's account, which every one of them moves only in *)
(* its own transactions: a behaviour plays one of the three (`game').      *)
(***************************************************************************)
EXTENDS Blackjack, FiniteSets, TLC, Sums

CONSTANTS
  FlipUsers, FlipFunds, Creators, Joiners, Flips, Slots, FlipStake, MaxOpen, Deposit, Anchored,
  Nobody,
  LottoUsers, LottoFunds, Engines, TicketPrice, Discount, Batches, FeeBps, Breakdown, HouseInjection,
  Rate, Unit, Earned, MaxDraws, MaxTickets, MaxElections, MaxMishaps

VARIABLES
  game,
  flip, ask, keys, block, real, grant,
  draws, tickets, spent, buy, eng, lease, budget

flipVars == <<flip, ask, keys, block, real, grant>>
lottoVars == <<draws, tickets, spent, buy, eng, lease, budget>>
houseVars == <<game, accountVars, flipVars, bjVars, lottoVars>>

\* Prize brackets that do not divide evenly.
ThirdAndRest == <<3333, 6667>>

\* A main bet with a side bet.
OneAndOne == {[main |-> 1, side |-> 1]}

Flip == INSTANCE CoinflipProofs WITH Users <- FlipUsers, Funds <- FlipFunds
Lotto == INSTANCE Lottery WITH Users <- LottoUsers, Funds <- LottoFunds

ASSUME FlipAssumption == Flip!FlipConstants

Off == "off"
FlipOff == flip = Off /\ ask = Off /\ keys = Off /\ block = Off /\ real = Off /\ grant = Off
JackOff == /\ tb = Off /\ seat = Off /\ hands = Off /\ req = Off /\ writes = Off
           /\ scan = Off /\ gone = Off
LottoOff == /\ draws = Off /\ tickets = Off /\ spent = Off /\ buy = Off /\ eng = Off
            /\ lease = Off /\ budget = Off

HouseInit ==
  \/ game = "coinflip" /\ Flip!Init /\ JackOff /\ LottoOff
  \/ game = "blackjack" /\ Init /\ FlipOff /\ LottoOff
  \/ game = "lottery" /\ Lotto!Init /\ FlipOff /\ JackOff

HouseNext ==
  \/ game = "coinflip" /\ Flip!Next /\ UNCHANGED <<game, bjVars, lottoVars>>
  \/ game = "blackjack" /\ Next /\ UNCHANGED <<game, flipVars, lottoVars>>
  \/ game = "lottery" /\ Lotto!Next /\ UNCHANGED <<game, flipVars, bjVars>>

HouseSpec == HouseInit /\ [][HouseNext]_houseVars

\* Flips, requests and engines are interchangeable, and so are the players of a table.
Alike == Permutations(Flips) \cup Permutations(Slots) \cup Permutations(Users)
         \cup Permutations(Engines)

-----------------------------------------------------------------------------
(* Whoever joins, cancels, expires or is excluded first, the stakes of a   *)
(* flip are paid out or returned once; play and deposited money never meet *)
(* in a flip; a keyed create opens one flip; a block leaves no joinable    *)
(* flip behind (Coinflip).                                                 *)
FlipsSettleOnce ==
  game = "coinflip" =>
    /\ Flip!TypeOK
    /\ Flip!FlipStakesBalance
    /\ Flip!FlipEconomiesApart
    /\ Flip!FlipKeyedOnce
    /\ Flip!FlipBlockStopsPlay

(* No money is lost or made at a table, whoever settles or refunds it, and *)
(* the row a recovery refunds from knows every stake (Blackjack).          *)
TableMoneyKept ==
  game = "blackjack" => TypeOK /\ BlackjackBalances /\ StakesOnRecord

(* No ticket is orphaned and none is paid twice; an earned free ticket is  *)
(* spent once; burned, paid and rolled over is the whole pool, and a       *)
(* rollover funds one later draw at most (Lottery).                        *)
DrawsSettleOnce ==
  game = "lottery" =>
    /\ Lotto!TypeOK
    /\ Lotto!TicketsSettledOnce
    /\ Lotto!FreeTicketsEarned
    /\ Lotto!PoolFullyAllocated
    /\ Lotto!RolloverUsedOnce
-----------------------------------------------------------------------------
(* What CoinflipProofs says of the steps of a flip, carried over to the    *)
(* behaviours of the three games: the stakes of a flip are settled once,   *)
(* whatever races for it (coinflip.service.ts resolve), for any players,   *)
(* flips, requests in flight and stakes.                                   *)
THEOREM FlipsAlwaysSettleOnce == HouseSpec => []FlipsSettleOnce
<1> DEFINE Inv == game = "coinflip" => Flip!FlipInv
<1>0. FlipFunds \in Nat
  BY FlipAssumption DEF Flip!FlipConstants
<1>1. HouseInit => Inv
  BY <1>0, FlipAssumption, Flip!FlipInit DEF HouseInit
<1>2. Inv /\ [HouseNext]_houseVars => Inv'
  <2> SUFFICES ASSUME Inv, [HouseNext]_houseVars, game' = "coinflip" PROVE Flip!FlipInv'
    OBVIOUS
  <2>1. game = "coinflip" /\ [Flip!Next]_(Flip!vars)
    BY DEF HouseNext, houseVars, Flip!vars, flipVars, Flip!flipVars, accountVars, Flip!accountVars
  <2> QED BY <1>0, <2>1, FlipAssumption, Flip!FlipStep
<1>3. Inv => FlipsSettleOnce
  BY DEF FlipsSettleOnce, Flip!FlipInv
<1> QED BY <1>1, <1>2, <1>3, PTL DEF HouseSpec

-----------------------------------------------------------------------------
(* The blackjack table.  A player's money is in the balance, in a bet that *)
(* a row records, in a bet on its way to the row, or with a request.  The  *)
(* invariant says which, for every phase of the table and of a request:    *)
(* what a row will record when the player's own write has landed is always *)
(* the bet in memory, so that a settlement, a recovery and a crash at any  *)
(* point take the same amount out of the book.                             *)

\* Whoever writes to a row: a player's request, or the table as it deals.
Writer == Users \cup {"deal"}
\* The phases in which the table knows its round.
Live == {"starting", "betting", "dealing", "turns", "dealer"}
\* A request that waits for its write.
Writing == {"write", "doubled"}

\* The write a player waits for, if it is one of round i.
OwnWrites(u, i) == {k \in DOMAIN writes : writes[k].by = u /\ writes[k].round = i}

\* What the row of round i says of a player, or will once the player's own write lands.
Recorded(u, i) ==
  IF OwnWrites(u, i) = {} THEN hands[i].snap[u]
  ELSE writes[CHOOSE k \in OwnWrites(u, i) : TRUE].snap[u]

\* Taken from the balance and in no row: debited before the engine is asked, or to be paid back.
Pending(r) ==
  CASE r.at = "bet" -> Total(r.bet)
    [] r.at \in {"open", "write", "double", "owed"} -> r.owed
    [] OTHER -> 0

\* The types, with those of the rows and of the writes under way.
TableTypes ==
  /\ TypeOK
  /\ hands \in Seq([snap : [Users -> Nat], ended : BOOLEAN])
  /\ writes \in Seq([round : Nat, by : Writer, snap : [Users -> Nat]])

\* A request that opens a round is the only one of its kind, a double was debited for the bet
\* that is on the seat, and who waits for a write has one under way.
RequestOK(u) ==
  /\ req[u].at = "idle" => req[u] = NoReq
  /\ req[u].at = "open" =>
       /\ tb.phase = "opening" /\ req[u].owed = 0
       /\ \A v \in Users : req[v].at = "open" => v = u
  /\ req[u].at = "double" =>
       seat[u].bet = NoBet \/ (seat[u].bet \in Bets /\ req[u].owed = seat[u].bet.main)
  /\ req[u].at = "doubled" => tb.phase = "turns"
  /\ req[u].at \in Writing => \E k \in DOMAIN writes : writes[k].by = u

Requests == \A u \in Users : RequestOK(u)

\* Bets are on the table only while a round is opened or played; while a player is to act the
\* only write is that of the double; a round in play is in no recovery's hands before the dealer
\* draws, and for every player the row records, or will, the bet in memory.
PhaseOK ==
  /\ \A u \in Users : seat[u].in \/ seat[u].bet = NoBet
  /\ tb.phase \in {"down", "idle"} => \A u \in Users : seat[u].bet = NoBet
  /\ tb.phase = "down" => req = [u \in Users |-> NoReq]
  /\ tb.phase = "opening" => \A u \in Users : seat[u].bet # NoBet => req[u].at = "open"
  /\ tb.phase \in {"down", "dealer", "settled"} => writes = <<>>
  /\ tb.phase = "turns" =>
       \E v \in Users :
         /\ tb.turn = {v} /\ seat[v].bet # NoBet
         /\ \A k \in DOMAIN writes :
              writes[k].by = v /\ req[v].at = "doubled" /\ seat[v].status # "playing"
  /\ tb.phase \in Live => /\ tb.round \in DOMAIN hands
                          /\ tb.phase # "dealer" => tb.round \in Unfinished \ scan
                          /\ \A u \in Users : Recorded(u, tb.round) = Total(seat[u].bet)

\* Each writer has one write under way, to a round that has not ended and no recovery visits; a
\* write knows all the earlier ones; until it lands the row is ahead of it by no more than the
\* player is owed; the table's write is the last.
Queue ==
  /\ \A k \in DOMAIN writes : writes[k].round \in Unfinished \ scan
  /\ \A j, k \in DOMAIN writes : writes[j].by = writes[k].by => j = k
  /\ \A k \in DOMAIN writes, u \in Users :
       writes[k].snap[u] = IF \E j \in OwnWrites(u, writes[k].round) : j <= k
                           THEN Recorded(u, writes[k].round)
                           ELSE hands[writes[k].round].snap[u]
  /\ \A k \in DOMAIN writes :
       IF writes[k].by \in Users
       THEN LET u == writes[k].by IN
            /\ req[u].at \in Writing
            /\ hands[writes[k].round].snap[u]
                 <= writes[k].snap[u] + (IF req[u].at = "write" THEN req[u].owed ELSE 0)
       ELSE k = Len(writes) /\ tb.phase = "dealing"

\* What is recorded of a player over the unfinished rounds, and a bet with no round yet.
RecordedStake(u) == SumOver([i \in DOMAIN hands |-> Recorded(u, i)], Unfinished)
OpeningStake(u) == IF tb.phase = "opening" THEN Total(seat[u].bet) ELSE 0

\* Balance, stakes, pending money and losses to crashes add up to what was there and won.
Balanced(u) ==
  bal[u] + OpeningStake(u) + RecordedStake(u) + Pending(req[u]) + gone[u]
    = Funds + totalWon[u] - totalLost[u]

Money == \A u \in Users : Balanced(u)

\* The inductive invariant of a table.
TableInv == TableTypes /\ Requests /\ PhaseOK /\ Queue /\ Money

SeatType == [in : BOOLEAN, bet : Bets \cup Doubles \cup {NoBet},
             status : {"playing", "standing", "busted", "blackjack"}, idle : 0..IdleRounds]
ReqType == [at : {"idle", "bet", "open", "write", "double", "doubled", "owed"},
            bet : Bets \cup Doubles \cup {NoBet}, owed : Nat]
RowType == [snap : [Users -> Nat], ended : BOOLEAN]
WriteType == [round : Nat, by : Writer, snap : [Users -> Nat]]

\* What is bet is a number.
LEMMA BetTypes ==
  \A b \in Bets \cup Doubles \cup {NoBet} :
    b.main \in Nat /\ b.side \in Nat /\ Total(b) \in Nat /\ (b = NoBet => Total(b) = 0)
<1>1. \A b \in Bets : b.main \in Nat /\ b.side \in Nat
  BY BlackjackAssumption
<1>2. \A b \in Doubles : b.main \in Nat /\ b.side \in Nat
  <2> SUFFICES ASSUME NEW a \in Bets
               PROVE  [a EXCEPT !.main = 2 * @].main \in Nat /\ [a EXCEPT !.main = 2 * @].side \in Nat
    BY DEF Doubles
  <2>1. a \in [main : Nat \ {0}, side : Nat]
    BY BlackjackAssumption
  <2> QED BY <2>1
<1>3. NoBet.main = 0 /\ NoBet.side = 0
  BY DEF NoBet
<1> QED BY <1>1, <1>2, <1>3 DEF Total

\* A doubled bet stakes its main part once more.
LEMMA DoubleType ==
  ASSUME NEW b \in Bets
  PROVE  /\ [b EXCEPT !.main = 2 * @] \in Doubles
         /\ [b EXCEPT !.main = 2 * @] # NoBet
         /\ Total([b EXCEPT !.main = 2 * @]) = Total(b) + b.main
<1>1. b \in [main : Nat \ {0}, side : Nat]
  BY BlackjackAssumption
<1>2. [b EXCEPT !.main = 2 * @].main = 2 * b.main /\ [b EXCEPT !.main = 2 * @].side = b.side
  BY <1>1
<1>3. [b EXCEPT !.main = 2 * @] # NoBet
  BY <1>1, <1>2 DEF NoBet
<1> QED BY <1>1, <1>2, <1>3 DEF Doubles, Total

\* No bet is not a bet a player can place.
LEMMA NoBetIsNone == NoBet \notin Bets
  BY BlackjackAssumption DEF NoBet

\* An empty seat and no request have their types.
LEMMA NothingTypes == NoSeat \in SeatType /\ NoReq \in ReqType /\ NoReq.at = "idle" /\ NoReq.owed = 0
  BY BlackjackAssumption DEF NoSeat, SeatType, NoReq, ReqType

\* What a request has taken is an amount.
LEMMA PendingType == \A r \in ReqType : Pending(r) \in Nat /\ r.owed \in Nat /\ Total(r.bet) \in Nat
  BY BetTypes DEF Pending, ReqType

\* The types, each by itself.
LEMMA TypesAre ==
  ASSUME TableTypes
  PROVE  /\ bal \in [Users -> Nat] /\ totalWon \in [Users -> Nat] /\ totalLost \in [Users -> Nat]
         /\ tb \in [phase : Phases, round : 0..MaxHands, turn : SUBSET Users, leader : BOOLEAN]
         /\ seat \in [Users -> SeatType] /\ req \in [Users -> ReqType] /\ gone \in [Users -> Nat]
         /\ scan \subseteq DOMAIN hands
         /\ hands \in Seq(RowType) /\ writes \in Seq(WriteType)
         /\ DOMAIN hands = 1 .. Len(hands) /\ Len(hands) \in Nat
         /\ DOMAIN writes = 1 .. Len(writes) /\ Len(writes) \in Nat
  BY DEF TableTypes, TypeOK, AccountTypeOK, SeatType, ReqType, RowType, WriteType

\* The types again, after a step that keeps each of them.
LEMMA TypesFrom ==
  ASSUME bal' \in [Users -> Nat], totalWon' \in [Users -> Nat], totalLost' \in [Users -> Nat],
         tb' \in [phase : Phases, round : 0..MaxHands, turn : SUBSET Users, leader : BOOLEAN],
         seat' \in [Users -> SeatType], req' \in [Users -> ReqType], gone' \in [Users -> Nat],
         scan' \subseteq DOMAIN hands', hands' \in Seq(RowType), writes' \in Seq(WriteType)
  PROVE  TableTypes'
<1>1. \A i \in DOMAIN hands' : hands'[i] \in RowType
  OBVIOUS
<1>2. \A i \in DOMAIN hands' : hands'[i].ended \in BOOLEAN /\ hands'[i].snap \in [Users -> Nat]
  BY <1>1 DEF RowType
<1> QED BY <1>2 DEF TableTypes, TypeOK, AccountTypeOK, SeatType, ReqType, RowType, WriteType

\* The rounds that have not ended are some of the rows.
LEMMA UnfinishedIs ==
  ASSUME TableTypes
  PROVE  /\ IsFiniteSet(Unfinished) /\ Unfinished \subseteq DOMAIN hands
         /\ IsFiniteSet(DOMAIN hands)
<1>1. IsFiniteSet(DOMAIN hands)
  BY TypesAre, FS_Interval
<1> QED BY <1>1, FS_Subset DEF Unfinished

\* What is recorded of a player in a round is an amount.
LEMMA RecordedType ==
  ASSUME TableTypes, NEW u \in Users, NEW i \in DOMAIN hands
  PROVE  Recorded(u, i) \in Nat /\ hands[i].snap[u] \in Nat
<1>1. hands[i] \in RowType /\ \A k \in DOMAIN writes : writes[k] \in WriteType
  BY TypesAre
<1>2. hands[i].snap[u] \in Nat /\ \A k \in DOMAIN writes : writes[k].snap[u] \in Nat
  BY <1>1 DEF RowType, WriteType
<1>3. OwnWrites(u, i) # {} => (CHOOSE k \in OwnWrites(u, i) : TRUE) \in DOMAIN writes
  BY DEF OwnWrites
<1> QED BY <1>2, <1>3 DEF Recorded

\* A fold over a function is its sum.
LEMMA FoldIsSum == ASSUME NEW f PROVE FoldFunction(+, 0, f) = SumOver(f, DOMAIN f)
  BY DEF FoldFunction, FoldFunctionOnSet, MapThenFoldSet, SumOver, MapThenSumSet

\* As long as no row and no write changes, neither does what is recorded.
LEMMA RecordedSame ==
  ASSUME UNCHANGED <<hands, writes>>
  PROVE  /\ \A u, i : OwnWrites(u, i)' = OwnWrites(u, i) /\ Recorded(u, i)' = Recorded(u, i)
         /\ Unfinished' = Unfinished
         /\ \A u : RecordedStake(u)' = RecordedStake(u)
<1>1. \A u, i : OwnWrites(u, i)' = OwnWrites(u, i)
  BY DEF OwnWrites
<1>2. \A u, i : Recorded(u, i)' = Recorded(u, i)
  BY DEF Recorded, OwnWrites
<1>3. Unfinished' = Unfinished
  BY DEF Unfinished
<1> QED BY <1>1, <1>2, <1>3 DEF RecordedStake

\* A player no write waits for: the row says what is recorded.
LEMMA NotWriting ==
  ASSUME Queue, NEW u \in Users, req[u].at \notin Writing
  PROVE  /\ \A i : OwnWrites(u, i) = {} /\ Recorded(u, i) = hands[i].snap[u]
         /\ \A k \in DOMAIN writes : writes[k].by # u
<1>1. \A k \in DOMAIN writes : writes[k].by # u
  BY DEF Queue
<1> QED BY <1>1 DEF OwnWrites, Recorded

\* The one write of a player.
LEMMA OwnWriteIs ==
  ASSUME Queue, NEW k \in DOMAIN writes, writes[k].by \in Users
  PROVE  /\ OwnWrites(writes[k].by, writes[k].round) = {k}
         /\ Recorded(writes[k].by, writes[k].round) = writes[k].snap[writes[k].by]
         /\ \A i : i # writes[k].round =>
              /\ OwnWrites(writes[k].by, i) = {}
              /\ Recorded(writes[k].by, i) = hands[i].snap[writes[k].by]
<1>1. OwnWrites(writes[k].by, writes[k].round) = {k}
  BY DEF Queue, OwnWrites
<1>2. \A i : i # writes[k].round => OwnWrites(writes[k].by, i) = {}
  BY DEF Queue, OwnWrites
<1> QED BY <1>1, <1>2 DEF Recorded

\* A write is appended: what is recorded changes for its player alone.
LEMMA AppendKeeps ==
  ASSUME TableTypes, Queue, NEW w \in WriteType, writes' = Append(writes, w),
         hands' \in Seq(RowType), DOMAIN hands \subseteq DOMAIN hands',
         \A i \in DOMAIN hands : hands'[i] = hands[i],
         w.round \in DOMAIN hands', \A k \in DOMAIN writes : writes[k].by # w.by,
         \A v \in Users : v # w.by =>
           w.snap[v] = IF w.round \in DOMAIN hands THEN Recorded(v, w.round)
                       ELSE hands'[w.round].snap[v]
  PROVE  /\ \A v \in Users, i \in DOMAIN hands :
              Recorded(v, i)' = IF v = w.by /\ i = w.round THEN w.snap[v] ELSE Recorded(v, i)
         /\ w.round \notin DOMAIN hands =>
              \A v \in Users : Recorded(v, w.round)' = w.snap[v]
         /\ writes' \in Seq(WriteType) /\ Len(writes') = Len(writes) + 1
         /\ DOMAIN writes' = 1 .. Len(writes) + 1
         /\ \A k \in DOMAIN writes : writes'[k] = writes[k]
         /\ writes'[Len(writes) + 1] = w
         /\ \A j, k \in DOMAIN writes' : writes'[j].by = writes'[k].by => j = k
         /\ \A k \in DOMAIN writes', u \in Users :
              writes'[k].snap[u] = IF \E j \in OwnWrites(u, writes[k].round)' : j <= k
                                   THEN Recorded(u, writes[k].round)'
                                   ELSE hands'[writes'[k].round].snap[u]
<1> DEFINE n == Len(writes) + 1
<1>1. /\ DOMAIN writes = 1 .. Len(writes) /\ Len(writes) \in Nat /\ writes \in Seq(WriteType)
      /\ hands \in Seq(RowType)
  BY TypesAre
<1>2. /\ writes' \in Seq(WriteType) /\ Len(writes') = n /\ DOMAIN writes' = 1 .. n
      /\ \A k \in DOMAIN writes : writes'[k] = writes[k]
      /\ writes'[n] = w /\ n \notin DOMAIN writes
      /\ DOMAIN writes' = DOMAIN writes \cup {n}
  BY <1>1
<1>3. \A k \in DOMAIN writes : writes[k].round \in DOMAIN hands
  BY DEF Queue, Unfinished
<1>4. ASSUME NEW v \in Users, NEW i, ~(v = w.by /\ i = w.round)
      PROVE  OwnWrites(v, i)' = OwnWrites(v, i)
  BY <1>2, <1>4 DEF OwnWrites
<1>5. w.by \in Users => OwnWrites(w.by, w.round)' = {n}
  BY <1>2 DEF OwnWrites
<1>6. \A v \in Users, i \in DOMAIN hands :
        Recorded(v, i)' = IF v = w.by /\ i = w.round THEN w.snap[v] ELSE Recorded(v, i)
  <2> SUFFICES ASSUME NEW v \in Users, NEW i \in DOMAIN hands
               PROVE  Recorded(v, i)' = IF v = w.by /\ i = w.round THEN w.snap[v] ELSE Recorded(v, i)
    OBVIOUS
  <2>1. CASE v = w.by /\ i = w.round
    BY <1>2, <1>5, <2>1 DEF Recorded
  <2>2. CASE ~(v = w.by /\ i = w.round)
    <3>1. OwnWrites(v, i)' = OwnWrites(v, i) /\ OwnWrites(v, i) \subseteq DOMAIN writes
      BY <1>4, <2>2 DEF OwnWrites
    <3>2. CASE OwnWrites(v, i) = {}
      BY <2>2, <3>1, <3>2 DEF Recorded
    <3>3. CASE OwnWrites(v, i) # {}
      <4>1. (CHOOSE k \in OwnWrites(v, i) : TRUE) \in DOMAIN writes
        BY <3>1, <3>3
      <4> QED BY <1>2, <2>2, <3>1, <3>3, <4>1 DEF Recorded
    <3> QED BY <3>2, <3>3
  <2> QED BY <2>1, <2>2
<1>7. w.round \notin DOMAIN hands => \A v \in Users : Recorded(v, w.round)' = w.snap[v]
  <2> SUFFICES ASSUME w.round \notin DOMAIN hands, NEW v \in Users
               PROVE  Recorded(v, w.round)' = w.snap[v]
    OBVIOUS
  <2>1. CASE v = w.by
    BY <1>2, <1>5, <2>1 DEF Recorded
  <2>2. CASE v # w.by
    <3>1. OwnWrites(v, w.round) = {}
      BY <1>3 DEF OwnWrites
    <3>2. OwnWrites(v, w.round)' = {}
      BY <1>4, <2>2, <3>1
    <3> QED BY <2>2, <3>2 DEF Recorded
  <2> QED BY <2>1, <2>2
<1>8. \A j, k \in DOMAIN writes' : writes'[j].by = writes'[k].by => j = k
  BY <1>2 DEF Queue
<1>9. ASSUME NEW k \in DOMAIN writes', NEW u \in Users
      PROVE  writes'[k].snap[u] = IF \E j \in OwnWrites(u, writes[k].round)' : j <= k
                                  THEN Recorded(u, writes[k].round)'
                                  ELSE hands'[writes'[k].round].snap[u]
  <2>1. CASE k = n
    <3>1. CASE u = w.by
      BY <1>2, <1>5, <2>1, <3>1 DEF Recorded
    <3>2. CASE u # w.by
      <4>1. OwnWrites(u, w.round)' = OwnWrites(u, w.round) /\ OwnWrites(u, w.round) \subseteq DOMAIN writes
        BY <1>4, <3>2 DEF OwnWrites
      <4>2. \A j \in OwnWrites(u, w.round) : j <= n
        BY <1>1, <4>1
      <4>3. CASE OwnWrites(u, w.round) = {}
        <5>1. w.round \in DOMAIN hands => w.snap[u] = hands[w.round].snap[u]
          BY <3>2, <4>3 DEF Recorded
        <5>2. w.snap[u] = hands'[w.round].snap[u]
          BY <3>2, <5>1
        <5> QED BY <1>2, <2>1, <4>1, <4>3, <5>2
      <4>4. CASE OwnWrites(u, w.round) # {}
        <5>1. w.round \in DOMAIN hands
          BY <1>3, <4>4 DEF OwnWrites
        <5>2. Recorded(u, w.round)' = w.snap[u]
          BY <1>6, <3>2, <5>1
        <5> QED BY <1>2, <2>1, <4>1, <4>2, <4>4, <5>2
      <4> QED BY <4>3, <4>4
    <3> QED BY <3>1, <3>2
  <2>2. CASE k # n
    <3>1. k \in DOMAIN writes /\ writes'[k] = writes[k] /\ k < n
      BY <1>1, <1>2, <2>2
    <3>2. writes[k].snap[u] = IF \E j \in OwnWrites(u, writes[k].round) : j <= k
                              THEN Recorded(u, writes[k].round)
                              ELSE hands[writes[k].round].snap[u]
      BY <3>1 DEF Queue
    <3>3. writes[k].round \in DOMAIN hands /\ hands'[writes[k].round] = hands[writes[k].round]
      BY <1>3, <3>1
    <3>4. CASE u = w.by /\ writes[k].round = w.round
      <4>1. OwnWrites(u, w.round)' = {n} /\ OwnWrites(u, w.round) = {}
        BY <1>5, <3>4 DEF OwnWrites
      <4>2. ~(n <= k) /\ ~\E j \in {n} : j <= k
        BY <1>1, <3>1
      <4> QED BY <3>1, <3>2, <3>3, <3>4, <4>1, <4>2
    <3>5. CASE ~(u = w.by /\ writes[k].round = w.round)
      <4>1. OwnWrites(u, writes[k].round)' = OwnWrites(u, writes[k].round)
        BY <1>4, <3>1, <3>5
      <4>2. Recorded(u, writes[k].round)' = Recorded(u, writes[k].round)
        BY <1>6, <3>1, <3>3, <3>5
      <4> QED BY <3>1, <3>2, <3>3, <4>1, <4>2
    <3> QED BY <3>4, <3>5
  <2> QED BY <2>1, <2>2
<1> QED BY <1>2, <1>6, <1>7, <1>8, <1>9

\* The oldest write leaves the queue.
LEMMA RestIs ==
  ASSUME TableTypes, 1 \in DOMAIN writes, writes' = Rest(1)
  PROVE  /\ writes' \in Seq(WriteType) /\ Len(writes') = Len(writes) - 1
         /\ DOMAIN writes' = 1 .. Len(writes) - 1
         /\ \A k \in DOMAIN writes' : k + 1 \in DOMAIN writes /\ writes'[k] = writes[k + 1]
<1>1. writes \in Seq(WriteType) /\ Len(writes) \in Nat /\ DOMAIN writes = 1 .. Len(writes)
  BY TypesAre
<1>2. SubSeq(writes, 1, 0) = <<>>
  BY <1>1
<1>3. SubSeq(writes, 2, Len(writes)) \in Seq(WriteType)
  BY <1>1
<1>4. writes' = SubSeq(writes, 2, Len(writes))
  BY <1>2, <1>3 DEF Rest
<1>5. Len(writes') = Len(writes) - 1 /\ DOMAIN writes' = 1 .. Len(writes) - 1
  <2>1. Len(SubSeq(writes, 2, Len(writes))) = Len(writes) - 1
    BY <1>1
  <2>2. \A s \in Seq(WriteType) : DOMAIN s = 1 .. Len(s)
    OBVIOUS
  <2> QED BY <1>3, <1>4, <2>1, <2>2
<1>6. ASSUME NEW k \in 1 .. Len(writes) - 1
      PROVE  k + 1 \in DOMAIN writes /\ writes'[k] = writes[k + 1]
  <2>1. SubSeq(writes, 2, Len(writes))[k] = writes[k + 1]
    BY <1>1
  <2> QED BY <1>1, <1>4, <2>1
<1> QED BY <1>3, <1>4, <1>5, <1>6

\* The oldest write lands: its player's row is now what was recorded, and nothing that is
\* recorded changes.
LEMMA LandKeeps ==
  ASSUME TableTypes, Queue, 1 \in DOMAIN writes, writes' = Rest(1),
         hands' = [hands EXCEPT ![writes[1].round].snap = writes[1].snap]
  PROVE  /\ hands' \in Seq(RowType) /\ DOMAIN hands' = DOMAIN hands
         /\ Unfinished' = Unfinished
         /\ \A v \in Users, i \in DOMAIN hands :
              /\ Recorded(v, i)' = Recorded(v, i)
              /\ v # writes[1].by => hands'[i].snap[v] = hands[i].snap[v]
         /\ \A u \in Users : RecordedStake(u)' = RecordedStake(u)
         /\ \A j, k \in DOMAIN writes' : writes'[j].by = writes'[k].by => j = k
         /\ \A k \in DOMAIN writes' : writes'[k].by # writes[1].by
         /\ \A k \in DOMAIN writes', u \in Users :
              writes'[k].snap[u] = IF \E j \in OwnWrites(u, writes[k].round)' : j <= k
                                   THEN Recorded(u, writes[k].round)'
                                   ELSE hands'[writes'[k].round].snap[u]
<1> DEFINE w == writes[1]
<1>1. /\ writes \in Seq(WriteType) /\ Len(writes) \in Nat /\ DOMAIN writes = 1 .. Len(writes)
      /\ hands \in Seq(RowType) /\ DOMAIN hands = 1 .. Len(hands) /\ Len(hands) \in Nat
  BY TypesAre
<1>2. /\ writes' \in Seq(WriteType) /\ Len(writes') = Len(writes) - 1
      /\ DOMAIN writes' = 1 .. Len(writes) - 1
      /\ \A k \in DOMAIN writes' : k + 1 \in DOMAIN writes /\ writes'[k] = writes[k + 1]
  BY RestIs
<1>3. w \in WriteType /\ w.snap \in [Users -> Nat] /\ w.round \in DOMAIN hands
  <2>1. w \in WriteType
    BY <1>1
  <2>2. w.round \in DOMAIN hands
    BY <1>1 DEF Queue, Unfinished
  <2> QED BY <2>1, <2>2 DEF WriteType
<1>4. /\ hands' \in Seq(RowType) /\ DOMAIN hands' = DOMAIN hands
      /\ hands'[w.round] = [hands[w.round] EXCEPT !.snap = w.snap]
      /\ \A i \in DOMAIN hands : i # w.round => hands'[i] = hands[i]
  <2>1. hands[w.round] \in RowType
    BY <1>1, <1>3
  <2>2. [hands[w.round] EXCEPT !.snap = w.snap] \in RowType
    BY <1>3, <2>1 DEF RowType
  <2>3. hands' = [hands EXCEPT ![w.round] = [hands[w.round] EXCEPT !.snap = w.snap]]
    OBVIOUS
  <2> QED BY <1>1, <1>3, <2>2, <2>3
<1>5. \A i \in DOMAIN hands : hands'[i].ended = hands[i].ended
  <2>1. hands[w.round] \in RowType
    BY <1>1, <1>3
  <2>2. hands'[w.round].ended = hands[w.round].ended
    BY <1>4, <2>1 DEF RowType
  <2> QED BY <1>4, <2>2
<1>6. hands'[w.round].snap = w.snap
  <2>1. hands[w.round] \in RowType
    BY <1>1, <1>3
  <2> QED BY <1>4, <2>1 DEF RowType
<1>7. Unfinished' = Unfinished
  BY <1>4, <1>5 DEF Unfinished
<1>8. \A v \in Users : v # w.by => w.snap[v] = hands[w.round].snap[v]
  <2> SUFFICES ASSUME NEW v \in Users, v # w.by PROVE w.snap[v] = hands[w.round].snap[v]
    OBVIOUS
  <2>1. \A j \in OwnWrites(v, w.round) : j \in 1 .. Len(writes) /\ j # 1
    BY <1>1 DEF OwnWrites
  <2>2. ~\E j \in OwnWrites(v, w.round) : j <= 1
    BY <1>1, <2>1
  <2> QED BY <2>2 DEF Queue
<1>9. \A v \in Users, i \in DOMAIN hands : v # w.by => hands'[i].snap[v] = hands[i].snap[v]
  BY <1>4, <1>6, <1>8
<1>10. w.by \in Users => /\ OwnWrites(w.by, w.round) = {1}
                         /\ Recorded(w.by, w.round) = w.snap[w.by]
                         /\ \A i : i # w.round => OwnWrites(w.by, i) = {}
  BY OwnWriteIs
<1>11. \A k \in DOMAIN writes' : writes'[k].by # w.by
  <2> SUFFICES ASSUME NEW k \in DOMAIN writes' PROVE writes'[k].by # w.by
    OBVIOUS
  <2>1. k + 1 \in DOMAIN writes /\ writes'[k] = writes[k + 1] /\ k + 1 # 1
    BY <1>1, <1>2
  <2> QED BY <2>1 DEF Queue
<1>12. ASSUME NEW v \in Users, NEW i, NEW k, k \in OwnWrites(v, i)'
       PROVE  k + 1 \in OwnWrites(v, i) /\ v # w.by
  BY <1>2, <1>11, <1>12 DEF OwnWrites
<1>13. ASSUME NEW v \in Users, NEW i, NEW k, k \in OwnWrites(v, i), v # w.by
       PROVE  k - 1 \in OwnWrites(v, i)' /\ OwnWrites(v, i) = {k} /\ OwnWrites(v, i)' = {k - 1}
  <2>1. k \in DOMAIN writes /\ k # 1 /\ writes[k].by = v /\ writes[k].round = i
    BY <1>13 DEF OwnWrites
  <2>2. OwnWrites(v, i) = {k}
    BY <2>1 DEF OwnWrites, Queue
  <2>3. k - 1 \in DOMAIN writes' /\ (k - 1) + 1 = k /\ k \in Nat
    BY <1>1, <1>2, <2>1
  <2>4. writes'[k - 1] = writes[k]
    BY <1>2, <2>3
  <2>5. k - 1 \in OwnWrites(v, i)'
    BY <2>1, <2>3, <2>4 DEF OwnWrites
  <2>6. \A j \in OwnWrites(v, i)' : j \in 1 .. Len(writes) - 1 /\ j + 1 = k
    BY <1>2, <1>12, <2>2 DEF OwnWrites
  <2>7. OwnWrites(v, i)' = {k - 1}
    BY <1>1, <2>3, <2>5, <2>6
  <2> QED BY <2>2, <2>5, <2>7
<1>14. ASSUME NEW v \in Users, NEW i \in DOMAIN hands
       PROVE  Recorded(v, i)' = Recorded(v, i)
  <2>1. CASE v = w.by
    <3>1. OwnWrites(v, i)' = {}
      BY <1>12, <2>1
    <3>2. CASE i = w.round
      BY <1>6, <1>10, <2>1, <3>1, <3>2 DEF Recorded
    <3>3. CASE i # w.round
      BY <1>4, <1>10, <2>1, <3>1, <3>3 DEF Recorded
    <3> QED BY <3>2, <3>3
  <2>2. CASE v # w.by /\ OwnWrites(v, i) = {}
    <3>1. OwnWrites(v, i)' = {}
      BY <1>12, <2>2
    <3> QED BY <1>9, <2>2, <3>1 DEF Recorded
  <2>3. CASE v # w.by /\ OwnWrites(v, i) # {}
    <3>1. PICK k : k \in OwnWrites(v, i)
      BY <2>3
    <3>2. OwnWrites(v, i) = {k} /\ OwnWrites(v, i)' = {k - 1}
      BY <1>13, <2>3, <3>1
    <3>3. k - 1 \in DOMAIN writes' /\ k \in Nat
      BY <1>1, <3>1, <3>2 DEF OwnWrites
    <3>4. writes'[k - 1] = writes[k]
      BY <1>2, <3>3
    <3> QED BY <3>2, <3>4 DEF Recorded
  <2> QED BY <2>1, <2>2, <2>3
<1>15. \A u \in Users : RecordedStake(u)' = RecordedStake(u)
  <2> SUFFICES ASSUME NEW u \in Users PROVE RecordedStake(u)' = RecordedStake(u)
    OBVIOUS
  <2>1. [i \in DOMAIN hands' |-> Recorded(u, i)'] = [i \in DOMAIN hands |-> Recorded(u, i)]
    BY <1>4, <1>14
  <2> QED BY <1>7, <2>1 DEF RecordedStake
<1>16. \A j, k \in DOMAIN writes' : writes'[j].by = writes'[k].by => j = k
  <2> SUFFICES ASSUME NEW j \in DOMAIN writes', NEW k \in DOMAIN writes',
                      writes'[j].by = writes'[k].by
               PROVE  j = k
    OBVIOUS
  <2>0. /\ j + 1 \in DOMAIN writes /\ k + 1 \in DOMAIN writes
        /\ writes[j + 1].by = writes[k + 1].by
    BY <1>2
  <2>1. j + 1 = k + 1
    BY <2>0 DEF Queue
  <2> QED BY <1>1, <1>2, <2>1
<1>17. ASSUME NEW k \in DOMAIN writes', NEW u \in Users
       PROVE  writes'[k].snap[u] = IF \E j \in OwnWrites(u, writes[k].round)' : j <= k
                                   THEN Recorded(u, writes[k].round)'
                                   ELSE hands'[writes'[k].round].snap[u]
  <2>0. PICK i : i = writes'[k].round
    OBVIOUS
  <2> SUFFICES writes'[k].snap[u] = IF \E j \in OwnWrites(u, i)' : j <= k
                                    THEN Recorded(u, i)' ELSE hands'[i].snap[u]
    BY <2>0
  <2>1. /\ k + 1 \in DOMAIN writes /\ writes'[k] = writes[k + 1] /\ k \in Nat
        /\ writes[k + 1].round = i
    BY <1>1, <1>2, <2>0
  <2>2. i \in DOMAIN hands
    BY <2>1 DEF Queue, Unfinished
  <2>3. writes'[k].snap[u] = IF \E j \in OwnWrites(u, i) : j <= k + 1
                             THEN Recorded(u, i) ELSE hands[i].snap[u]
    BY <2>1 DEF Queue
  <2>4. Recorded(u, i)' = Recorded(u, i)
    BY <1>14, <2>2
  <2>5. CASE u = w.by
    <3>1. OwnWrites(u, i)' = {}
      BY <1>12, <2>5
    <3>2. CASE i = w.round
      <4>1. 1 \in OwnWrites(u, i) /\ 1 <= k + 1
        BY <1>10, <2>1, <2>5, <3>2
      <4>2. writes'[k].snap[u] = Recorded(u, i)
        BY <2>3, <4>1
      <4> QED BY <1>6, <1>10, <2>5, <3>1, <3>2, <4>2
    <3>3. CASE i # w.round
      <4>1. OwnWrites(u, i) = {}
        BY <1>10, <2>5, <3>3
      <4> QED BY <1>4, <2>2, <2>3, <3>1, <3>3, <4>1
    <3> QED BY <3>2, <3>3
  <2>6. CASE u # w.by
    <3>1. (\E j \in OwnWrites(u, i) : j <= k + 1) <=> \E j \in OwnWrites(u, i)' : j <= k
      <4>1. ASSUME NEW j \in OwnWrites(u, i), j <= k + 1 PROVE \E l \in OwnWrites(u, i)' : l <= k
        <5>1. j - 1 \in OwnWrites(u, i)' /\ j \in Nat
          BY <1>1, <1>13, <2>6, <4>1 DEF OwnWrites
        <5> QED BY <2>1, <4>1, <5>1
      <4>2. ASSUME NEW j \in OwnWrites(u, i)', j <= k PROVE \E l \in OwnWrites(u, i) : l <= k + 1
        <5>1. j + 1 \in OwnWrites(u, i) /\ j \in Nat
          BY <1>1, <1>2, <1>12, <4>2 DEF OwnWrites
        <5> QED BY <2>1, <4>2, <5>1
      <4> QED BY <4>1, <4>2
    <3> QED BY <1>9, <2>2, <2>3, <2>4, <2>6, <3>1
  <2> QED BY <2>5, <2>6
<1> QED BY <1>4, <1>7, <1>9, <1>11, <1>14, <1>15, <1>16, <1>17

\* What is recorded of a player is an amount, summed over the unfinished rounds.
LEMMA StakeType ==
  ASSUME TableTypes, NEW u \in Users
  PROVE  /\ RecordedStake(u) \in Nat /\ Pending(req[u]) \in Nat /\ OpeningStake(u) \in Nat
         /\ Total(seat[u].bet) \in Nat /\ req[u].owed \in Nat /\ gone[u] \in Nat
         /\ bal[u] \in Nat /\ totalWon[u] \in Nat /\ totalLost[u] \in Nat
<1>1. seat[u] \in SeatType /\ req[u] \in ReqType
  BY TypesAre
<1>2. Total(seat[u].bet) \in Nat /\ Total(req[u].bet) \in Nat /\ req[u].owed \in Nat
  BY <1>1, BetTypes, PendingType DEF SeatType
<1>3. Pending(req[u]) \in Nat /\ OpeningStake(u) \in Nat
  BY <1>1, <1>2, PendingType DEF OpeningStake
<1>4. RecordedStake(u) \in Nat
  <2> DEFINE f == [i \in DOMAIN hands |-> Recorded(u, i)]
  <2>1. \A i \in Unfinished : f[i] \in Nat
    BY RecordedType, UnfinishedIs
  <2> HIDE DEF f
  <2>2. SumOver(f, Unfinished) \in Nat
    BY <2>1, UnfinishedIs, SumNat
  <2> QED BY <2>2 DEF f, RecordedStake
<1> QED BY <1>2, <1>3, <1>4, TypesAre

\* Money changes its place: a player's account stays balanced.
LEMMA BalanceKept ==
  ASSUME TableInv, NEW u \in Users, bal'[u] \in Nat, Pending(req'[u]) \in Nat,
         UNCHANGED <<totalWon, totalLost, gone>>,
         NEW o \in Nat, OpeningStake(u)' = o, NEW r \in Nat, RecordedStake(u)' = r,
         bal'[u] + o + r + Pending(req'[u])
           = bal[u] + OpeningStake(u) + RecordedStake(u) + Pending(req[u])
  PROVE  Balanced(u)'
<1>1. TableTypes /\ Balanced(u)
  BY DEF TableInv, Money
<1>2. /\ bal[u] \in Nat /\ OpeningStake(u) \in Nat /\ RecordedStake(u) \in Nat
      /\ Pending(req[u]) \in Nat /\ gone[u] \in Nat
  BY <1>1, StakeType
<1>3. bal'[u] + o + r + Pending(req'[u]) + gone[u]
        = bal[u] + OpeningStake(u) + RecordedStake(u) + Pending(req[u]) + gone[u]
  BY <1>2
<1>4. bal'[u] + OpeningStake(u)' + RecordedStake(u)' + Pending(req'[u]) + gone'[u]
        = Funds + totalWon'[u] - totalLost'[u]
  BY <1>1, <1>3 DEF Balanced
<1> QED BY <1>4 DEF Balanced

\* No row, no write and no recovery is involved: a request is opened, answered or paid back,
\* or a seat is taken or left that has nothing at stake.
LEMMA FacadeKeeps ==
  ASSUME TableInv, UNCHANGED <<hands, writes, tb, totalWon, totalLost, gone>>,
         scan' \subseteq scan,
         bal' \in [Users -> Nat], seat' \in [Users -> SeatType], req' \in [Users -> ReqType],
         \A v \in Users :
           /\ \/ seat'[v].bet = seat[v].bet
              \/ tb.phase = "settled" /\ seat'[v].bet = NoBet
           /\ seat'[v].in \/ seat'[v].bet = NoBet
           /\ tb.phase = "turns" => seat'[v].status = seat[v].status \/ seat[v].bet = NoBet,
         \A v \in Users :
           \/ req'[v] = req[v]
           \/ /\ tb.phase # "down"
              /\ req[v].at \notin Writing \cup {"open"}
              /\ \/ req'[v] = NoReq
                 \/ req'[v].at \in {"bet", "owed"}
                 \/ req'[v].at = "double" /\ seat[v].bet \in Bets /\ req'[v].owed = seat[v].bet.main,
         \A v \in Users : bal'[v] + Pending(req'[v]) = bal[v] + Pending(req[v])
  PROVE  TableInv'
<1> USE DEF TableInv
<1>1. TableTypes'
  BY TypesAre, TypesFrom
<1>2. Requests'
  <2> SUFFICES ASSUME NEW u \in Users
               PROVE  RequestOK(u)'
    BY DEF Requests
  <2>1. CASE req'[u] = req[u]
    BY <2>1, NothingTypes DEF Requests, RequestOK, PhaseOK, Writing
  <2>2. CASE req'[u] # req[u]
    BY <2>2, NothingTypes DEF RequestOK, Writing
  <2> QED BY <2>1, <2>2
<1>3. PhaseOK'
  BY RecordedSame, NothingTypes DEF PhaseOK, Writing, Live, Requests, RequestOK
<1>4. Queue'
  BY RecordedSame DEF Queue, Writing
<1>5. Money'
  <2> SUFFICES ASSUME NEW u \in Users PROVE Balanced(u)'
    BY DEF Money
  <2>1. OpeningStake(u)' = OpeningStake(u) /\ RecordedStake(u)' = RecordedStake(u)
    BY RecordedSame DEF OpeningStake
  <2>2. /\ bal'[u] \in Nat /\ Pending(req'[u]) \in Nat /\ bal[u] \in Nat /\ Pending(req[u]) \in Nat
        /\ OpeningStake(u) \in Nat /\ RecordedStake(u) \in Nat
    BY PendingType, StakeType
  <2>3. bal'[u] + Pending(req'[u]) = bal[u] + Pending(req[u])
    OBVIOUS
  <2>4. bal'[u] + OpeningStake(u) + RecordedStake(u) + Pending(req'[u])
          = bal[u] + OpeningStake(u) + RecordedStake(u) + Pending(req[u])
    BY <2>2, <2>3
  <2> HIDE DEF TableInv
  <2> QED BY <2>1, <2>2, <2>4, BalanceKept
<1> QED BY <1>1, <1>2, <1>3, <1>4, <1>5

\* An empty seat has no bet on it (takeSeat).
LEMMA TakeSeatKeeps == ASSUME TableInv, NEW u \in Users, TakeSeat(u) PROVE TableInv'
<1>1. TableTypes /\ PhaseOK
  BY DEF TableInv
<1>2. NoSeat \in SeatType /\ [NoSeat EXCEPT !.in = TRUE] \in SeatType
      /\ [NoSeat EXCEPT !.in = TRUE].in /\ [NoSeat EXCEPT !.in = TRUE].bet = NoBet
  BY NothingTypes DEF SeatType, NoSeat
<1>3. seat[u].bet = NoBet
  BY <1>1 DEF PhaseOK, TakeSeat
<1>4. seat' \in [Users -> SeatType] /\ \A v \in Users :
        /\ seat'[v].bet = seat[v].bet
        /\ seat'[v].in \/ seat'[v].bet = NoBet
        /\ tb.phase = "turns" => seat'[v].status = seat[v].status \/ seat[v].bet = NoBet
  BY <1>1, <1>2, <1>3, TypesAre DEF TakeSeat, PhaseOK
<1>5. req' = req /\ bal' = bal /\ bal \in [Users -> Nat] /\ req \in [Users -> ReqType]
  BY <1>1, TypesAre DEF TakeSeat, accountVars
<1> QED BY <1>4, <1>5, FacadeKeeps DEF TakeSeat, accountVars

\* Leaving with nothing at stake (leaveSeat).
LEMMA LeaveSeatKeeps ==
  ASSUME TableInv, NEW u \in Users, LeaveSeat(u),
         ~(seat[u].bet # NoBet /\ tb.phase \in Betting)
  PROVE  TableInv'
<1>1. TableTypes /\ PhaseOK
  BY DEF TableInv
<1>2. NoSeat \in SeatType /\ NoSeat.bet = NoBet
  BY NothingTypes DEF NoSeat
<1>3. /\ seat[u].bet = NoBet \/ tb.phase \in {"idle", "settled"}
      /\ seat' = [seat EXCEPT ![u] = NoSeat]
      /\ UNCHANGED <<req, writes, accountVars, tb, hands, scan, gone>>
  BY DEF LeaveSeat
<1>4. tb.phase = "idle" => seat[u].bet = NoBet
  BY <1>1 DEF PhaseOK
<1>5. seat' \in [Users -> SeatType] /\ \A v \in Users :
        /\ seat'[v].bet = seat[v].bet \/ (tb.phase = "settled" /\ seat'[v].bet = NoBet)
        /\ seat'[v].in \/ seat'[v].bet = NoBet
        /\ tb.phase = "turns" => seat'[v].status = seat[v].status \/ seat[v].bet = NoBet
  BY <1>1, <1>2, <1>3, <1>4, TypesAre DEF PhaseOK
<1>6. req' = req /\ bal' = bal /\ bal \in [Users -> Nat] /\ req \in [Users -> ReqType]
  BY <1>1, <1>3, TypesAre DEF accountVars
<1> QED BY <1>3, <1>5, <1>6, FacadeKeeps DEF accountVars

\* The facade's debit: what left the balance is with the request.
LEMMA BetKeeps == ASSUME TableInv, NEW u \in Users, NEW b \in Bets, Bet(u, b) PROVE TableInv'
<1>1. /\ TableTypes /\ PhaseOK /\ Total(b) \in Nat
      /\ bal \in [Users -> Nat] /\ req \in [Users -> ReqType] /\ seat \in [Users -> SeatType]
  BY TypesAre, BetTypes DEF TableInv
<1>2. [NoReq EXCEPT !.at = "bet", !.bet = b] \in ReqType
      /\ [NoReq EXCEPT !.at = "bet", !.bet = b].at = "bet"
      /\ [NoReq EXCEPT !.at = "bet", !.bet = b].bet = b
  BY NothingTypes DEF NoReq, ReqType
<1>3. Pending([NoReq EXCEPT !.at = "bet", !.bet = b]) = Total(b) /\ Pending(NoReq) = 0
  BY <1>2, NothingTypes DEF Pending
<1>4. /\ req[u] = NoReq /\ bal[u] >= Total(b) /\ tb.phase # "down"
      /\ bal' = [bal EXCEPT ![u] = bal[u] - Total(b)]
      /\ req' = [req EXCEPT ![u] = [NoReq EXCEPT !.at = "bet", !.bet = b]]
      /\ UNCHANGED <<totalWon, totalLost, tb, seat, hands, writes, scan, gone>>
  BY DEF Bet, CanDebit
<1>5. bal' \in [Users -> Nat] /\ req' \in [Users -> ReqType] /\ seat' \in [Users -> SeatType]
  BY <1>1, <1>2, <1>4
<1>6. \A v \in Users : bal'[v] + Pending(req'[v]) = bal[v] + Pending(req[v])
  <2> SUFFICES ASSUME NEW v \in Users PROVE bal'[v] + Pending(req'[v]) = bal[v] + Pending(req[v])
    OBVIOUS
  <2>1. CASE v = u
    BY <1>1, <1>3, <1>4, <2>1
  <2>2. CASE v # u
    BY <1>1, <1>4, <2>2
  <2> QED BY <2>1, <2>2
<1>7. \A v \in Users : req'[v] = req[v] \/ (req[v].at = "idle" /\ req'[v].at = "bet")
  BY <1>1, <1>2, <1>4, NothingTypes
<1> QED BY <1>1, <1>4, <1>5, <1>6, <1>7, FacadeKeeps DEF PhaseOK, Writing

\* The facade's refund: what the request was owed is in the balance.
LEMMA CreditKeeps == ASSUME TableInv, NEW u \in Users, Credit(u) PROVE TableInv'
<1>1. /\ TableTypes /\ PhaseOK
      /\ bal \in [Users -> Nat] /\ req \in [Users -> ReqType] /\ seat \in [Users -> SeatType]
  BY TypesAre DEF TableInv
<1>2. Pending(req[u]) = req[u].owed /\ Pending(NoReq) = 0 /\ req[u].owed \in Nat
      /\ NoReq \in ReqType /\ NoReq.at = "idle"
  BY <1>1, NothingTypes, PendingType DEF Pending, Credit
<1>3. bal' \in [Users -> Nat] /\ req' \in [Users -> ReqType] /\ seat' \in [Users -> SeatType]
  BY <1>1, <1>2 DEF Credit
<1>4. \A v \in Users : bal'[v] + Pending(req'[v]) = bal[v] + Pending(req[v])
  <2> SUFFICES ASSUME NEW v \in Users PROVE bal'[v] + Pending(req'[v]) = bal[v] + Pending(req[v])
    OBVIOUS
  <2>1. CASE v = u
    BY <1>1, <1>2, <2>1 DEF Credit
  <2>2. CASE v # u
    BY <1>1, <2>2 DEF Credit
  <2> QED BY <2>1, <2>2
<1>5. \A v \in Users : req'[v] = req[v] \/ (req[v].at = "owed" /\ req'[v] = NoReq)
  BY <1>1 DEF Credit
<1>6. tb.phase # "down"
  BY <1>1, <1>2 DEF PhaseOK, Credit
<1> QED BY <1>1, <1>3, <1>4, <1>5, <1>6, FacadeKeeps DEF PhaseOK, Writing, Credit

\* A bet the engine does not take is owed to the player.
LEMMA RefusedBetKeeps ==
  ASSUME TableInv, NEW u \in Users, tb.phase # "down", req[u].at = "bet",
         req' = [req EXCEPT ![u] = [NoReq EXCEPT !.at = "owed", !.owed = Total(req[u].bet)]],
         UNCHANGED <<tb, seat, writes, accountVars, hands, scan, gone>>
  PROVE  TableInv'
<1>1. /\ TableTypes /\ PhaseOK
      /\ bal \in [Users -> Nat] /\ req \in [Users -> ReqType] /\ seat \in [Users -> SeatType]
  BY TypesAre DEF TableInv
<1> DEFINE r == [NoReq EXCEPT !.at = "owed", !.owed = Total(req[u].bet)]
<1>2. Total(req[u].bet) \in Nat
  BY <1>1, PendingType
<1>3. r \in ReqType /\ r.at = "owed" /\ r.owed = Total(req[u].bet)
  BY <1>2, NothingTypes DEF NoReq, ReqType
<1>4. Pending(r) = Total(req[u].bet) /\ Pending(req[u]) = Total(req[u].bet)
  BY <1>3 DEF Pending
<1>5. /\ bal' = bal /\ req' \in [Users -> ReqType]
      /\ \A v \in Users : req'[v] = IF v = u THEN r ELSE req[v]
  BY <1>1, <1>3 DEF accountVars
<1> HIDE DEF r
<1>6. \A v \in Users : bal'[v] + Pending(req'[v]) = bal[v] + Pending(req[v])
  BY <1>4, <1>5
<1>7. \A v \in Users : req'[v] = req[v] \/ (req[v].at = "bet" /\ req'[v].at = "owed")
  BY <1>3, <1>5
<1> QED BY <1>1, <1>5, <1>6, <1>7, FacadeKeeps DEF PhaseOK, Writing, accountVars

\* The facade's debit of a double.
LEMMA DebitDoubleKeeps == ASSUME TableInv, NEW u \in Users, DebitDouble(u) PROVE TableInv'
<1>1. /\ TableTypes /\ PhaseOK
      /\ bal \in [Users -> Nat] /\ req \in [Users -> ReqType] /\ seat \in [Users -> SeatType]
  BY TypesAre DEF TableInv
<1> DEFINE m == seat[u].bet.main
           r == [NoReq EXCEPT !.at = "double", !.owed = m]
<1>2. m \in Nat
  BY BetTypes DEF DebitDouble
<1>3. r \in ReqType /\ r.at = "double" /\ r.owed = m
  BY <1>2, NothingTypes DEF NoReq, ReqType
<1>4. Pending(r) = m /\ Pending(NoReq) = 0
  BY <1>3, NothingTypes DEF Pending
<1>5. /\ req[u] = NoReq /\ bal[u] >= m /\ tb.phase # "down" /\ seat[u].bet \in Bets
      /\ bal' = [bal EXCEPT ![u] = bal[u] - m] /\ req' = [req EXCEPT ![u] = r]
      /\ UNCHANGED <<totalWon, totalLost, tb, seat, hands, writes, scan, gone>>
  BY DEF DebitDouble, CanDebit
<1>6. bal' \in [Users -> Nat] /\ req' \in [Users -> ReqType]
  BY <1>1, <1>2, <1>3, <1>5
<1>7. \A v \in Users : bal'[v] + Pending(req'[v]) = bal[v] + Pending(req[v])
  <2> SUFFICES ASSUME NEW v \in Users PROVE bal'[v] + Pending(req'[v]) = bal[v] + Pending(req[v])
    OBVIOUS
  <2> HIDE DEF r, m
  <2>1. CASE v = u
    BY <1>1, <1>2, <1>4, <1>5, <2>1
  <2>2. CASE v # u
    BY <1>1, <1>5, <2>2
  <2> QED BY <2>1, <2>2
<1>8. \A v \in Users : \/ req'[v] = req[v]
                       \/ /\ req[v].at = "idle" /\ req'[v].at = "double"
                          /\ seat[v].bet \in Bets /\ req'[v].owed = seat[v].bet.main
  BY <1>1, <1>3, <1>5, NothingTypes
<1> HIDE DEF r, m
<1> QED BY <1>1, <1>5, <1>6, <1>7, <1>8, FacadeKeeps DEF PhaseOK, Writing

\* A double the engine refuses is owed to the player.
LEMMA RefusedDoubleKeeps ==
  ASSUME TableInv, NEW u \in Users, tb.phase # "down", req[u].at = "double",
         req' = [req EXCEPT ![u].at = "owed"],
         UNCHANGED <<tb, seat, writes, accountVars, hands, scan, gone>>
  PROVE  TableInv'
<1>1. /\ TableTypes /\ PhaseOK
      /\ bal \in [Users -> Nat] /\ req \in [Users -> ReqType] /\ seat \in [Users -> SeatType]
  BY TypesAre DEF TableInv
<1>2. req[u] \in ReqType /\ [req[u] EXCEPT !.at = "owed"] \in ReqType
      /\ [req[u] EXCEPT !.at = "owed"].at = "owed"
      /\ [req[u] EXCEPT !.at = "owed"].owed = req[u].owed
  BY <1>1 DEF ReqType
<1>3. Pending([req[u] EXCEPT !.at = "owed"]) = req[u].owed /\ Pending(req[u]) = req[u].owed
  BY <1>2 DEF Pending
<1>4. /\ bal' = bal /\ req' \in [Users -> ReqType]
      /\ \A v \in Users : req'[v] = IF v = u THEN [req[u] EXCEPT !.at = "owed"] ELSE req[v]
  BY <1>1, <1>2 DEF accountVars
<1>5. \A v \in Users : bal'[v] + Pending(req'[v]) = bal[v] + Pending(req[v])
  BY <1>3, <1>4
<1>6. \A v \in Users : req'[v] = req[v] \/ (req[v].at = "double" /\ req'[v].at = "owed")
  BY <1>2, <1>4
<1> QED BY <1>1, <1>4, <1>5, <1>6, FacadeKeeps DEF PhaseOK, Writing, accountVars
\* No write is under way and no row changes: the hand is played, the table opens or rests.
LEMMA QuietKeeps ==
  ASSUME TableInv, writes = <<>>,
         UNCHANGED <<hands, writes, req, bal, totalWon, totalLost, gone>>,
         scan' \subseteq DOMAIN hands, seat' \in [Users -> SeatType],
         tb' \in [phase : Phases, round : 0..MaxHands, turn : SUBSET Users, leader : BOOLEAN],
         tb.phase # "opening", tb'.phase \notin {"opening", "down"},
         \A v \in Users : /\ seat'[v].bet \in {seat[v].bet, NoBet}
                          /\ seat'[v].in \/ seat'[v].bet = NoBet,
         tb'.phase = "idle" => \A v \in Users : seat'[v].bet = NoBet,
         tb'.phase = "turns" => \E v \in Users : tb'.turn = {v} /\ seat'[v].bet # NoBet,
         tb'.phase \in Live => /\ tb.phase \in Live /\ tb'.round = tb.round
                               /\ tb'.phase # "dealer" => tb.phase # "dealer" /\ scan' = scan
                               /\ \A v \in Users : seat'[v].bet = seat[v].bet
  PROVE  TableInv'
<1> USE DEF TableInv
<1>0. DOMAIN writes = {}
  OBVIOUS
<1>1. TableTypes'
  BY TypesAre, TypesFrom
<1>2. Requests'
  <2> SUFFICES ASSUME NEW u \in Users PROVE RequestOK(u)'
    BY DEF Requests
  <2>1. RequestOK(u) /\ req'[u] = req[u] /\ req[u].at \notin Writing \cup {"open"}
    BY <1>0 DEF Requests, RequestOK
  <2> QED BY <2>1 DEF RequestOK, Writing
<1>3. PhaseOK'
  <2>1. tb'.phase \in Live => /\ tb'.round \in DOMAIN hands'
                              /\ tb'.phase # "dealer" => tb'.round \in (Unfinished \ scan)'
    BY RecordedSame DEF PhaseOK
  <2>2. tb'.phase \in Live => \A u \in Users : Recorded(u, tb.round)' = Total(seat'[u].bet)
    BY RecordedSame DEF PhaseOK
  <2> QED BY <1>0, <2>1, <2>2 DEF PhaseOK
<1>4. Queue'
  BY <1>0 DEF Queue
<1>5. Money'
  <2> SUFFICES ASSUME NEW u \in Users PROVE Balanced(u)'
    BY DEF Money
  <2>1. OpeningStake(u)' = 0 /\ OpeningStake(u) = 0 /\ RecordedStake(u)' = RecordedStake(u)
    BY RecordedSame DEF OpeningStake
  <2>2. bal'[u] \in Nat /\ Pending(req'[u]) \in Nat /\ RecordedStake(u) \in Nat
    BY StakeType
  <2> HIDE DEF TableInv
  <2> QED BY <2>1, <2>2, BalanceKept
<1> QED BY <1>1, <1>2, <1>3, <1>4, <1>5

\* While a player is to act nobody waits for a write.
LEMMA TurnIsQuiet ==
  ASSUME TableInv, tb.phase = "turns", NEW u \in Users, u \in tb.turn, seat[u].status = "playing"
  PROVE  writes = <<>> /\ seat[u].bet # NoBet /\ tb.turn = {u}
<1>1. PICK v \in Users : /\ tb.turn = {v} /\ seat[v].bet # NoBet
                         /\ \A k \in DOMAIN writes : seat[v].status # "playing"
  BY DEF TableInv, PhaseOK
<1>2. v = u /\ DOMAIN writes = {}
  BY <1>1
<1>3. writes \in Seq(WriteType) /\ Len(writes) \in Nat /\ DOMAIN writes = 1 .. Len(writes)
  BY TypesAre DEF TableInv
<1>4. ~(1 \in DOMAIN writes)
  BY <1>2
<1>5. Len(writes) = 0
  BY <1>3, <1>4
<1> QED BY <1>1, <1>2, <1>3, <1>5

\* The turn passes to a player with a bet, or to the dealer (advanceTurn).
LEMMA NextTurnIs ==
  ASSUME TableTypes, NEW seats \in [Users -> SeatType], NextTurn(seats)
  PROVE  /\ tb' \in [phase : Phases, round : 0..MaxHands, turn : SUBSET Users, leader : BOOLEAN]
         /\ tb'.phase \in {"turns", "dealer"} /\ tb'.round = tb.round
         /\ tb'.phase = "turns" => \E v \in Users : tb'.turn = {v} /\ seats[v].bet # NoBet
<1>1. tb \in [phase : Phases, round : 0..MaxHands, turn : SUBSET Users, leader : BOOLEAN]
  BY TypesAre
<1>2. CASE tb' = [tb EXCEPT !.phase = "dealer", !.turn = {}]
  BY <1>1, <1>2 DEF Phases
<1>3. ASSUME NEW v \in Users, seats[v].bet # NoBet, tb' = [tb EXCEPT !.phase = "turns", !.turn = {v}]
      PROVE  /\ tb' \in [phase : Phases, round : 0..MaxHands, turn : SUBSET Users, leader : BOOLEAN]
             /\ tb'.phase = "turns" /\ tb'.round = tb.round /\ tb'.turn = {v}
  BY <1>1, <1>3 DEF Phases
<1> QED BY <1>2, <1>3 DEF NextTurn

\* A hand goes on, or ends: the bets stay.
LEMMA PlayKeeps ==
  ASSUME TableInv, NEW u \in Users, Hit(u) \/ Stand(u)
  PROVE  TableInv'
<1>1. /\ TableTypes /\ PhaseOK /\ tb.phase = "turns" /\ u \in tb.turn /\ seat[u].status = "playing"
      /\ UNCHANGED <<accountVars, hands, req, writes, scan, gone>>
  BY DEF Hit, Stand, TableInv
<1>2. writes = <<>> /\ seat[u].bet # NoBet /\ tb.turn = {u}
  BY <1>1, TurnIsQuiet
<1>3. PICK st \in {"playing", "standing", "busted"} :
        /\ seat' = [seat EXCEPT ![u].status = st]
        /\ UNCHANGED tb \/ NextTurn(seat')
  BY DEF Hit, Stand
<1>4. seat \in [Users -> SeatType] /\ scan \subseteq DOMAIN hands
      /\ tb \in [phase : Phases, round : 0..MaxHands, turn : SUBSET Users, leader : BOOLEAN]
  BY <1>1, TypesAre
<1>5. /\ [seat[u] EXCEPT !.status = st] \in SeatType
      /\ [seat[u] EXCEPT !.status = st].bet = seat[u].bet
      /\ [seat[u] EXCEPT !.status = st].in = seat[u].in
  BY <1>4 DEF SeatType
<1>6. /\ seat' \in [Users -> SeatType]
      /\ \A v \in Users : seat'[v].bet = seat[v].bet /\ (seat'[v].in \/ seat'[v].bet = NoBet)
  BY <1>1, <1>3, <1>4, <1>5 DEF PhaseOK
<1>7. /\ tb' \in [phase : Phases, round : 0..MaxHands, turn : SUBSET Users, leader : BOOLEAN]
      /\ tb'.phase \in {"turns", "dealer"} /\ tb'.round = tb.round
      /\ tb'.phase = "turns" => \E v \in Users : tb'.turn = {v} /\ seat'[v].bet # NoBet
  <2>1. CASE UNCHANGED tb
    BY <1>1, <1>2, <1>4, <1>6, <2>1
  <2>2. CASE NextTurn(seat')
    <3>1. PICK s : s = seat'
      OBVIOUS
    <3> QED BY <1>1, <1>6, <2>2, <3>1, NextTurnIs
  <2> QED BY <1>3, <2>1, <2>2
<1> QED BY <1>1, <1>2, <1>4, <1>6, <1>7, QuietKeeps DEF accountVars, Live

\* A round that was settled elsewhere pays nothing here (settleRound).
LEMMA SettleLostKeeps == ASSUME TableInv, SettleLost PROVE TableInv'
<1>1. /\ TableTypes /\ PhaseOK /\ tb.phase = "dealer" /\ tb' = [tb EXCEPT !.phase = "settled"]
      /\ UNCHANGED <<accountVars, seat, hands, req, writes, scan, gone>>
  BY DEF SettleLost, TableInv
<1>2. /\ tb' \in [phase : Phases, round : 0..MaxHands, turn : SUBSET Users, leader : BOOLEAN]
      /\ tb'.phase = "settled" /\ seat \in [Users -> SeatType] /\ scan \subseteq DOMAIN hands
  BY <1>1, TypesAre DEF Phases
<1>3. writes = <<>> /\ \A v \in Users : seat[v].in \/ seat[v].bet = NoBet
  BY <1>1 DEF PhaseOK
<1> QED BY <1>1, <1>2, <1>3, QuietKeeps DEF accountVars, Live

\* The bets of a settled round are dropped: no row records them any more.
LEMMA PauseEndsKeeps == ASSUME TableInv, PauseEnds PROVE TableInv'
<1>1. /\ TableTypes /\ PhaseOK /\ tb.phase = "settled" /\ tb' = [tb EXCEPT !.phase = "idle"]
      /\ seat' = [v \in Users |-> [seat[v] EXCEPT !.bet = NoBet]]
      /\ UNCHANGED <<accountVars, hands, req, writes, scan, gone>>
  BY DEF PauseEnds, TableInv
<1>2. /\ tb' \in [phase : Phases, round : 0..MaxHands, turn : SUBSET Users, leader : BOOLEAN]
      /\ tb'.phase = "idle" /\ seat \in [Users -> SeatType] /\ scan \subseteq DOMAIN hands
  BY <1>1, TypesAre DEF Phases
<1>3. \A v \in Users : /\ [seat[v] EXCEPT !.bet = NoBet] \in SeatType
                       /\ [seat[v] EXCEPT !.bet = NoBet].bet = NoBet
  BY <1>2 DEF SeatType
<1>4. seat' \in [Users -> SeatType] /\ \A v \in Users : seat'[v].bet = NoBet
  BY <1>1, <1>3
<1>5. writes = <<>>
  BY <1>1 DEF PhaseOK
<1> QED BY <1>1, <1>2, <1>4, <1>5, QuietKeeps DEF accountVars, Live

\* A recovery elsewhere and the end of the lease leave the hand to the dealer.
LEMMA TakeoverKeeps == ASSUME TableInv, BjWindows = {}, Usurp \/ Notice PROVE TableInv'
<1>1. /\ TableTypes /\ PhaseOK /\ tb.phase = "dealer" /\ scan' \in {scan, Unfinished}
      /\ tb' = tb \/ tb' = [tb EXCEPT !.leader = FALSE]
      /\ UNCHANGED <<accountVars, seat, hands, req, writes, gone>>
  BY DEF Usurp, Notice, TableInv
<1>2. /\ tb' \in [phase : Phases, round : 0..MaxHands, turn : SUBSET Users, leader : BOOLEAN]
      /\ tb'.phase = "dealer" /\ tb'.round = tb.round
      /\ seat \in [Users -> SeatType] /\ scan' \subseteq DOMAIN hands
  BY <1>1, TypesAre, UnfinishedIs DEF Phases
<1>3. writes = <<>> /\ \A v \in Users : seat[v].in \/ seat[v].bet = NoBet
  BY <1>1 DEF PhaseOK
<1> QED BY <1>1, <1>2, <1>3, QuietKeeps DEF accountVars, Live

\* A new table is empty: recovery has run.
LEMMA CreateTableKeeps == ASSUME TableInv, CreateTable PROVE TableInv'
<1>1. /\ TableTypes /\ PhaseOK /\ tb.phase = "down" /\ tb' = NewTable
      /\ UNCHANGED <<accountVars, seat, hands, req, writes, scan, gone>>
  BY DEF CreateTable, TableInv
<1>2. /\ tb' \in [phase : Phases, round : 0..MaxHands, turn : SUBSET Users, leader : BOOLEAN]
      /\ tb'.phase = "idle" /\ seat \in [Users -> SeatType] /\ scan \subseteq DOMAIN hands
  <2>1. 0 \in 0..MaxHands
    BY BlackjackAssumption
  <2>2. tb' = [phase |-> "idle", round |-> 0, turn |-> {}, leader |-> TRUE]
    BY <1>1 DEF NewTable, NoTable
  <2> QED BY <1>1, <2>1, <2>2, TypesAre DEF Phases
<1>3. writes = <<>> /\ \A v \in Users : seat[v].bet = NoBet
  BY <1>1 DEF PhaseOK
<1> QED BY <1>1, <1>2, <1>3, QuietKeeps DEF accountVars, Live

\* What is recorded changes in one round: so does the sum, by as much.
LEMMA StakeChanges ==
  ASSUME TableTypes, NEW u \in Users, NEW j \in Unfinished, NEW x \in Nat,
         DOMAIN hands' = DOMAIN hands, Unfinished' = Unfinished,
         \A i \in DOMAIN hands : Recorded(u, i)' = IF i = j THEN x ELSE Recorded(u, i)
  PROVE  /\ RecordedStake(u)' = RecordedStake(u) - Recorded(u, j) + x
         /\ RecordedStake(u)' \in Nat
<1> DEFINE f == [i \in DOMAIN hands |-> Recorded(u, i)]
<1>1. PICK g : g = [i \in DOMAIN hands |-> IF i = j THEN x ELSE Recorded(u, i)]
  OBVIOUS
<1>2. \A i \in Unfinished : f[i] \in Nat /\ g[i] \in Nat /\ (i # j => f[i] = g[i])
  BY <1>1, RecordedType, UnfinishedIs
<1>3. f[j] = Recorded(u, j) /\ g[j] = x
  BY <1>1, UnfinishedIs
<1>4. RecordedStake(u) = SumOver(f, Unfinished)
  BY DEF RecordedStake
<1>5. RecordedStake(u)' = SumOver(g, Unfinished)
  <2>1. [i \in DOMAIN hands' |-> Recorded(u, i)'] = g
    BY <1>1
  <2> QED BY <2>1 DEF RecordedStake
<1> HIDE DEF f
<1>6. SumOver(g, Unfinished) = SumOver(f, Unfinished) - f[j] + g[j]
  BY <1>2, SumChange, UnfinishedIs
<1>7. SumOver(g, Unfinished) \in Nat
  BY <1>2, SumNat, UnfinishedIs
<1> QED BY <1>3, <1>4, <1>5, <1>6, <1>7

\* Nothing that is recorded changes: neither does the sum.
LEMMA StakeStays ==
  ASSUME NEW u \in Users, DOMAIN hands' = DOMAIN hands, Unfinished' = Unfinished,
         \A i \in DOMAIN hands : Recorded(u, i)' = Recorded(u, i)
  PROVE  RecordedStake(u)' = RecordedStake(u)
<1>1. [i \in DOMAIN hands' |-> Recorded(u, i)'] = [i \in DOMAIN hands |-> Recorded(u, i)]
  OBVIOUS
<1> QED BY <1>1 DEF RecordedStake

\* A player's stake changes in memory and is on its way to the row: what the row or the
\* player is still owed makes up for it.
LEMMA RowWriteKeeps ==
  ASSUME TableInv, NEW u \in Users, tb.phase \in {"starting", "betting", "turns"},
         req[u].at \notin Writing,
         UNCHANGED <<hands, tb, accountVars, scan, gone>>,
         seat' \in [Users -> SeatType], req' \in [Users -> ReqType],
         \A v \in Users : v # u => seat'[v] = seat[v] /\ req'[v] = req[v],
         seat'[u].in \/ seat'[u].bet = NoBet,
         req'[u].at = IF tb.phase = "turns" THEN "doubled" ELSE "write",
         writes' = Append(writes, [round |-> tb.round, by |-> u,
                                   snap |-> [v \in Users |-> Total(seat'[v].bet)]]),
         tb.phase = "turns" => /\ writes = <<>> /\ tb.turn = {u}
                               /\ seat'[u].bet # NoBet /\ seat'[u].status # "playing",
         Total(seat[u].bet) <= Total(seat'[u].bet)
                                 + (IF req'[u].at = "write" THEN req'[u].owed ELSE 0),
         Total(seat'[u].bet) + Pending(req'[u]) = Total(seat[u].bet) + Pending(req[u])
  PROVE  TableInv'
<1>1. /\ TableTypes /\ Requests /\ PhaseOK /\ Queue /\ Money
  BY DEF TableInv
<1>2. PICK w : w = [round |-> tb.round, by |-> u, snap |-> [v \in Users |-> Total(seat'[v].bet)]]
  OBVIOUS
<1>3. /\ tb.round \in DOMAIN hands /\ tb.round \in Unfinished \ scan
      /\ \A v \in Users : Recorded(v, tb.round) = Total(seat[v].bet)
  BY <1>1 DEF PhaseOK, Live
<1>4. \A v \in Users : Total(seat'[v].bet) \in Nat
  BY BetTypes DEF SeatType
<1>5. /\ tb \in [phase : Phases, round : 0..MaxHands, turn : SUBSET Users, leader : BOOLEAN]
      /\ hands \in Seq(RowType) /\ writes \in Seq(WriteType) /\ scan \subseteq DOMAIN hands
      /\ DOMAIN writes = 1 .. Len(writes) /\ Len(writes) \in Nat
      /\ bal \in [Users -> Nat] /\ totalWon \in [Users -> Nat] /\ totalLost \in [Users -> Nat]
      /\ gone \in [Users -> Nat]
  BY <1>1, TypesAre
<1>6. /\ w \in WriteType /\ w.round = tb.round /\ w.by = u
      /\ \A v \in Users : w.snap[v] = Total(seat'[v].bet)
  <2>1. tb.round \in Nat
    BY <1>5
  <2>2. [v \in Users |-> Total(seat'[v].bet)] \in [Users -> Nat]
    BY <1>4
  <2> QED BY <1>2, <2>1, <2>2 DEF WriteType, Writer
<1>7. \A k \in DOMAIN writes : writes[k].by # u
  BY <1>1, NotWriting
<1>8. writes' = Append(writes, w)
  BY <1>2
<1>9. /\ \A v \in Users, i \in DOMAIN hands :
           Recorded(v, i)' = IF v = u /\ i = tb.round THEN w.snap[v] ELSE Recorded(v, i)
      /\ writes' \in Seq(WriteType) /\ DOMAIN writes' = 1 .. Len(writes) + 1
      /\ \A k \in DOMAIN writes : writes'[k] = writes[k]
      /\ writes'[Len(writes) + 1] = w
      /\ \A j, k \in DOMAIN writes' : writes'[j].by = writes'[k].by => j = k
      /\ \A k \in DOMAIN writes', v \in Users :
           writes'[k].snap[v] = IF \E j \in OwnWrites(v, writes[k].round)' : j <= k
                                THEN Recorded(v, writes[k].round)'
                                ELSE hands'[writes'[k].round].snap[v]
  <2>1. \A v \in Users : v # w.by =>
          w.snap[v] = IF w.round \in DOMAIN hands THEN Recorded(v, w.round)
                      ELSE hands'[w.round].snap[v]
    BY <1>3, <1>6
  <2>2. /\ hands' \in Seq(RowType) /\ DOMAIN hands \subseteq DOMAIN hands'
        /\ \A i \in DOMAIN hands : hands'[i] = hands[i]
        /\ w.round \in DOMAIN hands'
    BY <1>3, <1>5, <1>6
  <2>3. \A k \in DOMAIN writes : writes[k].by # w.by
    BY <1>6, <1>7
  <2>4. /\ \A v \in Users, i \in DOMAIN hands :
             Recorded(v, i)' = IF v = w.by /\ i = w.round THEN w.snap[v] ELSE Recorded(v, i)
        /\ writes' \in Seq(WriteType) /\ DOMAIN writes' = 1 .. Len(writes) + 1
        /\ \A k \in DOMAIN writes : writes'[k] = writes[k]
        /\ writes'[Len(writes) + 1] = w
        /\ \A j, k \in DOMAIN writes' : writes'[j].by = writes'[k].by => j = k
        /\ \A k \in DOMAIN writes', v \in Users :
             writes'[k].snap[v] = IF \E j \in OwnWrites(v, writes[k].round)' : j <= k
                                  THEN Recorded(v, writes[k].round)'
                                  ELSE hands'[writes'[k].round].snap[v]
    BY <1>1, <1>6, <1>8, <2>1, <2>2, <2>3, AppendKeeps
  <2> QED BY <1>6, <2>4
<1>10. TableTypes'
  BY <1>5, <1>9, TypesFrom DEF accountVars
<1>11. Len(writes) + 1 \in DOMAIN writes' /\ DOMAIN writes \subseteq DOMAIN writes'
  BY <1>5, <1>9
<1>12. Requests'
  <2> SUFFICES ASSUME NEW v \in Users PROVE RequestOK(v)'
    BY DEF Requests
  <2>1. CASE v = u
    BY <1>6, <1>9, <1>11, <2>1 DEF RequestOK, Writing
  <2>2. CASE v # u
    <3>1. RequestOK(v) /\ req'[v] = req[v] /\ seat'[v] = seat[v]
      BY <1>1, <2>2 DEF Requests
    <3> QED BY <1>9, <1>11, <3>1 DEF RequestOK, Writing
  <2> QED BY <2>1, <2>2
<1>13. PhaseOK'
  <2>1. Unfinished' = Unfinished
    BY DEF Unfinished
  <2>2. \A v \in Users : Recorded(v, tb.round)' = Total(seat'[v].bet)
    BY <1>3, <1>6, <1>9
  <2>3. \A v \in Users : seat'[v].in \/ seat'[v].bet = NoBet
    BY <1>1 DEF PhaseOK
  <2>4. tb.phase = "turns" => DOMAIN writes' = {1} /\ writes'[1].by = u
    BY <1>6, <1>9
  <2> QED BY <1>3, <2>1, <2>2, <2>3, <2>4 DEF PhaseOK
<1>14. Queue'
  <2>1. Unfinished' = Unfinished
    BY DEF Unfinished
  <2>2. ASSUME NEW k \in DOMAIN writes'
        PROVE  /\ writes'[k].round \in Unfinished \ scan
               /\ writes'[k].by \in Users
               /\ req'[writes'[k].by].at \in Writing
               /\ hands[writes'[k].round].snap[writes'[k].by]
                    <= writes'[k].snap[writes'[k].by]
                         + (IF req'[writes'[k].by].at = "write" THEN req'[writes'[k].by].owed ELSE 0)
    <3>1. CASE k = Len(writes) + 1
      <4>1. hands[tb.round].snap[u] = Total(seat[u].bet)
        BY <1>1, <1>3, NotWriting
      <4> QED BY <1>3, <1>6, <1>9, <3>1, <4>1 DEF Writing
    <3>2. CASE k # Len(writes) + 1
      <4>1. k \in DOMAIN writes /\ writes'[k] = writes[k] /\ writes[k].by # u
        BY <1>5, <1>7, <1>9, <3>2
      <4>2. /\ writes[k].round \in Unfinished \ scan
            /\ writes[k].by \in Users
            /\ req[writes[k].by].at \in Writing
            /\ hands[writes[k].round].snap[writes[k].by]
                 <= writes[k].snap[writes[k].by]
                      + (IF req[writes[k].by].at = "write" THEN req[writes[k].by].owed ELSE 0)
        BY <1>1, <4>1 DEF Queue
      <4>3. req'[writes[k].by] = req[writes[k].by]
        BY <4>1, <4>2
      <4> QED BY <4>1, <4>2, <4>3
    <3> QED BY <3>1, <3>2
  <2> QED BY <1>9, <2>1, <2>2 DEF Queue
<1>15. Money'
  <2> SUFFICES ASSUME NEW v \in Users PROVE Balanced(v)'
    BY DEF Money
  <2>1. OpeningStake(v)' = 0 /\ OpeningStake(v) = 0
    BY DEF OpeningStake
  <2>2. /\ bal'[v] = bal[v] /\ bal[v] \in Nat
        /\ Pending(req'[v]) \in Nat /\ Pending(req[v]) \in Nat /\ RecordedStake(v) \in Nat
        /\ Total(seat[v].bet) \in Nat /\ Total(seat'[v].bet) \in Nat
    BY <1>1, <1>4, <1>5, PendingType, StakeType DEF accountVars
  <2>3. CASE v # u
    <3>1. RecordedStake(v)' = RecordedStake(v)
      <4>1. \A i \in DOMAIN hands : Recorded(v, i)' = Recorded(v, i)
        BY <1>9, <2>3
      <4>2. Unfinished' = Unfinished /\ DOMAIN hands' = DOMAIN hands
        BY DEF Unfinished
      <4> QED BY <4>1, <4>2, StakeStays
    <3>2. req'[v] = req[v]
      BY <2>3
    <3> QED BY <2>1, <2>2, <3>1, <3>2, BalanceKept DEF accountVars
  <2>4. CASE v = u
    <3>1. /\ RecordedStake(u)' = RecordedStake(u) - Total(seat[u].bet) + Total(seat'[u].bet)
          /\ RecordedStake(u)' \in Nat
      <4>1. \A i \in DOMAIN hands :
              Recorded(u, i)' = IF i = tb.round THEN Total(seat'[u].bet) ELSE Recorded(u, i)
        BY <1>6, <1>9
      <4>2. Unfinished' = Unfinished /\ DOMAIN hands' = DOMAIN hands
        BY DEF Unfinished
      <4>3. Total(seat'[u].bet) \in Nat /\ tb.round \in Unfinished
        BY <1>3, <2>2, <2>4
      <4> QED BY <1>1, <1>3, <4>1, <4>2, <4>3, StakeChanges
    <3>2. PICK r : r = RecordedStake(u)'
      OBVIOUS
    <3>3. bal'[u] + 0 + r + Pending(req'[u])
            = bal[u] + OpeningStake(u) + RecordedStake(u) + Pending(req[u])
      <4>1. PICK a \in Nat, p \in Nat, q \in Nat, s \in Nat, x \in Nat, y \in Nat :
              /\ a = bal[u] /\ p = Pending(req'[u]) /\ q = Pending(req[u])
              /\ s = RecordedStake(u) /\ x = Total(seat[u].bet) /\ y = Total(seat'[u].bet)
        BY <2>2, <2>4
      <4>2. y + p = x + q /\ r = s - x + y
        BY <3>1, <3>2, <4>1
      <4>3. a + 0 + r + p = a + 0 + s + q
        BY <4>2
      <4> QED BY <2>1, <2>2, <2>4, <4>1, <4>3
    <3> QED BY <2>1, <2>2, <2>4, <3>1, <3>2, <3>3, BalanceKept DEF accountVars
  <2> QED BY <2>3, <2>4
<1> QED BY <1>10, <1>12, <1>13, <1>14, <1>15 DEF TableInv
\* In the betting window the round is known: a request that changes a stake waits for the row.
LEMMA WindowWriteKeeps ==
  ASSUME TableInv, NEW u \in Users, tb.phase \in {"starting", "betting"},
         req[u].at \notin Writing, NEW s \in SeatType, NEW r \in ReqType,
         s.in \/ s.bet = NoBet,
         r.owed = Total(seat[u].bet), Total(s.bet) = Pending(req[u]),
         seat' = [seat EXCEPT ![u] = s], req' = [req EXCEPT ![u] = Waiting(r)],
         Persist(u, seat'), UNCHANGED <<hands, tb, accountVars, scan, gone>>
  PROVE  TableInv'
<1>1. /\ TableTypes /\ PhaseOK /\ tb.round \in DOMAIN hands /\ DOMAIN hands = 1 .. Len(hands)
      /\ seat \in [Users -> SeatType] /\ req \in [Users -> ReqType]
  BY TypesAre DEF TableInv, PhaseOK, Live
<1>2. tb.round # 0
  BY <1>1
<1>3. PICK x : x = [r EXCEPT !.at = "write"]
  OBVIOUS
<1>4. x \in ReqType /\ x.at = "write" /\ x.owed = Total(seat[u].bet)
  BY <1>3 DEF ReqType
<1>5. req' = [req EXCEPT ![u] = x]
  BY <1>2, <1>3 DEF Waiting
<1>6. writes' = Append(writes, [round |-> tb.round, by |-> u,
                                snap |-> [v \in Users |-> Total(seat'[v].bet)]])
  BY <1>2 DEF Persist
<1>7. /\ seat' \in [Users -> SeatType] /\ req' \in [Users -> ReqType]
      /\ seat'[u] = s /\ req'[u] = x
      /\ \A v \in Users : v # u => seat'[v] = seat[v] /\ req'[v] = req[v]
  BY <1>1, <1>4, <1>5
<1>8. Total(s.bet) \in Nat /\ Total(seat[u].bet) \in Nat
  BY <1>1, BetTypes DEF SeatType
<1>9. Pending(x) = Total(seat[u].bet)
  BY <1>4 DEF Pending
<1>10. Total(seat[u].bet) <= Total(s.bet) + (IF x.at = "write" THEN x.owed ELSE 0)
  BY <1>4, <1>8
<1>11. Total(s.bet) + Pending(x) = Total(seat[u].bet) + Pending(req[u])
  BY <1>8, <1>9
<1> QED BY <1>4, <1>6, <1>7, <1>10, <1>11, RowWriteKeeps

\* Bets are in the window's rows, or the round is being opened and its one bettor waits.
LEMMA InTheWindow ==
  ASSUME TableInv, NEW u \in Users, tb.phase \in Betting, tb.phase # "opening"
  PROVE  tb.phase \in {"starting", "betting"}
  BY DEF Betting

\* Leaving with a bet in the window gives it back (leaveSeat).
LEMMA LeaveWithBetKeeps ==
  ASSUME TableInv, NEW u \in Users, LeaveSeat(u), seat[u].bet # NoBet, tb.phase \in Betting
  PROVE  TableInv'
<1>1. /\ TableTypes /\ PhaseOK /\ req[u] = NoReq
      /\ seat' = [seat EXCEPT ![u] = NoSeat] /\ Persist(u, seat')
      /\ req' = [req EXCEPT ![u] = Waiting([NoReq EXCEPT !.owed = Total(seat[u].bet)])]
      /\ UNCHANGED <<accountVars, tb, hands, scan, gone>>
  BY DEF TableInv, LeaveSeat, Betting
<1>2. tb.phase \in {"starting", "betting"}
  BY <1>1, NothingTypes DEF PhaseOK, Betting
<1>3. Total(seat[u].bet) \in Nat
  BY <1>1, StakeType
<1>4. PICK r : r = [NoReq EXCEPT !.owed = Total(seat[u].bet)]
  OBVIOUS
<1>5. r \in ReqType /\ r.owed = Total(seat[u].bet)
  BY <1>3, <1>4, NothingTypes DEF NoReq, ReqType
<1>6. NoSeat \in SeatType /\ NoSeat.bet = NoBet /\ Total(NoBet) = 0
  BY NothingTypes, BetTypes DEF NoSeat
<1>7. Pending(req[u]) = 0 /\ req[u].at \notin Writing
  BY <1>1, NothingTypes DEF Pending, Writing
<1> QED BY <1>1, <1>2, <1>4, <1>5, <1>6, <1>7, WindowWriteKeeps

\* A cleared bet leaves the row before it is paid back (clearBet).
LEMMA ClearBetKeeps == ASSUME TableInv, NEW u \in Users, ClearBet(u) PROVE TableInv'
<1>1. /\ TableTypes /\ PhaseOK /\ req[u] = NoReq /\ seat[u].bet # NoBet /\ tb.phase \in Betting
      /\ seat' = [seat EXCEPT ![u] = [seat[u] EXCEPT !.bet = NoBet]] /\ Persist(u, seat')
      /\ req' = [req EXCEPT ![u] = Waiting([NoReq EXCEPT !.owed = Total(seat[u].bet)])]
      /\ UNCHANGED <<accountVars, tb, hands, scan, gone>>
  BY DEF TableInv, ClearBet, ClearInRow
<1>2. tb.phase \in {"starting", "betting"}
  BY <1>1, NothingTypes DEF PhaseOK, Betting
<1>3. Total(seat[u].bet) \in Nat /\ seat[u] \in SeatType
  BY <1>1, StakeType, TypesAre
<1>4. PICK r : r = [NoReq EXCEPT !.owed = Total(seat[u].bet)]
  OBVIOUS
<1>5. r \in ReqType /\ r.owed = Total(seat[u].bet)
  BY <1>3, <1>4, NothingTypes DEF NoReq, ReqType
<1>6. PICK s : s = [seat[u] EXCEPT !.bet = NoBet]
  OBVIOUS
<1>7. s \in SeatType /\ s.bet = NoBet /\ Total(NoBet) = 0
  BY <1>3, <1>6, BetTypes DEF SeatType
<1>8. Pending(req[u]) = 0 /\ req[u].at \notin Writing
  BY <1>1, NothingTypes DEF Pending, Writing
<1> QED BY <1>1, <1>2, <1>4, <1>5, <1>6, <1>7, <1>8, WindowWriteKeeps

\* The bets of a finished round are off the table, those of a round that is open stand.
LEMMA StandingIs ==
  ASSUME TableTypes, PhaseOK, NEW u \in Users
  PROVE  /\ tb.phase \in {"idle", "settled"} => Standing(u) = NoBet
         /\ tb.phase \in Betting => Standing(u) = seat[u].bet
  BY DEF Standing, PhaseOK, Betting

\* A bet that replaces another one: the old one is owed (placeBet).
LEMMA SeatedBetKeeps ==
  ASSUME TableInv, BjWindows = {}, NEW u \in Users, PlaceBet(u),
         seat[u].in, tb.phase \in Betting
  PROVE  TableInv'
<1>1. /\ TableTypes /\ PhaseOK /\ req[u].at = "bet" /\ tb.phase # "opening"
      /\ seat' = [seat EXCEPT ![u] = [seat[u] EXCEPT !.bet = req[u].bet, !.idle = 0]]
      /\ Persist(u, seat')
      /\ req' = [req EXCEPT ![u] = Waiting([req[u] EXCEPT !.owed = Total(Standing(u))])]
      /\ UNCHANGED <<accountVars, tb, hands, scan, gone>>
  BY DEF TableInv, PlaceBet, Betting
<1>2. tb.phase \in {"starting", "betting"} /\ Standing(u) = seat[u].bet
  BY <1>1, StandingIs DEF Betting
<1>3. Total(seat[u].bet) \in Nat /\ seat[u] \in SeatType /\ req[u] \in ReqType
  BY <1>1, StakeType, TypesAre
<1>4. PICK r : r = [req[u] EXCEPT !.owed = Total(seat[u].bet)]
  OBVIOUS
<1>5. r \in ReqType /\ r.owed = Total(seat[u].bet)
  BY <1>3, <1>4 DEF ReqType
<1>6. PICK s : s = [seat[u] EXCEPT !.bet = req[u].bet, !.idle = 0]
  OBVIOUS
<1>7. s \in SeatType /\ s.bet = req[u].bet /\ s.in
  <2>1. 0 \in 0..IdleRounds
    BY BlackjackAssumption
  <2>2. req[u].bet \in Bets \cup Doubles \cup {NoBet}
    BY <1>3 DEF ReqType
  <2> QED BY <1>3, <1>6, <2>1, <2>2 DEF SeatType
<1>8. Pending(req[u]) = Total(req[u].bet) /\ req[u].at \notin Writing
  BY <1>1 DEF Pending, Writing
<1> QED BY <1>1, <1>2, <1>4, <1>5, <1>6, <1>7, <1>8, WindowWriteKeeps

\* A double the engine accepts: what was debited is now in the bet.
LEMMA DoubleKeeps ==
  ASSUME TableInv, NEW u \in Users, req[u].at = "double", tb.phase = "turns", u \in tb.turn,
         seat[u].status = "playing", seat[u].bet \in Bets,
         NEW st \in {"standing", "busted"},
         seat' = [seat EXCEPT ![u].status = st, ![u].bet.main = 2 * @],
         DoubleInRow(u), UNCHANGED <<accountVars, hands, scan, gone>>
  PROVE  TableInv'
<1>1. /\ TableTypes /\ PhaseOK /\ Requests /\ tb.round \in DOMAIN hands /\ DOMAIN hands = 1 .. Len(hands)
      /\ seat \in [Users -> SeatType] /\ req \in [Users -> ReqType]
  BY TypesAre DEF TableInv, PhaseOK, Live
<1>2. writes = <<>> /\ tb.turn = {u}
  BY TurnIsQuiet
<1>3. req[u].owed = seat[u].bet.main
  BY <1>1, NoBetIsNone DEF Requests, RequestOK
<1>4. PICK b : b = [seat[u].bet EXCEPT !.main = 2 * @]
  OBVIOUS
<1>5. b \in Doubles /\ b # NoBet /\ Total(b) = Total(seat[u].bet) + seat[u].bet.main
  BY <1>4, DoubleType
<1>6. PICK s : s = [seat[u] EXCEPT !.status = st, !.bet = b]
  OBVIOUS
<1>7. seat[u] \in SeatType /\ req[u] \in ReqType
  BY <1>1
<1>8. s \in SeatType /\ s.bet = b /\ s.status = st /\ s.in = seat[u].in
  BY <1>5, <1>6, <1>7 DEF SeatType
<1>9. seat' = [seat EXCEPT ![u] = s]
  BY <1>1, <1>4, <1>6, <1>7 DEF SeatType
<1>10. PICK x : x = [req[u] EXCEPT !.at = "doubled"]
  OBVIOUS
<1>11. x \in ReqType /\ x.at = "doubled" /\ req' = [req EXCEPT ![u] = x] /\ UNCHANGED tb
  BY <1>7, <1>10 DEF ReqType, DoubleInRow
<1>12. writes' = Append(writes, [round |-> tb.round, by |-> u,
                                 snap |-> [v \in Users |-> Total(seat'[v].bet)]])
  BY <1>1 DEF Persist, DoubleInRow
<1>13. /\ seat' \in [Users -> SeatType] /\ req' \in [Users -> ReqType]
       /\ seat'[u] = s /\ req'[u] = x
       /\ \A v \in Users : v # u => seat'[v] = seat[v] /\ req'[v] = req[v]
  BY <1>1, <1>8, <1>9, <1>11
<1>14. Pending(x) = 0 /\ Pending(req[u]) = seat[u].bet.main
  BY <1>3, <1>11 DEF Pending
<1>15. Total(seat[u].bet) \in Nat /\ seat[u].bet.main \in Nat
  BY BetTypes
<1>16. Total(b) + 0 = Total(seat[u].bet) + seat[u].bet.main /\ Total(seat[u].bet) <= Total(b) + 0
  BY <1>5, <1>15
<1>17. seat'[u].in
  BY <1>1, <1>8, <1>13, NoBetIsNone DEF PhaseOK
<1>18. Total(seat[u].bet) <= Total(seat'[u].bet) + (IF req'[u].at = "write" THEN req'[u].owed ELSE 0)
  BY <1>8, <1>11, <1>13, <1>16
<1>19. Total(seat'[u].bet) + Pending(req'[u]) = Total(seat[u].bet) + Pending(req[u])
  BY <1>8, <1>13, <1>14, <1>16
<1>20. /\ UNCHANGED <<hands, tb, accountVars, scan, gone>> /\ req[u].at \notin Writing
       /\ req'[u].at = "doubled" /\ seat'[u].bet # NoBet /\ seat'[u].status # "playing"
  BY <1>5, <1>8, <1>11, <1>13 DEF Writing
<1> QED BY <1>2, <1>12, <1>13, <1>17, <1>18, <1>19, <1>20, RowWriteKeeps

\* Seats that sit out are counted and freed: the bets stay.
LEMMA SittingOut ==
  ASSUME TableTypes, PhaseOK, Deal
  PROVE  /\ seat' \in [Users -> SeatType]
         /\ \A v \in Users : seat'[v].bet = seat[v].bet /\ (seat'[v].in \/ seat'[v].bet = NoBet)
<1> DEFINE sat(v) == IF ~seat[v].in \/ seat[v].bet # NoBet THEN seat[v]
                     ELSE IF seat[v].idle + 1 >= IdleRounds THEN NoSeat
                     ELSE [seat[v] EXCEPT !.idle = @ + 1]
<1>1. seat' = [v \in Users |-> sat(v)]
  BY DEF Deal
<1>2. ASSUME NEW v \in Users
      PROVE  sat(v) \in SeatType /\ sat(v).bet = seat[v].bet /\ (sat(v).in \/ sat(v).bet = NoBet)
  <2>1. seat[v] \in SeatType /\ (seat[v].in \/ seat[v].bet = NoBet) /\ seat[v].idle \in 0..IdleRounds
    BY TypesAre DEF SeatType, PhaseOK
  <2>2. CASE ~seat[v].in \/ seat[v].bet # NoBet
    BY <2>1, <2>2
  <2>3. CASE seat[v].in /\ seat[v].bet = NoBet /\ seat[v].idle + 1 >= IdleRounds
    BY <2>3, NothingTypes DEF NoSeat
  <2>4. CASE seat[v].in /\ seat[v].bet = NoBet /\ ~(seat[v].idle + 1 >= IdleRounds)
    <3>1. seat[v].idle + 1 \in 0..IdleRounds
      BY <2>1, <2>4, BlackjackAssumption
    <3>2. [seat[v] EXCEPT !.idle = seat[v].idle + 1] \in SeatType
          /\ [seat[v] EXCEPT !.idle = seat[v].idle + 1].bet = seat[v].bet
          /\ [seat[v] EXCEPT !.idle = seat[v].idle + 1].in = seat[v].in
      BY <2>1, <3>1 DEF SeatType
    <3> QED BY <2>4, <3>2
  <2> QED BY <2>2, <2>3, <2>4
<1> HIDE DEF sat
<1> QED BY <1>1, <1>2

\* Nobody has bet: the table rests.
LEMMA NoDealKeeps == ASSUME TableInv, Deal, BettingSeats = {} PROVE TableInv'
<1>1. /\ TableTypes /\ Requests /\ PhaseOK /\ Queue /\ Money /\ tb.phase = "betting"
      /\ tb' = [tb EXCEPT !.phase = "idle"]
      /\ UNCHANGED <<accountVars, hands, req, writes, scan, gone>>
  BY DEF TableInv, Deal
<1>2. seat' \in [Users -> SeatType] /\ \A v \in Users : seat'[v].bet = NoBet /\ seat[v].bet = NoBet
  BY <1>1, SittingOut DEF BettingSeats
<1>3. /\ tb' \in [phase : Phases, round : 0..MaxHands, turn : SUBSET Users, leader : BOOLEAN]
      /\ tb'.phase = "idle"
  BY <1>1, TypesAre DEF Phases
<1>4. TableTypes'
  BY <1>1, <1>2, <1>3, TypesAre, TypesFrom DEF accountVars
<1>5. Requests'
  <2> SUFFICES ASSUME NEW u \in Users PROVE RequestOK(u)'
    BY DEF Requests
  <2>1. RequestOK(u) /\ req'[u] = req[u]
    BY <1>1 DEF Requests
  <2> QED BY <1>1, <1>2, <1>3, <2>1 DEF RequestOK
<1>6. PhaseOK'
  BY <1>2, <1>3 DEF PhaseOK, Live
<1>7. Queue'
  BY <1>1, RecordedSame DEF Queue
<1>8. Money'
  <2> SUFFICES ASSUME NEW u \in Users PROVE Balanced(u)'
    BY DEF Money
  <2>1. OpeningStake(u)' = 0 /\ OpeningStake(u) = 0 /\ RecordedStake(u)' = RecordedStake(u)
    BY <1>1, <1>3, RecordedSame DEF OpeningStake
  <2>2. bal'[u] = bal[u] /\ bal[u] \in Nat /\ Pending(req'[u]) = Pending(req[u])
        /\ Pending(req[u]) \in Nat /\ RecordedStake(u) \in Nat
    BY <1>1, StakeType DEF accountVars
  <2> QED BY <1>1, <2>1, <2>2, BalanceKept DEF accountVars
<1> QED BY <1>4, <1>5, <1>6, <1>7, <1>8 DEF TableInv

\* The stakes are recorded, then the cards are dealt.
LEMMA DealKeeps == ASSUME TableInv, Deal, BettingSeats # {} PROVE TableInv'
<1>1. /\ TableTypes /\ Requests /\ PhaseOK /\ Queue /\ Money /\ tb.phase = "betting"
      /\ tb' = [tb EXCEPT !.phase = "dealing"]
      /\ UNCHANGED <<accountVars, hands, req, scan, gone>>
  BY DEF TableInv, Deal
<1>2. PICK w : w = [round |-> tb.round, by |-> "deal", snap |-> Snapshot]
  OBVIOUS
<1>3. writes' = Append(writes, w)
  BY <1>2 DEF Deal
<1>4. /\ seat' \in [Users -> SeatType]
      /\ \A v \in Users : seat'[v].bet = seat[v].bet /\ (seat'[v].in \/ seat'[v].bet = NoBet)
  BY <1>1, SittingOut
<1>5. /\ tb.round \in DOMAIN hands /\ tb.round \in Unfinished \ scan
      /\ \A v \in Users : Recorded(v, tb.round) = Total(seat[v].bet)
  BY <1>1 DEF PhaseOK, Live
<1>6. /\ tb \in [phase : Phases, round : 0..MaxHands, turn : SUBSET Users, leader : BOOLEAN]
      /\ hands \in Seq(RowType) /\ writes \in Seq(WriteType) /\ scan \subseteq DOMAIN hands
      /\ DOMAIN writes = 1 .. Len(writes) /\ Len(writes) \in Nat
      /\ bal \in [Users -> Nat] /\ totalWon \in [Users -> Nat] /\ totalLost \in [Users -> Nat]
      /\ gone \in [Users -> Nat] /\ req \in [Users -> ReqType] /\ seat \in [Users -> SeatType]
  BY <1>1, TypesAre
<1>7. /\ tb' \in [phase : Phases, round : 0..MaxHands, turn : SUBSET Users, leader : BOOLEAN]
      /\ tb'.phase = "dealing" /\ tb'.round = tb.round
  BY <1>1, <1>6 DEF Phases
<1>8. /\ w \in WriteType /\ w.round = tb.round /\ w.by = "deal" /\ "deal" \notin Users
      /\ \A v \in Users : w.snap[v] = Total(seat[v].bet)
  <2>1. tb.round \in Nat /\ \A v \in Users : Total(seat[v].bet) \in Nat
    BY <1>1, <1>6, StakeType
  <2>2. Snapshot \in [Users -> Nat] /\ \A v \in Users : Snapshot[v] = Total(seat[v].bet)
    BY <2>1 DEF Snapshot
  <2> QED BY <1>2, <2>1, <2>2, BlackjackAssumption DEF WriteType, Writer
<1>9. \A k \in DOMAIN writes : writes[k].by \in Users
  BY <1>1 DEF Queue
<1>10. /\ \A v \in Users, i \in DOMAIN hands : Recorded(v, i)' = Recorded(v, i)
       /\ writes' \in Seq(WriteType) /\ DOMAIN writes' = 1 .. Len(writes) + 1
       /\ Len(writes') = Len(writes) + 1
       /\ \A k \in DOMAIN writes : writes'[k] = writes[k]
       /\ writes'[Len(writes) + 1] = w
       /\ \A j, k \in DOMAIN writes' : writes'[j].by = writes'[k].by => j = k
       /\ \A k \in DOMAIN writes', v \in Users :
            writes'[k].snap[v] = IF \E j \in OwnWrites(v, writes[k].round)' : j <= k
                                 THEN Recorded(v, writes[k].round)'
                                 ELSE hands'[writes'[k].round].snap[v]
  <2>1. \A v \in Users : v # w.by =>
          w.snap[v] = IF w.round \in DOMAIN hands THEN Recorded(v, w.round)
                      ELSE hands'[w.round].snap[v]
    BY <1>5, <1>8
  <2>2. /\ hands' \in Seq(RowType) /\ DOMAIN hands \subseteq DOMAIN hands'
        /\ \A i \in DOMAIN hands : hands'[i] = hands[i]
        /\ w.round \in DOMAIN hands'
    BY <1>1, <1>5, <1>6, <1>8
  <2>3. \A k \in DOMAIN writes : writes[k].by # w.by
    BY <1>8, <1>9
  <2>4. /\ \A v \in Users, i \in DOMAIN hands :
             Recorded(v, i)' = IF v = w.by /\ i = w.round THEN w.snap[v] ELSE Recorded(v, i)
        /\ writes' \in Seq(WriteType) /\ DOMAIN writes' = 1 .. Len(writes) + 1
        /\ Len(writes') = Len(writes) + 1
        /\ \A k \in DOMAIN writes : writes'[k] = writes[k]
        /\ writes'[Len(writes) + 1] = w
        /\ \A j, k \in DOMAIN writes' : writes'[j].by = writes'[k].by => j = k
        /\ \A k \in DOMAIN writes', v \in Users :
             writes'[k].snap[v] = IF \E j \in OwnWrites(v, writes[k].round)' : j <= k
                                  THEN Recorded(v, writes[k].round)'
                                  ELSE hands'[writes'[k].round].snap[v]
    BY <1>1, <1>3, <1>8, <2>1, <2>2, <2>3, AppendKeeps
  <2> QED BY <1>8, <2>4
<1>11. TableTypes'
  BY <1>1, <1>4, <1>6, <1>7, <1>10, TypesFrom DEF accountVars
<1>12. DOMAIN writes \subseteq DOMAIN writes' /\ Unfinished' = Unfinished
  BY <1>1, <1>6, <1>10 DEF Unfinished
<1>13. Requests'
  <2> SUFFICES ASSUME NEW u \in Users PROVE RequestOK(u)'
    BY DEF Requests
  <2>1. RequestOK(u) /\ req'[u] = req[u] /\ seat'[u].bet = seat[u].bet
    BY <1>1, <1>4 DEF Requests
  <2> QED BY <1>1, <1>7, <1>10, <1>12, <2>1 DEF RequestOK
<1>14. PhaseOK'
  <2>1. \A v \in Users : Recorded(v, tb.round)' = Total(seat'[v].bet)
    BY <1>4, <1>5, <1>7, <1>10
  <2> QED BY <1>1, <1>4, <1>5, <1>7, <1>12, <2>1 DEF PhaseOK
<1>15. Queue'
  <2>1. ASSUME NEW k \in DOMAIN writes'
        PROVE  /\ writes'[k].round \in Unfinished \ scan
               /\ IF writes'[k].by \in Users
                  THEN /\ req[writes'[k].by].at \in Writing
                       /\ hands[writes'[k].round].snap[writes'[k].by]
                            <= writes'[k].snap[writes'[k].by]
                                 + (IF req[writes'[k].by].at = "write" THEN req[writes'[k].by].owed ELSE 0)
                  ELSE k = Len(writes')
    <3>1. CASE k = Len(writes) + 1
      BY <1>5, <1>8, <1>10, <3>1
    <3>2. CASE k # Len(writes) + 1
      <4>1. k \in DOMAIN writes /\ writes'[k] = writes[k]
        BY <1>6, <1>10, <3>2
      <4> QED BY <1>1, <1>9, <4>1 DEF Queue
    <3> QED BY <3>1, <3>2
  <2> QED BY <1>1, <1>7, <1>10, <1>12, <2>1 DEF Queue
<1>16. Money'
  <2> SUFFICES ASSUME NEW u \in Users PROVE Balanced(u)'
    BY DEF Money
  <2>1. RecordedStake(u)' = RecordedStake(u)
    BY <1>1, <1>10, <1>12, StakeStays
  <2>2. OpeningStake(u)' = 0 /\ OpeningStake(u) = 0
    BY <1>1, <1>7 DEF OpeningStake
  <2>3. bal'[u] = bal[u] /\ bal[u] \in Nat /\ Pending(req'[u]) = Pending(req[u])
        /\ Pending(req[u]) \in Nat /\ RecordedStake(u) \in Nat
    BY <1>1, StakeType DEF accountVars
  <2> QED BY <1>1, <2>1, <2>2, <2>3, BalanceKept DEF accountVars
<1> QED BY <1>11, <1>13, <1>14, <1>15, <1>16 DEF TableInv

\* The first bet opens a round: nothing else is on the table.
LEMMA StartKeeps ==
  ASSUME TableInv, NEW u \in Users, req[u].at = "bet", seat[u].in, tb.phase \in {"idle", "settled"},
         seat' = [v \in Users |-> IF v = u THEN [seat[u] EXCEPT !.bet = req[u].bet, !.idle = 0]
                                  ELSE [seat[v] EXCEPT !.bet = Standing(v)]],
         tb' = [tb EXCEPT !.phase = "opening"],
         req' = [req EXCEPT ![u] = [req[u] EXCEPT !.owed = Total(Standing(u)), !.at = "open"]],
         UNCHANGED <<writes, accountVars, hands, scan, gone>>
  PROVE  TableInv'
<1>1. /\ TableTypes /\ Requests /\ PhaseOK /\ Queue /\ Money
      /\ seat \in [Users -> SeatType] /\ req \in [Users -> ReqType]
  BY TypesAre DEF TableInv
<1>2. \A v \in Users : Standing(v) = NoBet
  BY <1>1, StandingIs
<1>3. PICK s : s = [seat[u] EXCEPT !.bet = req[u].bet, !.idle = 0]
  OBVIOUS
<1>4. s \in SeatType /\ s.bet = req[u].bet /\ s.in
  <2>1. 0 \in 0..IdleRounds
    BY BlackjackAssumption
  <2>2. req[u].bet \in Bets \cup Doubles \cup {NoBet}
    BY <1>1 DEF ReqType
  <2> QED BY <1>1, <1>3, <2>1, <2>2 DEF SeatType
<1>5. PICK x : x = [req[u] EXCEPT !.owed = 0, !.at = "open"]
  OBVIOUS
<1>6. x \in ReqType /\ x.at = "open" /\ x.owed = 0
  BY <1>1, <1>5 DEF ReqType
<1>7. Total(NoBet) = 0
  BY BetTypes
<1>8. req' = [req EXCEPT ![u] = x]
  BY <1>2, <1>5, <1>7
<1>9. /\ seat' \in [Users -> SeatType] /\ seat'[u] = s
      /\ \A v \in Users : v # u => seat'[v].bet = NoBet
  <2>1. \A v \in Users : [seat[v] EXCEPT !.bet = Standing(v)] \in SeatType
                         /\ [seat[v] EXCEPT !.bet = Standing(v)].bet = NoBet
    BY <1>1, <1>2 DEF SeatType
  <2> QED BY <1>3, <1>4, <2>1
<1>10. /\ req' \in [Users -> ReqType] /\ req'[u] = x /\ \A v \in Users : v # u => req'[v] = req[v]
  BY <1>1, <1>6, <1>8
<1>11. /\ tb' \in [phase : Phases, round : 0..MaxHands, turn : SUBSET Users, leader : BOOLEAN]
       /\ tb'.phase = "opening"
  BY <1>1, TypesAre DEF Phases, Betting
<1>12. TableTypes'
  BY <1>1, <1>9, <1>10, <1>11, TypesAre, TypesFrom DEF accountVars
<1>13. \A v \in Users : RequestOK(v) /\ req[v].at \notin {"open", "doubled"}
  BY <1>1 DEF Requests, RequestOK
<1>14. Requests'
  <2> SUFFICES ASSUME NEW v \in Users PROVE RequestOK(v)'
    BY DEF Requests
  <2>1. CASE v = u
    BY <1>6, <1>10, <1>11, <1>13, <2>1 DEF RequestOK, Writing
  <2>2. CASE v # u
    BY <1>9, <1>10, <1>13, <2>2 DEF RequestOK
  <2> QED BY <2>1, <2>2
<1>15. PhaseOK'
  BY <1>4, <1>6, <1>9, <1>10, <1>11 DEF PhaseOK, Live
<1>16. Queue'
  <2>1. \A k \in DOMAIN writes : writes[k].by \in Users /\ writes[k].by # u
    BY <1>1 DEF Queue, Writing
  <2> QED BY <1>1, <1>10, <2>1, RecordedSame DEF Queue
<1>17. Money'
  <2> SUFFICES ASSUME NEW v \in Users PROVE Balanced(v)'
    BY DEF Money
  <2>1. /\ RecordedStake(v)' = RecordedStake(v) /\ RecordedStake(v) \in Nat
        /\ bal'[v] = bal[v] /\ bal[v] \in Nat /\ OpeningStake(v) = 0
        /\ Pending(req[v]) \in Nat /\ Pending(req'[v]) \in Nat
    BY <1>1, <1>10, PendingType, RecordedSame, StakeType DEF OpeningStake, accountVars
  <2>2. OpeningStake(v)' = Total(seat'[v].bet) /\ Total(seat'[v].bet) \in Nat
    BY <1>9, <1>11, BetTypes DEF OpeningStake, SeatType
  <2>3. CASE v = u
    <3>1. Pending(x) = 0 /\ Pending(req[u]) = Total(req[u].bet)
      BY <1>6 DEF Pending
    <3>2. PICK a \in Nat, r \in Nat, o \in Nat :
            a = bal[u] /\ r = RecordedStake(u) /\ o = Total(req[u].bet)
      BY <2>1, <2>3, <3>1
    <3>3. a + o + r + 0 = a + 0 + r + o
      OBVIOUS
    <3>4. bal'[u] + Total(seat'[u].bet) + RecordedStake(u) + Pending(req'[u])
            = bal[u] + OpeningStake(u) + RecordedStake(u) + Pending(req[u])
      BY <1>4, <1>9, <1>10, <2>1, <2>3, <3>1, <3>2, <3>3
    <3> QED BY <2>1, <2>2, <2>3, <3>4, BalanceKept DEF accountVars
  <2>4. CASE v # u
    BY <1>7, <1>9, <1>10, <2>1, <2>2, <2>4, BalanceKept DEF accountVars
  <2> QED BY <2>3, <2>4
<1> QED BY <1>12, <1>14, <1>15, <1>16, <1>17 DEF TableInv

\* What the engine does with a bet: it refuses it, opens a round with it, or takes it.
LEMMA PlaceBetKeeps ==
  ASSUME TableInv, BjWindows = {}, NEW u \in Users, PlaceBet(u)
  PROVE  TableInv'
<1>1. CASE ~seat[u].in \/ tb.phase \in {"dealing", "turns", "dealer"}
  <2>1. /\ tb.phase # "down" /\ req[u].at = "bet"
        /\ req' = [req EXCEPT ![u] = [NoReq EXCEPT !.at = "owed", !.owed = Total(req[u].bet)]]
        /\ UNCHANGED <<tb, seat, writes, accountVars, hands, scan, gone>>
    BY <1>1 DEF PlaceBet, Betting
  <2> QED BY <2>1, RefusedBetKeeps
<1>2. CASE seat[u].in /\ tb.phase \in {"idle", "settled"}
  <2>1. /\ req[u].at = "bet"
        /\ seat' = [v \in Users |-> IF v = u THEN [seat[u] EXCEPT !.bet = req[u].bet, !.idle = 0]
                                    ELSE [seat[v] EXCEPT !.bet = Standing(v)]]
        /\ tb' = [tb EXCEPT !.phase = "opening"]
        /\ req' = [req EXCEPT ![u] = [req[u] EXCEPT !.owed = Total(Standing(u)), !.at = "open"]]
        /\ UNCHANGED <<writes, accountVars, hands, scan, gone>>
    <3>1. [[req[u] EXCEPT !.owed = Total(Standing(u))] EXCEPT !.at = "open"]
            = [req[u] EXCEPT !.owed = Total(Standing(u)), !.at = "open"]
      OBVIOUS
    <3> QED BY <1>2, <3>1 DEF PlaceBet, Betting
  <2> QED BY <1>2, <2>1, StartKeeps
<1>3. CASE seat[u].in /\ tb.phase \in Betting
  BY <1>3, SeatedBetKeeps
<1> QED BY <1>1, <1>2, <1>3 DEF PlaceBet

\* A round ends: what it records is no longer counted, the rest is as it was.
LEMMA RoundEnds ==
  ASSUME TableTypes, NEW i \in Unfinished, hands' = [hands EXCEPT ![i].ended = TRUE], writes' = writes
  PROVE  /\ hands' \in Seq(RowType) /\ DOMAIN hands' = DOMAIN hands
         /\ Unfinished' = Unfinished \ {i}
         /\ \A j \in DOMAIN hands : hands'[j].snap = hands[j].snap
         /\ \A v, j : OwnWrites(v, j)' = OwnWrites(v, j)
         /\ \A v \in Users, j \in DOMAIN hands : Recorded(v, j)' = Recorded(v, j)
         /\ \A v \in Users : /\ RecordedStake(v) = RecordedStake(v)' + Recorded(v, i)
                             /\ RecordedStake(v)' \in Nat
<1>1. hands \in Seq(RowType) /\ i \in DOMAIN hands /\ Unfinished \subseteq DOMAIN hands
  BY TypesAre, UnfinishedIs
<1>2. [hands[i] EXCEPT !.ended = TRUE] \in RowType
      /\ [hands[i] EXCEPT !.ended = TRUE].ended
      /\ [hands[i] EXCEPT !.ended = TRUE].snap = hands[i].snap
  <2>1. hands[i] \in RowType
    BY <1>1
  <2> QED BY <2>1 DEF RowType
<1>3. /\ hands' \in Seq(RowType) /\ DOMAIN hands' = DOMAIN hands
      /\ hands'[i] = [hands[i] EXCEPT !.ended = TRUE]
      /\ \A j \in DOMAIN hands : j # i => hands'[j] = hands[j]
  BY <1>1, <1>2
<1>4. Unfinished' = Unfinished \ {i}
  BY <1>1, <1>2, <1>3 DEF Unfinished
<1>5. \A j \in DOMAIN hands : hands'[j].snap = hands[j].snap
  BY <1>2, <1>3
<1>6. \A v, j : OwnWrites(v, j)' = OwnWrites(v, j)
  BY DEF OwnWrites
<1>7. \A v \in Users, j \in DOMAIN hands : Recorded(v, j)' = Recorded(v, j)
  <2> SUFFICES ASSUME NEW v \in Users, NEW j \in DOMAIN hands PROVE Recorded(v, j)' = Recorded(v, j)
    OBVIOUS
  <2>1. OwnWrites(v, j)' = OwnWrites(v, j) /\ hands'[j].snap = hands[j].snap
    BY <1>5, <1>6
  <2> QED BY <2>1 DEF Recorded
<1>8. ASSUME NEW v \in Users
      PROVE  RecordedStake(v) = RecordedStake(v)' + Recorded(v, i) /\ RecordedStake(v)' \in Nat
  <2>1. PICK f : f = [j \in DOMAIN hands |-> Recorded(v, j)]
    OBVIOUS
  <2>2. \A j \in Unfinished : f[j] \in Nat
    BY <1>1, <2>1, RecordedType
  <2>3. RecordedStake(v) = SumOver(f, Unfinished)
    BY <2>1 DEF RecordedStake
  <2>4. RecordedStake(v)' = SumOver(f, Unfinished \ {i})
    <3>1. [j \in DOMAIN hands' |-> Recorded(v, j)'] = f
      BY <1>3, <1>7, <2>1
    <3> QED BY <1>4, <3>1 DEF RecordedStake
  <2>5. f[i] = Recorded(v, i) /\ f[i] \in Nat
    BY <1>1, <2>1, <2>2
  <2>6. SumOver(f, Unfinished) = f[i] + SumOver(f, Unfinished \ {i})
    BY <2>2, SumRemove, UnfinishedIs
  <2>7. SumOver(f, Unfinished \ {i}) \in Nat
    <3>1. IsFiniteSet(Unfinished \ {i})
      BY UnfinishedIs, FS_Subset
    <3> QED BY <2>2, <3>1, SumNat
  <2>8. PICK a \in Nat : a = SumOver(f, Unfinished \ {i})
    BY <2>7
  <2> QED BY <2>3, <2>4, <2>5, <2>6, <2>8
<1> QED BY <1>3, <1>4, <1>5, <1>6, <1>7, <1>8

\* A stranded round is refunded from its row, if it has not ended
\* (recoverStrandedRounds): the row knows what is recorded, as no write to it is under way.
LEMMA RecoverKeeps == ASSUME TableInv, NEW i \in scan, RecoverStrandedRound(i) PROVE TableInv'
<1>1. /\ TableTypes /\ Requests /\ PhaseOK /\ Queue /\ Money /\ scan' = scan \ {i}
      /\ UNCHANGED <<totalWon, totalLost, tb, seat, req, writes, gone>>
      /\ \A v \in Users : req[v] \in ReqType
  BY TypesAre DEF TableInv, RecoverStrandedRound
<1>2. CASE UNCHANGED <<hands, bal>>
  <2>1. /\ bal \in [Users -> Nat] /\ seat \in [Users -> SeatType] /\ req \in [Users -> ReqType]
        /\ \A v \in Users : seat[v].in \/ seat[v].bet = NoBet
    BY <1>1, TypesAre DEF PhaseOK
  <2> QED BY <1>1, <1>2, <2>1, FacadeKeeps
<1>3. CASE /\ Recoverable(i) /\ hands' = [hands EXCEPT ![i].ended = TRUE]
           /\ bal' = [u \in Users |-> bal[u] + hands[i].snap[u]]
  <2>1. i \in Unfinished /\ i \in DOMAIN hands
    BY <1>1, <1>3, TypesAre DEF Recoverable, Unfinished
  <2>2. /\ hands' \in Seq(RowType) /\ DOMAIN hands' = DOMAIN hands
        /\ Unfinished' = Unfinished \ {i}
        /\ \A j \in DOMAIN hands : hands'[j].snap = hands[j].snap
        /\ \A v, j : OwnWrites(v, j)' = OwnWrites(v, j)
        /\ \A v \in Users, j \in DOMAIN hands : Recorded(v, j)' = Recorded(v, j)
        /\ \A v \in Users : /\ RecordedStake(v) = RecordedStake(v)' + Recorded(v, i)
                            /\ RecordedStake(v)' \in Nat
    BY <1>1, <1>3, <2>1, RoundEnds
  <2>3. \A u \in Users : bal[u] \in Nat /\ hands[i].snap[u] \in Nat
    BY <1>1, <2>1, RecordedType, StakeType
  <2>4. \A v \in Users : OwnWrites(v, i) = {} /\ Recorded(v, i) = hands[i].snap[v]
    BY <1>1 DEF Queue, OwnWrites, Recorded
  <2>5. bal' \in [Users -> Nat]
    BY <1>3, <2>3
  <2>6. TableTypes'
    BY <1>1, <2>2, <2>5, TypesAre, TypesFrom
  <2>7. Requests'
    BY <1>1 DEF Requests, RequestOK
  <2>8. PhaseOK'
    <3>1. tb.phase \in Live => \A v \in Users : Recorded(v, tb.round)' = Total(seat'[v].bet)
      BY <1>1, <2>2 DEF PhaseOK
    <3>2. tb.phase \in Live => /\ tb.round \in DOMAIN hands'
                               /\ tb.phase # "dealer" => tb.round \in Unfinished' \ scan'
      BY <1>1, <2>2 DEF PhaseOK
    <3> QED BY <1>1, <3>1, <3>2 DEF PhaseOK
  <2>9. Queue'
    <3>1. \A k \in DOMAIN writes : writes[k].round # i /\ writes[k].round \in DOMAIN hands
      BY <1>1 DEF Queue, Unfinished
    <3>2. ASSUME NEW k \in DOMAIN writes, NEW u \in Users
          PROVE  writes'[k].snap[u] = IF \E j \in OwnWrites(u, writes[k].round)' : j <= k
                                      THEN Recorded(u, writes[k].round)'
                                      ELSE hands'[writes'[k].round].snap[u]
      <4>1. PICK j : j = writes[k].round
        OBVIOUS
      <4>2. writes[k].snap[u] = IF \E l \in OwnWrites(u, j) : l <= k
                                THEN Recorded(u, j) ELSE hands[j].snap[u]
        BY <1>1, <4>1 DEF Queue
      <4>3. /\ OwnWrites(u, j)' = OwnWrites(u, j) /\ Recorded(u, j)' = Recorded(u, j)
            /\ hands'[j].snap[u] = hands[j].snap[u]
        BY <2>2, <3>1, <4>1
      <4> QED BY <1>1, <4>1, <4>2, <4>3
    <3> QED BY <1>1, <2>2, <3>1, <3>2 DEF Queue
  <2>10. Money'
    <3> SUFFICES ASSUME NEW u \in Users PROVE Balanced(u)'
      BY DEF Money
    <3>1. /\ OpeningStake(u)' = OpeningStake(u) /\ req'[u] = req[u] /\ bal'[u] = bal[u] + hands[i].snap[u]
      BY <1>1, <1>3 DEF OpeningStake
    <3>2. PICK a \in Nat, o \in Nat, q \in Nat, s \in Nat, x \in Nat :
            /\ a = bal[u] /\ o = OpeningStake(u) /\ q = Pending(req[u])
            /\ s = RecordedStake(u)' /\ x = hands[i].snap[u]
      BY <1>1, <2>2, <2>3, StakeType
    <3>3. RecordedStake(u) = s + x
      BY <2>2, <2>4, <3>2
    <3>4. (a + x) + o + s + q = a + o + (s + x) + q
      OBVIOUS
    <3>5. bal'[u] + o + s + Pending(req'[u])
            = bal[u] + OpeningStake(u) + RecordedStake(u) + Pending(req[u])
      BY <3>1, <3>2, <3>3, <3>4
    <3>6. bal'[u] \in Nat /\ Pending(req'[u]) \in Nat /\ OpeningStake(u)' = o
      BY <2>5, <3>1, <3>2
    <3> QED BY <1>1, <3>2, <3>5, <3>6, BalanceKept
  <2> QED BY <2>6, <2>7, <2>8, <2>9, <2>10 DEF TableInv
<1> QED BY <1>2, <1>3 DEF RecoverStrandedRound

\* The round is claimed and every bet on it is paid or lost (settleRound).
LEMMA SettleKeeps == ASSUME TableInv, Settle PROVE TableInv'
<1>1. /\ TableTypes /\ Requests /\ PhaseOK /\ Queue /\ Money /\ tb.phase = "dealer"
      /\ hands' = [hands EXCEPT ![tb.round].ended = TRUE]
      /\ tb' = [tb EXCEPT !.phase = "settled"]
      /\ UNCHANGED <<seat, req, writes, scan, gone>> /\ ~hands[tb.round].ended
  BY DEF TableInv, Settle, Claimable
<1>2. PICK pay \in [BettingSeats -> 0..12] :
        /\ bal' = [u \in Users |-> bal[u] + IF u \in BettingSeats THEN pay[u] ELSE 0]
        /\ totalWon' = [u \in Users |-> totalWon[u] +
             IF u \in BettingSeats THEN Profit(pay[u] - Total(seat[u].bet)) ELSE 0]
        /\ totalLost' = [u \in Users |-> totalLost[u] +
             IF u \in BettingSeats THEN Profit(Total(seat[u].bet) - pay[u]) ELSE 0]
  BY DEF Settle
<1>3. /\ writes = <<>> /\ DOMAIN writes = {} /\ tb.round \in DOMAIN hands /\ tb.round \in Unfinished
      /\ \A v \in Users : Recorded(v, tb.round) = Total(seat[v].bet)
  BY <1>1 DEF PhaseOK, Live, Unfinished
<1>4. PICK i : i = tb.round
  OBVIOUS
<1>5. /\ hands' \in Seq(RowType) /\ DOMAIN hands' = DOMAIN hands
      /\ \A v \in Users : /\ RecordedStake(v) = RecordedStake(v)' + Recorded(v, i)
                          /\ RecordedStake(v)' \in Nat
  BY <1>1, <1>3, <1>4, RoundEnds
<1>6. ASSUME NEW u \in Users
      PROVE  /\ bal'[u] \in Nat /\ totalWon'[u] \in Nat /\ totalLost'[u] \in Nat
             /\ Balanced(u)'
  <2>1. PICK t \in Nat, s \in Nat, a \in Nat, w \in Nat, l \in Nat, q \in Nat, g \in Nat :
          /\ t = Total(seat[u].bet) /\ s = RecordedStake(u)' /\ a = bal[u]
          /\ w = totalWon[u] /\ l = totalLost[u] /\ q = Pending(req[u]) /\ g = gone[u]
    BY <1>1, <1>5, StakeType
  <2>2. RecordedStake(u) = s + t
    BY <1>3, <1>4, <1>5, <2>1
  <2>3. a + 0 + (s + t) + q + g = Funds + w - l
    <3>1. OpeningStake(u) = 0 /\ Balanced(u)
      BY <1>1 DEF OpeningStake, Money
    <3> QED BY <2>1, <2>2, <3>1 DEF Balanced
  <2>4. PICK p \in Nat : /\ bal'[u] = a + p /\ totalWon'[u] = w + Profit(p - t)
                         /\ totalLost'[u] = l + Profit(t - p)
    <3>1. CASE u \in BettingSeats
      <4>1. pay[u] \in Nat
        BY <3>1
      <4> QED BY <1>2, <2>1, <3>1, <4>1
    <3>2. CASE u \notin BettingSeats
      <4>1. t = 0
        BY <2>1, <3>2, BetTypes DEF BettingSeats
      <4>2. Profit(0 - 0) = 0
        BY DEF Profit
      <4>3. bal'[u] = a + 0 /\ totalWon'[u] = w + 0 /\ totalLost'[u] = l + 0
        BY <1>2, <2>1, <3>2
      <4> QED BY <4>1, <4>2, <4>3
    <3> QED BY <3>1, <3>2
  <2>5. /\ Profit(p - t) \in Nat /\ Profit(t - p) \in Nat /\ Profit(p - t) - Profit(t - p) = p - t
    BY DEF Profit
  <2>6. (a + p) + 0 + s + q + g = Funds + (w + Profit(p - t)) - (l + Profit(t - p))
    BY <2>3, <2>5, FundsAssumption
  <2>7. OpeningStake(u)' = 0 /\ req' = req /\ gone' = gone
    BY <1>1, TypesAre DEF OpeningStake
  <2>8. Balanced(u)'
    BY <2>1, <2>4, <2>6, <2>7 DEF Balanced
  <2> QED BY <2>4, <2>5, <2>8
<1>7. /\ bal' \in [Users -> Nat] /\ totalWon' \in [Users -> Nat] /\ totalLost' \in [Users -> Nat]
  BY <1>2, <1>6
<1>8. /\ tb' \in [phase : Phases, round : 0..MaxHands, turn : SUBSET Users, leader : BOOLEAN]
      /\ tb'.phase = "settled"
  BY <1>1, TypesAre DEF Phases
<1>9. TableTypes'
  BY <1>1, <1>5, <1>7, <1>8, TypesAre, TypesFrom
<1>10. Requests'
  <2> SUFFICES ASSUME NEW u \in Users PROVE RequestOK(u)'
    BY DEF Requests
  <2>1. RequestOK(u)
    BY <1>1 DEF Requests
  <2> QED BY <1>1, <1>3, <2>1 DEF RequestOK, Writing
<1>11. PhaseOK'
  BY <1>1, <1>3, <1>8 DEF PhaseOK, Live
<1>12. Queue'
  BY <1>1, <1>3 DEF Queue
<1>13. Money'
  BY <1>6 DEF Money
<1> QED BY <1>9, <1>10, <1>11, <1>12, <1>13 DEF TableInv

\* What the rows alone say of a player.
RowStake(u) == SumOver([i \in Unfinished |-> hands[i].snap[u]], Unfinished)

\* Where the row is behind what is recorded of a player, the player waits for the write.
LEMMA RowStakeIs ==
  ASSUME TableTypes, Queue, NEW u \in Users
  PROVE  /\ RowStake(u) \in Nat
         /\ req[u].at \notin Writing => RowStake(u) = RecordedStake(u)
         /\ RowStake(u) <= RecordedStake(u) + Pending(req[u])
<1>1. PICK f : f = [i \in DOMAIN hands |-> Recorded(u, i)]
  OBVIOUS
<1>2. PICK g : g = [i \in Unfinished |-> hands[i].snap[u]]
  OBVIOUS
<1>3. \A i \in Unfinished : f[i] = Recorded(u, i) /\ g[i] = hands[i].snap[u] /\ f[i] \in Nat /\ g[i] \in Nat
  BY <1>1, <1>2, RecordedType, UnfinishedIs
<1>4. RecordedStake(u) = SumOver(f, Unfinished) /\ RowStake(u) = SumOver(g, Unfinished)
  BY <1>1, <1>2 DEF RecordedStake, RowStake
<1>5. RowStake(u) \in Nat /\ RecordedStake(u) \in Nat /\ Pending(req[u]) \in Nat
  BY <1>3, <1>4, SumNat, StakeType, UnfinishedIs
<1>6. ASSUME \A i \in Unfinished : Recorded(u, i) = hands[i].snap[u]
      PROVE  RowStake(u) = RecordedStake(u)
  <2>1. \A i \in Unfinished : f[i] = g[i]
    BY <1>3, <1>6
  <2> QED BY <1>4, <2>1, SumEqual, UnfinishedIs
<1>7. req[u].at \notin Writing => RowStake(u) = RecordedStake(u)
  BY <1>6, NotWriting
<1>8. CASE \A k \in DOMAIN writes : writes[k].by # u
  <2>1. \A i : OwnWrites(u, i) = {}
    BY <1>8 DEF OwnWrites
  <2>2. \A i \in Unfinished : Recorded(u, i) = hands[i].snap[u]
    BY <2>1 DEF Recorded
  <2>3. RowStake(u) = RecordedStake(u)
    BY <1>6, <2>2
  <2> QED BY <1>5, <1>7, <2>3
<1>9. ASSUME NEW k \in DOMAIN writes, writes[k].by = u
      PROVE  RowStake(u) <= RecordedStake(u) + Pending(req[u])
  <2>1. PICK j : j = writes[k].round
    OBVIOUS
  <2>2. /\ j \in Unfinished /\ Recorded(u, j) = writes[k].snap[u]
        /\ req[u].at \in Writing
        /\ hands[j].snap[u] <= Recorded(u, j) + (IF req[u].at = "write" THEN req[u].owed ELSE 0)
    BY <1>9, <2>1, OwnWriteIs DEF Queue
  <2>3. \A i \in Unfinished \ {j} : f[i] = g[i]
    BY <1>3, <1>9, <2>1, OwnWriteIs
  <2>4. RowStake(u) = RecordedStake(u) - f[j] + g[j]
    BY <1>3, <1>4, <2>2, <2>3, SumChange, UnfinishedIs
  <2>5. Pending(req[u]) = IF req[u].at = "write" THEN req[u].owed ELSE 0
    BY <2>2 DEF Pending, Writing
  <2>6. PICK p \in Nat, s \in Nat, x \in Nat, y \in Nat :
          p = Pending(req[u]) /\ s = RecordedStake(u) /\ x = f[j] /\ y = g[j]
    BY <1>3, <1>5, <2>2
  <2>7. y <= x + p
    BY <1>3, <2>2, <2>5, <2>6
  <2>8. s - x + y <= s + p
    BY <2>7
  <2> QED BY <2>4, <2>6, <2>8
<1> QED BY <1>5, <1>7, <1>8, <1>9

\* The process dies: a request that is cut off may lose what it had taken, never more.
LEMMA CrashKeeps == ASSUME TableInv, Crash PROVE TableInv'
<1>1. /\ TableTypes /\ Requests /\ PhaseOK /\ Queue /\ Money
      /\ tb' = NoTable /\ seat' = [u \in Users |-> NoSeat] /\ req' = [u \in Users |-> NoReq]
      /\ writes' = <<>> /\ gone' = [u \in Users |-> CutOff(u)] /\ scan' = Unfinished
      /\ UNCHANGED <<accountVars, hands>>
  BY DEF TableInv, Crash
<1>2. /\ NoSeat \in SeatType /\ NoReq \in ReqType /\ NoReq.at = "idle" /\ NoSeat.bet = NoBet
      /\ Pending(NoReq) = 0
  BY NothingTypes DEF NoSeat, Pending
<1>3. tb' \in [phase : Phases, round : 0..MaxHands, turn : SUBSET Users, leader : BOOLEAN]
      /\ tb'.phase = "down"
  <2>1. 0 \in 0..MaxHands
    BY BlackjackAssumption
  <2> QED BY <1>1, <2>1 DEF NoTable, Phases
<1>4. ASSUME NEW u \in Users
      PROVE  RecordedStake(u)' = RowStake(u)
  <2>1. \A i : OwnWrites(u, i)' = {}
    BY <1>1 DEF OwnWrites
  <2>2. \A i : Recorded(u, i)' = hands[i].snap[u]
    BY <1>1, <2>1 DEF Recorded
  <2>3. Unfinished' = Unfinished /\ DOMAIN hands' = DOMAIN hands
    BY <1>1 DEF Unfinished
  <2>4. PICK f : f = [i \in DOMAIN hands |-> hands[i].snap[u]]
    OBVIOUS
  <2>5. [i \in DOMAIN hands' |-> Recorded(u, i)'] = f
    BY <2>2, <2>3, <2>4
  <2>6. RecordedStake(u)' = SumOver(f, Unfinished)
    BY <2>3, <2>5 DEF RecordedStake
  <2>7. PICK g : g = [i \in Unfinished |-> hands[i].snap[u]]
    OBVIOUS
  <2>8. \A i \in Unfinished : f[i] = g[i]
    BY <1>1, <2>4, <2>7, UnfinishedIs
  <2> QED BY <1>1, <2>6, <2>7, <2>8, SumEqual, UnfinishedIs DEF RowStake
<1>5. ASSUME NEW u \in Users
      PROVE  gone'[u] \in Nat /\ Balanced(u)'
  <2>1. PICK a \in Nat, o \in Nat, s \in Nat, q \in Nat, g \in Nat, w \in Nat, l \in Nat, r \in Nat :
          /\ a = bal[u] /\ o = OpeningStake(u) /\ s = RecordedStake(u) /\ q = Pending(req[u])
          /\ g = gone[u] /\ w = totalWon[u] /\ l = totalLost[u] /\ r = RowStake(u)
    BY <1>1, StakeType, RowStakeIs
  <2>2. a + o + s + q + g = Funds + w - l
    BY <1>1, <2>1 DEF Money, Balanced
  <2>3. /\ bal'[u] = a /\ totalWon'[u] = w /\ totalLost'[u] = l
        /\ OpeningStake(u)' = 0 /\ RecordedStake(u)' = r /\ Pending(req'[u]) = 0
    BY <1>1, <1>2, <1>3, <1>4, <2>1 DEF OpeningStake, accountVars
  <2>4. gone'[u] \in Nat /\ a + 0 + r + 0 + gone'[u] = Funds + w - l
    <3>1. CASE req[u] = NoReq
      <4>1. gone'[u] = g
        BY <1>1, <2>1, <3>1 DEF CutOff
      <4>2. q = 0 /\ r = s
        BY <1>1, <1>2, <2>1, <3>1, RowStakeIs DEF Writing
      <4>3. o = 0
        <5>1. tb.phase = "opening" => seat[u].bet = NoBet
          BY <1>1, <1>2, <3>1 DEF PhaseOK
        <5> QED BY <2>1, <5>1, BetTypes DEF OpeningStake
      <4> QED BY <2>2, <4>1, <4>2, <4>3
    <3>2. CASE req[u] # NoReq
      <4>1. CutOff(u) = Funds + totalWon[u] - totalLost[u] - bal[u] - RowStake(u)
        <5>1. FoldFunction(+, 0, [i \in Unfinished |-> hands[i].snap[u]]) = RowStake(u)
          <6>1. PICK f : f = [i \in Unfinished |-> hands[i].snap[u]]
            OBVIOUS
          <6>2. DOMAIN f = Unfinished
            BY <6>1
          <6>3. FoldFunction(+, 0, f) = SumOver(f, DOMAIN f)
            BY FoldIsSum, Zenon
          <6> QED BY <6>1, <6>2, <6>3 DEF RowStake
        <5> QED BY <3>2, <5>1 DEF CutOff
      <4>2. gone'[u] = Funds + w - l - a - r
        BY <1>1, <2>1, <4>1
      <4>3. r <= s + q
        BY <1>1, <2>1, RowStakeIs
      <4> QED BY <2>2, <4>2, <4>3, FundsAssumption
    <3> QED BY <3>1, <3>2
  <2> QED BY <2>3, <2>4 DEF Balanced
<1>6. /\ seat' \in [Users -> SeatType] /\ req' \in [Users -> ReqType] /\ gone' \in [Users -> Nat]
      /\ writes' \in Seq(WriteType)
  BY <1>1, <1>2, <1>5
<1>7. TableTypes'
  BY <1>1, <1>3, <1>6, TypesAre, TypesFrom, UnfinishedIs DEF accountVars
<1>8. Requests'
  BY <1>1, <1>2 DEF Requests, RequestOK, Writing
<1>9. PhaseOK'
  BY <1>1, <1>2, <1>3 DEF PhaseOK, Live
<1>10. Queue'
  BY <1>1 DEF Queue
<1>11. Money'
  BY <1>5 DEF Money
<1> QED BY <1>7, <1>8, <1>9, <1>10, <1>11 DEF TableInv

\* The round's row is made: the first bet is on its way to it.
LEMMA OpenBettingKeeps == ASSUME TableInv, NEW u \in Users, OpenBetting(u) PROVE TableInv'
<1>1. /\ TableTypes /\ Requests /\ PhaseOK /\ Queue /\ Money
      /\ req[u].at = "open" /\ Len(hands) < MaxHands /\ tb.phase = "opening"
      /\ hands' = Append(hands, [snap |-> [v \in Users |-> 0], ended |-> FALSE])
      /\ tb' = [tb EXCEPT !.phase = "starting", !.round = Len(hands) + 1, !.turn = {}]
      /\ seat' = [v \in Users |-> [seat[v] EXCEPT !.status = "playing"]]
      /\ UNCHANGED <<accountVars, scan, gone>>
  BY DEF TableInv, OpenBetting
<1>2. /\ tb \in [phase : Phases, round : 0..MaxHands, turn : SUBSET Users, leader : BOOLEAN]
      /\ hands \in Seq(RowType) /\ writes \in Seq(WriteType) /\ scan \subseteq DOMAIN hands
      /\ DOMAIN hands = 1 .. Len(hands) /\ Len(hands) \in Nat
      /\ DOMAIN writes = 1 .. Len(writes) /\ Len(writes) \in Nat
      /\ bal \in [Users -> Nat] /\ totalWon \in [Users -> Nat] /\ totalLost \in [Users -> Nat]
      /\ gone \in [Users -> Nat] /\ req \in [Users -> ReqType] /\ seat \in [Users -> SeatType]
  BY <1>1, TypesAre
<1>3. PICK n \in Nat : n = Len(hands) + 1
  BY <1>2
<1>4. PICK row : row = [snap |-> [v \in Users |-> 0], ended |-> FALSE]
  OBVIOUS
<1>5. /\ hands' \in Seq(RowType) /\ DOMAIN hands' = DOMAIN hands \cup {n} /\ n \notin DOMAIN hands
      /\ hands'[n] = row /\ \A i \in DOMAIN hands : hands'[i] = hands[i]
      /\ ~row.ended /\ \A v \in Users : row.snap[v] = 0
  <2>1. row \in RowType
    BY <1>4 DEF RowType
  <2> QED BY <1>1, <1>2, <1>3, <1>4, <2>1
<1>6. /\ tb' \in [phase : Phases, round : 0..MaxHands, turn : SUBSET Users, leader : BOOLEAN]
      /\ tb'.phase = "starting" /\ tb'.round = n
  <2>1. n \in 0..MaxHands
    BY <1>1, <1>2, <1>3, BlackjackAssumption
  <2> QED BY <1>1, <1>2, <1>3, <2>1 DEF Phases, Betting
<1>7. /\ seat' \in [Users -> SeatType]
      /\ \A v \in Users : seat'[v].bet = seat[v].bet /\ seat'[v].in = seat[v].in
  <2>1. \A v \in Users : /\ [seat[v] EXCEPT !.status = "playing"] \in SeatType
                         /\ [seat[v] EXCEPT !.status = "playing"].bet = seat[v].bet
                         /\ [seat[v] EXCEPT !.status = "playing"].in = seat[v].in
    <3> SUFFICES ASSUME NEW v \in Users
                 PROVE  /\ [seat[v] EXCEPT !.status = "playing"] \in SeatType
                        /\ [seat[v] EXCEPT !.status = "playing"].bet = seat[v].bet
                        /\ [seat[v] EXCEPT !.status = "playing"].in = seat[v].in
      OBVIOUS
    <3>1. seat[v] \in SeatType
      BY <1>2
    <3> QED BY <3>1 DEF SeatType
  <2> QED BY <1>1, <2>1
<1>8. PICK x : x = [req[u] EXCEPT !.at = "write"]
  OBVIOUS
<1>9. /\ x \in ReqType /\ x.at = "write" /\ x.owed = 0
      /\ req' = [req EXCEPT ![u] = x]
  <2>1. req[u] \in ReqType /\ req[u].owed = 0
    BY <1>1, <1>2 DEF Requests, RequestOK
  <2> QED BY <1>8, <2>1 DEF ReqType, OpenBetting
<1>10. /\ req' \in [Users -> ReqType] /\ req'[u] = x /\ \A v \in Users : v # u => req'[v] = req[v]
  BY <1>2, <1>9
<1>11. \A v \in Users : v # u => req[v].at # "open" /\ seat[v].bet = NoBet /\ Total(seat[v].bet) = 0
  BY <1>1, BetTypes DEF Requests, RequestOK, PhaseOK
<1>12. PICK w : w = [round |-> n, by |-> u, snap |-> Snapshot]
  OBVIOUS
<1>13. /\ w \in WriteType /\ w.round = n /\ w.by = u
       /\ \A v \in Users : w.snap[v] = Total(seat[v].bet)
  <2>1. \A v \in Users : Total(seat[v].bet) \in Nat
    BY <1>1, StakeType
  <2>2. Snapshot \in [Users -> Nat] /\ \A v \in Users : Snapshot[v] = Total(seat[v].bet)
    BY <2>1 DEF Snapshot
  <2> QED BY <1>12, <2>2 DEF WriteType, Writer
<1>14. writes' = Append(writes, w)
  BY <1>3, <1>12 DEF OpenBetting
<1>15. \A k \in DOMAIN writes : writes[k].by # u /\ writes[k].by \in Users
  BY <1>1 DEF Queue, Writing
<1>16. /\ \A v \in Users, i \in DOMAIN hands : Recorded(v, i)' = Recorded(v, i)
       /\ \A v \in Users : Recorded(v, n)' = Total(seat[v].bet)
       /\ writes' \in Seq(WriteType) /\ DOMAIN writes' = 1 .. Len(writes) + 1
       /\ \A k \in DOMAIN writes : writes'[k] = writes[k]
       /\ writes'[Len(writes) + 1] = w
       /\ \A j, k \in DOMAIN writes' : writes'[j].by = writes'[k].by => j = k
       /\ \A k \in DOMAIN writes', v \in Users :
            writes'[k].snap[v] = IF \E j \in OwnWrites(v, writes[k].round)' : j <= k
                                 THEN Recorded(v, writes[k].round)'
                                 ELSE hands'[writes'[k].round].snap[v]
  <2>1. \A v \in Users : v # w.by =>
          w.snap[v] = IF w.round \in DOMAIN hands THEN Recorded(v, w.round)
                      ELSE hands'[w.round].snap[v]
    BY <1>5, <1>11, <1>13
  <2>2. /\ hands' \in Seq(RowType) /\ DOMAIN hands \subseteq DOMAIN hands'
        /\ \A i \in DOMAIN hands : hands'[i] = hands[i]
        /\ w.round \in DOMAIN hands'
    BY <1>5, <1>13
  <2>3. \A k \in DOMAIN writes : writes[k].by # w.by
    BY <1>13, <1>15
  <2>4. /\ \A v \in Users, i \in DOMAIN hands :
             Recorded(v, i)' = IF v = w.by /\ i = w.round THEN w.snap[v] ELSE Recorded(v, i)
        /\ w.round \notin DOMAIN hands => \A v \in Users : Recorded(v, w.round)' = w.snap[v]
        /\ writes' \in Seq(WriteType) /\ DOMAIN writes' = 1 .. Len(writes) + 1
        /\ \A k \in DOMAIN writes : writes'[k] = writes[k]
        /\ writes'[Len(writes) + 1] = w
        /\ \A j, k \in DOMAIN writes' : writes'[j].by = writes'[k].by => j = k
        /\ \A k \in DOMAIN writes', v \in Users :
             writes'[k].snap[v] = IF \E j \in OwnWrites(v, writes[k].round)' : j <= k
                                  THEN Recorded(v, writes[k].round)'
                                  ELSE hands'[writes'[k].round].snap[v]
    BY <1>1, <1>13, <1>14, <2>1, <2>2, <2>3, AppendKeeps
  <2> QED BY <1>5, <1>13, <2>4
<1>17. Unfinished' = Unfinished \cup {n} /\ n \notin Unfinished /\ n \notin scan
  BY <1>2, <1>5 DEF Unfinished
<1>18. TableTypes'
  BY <1>1, <1>2, <1>5, <1>6, <1>7, <1>10, <1>16, TypesFrom DEF accountVars
<1>19. DOMAIN writes \subseteq DOMAIN writes' /\ Len(writes) + 1 \in DOMAIN writes'
  BY <1>2, <1>16
<1>20. Requests'
  <2> SUFFICES ASSUME NEW v \in Users PROVE RequestOK(v)'
    BY DEF Requests
  <2>1. CASE v = u
    BY <1>9, <1>10, <1>13, <1>16, <1>19, <2>1 DEF RequestOK, Writing
  <2>2. CASE v # u
    <3>1. RequestOK(v) /\ req'[v] = req[v] /\ seat'[v].bet = seat[v].bet /\ req[v].at # "open"
      BY <1>1, <1>7, <1>10, <1>11, <2>2 DEF Requests
    <3> QED BY <1>1, <1>16, <1>19, <3>1 DEF RequestOK
  <2> QED BY <2>1, <2>2
<1>21. PhaseOK'
  <2>1. \A v \in Users : Recorded(v, tb.round)' = Total(seat'[v].bet)
    BY <1>6, <1>7, <1>16
  <2> QED BY <1>1, <1>5, <1>6, <1>7, <1>17, <2>1 DEF PhaseOK
<1>22. Queue'
  <2>1. ASSUME NEW k \in DOMAIN writes'
        PROVE  /\ writes'[k].round \in (Unfinished \cup {n}) \ scan
               /\ writes'[k].by \in Users
               /\ req'[writes'[k].by].at \in Writing
               /\ hands'[writes'[k].round].snap[writes'[k].by]
                    <= writes'[k].snap[writes'[k].by]
                         + (IF req'[writes'[k].by].at = "write" THEN req'[writes'[k].by].owed ELSE 0)
    <3>1. CASE k = Len(writes) + 1
      <4>1. 0 <= w.snap[u] + 0
        BY <1>13 DEF WriteType
      <4> QED BY <1>5, <1>9, <1>10, <1>13, <1>16, <1>17, <3>1, <4>1 DEF Writing
    <3>2. CASE k # Len(writes) + 1
      <4>1. k \in DOMAIN writes /\ writes'[k] = writes[k]
        BY <1>2, <1>16, <3>2
      <4>2. /\ writes[k].round \in Unfinished \ scan
            /\ req[writes[k].by].at \in Writing
            /\ hands[writes[k].round].snap[writes[k].by]
                 <= writes[k].snap[writes[k].by]
                      + (IF req[writes[k].by].at = "write" THEN req[writes[k].by].owed ELSE 0)
        BY <1>1, <1>15, <4>1 DEF Queue
      <4>3. req'[writes[k].by] = req[writes[k].by] /\ hands'[writes[k].round] = hands[writes[k].round]
        BY <1>5, <1>10, <1>15, <4>1, <4>2 DEF Unfinished
      <4> QED BY <1>15, <4>1, <4>2, <4>3
    <3> QED BY <3>1, <3>2
  <2> QED BY <1>1, <1>16, <1>17, <2>1 DEF Queue
<1>23. Money'
  <2> SUFFICES ASSUME NEW v \in Users PROVE Balanced(v)'
    BY DEF Money
  <2>1. PICK a \in Nat, o \in Nat, s \in Nat :
          a = bal[v] /\ o = Total(seat[v].bet) /\ s = RecordedStake(v)
    BY <1>1, StakeType
  <2>2. RecordedStake(v)' = o + s
    <3>1. PICK f : f = [i \in DOMAIN hands |-> Recorded(v, i)]
      OBVIOUS
    <3>2. PICK g : g = [i \in DOMAIN hands \cup {n} |-> IF i = n THEN o ELSE Recorded(v, i)]
      OBVIOUS
    <3>3. [i \in DOMAIN hands' |-> Recorded(v, i)'] = g
      <4>1. \A i \in DOMAIN hands \cup {n} : Recorded(v, i)' = IF i = n THEN o ELSE Recorded(v, i)
        BY <1>5, <1>16, <2>1
      <4> QED BY <1>5, <3>2, <4>1
    <3>4. RecordedStake(v)' = SumOver(g, Unfinished \cup {n})
      BY <1>17, <3>3 DEF RecordedStake
    <3>5. \A i \in Unfinished : f[i] = g[i] /\ f[i] \in Nat /\ g[i] \in Nat
      BY <1>1, <1>5, <3>1, <3>2, RecordedType, UnfinishedIs
    <3>6. SumOver(g, Unfinished) = SumOver(f, Unfinished)
      BY <1>1, <3>5, SumEqual, UnfinishedIs
    <3>7. g[n] = o
      BY <3>2
    <3>8. SumOver(g, Unfinished \cup {n}) = g[n] + SumOver(g, Unfinished)
      BY <1>1, <1>17, <3>5, <3>7, SumAdd, UnfinishedIs
    <3> QED BY <2>1, <3>1, <3>4, <3>6, <3>7, <3>8 DEF RecordedStake
  <2>3. OpeningStake(v) = o /\ OpeningStake(v)' = 0
    BY <1>1, <1>6, <2>1 DEF OpeningStake
  <2>4. Pending(req'[v]) = Pending(req[v])
    <3>1. CASE v = u
      <4>1. req[u].owed = 0
        BY <1>1 DEF Requests, RequestOK
      <4> QED BY <1>1, <1>9, <1>10, <3>1, <4>1 DEF Pending
    <3>2. CASE v # u
      BY <1>10, <3>2
    <3> QED BY <3>1, <3>2
  <2>5. PICK q \in Nat : q = Pending(req[v])
    BY <1>1, StakeType
  <2>6. a + 0 + (o + s) + q = a + o + s + q /\ o + s \in Nat
    OBVIOUS
  <2>7. bal'[v] = a /\ UNCHANGED <<totalWon, totalLost, gone>>
    BY <1>1, <2>1 DEF accountVars
  <2> QED BY <2>1, <2>2, <2>3, <2>4, <2>5, <2>6, <2>7, BalanceKept
<1> QED BY <1>18, <1>20, <1>21, <1>22, <1>23 DEF TableInv

\* A request's write has landed: what it is owed is paid next.
LEMMA LandedRequestKeeps ==
  ASSUME TableInv, NEW u \in Users, 1 \in DOMAIN writes, writes[1].by = u, req[u].at = "write",
         hands' = [hands EXCEPT ![writes[1].round].snap = writes[1].snap], writes' = Rest(1),
         req' = [req EXCEPT ![u] = Refunding(req[u])],
         tb' = [tb EXCEPT !.phase = IF tb.phase = "starting" THEN "betting" ELSE tb.phase],
         UNCHANGED <<seat, accountVars, scan, gone>>
  PROVE  TableInv'
<1>1. /\ TableTypes /\ Requests /\ PhaseOK /\ Queue /\ Money
      /\ tb \in [phase : Phases, round : 0..MaxHands, turn : SUBSET Users, leader : BOOLEAN]
      /\ DOMAIN writes = 1 .. Len(writes) /\ Len(writes) \in Nat
      /\ req \in [Users -> ReqType]
  BY TypesAre DEF TableInv
<1>2. /\ writes' \in Seq(WriteType) /\ Len(writes') = Len(writes) - 1
      /\ DOMAIN writes' = 1 .. Len(writes) - 1
      /\ \A k \in DOMAIN writes' : k + 1 \in DOMAIN writes /\ writes'[k] = writes[k + 1]
  BY <1>1, RestIs
<1>3. /\ hands' \in Seq(RowType) /\ DOMAIN hands' = DOMAIN hands /\ Unfinished' = Unfinished
      /\ \A v \in Users, i \in DOMAIN hands :
           /\ Recorded(v, i)' = Recorded(v, i)
           /\ v # u => hands'[i].snap[v] = hands[i].snap[v]
      /\ \A v \in Users : RecordedStake(v)' = RecordedStake(v)
      /\ \A j, k \in DOMAIN writes' : writes'[j].by = writes'[k].by => j = k
      /\ \A k \in DOMAIN writes' : writes'[k].by # u
      /\ \A k \in DOMAIN writes', v \in Users :
           writes'[k].snap[v] = IF \E j \in OwnWrites(v, writes[k].round)' : j <= k
                                THEN Recorded(v, writes[k].round)'
                                ELSE hands'[writes'[k].round].snap[v]
  BY <1>1, LandKeeps
<1>4. PICK x : x = Refunding(req[u])
  OBVIOUS
<1>5. /\ x \in ReqType /\ (x = NoReq \/ x.at = "owed")
      /\ Pending(x) = Pending(req[u])
  <2>1. req[u] \in ReqType /\ req[u].owed \in Nat
    BY <1>1, PendingType
  <2>2. CASE req[u].owed > 0
    <3>1. x = [req[u] EXCEPT !.at = "owed"]
      BY <1>4, <2>2 DEF Refunding
    <3>2. x \in ReqType /\ x.at = "owed" /\ x.owed = req[u].owed
      BY <2>1, <3>1 DEF ReqType
    <3> QED BY <3>2 DEF Pending
  <2>3. CASE ~(req[u].owed > 0)
    <3>1. x = NoReq /\ req[u].owed = 0
      BY <1>4, <2>1, <2>3 DEF Refunding
    <3> QED BY <3>1, NothingTypes DEF Pending
  <2> QED BY <2>2, <2>3
<1>6. /\ req' \in [Users -> ReqType] /\ req'[u] = x /\ \A v \in Users : v # u => req'[v] = req[v]
  BY <1>1, <1>4, <1>5, NothingTypes
<1>7. tb.phase \notin {"down", "turns", "dealer", "settled"}
  BY <1>1 DEF PhaseOK
<1>8. /\ tb' \in [phase : Phases, round : 0..MaxHands, turn : SUBSET Users, leader : BOOLEAN]
      /\ tb'.phase = IF tb.phase = "starting" THEN "betting" ELSE tb.phase
      /\ tb'.round = tb.round
  BY <1>1 DEF Phases, Betting
<1>9. TableTypes'
  BY <1>1, <1>2, <1>3, <1>6, <1>8, TypesAre, TypesFrom DEF accountVars
<1>10. \A k \in DOMAIN writes : k # 1 => k - 1 \in DOMAIN writes' /\ writes'[k - 1] = writes[k]
  <2> SUFFICES ASSUME NEW k \in DOMAIN writes, k # 1
               PROVE  k - 1 \in DOMAIN writes' /\ writes'[k - 1] = writes[k]
    OBVIOUS
  <2>1. k - 1 \in DOMAIN writes' /\ (k - 1) + 1 = k
    BY <1>1, <1>2
  <2> QED BY <1>2, <2>1
<1>11. Requests'
  <2> SUFFICES ASSUME NEW v \in Users PROVE RequestOK(v)'
    BY DEF Requests
  <2>1. CASE v = u
    BY <1>5, <1>6, <2>1, NothingTypes DEF RequestOK, Writing
  <2>2. CASE v # u
    <3>1. RequestOK(v) /\ req'[v] = req[v] /\ seat'[v] = seat[v]
      BY <1>1, <1>6, <2>2 DEF Requests
    <3>2. req[v].at \in Writing => \E k \in DOMAIN writes' : writes'[k].by = v
      BY <1>10, <2>2, <3>1 DEF RequestOK
    <3>3. req[v].at = "open" => \A z \in Users : req'[z].at = "open" => z = v
      BY <1>5, <1>6, <3>1, NothingTypes DEF RequestOK
    <3> QED BY <1>7, <1>8, <3>1, <3>2, <3>3 DEF RequestOK
  <2> QED BY <2>1, <2>2
<1>12. PhaseOK'
  <2>1. tb.phase \in Live =>
          /\ tb.round \in DOMAIN hands' /\ tb.round \in Unfinished \ scan
          /\ \A v \in Users : Recorded(v, tb.round)' = Total(seat'[v].bet)
    BY <1>1, <1>3, <1>7, <1>8 DEF PhaseOK, Live
  <2>2. tb.phase = "opening" => \A v \in Users : seat[v].bet # NoBet => req'[v].at = "open"
    BY <1>1, <1>6 DEF PhaseOK
  <2> QED BY <1>1, <1>3, <1>7, <1>8, <2>1, <2>2 DEF PhaseOK, Live
<1>13. Queue'
  <2>1. ASSUME NEW k \in DOMAIN writes'
        PROVE  /\ writes'[k].round \in Unfinished \ scan
               /\ IF writes'[k].by \in Users
                  THEN /\ req'[writes'[k].by].at \in Writing
                       /\ hands'[writes'[k].round].snap[writes'[k].by]
                            <= writes'[k].snap[writes'[k].by]
                                 + (IF req'[writes'[k].by].at = "write" THEN req'[writes'[k].by].owed ELSE 0)
                  ELSE k = Len(writes') /\ tb.phase = "dealing"
    <3>1. PICK w : w = writes'[k]
      OBVIOUS
    <3>2. k + 1 \in DOMAIN writes /\ w = writes[k + 1] /\ w.by # u
      BY <1>2, <1>3, <3>1
    <3>3. /\ w.round \in Unfinished \ scan
          /\ IF w.by \in Users
             THEN /\ req[w.by].at \in Writing
                  /\ hands[w.round].snap[w.by]
                       <= w.snap[w.by] + (IF req[w.by].at = "write" THEN req[w.by].owed ELSE 0)
             ELSE k + 1 = Len(writes) /\ tb.phase = "dealing"
      BY <1>1, <3>2 DEF Queue
    <3>4. CASE w.by \in Users
      <4>1. req'[w.by] = req[w.by] /\ hands'[w.round].snap[w.by] = hands[w.round].snap[w.by]
        BY <1>3, <1>6, <3>2, <3>3, <3>4 DEF Unfinished
      <4> QED BY <3>1, <3>3, <3>4, <4>1
    <3>5. CASE w.by \notin Users
      <4>1. k = Len(writes')
        BY <1>1, <1>2, <3>3, <3>5
      <4> QED BY <3>1, <3>3, <3>5, <4>1
    <3> QED BY <3>4, <3>5
  <2> QED BY <1>3, <1>8, <2>1 DEF Queue
<1>14. Money'
  <2> SUFFICES ASSUME NEW v \in Users PROVE Balanced(v)'
    BY DEF Money
  <2>1. PICK o \in Nat, r \in Nat : o = OpeningStake(v) /\ r = RecordedStake(v)
    BY <1>1, StakeType
  <2>2. OpeningStake(v)' = o /\ RecordedStake(v)' = r /\ Pending(req'[v]) = Pending(req[v])
    BY <1>3, <1>5, <1>6, <1>8, <2>1 DEF OpeningStake
  <2>3. bal'[v] = bal[v] /\ bal[v] \in Nat /\ Pending(req[v]) \in Nat
        /\ UNCHANGED <<totalWon, totalLost, gone>>
    BY <1>1, StakeType DEF accountVars
  <2> QED BY <2>1, <2>2, <2>3, BalanceKept
<1> QED BY <1>9, <1>11, <1>12, <1>13, <1>14 DEF TableInv

\* The write the table or the player to act waits for is the only one: it lands, the hand goes on.
LEMMA LandedTurnKeeps ==
  ASSUME TableInv, tb.phase \in {"turns", "dealing"}, 1 \in DOMAIN writes, Len(writes) = 1,
         hands' = [hands EXCEPT ![writes[1].round].snap = writes[1].snap], writes' = Rest(1),
         seat' \in [Users -> SeatType], req' \in [Users -> ReqType], NextTurn(seat'),
         \A v \in Users : seat'[v].bet = seat[v].bet /\ seat'[v].in = seat[v].in,
         \A v \in Users : \/ req'[v] = req[v] /\ req[v].at \notin Writing
                          \/ req'[v] = NoReq /\ req[v].at = "doubled",
         UNCHANGED <<accountVars, scan, gone>>
  PROVE  TableInv'
<1>1. /\ TableTypes /\ Requests /\ PhaseOK /\ Queue /\ Money
      /\ tb \in [phase : Phases, round : 0..MaxHands, turn : SUBSET Users, leader : BOOLEAN]
      /\ req \in [Users -> ReqType]
  BY TypesAre DEF TableInv
<1>2. writes' \in Seq(WriteType) /\ DOMAIN writes' = {} /\ writes' = <<>>
  <2>1. writes' \in Seq(WriteType) /\ Len(writes') = 0 /\ DOMAIN writes' = 1 .. 0
    BY <1>1, RestIs
  <2> QED BY <2>1
<1>3. /\ hands' \in Seq(RowType) /\ DOMAIN hands' = DOMAIN hands /\ Unfinished' = Unfinished
      /\ \A v \in Users, i \in DOMAIN hands : Recorded(v, i)' = Recorded(v, i)
      /\ \A v \in Users : RecordedStake(v)' = RecordedStake(v)
  BY <1>1, LandKeeps
<1>4. /\ tb' \in [phase : Phases, round : 0..MaxHands, turn : SUBSET Users, leader : BOOLEAN]
      /\ tb'.phase \in {"turns", "dealer"} /\ tb'.round = tb.round
      /\ tb'.phase = "turns" => \E v \in Users : tb'.turn = {v} /\ seat'[v].bet # NoBet
  <2>1. PICK s : s = seat'
    OBVIOUS
  <2> QED BY <1>1, <2>1, NextTurnIs
<1>5. TableTypes'
  BY <1>1, <1>2, <1>3, <1>4, TypesAre, TypesFrom DEF accountVars
<1>6. Requests'
  <2> SUFFICES ASSUME NEW v \in Users PROVE RequestOK(v)'
    BY DEF Requests
  <2>1. RequestOK(v)
    BY <1>1 DEF Requests
  <2> QED BY <2>1, NothingTypes DEF RequestOK, Writing
<1>7. PhaseOK'
  <2>1. /\ tb.round \in DOMAIN hands' /\ tb.round \in Unfinished \ scan
        /\ \A v \in Users : Recorded(v, tb.round)' = Total(seat'[v].bet)
    BY <1>1, <1>3, <1>4 DEF PhaseOK, Live
  <2>2. \A v \in Users : seat'[v].in \/ seat'[v].bet = NoBet
    BY <1>1 DEF PhaseOK
  <2> QED BY <1>2, <1>3, <1>4, <2>1, <2>2 DEF PhaseOK, Live
<1>8. Queue'
  BY <1>2 DEF Queue
<1>9. Money'
  <2> SUFFICES ASSUME NEW v \in Users PROVE Balanced(v)'
    BY DEF Money
  <2>1. PICK r \in Nat : r = RecordedStake(v)
    BY <1>1, StakeType
  <2>2. OpeningStake(v) = 0 /\ OpeningStake(v)' = 0 /\ RecordedStake(v)' = r
    BY <1>3, <1>4, <2>1 DEF OpeningStake
  <2>3. Pending(req'[v]) = Pending(req[v])
    BY NothingTypes DEF Pending
  <2>4. bal'[v] = bal[v] /\ bal[v] \in Nat /\ Pending(req[v]) \in Nat
        /\ UNCHANGED <<totalWon, totalLost, gone>>
    BY <1>1, StakeType DEF accountVars
  <2> QED BY <2>1, <2>2, <2>3, <2>4, BalanceKept
<1> QED BY <1>5, <1>6, <1>7, <1>8, <1>9 DEF TableInv

\* A write lands, whoever waited for it: the writes reach the database in order.
LEMMA LandKeepsTable ==
  ASSUME TableInv, BjWindows = {}, NEW i \in DOMAIN writes, Land(i)
  PROVE  TableInv'
<1>1. /\ TableTypes /\ Requests /\ PhaseOK /\ Queue /\ i = 1 /\ 1 \in DOMAIN writes
      /\ hands' = [hands EXCEPT ![writes[1].round].snap = writes[1].snap]
      /\ writes' = Rest(1) /\ UNCHANGED <<accountVars, scan, gone>>
      /\ seat \in [Users -> SeatType] /\ req \in [Users -> ReqType]
      /\ DOMAIN writes = 1 .. Len(writes) /\ Len(writes) \in Nat
  BY TypesAre DEF TableInv, Land
<1>2. PICK u : u = writes[1].by
  OBVIOUS
<1>3. CASE /\ u \in Users /\ req[u].at = "write"
           /\ req' = [req EXCEPT ![u] = Refunding(@)]
           /\ tb' = [tb EXCEPT !.phase = IF @ = "starting" THEN "betting" ELSE @]
           /\ UNCHANGED seat
  BY <1>1, <1>2, <1>3, LandedRequestKeeps
<1>4. CASE /\ u \in Users /\ req[u].at = "doubled" /\ req' = [req EXCEPT ![u] = NoReq]
           /\ NextTurn(seat) /\ UNCHANGED seat
  <2>1. tb.phase = "turns"
    BY <1>1, <1>4 DEF Requests, RequestOK
  <2>2. PICK v \in Users : \A k \in DOMAIN writes : writes[k].by = v
    BY <1>1, <2>1 DEF PhaseOK
  <2>3. \A k \in DOMAIN writes : k = 1
    BY <1>1, <2>2 DEF Queue
  <2>4. Len(writes) = 1
    <3>1. Len(writes) \in DOMAIN writes
      BY <1>1
    <3> QED BY <2>3, <3>1
  <2>5. \A z \in Users : z # u => req[z].at \notin Writing
    BY <1>1, <1>2, <2>2 DEF Requests, RequestOK
  <2>6. req' \in [Users -> ReqType] /\ req'[u] = NoReq /\ \A z \in Users : z # u => req'[z] = req[z]
    BY <1>1, <1>4, NothingTypes
  <2>7. NextTurn(seat')
    BY <1>4 DEF NextTurn
  <2> QED BY <1>1, <1>4, <2>1, <2>4, <2>5, <2>6, <2>7, LandedTurnKeeps
<1>5. ASSUME u \notin Users, NEW bj \in SUBSET BettingSeats,
             seat' = [v \in Users |-> IF v \in bj THEN [seat[v] EXCEPT !.status = "blackjack"]
                                      ELSE seat[v]],
             NextTurn(seat'), UNCHANGED req
      PROVE  TableInv'
  <2>1. Len(writes) = 1 /\ tb.phase = "dealing"
    BY <1>1, <1>2, <1>5 DEF Queue
  <2>2. \A k \in DOMAIN writes : writes[k].by = u
    BY <1>1, <1>2, <2>1
  <2>3. \A z \in Users : req[z].at \notin Writing
    BY <1>1, <1>5, <2>2 DEF Requests, RequestOK
  <2>4. /\ seat' \in [Users -> SeatType]
        /\ \A v \in Users : seat'[v].bet = seat[v].bet /\ seat'[v].in = seat[v].in
    <3>1. ASSUME NEW v \in Users
          PROVE  /\ [seat[v] EXCEPT !.status = "blackjack"] \in SeatType
                 /\ [seat[v] EXCEPT !.status = "blackjack"].bet = seat[v].bet
                 /\ [seat[v] EXCEPT !.status = "blackjack"].in = seat[v].in
      <4>1. seat[v] \in SeatType
        BY <1>1
      <4> QED BY <4>1 DEF SeatType
    <3> QED BY <1>1, <1>5, <3>1
  <2> QED BY <1>1, <1>5, <2>1, <2>3, <2>4, LandedTurnKeeps
<1> QED BY <1>1, <1>2, <1>3, <1>4, <1>5 DEF Land

\* An empty table satisfies the invariant.
LEMMA TableInitOK == Init => TableInv
<1> SUFFICES ASSUME Init PROVE TableInv
  OBVIOUS
<1> USE DEF Init, AccountInit
<1>1. /\ NoSeat \in SeatType /\ NoReq \in ReqType /\ NoReq.at = "idle" /\ NoSeat.bet = NoBet
      /\ Pending(NoReq) = 0
  BY NothingTypes DEF NoSeat, Pending
<1>2. tb \in [phase : Phases, round : 0..MaxHands, turn : SUBSET Users, leader : BOOLEAN]
      /\ tb.phase = "idle"
  <2>1. 0 \in 0..MaxHands
    BY BlackjackAssumption
  <2>2. tb = [phase |-> "idle", round |-> 0, turn |-> {}, leader |-> TRUE]
    BY DEF NewTable, NoTable
  <2> QED BY <2>1, <2>2 DEF Phases
<1>3. TableTypes
  BY <1>1, <1>2, FundsAssumption
  DEF TableTypes, TypeOK, AccountTypeOK, SeatType, ReqType
<1>4. Requests
  BY <1>1 DEF Requests, RequestOK, Writing
<1>5. PhaseOK
  BY <1>1, <1>2 DEF PhaseOK, Live
<1>6. Queue
  BY DEF Queue
<1>7. Money
  <2> SUFFICES ASSUME NEW u \in Users PROVE Balanced(u)
    BY DEF Money
  <2>1. Unfinished = {}
    BY DEF Unfinished
  <2>2. RecordedStake(u) = 0
    BY <2>1, FS_EmptySet, SumStep DEF RecordedStake
  <2> QED BY <1>1, <1>2, <2>2, FundsAssumption DEF Balanced, OpeningStake
<1> QED BY <1>3, <1>4, <1>5, <1>6, <1>7 DEF TableInv

\* Every step of the table keeps the invariant.
LEMMA TableStep == ASSUME TableInv, BjWindows = {}, [Next]_vars PROVE TableInv'
<1>1. CASE UNCHANGED vars
  <2>1. UNCHANGED <<bal, totalWon, totalLost, tb, seat, hands, req, writes, scan, gone>>
    BY <1>1 DEF vars, bjVars, accountVars
  <2>2. TableTypes'
    BY <2>1 DEF TableInv, TableTypes, TypeOK, AccountTypeOK
  <2>3. Requests'
    BY <2>1 DEF TableInv, Requests, RequestOK
  <2>4. PhaseOK'
    BY <2>1, RecordedSame DEF TableInv, PhaseOK
  <2>5. Queue'
    BY <2>1, RecordedSame DEF TableInv, Queue
  <2>6. Money'
    BY <2>1, RecordedSame DEF TableInv, Money, Balanced, OpeningStake
  <2> QED BY <2>2, <2>3, <2>4, <2>5, <2>6 DEF TableInv
<1>2. ASSUME NEW u \in Users, LeaveSeat(u) PROVE TableInv'
  BY <1>2, LeaveSeatKeeps, LeaveWithBetKeeps
<1>3. ASSUME NEW u \in Users, Double(u) PROVE TableInv'
  <2>1. CASE tb.phase # "turns" \/ u \notin tb.turn
    BY <1>3, <2>1, RefusedDoubleKeeps DEF Double
  <2>2. CASE tb.phase = "turns" /\ u \in tb.turn
    BY <1>3, <2>2, DoubleKeeps DEF Double
  <2> QED BY <2>1, <2>2
<1>4. CASE Deal
  BY <1>4, DealKeeps, NoDealKeeps
<1>5. CASE Next
  BY <1>2, <1>3, <1>4, <1>5, TakeSeatKeeps, PlaceBetKeeps, ClearBetKeeps, CreditKeeps,
     OpenBettingKeeps, PlayKeeps, DebitDoubleKeeps, BetKeeps, LandKeepsTable, SettleKeeps,
     SettleLostKeeps, PauseEndsKeeps, CrashKeeps, TakeoverKeeps, CreateTableKeeps, RecoverKeeps
  DEF Next
<1> QED BY <1>1, <1>5

\* What the players and the rows see follows.
LEMMA TableMoneyFollows ==
  ASSUME TableInv
  PROVE  TypeOK /\ BlackjackBalances /\ StakesOnRecord
<1>1. TableTypes /\ Requests /\ PhaseOK /\ Queue /\ Money /\ TypeOK
  BY DEF TableInv, TableTypes
<1>2. ASSUME NEW u \in Users, req[u] = NoReq, NEW i \in Unfinished
      PROVE  AtStake(u, i) = Recorded(u, i) /\ Recorded(u, i) = hands[i].snap[u]
  <2>1. Recorded(u, i) = hands[i].snap[u]
    BY <1>1, <1>2, NothingTypes, NotWriting DEF Writing
  <2>2. tb.phase \in Live => Recorded(u, tb.round) = Total(seat[u].bet)
    BY <1>1 DEF PhaseOK
  <2> QED BY <2>1, <2>2 DEF AtStake, Live
<1>3. BlackjackBalances
  <2> SUFFICES ASSUME NEW u \in Users
               PROVE  /\ gone[u] >= 0
                      /\ req[u] = NoReq =>
                           bal[u] + Held(u) = Funds + totalWon[u] - totalLost[u] - gone[u]
    BY DEF BlackjackBalances
  <2>1. gone[u] \in Nat
    BY <1>1, StakeType
  <2>2. ASSUME req[u] = NoReq
        PROVE  bal[u] + Held(u) = Funds + totalWon[u] - totalLost[u] - gone[u]
    <3>1. PICK f : f = [i \in Unfinished |-> AtStake(u, i)]
      OBVIOUS
    <3>2. PICK g : g = [i \in DOMAIN hands |-> Recorded(u, i)]
      OBVIOUS
    <3>3. DOMAIN f = Unfinished
      BY <3>1
    <3>4. FoldFunction(+, 0, f) = SumOver(f, DOMAIN f)
      BY FoldIsSum, Zenon
    <3>5. \A i \in Unfinished : f[i] = g[i]
      BY <1>1, <1>2, <2>2, <3>1, <3>2, UnfinishedIs
    <3>6. SumOver(f, Unfinished) = RecordedStake(u)
      BY <1>1, <3>2, <3>5, SumEqual, UnfinishedIs DEF RecordedStake
    <3>7. Held(u) = OpeningStake(u) + RecordedStake(u)
      BY <3>1, <3>3, <3>4, <3>6 DEF Held, OpeningStake
    <3>8. PICK a \in Nat, o \in Nat, r \in Nat, g1 \in Nat, w \in Nat, l \in Nat :
            /\ a = bal[u] /\ o = OpeningStake(u) /\ r = RecordedStake(u) /\ g1 = gone[u]
            /\ w = totalWon[u] /\ l = totalLost[u]
      BY <1>1, StakeType
    <3>9. a + o + r + 0 + g1 = Funds + w - l
      <4>1. Balanced(u) /\ Pending(req[u]) = 0
        BY <1>1, <2>2, NothingTypes DEF Money, Pending
      <4> QED BY <3>8, <4>1 DEF Balanced
    <3>10. a + (o + r) = Funds + w - l - g1
      BY <3>9, FundsAssumption
    <3> QED BY <3>7, <3>8, <3>10
  <2> QED BY <2>1, <2>2
<1>4. StakesOnRecord
  <2> SUFFICES ASSUME tb.phase \in {"turns", "dealer"}, NEW u \in Users, req[u] = NoReq
               PROVE  hands[tb.round].snap[u] = Total(seat[u].bet)
    BY DEF StakesOnRecord
  <2>1. Recorded(u, tb.round) = Total(seat[u].bet)
    BY <1>1 DEF PhaseOK, Live
  <2> QED BY <1>1, <2>1, NothingTypes, NotWriting DEF Writing
<1> QED BY <1>1, <1>3, <1>4

(* No money is lost or made at a blackjack table, and the row a recovery   *)
(* refunds from knows every stake (blackjack.service.ts placeBet, double,  *)
(* recoverStrandedRounds; blackjack.engine.ts persistBettingStakes), for   *)
(* any players, bets and number of rounds, while the writes to a row reach *)
(* the database in the order they were sent and no request or takeover     *)
(* falls into one of the other windows of the code (BjWindows).            *)
THEOREM TableMoneyAlwaysKept == BjWindows = {} /\ HouseSpec => []TableMoneyKept
<1> SUFFICES ASSUME BjWindows = {} PROVE HouseSpec => []TableMoneyKept
  OBVIOUS
<1> DEFINE Inv == game = "blackjack" => TableInv
<1>1. HouseInit => Inv
  BY TableInitOK DEF HouseInit
<1>2. Inv /\ [HouseNext]_houseVars => Inv'
  <2> SUFFICES ASSUME Inv, [HouseNext]_houseVars, game' = "blackjack" PROVE TableInv'
    OBVIOUS
  <2>1. game = "blackjack" /\ [Next]_vars
    BY DEF HouseNext, houseVars, vars
  <2> QED BY <2>1, TableStep
<1>3. Inv => TableMoneyKept
  BY TableMoneyFollows DEF TableMoneyKept
<1> QED BY <1>1, <1>2, <1>3, PTL DEF HouseSpec
-----------------------------------------------------------------------------
(* The lottery.  Every ticket is of a draw and knows whether it was drawn, *)
(* a player's balance is short of the open tickets, a draw's pool is what  *)
(* its tickets won, what was burned and what goes on; whatever an engine,  *)
(* a boot or a settlement has in hand is a draw, and the rollovers in hand *)
(* or given to a draw are no more than those that were left over.          *)

ASSUME LottoAssumption ==
  /\ LottoFunds \in Nat /\ IsFiniteSet(Engines)
  /\ TicketPrice \in Nat /\ Discount \in Nat \ {0} /\ Batches \subseteq 1..Discount
  /\ \A n \in Batches : Lotto!PerTicket(n) > 0
  /\ FeeBps \in 0..10000 /\ HouseInjection \in Nat
  /\ Breakdown \in Seq(Nat) /\ SumOver(Breakdown, DOMAIN Breakdown) <= 10000
  /\ Rate \in Nat /\ Unit \in Nat \ {0} /\ Earned \in Nat

DrawRow == [status : {"open", "drawn"}, due : BOOLEAN, roll : Nat, pool : Nat, out : Nat]
TicketRow == [user : LottoUsers, draw : Nat, cost : Nat, prize : Nat, done : BOOLEAN]
FlowType == [at : {"no", "beacon", "tx", "open", "create"}, d : Nat, roll : Nat]
BootType == [at : {"no", "scan", "visit", "wait", "open", "create"}, d : Nat, roll : Nat,
             todo : SUBSET Nat]
EngineType == [lead : BOOLEAN, cur : Nat, carry : Nat, reboot : BOOLEAN, boot : BootType,
               st : FlowType]
PurchaseType == [at : {"no", "paid", "free"}, d : Nat, n : Nat]

\* The types, with those of the rows.
DrawTypes ==
  /\ Lotto!TypeOK
  /\ draws \in Seq(DrawRow) /\ tickets \in Seq(TicketRow)
  /\ buy \in [LottoUsers -> PurchaseType]
  /\ eng \in [Engines -> EngineType]

\* What an engine has in hand is a draw, or nothing yet.
EngineKnows(e) ==
  /\ e.cur \in 0..Len(draws) /\ e.boot.d \in 0..Len(draws)
  /\ e.boot.todo \subseteq DOMAIN draws
  /\ e.st.at \in {"beacon", "tx"} => e.st.d \in DOMAIN draws

\* A purchase is for a draw; a paid one is a batch.
PurchaseKnows(b) ==
  /\ b.at # "no" => b.d \in DOMAIN draws
  /\ b.at = "paid" => b.n \in Batches

DrawsKnown ==
  /\ \A p \in Engines : EngineKnows(eng[p])
  /\ \A u \in LottoUsers : PurchaseKnows(buy[u])

\* A ticket is settled with its draw.
TicketsFollow ==
  \A t \in DOMAIN tickets : tickets[t].done <=> draws[tickets[t].draw].status = "drawn"

\* What a player has paid for tickets that are not drawn.
OpenCost(u) == [t \in DOMAIN tickets |->
  IF tickets[t].user = u /\ ~tickets[t].done THEN Lotto!ToLamports(tickets[t].cost) ELSE 0]
OpenTickets(u) == SumOver(OpenCost(u), DOMAIN tickets)

TicketMoney ==
  \A u \in LottoUsers : bal[u] = LottoFunds + totalWon[u] - totalLost[u] - OpenTickets(u)

\* A ticket that was free was earned and is spent.
FreeOnes(u) == {t \in DOMAIN tickets : tickets[t].user = u /\ tickets[t].cost = 0}
FreeSpent == \A u \in LottoUsers : Cardinality(FreeOnes(u)) <= spent[u] /\ spent[u] <= Earned

\* What the tickets of a draw won.
PrizeOf(d) == [t \in DOMAIN tickets |-> IF tickets[t].draw = d THEN tickets[t].prize ELSE 0]
Prizes(d) == SumOver(PrizeOf(d), DOMAIN tickets)

PoolsSplit ==
  \A d \in DOMAIN draws :
    IF draws[d].status = "drawn"
    THEN draws[d].pool = Lotto!Burn(draws[d].pool) + Prizes(d) + draws[d].out
    ELSE draws[d].out = 0

\* Rollovers that an engine has in hand, that the draws were given, that they left over.
Carried(e) == e.carry + e.st.roll + e.boot.roll
InHand == SumOver([p \in Engines |-> Carried(eng[p])], Engines)
Given == SumOver([d \in DOMAIN draws |-> draws[d].roll], DOMAIN draws)
LeftOver == SumOver([d \in DOMAIN draws |-> draws[d].out], DOMAIN draws)
RollsBacked == Given + InHand <= LeftOver

\* The inductive invariant of the lottery.
LottoInv == DrawTypes /\ DrawsKnown /\ TicketsFollow /\ TicketMoney /\ FreeSpent
            /\ PoolsSplit /\ RollsBacked
-----------------------------------------------------------------------------
\* A fold over a function is its sum, also in the lottery's module.
LEMMA LottoFoldIsSum ==
  ASSUME NEW f
  PROVE  /\ Lotto!FoldFunction(+, 0, f) = SumOver(f, DOMAIN f)
         /\ \A S : Lotto!FoldFunctionOnSet(+, 0, f, S) = SumOver(f, S)
  BY DEF Lotto!FoldFunction, Lotto!FoldFunctionOnSet, Lotto!MapThenFoldSet, MapThenFoldSet,
         SumOver, MapThenSumSet

\* The constants, one by one.
LEMMA LottoConstants ==
  /\ LottoFunds \in Nat /\ IsFiniteSet(Engines)
  /\ TicketPrice \in Nat /\ Discount \in Nat \ {0} /\ Batches \subseteq 1..Discount
  /\ FeeBps \in 0..10000 /\ HouseInjection \in Nat
  /\ Rate \in Nat /\ Unit \in Nat \ {0} /\ Earned \in Nat
  /\ Breakdown \in Seq(Nat) /\ IsFiniteSet(DOMAIN Breakdown)
  /\ \A b \in DOMAIN Breakdown : Breakdown[b] \in Nat
  /\ SumOver(Breakdown, DOMAIN Breakdown) \in 0..10000
<1>1. DOMAIN Breakdown = 1..Len(Breakdown) /\ Len(Breakdown) \in Nat
  BY LottoAssumption
<1>2. IsFiniteSet(DOMAIN Breakdown)
  BY <1>1, FS_Interval
<1>3. \A b \in DOMAIN Breakdown : Breakdown[b] \in Nat
  BY LottoAssumption
<1> DEFINE k == SumOver(Breakdown, DOMAIN Breakdown)
<1>4. k \in Nat
  BY <1>2, <1>3, SumNat
<1>5. k <= 10000
  BY LottoAssumption
<1>6. k \in 0..10000
  <2> HIDE DEF k
  <2> QED BY <1>4, <1>5
<1> QED BY <1>2, <1>3, <1>6, LottoAssumption

\* Products of numbers are numbers.
LEMMA NatProduct == \A a, b \in Nat : a * b \in Nat
  OBVIOUS

\* Of a product by a share, in basis points.
LEMMA ShareOf == ASSUME NEW a \in Nat, NEW b \in Nat
  PROVE  /\ (a * b) \div 10000 \in Nat
         /\ 10000 * ((a * b) \div 10000) <= a * b
         /\ b <= 10000 => (a * b) \div 10000 <= a
<1>1. a * b \in Nat
  BY NatProduct
<1>2. b <= 10000 => a * b <= a * 10000
  OBVIOUS
<1> DEFINE n == a * b
<1> HIDE DEF n
<1>3. n \in Nat /\ (b <= 10000 => n <= a * 10000)
  BY <1>1, <1>2 DEF n
<1>4. n \div 10000 \in Nat /\ 10000 * (n \div 10000) <= n
  BY <1>3
<1>5. n <= a * 10000 => n \div 10000 <= a
  BY <1>3
<1> QED BY <1>3, <1>4, <1>5 DEF n

\* Prices are numbers, nothing costs nothing, and what is sold costs something.
LEMMA TicketPrices ==
  /\ \A c \in Nat : Lotto!ToLamports(c) \in Nat
  /\ Lotto!ToLamports(0) = 0
  /\ \A n \in Batches : n \in Nat \ {0} /\ Lotto!PerTicket(n) \in Nat \ {0}
<1>1. \A m \in Nat, k \in Nat \ {0} : m \div k \in Nat
  OBVIOUS
<1>2. ASSUME NEW c \in Nat PROVE Lotto!ToLamports(c) \in Nat
  <2>1. 2 * c * Rate \in Nat
    BY NatProduct, LottoConstants
  <2>2. 2 * c * Rate + Unit \in Nat /\ 2 * Unit \in Nat \ {0}
    BY <2>1, LottoConstants
  <2> QED BY <1>1, <2>2 DEF Lotto!ToLamports
<1>3. Lotto!ToLamports(0) = 0
  <2>1. 2 * 0 * Rate = 0 BY LottoConstants
  <2>2. \A k \in Nat \ {0} : (0 + k) \div (2 * k) = 0 OBVIOUS
  <2> QED BY <2>1, <2>2, LottoConstants DEF Lotto!ToLamports
<1>4. ASSUME NEW n \in Batches PROVE n \in Nat \ {0} /\ Lotto!PerTicket(n) \in Nat \ {0}
  <2>1. n \in Nat \ {0} /\ Discount + 1 - n \in Nat
    BY LottoConstants
  <2>2. TicketPrice * n * (Discount + 1 - n) \in Nat
    BY <2>1, NatProduct, LottoConstants
  <2>3. Lotto!BulkDiscountTotal(n) \in Nat
    BY <1>1, <2>2, LottoConstants DEF Lotto!BulkDiscountTotal
  <2>4. Lotto!PerTicket(n) \in Nat
    BY <1>1, <2>1, <2>3 DEF Lotto!PerTicket
  <2> QED BY <2>1, <2>4, LottoAssumption
<1> QED BY <1>2, <1>3, <1>4

\* The slices of a pool fit into what is not burned.
LEMMA SlicesFit == ASSUME NEW pool \in Nat
  PROVE  /\ Lotto!Burn(pool) \in 0..pool
         /\ \A b \in DOMAIN Breakdown : Lotto!Slice(pool, b) \in Nat
         /\ SumOver([b \in DOMAIN Breakdown |-> Lotto!Slice(pool, b)], DOMAIN Breakdown)
              \in 0..(pool - Lotto!Burn(pool))
<1>1. Lotto!Burn(pool) \in 0..pool
  <2>1. FeeBps \in Nat /\ FeeBps <= 10000
    BY LottoConstants
  <2>2. (pool * FeeBps) \div 10000 \in Nat /\ (pool * FeeBps) \div 10000 <= pool
    BY <2>1, ShareOf
  <2> QED BY <2>2 DEF Lotto!Burn
<1> DEFINE rest == pool - Lotto!Burn(pool)
           S == DOMAIN Breakdown
           f == [b \in S |-> Lotto!Slice(pool, b)]
           g == [b \in S |-> 10000 * f[b]]
           h == [b \in S |-> rest * Breakdown[b]]
<1>2. rest \in Nat
  BY <1>1
<1>3. \A b \in S : f[b] \in Nat /\ 10000 * f[b] <= rest * Breakdown[b] /\ rest * Breakdown[b] \in Nat
  <2> SUFFICES ASSUME NEW b \in S
               PROVE  /\ Lotto!Slice(pool, b) \in Nat
                      /\ 10000 * Lotto!Slice(pool, b) <= rest * Breakdown[b]
                      /\ rest * Breakdown[b] \in Nat
    OBVIOUS
  <2>1. Lotto!Slice(pool, b) = (rest * Breakdown[b]) \div 10000
    BY DEF Lotto!Slice
  <2>2. Breakdown[b] \in Nat
    BY LottoConstants
  <2> HIDE DEF rest
  <2> QED BY <1>2, <2>1, <2>2, ShareOf, NatProduct
<1>4. IsFiniteSet(S) /\ \A b \in S : Breakdown[b] \in Nat
  BY LottoConstants
<1>5. SumOver(f, S) \in Nat
  <2> HIDE DEF f
  <2> QED BY <1>3, <1>4, SumNat
<1>6. SumOver(g, S) = 10000 * SumOver(f, S)
  <2>1. \A b \in S : f[b] \in Int /\ g[b] = 10000 * f[b]
    BY <1>3
  <2> HIDE DEF f, g
  <2> QED BY <1>4, <2>1, SumScale
<1>7. SumOver(h, S) = rest * SumOver(Breakdown, S)
  <2>1. \A b \in S : Breakdown[b] \in Int /\ h[b] = rest * Breakdown[b]
    BY <1>4
  <2> HIDE DEF h, rest
  <2> QED BY <1>2, <1>4, <2>1, SumScale
<1>8. SumOver(g, S) <= SumOver(h, S)
  <2>1. \A b \in S : g[b] \in Int /\ h[b] \in Int /\ g[b] <= h[b]
    <3> SUFFICES ASSUME NEW b \in S PROVE g[b] \in Int /\ h[b] \in Int /\ g[b] <= h[b]
      OBVIOUS
    <3>1. g[b] = 10000 * f[b] /\ h[b] = rest * Breakdown[b] OBVIOUS
    <3> HIDE DEF f, g, h, rest
    <3> QED BY <1>3, <3>1
  <2> HIDE DEF g, h
  <2> QED BY <1>4, <2>1, SumLeq
<1> DEFINE k == SumOver(Breakdown, S)
           sum == SumOver(f, S)
<1>9. k \in 0..10000
  BY LottoConstants
<1>10. rest * k <= rest * 10000
  <2> HIDE DEF rest, k
  <2> QED BY <1>2, <1>9
<1>11. sum <= rest
  <2>1. 10000 * sum <= rest * k
    BY <1>6, <1>7, <1>8
  <2>2. rest * k \in Nat
    <3> HIDE DEF rest, k
    <3> QED BY <1>2, <1>9
  <2> HIDE DEF sum, rest, k
  <2> QED BY <1>2, <1>5, <1>10, <2>1, <2>2 DEF sum
<1>12. SumOver(f, S) \in 0..rest
  <2> HIDE DEF f, rest, S
  <2> QED BY <1>2, <1>5, <1>11
<1>13. \A b \in S : Lotto!Slice(pool, b) \in Nat
  BY <1>3
<1> QED BY <1>1, <1>12, <1>13

\* A pool is burned, won and rolled over to the last unit.
LEMMA SplitWhole ==
  ASSUME NEW pool \in Nat, NEW count \in [DOMAIN Breakdown -> Nat]
  PROVE  /\ \A b \in DOMAIN Breakdown : Lotto!PerWinner(pool, b, count) \in Nat
         /\ Lotto!NextRollover(pool, count) \in Nat
         /\ pool = Lotto!Burn(pool)
                   + SumOver([b \in DOMAIN Breakdown |->
                                Lotto!PerWinner(pool, b, count) * count[b]], DOMAIN Breakdown)
                   + Lotto!NextRollover(pool, count)
<1> DEFINE S == DOMAIN Breakdown
           won == [b \in S |-> Lotto!PerWinner(pool, b, count) * count[b]]
           slice == [b \in S |-> Lotto!Slice(pool, b)]
           dust == [b \in S |-> Lotto!Slice(pool, b) - Lotto!PerWinner(pool, b, count) * count[b]]
<1>1. Lotto!NextRollover(pool, count)
        = SumOver(dust, S) + (pool - Lotto!Burn(pool) - SumOver(slice, S))
  <2>1. Lotto!NextRollover(pool, count)
          = Lotto!FoldFunction(+, 0, dust)
            + (pool - Lotto!Burn(pool) - Lotto!FoldFunction(+, 0, slice))
    BY DEF Lotto!NextRollover, Lotto!SumOver, Lotto!Brackets
  <2>2. Lotto!FoldFunction(+, 0, dust) = SumOver(dust, DOMAIN dust)
    BY LottoFoldIsSum
  <2>3. Lotto!FoldFunction(+, 0, slice) = SumOver(slice, DOMAIN slice)
    BY LottoFoldIsSum
  <2> QED BY <2>1, <2>2, <2>3
<1>2. ASSUME NEW b \in S
      PROVE  /\ Lotto!PerWinner(pool, b, count) \in Nat
             /\ Lotto!PerWinner(pool, b, count) * count[b] \in Nat
             /\ Lotto!PerWinner(pool, b, count) * count[b] <= Lotto!Slice(pool, b)
             /\ Lotto!Slice(pool, b) \in Nat
  <2>1. Lotto!Slice(pool, b) \in Nat /\ count[b] \in Nat
    BY SlicesFit
  <2>2. \A m, n \in Nat : n # 0 => m \div n \in Nat /\ (m \div n) * n <= m /\ (m \div n) * n \in Nat
    OBVIOUS
  <2>3. CASE count[b] = 0
    BY <2>1, <2>3 DEF Lotto!PerWinner
  <2>4. CASE count[b] # 0
    BY <2>1, <2>2, <2>4 DEF Lotto!PerWinner
  <2> QED BY <2>3, <2>4
<1>3. IsFiniteSet(S)
  BY LottoConstants
<1>4. \A b \in S : won[b] \in Nat /\ dust[b] \in Nat /\ slice[b] \in Nat /\ slice[b] = won[b] + dust[b]
  <2> SUFFICES ASSUME NEW b \in S
      PROVE won[b] \in Nat /\ dust[b] \in Nat /\ slice[b] \in Nat /\ slice[b] = won[b] + dust[b]
    OBVIOUS
  <2> DEFINE w == Lotto!PerWinner(pool, b, count) * count[b]
             s == Lotto!Slice(pool, b)
  <2>1. won[b] = w /\ slice[b] = s /\ dust[b] = s - w
    OBVIOUS
  <2>2. w \in Nat /\ s \in Nat /\ w <= s
    BY <1>2
  <2> HIDE DEF w, s, won, dust, slice
  <2> QED BY <2>1, <2>2
<1>5. SumOver(slice, S) = SumOver(won, S) + SumOver(dust, S)
  <2> HIDE DEF slice, won, dust
  <2> QED BY <1>3, <1>4, SumPlus
<1>6. SumOver(won, S) \in Nat /\ SumOver(dust, S) \in Nat
  <2> HIDE DEF slice, won, dust
  <2> QED BY <1>3, <1>4, SumNat
<1>7. SumOver(slice, S) \in 0..(pool - Lotto!Burn(pool)) /\ Lotto!Burn(pool) \in 0..pool
  BY SlicesFit
<1> DEFINE a == SumOver(won, S)
           c == SumOver(dust, S)
           k == SumOver(slice, S)
           out == Lotto!NextRollover(pool, count)
           burnt == Lotto!Burn(pool)
<1>8. out \in Nat /\ pool = burnt + a + out
  <2>1. out = c + (pool - burnt - k) /\ k = a + c /\ a \in Nat /\ c \in Nat
        /\ k \in 0..(pool - burnt) /\ burnt \in 0..pool
    BY <1>1, <1>5, <1>6, <1>7
  <2> HIDE DEF a, c, k, out, burnt
  <2> QED BY <2>1
<1> QED BY <1>2, <1>8

\* A set has as many members in the lottery's module.
LEMMA LottoCardinality == \A S : Lotto!Cardinality(S) = Cardinality(S)
  BY DEF Lotto!Cardinality, Cardinality

\* The rows of what is known to be one.
LEMMA LottoRows ==
  ASSUME DrawTypes
  PROVE  /\ bal \in [LottoUsers -> Nat] /\ totalWon \in [LottoUsers -> Nat]
         /\ totalLost \in [LottoUsers -> Nat] /\ spent \in [LottoUsers -> Nat]
         /\ DOMAIN draws = 1..Len(draws) /\ Len(draws) \in Nat /\ IsFiniteSet(DOMAIN draws)
         /\ DOMAIN tickets = 1..Len(tickets) /\ Len(tickets) \in Nat /\ IsFiniteSet(DOMAIN tickets)
         /\ \A d \in DOMAIN draws : draws[d] \in DrawRow
         /\ \A t \in DOMAIN tickets : tickets[t] \in TicketRow /\ tickets[t].draw \in DOMAIN draws
         /\ \A u \in LottoUsers : buy[u] \in PurchaseType
         /\ \A p \in Engines : eng[p] \in EngineType
<1>1. DOMAIN draws = 1..Len(draws) /\ Len(draws) \in Nat
      /\ DOMAIN tickets = 1..Len(tickets) /\ Len(tickets) \in Nat
  BY DEF DrawTypes
<1>2. IsFiniteSet(DOMAIN draws) /\ IsFiniteSet(DOMAIN tickets)
  BY <1>1, FS_Interval
<1>3. \A d \in DOMAIN draws : draws[d] \in DrawRow
  BY DEF DrawTypes
<1>4. \A t \in DOMAIN tickets : tickets[t] \in TicketRow /\ tickets[t].draw \in DOMAIN draws
  BY DEF DrawTypes, Lotto!TypeOK
<1>5. bal \in [LottoUsers -> Nat] /\ totalWon \in [LottoUsers -> Nat]
      /\ totalLost \in [LottoUsers -> Nat] /\ spent \in [LottoUsers -> Nat]
  BY DEF DrawTypes, Lotto!TypeOK, Lotto!AccountTypeOK
<1>6. (\A u \in LottoUsers : buy[u] \in PurchaseType) /\ \A p \in Engines : eng[p] \in EngineType
  BY DEF DrawTypes
<1> QED BY <1>1, <1>2, <1>3, <1>4, <1>5, <1>6

\* An engine at its start, and a player without a purchase.
LEMMA NothingInHand ==
  /\ Lotto!NoFlow \in FlowType /\ Lotto!Standby \in EngineType /\ Lotto!NoBuy \in PurchaseType
  /\ Lotto!Standby.boot \in BootType
  BY DEF Lotto!NoFlow, Lotto!Standby, Lotto!NoBuy, FlowType, BootType, EngineType, PurchaseType

\* What an engine carries is a number.
LEMMA CarriedType == \A e \in EngineType : Carried(e) \in Nat
  BY DEF Carried, EngineType, FlowType, BootType

\* So is what all of them carry.
LEMMA InHandType == ASSUME DrawTypes PROVE InHand \in Nat
<1> DEFINE f == [p \in Engines |-> Carried(eng[p])]
<1>1. \A p \in Engines : f[p] \in Nat
  BY CarriedType DEF DrawTypes
<1>2. IsFiniteSet(Engines)
  BY LottoConstants
<1> HIDE DEF f
<1>3. SumOver(f, Engines) \in Nat
  BY <1>1, <1>2, SumNat
<1> QED BY <1>3 DEF InHand, f

\* And what the draws were given and left over.
LEMMA RollTypes == ASSUME DrawTypes PROVE Given \in Nat /\ LeftOver \in Nat
<1> DEFINE f == [d \in DOMAIN draws |-> draws[d].roll]
           g == [d \in DOMAIN draws |-> draws[d].out]
<1>1. \A d \in DOMAIN draws : f[d] \in Nat /\ g[d] \in Nat
  BY LottoRows DEF DrawRow
<1>2. IsFiniteSet(DOMAIN draws)
  BY LottoRows
<1> HIDE DEF f, g
<1>3. SumOver(f, DOMAIN draws) \in Nat /\ SumOver(g, DOMAIN draws) \in Nat
  BY <1>1, <1>2, SumNat
<1> QED BY <1>3 DEF Given, LeftOver, f, g

\* What the rows say is a matter of the rows.
LEMMA LottoSame ==
  ASSUME LottoInv, UNCHANGED <<bal, totalWon, totalLost, draws, tickets, spent>>
  PROVE  /\ TicketsFollow' /\ TicketMoney' /\ FreeSpent' /\ PoolsSplit'
         /\ Given' = Given /\ LeftOver' = LeftOver
<1>1. TicketsFollow' /\ FreeSpent'
  BY DEF LottoInv, TicketsFollow, FreeSpent, FreeOnes
<1>2. \A u : OpenTickets(u)' = OpenTickets(u)
  BY DEF OpenTickets, OpenCost
<1>3. TicketMoney'
  BY <1>2 DEF LottoInv, TicketMoney
<1>4. \A d : Prizes(d)' = Prizes(d)
  BY DEF Prizes, PrizeOf
<1>5. PoolsSplit'
  BY <1>4 DEF LottoInv, PoolsSplit
<1>6. Given' = Given /\ LeftOver' = LeftOver
  BY DEF Given, LeftOver
<1> QED BY <1>1, <1>3, <1>5, <1>6

\* One engine changes: so does what is in hand.
LEMMA InHandStep ==
  ASSUME DrawTypes, NEW p \in Engines, NEW e \in EngineType, eng' = [eng EXCEPT ![p] = e]
  PROVE  InHand' = InHand - Carried(eng[p]) + Carried(e)
<1> DEFINE f == [q \in Engines |-> Carried(eng[q])]
           g == [q \in Engines |-> Carried(eng'[q])]
<1>1. \A q \in Engines : eng'[q] = IF q = p THEN e ELSE eng[q]
  BY DEF DrawTypes
<1>2. \A q \in Engines : Carried(eng[q]) \in Nat /\ Carried(eng'[q]) \in Nat
  BY <1>1, LottoRows, CarriedType
<1>3. \A q \in Engines : f[q] \in Int /\ g[q] \in Int
  BY <1>2
<1>4. \A q \in Engines \ {p} : f[q] = g[q]
  BY <1>1
<1>5. f[p] = Carried(eng[p]) /\ g[p] = Carried(e)
  BY <1>1
<1>6. IsFiniteSet(Engines)
  BY LottoConstants
<1>7. InHand = SumOver(f, Engines) /\ InHand' = SumOver(g, Engines)
  BY DEF InHand, Carried
<1> HIDE DEF f, g
<1>8. SumOver(g, Engines) = SumOver(f, Engines) - f[p] + g[p]
  BY <1>3, <1>4, <1>6, SumChange
<1> QED BY <1>5, <1>7, <1>8

\* An engine moves on and holds no more than it did.
LEMMA EngineKeeps ==
  ASSUME LottoInv, NEW p \in Engines, NEW e \in EngineType, EngineKnows(e),
         Carried(e) <= Carried(eng[p]), eng' = [eng EXCEPT ![p] = e],
         UNCHANGED <<bal, totalWon, totalLost, draws, tickets, spent, buy>>,
         lease' \in SUBSET Engines, Cardinality(lease') <= 1
  PROVE  LottoInv'
<1> USE DEF LottoInv
<1>1. \A q \in Engines : eng'[q] = IF q = p THEN e ELSE eng[q]
  BY DEF DrawTypes
<1>2. DrawTypes'
  <2>1. eng' \in [Engines -> EngineType]
    BY DEF DrawTypes
  <2>2. \A q \in Engines : eng'[q].cur \in 0..Len(draws') /\ eng'[q].carry \in Nat
    BY <1>1 DEF DrawTypes, Lotto!TypeOK, EngineKnows, EngineType
  <2>3. Lotto!AccountTypeOK'
    BY DEF DrawTypes, Lotto!TypeOK, Lotto!AccountTypeOK
  <2>4. Lotto!Cardinality(lease') <= 1
    BY LottoCardinality
  <2>5. Lotto!TypeOK'
    BY <2>2, <2>3, <2>4 DEF DrawTypes, Lotto!TypeOK
  <2> QED BY <2>1, <2>5 DEF DrawTypes
<1>3. DrawsKnown'
  BY <1>1 DEF DrawsKnown, EngineKnows, PurchaseKnows
<1>4. RollsBacked'
  <2>1. Given' = Given /\ LeftOver' = LeftOver
    BY LottoSame
  <2>2. InHand' = InHand - Carried(eng[p]) + Carried(e)
    BY InHandStep
  <2>3. Carried(eng[p]) \in Nat /\ Carried(e) \in Nat
    BY LottoRows, CarriedType
  <2>4. Given \in Nat /\ LeftOver \in Nat /\ InHand \in Nat
    BY RollTypes, InHandType
  <2> QED BY <2>1, <2>2, <2>3, <2>4 DEF RollsBacked
<1> QED BY <1>2, <1>3, <1>4, LottoSame

\* The parts of an engine.
LEMMA EngineIs ==
  ASSUME LottoInv, NEW p \in Engines
  PROVE  /\ eng[p] \in EngineType /\ EngineKnows(eng[p])
         /\ eng[p].boot \in BootType /\ eng[p].st \in FlowType
         /\ eng[p].carry \in Nat /\ eng[p].boot.roll \in Nat /\ eng[p].st.roll \in Nat
         /\ lease \in SUBSET Engines /\ Cardinality(lease) <= 1 /\ IsFiniteSet(lease)
<1>1. eng[p] \in EngineType /\ EngineKnows(eng[p])
  BY LottoRows DEF LottoInv, DrawsKnown
<1>2. lease \in SUBSET Engines /\ Cardinality(lease) <= 1
  BY LottoCardinality DEF LottoInv, DrawTypes, Lotto!TypeOK
<1>3. IsFiniteSet(lease)
  BY <1>2, LottoConstants, FS_Subset
<1> QED BY <1>1, <1>2, <1>3 DEF EngineType, BootType, FlowType

\* An election starts the boot sequence.
LEMMA ElectKeeps ==
  ASSUME LottoInv, NEW p \in Engines, Lotto!Elect(p) PROVE LottoInv'
<1> DEFINE e == [eng[p] EXCEPT !.lead = TRUE, !.reboot = FALSE, !.boot.at = "scan"]
<1>1. e \in EngineType /\ EngineKnows(e) /\ Carried(e) <= Carried(eng[p])
  <2>1. e \in EngineType BY EngineIs DEF EngineType, BootType
  <2>2. EngineKnows(e) BY EngineIs DEF EngineType, BootType, EngineKnows
  <2>3. Carried(e) = Carried(eng[p]) BY EngineIs DEF EngineType, BootType, Carried
  <2> QED BY <2>1, <2>2, <2>3, EngineIs, CarriedType
<1>2. lease' \in SUBSET Engines /\ Cardinality(lease') <= 1
  BY FS_Singleton DEF Lotto!Elect
<1>3. eng' = [eng EXCEPT ![p] = e]
      /\ UNCHANGED <<bal, totalWon, totalLost, draws, tickets, spent, buy>>
  BY DEF Lotto!Elect, Lotto!Set, Lotto!accountVars
<1> HIDE DEF e
<1> QED BY <1>1, <1>2, <1>3, EngineKeeps

\* A demotion leaves everything under way as it is.
LEMMA DemoteKeeps ==
  ASSUME LottoInv, NEW p \in Engines, Lotto!Demote(p) PROVE LottoInv'
<1> DEFINE e == [eng[p] EXCEPT !.lead = FALSE, !.reboot = FALSE]
<1>1. e \in EngineType /\ EngineKnows(e) /\ Carried(e) <= Carried(eng[p])
  <2>1. e \in EngineType BY EngineIs DEF EngineType, BootType
  <2>2. EngineKnows(e) BY EngineIs DEF EngineType, BootType, EngineKnows
  <2>3. Carried(e) = Carried(eng[p]) BY EngineIs DEF EngineType, BootType, Carried
  <2> QED BY <2>1, <2>2, <2>3, EngineIs, CarriedType
<1>2. eng' = [eng EXCEPT ![p] = e]
      /\ UNCHANGED <<bal, totalWon, totalLost, draws, tickets, spent, buy, lease>>
  BY DEF Lotto!Demote, Lotto!Set, Lotto!Idle, Lotto!accountVars
<1> HIDE DEF e
<1> QED BY <1>1, <1>2, EngineIs, EngineKeeps

\* A crash loses what the engine holds, the rollovers too.
LEMMA EngineCrashKeeps ==
  ASSUME LottoInv, NEW p \in Engines, Lotto!Crash(p) PROVE LottoInv'
<1> DEFINE e == Lotto!Standby
<1>1. e \in EngineType
  BY NothingInHand
<1>2. EngineKnows(e)
  BY LottoRows DEF LottoInv, EngineKnows, Lotto!Standby, Lotto!NoFlow
<1>3. Carried(e) <= Carried(eng[p])
  <2>1. Carried(e) = 0
    BY DEF Carried, Lotto!Standby, Lotto!NoFlow
  <2> QED BY <2>1, EngineIs, CarriedType
<1>4. lease' \in SUBSET Engines /\ Cardinality(lease') <= 1
  <2>1. lease' = lease \ {p}
    BY DEF Lotto!Crash
  <2>2. Cardinality(lease \ {p}) <= Cardinality(lease) /\ Cardinality(lease) \in Nat
        /\ Cardinality(lease \ {p}) \in Nat
    BY EngineIs, FS_Subset, FS_CardinalityType
  <2> QED BY <2>1, <2>2, EngineIs
<1>5. eng' = [eng EXCEPT ![p] = e]
      /\ UNCHANGED <<bal, totalWon, totalLost, draws, tickets, spent, buy>>
  BY DEF Lotto!Crash, Lotto!Set, Lotto!accountVars
<1> HIDE DEF e
<1> QED BY <1>1, <1>2, <1>3, <1>4, <1>5, EngineKeeps

\* Draws have numbers.
LEMMA SomeDraws ==
  ASSUME LottoInv, NEW S, S \subseteq DOMAIN draws
  PROVE  IsFiniteSet(S) /\ S \subseteq Nat
<1>1. DOMAIN draws \subseteq Nat /\ IsFiniteSet(DOMAIN draws)
  BY LottoRows DEF LottoInv
<1> QED BY <1>1, FS_Subset

\* A non-empty set of draws has an oldest and a newest one: that with the fewest before it, and
\* that with the fewest after it.
LEMMA OldestNewestDraw ==
  ASSUME LottoInv, NEW S, S \subseteq DOMAIN draws, S # {}
  PROVE  Lotto!Oldest(S) \in S /\ Lotto!Newest(S) \in S
<1>1. IsFiniteSet(S)
  BY SomeDraws
<1>2. \A y, z \in S : y \in Nat /\ z \in Nat
  BY SomeDraws
<1>3. \E x \in S : \A y \in S : x <= y
  <2> DEFINE before == [x \in S |-> {y \in S : y < x}]
  <2>1. \A x \in S : before[x] \subseteq S
    OBVIOUS
  <2>2. PICK x \in S : \A y \in S : before[y] \subseteq before[x] => before[y] = before[x]
    <3> HIDE DEF before
    <3> QED BY <1>1, <2>1, MinimalValue
  <2>3. ASSUME NEW y \in S, y < x PROVE FALSE
    <3>1. before[y] \subseteq before[x] /\ y \in before[x] /\ y \notin before[y]
      BY <1>2, <2>3
    <3> HIDE DEF before
    <3> QED BY <2>2, <3>1
  <2> QED BY <1>2, <2>3
<1>4. \E x \in S : \A y \in S : y <= x
  <2> DEFINE after == [x \in S |-> {y \in S : y > x}]
  <2>1. \A x \in S : after[x] \subseteq S
    OBVIOUS
  <2>2. PICK x \in S : \A y \in S : after[y] \subseteq after[x] => after[y] = after[x]
    <3> HIDE DEF after
    <3> QED BY <1>1, <2>1, MinimalValue
  <2>3. ASSUME NEW y \in S, y > x PROVE FALSE
    <3>1. after[y] \subseteq after[x] /\ y \in after[x] /\ y \notin after[y]
      BY <1>2, <2>3
    <3> HIDE DEF after
    <3> QED BY <2>2, <3>1
  <2> QED BY <1>2, <2>3
<1> QED BY <1>3, <1>4 DEF Lotto!Oldest, Lotto!Newest

\* A step of one engine alone.
LEMMA MoveKeeps ==
  ASSUME LottoInv, NEW p \in Engines, NEW e \in EngineType, EngineKnows(e),
         Carried(e) <= Carried(eng[p]), Lotto!Set(p, e),
         UNCHANGED <<bal, totalWon, totalLost, draws, tickets, spent, buy, lease>>
  PROVE  LottoInv'
<1>1. eng' = [eng EXCEPT ![p] = e]
  BY DEF Lotto!Set
<1> QED BY <1>1, EngineIs, EngineKeeps

\* The scan takes draws in hand.
LEMMA ScanKeeps ==
  ASSUME LottoInv, NEW p \in Engines, Lotto!Scan(p) PROVE LottoInv'
<1> DEFINE live == {d \in Lotto!OpenDraws : ~draws[d].due}
           keep == IF live = {} THEN 0 ELSE Lotto!Newest(live)
           boot == [at |-> "visit", d |-> keep, roll |-> 0, todo |-> Lotto!OpenDraws \ {keep}]
           e == [eng[p] EXCEPT !.reboot = FALSE, !.boot = boot]
<1>1. live \subseteq DOMAIN draws /\ Lotto!OpenDraws \subseteq DOMAIN draws
  BY DEF Lotto!OpenDraws
<1>2. keep \in 0..Len(draws)
  <2>1. live # {} => Lotto!Newest(live) \in live
    <3> HIDE DEF live
    <3> QED BY <1>1, OldestNewestDraw
  <2> QED BY <1>1, <2>1, LottoRows DEF LottoInv
<1>3. Lotto!OpenDraws \subseteq Nat /\ keep \in Nat
  BY <1>1, <1>2, SomeDraws, LottoRows DEF LottoInv
<1>4. /\ Lotto!Set(p, e)
      /\ UNCHANGED <<bal, totalWon, totalLost, draws, tickets, spent, buy, lease>>
  BY DEF Lotto!Scan, Lotto!Idle, Lotto!accountVars
<1>5. boot \in BootType /\ boot.d \in 0..Len(draws) /\ boot.todo \subseteq DOMAIN draws
      /\ boot.roll = 0
  <2> HIDE DEF keep
  <2> QED BY <1>1, <1>2, <1>3 DEF BootType
<1>6. e \in EngineType /\ e.boot = boot /\ e.st = eng[p].st /\ e.cur = eng[p].cur
      /\ e.carry = eng[p].carry
  <2> HIDE DEF boot
  <2> QED BY <1>5, EngineIs DEF EngineType
<1> HIDE DEF boot, e
<1>7. EngineKnows(e)
  BY <1>5, <1>6, EngineIs DEF EngineKnows
<1>8. Carried(e) <= Carried(eng[p])
  BY <1>5, <1>6, EngineIs DEF Carried
<1> QED BY <1>4, <1>6, <1>7, <1>8, MoveKeeps

\* An engine that has nothing to boot.
LEMMA BootedIs ==
  ASSUME LottoInv
  PROVE  /\ Lotto!Standby.boot \in BootType /\ Lotto!Standby.boot.roll = 0
         /\ Lotto!Standby.boot.d \in 0..Len(draws)
         /\ Lotto!Standby.boot.todo \subseteq DOMAIN draws
  BY NothingInHand, LottoRows DEF Lotto!Standby, LottoInv

\* A visit settles the oldest of them or ends the boot.
LEMMA VisitKeeps ==
  ASSUME LottoInv, NEW p \in Engines, Lotto!Visit(p) PROVE LottoInv'
<1> DEFINE d == Lotto!Oldest(eng[p].boot.todo)
           st == [Lotto!NoFlow EXCEPT !.at = "beacon", !.d = d]
           e1 == [eng[p] EXCEPT !.cur = d, !.boot.todo = @ \ {d}, !.boot.at = "wait", !.st = st]
           e2 == [eng[p] EXCEPT !.cur = d, !.boot = Lotto!Standby.boot]
<1>1. d \in DOMAIN draws /\ d \in 0..Len(draws) /\ d \in Nat
  <2>1. eng[p].boot.todo # {} /\ eng[p].boot.todo \subseteq DOMAIN draws
    BY EngineIs DEF Lotto!Visit, EngineKnows
  <2>2. d \in eng[p].boot.todo
    BY <2>1, OldestNewestDraw
  <2> HIDE DEF d
  <2> QED BY <2>1, <2>2, LottoRows DEF LottoInv
<1>2. /\ Lotto!Set(p, e1) \/ Lotto!Set(p, e2)
      /\ UNCHANGED <<bal, totalWon, totalLost, draws, tickets, spent, buy, lease>>
  BY DEF Lotto!Visit, Lotto!Idle, Lotto!accountVars
<1>3. CASE Lotto!Set(p, e1)
  <2>1. st \in FlowType /\ st.roll = 0 /\ st.d = d
    <3> HIDE DEF d
    <3> QED BY <1>1 DEF FlowType, Lotto!NoFlow
  <2>2. e1 \in EngineType
    <3> HIDE DEF d, st
    <3>1. [eng[p].boot EXCEPT !.todo = @ \ {d}, !.at = "wait"] \in BootType
      BY EngineIs DEF BootType
    <3>2. e1 = [eng[p] EXCEPT !.cur = d, !.st = st,
                !.boot = [eng[p].boot EXCEPT !.todo = @ \ {d}, !.at = "wait"]]
      BY EngineIs DEF EngineType
    <3> DEFINE boot == [eng[p].boot EXCEPT !.todo = @ \ {d}, !.at = "wait"]
    <3>3. \A b \in BootType : [eng[p] EXCEPT !.cur = d, !.st = st, !.boot = b] \in EngineType
      BY <1>1, <2>1, EngineIs DEF EngineType
    <3>4. [eng[p] EXCEPT !.cur = d, !.st = st, !.boot = boot] \in EngineType
      <4> HIDE DEF boot
      <4> QED BY <3>1, <3>3 DEF boot
    <3> QED BY <3>2, <3>4
  <2>3. EngineKnows(e1)
    <3> HIDE DEF d, st
    <3> QED BY <1>1, <2>1, EngineIs DEF EngineKnows, EngineType, BootType
  <2>4. Carried(e1) <= Carried(eng[p])
    <3> HIDE DEF d, st
    <3>1. e1.carry = eng[p].carry /\ e1.st = st /\ e1.boot.roll = eng[p].boot.roll
      BY EngineIs DEF EngineType, BootType
    <3>2. Carried(e1) = e1.carry + e1.st.roll + e1.boot.roll
      BY DEF Carried
    <3>3. Carried(eng[p]) = eng[p].carry + eng[p].st.roll + eng[p].boot.roll
      BY DEF Carried
    <3> HIDE DEF e1
    <3> QED BY <2>1, <3>1, <3>2, <3>3, EngineIs
  <2> HIDE DEF e1
  <2> QED BY <1>2, <1>3, <2>2, <2>3, <2>4, MoveKeeps
<1>4. CASE Lotto!Set(p, e2)
  <2>1. e2 \in EngineType
    <3> HIDE DEF d
    <3> QED BY <1>1, BootedIs, EngineIs DEF EngineType
  <2>2. EngineKnows(e2)
    <3> HIDE DEF d
    <3> QED BY <1>1, BootedIs, EngineIs DEF EngineKnows, EngineType
  <2>3. Carried(e2) <= Carried(eng[p])
    <3> HIDE DEF d
    <3> QED BY BootedIs, EngineIs DEF Carried, EngineType
  <2> HIDE DEF e2
  <2> QED BY <1>2, <1>4, <2>1, <2>2, <2>3, MoveKeeps
<1> QED BY <1>2, <1>3, <1>4

\* A boot resumes a draw, or opens one.
LEMMA ResumeKeeps ==
  ASSUME LottoInv, NEW p \in Engines, Lotto!Resume(p) PROVE LottoInv'
<1> DEFINE e1 == [eng[p] EXCEPT !.cur = eng[p].boot.d, !.reboot = FALSE,
                                !.boot = Lotto!Standby.boot]
           e2 == [eng[p] EXCEPT !.boot.at = "open"]
<1>1. /\ Lotto!Set(p, e1) \/ Lotto!Set(p, e2)
      /\ UNCHANGED <<bal, totalWon, totalLost, draws, tickets, spent, buy, lease>>
  BY DEF Lotto!Resume, Lotto!Idle, Lotto!accountVars
<1>2. CASE Lotto!Set(p, e1)
  <2>1. e1 \in EngineType
    BY BootedIs, EngineIs DEF EngineType, EngineKnows, BootType
  <2>2. EngineKnows(e1)
    BY BootedIs, EngineIs DEF EngineKnows, EngineType
  <2>3. Carried(e1) <= Carried(eng[p])
    BY BootedIs, EngineIs DEF Carried, EngineType
  <2> HIDE DEF e1
  <2> QED BY <1>1, <1>2, <2>1, <2>2, <2>3, MoveKeeps
<1>3. CASE Lotto!Set(p, e2)
  <2>1. e2 \in EngineType
    BY EngineIs DEF EngineType, BootType
  <2>2. EngineKnows(e2)
    BY EngineIs DEF EngineKnows, EngineType, BootType
  <2>3. Carried(e2) <= Carried(eng[p])
    BY EngineIs DEF Carried, EngineType, BootType
  <2> HIDE DEF e2
  <2> QED BY <1>1, <1>3, <2>1, <2>2, <2>3, MoveKeeps
<1> QED BY <1>1, <1>2, <1>3

\* Where a flow goes next, with what it holds.
LEMMA SetFlowIs ==
  ASSUME LottoInv, NEW p \in Engines, NEW f \in {"st", "boot"},
         NEW at \in {"no", "open", "create"}, NEW roll \in Nat
  PROVE  LET e == Lotto!SetFlow(eng[p], f, at, roll) IN
         /\ e \in EngineType /\ EngineKnows(e)
         /\ e.carry = eng[p].carry /\ e.cur = eng[p].cur
         /\ f = "st" => e.st.roll = roll /\ e.boot = eng[p].boot
         /\ f = "boot" => e.boot.roll = roll /\ e.st = eng[p].st
<1> DEFINE st == [Lotto!NoFlow EXCEPT !.at = at, !.roll = roll]
           boot == [Lotto!Standby.boot EXCEPT !.at = at, !.roll = roll]
<1>1. st \in FlowType /\ st.roll = roll /\ st.at = at
  BY DEF FlowType, Lotto!NoFlow
<1>2. boot \in BootType /\ boot.roll = roll /\ boot.d \in 0..Len(draws)
      /\ boot.todo \subseteq DOMAIN draws
  BY BootedIs, LottoRows DEF BootType, Lotto!Standby, LottoInv
<1>3. CASE f = "st"
  <2>1. Lotto!SetFlow(eng[p], f, at, roll) = [eng[p] EXCEPT !.st = st]
    BY <1>3 DEF Lotto!SetFlow
  <2> HIDE DEF st
  <2>2. [eng[p] EXCEPT !.st = st] \in EngineType
    BY <1>1, EngineIs DEF EngineType
  <2>3. EngineKnows([eng[p] EXCEPT !.st = st])
    BY <1>1, EngineIs DEF EngineType, EngineKnows
  <2> QED BY <1>1, <1>3, <2>1, <2>2, <2>3, EngineIs DEF EngineType
<1>4. CASE f = "boot"
  <2>1. Lotto!SetFlow(eng[p], f, at, roll) = [eng[p] EXCEPT !.boot = boot]
    BY <1>4 DEF Lotto!SetFlow
  <2> HIDE DEF boot
  <2>2. [eng[p] EXCEPT !.boot = boot] \in EngineType
    BY <1>2, EngineIs DEF EngineType
  <2>3. EngineKnows([eng[p] EXCEPT !.boot = boot])
    BY <1>2, EngineIs DEF EngineType, EngineKnows
  <2> QED BY <1>2, <1>4, <2>1, <2>2, <2>3, EngineIs DEF EngineType
<1> QED BY <1>3, <1>4

\* The carry goes into the hands of the flow that opens a draw, or stays.
LEMMA OpenNewDrawKeeps ==
  ASSUME LottoInv, NEW p \in Engines, NEW f \in {"st", "boot"}, Lotto!OpenNewDraw(p, f)
  PROVE  LottoInv'
<1> DEFINE s1 == Lotto!SetFlow(eng[p], f, "create", eng[p].carry)
           e1 == [s1 EXCEPT !.carry = Lotto!CarryAfterOpen(p)]
           e2 == Lotto!SetFlow(eng[p], f, "no", 0)
<1>1. /\ Lotto!Set(p, e1) \/ Lotto!Set(p, e2)
      /\ UNCHANGED <<bal, totalWon, totalLost, draws, tickets, spent, buy, lease>>
  BY DEF Lotto!OpenNewDraw, Lotto!Idle, Lotto!accountVars
<1>h. \A e : Carried(e) = e.carry + e.st.roll + e.boot.roll
  BY DEF Carried
<1>2. CASE Lotto!Set(p, e1)
  <2>1. /\ s1 \in EngineType /\ EngineKnows(s1)
        /\ f = "st" => s1.st.roll = eng[p].carry /\ s1.boot = eng[p].boot
        /\ f = "boot" => s1.boot.roll = eng[p].carry /\ s1.st = eng[p].st
    BY EngineIs, SetFlowIs
  <2> HIDE DEF s1
  <2>2. e1 \in EngineType /\ EngineKnows(e1) /\ e1.carry = 0 /\ e1.st = s1.st /\ e1.boot = s1.boot
    BY <2>1 DEF EngineType, EngineKnows, Lotto!CarryAfterOpen
  <2> HIDE DEF e1
  <2>3. Carried(e1) <= Carried(eng[p])
    BY <1>h, <2>1, <2>2, EngineIs
  <2> QED BY <1>1, <1>2, <2>2, <2>3, MoveKeeps
<1>3. CASE Lotto!Set(p, e2)
  <2>1. /\ e2 \in EngineType /\ EngineKnows(e2) /\ e2.carry = eng[p].carry
        /\ f = "st" => e2.st.roll = 0 /\ e2.boot = eng[p].boot
        /\ f = "boot" => e2.boot.roll = 0 /\ e2.st = eng[p].st
    BY SetFlowIs
  <2> HIDE DEF e2
  <2>2. Carried(e2) <= Carried(eng[p])
    BY <1>h, <2>1, EngineIs
  <2> QED BY <1>1, <1>3, <2>1, <2>2, MoveKeeps
<1> QED BY <1>1, <1>2, <1>3

\* A row that is refused loses the rollover it had.
LEMMA CreateFailsKeeps ==
  ASSUME LottoInv, NEW p \in Engines, NEW f \in {"st", "boot"}, Lotto!CreateFails(p, f)
  PROVE  LottoInv'
<1> DEFINE s == Lotto!SetFlow(eng[p], f, "no", 0)
           e == [s EXCEPT !.reboot = TRUE]
<1>1. /\ Lotto!Set(p, e)
      /\ UNCHANGED <<bal, totalWon, totalLost, draws, tickets, spent, buy, lease>>
  BY DEF Lotto!CreateFails, Lotto!accountVars
<1>h. \A g : Carried(g) = g.carry + g.st.roll + g.boot.roll
  BY DEF Carried
<1>2. /\ s \in EngineType /\ EngineKnows(s) /\ s.carry = eng[p].carry
      /\ f = "st" => s.st.roll = 0 /\ s.boot = eng[p].boot
      /\ f = "boot" => s.boot.roll = 0 /\ s.st = eng[p].st
  BY SetFlowIs
<1> HIDE DEF s
<1>3. e \in EngineType /\ EngineKnows(e) /\ e.carry = s.carry /\ e.st = s.st /\ e.boot = s.boot
  BY <1>2 DEF EngineType, EngineKnows
<1> HIDE DEF e
<1>4. Carried(e) <= Carried(eng[p])
  BY <1>h, <1>2, <1>3, EngineIs
<1> QED BY <1>1, <1>3, <1>4, MoveKeeps

\* Another boot begins.
LEMMA BootAgainKeeps ==
  ASSUME LottoInv, NEW p \in Engines, Lotto!BootAgain(p) PROVE LottoInv'
<1> DEFINE e == [eng[p] EXCEPT !.reboot = FALSE, !.boot.at = "scan"]
<1>1. /\ Lotto!Set(p, e)
      /\ UNCHANGED <<bal, totalWon, totalLost, draws, tickets, spent, buy, lease>>
  BY DEF Lotto!BootAgain, Lotto!Idle, Lotto!accountVars
<1>2. e \in EngineType
  BY EngineIs DEF EngineType, BootType
<1>3. EngineKnows(e)
  BY EngineIs DEF EngineType, BootType, EngineKnows
<1>4. Carried(e) <= Carried(eng[p])
  BY EngineIs DEF EngineType, BootType, Carried
<1> HIDE DEF e
<1> QED BY <1>1, <1>2, <1>3, <1>4, MoveKeeps

\* A settlement begins, of a draw.
LEMMA SettlementBegins ==
  ASSUME LottoInv, NEW p \in Engines, eng[p].cur # 0, NEW reboot \in BOOLEAN,
         Lotto!Set(p, [eng[p] EXCEPT !.st = [Lotto!NoFlow EXCEPT !.at = "beacon", !.d = eng[p].cur],
                                     !.reboot = reboot]),
         UNCHANGED <<bal, totalWon, totalLost, draws, tickets, spent, buy, lease>>
  PROVE  LottoInv'
<1> DEFINE st == [Lotto!NoFlow EXCEPT !.at = "beacon", !.d = eng[p].cur]
           e == [eng[p] EXCEPT !.st = st, !.reboot = reboot]
<1>1. eng[p].cur \in DOMAIN draws /\ eng[p].cur \in Nat
  BY EngineIs, LottoRows DEF LottoInv, EngineKnows
<1>2. st \in FlowType /\ st.roll = 0 /\ st.d \in DOMAIN draws
  BY <1>1 DEF FlowType, Lotto!NoFlow
<1>5. Lotto!Set(p, e)
  OBVIOUS
<1> HIDE DEF st
<1>3. e \in EngineType
  BY <1>2, EngineIs DEF EngineType
<1>4. EngineKnows(e)
  BY <1>2, EngineIs DEF EngineType, EngineKnows
<1>6. Carried(e) <= Carried(eng[p])
  BY <1>2, EngineIs DEF EngineType, Carried
<1> HIDE DEF e
<1> QED BY <1>3, <1>4, <1>5, <1>6, MoveKeeps

\* The timer, a retry, the watchdog or an admin begins a settlement.
LEMMA DrawAndSettleKeeps ==
  ASSUME LottoInv, NEW p \in Engines, Lotto!DrawAndSettle(p) \/ Lotto!ForceDraw(p) PROVE LottoInv'
<1> DEFINE st == [Lotto!NoFlow EXCEPT !.at = "beacon", !.d = eng[p].cur]
<1>1. eng[p].cur # 0 /\ UNCHANGED <<bal, totalWon, totalLost, draws, tickets, spent, buy, lease>>
  BY DEF Lotto!DrawAndSettle, Lotto!ForceDraw, Lotto!Idle, Lotto!accountVars
<1>2. \/ Lotto!Set(p, [eng[p] EXCEPT !.st = st])
      \/ Lotto!Set(p, [eng[p] EXCEPT !.st = st, !.reboot = FALSE])
  BY DEF Lotto!DrawAndSettle, Lotto!ForceDraw
<1>3. [eng[p] EXCEPT !.st = st] = [eng[p] EXCEPT !.st = st, !.reboot = eng[p].reboot]
  <2> HIDE DEF st
  <2> QED BY EngineIs DEF EngineType
<1>4. eng[p].reboot \in BOOLEAN
  BY EngineIs DEF EngineType
<1> QED BY <1>1, <1>2, <1>3, <1>4, SettlementBegins

\* A settlement that does not come to its transaction, or is refused by it.
LEMMA SettlementStops ==
  ASSUME LottoInv, NEW p \in Engines, NEW boot, boot \in {eng[p].boot, Lotto!Standby.boot,
                                                        [eng[p].boot EXCEPT !.at = "visit"]},
         Lotto!Set(p, [eng[p] EXCEPT !.st = Lotto!NoFlow, !.boot = boot]),
         UNCHANGED <<bal, totalWon, totalLost, draws, tickets, spent, buy, lease>>
  PROVE  LottoInv'
<1> DEFINE e == [eng[p] EXCEPT !.st = Lotto!NoFlow, !.boot = boot]
<1>1. boot \in BootType /\ boot.roll <= eng[p].boot.roll /\ boot.roll \in Nat
      /\ boot.d \in 0..Len(draws) /\ boot.todo \subseteq DOMAIN draws
  BY BootedIs, EngineIs DEF BootType, EngineKnows
<1>2. Lotto!NoFlow \in FlowType /\ Lotto!NoFlow.roll = 0 /\ Lotto!NoFlow.at = "no"
  BY NothingInHand DEF Lotto!NoFlow
<1>3. e \in EngineType
  BY <1>1, <1>2, EngineIs DEF EngineType
<1>4. EngineKnows(e)
  BY <1>1, <1>2, EngineIs DEF EngineType, EngineKnows
<1>5. Carried(e) <= Carried(eng[p])
  BY <1>1, <1>2, EngineIs DEF EngineType, Carried
<1>6. Lotto!Set(p, e)
  OBVIOUS
<1> HIDE DEF e
<1> QED BY <1>3, <1>4, <1>5, <1>6, MoveKeeps

\* The beacon answers or the settlement is retried.
LEMMA BeaconKeeps ==
  ASSUME LottoInv, NEW p \in Engines, Lotto!Beacon(p) PROVE LottoInv'
<1> DEFINE e1 == [eng[p] EXCEPT !.st.at = "tx"]
           boot == IF eng[p].boot.at = "wait" THEN Lotto!Standby.boot ELSE eng[p].boot
           e2 == [eng[p] EXCEPT !.st = Lotto!NoFlow, !.boot = boot]
<1>1. /\ (eng[p].st.at = "beacon" /\ Lotto!Set(p, e1)) \/ Lotto!Set(p, e2)
      /\ UNCHANGED <<bal, totalWon, totalLost, draws, tickets, spent, buy, lease>>
  <2>1. e2 = [eng[p] EXCEPT !.st = Lotto!NoFlow,
                            !.boot = IF @.at = "wait" THEN Lotto!Standby.boot ELSE @]
    BY EngineIs DEF EngineType
  <2> HIDE DEF e2, boot
  <2> QED BY <2>1 DEF Lotto!Beacon, Lotto!accountVars
<1>2. CASE eng[p].st.at = "beacon" /\ Lotto!Set(p, e1)
  <2>1. e1 \in EngineType
    BY EngineIs DEF EngineType, FlowType
  <2>2. EngineKnows(e1)
    BY <1>2, EngineIs DEF EngineType, FlowType, EngineKnows
  <2>3. Carried(e1) <= Carried(eng[p])
    BY EngineIs DEF EngineType, FlowType, Carried
  <2> HIDE DEF e1
  <2> QED BY <1>1, <1>2, <2>1, <2>2, <2>3, MoveKeeps
<1>3. CASE Lotto!Set(p, e2)
  BY <1>1, <1>3, SettlementStops
<1> QED BY <1>1, <1>2, <1>3

\* A peer was first.
LEMMA SettleLostDrawKeeps ==
  ASSUME LottoInv, NEW p \in Engines, Lotto!SettleLost(p) PROVE LottoInv'
<1> DEFINE boot == IF eng[p].boot.at = "wait" THEN [eng[p].boot EXCEPT !.at = "visit"]
                   ELSE eng[p].boot
           e == [eng[p] EXCEPT !.st = Lotto!NoFlow, !.boot = boot]
<1>1. /\ Lotto!Set(p, e)
      /\ UNCHANGED <<bal, totalWon, totalLost, draws, tickets, spent, buy, lease>>
  <2>1. e = [eng[p] EXCEPT !.st = Lotto!NoFlow,
                           !.boot.at = IF @ = "wait" THEN "visit" ELSE @]
    BY EngineIs DEF EngineType, BootType
  <2> HIDE DEF e, boot
  <2> QED BY <2>1 DEF Lotto!SettleLost, Lotto!Idle, Lotto!accountVars
<1> QED BY <1>1, SettlementStops

\* A purchase begins or ends without a ticket.
LEMMA PurchaseKeeps ==
  ASSUME LottoInv, NEW u \in LottoUsers, NEW b \in PurchaseType, PurchaseKnows(b),
         buy' = [buy EXCEPT ![u] = b],
         UNCHANGED <<bal, totalWon, totalLost, draws, tickets, spent, eng, lease>>
  PROVE  LottoInv'
<1> USE DEF LottoInv
<1>1. \A v \in LottoUsers : buy'[v] = IF v = u THEN b ELSE buy[v]
  BY DEF DrawTypes
<1>2. DrawTypes'
  BY DEF DrawTypes, Lotto!TypeOK, Lotto!AccountTypeOK
<1>3. DrawsKnown'
  BY <1>1 DEF DrawsKnown, PurchaseKnows, EngineKnows
<1>4. RollsBacked'
  <2>1. InHand' = InHand
    BY DEF InHand
  <2> QED BY <2>1, LottoSame DEF RollsBacked
<1> QED BY <1>2, <1>3, <1>4, LottoSame

\* A purchase is for the draw of the engine that was asked.
LEMMA AskKeeps ==
  ASSUME LottoInv, NEW u \in LottoUsers, NEW p \in Engines, NEW kind \in {"free", "paid"},
         NEW n \in Nat, kind = "paid" => n \in Batches, Lotto!Ask(u, p, kind, n)
  PROVE  LottoInv'
<1> DEFINE b == [at |-> kind, d |-> eng[p].cur, n |-> n]
<1>1. eng[p].cur \in DOMAIN draws /\ eng[p].cur \in Nat
  BY EngineIs, LottoRows DEF LottoInv, EngineKnows, Lotto!Ask, Lotto!OnSale
<1>2. b \in PurchaseType /\ PurchaseKnows(b)
  BY <1>1 DEF PurchaseType, PurchaseKnows
<1>3. buy' = [buy EXCEPT ![u] = b]
      /\ UNCHANGED <<bal, totalWon, totalLost, draws, tickets, spent, eng, lease>>
  BY DEF Lotto!Ask, Lotto!accountVars
<1> HIDE DEF b
<1> QED BY <1>2, <1>3, PurchaseKeeps

\* A refused purchase leaves nothing.
LEMMA BuyRejectedKeeps ==
  ASSUME LottoInv, NEW u \in LottoUsers, Lotto!BuyRejected(u) PROVE LottoInv'
<1>1. Lotto!NoBuy \in PurchaseType /\ PurchaseKnows(Lotto!NoBuy)
  BY NothingInHand DEF PurchaseKnows, Lotto!NoBuy
<1>2. buy' = [buy EXCEPT ![u] = Lotto!NoBuy]
      /\ UNCHANGED <<bal, totalWon, totalLost, draws, tickets, spent, eng, lease>>
  BY DEF Lotto!BuyRejected, Lotto!accountVars
<1> QED BY <1>1, <1>2, PurchaseKeeps

\* A lease that runs out moves no money.
LEMMA LeaseExpiresKeeps == ASSUME LottoInv, Lotto!LeaseExpires PROVE LottoInv'
<1> USE DEF LottoInv
<1>1. UNCHANGED <<bal, totalWon, totalLost, draws, tickets, spent, buy, eng>> /\ lease' = {}
  BY DEF Lotto!LeaseExpires, Lotto!accountVars
<1>2. Lotto!Cardinality({}) <= 1
  BY LottoCardinality, FS_EmptySet
<1>3. DrawTypes'
  BY <1>1, <1>2 DEF DrawTypes, Lotto!TypeOK, Lotto!AccountTypeOK
<1>4. DrawsKnown'
  BY <1>1 DEF DrawsKnown, PurchaseKnows, EngineKnows
<1>5. RollsBacked'
  <2>1. InHand' = InHand
    BY <1>1 DEF InHand
  <2> QED BY <1>1, <2>1, LottoSame DEF RollsBacked
<1> QED BY <1>1, <1>3, <1>4, <1>5, LottoSame

\* The draw comes due: nothing else in its row changes.
LEMMA DrawTimeKeeps ==
  ASSUME LottoInv, NEW d \in DOMAIN draws, Lotto!DrawTime(d) PROVE LottoInv'
<1> USE DEF LottoInv
<1>1. /\ draws' = [draws EXCEPT ![d].due = TRUE]
      /\ UNCHANGED <<bal, totalWon, totalLost, tickets, spent, buy, eng, lease>>
  BY DEF Lotto!DrawTime, Lotto!accountVars
<1>2. DOMAIN draws' = DOMAIN draws /\ Len(draws') = Len(draws)
  BY <1>1, LottoRows
<1>3. \A i \in DOMAIN draws :
        /\ draws'[i] \in DrawRow
        /\ draws'[i].status = draws[i].status /\ draws'[i].roll = draws[i].roll
        /\ draws'[i].pool = draws[i].pool /\ draws'[i].out = draws[i].out
  BY <1>1, LottoRows DEF DrawRow
<1>4. DrawTypes'
  <2>1. draws' \in Seq(DrawRow)
    <3> DEFINE row == [draws[d] EXCEPT !.due = TRUE]
    <3>1. row \in DrawRow /\ draws' = [draws EXCEPT ![d] = row] /\ draws \in Seq(DrawRow)
      BY <1>1, LottoRows DEF DrawRow, DrawTypes
    <3> HIDE DEF row
    <3> QED BY <3>1
  <2>2. Lotto!TypeOK'
    BY <1>1, <1>2, <1>3 DEF DrawTypes, Lotto!TypeOK, Lotto!AccountTypeOK, DrawRow
  <2> QED BY <1>1, <2>1, <2>2 DEF DrawTypes
<1>5. DrawsKnown'
  BY <1>1, <1>2 DEF DrawsKnown, PurchaseKnows, EngineKnows
<1>6. TicketsFollow'
  BY <1>1, <1>3, LottoRows DEF TicketsFollow
<1>7. TicketMoney' /\ FreeSpent'
  <2>1. \A u : OpenTickets(u)' = OpenTickets(u)
    BY <1>1 DEF OpenTickets, OpenCost
  <2> QED BY <1>1, <2>1 DEF TicketMoney, FreeSpent, FreeOnes
<1>8. PoolsSplit'
  <2>1. \A i : Prizes(i)' = Prizes(i)
    BY <1>1 DEF Prizes, PrizeOf
  <2> QED BY <1>2, <1>3, <2>1 DEF PoolsSplit
<1>9. RollsBacked'
  <2>1. InHand' = InHand
    BY <1>1 DEF InHand
  <2>2. [i \in DOMAIN draws' |-> draws'[i].roll] = [i \in DOMAIN draws |-> draws[i].roll]
        /\ [i \in DOMAIN draws' |-> draws'[i].out] = [i \in DOMAIN draws |-> draws[i].out]
    BY <1>2, <1>3
  <2>3. Given' = Given /\ LeftOver' = LeftOver
    BY <1>2, <2>2 DEF Given, LeftOver
  <2> QED BY <2>1, <2>3 DEF RollsBacked
<1> QED BY <1>4, <1>5, <1>6, <1>7, <1>8, <1>9

\* One more draw: its rollover was in the hands of the flow that opens it.
LEMMA CreateDrawKeeps ==
  ASSUME LottoInv, NEW p \in Engines, NEW f \in {"st", "boot"}, Lotto!CreateDraw(p, f)
  PROVE  LottoInv'
<1> USE DEF LottoInv
<1> DEFINE roll == Lotto!Flow(p, f).roll
           row == [status |-> "open", due |-> FALSE, roll |-> roll, pool |-> 0, out |-> 0]
           s == Lotto!SetFlow(eng[p], f, "no", 0)
           n == Len(draws) + 1
           e == [s EXCEPT !.cur = n, !.reboot = FALSE]
<1>1. /\ draws' = Append(draws, row) /\ eng' = [eng EXCEPT ![p] = e]
      /\ UNCHANGED <<bal, totalWon, totalLost, tickets, spent, buy, lease>>
  BY DEF Lotto!CreateDraw, Lotto!Set, Lotto!accountVars
<1>r. roll = (IF f = "st" THEN eng[p].st.roll ELSE eng[p].boot.roll) /\ roll \in Nat
  BY EngineIs DEF Lotto!Flow
<1>2. row \in DrawRow /\ row.status = "open" /\ row.roll = roll /\ row.out = 0
  <2> HIDE DEF roll
  <2> QED BY <1>r DEF DrawRow
<1>3. /\ DOMAIN draws' = DOMAIN draws \cup {n} /\ Len(draws') = n /\ n \in Nat
      /\ n \notin DOMAIN draws /\ draws' \in Seq(DrawRow) /\ draws'[n] = row
      /\ \A d \in DOMAIN draws : draws'[d] = draws[d]
  <2> HIDE DEF row
  <2>1. draws \in Seq(DrawRow)
    BY DEF DrawTypes
  <2> QED BY <1>1, <1>2, <2>1
<1>4. /\ s \in EngineType /\ EngineKnows(s) /\ s.carry = eng[p].carry
      /\ f = "st" => s.st.roll = 0 /\ s.boot = eng[p].boot
      /\ f = "boot" => s.boot.roll = 0 /\ s.st = eng[p].st
  BY SetFlowIs
<1> HIDE DEF s
<1>5. e \in EngineType /\ e.cur = n /\ e.carry = s.carry /\ e.st = s.st /\ e.boot = s.boot
  BY <1>3, <1>4 DEF EngineType
<1> HIDE DEF e, row, roll
<1>6. \A q \in Engines : eng'[q] = IF q = p THEN e ELSE eng[q]
  BY <1>1 DEF DrawTypes
<1>7. DrawTypes'
  <2>1. eng' \in [Engines -> EngineType]
    BY <1>1, <1>5 DEF DrawTypes
  <2>2. \A q \in Engines : eng'[q].cur \in 0..Len(draws') /\ eng'[q].carry \in Nat
    <3>1. \A q \in Engines : eng[q].cur \in 0..Len(draws) /\ eng[q].carry \in Nat
      BY EngineIs DEF EngineKnows
    <3>2. e.carry \in Nat
      BY <1>5 DEF EngineType
    <3> QED BY <1>3, <1>5, <1>6, <3>1, <3>2, LottoRows
  <2>3. Lotto!AccountTypeOK'
    BY <1>1 DEF DrawTypes, Lotto!TypeOK, Lotto!AccountTypeOK
  <2>4. \A d \in DOMAIN draws' : draws'[d] \in DrawRow
    BY <1>2, <1>3, LottoRows
  <2>5. Lotto!TypeOK'
    BY <1>1, <1>3, <2>2, <2>3, <2>4 DEF DrawTypes, Lotto!TypeOK, DrawRow
  <2> QED BY <1>1, <1>3, <2>1, <2>5 DEF DrawTypes
<1>8. DrawsKnown'
  <2>1. ASSUME NEW q \in Engines PROVE EngineKnows(eng[q])'
    <3>1. EngineKnows(eng[q]) /\ (q = p => EngineKnows(s))
      BY <1>4, EngineIs
    <3>2. eng'[q].boot.d \in 0..Len(draws) /\ eng'[q].boot.todo \subseteq DOMAIN draws
          /\ (eng'[q].st.at \in {"beacon", "tx"} => eng'[q].st.d \in DOMAIN draws)
      BY <1>5, <1>6, <3>1 DEF EngineKnows
    <3>3. eng'[q].cur \in 0..n
      BY <1>3, <1>5, <1>6, <3>1, LottoRows DEF EngineKnows
    <3> QED BY <1>3, <3>2, <3>3, LottoRows DEF EngineKnows
  <2>2. ASSUME NEW u \in LottoUsers PROVE PurchaseKnows(buy[u])'
    BY <1>1, <1>3 DEF DrawsKnown, PurchaseKnows
  <2> QED BY <2>1, <2>2 DEF DrawsKnown
<1>9. TicketsFollow'
  BY <1>1, <1>3, LottoRows DEF TicketsFollow
<1>10. TicketMoney' /\ FreeSpent'
  <2>1. \A u : OpenTickets(u)' = OpenTickets(u)
    BY <1>1 DEF OpenTickets, OpenCost
  <2> QED BY <1>1, <2>1 DEF TicketMoney, FreeSpent, FreeOnes
<1>11. PoolsSplit'
  <2>1. \A i : Prizes(i)' = Prizes(i)
    BY <1>1 DEF Prizes, PrizeOf
  <2> QED BY <1>2, <1>3, <2>1 DEF PoolsSplit
<1>12. RollsBacked'
  <2>1. InHand' = InHand - Carried(eng[p]) + Carried(e)
    BY <1>1, <1>5, InHandStep
  <2>2. Carried(e) = Carried(eng[p]) - roll
    <3>1. \A g : Carried(g) = g.carry + g.st.roll + g.boot.roll
      BY DEF Carried
    <3>2. Carried(e) = s.carry + s.st.roll + s.boot.roll
          /\ Carried(eng[p]) = eng[p].carry + eng[p].st.roll + eng[p].boot.roll
      BY <1>5, <3>1
    <3>3. CASE f = "st"
      BY <1>r, <1>4, <3>2, <3>3, EngineIs
    <3>4. CASE f = "boot"
      BY <1>r, <1>4, <3>2, <3>4, EngineIs
    <3> QED BY <3>3, <3>4
  <2> DEFINE g1 == [d \in DOMAIN draws' |-> draws'[d].roll]
             g2 == [d \in DOMAIN draws' |-> draws'[d].out]
             h1 == [d \in DOMAIN draws |-> draws[d].roll]
             h2 == [d \in DOMAIN draws |-> draws[d].out]
  <2>3. /\ \A d \in DOMAIN draws : g1[d] = h1[d] /\ g2[d] = h2[d] /\ g1[d] \in Int /\ g2[d] \in Int
        /\ g1[n] = roll /\ g2[n] = 0
    <3>1. \A d \in DOMAIN draws : draws[d].roll \in Int /\ draws[d].out \in Int
      BY LottoRows DEF DrawRow
    <3> QED BY <1>2, <1>3, <3>1
  <2>4. IsFiniteSet(DOMAIN draws)
    BY LottoRows
  <2>5. Given = SumOver(h1, DOMAIN draws) /\ LeftOver = SumOver(h2, DOMAIN draws)
    BY DEF Given, LeftOver
  <2>6. Given' = SumOver(g1, DOMAIN draws') /\ LeftOver' = SumOver(g2, DOMAIN draws')
    BY DEF Given, LeftOver
  <2> HIDE DEF g1, g2, h1, h2, n
  <2>7. SumOver(g1, DOMAIN draws \cup {n}) = roll + SumOver(g1, DOMAIN draws)
    BY <1>r, <1>3, <2>3, <2>4, SumAdd
  <2>8. SumOver(g2, DOMAIN draws \cup {n}) = 0 + SumOver(g2, DOMAIN draws)
    BY <1>3, <2>3, <2>4, SumAdd
  <2>9. SumOver(g1, DOMAIN draws) = SumOver(h1, DOMAIN draws)
        /\ SumOver(g2, DOMAIN draws) = SumOver(h2, DOMAIN draws)
    BY <2>3, <2>4, SumEqual
  <2>10. Given' = Given + roll /\ LeftOver' = LeftOver
    BY <1>3, <1>r, <2>5, <2>6, <2>7, <2>8, <2>9, RollTypes
  <2>11. Carried(eng[p]) \in Nat /\ InHand \in Nat /\ Given \in Nat /\ LeftOver \in Nat
    BY RollTypes, InHandType, LottoRows, CarriedType
  <2> QED BY <1>r, <2>1, <2>2, <2>10, <2>11 DEF RollsBacked
<1> QED BY <1>7, <1>8, <1>9, <1>10, <1>11, <1>12

\* A row for each number up to n is a sequence.
LEMMA RowsAreSeq ==
  ASSUME NEW R, NEW n \in Nat, NEW f \in [1..n -> R]
  PROVE  f \in Seq(R) /\ Len(f) = n
<1>1. f \in Seq(R)
  OBVIOUS
<1>2. Len(f) \in Nat /\ DOMAIN f = 1..Len(f) /\ DOMAIN f = 1..n
  BY <1>1
<1>3. \A m \in Nat : 1..m = 1..n => m = n
  OBVIOUS
<1> QED BY <1>1, <1>2, <1>3

\* The tickets of one purchase are all alike.
LEMMA SoldIs ==
  ASSUME LottoInv, NEW row \in TicketRow, NEW k \in Nat \ {0},
         tickets' = tickets \o [i \in 1..k |-> row]
  PROVE  LET sold == (Len(tickets) + 1)..(Len(tickets) + k) IN
         /\ tickets' \in Seq(TicketRow) /\ DOMAIN tickets' = DOMAIN tickets \cup sold
         /\ DOMAIN tickets \cap sold = {} /\ IsFiniteSet(sold) /\ Cardinality(sold) = k
         /\ \A t \in DOMAIN tickets : tickets'[t] = tickets[t]
         /\ \A t \in sold : tickets'[t] = row
<1> DEFINE sold == (Len(tickets) + 1)..(Len(tickets) + k)
           batch == [i \in 1..k |-> row]
<1>1. batch \in Seq(TicketRow) /\ Len(batch) = k /\ \A i \in 1..k : batch[i] = row
  <2>1. batch \in [1..k -> TicketRow]
    OBVIOUS
  <2> QED BY <2>1, RowsAreSeq
<1>2. tickets \in Seq(TicketRow) /\ Len(tickets) \in Nat /\ DOMAIN tickets = 1..Len(tickets)
  BY LottoRows DEF LottoInv, DrawTypes
<1>3. tickets' = tickets \o batch
  OBVIOUS
<1> HIDE DEF batch
<1>4. tickets' \in Seq(TicketRow) /\ Len(tickets') = Len(tickets) + k
  BY <1>1, <1>2, <1>3
<1>5. \A t \in DOMAIN tickets : tickets'[t] = tickets[t]
  BY <1>1, <1>2, <1>3
<1>6. \A t \in sold : tickets'[t] = row
  <2> SUFFICES ASSUME NEW t \in sold PROVE tickets'[t] = row
    OBVIOUS
  <2>1. tickets'[t] = batch[t - Len(tickets)] /\ t - Len(tickets) \in 1..k
    BY <1>1, <1>2, <1>3
  <2> QED BY <2>1, <1>1
<1>7. DOMAIN tickets' = DOMAIN tickets \cup sold /\ DOMAIN tickets \cap sold = {}
  BY <1>2, <1>4
<1>8. IsFiniteSet(sold) /\ Cardinality(sold) = k
  <2> DEFINE a == Len(tickets) + 1
             b == Len(tickets) + k
  <2>1. a \in Int /\ b \in Int /\ a <= b /\ b - a + 1 = k
    BY <1>2
  <2>2. IsFiniteSet(a..b) /\ Cardinality(a..b) = b - a + 1
    <3> HIDE DEF a, b
    <3> QED BY <2>1, FS_Interval
  <2> QED BY <2>1, <2>2
<1> QED BY <1>4, <1>5, <1>6, <1>7, <1>8

\* A purchase, paid or free: the tickets are of a draw that is open, and either they cost
\* something that the balance covers, or it is one that was earned.
LEMMA SaleKeeps ==
  ASSUME LottoInv, NEW u \in LottoUsers, NEW k \in Nat \ {0}, NEW c \in Nat, buy[u].at # "no",
         draws[buy[u].d].status = "open", tickets' = Lotto!Sold(u, k, c),
         buy' = [buy EXCEPT ![u] = Lotto!NoBuy],
         bal[u] >= k * Lotto!ToLamports(c),
         bal' = [bal EXCEPT ![u] = @ - k * Lotto!ToLamports(c)],
         \/ c # 0 /\ spent' = spent
         \/ c = 0 /\ k = 1 /\ spent[u] < Earned /\ spent' = [spent EXCEPT ![u] = @ + 1],
         UNCHANGED <<totalWon, totalLost, draws, eng, lease>>
  PROVE  LottoInv'
<1> USE DEF LottoInv
<1> DEFINE row == [user |-> u, draw |-> buy[u].d, cost |-> c, prize |-> 0, done |-> FALSE]
           price == Lotto!ToLamports(c)
           sold == (Len(tickets) + 1)..(Len(tickets) + k)
           T == DOMAIN tickets
<1>1. buy[u].d \in DOMAIN draws /\ buy[u].d \in Nat
  BY LottoRows DEF DrawsKnown, PurchaseKnows
<1>2. row \in TicketRow /\ row.user = u /\ row.draw = buy[u].d /\ row.cost = c /\ row.prize = 0
      /\ row.done = FALSE
  BY <1>1 DEF TicketRow
<1>3. tickets' = tickets \o [i \in 1..k |-> row]
  BY DEF Lotto!Sold
<1>p. price \in Nat /\ k * price \in Nat
  <2>1. price \in Nat
    BY TicketPrices
  <2> HIDE DEF price
  <2> QED BY <2>1, NatProduct
<1> HIDE DEF row
<1>4. /\ tickets' \in Seq(TicketRow) /\ DOMAIN tickets' = T \cup sold
      /\ T \cap sold = {} /\ IsFiniteSet(sold) /\ Cardinality(sold) = k
      /\ \A t \in T : tickets'[t] = tickets[t]
      /\ \A t \in sold : tickets'[t] = row
  BY <1>2, <1>3, SoldIs
<1>5. IsFiniteSet(T) /\ \A t \in T : tickets[t] \in TicketRow /\ tickets[t].draw \in DOMAIN draws
  BY LottoRows
<1> HIDE DEF sold
<1>b. /\ \A v \in LottoUsers : bal'[v] = IF v = u THEN bal[v] - k * price ELSE bal[v]
      /\ bal' \in [LottoUsers -> Nat]
  <2>1. bal \in [LottoUsers -> Nat]
    BY LottoRows
  <2>2. bal' = [bal EXCEPT ![u] = @ - k * price] /\ bal[u] >= k * price
    OBVIOUS
  <2> HIDE DEF price
  <2> QED BY <1>p, <2>1, <2>2
<1>s. spent' \in [LottoUsers -> Nat]
  <2>1. spent \in [LottoUsers -> Nat]
    BY LottoRows
  <2>2. spent' = spent \/ spent' = [spent EXCEPT ![u] = @ + 1]
    OBVIOUS
  <2> QED BY <2>1, <2>2
<1>y. buy' \in [LottoUsers -> PurchaseType]
      /\ \A v \in LottoUsers : buy'[v] = IF v = u THEN Lotto!NoBuy ELSE buy[v]
  BY NothingInHand DEF DrawTypes
<1>6. DrawTypes'
  <2>1. Lotto!AccountTypeOK'
    BY <1>b, LottoRows DEF Lotto!AccountTypeOK
  <2>2. \A t \in DOMAIN tickets' : tickets'[t].draw \in DOMAIN draws /\ tickets'[t].user \in LottoUsers
    <3>1. \A t \in T : tickets[t].user \in LottoUsers
      BY <1>5 DEF TicketRow
    <3> HIDE DEF T
    <3> QED BY <1>1, <1>2, <1>4, <1>5, <3>1
  <2>3. Lotto!TypeOK'
    BY <1>s, <2>1, <2>2 DEF DrawTypes, Lotto!TypeOK
  <2> QED BY <1>4, <1>y, <2>3 DEF DrawTypes
<1>7. DrawsKnown'
  <2>1. \A v \in LottoUsers : PurchaseKnows(buy'[v])
    BY <1>y DEF DrawsKnown, PurchaseKnows, Lotto!NoBuy
  <2> QED BY <2>1 DEF DrawsKnown, PurchaseKnows, EngineKnows
<1>8. TicketsFollow'
  <2>1. ASSUME NEW t \in DOMAIN tickets'
        PROVE  tickets'[t].done <=> draws[tickets'[t].draw].status = "drawn"
    <3>1. CASE t \in T
      BY <1>4, <3>1 DEF TicketsFollow
    <3>2. CASE t \in sold
      BY <1>2, <1>4, <3>2
    <3> HIDE DEF T
    <3> QED BY <1>4, <3>1, <3>2
  <2> QED BY <2>1 DEF TicketsFollow
<1>9. TicketMoney'
  <2> SUFFICES ASSUME NEW v \in LottoUsers
               PROVE  bal'[v] = LottoFunds + totalWon[v] - totalLost[v] - OpenTickets(v)'
    BY DEF TicketMoney
  <2> DEFINE f == OpenCost(v)
             g == [t \in DOMAIN tickets' |->
                     IF tickets'[t].user = v /\ ~tickets'[t].done
                     THEN Lotto!ToLamports(tickets'[t].cost) ELSE 0]
             part == IF u = v THEN price ELSE 0
  <2>1. OpenTickets(v) = SumOver(f, T) /\ OpenTickets(v)' = SumOver(g, T \cup sold)
    BY <1>4 DEF OpenTickets, OpenCost
  <2>2. \A t \in T : g[t] = f[t] /\ f[t] \in Nat
    BY <1>4, <1>5, TicketPrices DEF OpenCost, TicketRow
  <2>3. \A t \in sold : g[t] = part
    BY <1>2, <1>4
  <2>4. part \in Nat
    BY <1>p
  <2> HIDE DEF f, g, part
  <2>5. SumOver(g, T \cup sold) = SumOver(g, T) + SumOver(g, sold)
    <3>1. \A t \in T \cup sold : g[t] \in Int
      BY <2>2, <2>3, <2>4
    <3> HIDE DEF T
    <3> QED BY <1>4, <1>5, <3>1, SumUnion
  <2>6. SumOver(g, T) = SumOver(f, T) /\ SumOver(f, T) \in Nat
    BY <1>5, <2>2, SumEqual, SumNat
  <2>7. SumOver(g, sold) = k * part
    BY <1>4, <2>3, <2>4, SumConst
  <2>8. k * part = IF u = v THEN k * price ELSE 0
    BY DEF part
  <2>9. bal[v] = LottoFunds + totalWon[v] - totalLost[v] - OpenTickets(v)
    BY DEF TicketMoney
  <2>10. LottoFunds \in Nat /\ totalWon[v] \in Nat /\ totalLost[v] \in Nat
    <3>1. totalWon \in [LottoUsers -> Nat] /\ totalLost \in [LottoUsers -> Nat]
      BY LottoRows
    <3> QED BY <3>1, LottoConstants
  <2>11. OpenTickets(v)' = OpenTickets(v) + (IF u = v THEN k * price ELSE 0) /\ OpenTickets(v) \in Nat
    BY <1>p, <2>1, <2>5, <2>6, <2>7, <2>8
  <2>12. bal'[v] = IF u = v THEN bal[v] - k * price ELSE bal[v]
    BY <1>b
  <2> HIDE DEF price
  <2> QED BY <1>p, <2>9, <2>10, <2>11, <2>12
<1>10. FreeSpent'
  <2> SUFFICES ASSUME NEW v \in LottoUsers
               PROVE  Cardinality(FreeOnes(v)') <= spent'[v] /\ spent'[v] <= Earned
    BY DEF FreeSpent
  <2>1. FreeOnes(v)' = IF v = u /\ c = 0 THEN FreeOnes(v) \cup sold ELSE FreeOnes(v)
    <3> HIDE DEF T
    <3>1. FreeOnes(v) = {t \in T : tickets[t].user = v /\ tickets[t].cost = 0}
      BY DEF FreeOnes, T
    <3>2. FreeOnes(v)' = {t \in T \cup sold : tickets'[t].user = v /\ tickets'[t].cost = 0}
      BY <1>4 DEF FreeOnes
    <3> QED BY <1>2, <1>4, <3>1, <3>2
  <2>2. Cardinality(FreeOnes(v)) <= spent[v] /\ spent[v] <= Earned /\ spent[v] \in Nat
    BY LottoRows DEF FreeSpent
  <2>3. CASE v = u /\ c = 0
    <3>1. IsFiniteSet(FreeOnes(v)) /\ FreeOnes(v) \cap sold = {}
      BY <1>4, <1>5, FS_Subset DEF FreeOnes
    <3>2. Cardinality(FreeOnes(v) \cup sold) = Cardinality(FreeOnes(v)) + 1
      <4>1. FreeOnes(v) \cap sold = {} /\ Cardinality(sold) = 1
        BY <1>4, <2>3, <3>1
      <4>2. PICK y : sold = {y}
        BY <1>4, <4>1, FS_Singleton
      <4> QED BY <3>1, <4>2, FS_AddElement
    <3>3. Cardinality(FreeOnes(v)) \in Nat
      BY <3>1, FS_CardinalityType
    <3>4. spent'[v] = spent[v] + 1 /\ spent[v] < Earned
      BY <2>3, LottoRows
    <3>5. Cardinality(FreeOnes(v)') = Cardinality(FreeOnes(v)) + 1
      BY <2>1, <2>3, <3>2
    <3>6. Earned \in Nat
      BY LottoConstants
    <3> QED BY <2>2, <3>3, <3>4, <3>5, <3>6
  <2>4. CASE ~(v = u /\ c = 0)
    <3>1. spent'[v] = spent[v]
      BY <2>4, LottoRows
    <3> QED BY <2>1, <2>2, <2>4, <3>1
  <2> QED BY <2>3, <2>4
<1>11. PoolsSplit'
  <2> SUFFICES ASSUME NEW d \in DOMAIN draws
      PROVE IF draws[d].status = "drawn"
            THEN draws[d].pool = Lotto!Burn(draws[d].pool) + Prizes(d)' + draws[d].out
            ELSE draws[d].out = 0
    BY DEF PoolsSplit
  <2> DEFINE f == PrizeOf(d)
             g == [t \in DOMAIN tickets' |-> IF tickets'[t].draw = d THEN tickets'[t].prize ELSE 0]
  <2>1. Prizes(d) = SumOver(f, T) /\ Prizes(d)' = SumOver(g, T \cup sold)
    BY <1>4 DEF Prizes, PrizeOf
  <2>2. \A t \in T : g[t] = f[t] /\ f[t] \in Nat
    BY <1>4, <1>5 DEF PrizeOf, TicketRow
  <2>3. \A t \in sold : g[t] = 0
    BY <1>2, <1>4
  <2> HIDE DEF f, g
  <2>4. SumOver(g, T \cup sold) = SumOver(g, T)
    <3>1. \A t \in T \cup sold : g[t] \in Int
      BY <2>2, <2>3
    <3>2. IsFiniteSet(T \cup sold)
      BY <1>4, <1>5, FS_Union
    <3> HIDE DEF T
    <3> QED BY <2>3, <3>1, <3>2, SumWithin
  <2>5. SumOver(g, T) = SumOver(f, T)
    BY <1>5, <2>2, SumEqual
  <2> QED BY <2>1, <2>4, <2>5 DEF PoolsSplit
<1>12. RollsBacked'
  <2>1. InHand' = InHand /\ Given' = Given /\ LeftOver' = LeftOver
    BY DEF InHand, Given, LeftOver
  <2> QED BY <2>1 DEF RollsBacked
<1> QED BY <1>6, <1>7, <1>8, <1>9, <1>10, <1>11, <1>12

\* A purchase pays for what it opens.
LEMMA BuyTicketsKeeps ==
  ASSUME LottoInv, NEW u \in LottoUsers, Lotto!BuyTickets(u) PROVE LottoInv'
<1> DEFINE k == buy[u].n
           c == Lotto!PerTicket(k)
<1>1. k \in Nat \ {0} /\ c \in Nat \ {0}
  BY TicketPrices DEF LottoInv, DrawsKnown, PurchaseKnows, Lotto!BuyTickets
<1>2. /\ buy[u].at # "no" /\ draws[buy[u].d].status = "open" /\ tickets' = Lotto!Sold(u, k, c)
      /\ buy' = [buy EXCEPT ![u] = Lotto!NoBuy]
      /\ bal[u] >= k * Lotto!ToLamports(c)
      /\ bal' = [bal EXCEPT ![u] = @ - k * Lotto!ToLamports(c)]
      /\ spent' = spent
      /\ UNCHANGED <<totalWon, totalLost, draws, eng, lease>>
  BY DEF Lotto!BuyTickets, Lotto!StillOpen, Lotto!CanDebit
<1> HIDE DEF k, c
<1> QED BY <1>1, <1>2, SaleKeeps

\* A free ticket spends one that was earned.
LEMMA UseFreeTicketKeeps ==
  ASSUME LottoInv, NEW u \in LottoUsers, Lotto!UseFreeTicket(u) PROVE LottoInv'
<1>1. /\ buy[u].at # "no" /\ draws[buy[u].d].status = "open" /\ tickets' = Lotto!Sold(u, 1, 0)
      /\ buy' = [buy EXCEPT ![u] = Lotto!NoBuy] /\ UNCHANGED <<bal, totalWon, totalLost, draws, eng, lease>>
      /\ spent[u] < Earned /\ spent' = [spent EXCEPT ![u] = @ + 1]
  BY DEF Lotto!UseFreeTicket, Lotto!StillOpen, Lotto!HasEarned, Lotto!accountVars
<1>2. 1 * Lotto!ToLamports(0) = 0
  BY TicketPrices
<1>3. bal[u] >= 1 * Lotto!ToLamports(0) /\ bal' = [bal EXCEPT ![u] = @ - 1 * Lotto!ToLamports(0)]
  <2>1. bal \in [LottoUsers -> Nat]
    BY LottoRows DEF LottoInv
  <2> QED BY <1>1, <1>2, <2>1
<1>4. 1 \in Nat \ {0} /\ 0 \in Nat
  OBVIOUS
<1>5. \/ 0 # 0 /\ spent' = spent
      \/ 0 = 0 /\ 1 = 1 /\ spent[u] < Earned /\ spent' = [spent EXCEPT ![u] = @ + 1]
  BY <1>1
<1> DEFINE k == 1
           c == 0
<1>6. /\ k \in Nat \ {0} /\ c \in Nat /\ tickets' = Lotto!Sold(u, k, c)
      /\ bal[u] >= k * Lotto!ToLamports(c) /\ bal' = [bal EXCEPT ![u] = @ - k * Lotto!ToLamports(c)]
      /\ \/ c # 0 /\ spent' = spent
         \/ c = 0 /\ k = 1 /\ spent[u] < Earned /\ spent' = [spent EXCEPT ![u] = @ + 1]
  BY <1>1, <1>3, <1>4, <1>5
<1> HIDE DEF k, c
<1> QED BY <1>1, <1>6, SaleKeeps

\* What a settlement does to the rows of the tickets.
LEMMA DrawnRows ==
  ASSUME DrawTypes, NEW mine, mine \subseteq DOMAIN tickets, NEW prize \in [mine -> Nat],
         tickets' = Lotto!Drawn(prize)
  PROVE  /\ DOMAIN tickets' = DOMAIN tickets /\ tickets' \in Seq(TicketRow)
         /\ \A t \in DOMAIN tickets :
              tickets'[t] \in TicketRow /\ tickets'[t].user = tickets[t].user
              /\ tickets'[t].draw = tickets[t].draw /\ tickets'[t].cost = tickets[t].cost
         /\ \A t \in mine : tickets'[t].done = TRUE /\ tickets'[t].prize = prize[t]
         /\ \A t \in DOMAIN tickets \ mine : tickets'[t] = tickets[t]
<1>1. tickets' = [t \in DOMAIN tickets |->
                    IF t \in mine THEN [tickets[t] EXCEPT !.done = TRUE, !.prize = prize[t]]
                    ELSE tickets[t]]
  BY DEF Lotto!Drawn
<1>2. ASSUME NEW t \in DOMAIN tickets
      PROVE  /\ tickets'[t] \in TicketRow /\ tickets'[t].user = tickets[t].user
             /\ tickets'[t].draw = tickets[t].draw /\ tickets'[t].cost = tickets[t].cost
             /\ t \in mine => tickets'[t].done = TRUE /\ tickets'[t].prize = prize[t]
             /\ t \notin mine => tickets'[t] = tickets[t]
  <2> DEFINE r == tickets[t]
  <2>1. r \in TicketRow
    BY LottoRows
  <2>2. CASE t \in mine
    <3>1. prize[t] \in Nat
      BY <2>2
    <3>2. tickets'[t] = [r EXCEPT !.done = TRUE, !.prize = prize[t]]
      BY <1>1, <2>2
    <3> DEFINE x == prize[t]
    <3>3. tickets'[t] = [r EXCEPT !.done = TRUE, !.prize = x] /\ x \in Nat
      BY <3>1, <3>2
    <3> HIDE DEF r, x
    <3>4. /\ tickets'[t] \in TicketRow /\ tickets'[t].user = r.user /\ tickets'[t].draw = r.draw
          /\ tickets'[t].cost = r.cost /\ tickets'[t].done = TRUE /\ tickets'[t].prize = x
      BY <2>1, <3>3 DEF TicketRow
    <3> QED BY <2>2, <3>4 DEF r, x
  <2>3. CASE t \notin mine
    <3>1. tickets'[t] = tickets[t]
      BY <1>1, <2>3
    <3> QED BY <2>1, <2>3, <3>1
  <2> QED BY <2>2, <2>3
<1>3. DOMAIN tickets' = DOMAIN tickets
  BY <1>1
<1>4. tickets' \in Seq(TicketRow)
  <2>1. DOMAIN tickets = 1..Len(tickets) /\ Len(tickets) \in Nat
    BY LottoRows
  <2>2. tickets' \in [1..Len(tickets) -> TicketRow]
    BY <1>1, <1>2, <2>1
  <2> QED BY <2>1, <2>2, RowsAreSeq
<1> QED BY <1>2, <1>3, <1>4

\* What it does to the row of the draw.
LEMMA DrawnDraw ==
  ASSUME DrawTypes, NEW d \in DOMAIN draws, NEW pool \in Nat, NEW out \in Nat,
         draws' = [draws EXCEPT ![d].status = "drawn", ![d].pool = pool, ![d].out = out]
  PROVE  /\ DOMAIN draws' = DOMAIN draws /\ Len(draws') = Len(draws) /\ draws' \in Seq(DrawRow)
         /\ draws'[d].status = "drawn" /\ draws'[d].pool = pool /\ draws'[d].out = out
         /\ draws'[d].roll = draws[d].roll
         /\ \A i \in DOMAIN draws : i # d => draws'[i] = draws[i]
<1> DEFINE row == [draws[d] EXCEPT !.status = "drawn", !.pool = pool, !.out = out]
<1>1. draws \in Seq(DrawRow) /\ draws[d] \in DrawRow
      /\ DOMAIN draws = 1..Len(draws) /\ Len(draws) \in Nat
  BY LottoRows DEF DrawTypes
<1>2. row \in DrawRow /\ row.status = "drawn" /\ row.pool = pool /\ row.out = out
      /\ row.roll = draws[d].roll
  BY <1>1 DEF DrawRow
<1>3. draws' = [draws EXCEPT ![d] = row]
  BY <1>1
<1> HIDE DEF row
<1>4. DOMAIN draws' = DOMAIN draws /\ draws'[d] = row
      /\ \A i \in DOMAIN draws : i # d => draws'[i] = draws[i]
  BY <1>3
<1>5. draws' \in Seq(DrawRow) /\ Len(draws') = Len(draws)
  <2>1. \A i \in DOMAIN draws : draws[i] \in DrawRow
    BY LottoRows
  <2>2. draws' = [i \in DOMAIN draws |-> draws'[i]]
    BY <1>3
  <2>3. \A i \in DOMAIN draws : draws'[i] \in DrawRow
    BY <1>2, <1>4, <2>1
  <2>4. draws' \in [1..Len(draws) -> DrawRow]
    BY <1>1, <2>2, <2>3
  <2> QED BY ONLY <1>1, <2>4, RowsAreSeq
<1> QED BY <1>2, <1>4, <1>5

\* Every player is credited with the sum over the player's tickets.
LEMMA CreditedIs ==
  ASSUME NEW column, NEW amount, NEW u \in LottoUsers
  PROVE  Lotto!Credited(column, amount)[u]
           = column[u] + SumOver(amount, {t \in DOMAIN amount : tickets[t].user = u})
  BY LottoFoldIsSum DEF Lotto!Credited

\* What is paid and what is lost is what is gained and what was paid before.
LEMMA ProfitSplits == ASSUME NEW a \in Nat, NEW b \in Nat
  PROVE  Lotto!Profit(a - b) \in Nat /\ Lotto!Profit(b - a) \in Nat
         /\ a + Lotto!Profit(b - a) = Lotto!Profit(a - b) + b
  BY DEF Lotto!Profit

\* The same, added up over tickets.
LEMMA ProfitSums ==
  ASSUME NEW S, IsFiniteSet(S), NEW paid, NEW cost, NEW gain, NEW loss,
         \A t \in S : paid[t] \in Nat /\ cost[t] \in Nat
                     /\ gain[t] = Lotto!Profit(paid[t] - cost[t])
                     /\ loss[t] = Lotto!Profit(cost[t] - paid[t])
  PROVE  /\ SumOver(paid, S) \in Nat /\ SumOver(gain, S) \in Nat
         /\ SumOver(loss, S) \in Nat /\ SumOver(cost, S) \in Nat
         /\ SumOver(paid, S) + SumOver(loss, S) = SumOver(gain, S) + SumOver(cost, S)
<1> DEFINE both == [t \in S |-> paid[t] + loss[t]]
<1>1. \A t \in S : /\ paid[t] \in Nat /\ cost[t] \in Nat /\ gain[t] \in Nat /\ loss[t] \in Nat
                   /\ paid[t] + loss[t] = gain[t] + cost[t]
  <2> SUFFICES ASSUME NEW t \in S
      PROVE  /\ paid[t] \in Nat /\ cost[t] \in Nat /\ gain[t] \in Nat /\ loss[t] \in Nat
             /\ paid[t] + loss[t] = gain[t] + cost[t]
    OBVIOUS
  <2>1. /\ paid[t] \in Nat /\ cost[t] \in Nat
        /\ gain[t] = Lotto!Profit(paid[t] - cost[t]) /\ loss[t] = Lotto!Profit(cost[t] - paid[t])
    OBVIOUS
  <2> QED BY ONLY <2>1, ProfitSplits
<1>2. \A t \in S : both[t] = paid[t] + loss[t]
  OBVIOUS
<1> HIDE DEF both
<1>3. \A t \in S : /\ paid[t] \in Int /\ cost[t] \in Int /\ gain[t] \in Int /\ loss[t] \in Int
                   /\ both[t] = paid[t] + loss[t] /\ both[t] = gain[t] + cost[t]
  BY <1>1, <1>2
<1>4. SumOver(both, S) = SumOver(paid, S) + SumOver(loss, S)
  BY <1>3, SumPlus
<1>5. SumOver(both, S) = SumOver(gain, S) + SumOver(cost, S)
  BY <1>3, SumPlus
<1>6. SumOver(paid, S) \in Nat /\ SumOver(cost, S) \in Nat
  BY <1>1, SumNat
<1>7. SumOver(gain, S) \in Nat /\ SumOver(loss, S) \in Nat
  BY <1>1, SumNat
<1> QED BY <1>4, <1>5, <1>6, <1>7

\* A balance follows what is paid, gained, lost and no longer open.
LEMMA BalanceFollows ==
  ASSUME NEW f \in Int, NEW w \in Nat, NEW l \in Nat, NEW o \in Int, NEW sp \in Nat, NEW sg \in Nat,
         NEW sl \in Nat, NEW sc \in Nat, sp + sl = sg + sc
  PROVE  (f + w - l - (o + sc)) + sp = f + (w + sg) - (l + sl) - o
  OBVIOUS

\* The settlement of a draw: its tickets are settled with their prizes, the players credited,
\* the pool is what is burned, won and left over, and the engine has the rest in hand.
LEMMA SettlementKeeps ==
  ASSUME LottoInv, NEW p \in Engines, NEW d \in DOMAIN draws, draws[d].status = "open",
         NEW mine, mine = {t \in DOMAIN tickets : tickets[t].draw = d},
         NEW pool \in Nat, NEW out \in Nat, NEW prize \in [mine -> Nat],
         pool = Lotto!Burn(pool) + SumOver(prize, mine) + out,
         NEW paid \in [mine -> Nat], NEW cost \in [mine -> Nat],
         \A t \in mine : cost[t] = Lotto!ToLamports(tickets[t].cost),
         draws' = [draws EXCEPT ![d].status = "drawn", ![d].pool = pool, ![d].out = out],
         tickets' = Lotto!Drawn(prize),
         bal' = Lotto!Credited(bal, paid),
         totalWon' = Lotto!Credited(totalWon, [t \in mine |-> Lotto!Profit(paid[t] - cost[t])]),
         totalLost' = Lotto!Credited(totalLost, [t \in mine |-> Lotto!Profit(cost[t] - paid[t])]),
         NEW e \in EngineType, EngineKnows(e), Carried(e) <= Carried(eng[p]) + out,
         eng' = [eng EXCEPT ![p] = e], UNCHANGED <<spent, buy, lease>>
  PROVE  LottoInv'
<1>0. DrawTypes /\ DrawsKnown /\ TicketsFollow /\ TicketMoney /\ FreeSpent /\ PoolsSplit /\ RollsBacked
  BY DEF LottoInv
<1> DEFINE T == DOMAIN tickets
           M(u) == {t \in mine : tickets[t].user = u}
           gain == [t \in mine |-> Lotto!Profit(paid[t] - cost[t])]
           loss == [t \in mine |-> Lotto!Profit(cost[t] - paid[t])]
<1>1. IsFiniteSet(T) /\ mine \subseteq T /\ IsFiniteSet(mine)
      /\ \A u : M(u) \subseteq mine /\ IsFiniteSet(M(u))
  <2>1. IsFiniteSet(T) /\ mine \subseteq T
    BY <1>0, LottoRows
  <2>2. IsFiniteSet(mine)
    BY <2>1, FS_Subset
  <2> QED BY <2>1, <2>2, FS_Subset
<1>2. \A t \in T : tickets[t] \in TicketRow /\ tickets[t].draw \in DOMAIN draws
  BY <1>0, LottoRows
<1>3. /\ DOMAIN tickets' = T
      /\ \A t \in T : tickets'[t] \in TicketRow /\ tickets'[t].user = tickets[t].user
                      /\ tickets'[t].draw = tickets[t].draw /\ tickets'[t].cost = tickets[t].cost
      /\ \A t \in mine : tickets'[t].done = TRUE /\ tickets'[t].prize = prize[t]
      /\ \A t \in T \ mine : tickets'[t] = tickets[t]
      /\ tickets' \in Seq(TicketRow)
  <2>1. mine \subseteq DOMAIN tickets /\ prize \in [mine -> Nat] /\ tickets' = Lotto!Drawn(prize)
    BY <1>1
  <2> QED BY ONLY <1>0, <2>1, DrawnRows
<1>5. /\ DOMAIN draws' = DOMAIN draws /\ Len(draws') = Len(draws) /\ draws' \in Seq(DrawRow)
      /\ draws'[d].status = "drawn" /\ draws'[d].pool = pool /\ draws'[d].out = out
      /\ draws'[d].roll = draws[d].roll
      /\ \A i \in DOMAIN draws : i # d => draws'[i] = draws[i]
  <2>1. /\ d \in DOMAIN draws /\ pool \in Nat /\ out \in Nat
        /\ draws' = [draws EXCEPT ![d].status = "drawn", ![d].pool = pool, ![d].out = out]
    OBVIOUS
  <2> QED BY ONLY <1>0, <2>1, DrawnDraw
<1>7. ASSUME NEW u \in LottoUsers
      PROVE  /\ bal'[u] = bal[u] + SumOver(paid, M(u))
             /\ totalWon'[u] = totalWon[u] + SumOver(gain, M(u))
             /\ totalLost'[u] = totalLost[u] + SumOver(loss, M(u))
             /\ SumOver(paid, M(u)) \in Nat /\ SumOver(gain, M(u)) \in Nat
             /\ SumOver(loss, M(u)) \in Nat /\ SumOver(cost, M(u)) \in Nat
             /\ SumOver(paid, M(u)) + SumOver(loss, M(u)) = SumOver(gain, M(u)) + SumOver(cost, M(u))
  <2>1. DOMAIN paid = mine /\ DOMAIN gain = mine /\ DOMAIN loss = mine
    OBVIOUS
  <2>2. /\ Lotto!Credited(bal, paid)[u] = bal[u] + SumOver(paid, {t \in DOMAIN paid : tickets[t].user = u})
        /\ Lotto!Credited(totalWon, gain)[u]
             = totalWon[u] + SumOver(gain, {t \in DOMAIN gain : tickets[t].user = u})
        /\ Lotto!Credited(totalLost, loss)[u]
             = totalLost[u] + SumOver(loss, {t \in DOMAIN loss : tickets[t].user = u})
    <3> HIDE DEF gain, loss
    <3> QED BY ONLY CreditedIs, u \in LottoUsers
  <2>3. /\ bal'[u] = bal[u] + SumOver(paid, M(u))
        /\ totalWon'[u] = totalWon[u] + SumOver(gain, M(u))
        /\ totalLost'[u] = totalLost[u] + SumOver(loss, M(u))
    BY <2>1, <2>2
  <2>4. \A t \in M(u) : /\ paid[t] \in Nat /\ cost[t] \in Nat
                        /\ gain[t] = Lotto!Profit(paid[t] - cost[t])
                        /\ loss[t] = Lotto!Profit(cost[t] - paid[t])
    OBVIOUS
  <2>5. IsFiniteSet(M(u))
    BY <1>1
  <2> HIDE DEF M, gain, loss
  <2>6. /\ SumOver(paid, M(u)) \in Nat /\ SumOver(gain, M(u)) \in Nat
        /\ SumOver(loss, M(u)) \in Nat /\ SumOver(cost, M(u)) \in Nat
        /\ SumOver(paid, M(u)) + SumOver(loss, M(u)) = SumOver(gain, M(u)) + SumOver(cost, M(u))
    BY ONLY <2>4, <2>5, ProfitSums
  <2> QED BY <2>3, <2>6
<1> HIDE DEF T, gain, loss
<1>8. bal' \in [LottoUsers -> Nat] /\ totalWon' \in [LottoUsers -> Nat]
      /\ totalLost' \in [LottoUsers -> Nat]
  <2>1. bal' = [u \in LottoUsers |-> bal'[u]] /\ totalWon' = [u \in LottoUsers |-> totalWon'[u]]
        /\ totalLost' = [u \in LottoUsers |-> totalLost'[u]]
    BY DEF Lotto!Credited
  <2>2. \A u \in LottoUsers : bal'[u] \in Nat /\ totalWon'[u] \in Nat /\ totalLost'[u] \in Nat
    <3>1. \A u \in LottoUsers : bal[u] \in Nat /\ totalWon[u] \in Nat /\ totalLost[u] \in Nat
      BY <1>0, LottoRows
    <3> SUFFICES ASSUME NEW u \in LottoUsers
                 PROVE  bal'[u] \in Nat /\ totalWon'[u] \in Nat /\ totalLost'[u] \in Nat
      OBVIOUS
    <3> HIDE DEF M
    <3>2. \A a, b \in Nat : a + b \in Nat
      OBVIOUS
    <3>3. u \in LottoUsers
      OBVIOUS
    <3> QED BY ONLY <1>7, <3>1, <3>2, <3>3
  <2> QED BY <2>1, <2>2
<1>9. \A q \in Engines : eng'[q] = IF q = p THEN e ELSE eng[q]
  BY <1>0 DEF DrawTypes
<1>10. DrawTypes'
  <2>1. eng' \in [Engines -> EngineType]
    BY <1>0 DEF DrawTypes
  <2>2. \A q \in Engines : eng'[q].cur \in 0..Len(draws') /\ eng'[q].carry \in Nat
    BY <1>0, <1>5, <1>9 DEF DrawTypes, Lotto!TypeOK, EngineKnows, EngineType
  <2>3. \A i \in DOMAIN draws' : draws'[i] \in DrawRow
    BY <1>5
  <2>4. \A t \in DOMAIN tickets' : tickets'[t].draw \in DOMAIN draws' /\ tickets'[t].user \in LottoUsers
    BY <1>2, <1>3, <1>5 DEF TicketRow
  <2>5. Lotto!TypeOK'
    BY <1>0, <1>8, <2>2, <2>3, <2>4 DEF DrawTypes, Lotto!TypeOK, Lotto!AccountTypeOK, DrawRow
  <2> QED BY <1>0, <1>3, <1>5, <2>1, <2>5 DEF DrawTypes
<1>11. DrawsKnown'
  BY <1>0, <1>5, <1>9 DEF DrawsKnown, EngineKnows, PurchaseKnows
<1>12. TicketsFollow'
  <2>1. ASSUME NEW t \in T PROVE tickets'[t].done <=> draws'[tickets'[t].draw].status = "drawn"
    <3>1. CASE t \in mine
      BY <1>3, <1>5, <3>1
    <3>2. CASE t \notin mine
      <4>1. tickets[t].draw # d /\ tickets'[t] = tickets[t]
        BY <1>3, <3>2 DEF T
      <4>2. draws'[tickets[t].draw] = draws[tickets[t].draw]
        BY <1>2, <1>5, <4>1
      <4> QED BY <1>0, <4>1, <4>2 DEF TicketsFollow, T
    <3> QED BY <3>1, <3>2
  <2> QED BY <1>3, <2>1 DEF TicketsFollow
<1>13. TicketMoney'
  <2> SUFFICES ASSUME NEW u \in LottoUsers
               PROVE  bal'[u] = LottoFunds + totalWon'[u] - totalLost'[u] - OpenTickets(u)'
    BY DEF TicketMoney
  <2> DEFINE f == OpenCost(u)
             g == [t \in DOMAIN tickets' |->
                     IF tickets'[t].user = u /\ ~tickets'[t].done
                     THEN Lotto!ToLamports(tickets'[t].cost) ELSE 0]
             h == [t \in T |-> IF t \in M(u) THEN cost[t] ELSE 0]
             S == M(u)
  <2>1. OpenTickets(u) = SumOver(f, T) /\ OpenTickets(u)' = SumOver(g, T)
    BY <1>3 DEF OpenTickets, OpenCost, T
  <2>2. \A t \in mine : ~tickets[t].done
    BY <1>0 DEF TicketsFollow
  <2>3. \A t \in T : g[t] \in Int /\ h[t] \in Int /\ f[t] = g[t] + h[t]
    <3> SUFFICES ASSUME NEW t \in T PROVE g[t] \in Int /\ h[t] \in Int /\ f[t] = g[t] + h[t]
      OBVIOUS
    <3>1. f[t] = (IF tickets[t].user = u /\ ~tickets[t].done
                  THEN Lotto!ToLamports(tickets[t].cost) ELSE 0) /\ f[t] \in Nat
      BY <1>2, TicketPrices DEF OpenCost, TicketRow, T
    <3>2. CASE t \in mine
      <4>1. g[t] = 0
        BY <1>3, <3>2
      <4>2. h[t] = f[t]
        BY <2>2, <3>1, <3>2
      <4> HIDE DEF f, g, h
      <4> QED BY <3>1, <4>1, <4>2
    <3>3. CASE t \notin mine
      <4>1. g[t] = f[t]
        BY <1>3, <3>1, <3>3
      <4>2. h[t] = 0
        BY <3>3
      <4> HIDE DEF f, g, h
      <4> QED BY <3>1, <4>1, <4>2
    <3> QED BY <3>2, <3>3
  <2>4. S \subseteq T /\ (\A t \in T \ S : h[t] = 0) /\ \A t \in S : h[t] = cost[t]
    BY <1>1
  <2> HIDE DEF f, g, h
  <2>5. SumOver(f, T) = SumOver(g, T) + SumOver(h, T)
    BY <1>1, <2>3, SumPlus
  <2>6. SumOver(h, T) = SumOver(h, S)
    <3> HIDE DEF S
    <3> QED BY <1>1, <2>3, <2>4, SumWithin
  <2>7. SumOver(h, S) = SumOver(cost, S)
    <3>1. IsFiniteSet(S)
      BY <1>1
    <3> HIDE DEF S
    <3> QED BY ONLY <2>4, <3>1, SumEqual
  <2>8. SumOver(g, T) \in Int
    BY <1>1, <2>3, SumType
  <2>9. OpenTickets(u) = OpenTickets(u)' + SumOver(cost, M(u)) /\ OpenTickets(u)' \in Int
    BY <2>1, <2>5, <2>6, <2>7, <2>8
  <2>10. bal[u] = LottoFunds + totalWon[u] - totalLost[u] - OpenTickets(u)
    BY <1>0 DEF TicketMoney
  <2>11. LottoFunds \in Nat /\ totalWon[u] \in Nat /\ totalLost[u] \in Nat
    <3>1. totalWon \in [LottoUsers -> Nat] /\ totalLost \in [LottoUsers -> Nat]
      BY <1>0, LottoRows
    <3>2. u \in LottoUsers
      OBVIOUS
    <3> QED BY ONLY <3>1, <3>2, LottoConstants
  <2> DEFINE o == OpenTickets(u)'
             sp == SumOver(paid, M(u))
             sg == SumOver(gain, M(u))
             sl == SumOver(loss, M(u))
             sc == SumOver(cost, M(u))
  <2>12. /\ bal'[u] = bal[u] + sp /\ totalWon'[u] = totalWon[u] + sg /\ totalLost'[u] = totalLost[u] + sl
         /\ sp \in Nat /\ sg \in Nat /\ sl \in Nat /\ sc \in Nat /\ sp + sl = sg + sc
         /\ o \in Int /\ bal[u] = LottoFunds + totalWon[u] - totalLost[u] - (o + sc)
    BY <1>7, <2>9, <2>10
  <2>13. bal'[u] = LottoFunds + totalWon'[u] - totalLost'[u] - o
    <3> HIDE DEF o, sp, sg, sl, sc
    <3> QED BY ONLY <2>11, <2>12
  <2> QED BY <2>13
<1>14. FreeSpent'
  <2>1. \A u : FreeOnes(u)' = FreeOnes(u)
    BY <1>3 DEF FreeOnes, T
  <2> QED BY <1>0, <2>1 DEF FreeSpent
<1>15. PoolsSplit'
  <2> SUFFICES ASSUME NEW i \in DOMAIN draws
      PROVE IF draws'[i].status = "drawn"
            THEN draws'[i].pool = Lotto!Burn(draws'[i].pool) + Prizes(i)' + draws'[i].out
            ELSE draws'[i].out = 0
    BY <1>5 DEF PoolsSplit
  <2> DEFINE f == PrizeOf(i)
             g == [t \in DOMAIN tickets' |-> IF tickets'[t].draw = i THEN tickets'[t].prize ELSE 0]
  <2>1. Prizes(i) = SumOver(f, T) /\ Prizes(i)' = SumOver(g, T)
    BY <1>3 DEF Prizes, PrizeOf, T
  <2>2. CASE i = d
    <3>1. (\A t \in mine : g[t] = prize[t]) /\ \A t \in T \ mine : g[t] = 0
      BY <1>1, <1>3, <2>2 DEF T
    <3>2. \A t \in T : g[t] \in Int
      BY <1>3 DEF TicketRow
    <3> HIDE DEF g
    <3>3. SumOver(g, T) = SumOver(g, mine)
      BY <1>1, <3>1, <3>2, SumWithin
    <3>4. SumOver(g, mine) = SumOver(prize, mine)
      BY <1>1, <3>1, SumEqual
    <3> QED BY <1>5, <2>1, <2>2, <3>3, <3>4
  <2>3. CASE i # d
    <3>1. \A t \in T : g[t] = f[t]
      BY <1>3, <2>3 DEF PrizeOf, T
    <3> HIDE DEF f, g
    <3>2. SumOver(g, T) = SumOver(f, T)
      BY <1>1, <3>1, SumEqual
    <3> QED BY <1>0, <1>5, <2>1, <2>3, <3>2 DEF PoolsSplit
  <2> QED BY <2>2, <2>3
<1>16. RollsBacked'
  <2>1. InHand' = InHand - Carried(eng[p]) + Carried(e)
    BY <1>0, InHandStep
  <2> DEFINE g1 == [i \in DOMAIN draws' |-> draws'[i].roll]
             g2 == [i \in DOMAIN draws' |-> draws'[i].out]
             h1 == [i \in DOMAIN draws |-> draws[i].roll]
             h2 == [i \in DOMAIN draws |-> draws[i].out]
  <2>2. g1 = h1 /\ h2[d] = 0 /\ g2[d] = out /\ (\A i \in DOMAIN draws \ {d} : h2[i] = g2[i])
    BY <1>0, <1>5 DEF PoolsSplit
  <2>3. \A i \in DOMAIN draws : h2[i] \in Int /\ g2[i] \in Int
    <3>1. \A i \in DOMAIN draws : draws[i] \in DrawRow /\ draws'[i] \in DrawRow
      BY <1>0, <1>5, LottoRows
    <3> SUFFICES ASSUME NEW i \in DOMAIN draws PROVE h2[i] \in Int /\ g2[i] \in Int
      OBVIOUS
    <3>2. h2[i] = draws[i].out /\ g2[i] = draws'[i].out /\ draws[i] \in DrawRow /\ draws'[i] \in DrawRow
      BY <1>5, <3>1
    <3> HIDE DEF h2, g2
    <3> QED BY ONLY <3>2 DEF DrawRow
  <2>4. IsFiniteSet(DOMAIN draws)
    BY <1>0, LottoRows
  <2>5. /\ Given' = SumOver(g1, DOMAIN draws) /\ LeftOver' = SumOver(g2, DOMAIN draws)
        /\ Given = SumOver(h1, DOMAIN draws) /\ LeftOver = SumOver(h2, DOMAIN draws)
    BY <1>5 DEF Given, LeftOver
  <2> HIDE DEF g1, g2, h1, h2
  <2>6. SumOver(g2, DOMAIN draws) = SumOver(h2, DOMAIN draws) - h2[d] + g2[d]
    BY <2>2, <2>3, <2>4, SumChange
  <2>7. Given' = Given /\ LeftOver' = LeftOver + out
    BY <1>0, <2>2, <2>5, <2>6, RollTypes
  <2>8. Carried(eng[p]) \in Nat /\ Carried(e) \in Nat /\ InHand \in Nat /\ Given \in Nat /\ LeftOver \in Nat
    BY <1>0, RollTypes, InHandType, LottoRows, CarriedType
  <2> QED BY <1>0, <2>1, <2>7, <2>8 DEF RollsBacked
<1> QED BY <1>10, <1>11, <1>12, <1>13, <1>14, <1>15, <1>16 DEF LottoInv

\* What the settlement of a draw leaves the engine with.
LEMMA AfterSettleIs ==
  ASSUME LottoInv, NEW p \in Engines, eng[p].st.at = "tx", NEW out \in Nat
  PROVE  LET e == Lotto!AfterSettle([eng[p] EXCEPT !.carry = out,
                                          !.cur = IF @ = eng[p].st.d THEN 0 ELSE @]) IN
         e \in EngineType /\ EngineKnows(e) /\ Carried(e) <= Carried(eng[p]) + out
<1> DEFINE o == eng[p]
           c == IF o.cur = o.st.d THEN 0 ELSE o.cur
           m == [o EXCEPT !.carry = out, !.cur = c]
           e == Lotto!AfterSettle(m)
<1>1. o \in EngineType /\ EngineKnows(o) /\ Len(draws) \in Nat
  BY EngineIs, LottoRows DEF LottoInv
<1>2. c \in 0..Len(draws)
  BY <1>1 DEF EngineKnows
<1> HIDE DEF c, o
<1>3. c \in Nat
  BY ONLY <1>1, <1>2
<1>4. m \in EngineType /\ m.carry = out /\ m.cur = c /\ m.boot = o.boot /\ m.st = o.st
  BY ONLY <1>1, <1>3, out \in Nat DEF EngineType
<1> HIDE DEF m
<1>5. /\ o.boot \in BootType /\ o.boot.roll \in Nat /\ o.st.roll \in Nat
      /\ o.carry \in Nat
  BY ONLY <1>1 DEF EngineType, BootType, FlowType
<1>6. /\ e \in EngineType /\ e.carry = out /\ e.cur = c /\ e.st.roll = 0
      /\ e.st.at \in {"no", "open"}
      /\ e.boot.roll = o.boot.roll /\ e.boot.d = o.boot.d /\ e.boot.todo = o.boot.todo
  <2>1. CASE m.boot.at = "wait"
    <3>1. e = [m EXCEPT !.st = Lotto!NoFlow, !.boot.at = "visit"]
      BY ONLY <2>1 DEF Lotto!AfterSettle, e
    <3> DEFINE b == [o.boot EXCEPT !.at = "visit"]
    <3>2. b \in BootType /\ b.roll = o.boot.roll /\ b.d = o.boot.d /\ b.todo = o.boot.todo
      BY ONLY <1>5 DEF BootType
    <3>3. e = [m EXCEPT !.st = Lotto!NoFlow, !.boot = b]
      BY ONLY <3>1, <1>4 DEF EngineType
    <3> HIDE DEF b, e
    <3> QED BY ONLY <1>4, <3>2, <3>3, NothingInHand DEF EngineType, FlowType, Lotto!NoFlow
  <2>2. CASE m.boot.at = "visit"
    <3>1. e = [m EXCEPT !.st = Lotto!NoFlow]
      BY ONLY <2>2 DEF Lotto!AfterSettle, e
    <3> HIDE DEF e
    <3> QED BY ONLY <1>4, <3>1, NothingInHand DEF EngineType, FlowType, Lotto!NoFlow
  <2>3. CASE m.boot.at # "wait" /\ m.boot.at # "visit"
    <3> DEFINE s == [Lotto!NoFlow EXCEPT !.at = "open"]
    <3>1. e = [m EXCEPT !.st = s]
      BY ONLY <2>3 DEF Lotto!AfterSettle, e
    <3>2. s \in FlowType /\ s.roll = 0 /\ s.at = "open"
      BY ONLY TRUE DEF FlowType, Lotto!NoFlow
    <3> HIDE DEF e, s
    <3> QED BY ONLY <1>4, <3>1, <3>2 DEF EngineType
  <2> QED BY ONLY <2>1, <2>2, <2>3
<1>7. EngineKnows(e)
  BY <1>1, <1>2, <1>6 DEF EngineKnows
<1>8. Carried(e) <= Carried(o) + out
  <2> HIDE DEF e
  <2> QED BY ONLY <1>5, <1>6, out \in Nat DEF Carried
<1> QED BY ONLY <1>6, <1>7, <1>8 DEF e, m, c, o

\* What the tickets of a draw win is, with what is burned and what goes on, the draw's pool.
LEMMA WinsAddUp ==
  ASSUME NEW pool \in Nat, NEW mine, IsFiniteSet(mine),
         NEW wins \in [mine -> {0} \cup DOMAIN Breakdown],
         NEW count, count = [b \in DOMAIN Breakdown |-> Cardinality({t \in mine : wins[t] = b})],
         NEW prize,
         prize = [t \in mine |-> IF wins[t] = 0 THEN 0 ELSE Lotto!PerWinner(pool, wins[t], count)]
  PROVE  /\ prize \in [mine -> Nat] /\ Lotto!NextRollover(pool, count) \in Nat
         /\ pool = Lotto!Burn(pool) + SumOver(prize, mine) + Lotto!NextRollover(pool, count)
<1> DEFINE C == DOMAIN Breakdown
           v == [b \in C |-> Lotto!PerWinner(pool, b, count)]
           won == [b \in C |-> v[b] * Cardinality({t \in mine : wins[t] = b})]
<1>1. C = 1..Len(Breakdown) /\ Len(Breakdown) \in Nat
  BY LottoConstants
<1>2. 0 \notin C
  BY ONLY <1>1
<1>3. count \in [C -> Nat]
  <2>1. \A b : Cardinality({t \in mine : wins[t] = b}) \in Nat
    <3> SUFFICES ASSUME NEW b PROVE Cardinality({t \in mine : wins[t] = b}) \in Nat
      OBVIOUS
    <3>1. IsFiniteSet({t \in mine : wins[t] = b})
      BY FS_Subset
    <3> QED BY <3>1, FS_CardinalityType
  <2> QED BY <2>1
<1>4. /\ \A b \in C : Lotto!PerWinner(pool, b, count) \in Nat
      /\ Lotto!NextRollover(pool, count) \in Nat
      /\ pool = Lotto!Burn(pool)
                + SumOver([b \in C |-> Lotto!PerWinner(pool, b, count) * count[b]], C)
                + Lotto!NextRollover(pool, count)
  BY ONLY <1>3, SplitWhole, pool \in Nat
<1>5. \A t \in mine : prize[t] = IF wins[t] \in C THEN v[wins[t]] ELSE 0
  BY <1>2
<1>6. \A b \in C : v[b] \in Int
  BY <1>4
<1>7. IsFiniteSet(C)
  BY LottoConstants
<1>8. SumOver(prize, mine) = SumOver(won, C)
  <2> HIDE DEF v, C
  <2>1. IsFiniteSet(mine)
    OBVIOUS
  <2>2. SumOver(prize, mine) = SumOver(ByClass(mine, C, wins, v), C)
    BY ONLY <1>5, <1>6, <1>7, <2>1, SumByClass
  <2> QED BY ONLY <2>2 DEF won, ByClass
<1>9. won = [b \in C |-> Lotto!PerWinner(pool, b, count) * count[b]]
  OBVIOUS
<1>10. prize \in [mine -> Nat]
  <2>1. \A t \in mine : prize[t] \in Nat
    BY <1>4, <1>5
  <2> QED BY <2>1
<1> QED BY ONLY <1>4, <1>8, <1>9, <1>10

\* The settlement's transaction, whatever the tickets win.
LEMMA SettleDrawKeeps ==
  ASSUME LottoInv, NEW p \in Engines, Lotto!Settle(p) PROVE LottoInv'
<1> DEFINE d == eng[p].st.d
           mine == {t \in DOMAIN tickets : tickets[t].draw = d}
           Cost(t) == tickets[t].cost
           sum == [t \in mine |-> tickets[t].cost]
           cost == [t \in mine |-> Lotto!ToLamports(tickets[t].cost)]
           pool == Lotto!SumOver(mine, Cost) + HouseInjection + draws[d].roll
<1>0. DrawTypes
  BY DEF LottoInv
<1>1. d \in DOMAIN draws /\ draws[d].status = "open" /\ eng[p].st.at = "tx"
  BY EngineIs DEF EngineKnows, Lotto!Settle, Lotto!Claimable
<1>2. IsFiniteSet(mine) /\ mine \subseteq DOMAIN tickets
  BY <1>0, LottoRows, FS_Subset
<1>3. \A t \in mine : tickets[t].cost \in Nat
  BY <1>0, LottoRows DEF TicketRow
<1>sum. Lotto!SumOver(mine, Cost) = SumOver(sum, mine)
  <2>1. Lotto!SumOver(mine, Cost) = Lotto!FoldFunction(+, 0, sum)
    BY DEF Lotto!SumOver
  <2>2. DOMAIN sum = mine
    OBVIOUS
  <2> QED BY ONLY <2>1, <2>2, LottoFoldIsSum
<1>4. pool \in Nat
  <2>1. \A t \in mine : sum[t] \in Nat
    BY <1>3
  <2>2. draws[d].roll \in Nat
    BY <1>0, <1>1, LottoRows DEF DrawRow
  <2> HIDE DEF sum, mine, d
  <2>3. SumOver(sum, mine) \in Nat
    BY ONLY <1>2, <2>1, SumNat
  <2> QED BY ONLY <1>sum, <2>2, <2>3, LottoConstants
<1>5. cost \in [mine -> Nat]
  BY <1>3, TicketPrices
<1> DEFINE Count(w) == [b \in DOMAIN Breakdown |-> Lotto!Cardinality({t \in mine : w[t] = b})]
           Prize(w) == [t \in mine |-> IF w[t] = 0 THEN 0 ELSE Lotto!PerWinner(pool, w[t], Count(w))]
           Paid(w) == [t \in mine |-> Lotto!ToLamports(Prize(w)[t])]
           Out(w) == Lotto!NextRollover(pool, Count(w))
           E(w) == Lotto!AfterSettle([eng[p] EXCEPT !.carry = Out(w),
                                          !.cur = IF @ = d THEN 0 ELSE @])
<1>7. PICK w \in [mine -> {0} \cup DOMAIN Breakdown] :
        /\ draws' = [draws EXCEPT ![d].status = "drawn", ![d].pool = pool, ![d].out = Out(w)]
        /\ tickets' = Lotto!Drawn(Prize(w))
        /\ bal' = Lotto!Credited(bal, Paid(w))
        /\ totalWon' = Lotto!Credited(totalWon, [t \in mine |-> Lotto!Profit(Paid(w)[t] - Lotto!ToLamports(Cost(t)))])
        /\ totalLost' = Lotto!Credited(totalLost, [t \in mine |-> Lotto!Profit(Lotto!ToLamports(Cost(t)) - Paid(w)[t])])
        /\ eng' = [eng EXCEPT ![p] = E(w)]
  BY DEF Lotto!Settle, Lotto!Brackets, Lotto!Set
<1>8. UNCHANGED <<spent, buy, lease>>
  BY DEF Lotto!Settle
<1> DEFINE prize == Prize(w)
           paid == Paid(w)
           out == Out(w)
           e == E(w)
<1> HIDE DEF pool, cost
<1>9. /\ prize \in [mine -> Nat] /\ out \in Nat
      /\ pool = Lotto!Burn(pool) + SumOver(prize, mine) + out
  <2>1. Count(w) = [b \in DOMAIN Breakdown |-> Cardinality({t \in mine : w[t] = b})]
    BY LottoCardinality
  <2>2. prize = [t \in mine |-> IF w[t] = 0 THEN 0 ELSE Lotto!PerWinner(pool, w[t], Count(w))]
        /\ out = Lotto!NextRollover(pool, Count(w))
    OBVIOUS
  <2>3. w \in [mine -> {0} \cup DOMAIN Breakdown]
    OBVIOUS
  <2> HIDE DEF mine, prize, out, Count
  <2> QED BY ONLY <1>2, <1>4, <2>1, <2>2, <2>3, WinsAddUp
<1>10. paid \in [mine -> Nat]
  BY <1>9, TicketPrices
<1>11. e \in EngineType /\ EngineKnows(e) /\ Carried(e) <= Carried(eng[p]) + out
  BY <1>1, <1>9, AfterSettleIs
<1>12. \A t \in mine : cost[t] = Lotto!ToLamports(tickets[t].cost)
  BY DEF cost
<1>13. mine = {t \in DOMAIN tickets : tickets[t].draw = d}
  OBVIOUS
<1> HIDE DEF d, mine, prize, paid, out, e, Prize, Paid, Out, E, Count
<1>14. LottoInv /\ p \in Engines
  OBVIOUS
<1>15. /\ draws' = [draws EXCEPT ![d].status = "drawn", ![d].pool = pool, ![d].out = out]
       /\ tickets' = Lotto!Drawn(prize)
       /\ bal' = Lotto!Credited(bal, paid)
       /\ totalWon' = Lotto!Credited(totalWon, [t \in mine |-> Lotto!Profit(paid[t] - cost[t])])
       /\ totalLost' = Lotto!Credited(totalLost, [t \in mine |-> Lotto!Profit(cost[t] - paid[t])])
       /\ eng' = [eng EXCEPT ![p] = e]
  <2>1. \A t \in mine : Lotto!ToLamports(Cost(t)) = cost[t]
    BY <1>12
  <2>2. [t \in mine |-> Lotto!Profit(paid[t] - Lotto!ToLamports(Cost(t)))]
          = [t \in mine |-> Lotto!Profit(paid[t] - cost[t])]
    BY <2>1
  <2>3. [t \in mine |-> Lotto!Profit(Lotto!ToLamports(Cost(t)) - paid[t])]
          = [t \in mine |-> Lotto!Profit(cost[t] - paid[t])]
    BY <2>1
  <2> QED BY ONLY <1>7, <2>2, <2>3 DEF prize, paid, out, e
<1> QED BY ONLY <1>1, <1>4, <1>5, <1>8, <1>9, <1>10, <1>11, <1>12, <1>13, <1>14, <1>15, SettlementKeeps

\* The lottery starts in the invariant ...
LEMMA LottoInit == Lotto!Init => LottoInv
<1> SUFFICES ASSUME Lotto!Init PROVE LottoInv
  OBVIOUS
<1>1. /\ bal = [u \in LottoUsers |-> LottoFunds] /\ totalWon = [u \in LottoUsers |-> 0]
      /\ totalLost = [u \in LottoUsers |-> 0] /\ spent = [u \in LottoUsers |-> 0]
      /\ draws = <<>> /\ tickets = <<>> /\ lease = {}
      /\ buy = [u \in LottoUsers |-> Lotto!NoBuy] /\ eng = [p \in Engines |-> Lotto!Standby]
  BY DEF Lotto!Init, Lotto!AccountInit
<1>2. /\ DOMAIN draws = {} /\ DOMAIN tickets = {} /\ Len(draws) = 0
      /\ draws \in Seq(DrawRow) /\ tickets \in Seq(TicketRow)
  BY <1>1
<1>3. /\ Lotto!NoFlow.roll = 0 /\ Lotto!NoFlow.at = "no" /\ Lotto!Standby.cur = 0
      /\ Lotto!Standby.carry = 0 /\ Lotto!Standby.boot.roll = 0 /\ Lotto!Standby.boot.d = 0
      /\ Lotto!Standby.boot.todo = {} /\ Lotto!Standby.st = Lotto!NoFlow
      /\ Lotto!NoBuy.at = "no"
  BY DEF Lotto!NoFlow, Lotto!Standby, Lotto!NoBuy
<1>4. DrawTypes
  <2>1. lease \in SUBSET Engines /\ Lotto!Cardinality(lease) <= 1
    <3>1. Cardinality({}) = 0
      BY FS_EmptySet
    <3> QED BY <1>1, <3>1, LottoCardinality
  <2>2. Lotto!AccountTypeOK
    BY <1>1, LottoConstants DEF Lotto!AccountTypeOK
  <2>3. \A p \in Engines : eng[p].cur \in 0..Len(draws) /\ eng[p].carry \in Nat
    BY <1>1, <1>2, <1>3
  <2>4. spent \in [LottoUsers -> Nat]
    BY <1>1
  <2>5. Lotto!TypeOK
    BY <1>2, <2>1, <2>2, <2>3, <2>4 DEF Lotto!TypeOK
  <2> QED BY <1>1, <1>2, <2>5, NothingInHand DEF DrawTypes
<1>5. DrawsKnown
  BY <1>1, <1>2, <1>3 DEF DrawsKnown, EngineKnows, PurchaseKnows
<1>6. \A f : SumOver(f, {}) = 0
  BY FS_EmptySet, SumStep
<1>7. TicketsFollow /\ PoolsSplit
  BY <1>2 DEF TicketsFollow, PoolsSplit
<1>8. TicketMoney
  <2> SUFFICES ASSUME NEW u \in LottoUsers
               PROVE  bal[u] = LottoFunds + totalWon[u] - totalLost[u] - OpenTickets(u)
    BY DEF TicketMoney
  <2>1. OpenTickets(u) = 0
    BY <1>2, <1>6 DEF OpenTickets
  <2> QED BY <1>1, <2>1, LottoConstants
<1>9. FreeSpent
  <2>1. \A u : FreeOnes(u) = {}
    BY <1>2 DEF FreeOnes
  <2>2. Cardinality({}) = 0 /\ Earned \in Nat
    BY FS_EmptySet, LottoConstants
  <2>3. \A u \in LottoUsers : spent[u] = 0
    BY <1>1
  <2> QED BY ONLY <2>1, <2>2, <2>3 DEF FreeSpent
<1>10. RollsBacked
  <2> DEFINE f == [p \in Engines |-> Carried(eng[p])]
  <2>1. \A p \in Engines : f[p] = 0
    BY <1>1, <1>3 DEF Carried
  <2> HIDE DEF f
  <2>2. SumOver(f, Engines) = Cardinality(Engines) * 0 /\ Cardinality(Engines) \in Nat
    BY <2>1, LottoConstants, SumConst, FS_CardinalityType
  <2>3. InHand = 0
    BY <2>2 DEF InHand, f
  <2>4. Given = 0 /\ LeftOver = 0
    BY <1>2, <1>6 DEF Given, LeftOver
  <2> QED BY <2>3, <2>4 DEF RollsBacked
<1> QED BY <1>4, <1>5, <1>7, <1>8, <1>9, <1>10 DEF LottoInv

\* ... and no step leaves it.
LEMMA LottoStep == LottoInv /\ [Lotto!Next]_(Lotto!vars) => LottoInv'
<1> SUFFICES ASSUME LottoInv, [Lotto!Next]_(Lotto!vars) PROVE LottoInv'
  OBVIOUS
<1>1. ASSUME NEW u \in LottoUsers, NEW p \in Engines,
             Lotto!Ask(u, p, "free", 1) \/ \E n \in Batches : Lotto!Ask(u, p, "paid", n)
      PROVE  LottoInv'
  <2>1. CASE Lotto!Ask(u, p, "free", 1)
    BY <2>1, AskKeeps
  <2>2. ASSUME NEW n \in Batches, Lotto!Ask(u, p, "paid", n) PROVE LottoInv'
    BY <2>2, AskKeeps, TicketPrices
  <2> QED BY <1>1, <2>1, <2>2
<1>2. ASSUME NEW u \in LottoUsers,
             Lotto!BuyTickets(u) \/ Lotto!UseFreeTicket(u) \/ Lotto!BuyRejected(u)
      PROVE  LottoInv'
  BY <1>2, BuyTicketsKeeps, UseFreeTicketKeeps, BuyRejectedKeeps
<1>3. ASSUME NEW d \in DOMAIN draws, Lotto!DrawTime(d) PROVE LottoInv'
  BY <1>3, DrawTimeKeeps
<1>4. ASSUME NEW p \in Engines,
             \/ Lotto!Elect(p) \/ Lotto!Demote(p) \/ Lotto!Crash(p)
             \/ Lotto!Scan(p) \/ Lotto!Visit(p) \/ Lotto!Resume(p)
      PROVE  LottoInv'
  BY <1>4, ElectKeeps, DemoteKeeps, EngineCrashKeeps, ScanKeeps, VisitKeeps, ResumeKeeps
<1>5. ASSUME NEW p \in Engines, NEW f \in {"st", "boot"},
             Lotto!OpenNewDraw(p, f) \/ Lotto!CreateDraw(p, f) \/ Lotto!CreateFails(p, f)
      PROVE  LottoInv'
  BY <1>5, OpenNewDrawKeeps, CreateDrawKeeps, CreateFailsKeeps
<1>6. ASSUME NEW p \in Engines,
             \/ Lotto!BootAgain(p) \/ Lotto!DrawAndSettle(p) \/ Lotto!ForceDraw(p)
             \/ Lotto!Beacon(p) \/ Lotto!Settle(p) \/ Lotto!SettleLost(p)
      PROVE  LottoInv'
  BY <1>6, BootAgainKeeps, DrawAndSettleKeeps, BeaconKeeps, SettleDrawKeeps, SettleLostDrawKeeps
<1>7. CASE UNCHANGED Lotto!vars
  <2>1. /\ UNCHANGED <<bal, totalWon, totalLost, draws, tickets, spent, buy, eng, lease>>
    BY <1>7 DEF Lotto!vars, Lotto!accountVars, Lotto!lotteryVars
  <2>2. DrawTypes' /\ DrawsKnown' /\ InHand' = InHand /\ Given' = Given /\ LeftOver' = LeftOver
    BY <2>1 DEF LottoInv, DrawTypes, Lotto!TypeOK, Lotto!AccountTypeOK, DrawsKnown, EngineKnows,
                PurchaseKnows, InHand, Given, LeftOver
  <2>3. RollsBacked'
    BY <2>2 DEF LottoInv, RollsBacked
  <2>4. TicketsFollow' /\ TicketMoney' /\ FreeSpent' /\ PoolsSplit'
    BY <2>1, LottoSame
  <2> QED BY <2>2, <2>3, <2>4 DEF LottoInv
<1> QED BY <1>1, <1>2, <1>3, <1>4, <1>5, <1>6, <1>7, LeaseExpiresKeeps DEF Lotto!Next

\* What the invariant says is what the lottery promises.
LEMMA LottoPromises ==
  ASSUME LottoInv
  PROVE  /\ Lotto!TypeOK /\ Lotto!TicketsSettledOnce /\ Lotto!FreeTicketsEarned
         /\ Lotto!PoolFullyAllocated /\ Lotto!RolloverUsedOnce
<1>0. DrawTypes /\ TicketsFollow /\ TicketMoney /\ FreeSpent /\ PoolsSplit /\ RollsBacked
  BY DEF LottoInv
<1>1. Lotto!TypeOK
  BY <1>0 DEF DrawTypes
<1>2. Lotto!TicketsSettledOnce
  <2>1. ASSUME NEW u \in LottoUsers PROVE Lotto!FoldFunction(+, 0, OpenCost(u)) = OpenTickets(u)
    <3>1. DOMAIN OpenCost(u) = DOMAIN tickets
      BY DEF OpenCost
    <3>2. Lotto!FoldFunction(+, 0, OpenCost(u)) = SumOver(OpenCost(u), DOMAIN OpenCost(u))
      BY LottoFoldIsSum
    <3> QED BY <3>1, <3>2 DEF OpenTickets
  <2>2. ASSUME NEW u \in LottoUsers
        PROVE  bal[u] = LottoFunds + totalWon[u] - totalLost[u]
                        - Lotto!FoldFunction(+, 0, OpenCost(u))
    BY <1>0, <2>1 DEF TicketMoney
  <2> QED BY <1>0, <2>2 DEF Lotto!TicketsSettledOnce, Lotto!SumOver, OpenCost, TicketsFollow
<1>3. Lotto!FreeTicketsEarned
  <2> SUFFICES ASSUME NEW u \in LottoUsers PROVE Lotto!Cardinality(FreeOnes(u)) <= Earned
    BY DEF Lotto!FreeTicketsEarned, FreeOnes
  <2>1. Cardinality(FreeOnes(u)) <= spent[u] /\ spent[u] <= Earned /\ spent[u] \in Nat
    BY <1>0, LottoRows DEF FreeSpent
  <2>2. Cardinality(FreeOnes(u)) \in Nat
    <3>1. IsFiniteSet(FreeOnes(u))
      BY <1>0, LottoRows, FS_Subset DEF FreeOnes
    <3> QED BY <3>1, FS_CardinalityType
  <2>3. Lotto!Cardinality(FreeOnes(u)) = Cardinality(FreeOnes(u))
    BY LottoCardinality
  <2> QED BY ONLY <2>1, <2>2, <2>3, LottoConstants
<1>4. Lotto!PoolFullyAllocated
  <2>1. ASSUME NEW d \in DOMAIN draws, draws[d].status = "drawn"
        PROVE  draws[d].pool = Lotto!Burn(draws[d].pool)
                               + Lotto!FoldFunction(+, 0, PrizeOf(d)) + draws[d].out
    <3>1. DOMAIN PrizeOf(d) = DOMAIN tickets
      BY DEF PrizeOf
    <3>2. Lotto!FoldFunction(+, 0, PrizeOf(d)) = SumOver(PrizeOf(d), DOMAIN PrizeOf(d))
      BY LottoFoldIsSum
    <3>3. Lotto!FoldFunction(+, 0, PrizeOf(d)) = Prizes(d)
      BY <3>1, <3>2 DEF Prizes
    <3> QED BY <1>0, <2>1, <3>3 DEF PoolsSplit
  <2> QED BY <2>1 DEF Lotto!PoolFullyAllocated, Lotto!SumOver, PrizeOf
<1>5. Lotto!RolloverUsedOnce
  <2> DEFINE f == [d \in DOMAIN draws |-> draws[d].roll]
             g == [d \in DOMAIN draws |-> draws[d].out]
             h == [p \in Engines |-> eng[p].carry + eng[p].st.roll + eng[p].boot.roll]
  <2>1. h = [p \in Engines |-> Carried(eng[p])]
    BY DEF Carried
  <2>2. DOMAIN f = DOMAIN draws /\ DOMAIN g = DOMAIN draws /\ DOMAIN h = Engines
    OBVIOUS
  <2>3. /\ Lotto!FoldFunction(+, 0, f) = SumOver(f, DOMAIN f)
        /\ Lotto!FoldFunction(+, 0, g) = SumOver(g, DOMAIN g)
        /\ Lotto!FoldFunction(+, 0, h) = SumOver(h, DOMAIN h)
    <3> HIDE DEF f, g, h
    <3> QED BY LottoFoldIsSum
  <2>4. SumOver(f, DOMAIN draws) = Given /\ SumOver(g, DOMAIN draws) = LeftOver
        /\ SumOver(h, Engines) = InHand
    BY ONLY <2>1 DEF Given, LeftOver, InHand
  <2>5. Lotto!FoldFunction(+, 0, f) + Lotto!FoldFunction(+, 0, h) <= Lotto!FoldFunction(+, 0, g)
    <3> HIDE DEF f, g, h
    <3> QED BY <1>0, <2>2, <2>3, <2>4 DEF RollsBacked
  <2> QED BY <2>5 DEF Lotto!RolloverUsedOnce, Lotto!SumOver
<1> QED BY <1>1, <1>2, <1>3, <1>4, <1>5

(* What holds of a draw holds of it in the behaviours of the three games:  *)
(* no ticket is orphaned or settled twice (lottery.engine.ts, #212, #215), *)
(* an earned ticket is spent once, a pool is burned, won and rolled over   *)
(* to the last unit (lottery.settlement.ts) and no rollover funds two      *)
(* draws, for any engines, players, prices, fees and prize shares.         *)
THEOREM DrawsAlwaysSettleOnce == HouseSpec => []DrawsSettleOnce
<1> DEFINE Inv == game = "lottery" => LottoInv
<1>1. HouseInit => Inv
  BY LottoInit DEF HouseInit
<1>2. Inv /\ [HouseNext]_houseVars => Inv'
  <2> SUFFICES ASSUME Inv, [HouseNext]_houseVars, game' = "lottery" PROVE LottoInv'
    OBVIOUS
  <2>1. game = "lottery" /\ [Lotto!Next]_(Lotto!vars)
    BY DEF HouseNext, houseVars, lottoVars, Lotto!vars, Lotto!accountVars, Lotto!lotteryVars,
           accountVars
  <2> QED BY <2>1, LottoStep
<1>3. Inv => DrawsSettleOnce
  BY LottoPromises DEF DrawsSettleOnce
<1> QED BY <1>1, <1>2, <1>3, PTL DEF HouseSpec
=============================================================================
