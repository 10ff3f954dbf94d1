------------------------------ MODULE GameOdds ------------------------------
(***************************************************************************)
(* The payout tables of the house-banked games, as constants.ts computes   *)
(* them, and what they return.  Multipliers are in hundredths, chances are *)
(* whole-number weights, and arithmetic is exact; where the exact value of *)
(* a multiplier is a whole number of hundredths, the floating-point code   *)
(* may still land just below it and floor to one hundredth less.  Then the *)
(* draws that decide an offer, counted over every stream of floats.        *)
(***************************************************************************)
EXTENDS Integers, Sequences, FiniteSets, FiniteSetsExt, SequencesExt

CONSTANTS
  Offers,      \* bets a page can offer: <<game, parameter, parameter>>
  MineCells,   \* MINES.CELLS
  Cells,       \* KENO.CELLS
  Draws,       \* KENO.DRAWS
  Grid,        \* values the hash behind a crash point or a limbo float can take
  Amounts,     \* what a jackpot entry or a miner can weigh
  Entries,     \* how many of them
  Digits,      \* values of a lottery digit
  Places,      \* LOTTERY_DIGITS
  MaxCards,    \* the longest blackjack hand
  Seats,       \* hands a blackjack deal log may name
  Deals,       \* cards in the log
  Tiers        \* the daily case's thresholds, in rolls of the last one

VARIABLES
  offer,       \* the bet
  table,       \* what it can pay: a sequence of [w |-> weight, c |-> multiplier]
  tally,       \* how many streams give each line of the offer's table
  probe,       \* the input of a lookup
  answer       \* its result

oddsVars == <<offer, table>>
Unquoted == <<>>

HouseEdge == 5
RTP == 100 - HouseEdge
DiceRTP == 99

\* C(n, k), multiplied out
Choose(n, k) == IF k < 0 \/ k > n THEN 0 ELSE FoldLeft(LAMBDA c, i : (c * (n - k + i)) \div i, 1, [i \in 1..k |-> i])

Total(s) == FoldLeft(LAMBDA sum, e : sum + e.w, 0, s)
Return(s) == FoldLeft(LAMBDA sum, e : sum + e.w * e.c, 0, s)
Paying(s) == SelectSeq(s, LAMBDA e : e.c > 0)
Lines(weights, cents) == [i \in DOMAIN weights |-> [w |-> weights[i], c |-> cents[i]]]
WinLose(w, total, c) == Lines(<<w, total - w>>, <<c, 0>>)

\* Rounded up instead.
RoundUp(a, b) == {(a + b - 1) \div b}

\* Math.floor(x * 100) / 100 of a / b hundredths
Floored(a, b) == IF a % b = 0 /\ a > 0 THEN {a \div b, (a \div b) - 1} ELSE {a \div b}

-----------------------------------------------------------------------------
(* One outcome pays.                                                       *)

\* The platform edge, on dice too.
DiceAtPlatformEdge(chance) == Floored(RTP * 100, chance)

DiceMultiplier(chance) == Floored(DiceRTP * 100, chance)

\* target is in percent; 1 is over.
Dice(target, mode) ==
  LET chance == IF mode = 1 THEN 100 - target ELSE target
  IN {WinLose(chance, 100, c) : c \in DiceMultiplier(chance)}

\* P(all picks safe) = C(cells - mines, picks) / C(cells, picks)
Mines(mines, picks) ==
  LET safe == Choose(MineCells - mines, picks)
      all == Choose(MineCells, picks)
  IN {WinLose(safe, all, c) : c \in Floored(RTP * all, safe)}

Tower(rows) == {WinLose(2 ^ rows, 3 ^ rows, c) : c \in Floored(RTP * 3 ^ rows, 2 ^ rows)}

\* hiloWinProbability: a tie wins for the chosen direction.
HiloWins(rank, direction) == IF direction = 1 THEN 13 - rank ELSE rank + 1
Hilo(rank, direction) ==
  LET wins == HiloWins(rank, direction)
  IN {WinLose(wins, 13, c) : c \in Floored(RTP * 13, wins)}

\* A cash-out after two guesses: the product of the step multipliers.
HiloTwice(rank, direction) ==
  {WinLose(s[1].w * s[1].w, 169, (s[1].c * s[1].c) \div 100) : s \in Hilo(rank, direction)}

Coinflip == {WinLose(1, 2, 2 * RTP)}

-----------------------------------------------------------------------------
(* Tables scaled to the RTP.                                               *)

\* Every entry of a shape times RTP / expected value, floored.  a * b \div c
\* in two steps of 256, which keeps it within TLC's integers.
MulDiv(a, b, c) ==
  LET high == (a * (b \div 256)) \div c
      rest == (a * (b \div 256)) % c
  IN 256 * high + (256 * rest + a * (b % 256)) \div c
Scaled(shape, weights) ==
  LET ev == Return(Lines(weights, shape))
      all == Total(Lines(weights, shape))
  IN Lines(weights, [i \in DOMAIN shape |->
       IF all < 256 THEN (shape[i] * RTP * all) \div ev ELSE MulDiv(shape[i] * RTP, all, ev)])

\* in tenths
WheelShape == <<0, 12, 15, 20, 30, 50>>
WheelWeights == <<32, 30, 14, 6, 3, 1>>
Segments == 86   \* their sum
Wheel == {Scaled(WheelShape, WheelWeights)}

PlinkoHalf(rows) ==
  CASE rows = 8  -> <<130, 30, 13, 7, 4>>
    [] rows = 12 -> <<330, 110, 40, 20, 11, 6, 3>>
    [] rows = 16 -> <<1100, 410, 100, 50, 30, 15, 10, 5, 10>>
PlinkoShape(rows) == PlinkoHalf(rows) \o Tail(Reverse(PlinkoHalf(rows)))
PlinkoWeights(rows) == [i \in 1..rows + 1 |-> Choose(rows, i - 1)]
Plinko(rows) == {Scaled(PlinkoShape(rows), PlinkoWeights(rows))}

\* risk 1, 2, 3: the smallest paying hit count is a share of the picks, and the
\* shape rises from there, here with whole powers for 1.2, 2.2 and 3.6.
MinHits(picks, risk) ==
  LET share == <<30, 45, 60>>[risk] * picks
      up == (share + 99) \div 100
  IN IF up < 1 THEN 1 ELSE up
KenoShape(picks, risk) ==
  [i \in 1..picks + 1 |-> IF i - 1 < MinHits(picks, risk) THEN 0 ELSE (i - MinHits(picks, risk)) ^ risk]
KenoHits(picks) == [i \in 1..picks + 1 |-> Choose(picks, i - 1) * Choose(Cells - picks, Draws + 1 - i)]
Keno(picks, risk) == {Scaled(KenoShape(picks, risk), KenoHits(picks))}

-----------------------------------------------------------------------------
(* Multipliers drawn from a hash: h is one of Grid values.                 *)

\* A target equal to the bust wins.
BeatsOrMeets(bust, target) == bust >= target

\* settle: a target equal to the bust loses.
Beats(bust, target) == bust > target

CrashPoint(h) == IF h % 20 = 0 THEN 100 ELSE (100 * Grid - h) \div (Grid - h)
Crash(target) ==
  {WinLose(Cardinality({h \in 0..Grid - 1 : Beats(CrashPoint(h), target)}), Grid, target)}

\* limboResult of u = h / Grid; a zero float is the ceiling.
LimboResult(h) == IF h = 0 THEN 100000000 ELSE IF RTP * Grid < 100 * h THEN 100 ELSE (RTP * Grid) \div h
LimboHolds(target, h) == LimboResult(h) >= target
Limbo(target) == {WinLose(Cardinality({h \in 0..Grid - 1 : LimboHolds(target, h)}), Grid, target)}

-----------------------------------------------------------------------------
(* Blackjack side bets: cards are drawn independently.                     *)

Ranks == 0..12
Suits == 0..3
Card == Ranks \X Suits

\* The ace only low.
AceOnlyLow(a, b, c) == \E r \in 0..10 : {a, b, c} = {r, r + 1, r + 2}

\* Ace is low or high.
IsStraightTriple(a, b, c) ==
  \/ \E r \in 0..10 : {a, b, c} = {r, r + 1, r + 2}
  \/ {a, b, c} = {0, 11, 12}

TwentyOnePlusThree(p1, p2, up) ==
  LET sameSuit == p1[2] = p2[2] /\ p2[2] = up[2]
      sameRank == p1[1] = p2[1] /\ p2[1] = up[1]
      straight == IsStraightTriple(p1[1], p2[1], up[1])
  IN CASE sameRank /\ sameSuit -> 10000
       [] straight /\ sameSuit -> 4000
       [] sameRank -> 3000
       [] straight -> 1000
       [] sameSuit -> 600
       [] OTHER -> 0

\* A pair of one suit is also of one colour: the better pays.
PerfectPairs(p1, p2) ==
  CASE p1[1] # p2[1] -> 0
    [] p1[2] = p2[2] -> 2500
    [] (p1[2] < 2) = (p2[2] < 2) -> 1200
    [] OTHER -> 600

\* By symmetry the first card is of the first suit.
Tally(values, of(_), deals) == Lines([i \in DOMAIN values |-> Cardinality({d \in deals : of(d) = values[i]})], values)
SideBets ==
  {Tally(<<10000, 4000, 3000, 1000, 600, 0>>, LAMBDA d : TwentyOnePlusThree(<<d[1], 0>>, d[2], d[3]), Ranks \X Card \X Card)}
PairBets == {Tally(<<2500, 1200, 600, 0>>, LAMBDA d : PerfectPairs(<<d[1], 0>>, d[2]), Ranks \X Card)}

-----------------------------------------------------------------------------
PayTables(o) ==
  CASE o[1] = "dice" -> Dice(o[2], o[3])
    [] o[1] = "mines" -> Mines(o[2], o[3])
    [] o[1] = "tower" -> Tower(o[2])
    [] o[1] = "hilo" -> Hilo(o[2], o[3])
    [] o[1] = "hilo2" -> HiloTwice(o[2], o[3])
    [] o[1] = "coinflip" -> Coinflip
    [] o[1] = "wheel" -> Wheel
    [] o[1] = "plinko" -> Plinko(o[2])
    [] o[1] = "keno" -> Keno(o[2], o[3])
    [] o[1] = "crash" -> Crash(o[2])
    [] o[1] = "limbo" -> Limbo(o[2])
    [] o[1] = "21+3" -> SideBets
    [] o[1] = "pairs" -> PairBets

Init == offer \in Offers /\ table = Unquoted

Quote ==
  /\ table = Unquoted
  /\ table' \in PayTables(offer)
  /\ UNCHANGED offer

Next == Quote
Spec == Init /\ [][Next]_oddsVars

-----------------------------------------------------------------------------
\* What GAME_RTP publishes for the game, of every `total` staked, in hundredths:
\* crash counts the early target too, where 1% of the edge is the strict >.
GameRTP(game, total) ==
  CASE game = "dice" -> DiceRTP * total
    [] game = "crash" -> (RTP * 99 * total) \div 100
    [] OTHER -> RTP * total

Quoted == table # Unquoted
Banked == Quoted /\ offer[1] \notin {"21+3", "pairs"}

\* The hash that decides a crash point or a limbo result falls on a grid.
Tolerance == IF offer[1] \in {"crash", "limbo"} THEN 2 * offer[2] ELSE 0

OddsTypeOK == \A i \in DOMAIN table : table[i].w \in Nat /\ table[i].c \in Nat

(* "Conservative - never overpays": whatever is chosen on the page, the     *)
(* chances of the outcomes times what they pay never add up to more than    *)
(* the published return, rounding included.                                 *)
NeverOverpays ==
  Banked => Return(table) <= GameRTP(offer[1], Total(table)) + Tolerance

(* "The marketing figure can never drift from the payout math": nor to less *)
(* than it but for the hundredths that are rounded away.                    *)
PublishedReturnKept ==
  Banked => Return(table) + 2 * Total(Paying(table)) + Tolerance >= GameRTP(offer[1], Total(table))

(* "Exact enumeration gives 21+3 EV = 0.9531 and Perfect Pairs EV =         *)
(* 0.9423": the side-bet tables return what their comment says.             *)
SideBetsAsStated ==
  LET rounded == (200 * Return(table) + Total(table)) \div (2 * Total(table))
  IN Quoted => /\ offer[1] = "21+3" => rounded = 9531
               /\ offer[1] = "pairs" => rounded = 9423

-----------------------------------------------------------------------------
(* The draws of packages/fair and its browser mirror fair-browser.ts, over *)
(* every stream of uniform floats, against the chances the payout tables   *)
(* count on; and the lookups that turn a draw into a winner, a bracket, a  *)
(* hand.  HMAC-SHA256 is the free choice of the floats.                    *)

drawVars == <<offer, table, tally, probe, answer>>

-----------------------------------------------------------------------------
(* The float stream and the shuffle.                                       *)

\* A step of two bytes.
HalfWord(at) == IF at.byte + 6 <= 32 THEN [at EXCEPT !.byte = @ + 2] ELSE [block |-> at.block + 1, byte |-> 0]

\* A word that starts anywhere in a block.
PastTheBlock(at) == IF at.byte + 4 <= 32 THEN [at EXCEPT !.byte = @ + 4] ELSE [block |-> at.block + 1, byte |-> 0]

\* Float i of a stream is bytes 4*(i%8).. of HMAC block i\div8.  As the generator
\* steps: after the last whole word of a block, the next block.
NextWord(at) == IF at.byte + 8 <= 32 THEN [at EXCEPT !.byte = @ + 4] ELSE [block |-> at.block + 1, byte |-> 0]
FloatStream(count) ==
  FoldLeft(LAMBDA out, i : Append(out, IF out = <<>> THEN [block |-> 0, byte |-> 0] ELSE NextWord(Last(out))),
           <<>>, [i \in 1..count |-> i])

\* What Math.floor(f * n) can be.  Each value is as likely as another, to 2^-32.
Floors(n) == 0..n - 1

\* Every step draws from all n cells.
UnshrunkStreams(n) == [1..n - 1 -> Floors(n)]

\* One choice for every step of the shuffle: n - k + 1 cells are left at step k.
ShuffleStreams(n) == {c \in [1..n - 1 -> Floors(n)] : \A k \in 1..n - 1 : c[k] \in Floors(n - k + 1)}

\* Fisher-Yates from the back.
Swap(a, p, q) == [a EXCEPT ![p] = a[q], ![q] = a[p]]
Shuffle(c, n) ==
  FoldLeft(LAMBDA a, k : Swap(a, n - k + 1, c[k] + 1), [i \in 1..n |-> i], [k \in 1..n - 1 |-> k])
FirstCells(a, m) == {a[i] : i \in 1..m}

MineField(c, mines) == FirstCells(Shuffle(c, MineCells), mines)
KenoDraw(c) == FirstCells(Shuffle(c, Cells), Draws)
Hits(picks, drawn) == Cardinality(picks \cap drawn)

\* Every row reads the first floats.
SameFloats(row, column) == column

\* The float of a step of a row: a row has as many floats as columns.
TowerFloat(row, column) == row * 3 + column

\* One of three columns of each row is a trap; a float is one of six here.
TowerStreams(rows) == [0..rows * 3 - 1 -> 0..5]
TowerTrap(floats, row) ==
  LET c == [k \in 1..2 |-> (floats[TowerFloat(row, k - 1)] * (4 - k)) \div 6]
  IN Shuffle(c, 3)[1]

PlinkoBin(path) == Cardinality({r \in DOMAIN path : path[r] = 1})
PlinkoLine(path) == 1 + PlinkoBin(path)

\* The bucket of a segment, by cumulative weight.
BucketAtMost(index) ==
  Min({b \in DOMAIN WheelWeights : index <= Total(Lines(SubSeq(WheelWeights, 1, b), WheelWeights))})
WheelBucket(index) ==
  Min({b \in DOMAIN WheelWeights : index < Total(Lines(SubSeq(WheelWeights, 1, b), WheelWeights))})

\* The guard of u near 1.
WheelSpin(u, segments) == IF u >= segments THEN segments - 1 ELSE u
WheelLine(u) == WheelBucket(WheelSpin(u, Segments))

CoinHeads(byte) == byte % 2 = 0

\* The next card of the committed sequence.
HiloCards == Floors(52)
CardRank(card) == card % 13
HiloHolds(rank, direction, next) == IF direction = 1 THEN next >= rank ELSE next <= rank

\* roll in 0..9999; under wins below the target, over at or above it.
DiceHolds(target, mode, roll) == IF mode = 1 THEN roll >= target * 100 ELSE roll < target * 100

-----------------------------------------------------------------------------
(* How many streams end in each line of the offer's pay table.             *)

Counted(streams, line(_), lines) == [i \in 1..lines |-> Cardinality({s \in streams : line(s) = i})]
WonOrLost(won) == IF won THEN 1 ELSE 2

DrawTally(o) ==
  CASE o[1] = "dice" -> Counted(Floors(10000), LAMBDA r : WonOrLost(DiceHolds(o[2], o[3], r)), 2)
    [] o[1] = "mines" ->
         Counted(ShuffleStreams(MineCells), LAMBDA c : WonOrLost(MineField(c, o[2]) \cap (1..o[3]) = {}), 2)
    [] o[1] = "keno" -> Counted(ShuffleStreams(Cells), LAMBDA c : 1 + Hits(1..o[2], KenoDraw(c)), o[2] + 1)
    [] o[1] = "tower" ->
         Counted(TowerStreams(o[2]), LAMBDA f : WonOrLost(\A r \in 0..o[2] - 1 : TowerTrap(f, r) # 1), 2)
    [] o[1] = "hilo" ->
         Counted(HiloCards, LAMBDA card : WonOrLost(HiloHolds(o[2], o[3], CardRank(card))), 2)
    [] o[1] = "plinko" -> Counted([1..o[2] -> {0, 1}], PlinkoLine, o[2] + 1)
    [] o[1] = "wheel" -> Counted(Floors(Segments), WheelLine, Len(WheelWeights))
    [] o[1] = "coinflip" -> Counted(Floors(256), LAMBDA byte : WonOrLost(CoinHeads(byte)), 2)

-----------------------------------------------------------------------------
(* Lookups.                                                                *)

Before(amounts, i) == FoldLeft(LAMBDA sum, a : sum + a, 0, SubSeq(amounts, 1, i - 1))
Pot(amounts) == Before(amounts, Len(amounts) + 1)

\* Ranges closed at both ends.
ClosedRanges(amounts) == [i \in DOMAIN amounts |-> [start |-> Before(amounts, i), end |-> Before(amounts, i) + amounts[i] + 1]]

JackpotRanges(amounts) == [i \in DOMAIN amounts |-> [start |-> Before(amounts, i), end |-> Before(amounts, i) + amounts[i]]]
JackpotHolders(amounts, ticket) ==
  LET r == JackpotRanges(amounts) IN {i \in DOMAIN r : ticket >= r[i].start /\ ticket < r[i].end}

\* The engine's walk of the miners' cumulative play-rate.
WeightedWinnerIndex(ticket, weights) ==
  LET past == {i \in DOMAIN weights : ticket < Before(weights, i + 1)}
  IN IF past = {} THEN Len(weights) ELSE Min(past)

\* A roll on the threshold wins the rarer tier.
TierAtMost(roll) ==
  LET above == {i \in DOMAIN Tiers : roll <= Tiers[i]} IN IF above = {} THEN Len(Tiers) ELSE Min(above)

PickCaseTier(roll) ==
  LET above == {i \in DOMAIN Tiers : roll < Tiers[i]} IN IF above = {} THEN Len(Tiers) ELSE Min(above)

\* Digits that match anywhere.
MatchAnywhere(ticket, draw) == Cardinality({i \in 1..Places : ticket[i] = draw[i]})

LeadingMatch(ticket, draw) ==
  FoldLeft(LAMBDA m, i : IF m = i - 1 /\ ticket[i] = draw[i] THEN m + 1 ELSE m, 0, [i \in 1..Places |-> i])
NoBracket == Places
Bracket(matched) == IF matched < 1 THEN NoBracket ELSE matched - 1

\* An ace is 1 here; the code counts 11 and takes ten off while the hand busts.
HardTotal(cards) == FoldLeft(LAMBDA sum, c : sum + c, 0, cards)
AcesIn(cards) == Len(SelectSeq(cards, LAMBDA c : c = 1))

\* Every ace of a hand that would bust goes down at once.
AllDown(cards) ==
  LET high == HardTotal(cards) + 10 * AcesIn(cards)
  IN IF high > 21 THEN [total |-> HardTotal(cards), soft |-> FALSE] ELSE [total |-> high, soft |-> AcesIn(cards) > 0]

HandValue(cards) ==
  FoldLeft(LAMBDA h, a : IF h.total > 21 THEN [total |-> h.total - 10, soft |-> a < AcesIn(cards)] ELSE h,
           [total |-> HardTotal(cards) + 10 * AcesIn(cards), soft |-> AcesIn(cards) > 0],
           [a \in 1..AcesIn(cards) |-> a])

\* drawCard: position i of the stream goes to owners[i], and the log says so.
DealLog(owners) == [i \in DOMAIN owners |-> [deckIndex |-> i - 1, hand |-> owners[i]]]
HandDealt(owners, h) == SelectSeq([i \in DOMAIN owners |-> i - 1], LAMBDA i : owners[i + 1] = h)

\* In the order of the log.
AsLogged(log) == log

ByDeckIndex(log) == SortSeq(log, LAMBDA a, b : a.deckIndex < b.deckIndex)
ReproducedHand(log, h) ==
  LET own == SelectSeq(ByDeckIndex(log), LAMBDA e : e.hand = h) IN [i \in DOMAIN own |-> own[i].deckIndex]

\* A log may be read in any order; here, rotated.
Rotated(log, k) == [i \in DOMAIN log |-> log[((i + k - 1) % Len(log)) + 1]]

-----------------------------------------------------------------------------
Probes ==
  {<<"entries", a>> : a \in [1..Entries -> Amounts]}
  \cup {<<"ticket", t, d>> : t \in [1..Places -> Digits], d \in [1..Places -> Digits]}
  \cup UNION {{<<"hand", c>> : c \in [1..n -> 1..10]} : n \in 1..MaxCards}
  \cup {<<"deal", owners, k>> : owners \in [1..Deals -> Seats], k \in 0..Deals - 1}
  \cup {<<"case">>} \cup {<<"floats", n>> : n \in 1..25}

Answer(p) ==
  CASE p[1] = "entries" -> [t \in 0..Pot(p[2]) - 1 |-> <<JackpotHolders(p[2], t), WeightedWinnerIndex(t, p[2])>>]
    [] p[1] = "ticket" -> Bracket(LeadingMatch(p[2], p[3]))
    [] p[1] = "hand" -> HandValue(p[2])
    [] p[1] = "deal" -> [h \in Seats |-> ReproducedHand(Rotated(DealLog(p[2]), p[3]), h)]
    [] p[1] = "case" -> Counted(Floors(Last(Tiers)), PickCaseTier, Len(Tiers))
    [] p[1] = "floats" -> FloatStream(p[2])

DrawInit ==
  /\ tally = <<>> /\ answer = <<>> /\ table = Unquoted
  /\ \/ offer \in Offers /\ probe = <<>>
     \/ offer = <<>> /\ probe \in Probes

\* The page's quote, then every draw that could follow.
Draw ==
  /\ offer # <<>> /\ tally = <<>>
  /\ table' \in PayTables(offer)
  /\ tally' = DrawTally(offer)
  /\ UNCHANGED <<offer, probe, answer>>

Look ==
  /\ probe # <<>> /\ answer = <<>>
  /\ answer' = <<Answer(probe)>>
  /\ UNCHANGED <<offer, table, tally, probe>>

DrawNext == Draw \/ Look
DrawSpec == DrawInit /\ [][DrawNext]_drawVars

-----------------------------------------------------------------------------
Result == answer[1]
Asked(kind) == answer # <<>> /\ probe[1] = kind

DrawTypeOK ==
  /\ OddsTypeOK
  /\ \A i \in DOMAIN tally : tally[i] \in Nat
  /\ Asked("hand") => Result.total \in Nat
  /\ Asked("floats") => \A i \in 1..probe[2] : Result[i].block \in Nat /\ Result[i].byte + 4 <= 32

(* The games pay what they draw: over every stream of floats, each line of  *)
(* an offer's pay table comes up exactly as often, relative to the others,  *)
(* as the weight its multiplier was computed from - whatever the shuffle,   *)
(* the bucket walk, the tie rule or the row's share of the stream does.     *)
DrawsMatchTables ==
  tally # <<>> => \A i, j \in DOMAIN table : tally[i] * table[j].w = tally[j] * table[i].w

(* A ticket below the pot has exactly one holder, an entry holds as many    *)
(* tickets as it paid, and the block draw's walk names the same miner.      *)
TicketsProportional ==
  Asked("entries") =>
    /\ \A t \in DOMAIN Result : Result[t][1] = {Result[t][2]}
    /\ \A i \in 1..Entries : Cardinality({t \in DOMAIN Result : i \in Result[t][1]}) = probe[2][i]

(* A ticket wins the one bracket of the longest prefix it shares with the   *)
(* draw, and none without a first digit.                                    *)
LongestPrefixWins ==
  Asked("ticket") =>
    \A m \in 0..Places :
      (\A i \in 1..m : probe[2][i] = probe[3][i]) /\ (m < Places => probe[2][m + 1] # probe[3][m + 1])
        => Result = (IF m = 0 THEN NoBracket ELSE m - 1)

(* The greedy downgrade of aces finds the best total: the largest that does *)
(* not bust, else the smallest; soft exactly when an ace still counts 11.   *)
BestHandCounted ==
  Asked("hand") =>
    LET ways == {a \in 0..AcesIn(probe[2]) : HardTotal(probe[2]) + 10 * a <= 21}
    IN IF ways = {} THEN Result.total = HardTotal(probe[2]) /\ ~Result.soft
       ELSE Result.total = HardTotal(probe[2]) + 10 * Max(ways) /\ Result.soft = (Max(ways) > 0)

(* "Out-of-order logs still reproduce the real deal sequence": every hand   *)
(* comes back card for card, splits and the dealer included.                *)
RoundReproduced == Asked("deal") => \A h \in Seats : Result[h] = HandDealt(probe[2], h)

(* A tier's share of the rolls is its threshold less the one before it, the *)
(* odds the case's page shows.                                              *)
CaseOddsAsShown ==
  Asked("case") => \A i \in DOMAIN Tiers : Result[i] = Tiers[i] - (IF i = 1 THEN 0 ELSE Tiers[i - 1])

(* No byte of the HMAC stream is part of two floats.                       *)
FloatsDistinct ==
  Asked("floats") => \A i, j \in 1..probe[2] :
    i # j /\ Result[i].block = Result[j].block => Result[i].byte + 4 <= Result[j].byte \/ Result[j].byte + 4 <= Result[i].byte
=============================================================================
