---------------------------- MODULE MCFairness -----------------------------
(***************************************************************************)
(* What a player can check: instant games with their seed pairs, the       *)
(* payout tables, the draws, the verifier page and the on-chain randomness *)
(* rounds, the crash page, and the edge with its budget. They share no     *)
(* state, so a behaviour runs one of them (`topic'); the instant games     *)
(* stay in their initial state in the others.                              *)
(***************************************************************************)
EXTENDS InstantGames, TLC

CONSTANTS
  OddsMineCells, OddsCells, OddsDraws, Grid,
  DrawMineCells, DrawCells, DrawDraws, Amounts, Entries, Digits, Places, MaxCards, Seats,
  Deals,
  Rounds, VerifiedGames, Params, DefaultParam, Links, RelayFails,
  MaxSlot, Window, Hashes, RngRequests, RoundIds, Offset,
  ScreenWindows, MaxRounds, MaxDrops,
  Visitors, Cap, DayLength, Attempts, SweepTime, EdgeWindows, MaxTime, MaxWakes, MaxLosses

VARIABLES
  topic,
  offer, table,
  tally, probe, answer,
  settled, form, asked, check,
  shown,
  slot, hash, round, call, flight, landed,
  srv, result, wire, sent, connected, seq, heard, snaps, interrupted, panel, myRounds,
  auto, told, missed, drops,
  now, box, budget, due, visit, sweep, ran, charged, wakes, losses, cut

drawsVars == <<tally, probe, answer>>
verifierVars == <<settled, form, asked, check>>
rngVars == <<slot, hash, round, call, flight, landed>>
pageVars ==
  <<srv, result, wire, sent, connected, seq, heard, snaps, interrupted, panel, myRounds,
    auto, told, missed, drops>>
edgeVars == <<now, box, budget, due, visit, sweep, ran, charged, wakes, losses, cut>>
fairVars ==
  <<topic, vars, offer, table, drawsVars, verifierVars, shown, rngVars, pageVars, edgeVars>>

\* The payouts of small rounds, in percent: a first safe step pays less than the
\* stake, as in Mines with one bomb.
MCMinesMult == <<96, 150>>
MCTowerMult == <<142, 213>>
MCHiloSteps == {95, 190}
MCMultipliers == {0, 190}

\* Every bet the instant games and the tables offer.
AllOffers ==
  ({"dice"} \X (2..98) \X {0, 1}) \cup ({"tower"} \X (1..8) \X {0})
  \cup {o \in {"mines"} \X (1..24) \X (1..24) : o[2] + o[3] <= 25}
  \cup ({"hilo"} \X (0..12) \X {0, 1}) \cup ({"plinko"} \X {8, 12, 16} \X {0})
  \cup ({"wheel", "coinflip", "21+3", "pairs"} \X {0} \X {0})
  \cup ({"keno"} \X (1..5) \X (1..3)) \cup ({"crash", "limbo"} \X {101, 150, 200, 333, 1000} \X {0})

\* The ones whose draws are few enough to count.
SmallOffers ==
  ({"dice"} \X {2, 50, 98} \X {0, 1}) \cup ({"tower"} \X {1, 2} \X {0})
  \cup {o \in {"mines"} \X (1..4) \X (1..4) : o[2] + o[3] <= 5}
  \cup ({"hilo"} \X {0, 3, 12} \X {0, 1}) \cup ({"plinko"} \X {8, 12} \X {0})
  \cup ({"wheel", "coinflip"} \X {0} \X {0}) \cup ({"keno"} \X {1, 2} \X (1..3))

TierScale == <<1, 10, 100, 1000>>

Odds == INSTANCE GameOdds WITH
  Tiers <- TierScale, Offers <- AllOffers, MineCells <- OddsMineCells, Cells <- OddsCells,
  Draws <- OddsDraws
Fair == INSTANCE GameOdds WITH
  Offers <- SmallOffers, MineCells <- DrawMineCells, Cells <- DrawCells,
  Draws <- DrawDraws, Grid <- 1, Tiers <- TierScale
Verify == INSTANCE Verifier WITH
  Games <- VerifiedGames
Rng == INSTANCE RngRounds WITH
  Requests <- RngRequests
Page == INSTANCE CrashClient
Edge == INSTANCE EdgeWorker

Off == "off"
OddsDrawsOff == offer = Off /\ table = Off
DrawsOff == tally = Off /\ probe = Off /\ answer = Off
VerifierOff == settled = Off /\ form = Off /\ asked = Off /\ check = Off
RngOff == slot = Off /\ hash = Off /\ round = Off /\ call = Off /\ flight = Off /\ landed = Off
PageOff ==
  /\ srv = Off /\ result = Off /\ wire = Off /\ sent = Off /\ connected = Off /\ seq = Off
  /\ heard = Off /\ snaps = Off /\ interrupted = Off /\ panel = Off /\ myRounds = Off
  /\ auto = Off /\ told = Off /\ missed = Off /\ drops = Off
EdgeOff ==
  /\ now = Off /\ box = Off /\ budget = Off /\ due = Off /\ visit = Off /\ sweep = Off
  /\ ran = Off /\ charged = Off /\ wakes = Off /\ losses = Off /\ cut = Off

FairInit ==
  \/ /\ topic = "instant" /\ Init /\ OddsDrawsOff /\ DrawsOff /\ VerifierOff
     /\ shown = Off /\ RngOff /\ PageOff /\ EdgeOff
  \/ /\ topic = "odds" /\ Init /\ live /\ Odds!Init /\ DrawsOff /\ VerifierOff
     /\ shown = Off /\ RngOff /\ PageOff /\ EdgeOff
  \/ /\ topic = "draws" /\ Init /\ live /\ Fair!DrawInit /\ VerifierOff /\ shown = Off
     /\ RngOff /\ PageOff /\ EdgeOff
  \/ /\ topic = "verifier" /\ Init /\ live /\ Verify!VInit /\ OddsDrawsOff /\ DrawsOff
     /\ RngOff /\ PageOff /\ EdgeOff
  \/ /\ topic = "rng" /\ Init /\ live /\ Rng!Init /\ OddsDrawsOff /\ DrawsOff
     /\ VerifierOff /\ shown = Off /\ PageOff /\ EdgeOff
  \/ /\ topic = "page" /\ Init /\ live /\ Page!CrashClientInit /\ OddsDrawsOff /\ DrawsOff
     /\ VerifierOff /\ RngOff /\ EdgeOff
  \/ /\ topic = "edge" /\ Init /\ live /\ Edge!EdgeInit /\ OddsDrawsOff /\ DrawsOff
     /\ VerifierOff /\ shown = Off /\ RngOff /\ PageOff

FairNext ==
  \/ /\ topic = "instant" /\ Next
     /\ UNCHANGED <<topic, offer, table, drawsVars, verifierVars, shown, rngVars, pageVars, edgeVars>>
  \/ /\ topic = "odds" /\ Odds!Next
     /\ UNCHANGED <<topic, vars, drawsVars, verifierVars, shown, rngVars, pageVars, edgeVars>>
  \/ /\ topic = "draws" /\ Fair!DrawNext
     /\ UNCHANGED <<topic, vars, verifierVars, shown, rngVars, pageVars, edgeVars>>
  \/ /\ topic = "verifier" /\ Verify!VNext
     /\ UNCHANGED <<topic, vars, offer, table, drawsVars, rngVars, pageVars, edgeVars>>
  \/ /\ topic = "rng" /\ Rng!Next
     /\ UNCHANGED <<topic, vars, offer, table, drawsVars, verifierVars, shown, pageVars, edgeVars>>
  \/ /\ topic = "page" /\ Page!CrashClientNext
     /\ UNCHANGED <<topic, vars, offer, table, drawsVars, verifierVars, rngVars, edgeVars>>
  \/ /\ topic = "edge" /\ Edge!EdgeNext
     /\ UNCHANGED <<topic, vars, offer, table, drawsVars, verifierVars, shown, rngVars, pageVars>>

FairSpec == FairInit /\ [][FairNext]_fairVars

\* Client seeds and requests are interchangeable, and so are rounds, hashes and round ids.
\* The topics share model values, as no behaviour runs two of them.
Alike == Permutations(ClientSeeds) \cup Permutations(Requests) \cup Permutations(Hashes)

-----------------------------------------------------------------------------
(* The odds, the multipliers and the draws of every game agree: the side   *)
(* bets of blackjack pay what their tables say; no offer returns more than *)
(* is staked on it; a game returns what the site says it does (GameOdds);  *)
(* the draws of a game have the odds its table is computed from; a jackpot *)
(* entry wins in proportion to its amount; a ticket is paid for its        *)
(* longest matching prefix; a hand counts as the best total it can have; a *)
(* blackjack round is reproduced from what it reveals; a case tier has the *)
(* odds it is shown with; no two floats of a round use the same bytes      *)
(* (GameOdds).                                                             *)
TablesMatchDraws ==
  /\ topic = "odds" =>
       /\ Odds!OddsTypeOK
       /\ Odds!SideBetsAsStated
       /\ Odds!NeverOverpays
       /\ Odds!PublishedReturnKept
  /\ topic = "draws" =>
       /\ Fair!DrawTypeOK
       /\ Fair!DrawsMatchTables
       /\ Fair!TicketsProportional
       /\ Fair!LongestPrefixWins
       /\ Fair!BestHandCounted
       /\ Fair!RoundReproduced
       /\ Fair!CaseOddsAsShown
       /\ Fair!FloatsDistinct

(* The verifier page: a fair round checks out on the page; a tampered      *)
(* round does not (Verifier).                                              *)
VerifierTruthful ==
  /\ topic = "verifier" =>
       /\ Verify!VerifierTypeOK
       /\ Verify!HonestRoundsVerify
       /\ Verify!TamperingShows

(* The on-chain rounds: the hash of a round is fixed before anyone knows   *)
(* it; the entropy a game uses is the one on chain (RngRounds).            *)
RngRoundsFair ==
  /\ topic = "rng" => Rng!TypeOK /\ Rng!EntropyNotChosen /\ Rng!AnswerIsOnChain

(* What the site shows, counts and pays for: a page that is owed nothing   *)
(* shows the server's round; a round that ended unseen is reported; the    *)
(* auto-bet loop counts what its bet came to (CrashClient); a container    *)
(* that runs has a heartbeat; its time is charged, midnight or not; the    *)
(* budget never cuts a sweep; a failed request leaves no stale view of the *)
(* container (EdgeWorker).                                                 *)
SiteTruthful ==
  /\ topic = "page" =>
       /\ Page!CrashClientTypeOK
       /\ Page!ScreenCatchesUp
       /\ Page!NoBetVanishes
       /\ Page!AutoOutcomeTrue
  /\ topic = "edge" =>
       /\ Edge!EdgeTypeOK
       /\ Edge!RunningIsWatched
       /\ Edge!HonestTotal
       /\ Edge!SweepNeverCut
       /\ Edge!DesyncRecovered

(* What no step of the page does: no step takes the screen back to an      *)
(* earlier round (CrashClient).                                            *)
SiteStepsHeld ==
  /\ topic = "page" => Page!NeverBack
SiteSteps == [][SiteStepsHeld]_fairVars
=============================================================================
