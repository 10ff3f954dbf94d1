----------------------------- MODULE InstantGames -----------------------------
(***************************************************************************)
(* The house-banked games a player plays alone: the instant ones, settled  *)
(* in one transaction (apps/api/src/games/instant/instant-settle.ts), and  *)
(* the stateful ones, Mines, Hi-Lo and Tower, whose round the player       *)
(* drives step by step (apps/api/src/games/instant/stateful-round.ts).     *)
(* Both draw their outcome from the player's rotating seed pair            *)
(* (apps/api/src/fairness/seed-manager.service.ts): the client seed the    *)
(* player chose, a nonce, the active server seed, secret until rotated,    *)
(* and the next one, already committed to.  A player's server seeds are    *)
(* numbered in the order they are committed to, so the seed after k is     *)
(* k + 1; no two minted seeds are equal.                                   *)
(*                                                                         *)
(* With the shared randomness program live, the seed is reserved first,    *)
(* a round of the program publishes it and answers with entropy, and only  *)
(* then is the wager settled: three steps of one request, between which    *)
(* other requests, the player's own seed changes and a crash may fall.     *)
(***************************************************************************)
EXTENDS PlayerAccount, Sequences, FiniteSets

CONSTANTS
  ClientSeeds,  \* what a player may type
  Generated,    \* the client seed minted at first use
  NoPair,       \* no ClientSeed row yet
  Games,        \* stateful games in play, among "mines", "hilo" and "tower"
  Stake,
  Limit,        \* safe tiles, cards or rows of a round
  MinesMult, TowerMult,  \* payout in percent after k safe steps
  HiloSteps,    \* step multipliers of a Hi-Lo guess, in percent
  Multipliers,  \* payouts of an instant game, in percent
  Requests,     \* wagers that can be in flight at once in on-chain mode
  RngModes,     \* OnchainRngService.live as the process found it at boot
  RepeatSeeds,  \* whether a player types a client seed a second time
  MaxWagers,    \* bound on the wagers of a behaviour
  MaxNonce,     \* bound on the nonce of a seed pair
  MaxServer     \* bound on the server seeds of a player

ASSUME InstantAssumption ==
  /\ Games \subseteq {"mines", "hilo", "tower"}
  /\ Stake \in Nat \ {0} /\ Limit \in Nat \ {0}
  /\ MinesMult \in [1 .. Limit -> Nat] /\ TowerMult \in [1 .. Limit -> Nat]
  /\ HiloSteps \subseteq Nat /\ Multipliers \subseteq Nat
  /\ RngModes \subseteq BOOLEAN /\ RepeatSeeds \in BOOLEAN
  /\ MaxWagers \in Nat /\ MaxNonce \in Nat /\ MaxServer \in Nat \ {0}

VARIABLES
  pair,       \* ClientSeed row of each player
  published,  \* server seeds the world has seen, as <<user, number>>
  rounds,     \* InstantRound rows, and the Bet rows of instant games, in order
  live,       \* the randomness program is deployed
  req         \* requests between their reservation and their transaction

seedVars == <<pair, published>>
vars == <<accountVars, seedVars, rounds, live, req>>

-----------------------------------------------------------------------------
(* The seed pair. *)

Pairs == [server : Nat \ {0}, client : ClientSeeds \cup {Generated}, nonce : Nat]
Contexts == [user : Users, server : Nat \ {0},
             client : ClientSeeds \cup {Generated}, nonce : Nat]

ASSUME NoPairAssumption == NoPair \notin Pairs

SeedTypeOK ==
  /\ pair \in [Users -> Pairs \cup {NoPair}]
  /\ published \subseteq Users \X (Nat \ {0})

SeedInit ==
  /\ pair = [u \in Users |-> NoPair]
  /\ published = {}

\* getOrCreateActivePair: the pair, minted at first use; when two requests race to
\* create the row, the loser reads the winner's.
ActivePair(u) ==
  IF pair[u] = NoPair THEN [server |-> 1, client |-> Generated, nonce |-> 0] ELSE pair[u]

\* Mutant: the nonce is read, not incremented.
ReadNonce(u) == ActivePair(u)

\* consumeNonce, reserveSeedContext: one UPDATE increments the nonce and returns
\* the row.
BumpNonce(u) == [ActivePair(u) EXCEPT !.nonce = @ + 1]

\* What a wager's outcome is derived from.
Context(u) ==
  LET p == BumpNonce(u) IN
  [user |-> u, server |-> p.server, client |-> p.client, nonce |-> p.nonce]

\* setClientSeed: any seed, and the nonce starts over.
SetClientSeed(u, c) ==
  /\ pair' = [pair EXCEPT ![u] = [ActivePair(u) EXCEPT !.client = c, !.nonce = 0]]
  /\ UNCHANGED published

\* Mutant: the seed is revealed whatever is in progress.
RotateAnyTime(u, inProgress) ==
  /\ pair' = [pair EXCEPT ![u] = [ActivePair(u) EXCEPT !.server = @ + 1, !.nonce = 0]]
  /\ published' = published \cup {<<u, ActivePair(u).server>>}

\* rotateServerSeed: refused while a stateful round of the player is in progress;
\* otherwise the active seed is revealed and the committed one takes its place.
RotateServerSeed(u, inProgress) ==
  /\ ~inProgress
  /\ pair' = [pair EXCEPT ![u] = [ActivePair(u) EXCEPT !.server = @ + 1, !.nonce = 0]]
  /\ published' = published \cup {<<u, ActivePair(u).server>>}

-----------------------------------------------------------------------------
(* Rounds and requests. *)

Idle == [pc |-> "idle"]
Kinds == Games \cup {"instant"}

RoundRows == [user : Users, game : Kinds, ctx : Contexts, steps : 0 .. Limit,
              entropy : BOOLEAN, mult : Nat, status : {"active", "won", "lost"}]
Pending == [pc : {"reserved", "anchored"}, game : Kinds, ctx : Contexts, entropy : BOOLEAN]

TypeOK ==
  /\ AccountTypeOK /\ SeedTypeOK
  /\ live \in BOOLEAN
  /\ rounds \in Seq(RoundRows)
  /\ req \in [Requests -> [pc : {"idle"}] \cup Pending]

Init ==
  /\ AccountInit /\ SeedInit
  /\ rounds = <<>>
  /\ live \in RngModes
  /\ req = [q \in Requests |-> Idle]

Active(u) == {i \in DOMAIN rounds : rounds[i].user = u /\ rounds[i].status = "active"}
InFlight == {q \in Requests : req[q].pc # "idle"}

-----------------------------------------------------------------------------
\* The seed pair, changed by the player at any time.

\* Contexts of this server seed that a wager has used or will use.
SpentUnder(u) ==
  {c \in {rounds[i].ctx : i \in DOMAIN rounds} \cup {req[q].ctx : q \in InFlight} :
     c.user = u /\ c.server = ActivePair(u).server}

ChooseClientSeed(u, c) ==
  /\ RepeatSeeds \/ c \notin {d.client : d \in SpentUnder(u)}
  /\ SetClientSeed(u, c)
  /\ UNCHANGED <<accountVars, rounds, live, req>>

Rotate(u) ==
  /\ ActivePair(u).server < MaxServer
  /\ RotateServerSeed(u, Active(u) # {})
  /\ UNCHANGED <<accountVars, rounds, live, req>>

-----------------------------------------------------------------------------
Payout(mult) == (Stake * mult) \div 100

Outcome(mult) == IF Payout(mult) > Stake THEN "won" ELSE "lost"

\* settleInstantBet's transaction: debit, derive, credit, count, and the Bet row.
SettleInstant(u, ctx, entropy, mult) ==
  /\ CanDebit(u, Stake)
  /\ bal' = [bal EXCEPT ![u] = @ - Stake + Payout(mult)]
  /\ Tally(u, Payout(mult), Stake)
  /\ rounds' = Append(rounds, [user |-> u, game |-> "instant", ctx |-> ctx, steps |-> 0,
                               entropy |-> entropy, mult |-> mult, status |-> Outcome(mult)])

\* One active round per player and game (partial unique index).
MayOpen(u, g) == ~\E i \in Active(u) : rounds[i].game = g

\* startStatefulRound's transaction: debit, derive the hidden field, and the row;
\* nothing is payable before the first safe step.
OpenRound(u, g, ctx, entropy) ==
  /\ MayOpen(u, g)
  /\ CanDebit(u, Stake)
  /\ bal' = [bal EXCEPT ![u] = @ - Stake]
  /\ rounds' = Append(rounds, [user |-> u, game |-> g, ctx |-> ctx, steps |-> 0,
                               entropy |-> entropy, mult |-> 0, status |-> "active"])
  /\ UNCHANGED <<totalWon, totalLost>>

Enter(u, g, ctx, entropy) ==
  \/ g = "instant" /\ \E m \in Multipliers : SettleInstant(u, ctx, entropy, m)
  \/ g # "instant" /\ OpenRound(u, g, ctx, entropy)

Room(u) ==
  /\ Len(rounds) + Cardinality(InFlight) < MaxWagers
  /\ ActivePair(u).nonce < MaxNonce

\* Off-chain: the transaction consumes the nonce itself.
Wager(u, g) ==
  /\ ~live /\ Room(u)
  /\ pair' = [pair EXCEPT ![u] = BumpNonce(u)]
  /\ Enter(u, g, Context(u), FALSE)
  /\ UNCHANGED <<published, live, req>>

-----------------------------------------------------------------------------
\* On-chain: reserveSeedContext, outside any transaction.
Reserve(q, u, g) ==
  /\ live /\ Room(u) /\ req[q].pc = "idle"
  /\ pair' = [pair EXCEPT ![u] = BumpNonce(u)]
  /\ req' = [req EXCEPT ![q] =
       [pc |-> "reserved", game |-> g, ctx |-> Context(u), entropy |-> FALSE]]
  /\ UNCHANGED <<accountVars, published, rounds, live>>

\* roundEntropy answers null: the round could not be opened, its slot never came,
\* or (landed) settle_round published the seed and its answer was lost.
EntropyFails(q, landed) ==
  /\ req[q].pc = "reserved"
  /\ req' = [req EXCEPT ![q] = [@ EXCEPT !.pc = "anchored"]]
  /\ published' = IF landed THEN published \cup {<<req[q].ctx.user, req[q].ctx.server>>}
                  ELSE published
  /\ UNCHANGED <<accountVars, pair, rounds, live>>

\* roundEntropy: settle_round reveals the seed and answers with the entropy.
EntropyArrives(q) ==
  /\ req[q].pc = "reserved"
  /\ req' = [req EXCEPT ![q] = [@ EXCEPT !.pc = "anchored", !.entropy = TRUE]]
  /\ published' = published \cup {<<req[q].ctx.user, req[q].ctx.server>>}
  /\ UNCHANGED <<accountVars, pair, rounds, live>>

\* The transaction, against the reserved context.
EnterReserved(q) ==
  /\ req[q].pc = "anchored"
  /\ Enter(req[q].ctx.user, req[q].game, req[q].ctx, req[q].entropy)
  /\ req' = [req EXCEPT ![q] = Idle]
  /\ UNCHANGED <<pair, published, live>>

\* The request is refused (balance, a round in progress, limits) or its process
\* dies: the nonce stays spent.
Abandon(q) ==
  /\ req[q].pc # "idle"
  /\ req' = [req EXCEPT ![q] = Idle]
  /\ UNCHANGED <<accountVars, seedVars, rounds, live>>

-----------------------------------------------------------------------------
\* The apply callbacks: what one more step of an active round can lead to.
Bust == [over |-> TRUE, mult |-> 0]
Safe(r, mult) == [over |-> r.steps + 1 >= Limit, mult |-> mult]

\* mines.service pick: a bomb, or a safe tile; the last safe tile cashes out.
MinesPick(r) == {Bust, Safe(r, MinesMult[r.steps + 1])}

\* hilo.service guess: the multiplier is the product of the steps', floored.
HiloGuess(r) ==
  LET cum == IF r.steps = 0 THEN 100 ELSE r.mult IN
  {Bust} \cup {Safe(r, (cum * s) \div 100) : s \in HiloSteps}

\* tower.service pick: a trap, or the next row; the top row cashes out.
TowerPick(r) == {Bust, Safe(r, TowerMult[r.steps + 1])}

Picks(r) ==
  CASE r.game = "mines" -> MinesPick(r)
    [] r.game = "hilo"  -> HiloGuess(r)
    [] r.game = "tower" -> TowerPick(r)

\* Mutant: the round is settled without looking at its status again.
NeverRefused(r) == TRUE

\* advanceStatefulRound re-reads the round in its transaction and refuses one that
\* is no longer active.
Refusable(r) == r.status = "active"

\* The terminal step: pay, count, and close the round.
Settle(i, steps, mult) ==
  LET u == rounds[i].user IN
  /\ bal' = [bal EXCEPT ![u] = @ + Payout(mult)]
  /\ Tally(u, Payout(mult), Stake)
  /\ rounds' = [rounds EXCEPT ![i] =
       [@ EXCEPT !.steps = steps, !.mult = mult, !.status = Outcome(mult)]]

Advance(i) ==
  LET r == rounds[i] IN
  /\ r.game # "instant" /\ Refusable(r) /\ r.steps < Limit
  /\ \E step \in Picks(r) :
       \/ /\ step.over
          /\ Settle(i, IF step = Bust THEN r.steps ELSE r.steps + 1, step.mult)
       \/ /\ ~step.over
          /\ rounds' = [rounds EXCEPT ![i] =
               [@ EXCEPT !.steps = r.steps + 1, !.mult = step.mult]]
          /\ UNCHANGED accountVars
  /\ UNCHANGED <<seedVars, live, req>>

\* cashout: at least one safe step, at the multiplier reached.
CashOut(i) ==
  LET r == rounds[i] IN
  /\ r.game # "instant" /\ Refusable(r) /\ r.steps >= 1
  /\ Settle(i, r.steps, r.mult)
  /\ UNCHANGED <<seedVars, live, req>>

Next ==
  \/ \E u \in Users, c \in ClientSeeds : ChooseClientSeed(u, c)
  \/ \E u \in Users : Rotate(u)
  \/ \E u \in Users, g \in Kinds : Wager(u, g)
  \/ \E q \in Requests, u \in Users, g \in Kinds : Reserve(q, u, g)
  \/ \E q \in Requests, landed \in BOOLEAN : EntropyFails(q, landed)
  \/ \E q \in Requests : EntropyArrives(q) \/ EnterReserved(q) \/ Abandon(q)
  \/ \E i \in DOMAIN rounds : Advance(i) \/ CashOut(i)

Spec == Init /\ [][Next]_vars

-----------------------------------------------------------------------------
(* Every lamport is accounted for: a player's balance is what they started *)
(* with, plus what the settled wagers won and less what they lost, less    *)
(* the stakes of the rounds in progress.  A step and a cash-out that race, *)
(* or a start that loses the race to another, neither pay nor charge twice *)
(* (stateful-round.ts:24-27).                                              *)
BooksBalance ==
  \A u \in Users :
    bal[u] = Funds + totalWon[u] - totalLost[u] - Stake * Cardinality(Active(u))

(* No player can know the hidden field of a round in progress: the server  *)
(* seed it was built from has not been revealed, whatever the player does  *)
(* to the seed pair meanwhile (seed-manager.service.ts:106-110).  This is  *)
(* the promise of off-chain mode; on-chain, settle_round publishes the     *)
(* active seed by design of the program.                                   *)
FieldStaysSecret ==
  ~live => \A u \in Users : \A i \in Active(u) :
             <<u, rounds[i].ctx.server>> \notin published

(* No two wagers are derived from the same server seed, client seed and    *)
(* nonce, across both settlement paths, with reservations left unused and  *)
(* the pair changed between a reservation and its transaction              *)
(* (seed-manager.service.ts:141-145), as long as the player types a client *)
(* seed once per server seed.                                              *)
FreshDraws ==
  \A i, j \in DOMAIN rounds : i # j => rounds[i].ctx # rounds[j].ctx
=============================================================================
