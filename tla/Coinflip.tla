------------------------------- MODULE Coinflip -------------------------------
(***************************************************************************)
(* Coinflip (apps/api/src/games/coinflip) and the blocks of the            *)
(* responsible-gambling service that reach into it                         *)
(* (apps/api/src/responsible-gambling/rg.service.ts).                      *)
(*                                                                         *)
(* A creator locks a stake; a second player, or the house at the creator's *)
(* request, takes the other side; an unjoined flip is cancelled by its     *)
(* creator, by the expiry sweep, or by a self-exclusion.  The create and   *)
(* join transactions run at READ COMMITTED: what they read first and what  *)
(* they write later are separate steps, between which anything commits     *)
(* that their row locks do not stop.                                       *)
(***************************************************************************)
EXTENDS PlayerAccount, FiniteSets

CONSTANTS
  Creators, Joiners,  \* bound: who opens flips and may be blocked, who joins them
  Flips,      \* ids of CoinflipGame rows
  Slots,      \* requests that can be in flight at once
  FlipStake,
  MaxOpen,    \* COINFLIP.MAX_OPEN_PER_USER
  Deposit,    \* a first deposit
  Anchored,   \* OnchainRngService.live
  Nobody

VARIABLES
  flip,      \* the CoinflipGame rows
  ask,       \* requests to create and to join
  keys,      \* users whose idempotency key has a stored answer
  block,     \* each user's self-exclusion or cooling-off
  real,      \* fundedAt is set
  grant      \* history: what an account was given outside the game

flipVars == <<flip, ask, keys, block, real, grant>>
vars == <<accountVars, flipVars>>

House == "house"
NoFlip == [status |-> "none", creator |-> Nobody, joiner |-> Nobody, keyed |-> FALSE,
           stale |-> FALSE, late |-> FALSE, eco |-> FALSE, mixed |-> FALSE]
NoAsk == [at |-> "idle", user |-> Nobody, f |-> Nobody, keyed |-> FALSE, house |-> FALSE,
          late |-> FALSE, eco |-> FALSE]
Free == [at |-> "free", todo |-> {}]

FlipRow ==
  [status : {"none", "open", "completed", "cancelled"}, creator : Users \cup {Nobody},
   joiner : Users \cup {Nobody, House}, keyed : BOOLEAN, stale : BOOLEAN, late : BOOLEAN,
   eco : BOOLEAN, mixed : BOOLEAN]
Request ==
  [at : {"idle", "create", "counted", "join", "anchored", "joining"},
   user : Users \cup {Nobody}, f : Flips \cup {Nobody}, keyed : BOOLEAN, house : BOOLEAN,
   late : BOOLEAN, eco : BOOLEAN]

TypeOK ==
  /\ AccountTypeOK
  /\ flip \in [Flips -> FlipRow] /\ ask \in [Slots -> Request]
  /\ keys \subseteq Users
  /\ block \in [Users -> [at : {"free", "set", "cancelling", "done"}, todo : SUBSET Flips]]
  /\ real \in [Users -> BOOLEAN] /\ grant \in [Users -> Int]

Init ==
  /\ AccountInit
  /\ flip = [f \in Flips |-> NoFlip]
  /\ ask = [q \in Slots |-> NoAsk]
  /\ keys = {}
  /\ block = [u \in Users |-> Free]
  /\ real = [u \in Users |-> FALSE]
  /\ grant = [u \in Users |-> Funds]

OpenOf(u) == {f \in Flips : flip[f].status = "open" /\ flip[f].creator = u}
Joinable(f) == flip[f].status = "open" /\ ~flip[f].stale

-----------------------------------------------------------------------------
(* Settlement, shared by a join, a house call and a create against it.     *)

Winnings == (FlipStake * 190) \div 100

\* Balances and totals once the winner w is known: sides are the humans who have
\* a stake in the flip, payers those of them debited in this transaction.
Settled(sides, payers, w) ==
  /\ bal' = [u \in Users |-> bal[u] - (IF u \in payers THEN FlipStake ELSE 0)
                                    + (IF u = w THEN Winnings ELSE 0)]
  /\ totalWon' = [u \in Users |-> totalWon[u] + (IF u = w THEN Winnings - FlipStake ELSE 0)]
  /\ totalLost' = [u \in Users |->
                     totalLost[u] + (IF u \in sides \ {w} THEN FlipStake ELSE 0)]

\* Mutant: the row is updated by its id alone.
ClaimAnyRow(f) == TRUE

\* resolve's compare-and-swap on an open flip that has not expired.
Claimable(f) == Joinable(f)

-----------------------------------------------------------------------------
(* Requests. *)

\* rg.assertCanWager: a pre-check, before the transaction.
MayWager(u) == block[u].at = "free"

AskCreate(q, u, keyed, house) ==
  /\ ask[q].at = "idle" /\ MayWager(u)
  /\ ask' = [ask EXCEPT ![q] = [NoAsk EXCEPT !.at = "create", !.user = u,
                                             !.keyed = keyed, !.house = house]]
  /\ UNCHANGED <<accountVars, flip, keys, block, real, grant>>

\* Mutant: the key is looked up and not claimed.
KeyUnclaimed(q) == TRUE

\* claimIdempotency inserts the key first: a second request with it waits until
\* the first one's transaction ends.
KeyFree(q) ==
  ~\E p \in Slots \ {q} : /\ ask[p].at = "counted" /\ ask[p].keyed
                          /\ ask[p].user = ask[q].user

\* The transaction claims its key or replays the stored answer, and counts.
CountOpen(q) ==
  LET u == ask[q].user IN
  /\ ask[q].at = "create"
  /\ ask[q].keyed => KeyFree(q)
  /\ ask' = [ask EXCEPT ![q] =
       IF (ask[q].keyed /\ u \in keys)
            \/ (~ask[q].house /\ Cardinality(OpenOf(u)) >= MaxOpen)
       THEN NoAsk ELSE [@ EXCEPT !.at = "counted"]]
  /\ UNCHANGED <<accountVars, flip, keys, block, real, grant>>

Opened(q) ==
  [NoFlip EXCEPT !.status = "open", !.creator = ask[q].user, !.keyed = ask[q].keyed,
                 !.late = ask[q].late, !.eco = real[ask[q].user]]

\* Debit, seed and row, the answer under its key, and, against the house, the result.
Create(q, f) ==
  LET u == ask[q].user IN
  /\ ask[q].at = "counted" /\ flip[f].status = "none"
  /\ CanDebit(u, FlipStake)
  /\ keys' = IF ask[q].keyed THEN keys \cup {u} ELSE keys
  /\ ask' = [ask EXCEPT ![q] = NoAsk]
  /\ \/ /\ ~ask[q].house
        /\ flip' = [flip EXCEPT ![f] = Opened(q)]
        /\ bal' = [bal EXCEPT ![u] = @ - FlipStake]
        /\ UNCHANGED <<totalWon, totalLost>>
     \/ /\ ask[q].house
        /\ flip' = [flip EXCEPT ![f] = [Opened(q) EXCEPT !.status = "completed",
                                                         !.joiner = House]]
        /\ \E w \in {u, House} : Settled({u}, {u}, w)
  /\ UNCHANGED <<block, real, grant>>

\* The debit matches no row, or the process dies: the transaction leaves nothing.
\* An answer that got lost is followed by the same request again.
Abandon(q) ==
  /\ ask[q].at # "idle"
  /\ ask' = [ask EXCEPT ![q] = NoAsk]
  /\ UNCHANGED <<accountVars, flip, keys, block, real, grant>>

AskJoin(q, u, f) ==
  /\ ask[q].at = "idle" /\ MayWager(u) /\ flip[f].status = "open"
  /\ ask' = [ask EXCEPT ![q] = [NoAsk EXCEPT !.at = "join", !.user = u, !.f = f]]
  /\ UNCHANGED <<accountVars, flip, keys, block, real, grant>>

\* With the randomness program live: a round of it reveals the flip's seed before
\* the transaction that settles the flip; or it fails, before or after the reveal.
Anchor(q) ==
  /\ Anchored /\ ask[q].at = "join"
  /\ flip[ask[q].f].status = "open" /\ flip[ask[q].f].creator # ask[q].user
  /\ ask' = [ask EXCEPT ![q].at = "anchored"]
  /\ UNCHANGED <<accountVars, flip, keys, block, real, grant>>

\* Mutant: the joiner's economy is read without the row lock.
Unlocked(u) == TRUE

\* The lock of assertSameEconomy on the joiner's row, held to the end of the join.
RowFree(u) == ~\E q \in Slots : ask[q].at = "joining" /\ ask[q].user = u

\* Not their own flip, and an account of the same economy.
CheckJoin(q) ==
  LET u == ask[q].user
      f == ask[q].f IN
  /\ \/ ask[q].at = "anchored"
     \/ ask[q].at = "join"
        /\ ~(Anchored /\ flip[f].status = "open" /\ flip[f].creator # u)
  /\ RowFree(u)
  /\ ask' = [ask EXCEPT ![q] = IF flip[f].creator # u /\ real[flip[f].creator] = real[u]
                               THEN [@ EXCEPT !.at = "joining"] ELSE NoAsk]
  /\ UNCHANGED <<accountVars, flip, keys, block, real, grant>>

\* Claim, debit, result, both sides' totals, the winner's credit, the reveal.
Join(q) ==
  LET u == ask[q].user
      f == ask[q].f
      c == flip[f].creator IN
  /\ ask[q].at = "joining" /\ Claimable(f) /\ CanDebit(u, FlipStake)
  /\ flip' = [flip EXCEPT ![f] =
       [@ EXCEPT !.status = "completed", !.joiner = u,
                 !.mixed = real[u] # flip[f].eco \/ real[c] # flip[f].eco]]
  /\ \E w \in {c, u} : Settled({c, u}, {u}, w)
  /\ ask' = [ask EXCEPT ![q] = NoAsk]
  /\ UNCHANGED <<keys, block, real, grant>>

-----------------------------------------------------------------------------
PlayHouse(f) ==
  LET c == flip[f].creator IN
  /\ Claimable(f)
  /\ flip' = [flip EXCEPT ![f] = [@ EXCEPT !.status = "completed", !.joiner = House]]
  /\ \E w \in {c, House} : Settled({c}, {}, w)
  /\ UNCHANGED <<ask, keys, block, real, grant>>

\* cancelOpenFlip: the status and the refund, in one transaction.
CancelOpenFlip(f) ==
  /\ flip[f].status = "open"
  /\ flip' = [flip EXCEPT ![f].status = "cancelled"]
  /\ bal' = [bal EXCEPT ![flip[f].creator] = @ + FlipStake]
  /\ UNCHANGED <<totalWon, totalLost, ask, keys, real, grant>>

Cancel(f) == CancelOpenFlip(f) /\ UNCHANGED block

\* The time to live passes.
Ttl(f) ==
  /\ flip[f].status = "open" /\ ~flip[f].stale
  /\ flip' = [flip EXCEPT ![f].stale = TRUE]
  /\ UNCHANGED <<accountVars, ask, keys, block, real, grant>>

\* expireStale, at boot and every sweep.
Expire(f) == flip[f].stale /\ CancelOpenFlip(f) /\ UNCHANGED block

-----------------------------------------------------------------------------
(* A self-exclusion or a cooling-off. *)

\* extend: the block is in force from here; requests past their gate are late.
Exclude(u) ==
  /\ block[u].at \in {"free", "set"}
  /\ block' = [block EXCEPT ![u].at = "set"]
  /\ ask' = [q \in Slots |-> IF ask[q].user = u THEN [ask[q] EXCEPT !.late = TRUE] ELSE ask[q]]
  /\ UNCHANGED <<accountVars, flip, keys, real, grant>>

\* Mutant: the open flips of a blocked player stay joinable.
KeepOpenFlips(u) == {}

ToCancel(u) == OpenOf(u)

\* cancelOpenFlips reads them once ...
FindOpenFlips(u) ==
  /\ block[u].at = "set"
  /\ block' = [block EXCEPT ![u] = [at |-> "cancelling", todo |-> ToCancel(u)]]
  /\ UNCHANGED <<accountVars, flip, ask, keys, real, grant>>

\* ... and cancels each in a transaction of its own, if it is still open.
CancelNext(u) ==
  /\ block[u].at = "cancelling"
  /\ IF block[u].todo = {}
     THEN /\ block' = [block EXCEPT ![u].at = "done"]
          /\ UNCHANGED <<accountVars, flip, ask, keys, real, grant>>
     ELSE \E f \in block[u].todo :
            /\ block' = [block EXCEPT ![u].todo = @ \ {f}]
            /\ \/ CancelOpenFlip(f)
               \/ flip[f].status # "open"
                  /\ UNCHANGED <<accountVars, flip, ask, keys, real, grant>>

\* The process dies in between: the block stays, the player may set it again.
ExcludeFails(u) ==
  /\ block[u].at = "cancelling"
  /\ block' = [block EXCEPT ![u] = [at |-> "set", todo |-> {}]]
  /\ UNCHANGED <<accountVars, flip, ask, keys, real, grant>>

-----------------------------------------------------------------------------
\* Mutant: a deposit does not wait for open flips.
NoPosition(u) == TRUE

\* openPlayPositions: no flip of the player is open.
NoOpenFlip(u) == OpenOf(u) = {}

\* The first deposit: play money is forfeited and the account becomes real.
Convert(u) ==
  /\ ~real[u] /\ RowFree(u) /\ NoOpenFlip(u)
  /\ real' = [real EXCEPT ![u] = TRUE]
  /\ bal' = [bal EXCEPT ![u] = Deposit]
  /\ grant' = [grant EXCEPT ![u] = @ - bal[u] + Deposit]
  /\ UNCHANGED <<totalWon, totalLost, flip, ask, keys, block>>

Next ==
  \/ \E q \in Slots :
       \/ \E u \in Creators, keyed, house \in BOOLEAN : AskCreate(q, u, keyed, house)
       \/ \E u \in Joiners, f \in Flips : AskJoin(q, u, f)
       \/ \E f \in Flips : Create(q, f)
       \/ CountOpen(q) \/ Anchor(q) \/ CheckJoin(q) \/ Join(q) \/ Abandon(q)
  \/ \E f \in Flips : PlayHouse(f) \/ Cancel(f) \/ Ttl(f) \/ Expire(f)
  \/ \E u \in Creators : Exclude(u) \/ FindOpenFlips(u) \/ CancelNext(u) \/ ExcludeFails(u)
  \/ \E u \in Users : Convert(u)

Spec == Init /\ [][Next]_vars

-----------------------------------------------------------------------------
(* Every stake is settled or refunded exactly once, whatever joins,        *)
(* cancels, sweeps, exclusions and house calls race for the flip           *)
(* (coinflip.service.ts resolve, cancel-open-flip.ts).                     *)
FlipStakesBalance ==
  \A u \in Users :
    bal[u] = grant[u] + totalWon[u] - totalLost[u] - FlipStake * Cardinality(OpenOf(u))

(* Play money and deposited money never meet in a flip, although a first   *)
(* deposit may commit between the check of a join and its settlement       *)
(* (economy.ts assertSameEconomy, openPlayPositions).                      *)
FlipEconomiesApart == \A f \in Flips : ~flip[f].mixed

(* A keyed create that is sent again, also while the first is running,     *)
(* opens one flip (idempotency.ts).                                        *)
FlipKeyedOnce ==
  \A f, g \in Flips :
    flip[f].keyed /\ flip[g].keyed /\ flip[f].creator = flip[g].creator => f = g

(* A block stops play: once it has been answered, the player has no open   *)
(* flip, save one whose request was past the gate before the block         *)
(* (rg.service.ts cancelOpenFlips).                                        *)
FlipBlockStopsPlay ==
  \A u \in Users : block[u].at = "done" => \A f \in OpenOf(u) : flip[f].late
=============================================================================
