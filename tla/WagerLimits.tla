---------------------------- MODULE WagerLimits ----------------------------
(***************************************************************************)
(* Responsible gambling (rg.service.ts): the gate every wager goes through *)
(* before its debit, with the daily wager and loss limits, cooling-off and *)
(* self-exclusion.  The gate reads the account, then sums the day's bets   *)
(* and the stakes that are still open; the stake is taken by a later       *)
(* transaction of the game.  One player; a day is divided into DayLength   *)
(* ticks.                                                                  *)
(***************************************************************************)
EXTENDS Integers, FiniteSets

CONSTANTS
  Wagers,      \* concurrent requests
  Stakes, Returns,   \* amounts of a stake, and the multiples a settlement pays
  WagerLimits, LossLimits,   \* the limits a player may set, None among them
  None,
  Blocks,      \* coolOffUntil, selfExcludedUntil
  DayLength,
  MaxTime, MaxStakes   \* bounds

VARIABLES
  now,
  user,      \* limits and blocks of the account
  bets,      \* sums of the Bet rows of the day: amounts and payouts
  open,      \* open flips and tickets of undrawn draws, by amount
  riding,    \* stakes of a running crash, jackpot or table round
  req,
  taken,     \* stakes taken
  slack,     \* history: stakes the checks behind the taken stakes could not see
  carried,   \* history: stakes open at midnight
  promised   \* history: the latest end of a block the player was told

limitVars == <<now, user, bets, open, riding, req, taken, slack, carried, promised>>

NoReq == [at |-> "idle", amount |-> 0, kind |-> "none", missed |-> 0, limits |-> <<None, None>>]
Kinds == {"flip", "ticket", "round", "instant"}

Init ==
  /\ now = 1
  /\ user = [wager |-> None, loss |-> None, until |-> [b \in Blocks |-> 0]]
  /\ bets = [amount |-> 0, payout |-> 0]
  /\ open = 0 /\ riding = 0 /\ taken = 0 /\ slack = 0 /\ carried = 0
  /\ req = [r \in Wagers |-> NoReq]
  /\ promised = [b \in Blocks |-> 0]

Larger(a, b) == IF a > b THEN a ELSE b

-----------------------------------------------------------------------------
(* The gate.                                                               *)

\* Self-excluded or cooling off.
Blocked == \E b \in Blocks : user.until[b] > now

\* assertCanWager up to its sums, which an account without limits does not need.  A pause and
\* the age gate refuse the request before anything is read for it.
Check(r, amount, kind) ==
  /\ req[r].at = "idle" /\ taken < MaxStakes
  /\ ~Blocked
  /\ req' = [req EXCEPT ![r] =
       [at |-> IF user.wager = None /\ user.loss = None THEN "clear" ELSE "sum",
        amount |-> amount, kind |-> kind, missed |-> 0, limits |-> <<user.wager, user.loss>>]]
  /\ UNCHANGED <<now, user, bets, open, riding, taken, slack, carried, promised>>

\* Settled bets only.
SettledOnly == 0

\* pendingStakes
PendingStakes == open

\* Whether the amount fits both limits.
Within(amount, limits) ==
  LET wagered == bets.amount + PendingStakes
      netLoss == Larger(wagered - bets.payout, 0)
  IN
  /\ limits[1] # None => wagered + amount <= limits[1]
  /\ limits[2] # None => netLoss + amount <= limits[2]

\* The sums, and the answer; `missed' is what rides in rounds the sums leave out.
Sum(r) ==
  /\ req[r].at = "sum"
  /\ req' = [req EXCEPT ![r] = IF Within(req[r].amount, req[r].limits)
                               THEN [req[r] EXCEPT !.at = "clear", !.missed = riding] ELSE NoReq]
  /\ UNCHANGED <<now, user, bets, open, riding, taken, slack, carried, promised>>

\* The game's transaction takes the stake: an instant bet settles in it.
Take(r) ==
  LET q == req[r] IN
  /\ q.at = "clear"
  /\ taken' = taken + 1
  /\ slack' = slack + (IF q.limits # <<user.wager, user.loss>> THEN q.amount ELSE q.missed)
  /\ open' = IF q.kind \in {"flip", "ticket"} THEN open + q.amount ELSE open
  /\ riding' = IF q.kind = "round" THEN riding + q.amount ELSE riding
  /\ IF q.kind # "instant" THEN UNCHANGED bets
     ELSE \E m \in Returns : bets' = [amount |-> bets.amount + q.amount, payout |-> bets.payout + m * q.amount]
  \* whoever is past the sums has not seen this stake
  /\ req' = [s \in Wagers |-> IF s = r THEN NoReq
             ELSE IF req[s].at = "clear" THEN [req[s] EXCEPT !.missed = @ + q.amount] ELSE req[s]]
  /\ UNCHANGED <<now, user, carried, promised>>

\* The transaction fails: nothing is taken.
Refuse(r) ==
  /\ req[r].at = "clear"
  /\ req' = [req EXCEPT ![r] = NoReq]
  /\ UNCHANGED <<now, user, bets, open, riding, taken, slack, carried, promised>>

\* An open stake is settled: its Bet row is of today.
Settle(amount, m) ==
  /\ open >= amount
  /\ open' = open - amount
  /\ bets' = [amount |-> bets.amount + amount, payout |-> bets.payout + m * amount]
  /\ UNCHANGED <<now, user, riding, req, taken, slack, carried, promised>>

SettleRound(amount, m) ==
  /\ riding >= amount
  /\ riding' = riding - amount
  /\ bets' = [amount |-> bets.amount + amount, payout |-> bets.payout + m * amount]
  /\ UNCHANGED <<now, user, open, req, taken, slack, carried, promised>>

\* A flip is cancelled or expires, a round is refunded.
Refund(amount) ==
  /\ \/ open >= amount /\ open' = open - amount /\ UNCHANGED riding
     \/ riding >= amount /\ riding' = riding - amount /\ UNCHANGED open
  /\ UNCHANGED <<now, user, bets, req, taken, slack, carried, promised>>

-----------------------------------------------------------------------------
(* The player's settings.                                                  *)

\* Limits are lowered, raised and cleared at once; what is staked stays.
SetLimits(w, l) ==
  /\ user' = [user EXCEPT !.wager = w, !.loss = l]
  /\ slack' = bets.amount + open + riding
  /\ <<w, l>> # <<user.wager, user.loss>>
  /\ UNCHANGED <<now, bets, open, riding, req, taken, carried, promised>>

\* Any future date.
AnyLater(field, until) == TRUE

\* updateMany: nothing stored, or an earlier end.
NotShortened(field, until) == user.until[field] <= until

\* setCoolOff, setSelfExclusion: the open flips of the player are cancelled.
Extend(field, until) ==
  /\ until > now
  /\ NotShortened(field, until)
  /\ user' = [user EXCEPT !.until[field] = until]
  /\ promised' = [promised EXCEPT ![field] = Larger(@, until)]
  /\ open' \in 0..open
  /\ UNCHANGED <<now, bets, riding, req, taken, slack, carried>>

\* Time passes; at midnight the sums start again, and a request keeps what it computed.
Tick ==
  /\ now < MaxTime
  /\ now' = now + 1
  /\ IF now' % DayLength # 0 THEN UNCHANGED <<bets, carried>>
     ELSE /\ bets' = [amount |-> 0, payout |-> 0]
          /\ carried' = open + riding
  /\ UNCHANGED <<user, open, riding, req, taken, slack, promised>>

Next ==
  \/ \E r \in Wagers : Sum(r) \/ Take(r) \/ Refuse(r) \/ \E a \in Stakes, k \in Kinds : Check(r, a, k)
  \/ \E a \in Stakes : Refund(a) \/ \E m \in Returns : Settle(a, m) \/ SettleRound(a, m)
  \/ \E w \in WagerLimits, l \in LossLimits : SetLimits(w, l)
  \/ \E f \in Blocks, until \in 1..(MaxTime + 1) : Extend(f, until)
  \/ Tick

Spec == Init /\ [][Next]_limitVars

-----------------------------------------------------------------------------
LimitsTypeOK ==
  /\ now \in 1..MaxTime /\ open \in Nat /\ riding \in Nat /\ bets \in [amount : Nat, payout : Nat]
  /\ user.wager \in WagerLimits /\ user.loss \in LossLimits

(* "A tiny limit overshoot under heavy concurrency": what is wagered in a  *)
(* day, with what is still staked, passes the limit by no more than the    *)
(* stakes a check could not see: those taken between a check and its own   *)
(* debit, and the rounds it leaves out ("at most one stake per round").    *)
WagersWithinLimit ==
  user.wager # None => bets.amount + open + riding <= user.wager + slack

(* The same of the day's losses, where the stakes open at midnight count,  *)
(* since the winnings they were allowed by are of the day before.          *)
LossesWithinLimit ==
  user.loss # None => bets.amount + open + riding - bets.payout <= user.loss + slack + carried

(* "CANNOT be shortened": a block ends no earlier than the player was told *)
(* (extend).                                                               *)
BlocksLast == \A b \in Blocks : user.until[b] >= promised[b]
=============================================================================
