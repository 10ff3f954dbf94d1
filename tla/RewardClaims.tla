----------------------------- MODULE RewardClaims -----------------------------
(***************************************************************************)
(* Reward claims (apps/api/src/rewards/rewards.service.ts) of one player,  *)
(* with the vault program's claim_reward and claim_dividend as the chain.  *)
(*                                                                         *)
(* A claim reserves what it pays, or for cashback leaves its baseline, and *)
(* is then attempted on chain by the request itself and by every sweep,    *)
(* possibly at once: each attempt reads the row, sends, and finalizes.     *)
(***************************************************************************)
EXTENDS Naturals, Sequences, Functions

CONSTANTS
  Reserved,     \* kinds that reserve a balance, among "wagerReward" and "dividend"
  Attempts,     \* attempts that can run at once
  MaxTries,     \* MAX_CLAIM_ATTEMPTS
  CashbackRate, \* CASHBACK_PER_LAMPORT_LOST
  CasePrize,
  ClaimWindows, \* windows of the code that are left open, see the README
  MaxClaims, MaxEarned, MaxLost, MaxDay  \* bounds

VARIABLES
  purse,     \* for each reserved kind, what is free and what is reserved
  lost,      \* totalLost
  baseline,  \* cashbackBaselineLost
  opening,   \* requests to open a daily case past the cooldown check
  lastCase,  \* day of lastDailyCaseAt
  claims,    \* RewardClaim rows
  attempt,   \* attempts under way
  landed,    \* claims with a ClaimRecord account on chain: paid
  today,
  earned     \* history: what was credited to each purse

rewardVars == <<purse, lost, baseline, opening, lastCase, claims, attempt, landed, today, earned>>

Kinds == Reserved \cup {"cashback", "dailyCase"}
NoAttempt == [at |-> "no", c |-> 0, tries |-> 0, lost |-> 0]

TypeOK ==
  /\ purse \in [Reserved -> [free : Nat, held : Nat]]
  /\ lost \in Nat /\ baseline \in 0..lost
  /\ opening \subseteq 1..MaxDay /\ lastCase \in 0..MaxDay /\ today \in 1..MaxDay
  /\ \A c \in DOMAIN claims :
       /\ claims[c].kind \in Kinds /\ claims[c].amount \in Nat \ {0}
       /\ claims[c].status \in {"pending", "confirmed", "failed"} /\ claims[c].tries \in 0..MaxTries
  /\ attempt \in [Attempts -> [at : {"no", "read", "paid", "unpaid"}, c : 0..MaxClaims,
                               tries : 0..MaxTries, lost : Nat]]
  /\ landed \subseteq DOMAIN claims

Init ==
  /\ purse = [k \in Reserved |-> [free |-> 0, held |-> 0]]
  /\ lost = 0 /\ baseline = 0
  /\ opening = {} /\ lastCase = 0 /\ today = 1
  /\ claims = <<>>
  /\ attempt = [a \in Attempts |-> NoAttempt]
  /\ landed = {}
  /\ earned = [k \in Reserved |-> 0]

-----------------------------------------------------------------------------
(* What the rest of the system does. *)

Earn(k) ==
  /\ earned[k] < MaxEarned
  /\ earned' = [earned EXCEPT ![k] = @ + 1]
  /\ purse' = [purse EXCEPT ![k].free = @ + 1]
  /\ UNCHANGED <<lost, baseline, opening, lastCase, claims, attempt, landed, today>>

Lose ==
  /\ lost < MaxLost
  /\ lost' = lost + 1
  /\ UNCHANGED <<purse, baseline, opening, lastCase, claims, attempt, landed, today, earned>>

Midnight ==
  /\ today < MaxDay /\ (opening = {} \/ "midnight" \in ClaimWindows)
  /\ today' = today + 1
  /\ UNCHANGED <<purse, lost, baseline, opening, lastCase, claims, attempt, landed, earned>>

-----------------------------------------------------------------------------
(* Claims. *)

Row(k, n, period) == [kind |-> k, amount |-> n, period |-> period, status |-> "pending", tries |-> 0]

\* Mutant: a claim may be made while one is pending.
AlwaysFree(k) == TRUE

\* One pending claim per kind; SERIALIZABLE makes this hold at the commit.
NonePending(k) == \A c \in DOMAIN claims : claims[c].kind = k => claims[c].status # "pending"

ClaimReserved(k) ==
  LET n == purse[k].free IN
  /\ NonePending(k) /\ n > 0 /\ Len(claims) < MaxClaims
  /\ purse' = [purse EXCEPT ![k] = [free |-> 0, held |-> @.held + n]]
  /\ claims' = Append(claims, Row(k, n, 0))
  /\ UNCHANGED <<lost, baseline, opening, lastCase, attempt, landed, today, earned>>

CashbackAccrued == CashbackRate * (lost - baseline)

ClaimCashback ==
  /\ NonePending("cashback") /\ CashbackAccrued > 0 /\ Len(claims) < MaxClaims
  /\ claims' = Append(claims, Row("cashback", CashbackAccrued, 0))
  /\ UNCHANGED <<purse, lost, baseline, opening, lastCase, attempt, landed, today, earned>>

\* The cooldown is read in a READ COMMITTED transaction ...
AskDailyCase ==
  /\ lastCase < today
  /\ opening' = opening \cup {today}
  /\ UNCHANGED <<purse, lost, baseline, lastCase, claims, attempt, landed, today, earned>>

\* Mutant: nothing but the cooldown keeps a second case out.
AnyPeriod(d) == TRUE

\* The unique index on user, kind and period.
NewPeriod(d) == \A c \in DOMAIN claims : claims[c].kind = "dailyCase" => claims[c].period # d

\* ... and the row is what two requests can insert once a day.
OpenDailyCase(d) ==
  /\ d \in opening /\ NewPeriod(d) /\ Len(claims) < MaxClaims
  /\ \E again \in BOOLEAN : opening' = IF again THEN opening ELSE opening \ {d}
  /\ lastCase' = d
  /\ claims' = Append(claims, Row("dailyCase", CasePrize, d))
  /\ UNCHANGED <<purse, lost, baseline, attempt, landed, today, earned>>

DailyCaseRefused(d) ==
  /\ d \in opening /\ ~NewPeriod(d)
  /\ opening' = opening \ {d}
  /\ UNCHANGED <<purse, lost, baseline, lastCase, claims, attempt, landed, today, earned>>

-----------------------------------------------------------------------------
(* attemptChainClaim. *)

Pending(c) == claims[c].status = "pending"

Read(a, c) ==
  /\ attempt[a].at = "no" /\ Pending(c)
  /\ attempt' = [attempt EXCEPT ![a] =
       [at |-> "read", c |-> c, tries |-> claims[c].tries, lost |-> lost]]
  /\ UNCHANGED <<purse, lost, baseline, opening, lastCase, claims, landed, today, earned>>

\* claim_reward and claim_dividend create the ClaimRecord, so only the first succeeds.
Payable(c) == c \notin landed

\* The transfer lands and is answered; or it fails, or its answer gets lost.
Send(a) ==
  LET c == attempt[a].c IN
  /\ attempt[a].at = "read"
  /\ claims[c].status = "failed" => "late_payment" \in ClaimWindows
  /\ \/ Payable(c) /\ landed' = landed \cup {c} /\ attempt' = [attempt EXCEPT ![a].at = "paid"]
     \/ UNCHANGED landed /\ attempt' = [attempt EXCEPT ![a].at = "unpaid"]
     \/ Payable(c) /\ landed' = landed \cup {c} /\ attempt' = [attempt EXCEPT ![a].at = "unpaid"]
  /\ UNCHANGED <<purse, lost, baseline, opening, lastCase, claims, today, earned>>

\* Mutant: the attempt finalizes the row whatever its status has become.
FinalizeAny(c) == TRUE

\* The status-guarded update.
StillPending(c) == Pending(c)

Confirm(a) ==
  LET c == attempt[a].c
      row == claims[c] IN
  /\ attempt[a].at = "paid"
  /\ attempt' = [attempt EXCEPT ![a] = NoAttempt]
  /\ \/ /\ ~StillPending(c)
        /\ UNCHANGED <<claims, purse, baseline>>
     \/ /\ StillPending(c)
        /\ claims' = [claims EXCEPT ![c].status = "confirmed"]
        /\ purse' = IF row.kind \in Reserved
                    THEN [purse EXCEPT ![row.kind].held = @ - row.amount] ELSE purse
        /\ baseline' = IF row.kind = "cashback" THEN attempt[a].lost ELSE baseline
  /\ UNCHANGED <<lost, opening, lastCase, landed, today, earned>>

\* A failure is counted, from what the attempt has read ...
Retry(a) ==
  LET c == attempt[a].c IN
  /\ attempt[a].at = "unpaid" /\ attempt[a].tries + 1 < MaxTries
  /\ claims' = [claims EXCEPT ![c].tries = attempt[a].tries + 1]
  /\ attempt' = [attempt EXCEPT ![a] = NoAttempt]
  /\ UNCHANGED <<purse, lost, baseline, opening, lastCase, landed, today, earned>>

\* ... and the last one gives the reserve back.
GiveUp(a) ==
  LET c == attempt[a].c
      row == claims[c] IN
  /\ attempt[a].at = "unpaid" /\ attempt[a].tries + 1 >= MaxTries
  /\ c \in landed /\ Pending(c) => "late_payment" \in ClaimWindows
  /\ attempt' = [attempt EXCEPT ![a] = NoAttempt]
  /\ \/ ~StillPending(c) /\ UNCHANGED <<claims, purse>>
     \/ /\ StillPending(c)
        /\ claims' = [claims EXCEPT ![c].status = "failed", ![c].tries = MaxTries]
        /\ purse' = IF row.kind \in Reserved
                    THEN [purse EXCEPT ![row.kind] = [free |-> @.free + row.amount,
                                                      held |-> @.held - row.amount]] ELSE purse
  /\ UNCHANGED <<lost, baseline, opening, lastCase, landed, today, earned>>

\* The process dies, or a write of the attempt fails.
Cut(a) ==
  /\ attempt[a].at # "no"
  /\ attempt' = [attempt EXCEPT ![a] = NoAttempt]
  /\ UNCHANGED <<purse, lost, baseline, opening, lastCase, claims, landed, today, earned>>

Next ==
  \/ \E k \in Reserved : Earn(k) \/ ClaimReserved(k)
  \/ Lose \/ Midnight \/ ClaimCashback \/ AskDailyCase
  \/ \E d \in opening : OpenDailyCase(d) \/ DailyCaseRefused(d)
  \/ \E a \in Attempts :
       \/ \E c \in DOMAIN claims : Read(a, c)
       \/ Send(a) \/ Confirm(a) \/ Retry(a) \/ GiveUp(a) \/ Cut(a)

Spec == Init /\ [][Next]_rewardVars

-----------------------------------------------------------------------------
AmountOf(S) == FoldFunction(+, 0, [c \in S |-> claims[c].amount])
Of(k, status) == {c \in DOMAIN claims : claims[c].kind = k /\ claims[c].status = status}

(* A reward is paid once or is still the player's, however many attempts   *)
(* overlap, fail, repeat or die: free, reserved and confirmed amounts add  *)
(* up to what was earned, the reserve is that of the pending claims, and a *)
(* claim the chain has paid never counts as failed (attemptChainClaim).    *)
RewardsConserved ==
  /\ \A k \in Reserved :
       /\ purse[k].free + purse[k].held + AmountOf(Of(k, "confirmed")) = earned[k]
       /\ purse[k].held = AmountOf(Of(k, "pending"))
  /\ \A c \in landed : claims[c].status # "failed"
  /\ \A c \in DOMAIN claims : claims[c].status = "confirmed" => c \in landed

(* Cashback never pays the same loss twice, although the baseline is the   *)
(* total an attempt read before it sent the claim (claim, cashbackAccrued).*)
CashbackWithinLosses ==
  AmountOf({c \in landed : claims[c].kind = "cashback"}) <= CashbackRate * lost

(* No two daily cases belong to one day, although two requests can pass    *)
(* the cooldown together (openDailyCase).                                  *)
OneCaseADay ==
  \A c, e \in DOMAIN claims :
    claims[c].kind = "dailyCase" /\ claims[e].kind = "dailyCase"
      /\ claims[c].period = claims[e].period => c = e
=============================================================================
