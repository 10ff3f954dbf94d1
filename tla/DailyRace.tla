------------------------------ MODULE DailyRace ------------------------------
(***************************************************************************)
(* The daily wager race of LeaderboardService: settleRace of one completed *)
(* day, which the hourly job runs again and again, by any worker that got  *)
(* the lock or outlived its lease.  Standings are read before the winners  *)
(* are paid, each in a transaction of its own; meanwhile bets of the day   *)
(* are still settled, players are banned and make first deposits.          *)
(***************************************************************************)
EXTENDS Naturals, FiniteSets, FiniteSetsExt, Sequences

CONSTANTS
  Racers,       \* user ids, 1..n: ties in volume go to the smaller id
  Runs,         \* runs of the job
  Prizes,       \* racePrizeLamports of the paid ranks, best first
  StartVolume,  \* settled stakes when the day ends
  Late          \* players with a bet stamped before midnight and committed after it

VARIABLES
  volume,    \* settled stakes of the day
  unsettled, \* players whose bet of the day has not committed yet
  banned, funded,
  result,    \* RaceResult of the day: the prize of each player; 0 where there is none
  credit,    \* what the race has credited to each player
  run        \* the runs: the standings each read, and where it is in them

raceVars == <<volume, unsettled, banned, funded, result, credit, run>>
IdleRun == [at |-> "idle", top |-> <<>>, winners |-> <<>>, next |-> 1, clean |-> TRUE]
Pool == FoldSet(LAMBDA i, sum : sum + Prizes[i], 0, DOMAIN Prizes)

Init ==
  /\ volume = StartVolume
  /\ unsettled = Late
  /\ banned = {} /\ funded = {}
  /\ result = [u \in Racers |-> 0] /\ credit = [u \in Racers |-> 0]
  /\ run = [r \in Runs |-> IdleRun]

-----------------------------------------------------------------------------
(* What changes the standings.                                             *)

\* A run that has read the standings goes on with what it read.
Shift == run' = [r \in Runs |-> IF run[r].at = "paying" THEN [run[r] EXCEPT !.clean = FALSE] ELSE run[r]]

SettleLate(u) ==
  /\ u \in unsettled
  /\ unsettled' = unsettled \ {u}
  /\ volume' = [volume EXCEPT ![u] = @ + 1]
  /\ Shift
  /\ UNCHANGED <<banned, funded, result, credit>>

Ban(u) ==
  /\ u \notin banned
  /\ banned' = banned \cup {u}
  /\ Shift
  /\ UNCHANGED <<volume, unsettled, funded, result, credit>>

\* A first deposit, at any time.
FirstDeposit(u) ==
  /\ u \notin funded
  /\ funded' = funded \cup {u}
  /\ Shift
  /\ UNCHANGED <<volume, unsettled, banned, result, credit>>

-----------------------------------------------------------------------------
(* settleRace.                                                             *)

Eligible == {u \in Racers : volume[u] > 0 /\ u \notin banned \cup funded}
Ahead(u, v) == volume[u] > volume[v] \/ (volume[u] = volume[v] /\ u < v)

\* topByWindowVolume: the best ranks, bots, banned and funded players left out.
TopByWindowVolume ==
  LET place == [u \in Eligible |-> Cardinality({v \in Eligible : Ahead(v, u)}) + 1]
      n == Min({Len(Prizes), Cardinality(Eligible)})
  IN [i \in 1..n |-> CHOOSE u \in Eligible : place[u] = i]

\* A day that has rows is taken for settled.
NoRowsYet == \A u \in Racers : result[u] = 0

\* Every run walks the standings again.
WalksAgain == TRUE

StartRun(r) ==
  /\ run[r].at = "idle"
  /\ run' = [run EXCEPT ![r] =
       [IdleRun EXCEPT !.at = "paying", !.top = TopByWindowVolume,
                       !.winners = IF WalksAgain THEN TopByWindowVolume ELSE <<>>]]
  /\ UNCHANGED <<volume, unsettled, banned, funded, result, credit>>

Current(r) == run[r].winners[run[r].next]
Paying(r) == run[r].at = "paying" /\ run[r].next <= Len(run[r].winners)

\* The winner as read.
PlayWhenRead(u) == TRUE

\* stillPlay, inside the transaction
StillPlay(u) == u \notin funded

\* A second row for the day is accepted.
RowOfRank(u) == TRUE

\* @@unique([raceDay, userId])
NoResult(u) == result[u] = 0

\* The transaction of one winner: the row is the claim, then the credit.
PayWinner(r) ==
  LET u == Current(r)
      prize == Prizes[run[r].next]
  IN
  /\ Paying(r)
  /\ run' = [run EXCEPT ![r].next = @ + 1]
  /\ IF StillPlay(u) /\ NoResult(u)
     THEN /\ result' = [result EXCEPT ![u] = prize]
          /\ credit' = [credit EXCEPT ![u] = @ + prize]
     ELSE UNCHANGED <<result, credit>>
  /\ UNCHANGED <<volume, unsettled, banned, funded>>

\* One winner's transaction fails; the others go on.
PayFails(r) ==
  /\ Paying(r)
  /\ run' = [run EXCEPT ![r].next = @ + 1, ![r].clean = FALSE]
  /\ UNCHANGED <<volume, unsettled, banned, funded, result, credit>>

\* The run dies with winners left.
Interrupt(r) ==
  /\ Paying(r)
  /\ run' = [run EXCEPT ![r].at = "over", ![r].clean = FALSE]
  /\ UNCHANGED <<volume, unsettled, banned, funded, result, credit>>

Finish(r) ==
  /\ run[r].at = "paying" /\ run[r].next > Len(run[r].winners)
  /\ run' = [run EXCEPT ![r].at = "over"]
  /\ UNCHANGED <<volume, unsettled, banned, funded, result, credit>>

Next ==
  \/ \E u \in Racers : SettleLate(u) \/ Ban(u) \/ FirstDeposit(u)
  \/ \E r \in Runs : StartRun(r) \/ PayWinner(r) \/ PayFails(r) \/ Interrupt(r) \/ Finish(r)

Spec == Init /\ [][Next]_raceVars

-----------------------------------------------------------------------------
RaceTypeOK ==
  /\ volume \in [Racers -> Nat] /\ unsettled \subseteq Racers
  /\ banned \subseteq Racers /\ funded \subseteq Racers
  /\ \A r \in Runs : run[r].at \in {"idle", "paying", "over"}

(* "Pays each winner at most once": what the race has credited to a player  *)
(* is the prize of the player's one row, whichever runs overlapped.         *)
RacePaidOnce ==
  \A u \in Racers : credit[u] = result[u] /\ result[u] \in {0} \cup {Prizes[i] : i \in DOMAIN Prizes}

(* The race pays play money: no credit reaches an account after its first   *)
(* deposit, though the standings were read before it.                       *)
NoneToFunded == \A u \in Racers : u \in funded => credit'[u] = credit[u]
PlayPrizesOnly == [][NoneToFunded]_raceVars

(* "Self-healing": a run that met no failure and no change of the standings *)
(* leaves none of their winners unpaid, whatever an interrupted run before  *)
(* it, or beside it, had paid.                                              *)
RerunHeals ==
  \A r \in Runs : run[r].at = "over" /\ run[r].clean =>
                 \A i \in DOMAIN run[r].top : result[run[r].top[i]] > 0

(* The prizes come "from the fixed pool": a day's race never pays more than *)
(* the pool, however often the job runs.                                    *)
RacePoolKept == FoldSet(LAMBDA u, sum : sum + credit[u], 0, Racers) <= Pool
==============================================================================
