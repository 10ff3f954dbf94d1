------------------------------- MODULE Jackpot -------------------------------
(***************************************************************************)
(* The jackpot (apps/api/src/games/jackpot): players enter the open round, *)
(* whose clock starts with the first of them; at its close the pot goes to *)
(* one of them, or everyone is refunded when too few entered.  The round   *)
(* the engine drives lives in RAM and is rebuilt from the database when a  *)
(* process boots; a draw folds in a public beacon, and is retried, then    *)
(* given up for a refund, when that or the database fails.                 *)
(*                                                                         *)
(* A process that stalls in the middle of a settlement and is replaced is  *)
(* a zombie: it has passed its leadership check, and its transaction may   *)
(* still reach the database.                                               *)
(*                                                                         *)
(* A deadline is "none", "solo" (a lone player waits for company) or       *)
(* "window" (the countdown); passed holds the ones whose time has come.    *)
(***************************************************************************)
EXTENDS PlayerAccount, FiniteSets, FiniteSetsExt

CONSTANTS
  Entry,        \* lamports of an entry
  MinPlayers,   \* JACKPOT.MIN_PLAYERS
  Attempts,     \* settleRetryAttempts
  MaxRound,     \* bound on the rounds
  MaxFaults,    \* bound on crashes and failed statements
  WindowSets    \* the choices of windows a behaviour is explored with

(* Two interleavings break a promise of the engine; each has a name, and a *)
(* behaviour takes them only if its windows hold the name, so that a       *)
(* property can say which of them it has to exclude.                       *)
(*   lateEntry   an entry commits, or its notice to the engine is still    *)
(*               pending, while the round is being settled                 *)
(*   lostNotice  the process dies or sleeps after an entry has committed   *)
(*               and before the row holds the deadline it started          *)
WindowNames == {"lateEntry", "lostNotice"}

ASSUME JackpotAssumption ==
  /\ Entry \in Nat \ {0} /\ MinPlayers \in Nat \ {0, 1} /\ Attempts \in Nat \ {0}
  /\ MaxRound \in Nat /\ MaxFaults \in Nat
  /\ WindowSets \subseteq SUBSET WindowNames

VARIABLES
  rnd,      \* JackpotRound rows with their entries
  passed,   \* <<round, deadline>> whose time has come
  eng,      \* RAM of the engine
  zombie,   \* the settlement of a process that was replaced
  req,      \* each player's request to enter
  faults,
  windows   \* the windows of this behaviour

stepVars == <<accountVars, rnd, passed, eng, zombie, req, faults>>
vars == <<stepVars, windows>>

Rounds == 1 .. MaxRound
Deadlines == {"none", "solo", "window"}
NoJob == [r |-> 0, refund |-> FALSE, fold |-> FALSE]
Booting == [cur |-> 0, open |-> FALSE, players |-> {}, close |-> "none", boot |-> "scan",
            todo |-> {}, live |-> 0, job |-> NoJob, fails |-> 0, retry |-> {}]
NoReq == [at |-> "none", r |-> 0]

TypeOK ==
  /\ AccountTypeOK
  /\ rnd \in [Rounds -> [status : {"none", "open", "drawn", "refunded"}, close : Deadlines,
                         entries : SUBSET Users, folded : BOOLEAN]]
  /\ passed \subseteq Rounds \X Deadlines
  /\ eng \in [cur : 0 .. MaxRound, open : BOOLEAN, players : SUBSET Users, close : Deadlines,
              boot : {"scan", "replay", "replaying", "open", "idle"}, todo : SUBSET Rounds,
              live : 0 .. MaxRound, fails : 0 .. Attempts, retry : SUBSET Rounds,
              job : [r : 0 .. MaxRound, refund : BOOLEAN, fold : BOOLEAN]]
  /\ zombie \in [r : 0 .. MaxRound, refund : BOOLEAN, fold : BOOLEAN]
  /\ req \in [Users -> [at : {"none", "checked", "entered"}, r : 0 .. MaxRound]]
  /\ faults \in 0 .. MaxFaults
  /\ windows \subseteq WindowNames

Init ==
  /\ AccountInit
  /\ rnd = [r \in Rounds |->
       [status |-> "none", close |-> "none", entries |-> {}, folded |-> FALSE]]
  /\ passed = {}
  /\ eng = Booting
  /\ zombie = NoJob
  /\ req = [u \in Users |-> NoReq]
  /\ faults = 0
  /\ windows \in WindowSets

Due(r, close) == <<r, close>> \in passed
Fault == faults < MaxFaults /\ faults' = faults + 1
Hit(w) == w \in windows

\* No entry of the round is on its way to the engine.
Noticed(r) == Hit("lateEntry") \/ \A u \in Users : req[u] # [at |-> "entered", r |-> r]

\* What RAM knows of the current round, the row knows too.
Kept ==
  \/ Hit("lostNotice")
  \/ /\ \A u \in Users : req[u].at # "entered"
     /\ eng.open => eng.close = rnd[eng.cur].close

-----------------------------------------------------------------------------
(* Booting: settle what is due, resume the newest round that is not, open  *)
(* a round only if none is live.                                           *)

\* recoverStrandedRounds: the open rounds, read once.
Scan ==
  /\ eng.boot = "scan"
  /\ LET stranded == {r \in Rounds : rnd[r].status = "open"}
         running  == {r \in stranded : ~Due(r, rnd[r].close)}
         live     == IF running = {} THEN 0 ELSE Max(running) IN
     eng' = [eng EXCEPT !.boot = IF stranded = {} THEN "open" ELSE "replay",
                        !.todo = stranded \ {live}, !.live = live]
  /\ UNCHANGED <<accountVars, rnd, passed, zombie, req, faults>>

\* The scan fails: the boot goes on as if nothing were stranded.
ScanFails ==
  /\ eng.boot = "scan" /\ Fault
  /\ eng' = [eng EXCEPT !.boot = "open"]
  /\ UNCHANGED <<accountVars, rnd, passed, zombie, req>>

\* rebuildRound: RAM from the row and its entries.
Rebuilt(r) ==
  [eng EXCEPT !.cur = r, !.open = TRUE, !.players = rnd[r].entries, !.close = rnd[r].close]

\* Mutant: one more player than MIN_PLAYERS is needed for the beacon.
NeedsBeaconLate(e) == e.close # "none" /\ Cardinality(e.players) > MinPlayers

\* settleRound: a draw, never a refund, folds the beacon in; judged in RAM.
NeedsBeacon(e) == e.close # "none" /\ Cardinality(e.players) >= MinPlayers

\* Mutant: a draw is retried for ever.
NeverGivesUp(e) == FALSE

\* Every retry has failed: give the stakes back.
GivesUp(e) == e.fails >= Attempts

\* drawAndSettle past its guards: what settleRound decides before it awaits.
Begin(e) ==
  [e EXCEPT !.job = [r |-> e.cur, refund |-> GivesUp(e),
                     fold |-> NeedsBeacon(e) /\ ~GivesUp(e)]]

\* The oldest stranded round is rebuilt and settled whatever its clock says; a
\* process that boots has no other settlement under way.
Replay ==
  /\ eng.boot = "replay" /\ eng.todo # {}
  /\ LET r == Min(eng.todo) IN
     /\ Noticed(r)
     /\ eng' = [Begin(Rebuilt(r)) EXCEPT !.boot = "replaying", !.todo = @ \ {r}]
  /\ UNCHANGED <<accountVars, rnd, passed, zombie, req, faults>>

\* The rebuild fails: the round is left as it is and the next one is taken.
ReplayFails ==
  /\ eng.boot = "replay" /\ eng.todo # {} /\ Fault
  /\ eng' = [eng EXCEPT !.todo = @ \ {Min(@)}]
  /\ UNCHANGED <<accountVars, rnd, passed, zombie, req>>

\* The live round becomes the current one again, with its clock.
Resume ==
  /\ eng.boot = "replay" /\ eng.todo = {}
  /\ eng' = IF eng.live = 0 THEN [eng EXCEPT !.boot = "open"]
            ELSE [Rebuilt(eng.live) EXCEPT !.boot = "idle"]
  /\ UNCHANGED <<accountVars, rnd, passed, zombie, req, faults>>

\* That rebuild fails: the round is left to the next boot, and a new one opened.
ResumeFails ==
  /\ eng.boot = "replay" /\ eng.todo = {} /\ eng.live # 0 /\ Fault
  /\ eng' = [eng EXCEPT !.boot = "open"]
  /\ UNCHANGED <<accountVars, rnd, passed, zombie, req>>

\* openNewRound: a round without a clock.
OpenNewRound ==
  /\ eng.boot = "open"
  /\ \E r \in Rounds :
       /\ rnd[r].status = "none" /\ \A q \in 1 .. r - 1 : rnd[q].status # "none"
       /\ rnd' = [rnd EXCEPT ![r].status = "open"]
       /\ eng' = [eng EXCEPT !.cur = r, !.open = TRUE, !.players = {}, !.close = "none",
                             !.fails = 0, !.boot = "idle"]
  /\ UNCHANGED <<accountVars, passed, zombie, req, faults>>

\* Bound: past the last round nothing more is opened, and the engine idles.
NoMoreRounds ==
  /\ eng.boot = "open" /\ \A r \in Rounds : rnd[r].status # "none"
  /\ eng' = [eng EXCEPT !.cur = 0, !.open = FALSE, !.boot = "idle"]
  /\ UNCHANGED <<accountVars, rnd, passed, zombie, req, faults>>

\* The round could not be stored: the boot sequence runs again.
OpenFails ==
  /\ eng.boot = "open" /\ Fault
  /\ eng' = [eng EXCEPT !.boot = "scan", !.retry = {}]
  /\ UNCHANGED <<accountVars, rnd, passed, zombie, req>>

-----------------------------------------------------------------------------
(* Entering: the engine's RAM is asked, the transaction debits, and the    *)
(* engine is told.                                                         *)

\* getOpenRound: open, and its deadline is not past.
Check(u) ==
  /\ req[u].at = "none"
  /\ eng.open /\ ~Due(eng.cur, eng.close)
  /\ req' = [req EXCEPT ![u] = [at |-> "checked", r |-> eng.cur]]
  /\ UNCHANGED <<accountVars, rnd, passed, eng, zombie, faults>>

\* The guarded write that makes the entry conditional on an open round.
StillOpen(r) == rnd[r].status = "open"

EnterTx(u) ==
  LET r == req[u].r IN
  /\ req[u].at = "checked"
  /\ StillOpen(r) /\ u \notin rnd[r].entries /\ CanDebit(u, Entry)
  /\ Hit("lateEntry") \/ r \notin {eng.job.r, zombie.r}
  /\ bal' = [bal EXCEPT ![u] = @ - Entry]
  /\ rnd' = [rnd EXCEPT ![r].entries = @ \cup {u}]
  /\ req' = [req EXCEPT ![u].at = "entered"]
  /\ UNCHANGED <<totalWon, totalLost, passed, eng, zombie, faults>>

\* The transaction is refused, and with it the debit.
Refuse(u) ==
  /\ req[u].at = "checked"
  /\ req' = [req EXCEPT ![u] = NoReq]
  /\ UNCHANGED <<accountVars, rnd, passed, eng, zombie, faults>>

\* The clock after an entry: the first player's wait, then the countdown.
Clock(before, after, close) ==
  CASE before = 0 /\ after < MinPlayers -> "solo"
    [] before < MinPlayers /\ after >= MinPlayers -> "window"
    [] OTHER -> close

\* onEntry: RAM and clock, if the round is still the one being driven.
OnEntry(u, stored) ==
  LET r == req[u].r
      players == eng.players \cup {u}
      close == Clock(Cardinality(eng.players), Cardinality(players), eng.close) IN
  /\ req[u].at = "entered"
  /\ req' = [req EXCEPT ![u] = NoReq]
  /\ IF eng.cur = r /\ eng.open
     THEN /\ eng' = [eng EXCEPT !.players = players, !.close = close]
          /\ rnd' = IF stored /\ close # eng.close THEN [rnd EXCEPT ![r].close = close] ELSE rnd
     ELSE UNCHANGED <<eng, rnd>>

Notice(u) ==
  /\ OnEntry(u, TRUE)
  /\ UNCHANGED <<accountVars, passed, zombie, faults>>

\* The update of the row fails: RAM alone knows the clock.
NoticeFails(u) ==
  /\ Fault
  /\ OnEntry(u, FALSE)
  /\ UNCHANGED <<accountVars, passed, zombie>>

\* Time passes.
Pass(r, close) ==
  /\ close # "none" /\ close \in {rnd[r].close} \cup (IF eng.cur = r THEN {eng.close} ELSE {})
  /\ passed' = passed \cup {<<r, close>>}
  /\ UNCHANGED <<accountVars, rnd, eng, zombie, req, faults>>

-----------------------------------------------------------------------------
(* Settling. *)

\* The timer, or the watchdog when no timer was armed.
Draw ==
  /\ eng.boot \in {"idle", "open"} /\ eng.job = NoJob
  /\ eng.open /\ Due(eng.cur, eng.close)
  /\ Noticed(eng.cur)
  /\ eng' = Begin(eng)
  /\ UNCHANGED <<accountVars, rnd, passed, zombie, req, faults>>

\* A scheduled retry: forced, but for the current round only.
Retry(r) ==
  /\ r \in eng.retry /\ Noticed(r)
  /\ eng' = LET e == [eng EXCEPT !.retry = @ \ {r}] IN
            IF e.job = NoJob /\ e.cur = r /\ e.open THEN Begin(e) ELSE e
  /\ UNCHANGED <<accountVars, rnd, passed, zombie, req, faults>>

\* Mutant: the flip to the terminal status is not guarded.
ClaimAlways(r) == TRUE

\* assertRoundClaimed: only the settler that takes the round out of 'open' goes on.
Claimable(r) == rnd[r].status = "open"

Share(total) == (total * 950) \div 1000

\* The serializable transaction: entries, claim, credits, totals.
SettleTx(j) ==
  LET r == j.r
      in == rnd[r].entries
      pot == Share(Entry * Cardinality(in)) IN
  /\ Claimable(r)
  /\ IF j.refund \/ Cardinality(in) < MinPlayers
     THEN /\ rnd' = [rnd EXCEPT ![r].status = "refunded"]
          /\ bal' = [u \in Users |-> bal[u] + IF u \in in THEN Entry ELSE 0]
          /\ UNCHANGED <<totalWon, totalLost>>
     ELSE \E w \in in :
          /\ rnd' = [rnd EXCEPT ![r] = [@ EXCEPT !.status = "drawn", !.folded = j.fold]]
          /\ bal' = [bal EXCEPT ![w] = @ + pot]
          /\ totalWon' = [totalWon EXCEPT ![w] = @ + Profit(pot - Entry)]
          /\ totalLost' = [u \in Users |-> totalLost[u] +
                IF u = w THEN Profit(Entry - pot) ELSE IF u \in in THEN Entry ELSE 0]

\* After the commit the next round is opened, unless recovery is going on.
Settle ==
  /\ eng.job # NoJob
  /\ SettleTx(eng.job)
  /\ eng' = [eng EXCEPT !.job = NoJob, !.fails = 0,
                        !.open = @ /\ eng.cur # eng.job.r,
                        !.boot = CASE @ = "replaying" -> "replay" [] @ = "idle" -> "open"
                                   [] OTHER -> @]
  /\ UNCHANGED <<passed, zombie, req, faults>>

\* Someone else has settled the round: nothing to do, and nothing more is opened.
ClaimLost ==
  /\ eng.job # NoJob /\ rnd[eng.job.r].status # "open"
  /\ eng' = [eng EXCEPT !.job = NoJob, !.boot = IF @ = "replaying" THEN "replay" ELSE @]
  /\ UNCHANGED <<accountVars, rnd, passed, zombie, req, faults>>

\* The settlement fails and is scheduled again; a boot that was replaying stops at it.
Failed ==
  eng' = [eng EXCEPT !.job = NoJob, !.retry = @ \cup {eng.job.r},
                     !.fails = IF @ < Attempts THEN @ + 1 ELSE @,
                     !.boot = IF @ = "replaying" THEN "idle" ELSE @]

\* The beacon has no answer, now or ever.
BeaconDown ==
  /\ eng.job.fold /\ Failed
  /\ UNCHANGED <<accountVars, rnd, passed, zombie, req, faults>>

SettleFails ==
  /\ eng.job # NoJob /\ Fault /\ Failed
  /\ UNCHANGED <<accountVars, rnd, passed, zombie, req>>

ZombieSettles ==
  /\ zombie # NoJob
  /\ SettleTx(zombie)
  /\ zombie' = NoJob
  /\ UNCHANGED <<passed, eng, req, faults>>

ZombieEnds ==
  /\ zombie # NoJob
  /\ zombie' = NoJob
  /\ UNCHANGED <<accountVars, rnd, passed, eng, req, faults>>

\* The process dies or stalls and another takes over; its requests go with it.
Crash ==
  /\ Fault
  /\ Kept
  /\ eng' = Booting
  /\ \/ zombie = NoJob /\ zombie' = eng.job
     \/ UNCHANGED zombie
  /\ req' = [u \in Users |-> NoReq]
  /\ UNCHANGED <<accountVars, rnd, passed>>

\* The container sleeps while nothing is being settled and boots again on the next
\* wake; requests that were under way are refused.
Reboot ==
  /\ eng.boot = "idle" /\ eng.job = NoJob /\ eng.retry = {}
  /\ Kept
  /\ eng' = Booting
  /\ req' = [u \in Users |-> NoReq]
  /\ UNCHANGED <<accountVars, rnd, passed, zombie, faults>>

EngineStep ==
  \/ Scan \/ Replay \/ Resume \/ OpenNewRound \/ NoMoreRounds \/ Draw \/ Settle \/ ClaimLost
  \/ \E r \in Rounds : Retry(r)

Step ==
  \/ EngineStep
  \/ ScanFails \/ ReplayFails \/ ResumeFails \/ OpenFails \/ BeaconDown \/ SettleFails
  \/ \E u \in Users : Check(u) \/ EnterTx(u) \/ Refuse(u) \/ Notice(u) \/ NoticeFails(u)
  \/ \E r \in Rounds, close \in Deadlines : Pass(r, close)
  \/ ZombieSettles \/ ZombieEnds \/ Crash \/ Reboot

Next == Step /\ UNCHANGED windows

Spec == Init /\ [][Next]_vars

(***************************************************************************)
(* Fairness: an await returns (EngineStep, BeaconDown being the answer the *)
(* beacon may give every time), timers fire and time passes, a request     *)
(* runs to its end, and a container that sleeps wakes up, as the hourly    *)
(* boots of the deployment make sure (jackpot.engine.ts:314-319).          *)
(***************************************************************************)
Fairness ==
  /\ WF_stepVars(EngineStep \/ BeaconDown)
  /\ \A u \in Users : WF_stepVars(Notice(u)) /\ WF_stepVars(EnterTx(u) \/ Refuse(u))
  /\ \A r \in Rounds, close \in Deadlines : WF_stepVars(Pass(r, close) /\ passed' # passed)
  /\ WF_stepVars(ZombieSettles \/ ZombieEnds)
  /\ SF_stepVars(Reboot)

FairSpec == Spec /\ Fairness

-----------------------------------------------------------------------------
(* No entry is orphaned and none is paid twice: a player's balance is what *)
(* they started with plus what their settled rounds won, less what they    *)
(* lost, less their entries in rounds still open, whatever settler commits *)
(* and whenever an entry does (jackpot.engine.ts:638-647).                 *)
PotConserved ==
  \A u \in Users :
    bal[u] = Funds + totalWon[u] - totalLost[u]
             - Entry * Cardinality({r \in Rounds : rnd[r].status = "open" /\ u \in rnd[r].entries})

(* A winner is never drawn from the server's seeds alone: every draw folds *)
(* in the beacon round published after entries closed, in recovery too     *)
(* (jackpot.engine.ts:649-652).  It takes both windows closed: settleRound *)
(* counts the players in RAM, its transaction counts the rows.             *)
DrawFoldsBeacon ==
  windows = {} => \A r \in Rounds : rnd[r].status = "drawn" => rnd[r].folded

(* A stake is never locked for good: whoever is in a round sees it drawn   *)
(* or refunded, whatever fails and even if the beacon never answers again  *)
(* (jackpot.engine.ts:97-99 and 883-885).  It takes lostNotice closed: a   *)
(* resumed row whose deadline was never stored has no clock.               *)
EntrySettles ==
  \A r \in Rounds :
    ("lostNotice" \notin windows /\ rnd[r].status = "open" /\ rnd[r].entries # {})
      ~> (rnd[r].status # "open")
=============================================================================
