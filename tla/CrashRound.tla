------------------------------ MODULE CrashRound ------------------------------
(***************************************************************************)
(* The crash game: the round loop of every API replica (CrashEngine), the  *)
(* leader election over a Redis lock (LeaderElection), the betting         *)
(* requests (CrashService), and the recovery of the rounds and the queued  *)
(* stakes that a restart, a fault or a change of leader leaves behind.     *)
(*                                                                         *)
(* A database transaction or a single statement is one step.  Everything a *)
(* handler does between two awaits is one step.  A replica may crash, be   *)
(* demoted or have its loop resumed between any two of them.               *)
(*                                                                         *)
(* Some interleavings break the ledger.  Each is a named window; Windows   *)
(* says which of them the environment may hit, so that the specification   *)
(* states both that value is conserved outside all of them and that each   *)
(* one alone is enough to lose or to create it.                            *)
(***************************************************************************)
EXTENDS Integers, FiniteSets, FiniteSetsExt, Functions

CONSTANTS
    Nodes,      \* API replicas
    Users,      \* players
    None,       \* no node, no user
    MaxRound,   \* bound: rounds ever created
    Stake,      \* the amount of every bet
    Funds,      \* what every player starts with
    MaxFaults,  \* bound: crashes, failed statements, stalls, lost leases
    Elected,    \* TRUE when Redis is configured and replicas elect a leader
    Queueing,   \* TRUE when players also schedule bets for the next round
    Windows     \* the windows the environment may hit

VARIABLES
    round,    \* CrashRound.status of every round
    row,      \* the CrashBet rows: what is riding and what is locked in
    sched,    \* the users with a ScheduledCrashBet row
    bal,      \* User.playBalance
    lock,     \* who holds lock:engine:crash in Redis
    eng,      \* the RAM of every replica
    writes,   \* statements sent to the database and not yet executed
    bet,      \* the bet request of every user, as CrashService.placeBet
    queued,   \* the schedule or cancel request of every user
    due,      \* history: what a bet is still owed
    known,    \* history: the value of a bet as last acknowledged to its player
    owed,     \* history: scheduled stakes taken and neither bound nor returned
    faults    \* faults left

vars == <<round, row, sched, bal, lock, eng, writes, bet, queued,
          due, known, owed, faults>>

Rounds == 1..MaxRound
Open == {"waiting", "running"}
Position == [rem : 0..Stake, pay : 0..(2 * Stake)]

\* The multiplier of every cash-out: a stand-in for any multiplier above 1.
Multiplier == 2

Put(f, k, v) == [x \in DOMAIN f \cup {k} |-> IF x = k THEN v ELSE f[x]]
Drop(f, k) == [x \in DOMAIN f \ {k} |-> f[x]]
Nothing == [x \in {} |-> 0]

\* A process that is not running; also what the next process starts from.
Off == [up |-> FALSE, leader |-> FALSE, loop |-> "idle", cur |-> 0,
        phase |-> "waiting", closed |-> FALSE, bets |-> Nothing,
        queue |-> {}, seen |-> {}, todo |-> {}, snap |-> Nothing,
        left |-> {}, mode |-> "run", draining |-> FALSE, binding |-> None,
        settling |-> FALSE, tosettle |-> Nothing]

Idle == [at |-> "idle", node |-> None, r |-> 0]

Init ==
    /\ round = [r \in Rounds |-> "none"]
    /\ row = Nothing
    /\ sched = {}
    /\ bal = [u \in Users |-> Funds]
    /\ lock = None
    /\ eng = [n \in Nodes |-> Off]
    /\ writes = {}
    /\ bet = [u \in Users |-> Idle]
    /\ queued = [u \in Users |-> Idle]
    /\ due = [k \in Rounds \X Users |-> 0]
    /\ known = [k \in Rounds \X Users |-> 0]
    /\ owed = [u \in Users |-> 0]
    /\ faults = MaxFaults

Set(n, e) == eng' = [eng EXCEPT ![n] = e]

\* Statements that only change the RAM of replicas.
RamOnly == UNCHANGED <<round, row, sched, bal, lock, writes, bet, queued,
                       due, known, owed>>

Fault == faults > 0 /\ faults' = faults - 1
NoFault == faults' = faults

\* applyBalanceDelta for every bet of a settled or recovered round.
Credited(amounts) ==
    [u \in Users |-> bal[u] + (IF u \in DOMAIN amounts THEN amounts[u] ELSE 0)]

Discharged(r, amounts) ==
    [k \in Rounds \X Users |->
        IF k[1] = r /\ k[2] \in DOMAIN amounts
        THEN due[k] - amounts[k[2]] ELSE due[k]]

-----------------------------------------------------------------------------
(* Windows. *)

Hit(w) == w \in Windows

\* A request whose row is committed and whose fate the engine has not decided,
\* or whose refund and row deletion are not both done.
Unanswered(r) ==
    \E u \in Users : bet[u].r = r /\ bet[u].at \in {"answer", "refund", "delete"}

\* A recovery pass has read the bets of round r and is about to claim it.
BeingClaimed(r) ==
    \E n \in Nodes : eng[n].loop = "claim" /\ r = Min(eng[n].todo)

\* No recovery pass will look at the bets of round r again.
Abandoned(r) == BeingClaimed(r) \/ round[r] = "busted"

\* A late bet on its way back: refunded with its row still there, or debited
\* in a round where no recovery will look.
HalfReturned(q) ==
    \/ q.at = "delete"
    \/ q.at \in {"answer", "refund"} /\ Abandoned(q.r)

Interruptible(n) ==
    Hit("refundGap") \/ \A u \in Users : bet[u].node = n => ~HalfReturned(bet[u])

-----------------------------------------------------------------------------
(* Processes and leader election. *)

\* The loop begins with the recovery of stranded rounds.  A new leader ("boot")
\* recovers scheduled bets too; a resumed loop ("resume") does not.
Recovering(e, mode) ==
    [e EXCEPT !.loop = "scan", !.mode = mode, !.todo = {}, !.snap = Nothing,
              !.binding = None, !.bets = Drop(@, e.binding)]

\* assumeLeadership: reset the timers and start over with recovery.
Leading(e) == Recovering([e EXCEPT !.leader = TRUE], "boot")

\* onChange(false): the timers are reset and the replica stands by.  A recovery
\* pass or a placement of queued bets that is under way runs to its end.
Demoted(e) ==
    [e EXCEPT !.leader = FALSE,
              !.loop = IF @ \in {"scan", "read", "claim", "orphans", "bind"}
                       THEN @ ELSE "idle"]

Boot(n) ==
    /\ ~eng[n].up
    /\ LET e == [Off EXCEPT !.up = TRUE] IN
       IF ~Elected THEN Set(n, Leading(e)) /\ lock' = lock
       ELSE IF lock = None THEN Set(n, Leading(e)) /\ lock' = n
       ELSE Set(n, e) /\ lock' = lock
    /\ NoFault
    /\ UNCHANGED <<round, row, sched, bal, writes, bet, queued, due, known, owed>>

\* LeaderElection.tick, run by a timer in every replica.
Tick(n) ==
    /\ Elected /\ eng[n].up
    /\ \/ /\ lock = None /\ lock' = n
          /\ Set(n, IF eng[n].leader THEN eng[n] ELSE Leading(eng[n]))
       \/ /\ lock \notin {None, n} /\ eng[n].leader /\ lock' = lock
          /\ Set(n, Demoted(eng[n]))
    /\ NoFault
    /\ UNCHANGED <<round, row, sched, bal, writes, bet, queued, due, known, owed>>

\* tick caught an exception: Redis is unreachable and leadership is given up.
Hiccup(n) ==
    /\ Elected /\ eng[n].up /\ eng[n].leader
    /\ Set(n, Demoted(eng[n]))
    /\ Fault
    /\ RamOnly

\* The lease runs out.  A leader that still runs has not noticed.
Expire ==
    /\ lock # None
    /\ IF eng[lock].leader THEN Fault ELSE NoFault
    /\ lock' = None
    /\ UNCHANGED <<round, row, sched, bal, eng, writes, bet, queued, due, known, owed>>

\* The process dies, and with it its requests and what it had not yet sent.
Die(n) ==
    /\ Set(n, Off)
    /\ writes' = {w \in writes : w.node # n}
    /\ bet' = [u \in Users |-> IF bet[u].node = n THEN Idle ELSE bet[u]]
    /\ queued' = [u \in Users |-> IF queued[u].node = n THEN Idle ELSE queued[u]]
    /\ UNCHANGED <<round, row, sched, bal, due, known, owed>>

Crash(n) ==
    /\ eng[n].up
    /\ Interruptible(n)
    /\ Fault
    /\ Die(n)
    /\ lock' = lock

\* resume: a guarded step failed, or the watchdog saw no progress for longer
\* than any pause of a healthy loop and any attempt to settle can last.
Resume(n) ==
    /\ eng[n].up /\ eng[n].leader /\ ~eng[n].draining
    /\ eng[n].mode # "resume"
    /\ eng[n].loop \notin {"window", "gap"} /\ ~eng[n].settling
    /\ Set(n, Recovering(eng[n], "resume"))
    /\ Fault
    /\ RamOnly

\* roundInFlight
RoundInFlight(e) ==
    \/ e.settling
    \/ e.phase = "running"
    \/ e.phase = "waiting" /\ DOMAIN e.bets # {}

\* drain: no new bets or rounds, queued stakes are returned.
DrainServer(n) ==
    /\ eng[n].up /\ eng[n].leader /\ ~eng[n].draining /\ eng[n].cur # 0
    /\ Set(n, [eng[n] EXCEPT !.draining = TRUE, !.queue = {}, !.left = sched])
    /\ Fault
    /\ RamOnly

\* onModuleDestroy after the drain: the lock is released if still held.
Leave(n) ==
    /\ eng[n].draining /\ eng[n].left = {}
    /\ Interruptible(n)
    /\ lock' = IF lock = n THEN None ELSE lock
    /\ NoFault
    /\ Die(n)

\* The drain ends when no round is in flight, or at its deadline.
Stop(n) == ~RoundInFlight(eng[n]) /\ Leave(n)
DrainTimesOut(n) == RoundInFlight(eng[n]) /\ Leave(n)

-----------------------------------------------------------------------------
(* Recovery. *)

\* Where the loop goes once no stranded round is left to look at.
AfterRounds(e) ==
    IF e.mode = "boot"
    THEN [e EXCEPT !.loop = "orphans", !.left = sched, !.todo = {}, !.snap = Nothing]
    ELSE [e EXCEPT !.loop = "open", !.todo = {}, !.snap = Nothing]

Proceed(e, todo) ==
    IF todo = {} THEN AfterRounds(e)
    ELSE [e EXCEPT !.loop = "read", !.todo = todo, !.snap = Nothing]

Scan(n) ==
    /\ eng[n].loop = "scan"
    /\ Set(n, Proceed(eng[n], {r \in Rounds : round[r] \in Open}))
    /\ NoFault /\ RamOnly

\* The bets are read before the transaction that claims the round.
ReadBets(n) ==
    /\ eng[n].loop = "read"
    /\ LET r == Min(eng[n].todo) IN
       /\ Hit("lateAnswer") \/ ~Unanswered(r)
       /\ Hit("lateCashOut") \/ \A w \in writes : w.kind = "run" \/ w.r # r
       /\ Set(n, [eng[n] EXCEPT !.loop = "claim",
                    !.snap = [u \in {v \in Users : <<r, v>> \in DOMAIN row}
                                |-> row[r, u]]])
    /\ NoFault /\ RamOnly

\* Mutant: the flip to terminal is not guarded by the status.
ClaimAlways(r) == TRUE

\* assertRoundClaimed: the guarded flip matched the row.
Claimable(r) == round[r] \in Open

\* One recovery transaction: claim, credit locked-in payouts and riding
\* stakes, close the bets.  It fails as a whole when a bet it read is gone.
Recover(n) ==
    /\ eng[n].loop = "claim"
    /\ LET e == eng[n]
           r == Min(e.todo)
           amounts == [u \in DOMAIN e.snap |-> e.snap[u].rem + e.snap[u].pay]
           live == \A u \in DOMAIN e.snap : <<r, u>> \in DOMAIN row
       IN
       /\ Hit("lateRunning") \/ \A w \in writes : ~(w.kind = "run" /\ w.r = r)
       /\ IF Claimable(r) /\ live
          THEN /\ round' = [round EXCEPT ![r] = "busted"]
               /\ row' = [k \in DOMAIN row |->
                            IF k[1] = r /\ k[2] \in DOMAIN e.snap
                            THEN [rem |-> 0, pay |-> e.snap[k[2]].pay] ELSE row[k]]
               /\ bal' = Credited(amounts)
               /\ due' = Discharged(r, amounts)
          ELSE UNCHANGED <<round, row, bal, due>>
       /\ Set(n, Proceed(e, e.todo \ {r}))
    /\ NoFault
    /\ UNCHANGED <<sched, lock, writes, bet, queued, known, owed>>

\* The transaction failed: dead-letter it and go on with the next round.
RecoverFails(n) ==
    /\ eng[n].loop = "claim"
    /\ Set(n, Proceed(eng[n], eng[n].todo \ {Min(eng[n].todo)}))
    /\ Fault /\ RamOnly

\* recoverScheduledBets, for one row of the scan: the stake goes back and the
\* row goes away together, or neither when someone else took the row.
RecoverScheduled(n, u) ==
    /\ u \in eng[n].left
    /\ Set(n, [eng[n] EXCEPT !.left = @ \ {u}])
    /\ IF u \in sched
       THEN /\ sched' = sched \ {u}
            /\ bal' = [bal EXCEPT ![u] = @ + Stake]
            /\ owed' = [owed EXCEPT ![u] = @ - Stake]
       ELSE UNCHANGED <<sched, bal, owed>>
    /\ NoFault
    /\ UNCHANGED <<round, row, lock, writes, bet, queued, due, known>>

\* The history is loaded and the new leader opens its first round.
Recovered(n) ==
    /\ eng[n].loop = "orphans" /\ eng[n].left = {}
    /\ Set(n, [eng[n] EXCEPT !.loop = "open"])
    /\ NoFault /\ RamOnly

-----------------------------------------------------------------------------
(* The round loop. *)

FullStake == [rem |-> Stake, pay |-> 0]

\* placeBet in RAM for queued player u, after it threw for the players T: where
\* it throws, the catch deletes the player from the round.
Seated(e, u, T) ==
    [e EXCEPT !.loop = "bind", !.binding = u, !.seen = @ \cup T \cup {u},
              !.bets = Put(Restrict(@, DOMAIN @ \ T), u, FullStake)]

\* The loop of startNewRound over the queue, up to its next await: placeBet in
\* RAM for the next queued player (then the transaction that binds the stake),
\* or, with nobody left, the queue is cleared and the window's timer armed.
Placed(e) ==
    LET rest == e.queue \ e.seen
        free == IF e.draining THEN {} ELSE rest \ DOMAIN e.bets
    IN IF free = {}
       THEN {[e EXCEPT !.loop = IF e.leader THEN "window" ELSE "idle", !.mode = "run",
                       !.queue = {}, !.seen = {}, !.bets = Restrict(@, DOMAIN @ \ rest)]}
       ELSE {Seated(e, u, T) : u \in free, T \in SUBSET (rest \ free)}

\* startNewRound up to its first await after the new round is installed; a
\* draining or demoted replica opens none and its chain ends.
OpenRound(n) ==
    /\ eng[n].loop = "open"
    /\ IF ~eng[n].leader \/ eng[n].draining
       THEN Set(n, [eng[n] EXCEPT !.loop = "idle"]) /\ round' = round
       ELSE /\ Hit("staleSettle") \/ ~eng[n].settling
            /\ \E r \in Rounds :
                 /\ round[r] = "none" /\ \A q \in 1..(r - 1) : round[q] # "none"
                 /\ round' = [round EXCEPT ![r] = "waiting"]
                 /\ \E e \in Placed([eng[n] EXCEPT !.cur = r, !.phase = "waiting",
                                        !.closed = FALSE, !.bets = Nothing, !.seen = {}]) :
                      Set(n, e)
    /\ NoFault
    /\ UNCHANGED <<row, sched, bal, lock, writes, bet, queued, due, known, owed>>

\* Mutant: deleteMany instead of delete; a cancelled stake still binds.
BindWithoutRow(u, k) == k \notin DOMAIN row

\* Both statements of the binding transaction match: no bet of the player in
\* this round, and the scheduled row has not been taken by a cancel.
Bindable(u, k) == u \in sched /\ k \notin DOMAIN row

\* The transaction that binds the stake: create the CrashBet and delete the
\* ScheduledCrashBet together, or neither.
BindQueued(n) ==
    /\ eng[n].loop = "bind"
    /\ LET e == [eng[n] EXCEPT !.binding = None]
           u == eng[n].binding
           k == <<e.cur, u>>
       IN IF Bindable(u, k)
          THEN /\ row' = Put(row, k, FullStake)
               /\ sched' = sched \ {u}
               /\ owed' = [owed EXCEPT ![u] = @ - Stake]
               /\ due' = [due EXCEPT ![k] = @ + Stake]
               /\ known' = [known EXCEPT ![k] = Stake]
               /\ \E f \in Placed(e) : Set(n, f)
          ELSE /\ \E f \in Placed([e EXCEPT !.bets = Drop(@, u)]) : Set(n, f)
               /\ UNCHANGED <<row, sched, owed, due, known>>
    /\ NoFault
    /\ UNCHANGED <<round, bal, lock, writes, bet, queued>>

\* The transaction failed: the scheduled stake waits for the next boot.
BindFails(n) ==
    /\ eng[n].loop = "bind"
    /\ \E e \in Placed([eng[n] EXCEPT !.binding = None,
                                      !.bets = Drop(@, eng[n].binding)]) : Set(n, e)
    /\ Fault /\ RamOnly

\* beginRun: stop taking bets and wait for the beacon.
CloseBets(n) ==
    /\ eng[n].loop = "window"
    /\ Set(n, IF eng[n].leader THEN [eng[n] EXCEPT !.loop = "beacon", !.closed = TRUE]
              ELSE [eng[n] EXCEPT !.loop = "idle"])
    /\ NoFault /\ RamOnly

\* No beacon value in time: the round is voided by recovery.
BeaconFails(n) ==
    /\ eng[n].loop = "beacon"
    /\ Set(n, IF eng[n].leader /\ ~eng[n].draining THEN Recovering(eng[n], "resume")
              ELSE [eng[n] EXCEPT !.loop = "idle"])
    /\ Fault /\ RamOnly

\* The beacon answered: the round runs in RAM, the status write is sent.
Run(n) ==
    /\ eng[n].loop = "beacon"
    /\ Hit("lateRunning") \/ round[eng[n].cur] # "busted"
    /\ Set(n, [eng[n] EXCEPT !.loop = "starting", !.phase = "running"])
    /\ writes' = writes \cup {[kind |-> "run", node |-> n, r |-> eng[n].cur,
                               u |-> None, rem |-> 0, pay |-> 0]}
    /\ NoFault
    /\ UNCHANGED <<round, row, sched, bal, lock, bet, queued, due, known, owed>>

\* The status the write leaves behind, whatever it was.
RunningFrom(status) == "running"

\* The status write executes; the ticks begin.
RunWritten(w) ==
    /\ w \in writes /\ w.kind = "run"
    /\ writes' = writes \ {w}
    /\ round' = [round EXCEPT ![w.r] = RunningFrom(@)]
    /\ eng' = [eng EXCEPT ![w.node] =
                 IF @.loop = "starting" /\ @.cur = w.r THEN [@ EXCEPT !.loop = "fly"] ELSE @]
    /\ NoFault
    /\ UNCHANGED <<row, sched, bal, lock, bet, queued, due, known, owed>>

\* A tick found the multiplier at the bust point.
Bust(n) ==
    /\ eng[n].loop = "fly"
    /\ Set(n, IF eng[n].leader
              THEN [eng[n] EXCEPT !.loop = "settle", !.phase = "busted",
                                  !.settling = TRUE, !.tosettle = eng[n].bets]
              ELSE [eng[n] EXCEPT !.loop = "idle"])
    /\ NoFault /\ RamOnly

\* settleOnce: re-assert leadership, claim the CURRENT round, pay what the
\* bets captured at the bust locked in.  Losing the claim pays nobody.
Settle(n) ==
    /\ eng[n].settling
    /\ LET e == eng[n]
           r == e.cur
           bets == e.tosettle
       IN
       /\ IF e.leader /\ Claimable(r)
          THEN /\ round' = [round EXCEPT ![r] = "busted"]
               /\ row' = [k \in DOMAIN row \cup {<<r, u>> : u \in DOMAIN bets} |->
                            IF k[1] = r /\ k[2] \in DOMAIN bets
                            THEN [rem |-> 0, pay |-> bets[k[2]].pay] ELSE row[k]]
               /\ bal' = Credited([u \in DOMAIN bets |-> bets[u].pay])
               /\ due' = [k \in Rounds \X Users |->
                            IF k[1] # r \/ k[2] \notin DOMAIN bets THEN due[k]
                            ELSE IF due[k] = known[k] THEN 0
                            ELSE due[k] - bets[k[2]].pay]
          ELSE UNCHANGED <<round, row, bal, due>>
       /\ Set(n, [e EXCEPT !.settling = FALSE, !.tosettle = Nothing,
                           !.loop = IF @ = "settle" THEN "gap" ELSE @])
    /\ NoFault
    /\ UNCHANGED <<sched, lock, writes, bet, queued, known, owed>>

\* Mutant: the loop stops on a settle that failed for good.
SettleFailsFreezes(n) ==
    /\ eng[n].settling
    /\ Set(n, [eng[n] EXCEPT !.settling = FALSE, !.tosettle = Nothing, !.loop = "idle"])
    /\ Fault /\ RamOnly

\* Every attempt failed: leave the round to recovery and go on.
SettleFails(n) ==
    /\ eng[n].settling
    /\ LET e == [eng[n] EXCEPT !.settling = FALSE, !.tosettle = Nothing] IN
       Set(n, IF e.loop # "settle" THEN e
              ELSE IF e.leader /\ ~e.draining THEN Recovering(e, "resume")
              ELSE [e EXCEPT !.loop = "idle"])
    /\ Fault /\ RamOnly

\* The pause between rounds is over; a draining server stops here.
NextRound(n) ==
    /\ eng[n].loop = "gap"
    /\ Set(n, [eng[n] EXCEPT !.loop = IF eng[n].draining THEN "idle" ELSE "open"])
    /\ NoFault /\ RamOnly

-----------------------------------------------------------------------------
(* Requests: an immediate bet. *)

\* placeBet reads the id of the current round.
Ask(u, n) ==
    /\ bet[u].at = "idle" /\ eng[n].up /\ eng[n].cur # 0
    /\ bet' = [bet EXCEPT ![u] = [at |-> "tx", node |-> n, r |-> eng[n].cur]]
    /\ NoFault
    /\ UNCHANGED <<round, row, sched, bal, lock, eng, writes, queued, due, known, owed>>

\* Mutant: a duplicate row is skipped and the bet goes on to the engine.
NeverDuplicate(k) == FALSE

\* skipDuplicates plus the count check: a second bet in a round rolls back.
Duplicate(k) == k \in DOMAIN row

\* engine.placeBet: is the window of this round open for this player?
Accepts(e, u, r) ==
    /\ ~e.draining
    /\ e.phase = "waiting" /\ ~e.closed
    /\ e.cur = r
    /\ u \notin DOMAIN e.bets

\* Mutant: the balance is not checked.
DebitOverdraft(u) ==
    /\ bet[u].at = "tx"
    /\ bet' = [bet EXCEPT ![u].at = "answer"]
    /\ bal' = [bal EXCEPT ![u] = @ - Stake]
    /\ row' = Put(row, <<bet[u].r, u>>, FullStake)
    /\ due' = [due EXCEPT ![<<bet[u].r, u>>] = @ + Stake]
    /\ known' = [known EXCEPT ![<<bet[u].r, u>>] = Stake]
    /\ NoFault
    /\ UNCHANGED <<round, sched, lock, eng, writes, queued, owed>>

\* The debit and the durable row, in one transaction.
Debit(u) ==
    /\ bet[u].at = "tx"
    /\ Hit("openRound")
         \/ ~(Abandoned(bet[u].r) /\ Accepts(eng[bet[u].node], u, bet[u].r))
    /\ LET k == <<bet[u].r, u>> IN
       IF bal[u] < Stake \/ Duplicate(k)
       THEN /\ bet' = [bet EXCEPT ![u] = Idle]
            /\ UNCHANGED <<row, bal, due, known>>
       ELSE /\ bet' = [bet EXCEPT ![u].at = "answer"]
            /\ bal' = [bal EXCEPT ![u] = @ - Stake]
            /\ row' = Put(row, k, IF k \in DOMAIN row THEN row[k] ELSE FullStake)
            /\ due' = [due EXCEPT ![k] = @ + Stake]
            /\ known' = [known EXCEPT ![k] = Stake]
    /\ NoFault
    /\ UNCHANGED <<round, sched, lock, eng, writes, queued, owed>>

Answer(u) ==
    /\ bet[u].at = "answer"
    /\ LET n == bet[u].node
           r == bet[u].r
       IN
       IF Accepts(eng[n], u, r)
       THEN /\ Hit("openRound") \/ ~Abandoned(r)
            /\ Hit("drainCollision")
                 \/ eng[n].loop # "bind"
                 \/ u \notin eng[n].queue \ eng[n].seen
            /\ Set(n, [eng[n] EXCEPT !.bets = Put(@, u, FullStake)])
            /\ bet' = [bet EXCEPT ![u] = Idle]
       ELSE /\ bet' = [bet EXCEPT ![u].at = "refund"]
            /\ eng' = eng
    /\ NoFault
    /\ UNCHANGED <<round, row, sched, bal, lock, writes, queued, due, known, owed>>

\* The engine refused: first the stake goes back ...
Refund(u) ==
    /\ bet[u].at = "refund"
    /\ bal' = [bal EXCEPT ![u] = @ + Stake]
    /\ due' = [due EXCEPT ![<<bet[u].r, u>>] = @ - Stake]
    /\ bet' = [bet EXCEPT ![u].at = "delete"]
    /\ NoFault
    /\ UNCHANGED <<round, row, sched, lock, eng, writes, queued, known, owed>>

\* ... and then, in a statement of its own, the row is deleted.
DeleteRow(u) ==
    /\ bet[u].at = "delete"
    /\ row' = Drop(row, <<bet[u].r, u>>)
    /\ bet' = [bet EXCEPT ![u] = Idle]
    /\ NoFault
    /\ UNCHANGED <<round, sched, bal, lock, eng, writes, queued, due, known, owed>>

-----------------------------------------------------------------------------
(* Requests: cashing out, by hand or by the auto-cashout of a tick. *)

CashOut(u, n) ==
    /\ eng[n].phase = "running" /\ u \in DOMAIN eng[n].bets
    /\ LET b == eng[n].bets[u]
           r == eng[n].cur
       IN \E k \in 1..b.rem :
            LET c == [rem |-> b.rem - k, pay |-> b.pay + Multiplier * k] IN
            /\ Hit("lateCashOut") \/ ~Abandoned(r)
            /\ Set(n, [eng[n] EXCEPT !.bets = Put(@, u, c)])
            /\ writes' = writes \cup {[kind |-> "cash", node |-> n, r |-> r,
                                       u |-> u, rem |-> c.rem, pay |-> c.pay]}
    /\ NoFault
    /\ UNCHANGED <<round, row, sched, bal, lock, bet, queued, due, known, owed>>

\* Mutant: the update leaves the riding stake as it was.
StoredPayoutOnly(w) == [rem |-> Stake, pay |-> w.pay]

\* What the CrashBet update stores: the position when the write was sent.
Stored(w) == [rem |-> w.rem, pay |-> w.pay]

\* The CrashBet update executes and the player is told.
CashWritten(w) ==
    /\ w \in writes /\ w.kind = "cash"
    /\ Hit("reorder") \/ \A v \in writes : ~(v.r = w.r /\ v.u = w.u /\ v.pay < w.pay)
    /\ writes' = writes \ {w}
    /\ LET k == <<w.r, w.u>>
           value == w.rem + w.pay
       IN IF k \in DOMAIN row
          THEN /\ row' = [row EXCEPT ![k] = Stored(w)]
               /\ IF round[w.r] \in Open /\ value > known[k]
                  THEN /\ known' = [known EXCEPT ![k] = value]
                       /\ due' = [due EXCEPT ![k] = @ + (value - known[k])]
                  ELSE UNCHANGED <<known, due>>
          ELSE UNCHANGED <<row, known, due>>
    /\ NoFault
    /\ UNCHANGED <<round, sched, bal, lock, eng, bet, queued, owed>>

\* The update failed: the error is logged, the position in RAM stays.
CashFails(w) ==
    /\ w \in writes /\ w.kind = "cash"
    /\ writes' = writes \ {w}
    /\ Fault
    /\ UNCHANGED <<round, row, sched, bal, lock, eng, bet, queued, due, known, owed>>

-----------------------------------------------------------------------------
(* Requests: a bet for the next round, and taking it back. *)

\* The debit and the ScheduledCrashBet row, in one transaction.  A row has an
\* id of its own: a recovery that read the user's earlier row does not match it.
Schedule(u, n) ==
    /\ Queueing
    /\ queued[u].at = "idle" /\ eng[n].up
    /\ bal[u] >= Stake /\ u \notin sched
    /\ bal' = [bal EXCEPT ![u] = @ - Stake]
    /\ sched' = sched \cup {u}
    /\ owed' = [owed EXCEPT ![u] = @ + Stake]
    /\ queued' = [queued EXCEPT ![u] = [at |-> "answer", node |-> n, r |-> 0]]
    /\ eng' = [m \in Nodes |-> [eng[m] EXCEPT !.left = @ \ {u}]]
    /\ NoFault
    /\ UNCHANGED <<round, row, lock, writes, bet, due, known>>

\* engine.scheduleBet, or the refund together with the row when it throws.
Enqueue(u) ==
    /\ queued[u].at = "answer"
    /\ LET n == queued[u].node IN
       IF ~eng[n].draining /\ u \notin eng[n].queue
       THEN /\ Hit("drainCollision")
                 \/ ~(eng[n].loop = "bind" /\ u \in DOMAIN eng[n].bets)
            /\ Set(n, [eng[n] EXCEPT !.queue = @ \cup {u}])
            /\ queued' = [queued EXCEPT ![u] = Idle]
       ELSE /\ queued' = [queued EXCEPT ![u].at = "refund"]
            /\ eng' = eng
    /\ NoFault
    /\ UNCHANGED <<round, row, sched, bal, lock, writes, bet, due, known, owed>>

RefundScheduled(u) ==
    /\ queued[u].at = "refund"
    /\ Hit("staleQueue") \/ u \in sched
    /\ bal' = [bal EXCEPT ![u] = @ + Stake]
    /\ sched' = sched \ {u}
    /\ owed' = [owed EXCEPT ![u] = @ - Stake]
    /\ queued' = [queued EXCEPT ![u] = Idle]
    /\ NoFault
    /\ UNCHANGED <<round, row, lock, eng, writes, bet, due, known>>

\* cancelScheduled: the row and the refund first, the queue entry after.
Cancel(u, n) ==
    /\ queued[u].at = "idle" /\ eng[n].up
    /\ u \in sched
    /\ bal' = [bal EXCEPT ![u] = @ + Stake]
    /\ sched' = sched \ {u}
    /\ owed' = [owed EXCEPT ![u] = @ - Stake]
    /\ queued' = [queued EXCEPT ![u] = [at |-> "dequeue", node |-> n, r |-> 0]]
    /\ NoFault
    /\ UNCHANGED <<round, row, lock, eng, writes, bet, due, known>>

Dequeue(u) ==
    /\ queued[u].at = "dequeue"
    /\ LET n == queued[u].node IN Set(n, [eng[n] EXCEPT !.queue = @ \ {u}])
    /\ queued' = [queued EXCEPT ![u] = Idle]
    /\ NoFault
    /\ UNCHANGED <<round, row, sched, bal, lock, writes, bet, due, known, owed>>

-----------------------------------------------------------------------------
\* The bound on rounds is reached; the game itself goes on for ever.
RoundsExhausted == round[MaxRound] # "none" /\ UNCHANGED vars

Next ==
    \/ Expire \/ RoundsExhausted
    \/ \E n \in Nodes :
         \/ Boot(n) \/ Tick(n) \/ Hiccup(n) \/ Crash(n) \/ Resume(n)
         \/ DrainServer(n) \/ Stop(n) \/ DrainTimesOut(n)
         \/ Scan(n) \/ ReadBets(n) \/ Recover(n) \/ RecoverFails(n)
         \/ Recovered(n)
         \/ OpenRound(n) \/ BindQueued(n) \/ BindFails(n)
         \/ CloseBets(n) \/ BeaconFails(n) \/ Run(n)
         \/ Bust(n) \/ Settle(n) \/ SettleFails(n) \/ NextRound(n)
    \/ \E w \in writes : RunWritten(w) \/ CashWritten(w) \/ CashFails(w)
    \/ \E u \in Users :
         \/ Debit(u) \/ Answer(u) \/ Refund(u) \/ DeleteRow(u)
         \/ Enqueue(u) \/ RefundScheduled(u) \/ Dequeue(u)
         \/ \E n \in Nodes :
              \/ Ask(u, n) \/ CashOut(u, n) \/ RecoverScheduled(n, u)
              \/ Schedule(u, n) \/ Cancel(u, n)

Spec == Init /\ [][Next]_vars

\* The steps of a replica that its timers and its database drive to an end.
\* A dead process is started again; a lease nobody renews runs out.
Steps(n) ==
    \/ Boot(n) \/ Scan(n) \/ ReadBets(n) \/ Recover(n) \/ Recovered(n)
    \/ \E u \in Users : RecoverScheduled(n, u)
    \/ OpenRound(n) \/ BindQueued(n) \/ CloseBets(n) \/ Run(n)
    \/ \E w \in writes : w.node = n /\ RunWritten(w)
    \/ Bust(n) \/ Settle(n) \/ NextRound(n) \/ Stop(n) \/ DrainTimesOut(n)

Fairness ==
    /\ \A n \in Nodes : WF_vars(Steps(n)) /\ WF_vars(Tick(n))
    /\ WF_vars(Expire /\ ~eng[lock].leader)

FairSpec == Spec /\ Fairness

-----------------------------------------------------------------------------
(* Properties. *)

\* The type of every variable: balances never go below zero, a replica's
\* state is one its code can be in.
TypeOK ==
    /\ round \in [Rounds -> {"none", "waiting", "running", "busted"}]
    /\ DOMAIN row \subseteq Rounds \X Users
    /\ \A k \in DOMAIN row : row[k] \in Position
    /\ sched \subseteq Users
    /\ bal \in [Users -> Nat]
    /\ lock \in Nodes \cup {None}
    /\ \A n \in Nodes : LET e == eng[n] IN
         /\ {e.up, e.leader, e.closed, e.draining, e.settling} \subseteq BOOLEAN
         /\ e.cur \in 0..MaxRound /\ e.todo \subseteq Rounds
         /\ e.phase \in {"waiting", "running", "busted"}
         /\ DOMAIN e.bets \cup e.queue \cup e.left \subseteq Users
         /\ \A u \in DOMAIN e.bets : e.bets[u] \in Position
         /\ e.loop = "claim" => e.todo # {}
         /\ e.loop = "bind" => e.binding \in DOMAIN e.bets

\* Value is conserved, bet by bet: no settlement, recovery or refund pays a
\* bet more than it is owed, and once its round is over and its request has
\* been answered nothing is owed.  A stake that was debited is settled by the
\* bust, returned by recovery or refunded, exactly once.
BetConserved ==
    \A r \in Rounds, u \in Users :
        /\ due[r, u] >= 0
        /\ round[r] = "busted" /\ bet[u].r # r => due[r, u] = 0

\* A scheduled stake is held by its row and by nothing else: recovery, the
\* cancel, the rejected request and the round it is bound to take the row
\* before they take the stake.
ScheduledStakeOnce ==
    \A u \in Users : owed[u] = IF u \in sched THEN Stake ELSE 0

\* Whoever rides an open round in RAM has a durable row in it, so that a
\* cash-out can be stored and a restart can return the stake.
RiderHasRow ==
    \A n \in Nodes : \A u \in DOMAIN eng[n].bets \ {eng[n].binding} :
        <<eng[n].cur, u>> \in DOMAIN row

\* The game never freezes: after any sequence of crashes, failed statements,
\* lost leases and shutdowns the loop of some replica opens the next round.
GameGoesOn == <>(round[MaxRound] # "none")
=============================================================================
