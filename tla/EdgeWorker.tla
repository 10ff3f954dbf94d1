----------------------------- MODULE EdgeWorker -----------------------------
(***************************************************************************)
(* The edge in front of the API: a worker that forwards requests to one    *)
(* container, a durable object that starts, restarts and stops it, the     *)
(* daily budget of active time, its heartbeat, and the hourly sweep that   *)
(* runs the jobs.  One unit of time is the heartbeat's interval.           *)
(*                                                                         *)
(* The container library and the runtime are external.  `box.up' is what   *)
(* the runtime knows, `box.belief' what the object's stored state says;    *)
(* the two disagree after the runtime has lost the container.              *)
(***************************************************************************)
EXTENDS Naturals

CONSTANTS
  Visitors,       \* requests of the internet
  Cap,            \* DAILY_ACTIVE_SECONDS
  DayLength,
  Attempts,       \* CRON_SWEEP_ATTEMPTS
  SweepTime,      \* attempts * backoffMs + SWEEP_GRACE_MS
  EdgeWindows,    \* orders of steps that are let happen
  MaxTime, MaxWakes, MaxLosses   \* bounds

VARIABLES
  now, box, budget,
  due,            \* when the scheduled heartbeat fires, 0: none is scheduled
  visit,          \* requests in flight, the sweep's own ("cron") included
  sweep,          \* attempt under way, 0: no sweep; waiting between two attempts
  ran, charged,   \* time the container is up since its start, time charged meanwhile
  wakes, losses,  \* bounds' counters
  cut             \* a heartbeat has stopped the container during a sweep

edgeVars == <<now, box, budget, due, visit, sweep, ran, charged, wakes, losses, cut>>

Arrivals == Visitors \cup {"cron"}
NoVisit == [at |-> "none", lost |-> FALSE, exempt |-> FALSE]
NoSweep == [try |-> 0, waiting |-> FALSE]
Gone == [up |-> FALSE, ready |-> FALSE, belief |-> FALSE]
Booting == [up |-> TRUE, ready |-> FALSE, belief |-> TRUE]
Day(t) == t \div DayLength
Least(a, b) == IF a < b THEN a ELSE b

\* StoredBudget: the day it accounts for, time used, last beat, end of the sweep.
StoredBudget == [day : 0..Day(MaxTime), used : Nat, beat : 0..MaxTime, until : Nat]

EdgeInit ==
  /\ now = 1 /\ box = Gone
  /\ budget = [day |-> 0, used |-> 0, beat |-> 0, until |-> 0]
  /\ due = 0
  /\ visit = [r \in Arrivals |-> NoVisit]
  /\ sweep = NoSweep
  /\ ran = 0 /\ charged = 0 /\ wakes = 0 /\ losses = 0 /\ cut = FALSE

InFlight == {r \in Arrivals : visit[r].at \in {"fetch", "destroy", "restart", "retry"}}
\* Arrivals that are past the budget and may still start the container.
Waking == InFlight \cup (IF sweep.try # 0 THEN {"cron"} ELSE {})

-----------------------------------------------------------------------------
(* The budget's arithmetic.                                                *)

\* A midnight that forgets the running chain.
ForTodayDropsBeat(b) ==
  IF b.day = Day(now) THEN b ELSE [day |-> Day(now), used |-> 0, beat |-> 0, until |-> 0]
\* A new day starts a new record; the chain and the sweep go on across midnight.
ForToday(b) ==
  IF b.day = Day(now) THEN b ELSE [b EXCEPT !.day = Day(now), !.used = 0]

\* Time since the last beat, never more than two intervals.
Gap(b) == IF b.beat = 0 THEN 0 ELSE Least(now - b.beat, 2)

ChargeHeartbeat(b) ==
  IF box.up THEN [b EXCEPT !.used = @ + Gap(b), !.beat = now] ELSE [b EXCEPT !.beat = 0]

\* budgetState(...).allowed
Allowed(b) == b.used < Cap

ShouldStopAtCap(b) == b.used >= Cap
ShouldStop(b) == b.used >= Cap /\ now >= b.until

\* consumeActiveBudget(true, sweepMs): marks a sweep and starts the chain if none runs.
Consume(sweepMs) ==
  LET b == ForToday(budget)
      marked == IF sweepMs > 0 THEN [b EXCEPT !.until = now + sweepMs] ELSE b
      started == IF due = 0 THEN [marked EXCEPT !.beat = now] ELSE marked
  IN /\ due' = IF due = 0 THEN now + 1 ELSE due
     /\ budget' = IF sweepMs > 0 \/ due = 0 THEN started ELSE budget

-----------------------------------------------------------------------------
\* A life of the container is over.
Down == ran' = 0 /\ charged' = 0

(* Time passes: a scheduled beat is at most one interval late, a sweep     *)
(* ends inside the time it asked for.                                      *)
Tick ==
  /\ now < MaxTime
  /\ due # 0 => now < due + 1
  /\ sweep.try # 0 => now + 1 < budget.until
  /\ now' = now + 1
  /\ ran' = ran + (IF box.up THEN 1 ELSE 0)
  /\ UNCHANGED <<box, budget, due, visit, sweep, charged, wakes, losses, cut>>

\* budgetHeartbeat: charges, ends the chain, stops the container or goes on.
Heartbeat ==
  /\ due # 0 /\ now >= due
  /\ LET b == ChargeHeartbeat(ForToday(budget)) IN
       /\ budget' = b
       /\ IF box.up /\ ~ShouldStop(b)
            THEN /\ due' = now + 1
                 /\ charged' = charged + Gap(ForToday(budget))
                 /\ UNCHANGED <<box, visit, ran, cut>>
            ELSE /\ due' = 0
                 /\ Down
                 /\ box' = IF box.up THEN Gone ELSE box
                 /\ visit' = [r \in Arrivals |->
                                IF box.up /\ r \in InFlight
                                  THEN [visit[r] EXCEPT !.lost = TRUE] ELSE visit[r]]
                 /\ cut' = (cut \/ (box.up /\ sweep.try # 0))
  /\ \/ "late_wake" \in EdgeWindows \/ due' # 0
     \/ IF box.up THEN InFlight \subseteq {"cron"} ELSE Waking = {}
  /\ UNCHANGED <<now, sweep, wakes, losses>>

-----------------------------------------------------------------------------
(* A request of the internet.                                              *)

\* fetch of the worker: an exempt path is served over budget too.
Visit(v, exempt) ==
  /\ v \in Visitors /\ visit[v].at = "none" /\ wakes < MaxWakes
  /\ Consume(0)
  /\ visit' = [visit EXCEPT ![v] = [at |-> IF Allowed(ForToday(budget)) \/ exempt
                                             THEN "fetch" ELSE "offline",
                                    lost |-> FALSE, exempt |-> exempt]]
  /\ wakes' = wakes + 1
  /\ UNCHANGED <<now, box, sweep, ran, charged, losses, cut>>

\* A probe of /health, or a budget check that threw: forwarded, nothing recorded.
Unrecorded(v) ==
  /\ v \in Visitors /\ visit[v].at = "none" /\ wakes < MaxWakes
  /\ "unrecorded" \in EdgeWindows \/ due # 0
  /\ visit' = [visit EXCEPT ![v] = [at |-> "fetch", lost |-> FALSE, exempt |-> TRUE]]
  /\ wakes' = wakes + 1
  /\ UNCHANGED <<now, box, budget, due, sweep, ran, charged, losses, cut>>

\* The answer has reached the client.
Leave(v) ==
  /\ v \in Visitors /\ visit[v].at \in {"answered", "failed", "offline"}
  /\ visit' = [visit EXCEPT ![v] = NoVisit]
  /\ UNCHANGED <<now, box, budget, due, sweep, ran, charged, wakes, losses, cut>>

-----------------------------------------------------------------------------
(* ScadiumApi.fetch.                                                       *)

\* The base class starts a container it believes stopped.
Start(r) ==
  /\ visit[r].at = "fetch" /\ ~box.belief
  /\ box' = Booting
  /\ UNCHANGED <<now, budget, due, visit, sweep, ran, charged, wakes, losses, cut>>

Move(r, at) == visit' = [visit EXCEPT ![r].at = at]

\* The container answers.
Answer(r) ==
  /\ visit[r].at \in {"fetch", "retry"} /\ box.belief /\ box.up /\ box.ready
  /\ Move(r, "answered")
  /\ UNCHANGED <<now, box, budget, due, sweep, ran, charged, wakes, losses, cut>>

\* The runtime throws, or answers 500 with the same words in the body.
IsContainerGoneThrown(thrown) == thrown
IsContainerGone(thrown) == TRUE

\* The first try fails: no container behind the object, or none listening yet.
FetchFails(r, thrown) ==
  /\ visit[r].at = "fetch" /\ box.belief /\ ~(box.up /\ box.ready)
  /\ Move(r, IF IsContainerGone(thrown) THEN "destroy" ELSE "failed")
  /\ UNCHANGED <<now, box, budget, due, sweep, ran, charged, wakes, losses, cut>>

\* destroy(): kills the container and clears the object's belief.
Destroy(r) ==
  /\ visit[r].at = "destroy"
  /\ Move(r, "restart")
  /\ box' = Gone
  /\ Down
  /\ UNCHANGED <<now, budget, due, sweep, wakes, losses, cut>>

\* startAndWaitForPorts, which may give up waiting.
Restart(r) ==
  /\ visit[r].at = "restart"
  /\ Move(r, "retry")
  /\ box' = IF box.belief THEN box ELSE Booting
  /\ UNCHANGED <<now, budget, due, sweep, ran, charged, wakes, losses, cut>>

\* The second try fails and is answered 503.
RetryFails(r) ==
  /\ visit[r].at = "retry" /\ ~(box.up /\ box.ready)
  /\ Move(r, "failed")
  /\ box' = IF box.belief THEN box ELSE Booting
  /\ UNCHANGED <<now, budget, due, sweep, ran, charged, wakes, losses, cut>>

-----------------------------------------------------------------------------
(* The container.                                                          *)

Boot ==
  /\ box.up /\ ~box.ready
  /\ box' = [box EXCEPT !.ready = TRUE]
  /\ UNCHANGED <<now, budget, due, visit, sweep, ran, charged, wakes, losses, cut>>

\* sleepAfter: nothing in flight for long enough.
FallAsleep ==
  /\ box.up /\ InFlight = {} /\ sweep = NoSweep
  /\ box' = Gone
  /\ Down
  /\ UNCHANGED <<now, budget, due, visit, sweep, wakes, losses, cut>>

\* The runtime loses the container; the object still believes in it.
Vanish ==
  /\ box.up /\ losses < MaxLosses
  /\ box' = [box EXCEPT !.up = FALSE, !.ready = FALSE]
  /\ losses' = losses + 1
  /\ visit' = [r \in Arrivals |-> [visit[r] EXCEPT !.lost = TRUE]]
  /\ Down
  /\ UNCHANGED <<now, budget, due, sweep, wakes, cut>>

-----------------------------------------------------------------------------
(* runScheduledSweep: recorded, never gated; tried again; then stopped.    *)

SweepBegin ==
  /\ sweep = NoSweep /\ wakes < MaxWakes /\ now + SweepTime <= MaxTime + 2
  /\ Consume(SweepTime)
  /\ sweep' = [try |-> 1, waiting |-> FALSE]
  /\ visit' = [visit EXCEPT !["cron"] = [at |-> "fetch", lost |-> FALSE, exempt |-> TRUE]]
  /\ wakes' = wakes + 1
  /\ UNCHANGED <<now, box, ran, charged, losses, cut>>

SweepBackoff ==
  /\ sweep.try # 0 /\ ~sweep.waiting /\ visit["cron"].at = "failed" /\ sweep.try < Attempts
  /\ sweep' = [sweep EXCEPT !.waiting = TRUE]
  /\ UNCHANGED <<now, box, budget, due, visit, ran, charged, wakes, losses, cut>>

SweepAgain ==
  /\ sweep.waiting
  /\ sweep' = [try |-> sweep.try + 1, waiting |-> FALSE]
  /\ visit' = [visit EXCEPT !["cron"] = [at |-> "fetch", lost |-> FALSE, exempt |-> TRUE]]
  /\ UNCHANGED <<now, box, budget, due, ran, charged, wakes, losses, cut>>

\* The jobs have run, or the last attempt has failed: stop(), whoever is being served.
SweepEnd ==
  /\ sweep.try # 0 /\ ~sweep.waiting
  /\ visit["cron"].at = "answered" \/ (visit["cron"].at = "failed" /\ sweep.try = Attempts)
  /\ sweep' = NoSweep
  /\ box' = Gone
  /\ visit' = [r \in Arrivals |-> IF r = "cron" THEN NoVisit
                                  ELSE IF r \in InFlight THEN [visit[r] EXCEPT !.lost = TRUE]
                                  ELSE visit[r]]
  /\ Down
  /\ UNCHANGED <<now, budget, due, wakes, losses, cut>>

EdgeNext ==
  \/ Tick \/ Heartbeat \/ Boot \/ FallAsleep \/ Vanish
  \/ SweepBegin \/ SweepBackoff \/ SweepAgain \/ SweepEnd
  \/ \E v \in Visitors : (\E exempt \in BOOLEAN : Visit(v, exempt)) \/ Unrecorded(v) \/ Leave(v)
  \/ \E r \in Arrivals : \/ Start(r) \/ Answer(r) \/ Destroy(r) \/ Restart(r) \/ RetryFails(r)
                         \/ \E thrown \in BOOLEAN : FetchFails(r, thrown)

EdgeSpec == EdgeInit /\ [][EdgeNext]_edgeVars

-----------------------------------------------------------------------------
(* The state of the edge has its types.                                    *)
EdgeTypeOK ==
  /\ now \in 0..MaxTime /\ ran \in 0..MaxTime /\ charged \in Nat
  /\ box \in [up : BOOLEAN, ready : BOOLEAN, belief : BOOLEAN]
  /\ budget \in StoredBudget
  /\ due \in 0..(MaxTime + 1)
  /\ \A r \in Arrivals : visit[r].at \in {"none", "fetch", "destroy", "restart", "retry",
                                          "answered", "failed", "offline"}
  /\ sweep.try \in 0..Attempts

(* A container that runs has a heartbeat scheduled: its time is charged    *)
(* and an exhausted budget stops it, whoever started or restarted it.      *)
RunningIsWatched == box.up => due # 0

(* What a running container has been charged, midnight or not, falls       *)
(* behind what it has run by the time since the last beat at most: the     *)
(* total is honest.                                                        *)
HonestTotal == box.up /\ due # 0 => charged + (now - budget.beat) >= ran

(* The budget never stops the container in the middle of a sweep.          *)
SweepNeverCut == ~cut

(* A request that was answered 503 has brought the two views of the        *)
(* container together, unless the container was lost again meanwhile: the  *)
(* next request finds it or starts it.                                     *)
DesyncRecovered ==
  (\E r \in Arrivals : visit[r].at = "failed" /\ ~visit[r].lost) => (box.belief => box.up)
=============================================================================
