------------------------------- MODULE JobRuns -------------------------------
(***************************************************************************)
(* The economy and custody jobs (jobs/job-registry.ts) and their two       *)
(* drivers: the BullMQ consumers of apps/worker, on their schedules, and   *)
(* POST /internal/jobs, the sweep of the hourly cron (jobs.controller.ts). *)
(* Most jobs run under a Redis lock that expires (redis/redis-lock.ts) and *)
(* settle the last completed period (queue/queue.constants.ts).            *)
(***************************************************************************)
EXTENDS Naturals, FiniteSets, Sequences

CONSTANTS
  JobOrder,     \* JOB_NAMES, in the order of the sweep
  Lockless,     \* the jobs that take no lock
  Consumers,    \* BullMQ consumers and job requests, over all replicas
  Cron,         \* the request of the sweep
  None,
  HourTicks,    \* length of a period
  LockTtl,      \* LOCK_TTL_MS
  MaxNow, MaxRuns, MaxFaults   \* bounds

VARIABLES
  now,
  lock,      \* the Redis key of a job: holder, expiry
  run,       \* what a driver runs: job, period, start
  todo,      \* the jobs the sweep has still to run
  failed,    \* the jobs it recorded as failed
  settled,   \* periods of a job with an effect
  attempted, \* history: jobs the sweep has run or failed
  swept,     \* history: what the sweeps that answered had attempted
  runs, faults

jobVars == <<now, lock, run, todo, failed, settled, attempted, swept, runs, faults>>

JobSet == {JobOrder[i] : i \in DOMAIN JobOrder}
Drivers == Consumers \cup {Cron}
Resting == [job |-> None, period |-> 0, since |-> 0]
Free(j) == lock[j].by = None \/ lock[j].until <= now

\* The hour that is still running.
PeriodForHour == now \div HourTicks
\* lastCompletedHourPeriod and lastCompletedDayPeriod; none before the first has ended.
LastCompletedPeriod == (now \div HourTicks) - 1

JobsInit ==
  /\ now = HourTicks
  /\ lock = [j \in JobSet |-> [by |-> None, until |-> 0]]
  /\ run = [d \in Drivers |-> Resting] /\ todo = <<>> /\ failed = {}
  /\ settled = [j \in JobSet |-> {}] /\ attempted = {} /\ swept = {} /\ runs = 0 /\ faults = 0

Tick ==
  /\ now < MaxNow /\ now' = now + 1
  /\ UNCHANGED <<lock, run, todo, failed, settled, attempted, swept, runs, faults>>

\* withRedisLock: SET key token NX PX ttl, or the run is skipped.
Acquire(d, j) ==
  IF j \in Lockless THEN UNCHANGED lock
  ELSE lock' = [lock EXCEPT ![j] = [by |-> d, until |-> now + LockTtl]]

Begin(d, j) ==
  IF Free(j) \/ j \in Lockless
    THEN /\ Acquire(d, j)
         /\ run' = [run EXCEPT ![d] = [job |-> j, period |-> LastCompletedPeriod, since |-> now]]
    ELSE UNCHANGED <<lock, run>>

\* A timer of the worker, an enqueued job or a request for one job.
Fire(d, j) ==
  /\ d \in Consumers /\ run[d] = Resting /\ runs < MaxRuns
  /\ Begin(d, j) /\ runs' = runs + 1
  /\ UNCHANGED <<now, todo, failed, settled, attempted, swept, faults>>

\* runAll.
Sweep ==
  /\ todo = <<>> /\ run[Cron] = Resting /\ runs < MaxRuns
  /\ todo' = JobOrder /\ failed' = {} /\ attempted' = {} /\ runs' = runs + 1
  /\ UNCHANGED <<now, lock, run, settled, swept, faults>>

SweepNext ==
  /\ todo # <<>> /\ run[Cron] = Resting
  /\ Begin(Cron, Head(todo))
  /\ attempted' = attempted \cup {Head(todo)}
  /\ todo' = Tail(todo)
  /\ swept' = IF Tail(todo) = <<>> /\ run'[Cron] = Resting THEN swept \cup {attempted'} ELSE swept
  /\ UNCHANGED <<now, failed, settled, runs, faults>>

\* A release that frees the key, whoever holds it by now.
ReleaseAny(d, j) == [lock EXCEPT ![j] = [by |-> None, until |-> 0]]
\* Compare and delete: only a lock that is still the driver's own.
Release(d, j) == IF lock[j].by = d THEN [lock EXCEPT ![j] = [by |-> None, until |-> 0]] ELSE lock

Answered(d, left) == IF d = Cron /\ left = <<>> THEN swept \cup {attempted} ELSE swept

\* The body ends: its period is settled, or was already.
Done(d) ==
  LET r == run[d] IN
  /\ r.job # None
  /\ settled' = [settled EXCEPT ![r.job] = @ \cup {r.period}]
  /\ lock' = Release(d, r.job)
  /\ run' = [run EXCEPT ![d] = Resting]
  /\ swept' = Answered(d, todo)
  /\ UNCHANGED <<now, todo, failed, attempted, runs, faults>>

\* A sweep that stops at the first failure.
StopAtFailure(d) == IF d = Cron THEN <<>> ELSE todo
\* The failure is recorded and the rest still run.
AfterFailure(d) == todo

\* The body throws: the lock is released, the consumer logs, the sweep goes on.
Throws(d) ==
  LET r == run[d] IN
  /\ r.job # None /\ faults < MaxFaults
  /\ lock' = Release(d, r.job)
  /\ run' = [run EXCEPT ![d] = Resting]
  /\ failed' = IF d = Cron THEN failed \cup {r.job} ELSE failed
  /\ todo' = AfterFailure(d)
  /\ swept' = Answered(d, AfterFailure(d))
  /\ faults' = faults + 1
  /\ UNCHANGED <<now, settled, attempted, runs>>

\* The process dies: the lock stays until it expires.
Dies(d) ==
  /\ run[d] # Resting /\ faults < MaxFaults
  /\ run' = [run EXCEPT ![d] = Resting]
  /\ todo' = IF d = Cron THEN <<>> ELSE todo
  /\ faults' = faults + 1
  /\ UNCHANGED <<now, lock, failed, settled, attempted, swept, runs>>

JobsNext ==
  \/ Tick \/ Sweep \/ SweepNext
  \/ \E d \in Drivers : Done(d) \/ Throws(d) \/ Dies(d)
  \/ \E d \in Consumers, j \in JobSet : Fire(d, j)

JobsSpec == JobsInit /\ [][JobsNext]_jobVars

-----------------------------------------------------------------------------
(* The state has its types.                                                *)
JobsTypeOK ==
  /\ now \in 0..MaxNow /\ failed \subseteq JobSet /\ attempted \subseteq JobSet
  /\ \A j \in JobSet : lock[j].by \in Drivers \cup {None} /\ settled[j] \subseteq Nat
  /\ \A d \in Drivers : run[d].job \in JobSet \cup {None}

(* Of the runs of a locked job that are under way at most one is within    *)
(* the life of its lock: a run that outlived its own never frees that of   *)
(* the run after it (redis-lock.ts).                                       *)
OneHolder ==
  \A j \in JobSet \ Lockless :
    Cardinality({d \in Drivers : run[d].job = j /\ now < run[d].since + LockTtl}) <= 1

(* No run settles a period that is still running, however late it ends and *)
(* whoever started it (#H11).                                              *)
WholePeriodsOnly ==
  \A j \in JobSet : \A p \in settled[j] : (p + 1) * HourTicks <= now
                    /\ \A d \in Drivers : run[d].job = j => (run[d].period + 1) * HourTicks <= run[d].since

(* A sweep that answers has run every job, the ones after a failing job    *)
(* too, or met their lock.                                                 *)
SweepTriesAll == swept \subseteq {JobSet}
=============================================================================
