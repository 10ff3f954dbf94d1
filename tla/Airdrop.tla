------------------------------- MODULE Airdrop -------------------------------
(***************************************************************************)
(* The hourly airdrop (apps/api/src/airdrop): tips fill the pool of the    *)
(* running hour; after the hour a job, possibly twice at once, shares that *)
(* pool among the players who were active, or rolls it over.  A run reads  *)
(* the pool and the players first and pays in one READ COMMITTED           *)
(* transaction that claims the pool.                                       *)
(***************************************************************************)
EXTENDS Naturals, FiniteSets

CONSTANTS
  Players,
  Runs,         \* distribution jobs that can run at once
  Base,         \* base of every pool
  Tips,         \* tips a player may send
  MaxHour,      \* bound on the hours of a behaviour
  Purse,        \* play balance at the start
  DropWindows   \* windows of the code that are left open, see the README

VARIABLES
  hour,      \* the running hour
  pool,      \* AirdropPool rows by hour
  purse,     \* play balances
  funded,    \* accounts that have made a first deposit
  tip,       \* a player's tip between its checks and its transaction
  job,       \* distribution jobs under way
  spoiled    \* history: a deposited account was credited

dropVars == <<hour, pool, purse, funded, tip, job, spoiled>>

Hours == 1..MaxHour
NoPool == [made |-> FALSE, total |-> 0, done |-> FALSE, used |-> 0, heads |-> 0]
NoTip == [h |-> 0, n |-> 0]
NoJob == [at |-> "no", h |-> 0, total |-> 0, who |-> {}]

TypeOK ==
  /\ hour \in Hours
  /\ pool \in [Hours -> [made : BOOLEAN, total : Nat, done : BOOLEAN, used : Nat, heads : Nat]]
  /\ purse \in [Players -> Nat] /\ funded \subseteq Players
  /\ tip \in [Players -> [h : 0..MaxHour, n : {0} \cup Tips]]
  /\ job \in [Runs -> [at : {"no", "read"}, h : 0..MaxHour, total : Nat, who : SUBSET Players]]

Init ==
  /\ hour = 1
  /\ pool = [h \in Hours |-> NoPool]
  /\ purse = [u \in Players |-> Purse]
  /\ funded = {}
  /\ tip = [u \in Players |-> NoTip]
  /\ job = [r \in Runs |-> NoJob]
  /\ spoiled = FALSE

\* ensureCurrentPool: the upsert creates the row of the running hour once.
Made(p, h) == IF p[h].made THEN p ELSE [p EXCEPT ![h].made = TRUE, ![h].total = Base]

Visit ==
  /\ ~pool[hour].made
  /\ pool' = Made(pool, hour)
  /\ UNCHANGED <<hour, purse, funded, tip, job, spoiled>>

\* tip: the pool of this hour is not settled ...
AskTip(u, n) ==
  /\ tip[u] = NoTip /\ ~pool[hour].done
  /\ pool' = Made(pool, hour)
  /\ tip' = [tip EXCEPT ![u] = [h |-> hour, n |-> n]]
  /\ UNCHANGED <<hour, purse, funded, job, spoiled>>

\* ... then one transaction takes play money and adds it to that pool, or refuses.
Tip(u) ==
  LET h == tip[u].h
      n == tip[u].n IN
  /\ tip[u] # NoTip
  /\ tip' = [tip EXCEPT ![u] = NoTip]
  /\ \/ /\ u \notin funded /\ purse[u] >= n
        /\ h = hour \/ "late_tip" \in DropWindows
        /\ purse' = [purse EXCEPT ![u] = @ - n]
        /\ pool' = [pool EXCEPT ![h].total = @ + n]
     \/ UNCHANGED <<purse, pool>>
  /\ UNCHANGED <<hour, funded, job, spoiled>>

Tick ==
  /\ hour < MaxHour
  /\ hour' = hour + 1
  /\ UNCHANGED <<pool, purse, funded, tip, job, spoiled>>

\* A first deposit turns the account into one of real money.
Deposit(u) ==
  /\ u \notin funded
  /\ funded' = funded \cup {u}
  /\ UNCHANGED <<hour, pool, purse, tip, job, spoiled>>

-----------------------------------------------------------------------------
(* distribute: the last completed hour, if its pool is not settled. *)

\* wagered, chatted, of age, no shared address, and play money so far.
Candidates == SUBSET (Players \ funded)

StartRun(r) ==
  LET h == hour - 1 IN
  /\ job[r].at = "no" /\ h \in Hours
  /\ pool[h].made /\ ~pool[h].done /\ pool[h].total > 0
  /\ \E who \in Candidates :
       job' = [job EXCEPT ![r] = [at |-> "read", h |-> h, total |-> pool[h].total, who |-> who]]
  /\ UNCHANGED <<hour, pool, purse, funded, tip, spoiled>>

\* Mutant: the run pays without claiming the pool.
ClaimNothing(h) == TRUE

\* The guarded flip of `distributed'.
Unclaimed(h) == ~pool[h].done

\* Mutant: the players are those found before the transaction.
AsFound(who) == who

\* stillPlay, under the row locks of the transaction.
StillPlay(who) == who \ funded

\* The pool that takes what nobody got: this hour's in its first minute, else the next.
RollTargets == {h \in {hour, hour + 1} : h \in Hours}

Distribute(r) ==
  LET h == job[r].h
      total == job[r].total
      payees == StillPlay(job[r].who)
      share == total \div Cardinality(payees) IN
  /\ job[r].at = "read" /\ Unclaimed(h)
  /\ job' = [job EXCEPT ![r] = NoJob]
  /\ \/ /\ payees = {}
        /\ \E t \in RollTargets :
             LET settled == [pool EXCEPT ![h].done = TRUE, ![h].used = @ + total]
             IN  pool' = [Made(settled, t) EXCEPT ![t].total = @ + total]
        /\ UNCHANGED <<purse, spoiled>>
     \/ /\ payees # {}
        /\ pool' = [pool EXCEPT ![h].done = TRUE, ![h].used = @ + share * Cardinality(payees),
                                ![h].heads = Cardinality(payees)]
        /\ purse' = [u \in Players |-> purse[u] + IF u \in payees THEN share ELSE 0]
        /\ spoiled' = (spoiled \/ payees \cap funded # {})
  /\ UNCHANGED <<hour, funded, tip>>

\* Another run was first, or this one dies before its transaction commits.
RunEnds(r) ==
  /\ job[r].at = "read"
  /\ job' = [job EXCEPT ![r] = NoJob]
  /\ UNCHANGED <<hour, pool, purse, funded, tip, spoiled>>

Next ==
  \/ Visit \/ Tick
  \/ \E u \in Players : (\E n \in Tips : AskTip(u, n)) \/ Tip(u) \/ Deposit(u)
  \/ \E r \in Runs : StartRun(r) \/ Distribute(r) \/ RunEnds(r)

Spec == Init /\ [][Next]_dropVars

-----------------------------------------------------------------------------
(* A settled pool was given out whole and once: shares of its players, or  *)
(* its rollover, add up to its tips and base save the dust of the division *)
(* (distribute, rollOver).                                                 *)
DropGivenOnce ==
  \A h \in Hours : pool[h].done =>
    /\ pool[h].used <= pool[h].total
    /\ pool[h].total - pool[h].used <= IF pool[h].heads = 0 THEN 0 ELSE pool[h].heads - 1

(* An airdrop credits play money only, although an account may make its    *)
(* first deposit while a run is under way (economy.ts stillPlay).          *)
DropsToPlayOnly == ~spoiled
=============================================================================
