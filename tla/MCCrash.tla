------------------------------ MODULE MCCrash -------------------------------
(***************************************************************************)
(* The crash game on two instances: one replica without Redis that is      *)
(* restarted while its player bets and schedules bets, and two replicas    *)
(* that elect a leader and take each other's place.  Beside them the loop  *)
(* of two replicas without players, for liveness.                          *)
(***************************************************************************)
EXTENDS Integers, TLC, TLAPS, WellFoundedInduction

CONSTANTS n1, n2, Users, None, MaxRound, MaxFaults, Windows

ASSUME CrashAssumption == MaxRound \in Nat /\ None \notin Users

VARIABLES
    setting,   \* the instance of this behaviour
    round, row, sched, bal, lock, eng, writes, bet, queued, due, known, owed, faults

vars == <<setting, round, row, sched, bal, lock, eng, writes, bet, queued,
          due, known, owed, faults>>

\* The game of one setting s: its replicas, stakes and funds, whether the replicas
\* elect a leader and whether players schedule bets.
Game(s) == INSTANCE CrashRound WITH
    Nodes <- s.nodes, Stake <- s.stake, Funds <- s.funds,
    Elected <- s.elected, Queueing <- s.queueing

Restart == [nodes |-> {n1}, stake |-> 2, funds |-> 4, elected |-> FALSE, queueing |-> TRUE]
Failover == [nodes |-> {n1, n2}, stake |-> 1, funds |-> 1, elected |-> TRUE, queueing |-> FALSE]
Loop == [nodes |-> {n1, n2}, stake |-> 1, funds |-> 0, elected |-> TRUE, queueing |-> FALSE]

CrashInit ==
    \/ setting = "restart" /\ Game(Restart)!Init
    \/ setting = "failover" /\ Game(Failover)!Init

CrashNext ==
    \/ setting = "restart" /\ Game(Restart)!Next /\ UNCHANGED setting
    \/ setting = "failover" /\ Game(Failover)!Next /\ UNCHANGED setting

CrashSpec == CrashInit /\ [][CrashNext]_vars

LoopInit == setting = "loop" /\ Game(Loop)!Init
LoopNext == Game(Loop)!Next /\ UNCHANGED setting
LoopSpec == LoopInit /\ [][LoopNext]_vars /\ Game(Loop)!Fairness

\* The two replicas are interchangeable (the other instance names n1 alone).
TwoReplicasAlike == Permutations({n1, n2})

-----------------------------------------------------------------------------
(* The properties of CrashRound, stated there, of both instances.          *)

(* Whatever restarts, settles, recovers or cashes out, a bet brings its    *)
(* player what the player was told, once.                                  *)
BetsConserved == IF setting = "restart" THEN Game(Restart)!BetConserved ELSE Game(Failover)!BetConserved

(* A player the engine lets ride has a row a recovery will find, and every *)
(* replica is in a state its code can be in.                               *)
RidersHaveRows ==
    IF setting = "restart" THEN Game(Restart)!TypeOK /\ Game(Restart)!RiderHasRow
                           ELSE Game(Failover)!TypeOK /\ Game(Failover)!RiderHasRow

(* A scheduled stake is bound to a round or returned, once.                *)
ScheduledStakesOnce ==
    IF setting = "restart" THEN Game(Restart)!ScheduledStakeOnce ELSE Game(Failover)!ScheduledStakeOnce

(* The game never freezes: after any sequence of crashes, failed           *)
(* statements, lost leases and shutdowns the next round opens.             *)
GameGoesOn == Game(Loop)!GameGoesOn
-----------------------------------------------------------------------------
-----------------------------------------------------------------------------
(***************************************************************************)
(* A scheduled stake is bound or returned once, for any players, rounds    *)
(* and faults, as long as the window staleQueue is not hit: of everything  *)
(* that requests, recoveries and the loop do, the only steps that move a   *)
(* scheduled stake take or leave its row in the same transaction.          *)
(***************************************************************************)
StakeMoves(stake) ==
    \/ UNCHANGED <<sched, owed>>
    \/ \E u \in Users \ sched :
         sched' = sched \cup {u} /\ owed' = [owed EXCEPT ![u] = owed[u] + stake]
    \/ \E u \in sched :
         sched' = sched \ {u} /\ owed' = [owed EXCEPT ![u] = owed[u] - stake]

\* What is owed is what the rows hold, each a stake of this size.
StakesHeld(stake) ==
    /\ sched \subseteq Users
    /\ owed = [u \in Users |-> IF u \in sched THEN stake ELSE 0]

(* A move of one stake keeps what is owed and what the rows hold equal.    *)
LEMMA HeldInStep ==
  ASSUME NEW c \in Int, StakesHeld(c), StakeMoves(c)
  PROVE  StakesHeld(c)'
  BY DEF StakesHeld, StakeMoves

(* Every step of a game is such a move, or none.                           *)
LEMMA StakesMove ==
  ASSUME NEW s, sched \subseteq Users, "staleQueue" \notin Windows, Game(s)!Next
  PROVE  StakeMoves(s.stake)
<1>1. CASE Game(s)!Expire \/ Game(s)!RoundsExhausted
  BY <1>1 DEF Game!Expire, Game!RoundsExhausted, Game!vars, StakeMoves
<1>2. ASSUME NEW n \in s.nodes, \/ Game(s)!Boot(n) \/ Game(s)!Tick(n) \/ Game(s)!Hiccup(n) \/ Game(s)!Crash(n)
                              \/ Game(s)!Resume(n) \/ Game(s)!DrainServer(n) \/ Game(s)!Stop(n)
                              \/ Game(s)!DrainTimesOut(n)
      PROVE  UNCHANGED <<sched, owed>>
  BY <1>2 DEF Game!Boot, Game!Tick, Game!Hiccup, Game!Crash, Game!Resume, Game!DrainServer, Game!Stop,
     Game!DrainTimesOut, Game!Leave, Game!Die, Game!RamOnly
<1>3. ASSUME NEW n \in s.nodes, \/ Game(s)!Scan(n) \/ Game(s)!ReadBets(n) \/ Game(s)!Recover(n)
                              \/ Game(s)!RecoverFails(n) \/ Game(s)!Recovered(n) \/ Game(s)!OpenRound(n)
                              \/ Game(s)!BindFails(n)
      PROVE  UNCHANGED <<sched, owed>>
  BY <1>3 DEF Game!Scan, Game!ReadBets, Game!Recover, Game!RecoverFails, Game!Recovered,
     Game!OpenRound, Game!BindFails, Game!RamOnly
<1>4. ASSUME NEW n \in s.nodes, \/ Game(s)!CloseBets(n) \/ Game(s)!BeaconFails(n) \/ Game(s)!Run(n)
                              \/ Game(s)!Bust(n) \/ Game(s)!Settle(n) \/ Game(s)!SettleFails(n)
                              \/ Game(s)!NextRound(n)
      PROVE  UNCHANGED <<sched, owed>>
  BY <1>4 DEF Game!CloseBets, Game!BeaconFails, Game!Run, Game!Bust, Game!Settle, Game!SettleFails,
     Game!NextRound, Game!RamOnly
<1>5. ASSUME NEW n \in s.nodes, Game(s)!BindQueued(n) PROVE StakeMoves(s.stake)
  BY <1>5 DEF Game!BindQueued, Game!Bindable, StakeMoves
<1>6. ASSUME NEW w \in writes, Game(s)!RunWritten(w) \/ Game(s)!CashWritten(w) \/ Game(s)!CashFails(w)
      PROVE  UNCHANGED <<sched, owed>>
  BY <1>6 DEF Game!RunWritten, Game!CashWritten, Game!CashFails
<1>7. ASSUME NEW u \in Users, \/ Game(s)!Debit(u) \/ Game(s)!Answer(u) \/ Game(s)!Refund(u) \/ Game(s)!DeleteRow(u)
                              \/ Game(s)!Enqueue(u) \/ Game(s)!Dequeue(u)
      PROVE  UNCHANGED <<sched, owed>>
  BY <1>7 DEF Game!Debit, Game!Answer, Game!Refund, Game!DeleteRow, Game!Enqueue, Game!Dequeue
<1>8. ASSUME NEW u \in Users, NEW n \in s.nodes, Game(s)!Ask(u, n) \/ Game(s)!CashOut(u, n)
      PROVE  UNCHANGED <<sched, owed>>
  BY <1>8 DEF Game!Ask, Game!CashOut
<1>9. ASSUME NEW u \in Users, Game(s)!RefundScheduled(u) PROVE StakeMoves(s.stake)
  BY <1>9 DEF Game!RefundScheduled, Game!Hit, StakeMoves
<1>10. ASSUME NEW u \in Users, NEW n \in s.nodes,
              Game(s)!RecoverScheduled(n, u) \/ Game(s)!Schedule(u, n) \/ Game(s)!Cancel(u, n)
       PROVE  StakeMoves(s.stake)
  BY <1>10 DEF Game!RecoverScheduled, Game!Schedule, Game!Cancel, StakeMoves
<1> QED BY <1>1, <1>2, <1>3, <1>4, <1>5, <1>6, <1>7, <1>8, <1>9, <1>10 DEF Game!Next, StakeMoves

(* A scheduled stake is held by its row and by nothing else until it is    *)
(* bound to a round or returned (crash.service.ts scheduleBet and          *)
(* cancelScheduled, crash.engine.ts startNewRound, recoverScheduledBets),  *)
(* with one replica or two, whatever crashes, fails or is taken over.      *)
THEOREM ScheduledStakesAlwaysOnce ==
  "staleQueue" \notin Windows /\ CrashSpec => []ScheduledStakesOnce
<1> DEFINE Inv == /\ setting \in {"restart", "failover"}
                  /\ StakesHeld(IF setting = "restart" THEN 2 ELSE 1)
<1> SUFFICES ASSUME "staleQueue" \notin Windows PROVE CrashSpec => []ScheduledStakesOnce
  OBVIOUS
<1>0. Restart.stake = 2 /\ Failover.stake = 1
  BY DEF Restart, Failover
<1>1. CrashInit => Inv
  BY DEF CrashInit, Game!Init, StakesHeld
<1>2. Inv /\ [CrashNext]_vars => Inv'
  <2> SUFFICES ASSUME Inv, [CrashNext]_vars PROVE Inv'
    OBVIOUS
  <2>1. CASE UNCHANGED vars
    BY <2>1 DEF vars, StakesHeld
  <2>2. CASE setting = "restart" /\ Game(Restart)!Next /\ UNCHANGED setting
    <3>1. StakesHeld(2) /\ sched \subseteq Users
      BY <2>2 DEF StakesHeld
    <3>2. StakesHeld(2)'
      BY <1>0, <2>2, <3>1, StakesMove, HeldInStep
    <3> QED BY <2>2, <3>2
  <2>3. CASE setting = "failover" /\ Game(Failover)!Next /\ UNCHANGED setting
    <3>1. StakesHeld(1) /\ sched \subseteq Users
      BY <2>3 DEF StakesHeld
    <3>2. StakesHeld(1)'
      BY <1>0, <2>3, <3>1, StakesMove, HeldInStep
    <3> QED BY <2>3, <3>2
  <2> QED BY <2>1, <2>2, <2>3 DEF CrashNext
<1>3. Inv => ScheduledStakesOnce
  BY <1>0 DEF StakesHeld, ScheduledStakesOnce, Game!ScheduledStakeOnce
<1> QED BY <1>1, <1>2, <1>3, PTL DEF CrashSpec
(***************************************************************************)
(* The shapes of a game's state.                                           *)
(***************************************************************************)
\* A position reached from the full stake by cashing out parts of it.
Ride(s) == {x \in [rem : 0..s.stake, pay : 0..(2 * s.stake)] : x.pay = 2 * (s.stake - x.rem)}
Position(s) == [rem : 0..s.stake, pay : 0..(2 * s.stake)]
Bets(s) == UNION {[S -> Ride(s)] : S \in SUBSET Users}
Snaps(s) == UNION {[S -> Position(s)] : S \in SUBSET Users}

Engine(s) ==
    [up : BOOLEAN, leader : BOOLEAN,
     loop : {"idle", "scan", "read", "claim", "orphans", "open", "bind", "window",
             "beacon", "starting", "fly", "settle", "gap"},
     cur : 0..MaxRound, phase : {"waiting", "running", "busted"}, closed : BOOLEAN,
     bets : Bets(s), queue : SUBSET Users, seen : SUBSET Users,
     todo : SUBSET (1..MaxRound), snap : Snaps(s), left : SUBSET Users,
     mode : {"run", "boot", "resume"}, draining : BOOLEAN,
     binding : Users \cup {None}, settling : BOOLEAN, tosettle : Bets(s)]

Request(s) ==
    [at : {"idle", "tx", "answer", "refund", "delete", "dequeue"},
     node : s.nodes \cup {None}, r : 0..MaxRound]

Write(s) ==
    {w \in [kind : {"run", "cash"}, node : s.nodes, r : 1..MaxRound, u : Users \cup {None},
            rem : 0..s.stake, pay : 0..(2 * s.stake)] :
       w.kind = "cash" => w.u \in Users /\ w.pay = 2 * (s.stake - w.rem)}

\* The tables and the queues beside the bets and the engines.
Tables(s) ==
    /\ round \in [1..MaxRound -> {"none", "waiting", "running", "busted"}]
    /\ sched \subseteq Users
    /\ bal \in [Users -> Nat]
    /\ lock \in s.nodes \cup {None}
    /\ writes \subseteq Write(s)
    /\ queued \in [Users -> Request(s)]
    /\ \A u \in Users : queued[u].at # "idle" => queued[u].node \in s.nodes

BetRows(s) ==
    /\ DOMAIN row \subseteq (1..MaxRound) \X Users
    /\ \A k \in DOMAIN row : row[k] \in Position(s)

\* The engine's part of the loop: a replica in a round has one, and it names the
\* player whose stake it is binding when there is one.
LoopOK(e) ==
    /\ e.loop \in {"read", "claim"} => e.todo # {}
    /\ (\/ e.loop \in {"bind", "window", "beacon", "starting", "fly"}
        \/ e.settling \/ e.phase # "waiting")
       => e.cur # 0
    /\ IF e.loop = "bind" THEN e.binding \in DOMAIN e.bets ELSE e.binding = None

\* A request between its debit and its answer, or its deleted row.
Late(u, r) == bet[u].r = r /\ bet[u].at \in {"answer", "refund", "delete"}

Riders(e) == DOMAIN e.bets \ {e.binding}

RidersOK(e) ==
    \A u \in Users :
      /\ u \in Riders(e) => <<e.cur, u>> \in DOMAIN row
      /\ Late(u, e.cur) => u \notin Riders(e)

RequestOK(s, u) ==
    /\ bet[u].at # "idle" => bet[u].r # 0 /\ bet[u].node \in s.nodes
    /\ Late(u, bet[u].r) => <<bet[u].r, u>> \in DOMAIN row

RowsInv(s) ==
    /\ Tables(s) /\ BetRows(s)
    /\ eng \in [s.nodes -> Engine(s)]
    /\ bet \in [Users -> Request(s)]
    /\ \A n \in s.nodes : LoopOK(eng[n]) /\ RidersOK(eng[n])
    /\ \A u \in Users : RequestOK(s, u)
-----------------------------------------------------------------------------
\* The players still waiting in the queue do not ride yet.
Apart(e) == (e.queue \ e.seen) \cap DOMAIN e.bets = {}

(***************************************************************************)
(* What the ledger, the tables and the memories of the replicas say of one *)
(* another while no window is hit.                                         *)
(***************************************************************************)
Alive == {"waiting", "running"}
Value(x) == x.rem + x.pay

\* A bet is owed its stake until the engine has answered, then what its row is
\* worth while its round is alive, then nothing.
Book(s, r, u) ==
    /\ round[r] = "none" => <<r, u>> \notin DOMAIN row
    /\ due[<<r, u>>] =
         IF bet[u].r = r /\ bet[u].at \in {"answer", "refund"} THEN s.stake
         ELSE IF round[r] \in Alive /\ <<r, u>> \in DOMAIN row /\ ~Late(u, r)
         THEN Value(row[<<r, u>>]) ELSE 0
    /\ round[r] \in Alive /\ <<r, u>> \in DOMAIN row =>
         /\ known[<<r, u>>] = Value(row[<<r, u>>])
         /\ row[<<r, u>>] \in Ride(s)
         /\ Late(u, r) => row[<<r, u>>].pay = 0

Books(s) ==
    /\ DOMAIN due = (1..MaxRound) \X Users /\ DOMAIN known = (1..MaxRound) \X Users
    /\ \A r \in 1..MaxRound, u \in Users : Book(s, r, u)

\* A status write finds its round alive, an update finds the row of its bet, and
\* while the round is alive it raises what is locked in.
WriteOK(w) ==
    /\ round[w.r] # "none"
    /\ w.kind = "run" => round[w.r] \in Alive /\ w.u = None /\ w.rem = 0 /\ w.pay = 0
    /\ w.kind = "cash" =>
         /\ <<w.r, w.u>> \in DOMAIN row /\ ~Late(w.u, w.r)
         /\ round[w.r] \in Alive => w.pay >= row[<<w.r, w.u>>].pay

Asked == \A u \in Users : bet[u].at # "idle" => round[bet[u].r] # "none"

\* A round has one home: its requests and its writes come from there.
Homes(s, n, e) ==
    e.cur # 0 =>
      /\ round[e.cur] # "none"
      /\ \A m \in s.nodes : eng[m].cur = e.cur => m = n
      /\ \A u \in Users : bet[u].at # "idle" /\ bet[u].r = e.cur => bet[u].node = n
      /\ \A w \in writes : w.r = e.cur => w.node = n

Running(e) ==
    /\ e.loop \in {"bind", "window", "beacon"} => e.phase = "waiting"
    /\ e.loop = "bind" =>
         /\ round[e.cur] \in Alive
         /\ e.bets[e.binding].pay = 0
         /\ e.binding \in e.seen
         /\ Apart(e)
    /\ e.settling => e.tosettle = e.bets /\ e.phase = "busted"
    /\ e.loop = "fly" \/ e.settling => \A w \in writes : ~(w.kind = "run" /\ w.r = e.cur)

\* Memory is ahead of the rows and of the updates under way, and it knows of
\* every row but those of the requests it has not answered.
RamAhead(e) ==
    e.cur # 0 /\ round[e.cur] \in Alive =>
      \A u \in Users :
        /\ <<e.cur, u>> \in DOMAIN row => u \in Riders(e) \/ Late(u, e.cur)
        /\ u \in Riders(e) =>
             /\ row[<<e.cur, u>>].pay <= e.bets[u].pay
             /\ \A w \in writes : w.kind = "cash" /\ w.r = e.cur /\ w.u = u => w.pay <= e.bets[u].pay

\* What a recovery has read of a round that is still alive is still so.
SnapOK(e, r) ==
    round[r] \in Alive =>
      /\ \A u \in Users :
           /\ u \in DOMAIN e.snap <=> <<r, u>> \in DOMAIN row /\ ~Late(u, r)
           /\ u \in DOMAIN e.snap => e.snap[u] = row[<<r, u>>]
      /\ \A w \in writes : ~(w.kind = "cash" /\ w.r = r)

First(S) == CHOOSE x \in S : \A y \in S : x <= y

Claims(e) ==
    /\ e.loop \in {"read", "claim"} => \A r \in e.todo : round[r] # "none"
    /\ e.loop = "claim" => SnapOK(e, First(e.todo))

Unqueued(s, e) == ~s.queueing => e.queue = {} /\ e.loop # "bind"

MoneyInv(s) ==
    /\ Books(s)
    /\ \A w \in writes : WriteOK(w)
    /\ Asked
    /\ \A n \in s.nodes :
         Homes(s, n, eng[n]) /\ Running(eng[n]) /\ RamAhead(eng[n]) /\ Claims(eng[n]) /\ Unqueued(s, eng[n])
    /\ ~s.queueing => \A u \in Users : queued[u].at # "answer"
-----------------------------------------------------------------------------
Setting(s) == s.stake \in Nat /\ s.funds \in Nat

(* What a step of a replica leaves of the round in its memory: the round   *)
(* and the players riding it.                                              *)
Keeps(e, f) ==
    /\ f.cur = e.cur
    /\ Riders(f) = Riders(e)
    /\ \A u \in Riders(e) : f.bets[u] = e.bets[u]

(* The bets of a round: players, each at a position reached by cashing out.*)
LEMMA BetsFacts ==
  ASSUME NEW s, NEW f \in Bets(s)
  PROVE  DOMAIN f \subseteq Users /\ \A u \in DOMAIN f : f[u] \in Ride(s)
  BY DEF Bets

(* And conversely.                                                         *)
LEMMA BetsAre ==
  ASSUME NEW s, NEW D \in SUBSET Users, NEW f \in [D -> Ride(s)]
  PROVE  f \in Bets(s)
  BY DEF Bets

(* Leaving players out keeps the bets of a round.                          *)
LEMMA BetsCut ==
  ASSUME NEW s, NEW f \in Bets(s), NEW D \in SUBSET DOMAIN f
  PROVE  [x \in D |-> f[x]] \in Bets(s)
  BY BetsFacts, BetsAre

(* So does seating a player.                                               *)
LEMMA BetsPut ==
  ASSUME NEW s, NEW f \in Bets(s), NEW u \in Users, NEW v \in Ride(s)
  PROVE  [x \in DOMAIN f \cup {u} |-> IF x = u THEN v ELSE f[x]] \in Bets(s)
<1>1. DOMAIN f \cup {u} \in SUBSET Users
  BY BetsFacts
<1>2. [x \in DOMAIN f \cup {u} |-> IF x = u THEN v ELSE f[x]] \in [DOMAIN f \cup {u} -> Ride(s)]
  BY BetsFacts
<1> QED BY <1>1, <1>2, BetsAre

(* The empty round has no bets and no snapshot.                            *)
LEMMA NothingIs ==
  ASSUME NEW s
  PROVE  /\ Game(s)!Nothing = [x \in {} |-> 0]
         /\ Game(s)!Nothing \in Bets(s) /\ Game(s)!Nothing \in Snaps(s)
<1>1. Game(s)!Nothing \in [{} -> Ride(s)] /\ Game(s)!Nothing \in [{} -> Position(s)]
  BY DEF Game!Nothing
<1>2. {} \in SUBSET Users
  OBVIOUS
<1> QED BY <1>1, <1>2 DEF Game!Nothing, Bets, Snaps

(* Recovery gives up the player being bound and keeps the other riders.    *)
LEMMA RecoveringIs ==
  ASSUME NEW s, NEW e \in Engine(s), LoopOK(e), NEW m \in {"boot", "resume"}, NEW f,
         f = Game(s)!Recovering(e, m)
  PROVE  /\ f \in Engine(s) /\ LoopOK(f) /\ Keeps(e, f) /\ f.loop = "scan"
         /\ f.phase = e.phase /\ f.settling = e.settling /\ f.tosettle = e.tosettle
         /\ f.queue = e.queue /\ f.seen = e.seen
         /\ e.binding = None => f.bets = e.bets
<1>1. PICK b : b = [x \in DOMAIN e.bets \ {e.binding} |-> e.bets[x]]
  OBVIOUS
<1>2. PICK z : z = Game(s)!Nothing
  OBVIOUS
<1>3. e.bets \in Bets(s)
  BY DEF Engine
<1>4. b \in Bets(s) /\ z \in Snaps(s)
  BY <1>1, <1>2, <1>3, BetsCut, NothingIs
<1>5. f = [e EXCEPT !.loop = "scan", !.mode = m, !.todo = {}, !.snap = z,
              !.binding = None, !.bets = b]
  BY <1>1, <1>2 DEF Game!Recovering, Game!Drop, Engine
<1>6. f \in Engine(s)
  BY <1>4, <1>5 DEF Engine
<1>7. /\ f.cur = e.cur /\ f.loop = "scan" /\ f.binding = None
      /\ f.phase = e.phase /\ f.settling = e.settling /\ f.tosettle = e.tosettle
      /\ f.queue = e.queue /\ f.seen = e.seen /\ f.bets = b
  BY <1>5 DEF Engine
<1>8. Keeps(e, f)
  BY <1>1, <1>3, <1>7, BetsFacts, CrashAssumption DEF Keeps, Riders
<1>9. LoopOK(f)
  BY <1>7 DEF LoopOK
<1>10. ASSUME e.binding = None PROVE b = e.bets
  <2>1. PICK D \in SUBSET Users : e.bets \in [D -> Ride(s)]
    BY <1>3 DEF Bets
  <2> QED BY <1>1, <1>10, <2>1, CrashAssumption
<1> QED BY <1>6, <1>7, <1>8, <1>9, <1>10

(* So does taking the lead.                                                *)
LEMMA LeadingIs ==
  ASSUME NEW s, NEW e \in Engine(s), LoopOK(e), NEW f,
         f = Game(s)!Leading(e)
  PROVE  /\ f \in Engine(s) /\ LoopOK(f) /\ Keeps(e, f) /\ f.loop = "scan"
         /\ f.phase = e.phase /\ f.settling = e.settling /\ f.tosettle = e.tosettle
         /\ f.queue = e.queue /\ f.seen = e.seen
         /\ e.binding = None => f.bets = e.bets
<1>1. PICK g : g = [e EXCEPT !.leader = TRUE]
  OBVIOUS
<1>2. g \in Engine(s)
  BY <1>1 DEF Engine
<1>3. /\ g.cur = e.cur /\ g.loop = e.loop /\ g.binding = e.binding /\ g.todo = e.todo
      /\ g.phase = e.phase /\ g.settling = e.settling /\ g.tosettle = e.tosettle
      /\ g.queue = e.queue /\ g.seen = e.seen /\ g.bets = e.bets
  BY <1>1 DEF Engine
<1>4. LoopOK(g) /\ Riders(g) = Riders(e)
  BY <1>3 DEF LoopOK, Riders
<1>5. f = Game(s)!Recovering(g, "boot")
  BY <1>1 DEF Game!Leading
<1>6. /\ f \in Engine(s) /\ LoopOK(f) /\ Keeps(g, f) /\ f.loop = "scan"
      /\ f.phase = g.phase /\ f.settling = g.settling /\ f.tosettle = g.tosettle
      /\ f.queue = g.queue /\ f.seen = g.seen
      /\ g.binding = None => f.bets = g.bets
  BY <1>2, <1>4, <1>5, RecoveringIs
<1> QED BY <1>3, <1>4, <1>6 DEF Keeps

(* Standing by keeps the round in memory as it is.                         *)
LEMMA DemotedIs ==
  ASSUME NEW s, NEW e \in Engine(s), LoopOK(e), NEW f,
         f = Game(s)!Demoted(e)
  PROVE  /\ f \in Engine(s) /\ LoopOK(f) /\ Keeps(e, f)
         /\ \/ f.loop = "idle"
            \/ f.loop = e.loop /\ e.loop \in {"scan", "read", "claim", "orphans", "bind"}
         /\ f.phase = e.phase /\ f.settling = e.settling /\ f.tosettle = e.tosettle
         /\ f.queue = e.queue /\ f.seen = e.seen /\ f.bets = e.bets
         /\ f.binding = e.binding /\ f.todo = e.todo /\ f.snap = e.snap
<1>0. PICK l : l = IF e.loop \in {"scan", "read", "claim", "orphans", "bind"}
                   THEN e.loop ELSE "idle"
  OBVIOUS
<1>1. f = [e EXCEPT !.leader = FALSE, !.loop = l]
  BY <1>0 DEF Game!Demoted, Engine
<1>2. f \in Engine(s)
  BY <1>0, <1>1 DEF Engine
<1>3. /\ f.cur = e.cur /\ f.loop = l /\ f.binding = e.binding /\ f.todo = e.todo
      /\ f.phase = e.phase /\ f.settling = e.settling /\ f.tosettle = e.tosettle
      /\ f.queue = e.queue /\ f.seen = e.seen /\ f.bets = e.bets /\ f.snap = e.snap
  BY <1>1 DEF Engine
<1>4. LoopOK(f) /\ Keeps(e, f)
  BY <1>0, <1>3 DEF LoopOK, Keeps, Riders
<1> QED BY <1>0, <1>2, <1>3, <1>4

(* The next round of a recovery, or the step after the last one.           *)
LEMMA ProceedIs ==
  ASSUME NEW s, NEW e \in Engine(s), LoopOK(e), e.loop \in {"scan", "claim"}, sched \subseteq Users,
         NEW T \in SUBSET (1..MaxRound), NEW f, f = Game(s)!Proceed(e, T)
  PROVE  /\ f \in Engine(s) /\ LoopOK(f) /\ Keeps(e, f) /\ f.loop \in {"orphans", "open", "read"}
         /\ f.loop = "read" => f.todo = T
         /\ f.phase = e.phase /\ f.settling = e.settling /\ f.tosettle = e.tosettle
         /\ f.queue = e.queue /\ f.seen = e.seen /\ f.bets = e.bets
<1>1. PICK z : z = Game(s)!Nothing
  OBVIOUS
<1>2. z \in Snaps(s)
  BY <1>1, NothingIs
<1>3. CASE T = {} /\ e.mode = "boot"
  <2>1. f = [e EXCEPT !.loop = "orphans", !.left = sched, !.todo = {}, !.snap = z]
    BY <1>1, <1>3 DEF Game!Proceed, Game!AfterRounds
  <2>2. f \in Engine(s)
    BY <2>1, <1>2 DEF Engine
  <2>3. /\ f.cur = e.cur /\ f.loop = "orphans" /\ f.binding = e.binding
        /\ f.phase = e.phase /\ f.settling = e.settling /\ f.tosettle = e.tosettle
        /\ f.queue = e.queue /\ f.seen = e.seen /\ f.bets = e.bets
    BY <2>1 DEF Engine
  <2> QED BY <2>2, <2>3 DEF LoopOK, Keeps, Riders
<1>4. CASE T = {} /\ e.mode # "boot"
  <2>1. f = [e EXCEPT !.loop = "open", !.todo = {}, !.snap = z]
    BY <1>1, <1>4 DEF Game!Proceed, Game!AfterRounds
  <2>2. f \in Engine(s)
    BY <2>1, <1>2 DEF Engine
  <2>3. /\ f.cur = e.cur /\ f.loop = "open" /\ f.binding = e.binding
        /\ f.phase = e.phase /\ f.settling = e.settling /\ f.tosettle = e.tosettle
        /\ f.queue = e.queue /\ f.seen = e.seen /\ f.bets = e.bets
    BY <2>1 DEF Engine
  <2> QED BY <2>2, <2>3 DEF LoopOK, Keeps, Riders
<1>5. CASE T # {}
  <2>1. f = [e EXCEPT !.loop = "read", !.todo = T, !.snap = z]
    BY <1>1, <1>5 DEF Game!Proceed
  <2>2. f \in Engine(s)
    BY <2>1, <1>2 DEF Engine
  <2>3. /\ f.cur = e.cur /\ f.loop = "read" /\ f.binding = e.binding /\ f.todo = T
        /\ f.phase = e.phase /\ f.settling = e.settling /\ f.tosettle = e.tosettle
        /\ f.queue = e.queue /\ f.seen = e.seen /\ f.bets = e.bets
    BY <2>1 DEF Engine
  <2> QED BY <1>5, <2>2, <2>3 DEF LoopOK, Keeps, Riders
<1> QED BY <1>3, <1>4, <1>5

(* A full stake is a position, worth the stake.                            *)
LEMMA FullStakeIs ==
  ASSUME NEW s, Setting(s)
  PROVE  /\ Game(s)!FullStake = [rem |-> s.stake, pay |-> 0]
         /\ Game(s)!FullStake \in Ride(s) /\ Game(s)!FullStake \in Position(s)
<1>1. Game(s)!FullStake = [rem |-> s.stake, pay |-> 0]
  BY DEF Game!FullStake
<1>2. s.stake \in 0..s.stake /\ 0 \in 0..(2 * s.stake) /\ 0 = 2 * (s.stake - s.stake)
  BY DEF Setting
<1>3. [rem |-> s.stake, pay |-> 0] \in Position(s)
  BY <1>2 DEF Position
<1>4. [rem |-> s.stake, pay |-> 0] \in Ride(s)
  BY <1>2 DEF Ride
<1> QED BY <1>1, <1>3, <1>4

(* The loop over the queue: who rides, and who is seated next.             *)
LEMMA PlacedIs ==
  ASSUME NEW s, Setting(s), NEW e \in Engine(s), e.binding = None, e.cur # 0,
         NEW f, f \in Game(s)!Placed(e)
  PROVE  /\ f \in Engine(s) /\ LoopOK(f) /\ f.loop \in {"window", "idle", "bind"}
         /\ f.cur = e.cur /\ f.phase = e.phase /\ f.settling = e.settling /\ f.tosettle = e.tosettle
         /\ Riders(f) \subseteq DOMAIN e.bets
         /\ f.queue \subseteq e.queue
         /\ f.loop = "bind" => /\ f.bets[f.binding] = [rem |-> s.stake, pay |-> 0]
                               /\ f.binding \in f.seen
         /\ f.loop = "bind" => e.queue # {}
         /\ Apart(e) => Keeps(e, f) /\ (f.loop = "bind" => Apart(f))
<1>0. e.bets \in Bets(s) /\ e.queue \subseteq Users /\ e.seen \subseteq Users
  BY DEF Engine
<1> DEFINE rest == e.queue \ e.seen
           free == IF e.draining THEN {} ELSE rest \ DOMAIN e.bets
<1>1. CASE free = {}
  <2>1. PICK b : b = [x \in DOMAIN e.bets \ rest |-> e.bets[x]]
    OBVIOUS
  <2>2. PICK l : l = IF e.leader THEN "window" ELSE "idle"
    OBVIOUS
  <2>3. f = [e EXCEPT !.loop = l, !.mode = "run", !.queue = {}, !.seen = {}, !.bets = b]
    BY <1>1, <2>1, <2>2 DEF Game!Placed, Game!Restrict, Engine
  <2>4. b \in Bets(s)
    BY <1>0, <2>1, BetsCut
  <2>5. f \in Engine(s)
    BY <2>2, <2>3, <2>4 DEF Engine
  <2>6. /\ f.loop = l /\ f.bets = b /\ f.queue = {} /\ f.binding = None
        /\ f.cur = e.cur /\ f.phase = e.phase /\ f.settling = e.settling /\ f.tosettle = e.tosettle
    BY <2>3 DEF Engine
  <2>7. LoopOK(f)
    BY <2>2, <2>6 DEF LoopOK
  <2>8. Riders(f) = DOMAIN e.bets \ rest
    BY <1>0, <2>1, <2>6, BetsFacts, CrashAssumption DEF Riders
  <2>9. Apart(e) => Keeps(e, f)
    BY <1>0, <2>1, <2>6, <2>8, BetsFacts, CrashAssumption DEF Riders, Apart, Keeps
  <2> QED BY <2>2, <2>5, <2>6, <2>7, <2>8, <2>9
<1>2. CASE free # {}
  <2>1. PICK u \in free, T \in SUBSET (rest \ free) : f = Game(s)!Seated(e, u, T)
    BY <1>2 DEF Game!Placed
  <2>2. PICK c : c = [x \in DOMAIN e.bets \ T |-> e.bets[x]]
    OBVIOUS
  <2>3. PICK v : v = [rem |-> s.stake, pay |-> 0]
    OBVIOUS
  <2>4. PICK b : b = [x \in DOMAIN c \cup {u} |-> IF x = u THEN v ELSE c[x]]
    OBVIOUS
  <2>5. PICK t : t = e.seen \cup T \cup {u}
    OBVIOUS
  <2>6. f = [e EXCEPT !.loop = "bind", !.binding = u, !.seen = t, !.bets = b]
    BY <2>1, <2>2, <2>3, <2>4, <2>5 DEF Game!Seated, Game!Put, Game!Restrict, Game!FullStake, Engine
  <2>7. u \in Users /\ u \in rest /\ u \notin DOMAIN e.bets /\ T \subseteq rest /\ rest \subseteq Users
        /\ ~e.draining /\ free = rest \ DOMAIN e.bets
    BY <1>0, <1>2, <2>1
  <2> HIDE DEF free, rest
  <2>8. c \in Bets(s)
    BY <1>0, <2>2, BetsCut
  <2>9. b \in Bets(s)
    BY <2>3, <2>4, <2>7, <2>8, BetsPut, FullStakeIs
  <2>10. t \subseteq Users
    BY <1>0, <2>5, <2>7
  <2>11. f \in Engine(s)
    BY <2>6, <2>7, <2>9, <2>10 DEF Engine
  <2>12. /\ f.loop = "bind" /\ f.bets = b /\ f.queue = e.queue /\ f.seen = t /\ f.binding = u
         /\ f.cur = e.cur /\ f.phase = e.phase /\ f.settling = e.settling /\ f.tosettle = e.tosettle
    BY <2>6 DEF Engine
  <2>13. DOMAIN b = (DOMAIN e.bets \ T) \cup {u} /\ b[u] = v /\ u \in t
    BY <2>2, <2>4, <2>5
  <2>14. LoopOK(f)
    BY <2>12, <2>13 DEF LoopOK
  <2>15. Riders(f) = DOMAIN e.bets \ T /\ \A x \in DOMAIN e.bets \ T : b[x] = e.bets[x]
    BY <2>2, <2>4, <2>7, <2>12, <2>13 DEF Riders
  <2>16. ASSUME Apart(e) PROVE Keeps(e, f) /\ Apart(f)
    <3>1. T = {} /\ rest = e.queue \ e.seen
      BY <2>1, <2>7, <2>16 DEF Apart, rest
    <3>2. Riders(e) = DOMAIN e.bets
      BY <1>0, BetsFacts, CrashAssumption DEF Riders
    <3>3. Keeps(e, f)
      BY <2>12, <2>15, <3>1, <3>2 DEF Keeps
    <3>4. Apart(f)
      BY <2>5, <2>12, <2>13, <2>16, <3>1 DEF Apart
    <3> QED BY <3>3, <3>4
  <2>17. e.queue # {}
    BY <2>7 DEF rest
  <2> QED BY <2>3, <2>11, <2>12, <2>13, <2>14, <2>15, <2>16, <2>17
<1> QED BY <1>1, <1>2
-----------------------------------------------------------------------------
(* A step of one replica that keeps its round and opens or settles none:   *)
(* either it stays where it is, or it starts over, recovers or waits.      *)
Calm(e, f) ==
    /\ Keeps(e, f)
    /\ f.queue \subseteq e.queue
    /\ f.settling => /\ e.settling /\ f.phase = e.phase /\ f.tosettle = e.tosettle
                     /\ e.binding = None => f.bets = e.bets
    /\ f.loop = "read" => \A r \in f.todo : \/ e.loop \in {"read", "claim"} /\ r \in e.todo
                                            \/ round[r] # "none"
    /\ \/ f.loop \notin {"bind", "window", "beacon", "fly", "claim"}
       \/ /\ f.loop = e.loop /\ f.phase = e.phase /\ f.bets = e.bets /\ f.binding = e.binding
          /\ f.seen = e.seen /\ f.todo = e.todo /\ f.snap = e.snap

(* A step of one replica that lets nobody ride who did not, and leaves the *)
(* bets and their requests alone.                                          *)
LEMMA RowsQuiet ==
  ASSUME NEW s, RowsInv(s), NEW n \in s.nodes, NEW f \in Engine(s), LoopOK(f),
         \/ Riders(f) = {}
         \/ f.cur = eng[n].cur /\ Riders(f) \subseteq Riders(eng[n]),
         eng' = [eng EXCEPT ![n] = f], UNCHANGED <<row, bet>>, Tables(s)'
  PROVE  RowsInv(s)'
<1>1. /\ eng' \in [s.nodes -> Engine(s)] /\ eng'[n] = f
      /\ \A m \in s.nodes \ {n} : eng'[m] = eng[m]
  BY DEF RowsInv
<1>2. BetRows(s)' /\ bet' \in [Users -> Request(s)] /\ \A u \in Users : RequestOK(s, u)'
  BY DEF RowsInv, BetRows, RequestOK, Late
<1>3. ASSUME NEW m \in s.nodes PROVE LoopOK(eng'[m]) /\ RidersOK(eng[m])'
  <2>1. CASE m = n
    BY <1>1, <2>1 DEF RowsInv, RidersOK, Late, Riders
  <2>2. CASE m # n
    BY <1>1, <2>2 DEF RowsInv, RidersOK, Late, Riders
  <2> QED BY <2>1, <2>2
<1>4. \A m \in s.nodes : LoopOK(eng[m])'
  BY <1>3 DEF LoopOK
<1> QED BY <1>1, <1>2, <1>3, <1>4 DEF RowsInv

(* Tables that a step leaves alone.                                        *)
LEMMA TablesSame ==
  ASSUME NEW s, Tables(s), UNCHANGED <<round, sched, bal, writes, queued>>,
         lock' \in s.nodes \cup {None}
  PROVE  Tables(s)'
  BY DEF Tables

(* A step of one replica that keeps its round.                             *)
LEMMA RowsKept ==
  ASSUME NEW s, RowsInv(s), NEW n \in s.nodes, NEW f \in Engine(s), LoopOK(f), Keeps(eng[n], f),
         eng' = [eng EXCEPT ![n] = f], UNCHANGED <<row, bet>>, Tables(s)'
  PROVE  RowsInv(s)'
  BY RowsQuiet DEF Keeps

(* A process that is not running is in no round.                           *)
LEMMA OffIs ==
  ASSUME NEW s, NEW e, e = Game(s)!Off
  PROVE  /\ e \in Engine(s) /\ LoopOK(e) /\ Riders(e) = {} /\ e.binding = None
         /\ e.cur = 0 /\ e.loop = "idle" /\ e.phase = "waiting" /\ ~e.settling /\ e.queue = {}
<1>1. PICK z : z = Game(s)!Nothing
  OBVIOUS
<1>2. z \in Bets(s) /\ z \in Snaps(s) /\ DOMAIN z = {}
  BY <1>1, NothingIs
<1>3. 0 \in 0..MaxRound
  BY CrashAssumption
<1>4. e = [up |-> FALSE, leader |-> FALSE, loop |-> "idle", cur |-> 0,
        phase |-> "waiting", closed |-> FALSE, bets |-> z,
        queue |-> {}, seen |-> {}, todo |-> {}, snap |-> z,
        left |-> {}, mode |-> "run", draining |-> FALSE, binding |-> None,
        settling |-> FALSE, tosettle |-> z]
  BY <1>1 DEF Game!Off
<1>5. e \in Engine(s)
  BY <1>2, <1>3, <1>4 DEF Engine
<1>6. /\ e.binding = None /\ e.cur = 0 /\ e.loop = "idle" /\ e.phase = "waiting" /\ ~e.settling
      /\ e.queue = {} /\ e.bets = z
  BY <1>4
<1> QED BY <1>2, <1>5, <1>6 DEF LoopOK, Riders

(* No request is under way.                                                *)
LEMMA IdleIs ==
  ASSUME NEW s
  PROVE  /\ Game(s)!Idle \in Request(s) /\ Game(s)!Idle.at = "idle" /\ Game(s)!Idle.r = 0
         /\ Game(s)!Idle.node = None
<1>1. 0 \in 0..MaxRound
  BY CrashAssumption
<1> QED BY <1>1 DEF Game!Idle, Request


\* What every one of these steps leaves alone.
Others(s) ==
    /\ UNCHANGED <<round, row, sched, bal, writes, bet, queued, due, known>>
    /\ lock' \in s.nodes \cup {None}

(* Electing, losing and regaining the lead; stepping through a recovery;   *)
(* giving up or ending a round.                                            *)
LEMMA CalmSteps ==
  ASSUME NEW s, RowsInv(s), NEW n \in s.nodes,
         \/ Game(s)!Tick(n) \/ Game(s)!Hiccup(n) \/ Game(s)!Resume(n) \/ Game(s)!DrainServer(n)
         \/ Game(s)!Scan(n) \/ Game(s)!RecoverFails(n) \/ Game(s)!Recovered(n)
         \/ Game(s)!BeaconFails(n) \/ Game(s)!SettleFails(n) \/ Game(s)!NextRound(n)
  PROVE  \E f \in Engine(s) : /\ LoopOK(f) /\ Calm(eng[n], f)
                              /\ eng' = [eng EXCEPT ![n] = f] /\ Others(s)
<1>0. eng[n] \in Engine(s) /\ LoopOK(eng[n]) /\ Tables(s)
  BY DEF RowsInv
<1>1. CASE Game(s)!Tick(n)
  <2>1. PICK f : f = Game(s)!Leading(eng[n])
    OBVIOUS
  <2>2. PICK g : g = Game(s)!Demoted(eng[n])
    OBVIOUS
  <2>3. PICK e : e = eng[n]
    OBVIOUS
  <2>4. f \in Engine(s) /\ LoopOK(f) /\ Calm(eng[n], f)
    BY <1>0, <2>1, LeadingIs DEF Calm
  <2>5. g \in Engine(s) /\ LoopOK(g) /\ Calm(eng[n], g)
    BY <1>0, <2>2, DemotedIs DEF Calm
  <2>6. e \in Engine(s) /\ LoopOK(e) /\ Calm(eng[n], e)
    BY <1>0, <2>3 DEF Keeps, Calm
  <2>7. /\ \/ eng' = [eng EXCEPT ![n] = e] \/ eng' = [eng EXCEPT ![n] = f] \/ eng' = [eng EXCEPT ![n] = g]
        /\ Others(s)
    BY <1>0, <1>1, <2>1, <2>2, <2>3 DEF Game!Tick, Game!Set, Others, Tables
  <2> QED BY <2>4, <2>5, <2>6, <2>7
<1>2. CASE Game(s)!Hiccup(n)
  <2>1. PICK f : f = Game(s)!Demoted(eng[n])
    OBVIOUS
  <2>7. f \in Engine(s) /\ LoopOK(f) /\ Calm(eng[n], f)
    BY <1>0, <2>1, DemotedIs DEF Calm
  <2>8. eng' = [eng EXCEPT ![n] = f] /\ Others(s)
    BY <1>0, <1>2, <2>1 DEF Game!Hiccup, Game!Set, Game!RamOnly, Others, Tables
  <2> QED BY <2>7, <2>8
<1>3. CASE Game(s)!Resume(n)
  <2>1. PICK f : f = Game(s)!Recovering(eng[n], "resume")
    OBVIOUS
  <2>7. f \in Engine(s) /\ LoopOK(f) /\ Calm(eng[n], f)
    BY <1>0, <2>1, RecoveringIs DEF Calm
  <2>8. eng' = [eng EXCEPT ![n] = f] /\ Others(s)
    BY <1>0, <1>3, <2>1 DEF Game!Resume, Game!Set, Game!RamOnly, Others, Tables
  <2> QED BY <2>7, <2>8
<1>4. CASE Game(s)!DrainServer(n)
  <2>1. PICK f : f = [eng[n] EXCEPT !.draining = TRUE, !.queue = {}, !.left = sched]
    OBVIOUS
  <2>2. f \in Engine(s)
    BY <1>0, <2>1 DEF Engine, Tables
  <2>7. f \in Engine(s) /\ LoopOK(f) /\ Calm(eng[n], f)
    BY <1>0, <2>1, <2>2 DEF Engine, LoopOK, Calm, Keeps, Riders
  <2>8. eng' = [eng EXCEPT ![n] = f] /\ Others(s)
    BY <1>0, <1>4, <2>1 DEF Game!DrainServer, Game!Set, Game!RamOnly, Others, Tables
  <2> QED BY <2>7, <2>8
<1>5. CASE Game(s)!Scan(n)
  <2>2. PICK T : T = {r \in 1..MaxRound : round[r] \in Game(s)!Open}
    OBVIOUS
  <2>1. PICK f : f = Game(s)!Proceed(eng[n], T)
    OBVIOUS
  <2>3. T \in SUBSET (1..MaxRound) /\ \A r \in T : round[r] # "none"
    BY <2>2 DEF Game!Open
  <2>4. /\ f \in Engine(s) /\ LoopOK(f) /\ Keeps(eng[n], f) /\ f.loop \in {"orphans", "open", "read"}
        /\ f.loop = "read" => f.todo = T
        /\ f.phase = eng[n].phase /\ f.settling = eng[n].settling /\ f.tosettle = eng[n].tosettle
        /\ f.queue = eng[n].queue /\ f.seen = eng[n].seen /\ f.bets = eng[n].bets
    <3>1. eng[n].loop \in {"scan", "claim"} /\ sched \subseteq Users
      BY <1>0, <1>5 DEF Game!Scan, Tables
    <3> QED BY <1>0, <2>1, <2>3, <3>1, ProceedIs
  <2>7. f \in Engine(s) /\ LoopOK(f) /\ Calm(eng[n], f)
    BY <2>3, <2>4 DEF Calm
  <2>8. eng' = [eng EXCEPT ![n] = f] /\ Others(s)
    BY <1>0, <1>5, <2>1, <2>2 DEF Game!Scan, Game!Set, Game!RamOnly, Others, Tables, Game!Rounds
  <2> QED BY <2>7, <2>8
<1>6. CASE Game(s)!RecoverFails(n)
  <2>a. PICK T : T = eng[n].todo \ {Game(s)!Min(eng[n].todo)}
    OBVIOUS
  <2>1. PICK f : f = Game(s)!Proceed(eng[n], T)
    OBVIOUS
  <2>2. T \in SUBSET (1..MaxRound) /\ T \subseteq eng[n].todo
    BY <1>0, <2>a DEF Engine
  <2>3. eng[n].loop = "claim"
    BY <1>6 DEF Game!RecoverFails
  <2>4. /\ f \in Engine(s) /\ LoopOK(f) /\ Keeps(eng[n], f) /\ f.loop \in {"orphans", "open", "read"}
        /\ f.loop = "read" => f.todo = T
        /\ f.phase = eng[n].phase /\ f.settling = eng[n].settling /\ f.tosettle = eng[n].tosettle
        /\ f.queue = eng[n].queue /\ f.seen = eng[n].seen /\ f.bets = eng[n].bets
    <3>1. eng[n].loop \in {"scan", "claim"} /\ sched \subseteq Users
      BY <1>0, <2>3 DEF Tables
    <3> QED BY <1>0, <2>1, <2>2, <3>1, ProceedIs
  <2>7. f \in Engine(s) /\ LoopOK(f) /\ Calm(eng[n], f)
    BY <2>2, <2>3, <2>4 DEF Calm
  <2>8. eng' = [eng EXCEPT ![n] = f] /\ Others(s)
    BY <1>0, <1>6, <2>1, <2>a DEF Game!RecoverFails, Game!Set, Game!RamOnly, Others, Tables
  <2> QED BY <2>7, <2>8
<1>7. CASE Game(s)!Recovered(n)
  <2>1. PICK f : f = [eng[n] EXCEPT !.loop = "open"]
    OBVIOUS
  <2>2. f \in Engine(s)
    BY <1>0, <2>1 DEF Engine
  <2>7. LoopOK(f) /\ Calm(eng[n], f)
    BY <1>0, <1>7, <2>1 DEF Engine, LoopOK, Calm, Keeps, Riders, Game!Recovered
  <2>8. eng' = [eng EXCEPT ![n] = f] /\ Others(s)
    BY <1>0, <1>7, <2>1 DEF Game!Recovered, Game!Set, Game!RamOnly, Others, Tables
  <2> QED BY <2>2, <2>7, <2>8
<1>8. CASE Game(s)!BeaconFails(n)
  <2>1. PICK f : f = Game(s)!Recovering(eng[n], "resume")
    OBVIOUS
  <2>2. PICK g : g = [eng[n] EXCEPT !.loop = "idle"]
    OBVIOUS
  <2>3. f \in Engine(s) /\ LoopOK(f) /\ Calm(eng[n], f)
    BY <1>0, <2>1, RecoveringIs DEF Calm
  <2>4. g \in Engine(s)
    BY <1>0, <2>2 DEF Engine
  <2>5. LoopOK(g) /\ Calm(eng[n], g)
    BY <1>0, <1>8, <2>2 DEF Engine, LoopOK, Calm, Keeps, Riders, Game!BeaconFails
  <2>6. (eng' = [eng EXCEPT ![n] = f] \/ eng' = [eng EXCEPT ![n] = g]) /\ Others(s)
    BY <1>0, <1>8, <2>1, <2>2 DEF Game!BeaconFails, Game!Set, Game!RamOnly, Others, Tables
  <2> QED BY <2>3, <2>4, <2>5, <2>6
<1>9. CASE Game(s)!SettleFails(n)
  <2>0. PICK z : z = Game(s)!Nothing
    OBVIOUS
  <2>1. PICK e : e = [eng[n] EXCEPT !.settling = FALSE, !.tosettle = z]
    OBVIOUS
  <2>2. PICK f : f = Game(s)!Recovering(e, "resume")
    OBVIOUS
  <2>3. PICK g : g = [e EXCEPT !.loop = "idle"]
    OBVIOUS
  <2>4. z \in Bets(s)
    BY <2>0, NothingIs
  <2>5. e \in Engine(s)
    BY <1>0, <2>1, <2>4 DEF Engine
  <2>6. /\ e.loop = eng[n].loop /\ e.binding = eng[n].binding /\ e.bets = eng[n].bets /\ e.cur = eng[n].cur
        /\ e.phase = eng[n].phase /\ e.seen = eng[n].seen /\ e.todo = eng[n].todo /\ e.snap = eng[n].snap
        /\ e.queue = eng[n].queue /\ ~e.settling
    BY <1>0, <2>1 DEF Engine
  <2>7. LoopOK(e) /\ Calm(eng[n], e) /\ Riders(e) = Riders(eng[n])
    BY <1>0, <2>6 DEF LoopOK, Calm, Keeps, Riders
  <2>8. f \in Engine(s) /\ LoopOK(f) /\ Calm(eng[n], f)
    <3>1. /\ f \in Engine(s) /\ LoopOK(f) /\ Keeps(e, f) /\ f.loop = "scan" /\ f.settling = e.settling
          /\ f.queue = e.queue
      BY <2>2, <2>5, <2>7, RecoveringIs
    <3> QED BY <2>6, <2>7, <3>1 DEF Calm, Keeps
  <2>9. e.loop = "settle" => g \in Engine(s) /\ LoopOK(g) /\ Calm(eng[n], g)
    <3>1. g \in Engine(s)
      BY <2>3, <2>5 DEF Engine
    <3>2. g.loop = "idle" /\ g.bets = e.bets /\ g.binding = e.binding /\ g.cur = e.cur /\ g.queue = e.queue
          /\ g.phase = e.phase /\ ~g.settling
      BY <2>3, <2>5, <2>6 DEF Engine
    <3> QED BY <2>6, <2>7, <3>1, <3>2 DEF LoopOK, Calm, Keeps, Riders
  <2>10. /\ \/ eng' = [eng EXCEPT ![n] = e] \/ eng' = [eng EXCEPT ![n] = f]
            \/ e.loop = "settle" /\ eng' = [eng EXCEPT ![n] = g]
         /\ Others(s)
    BY <1>0, <1>9, <2>0, <2>1, <2>2, <2>3 DEF Game!SettleFails, Game!Set, Game!RamOnly, Others, Tables
  <2> QED BY <2>5, <2>7, <2>8, <2>9, <2>10
<1>10. CASE Game(s)!NextRound(n)
  <2>0. PICK l : l = IF eng[n].draining THEN "idle" ELSE "open"
    OBVIOUS
  <2>1. PICK f : f = [eng[n] EXCEPT !.loop = l]
    OBVIOUS
  <2>2. f \in Engine(s)
    BY <1>0, <2>0, <2>1 DEF Engine
  <2>7. LoopOK(f) /\ Calm(eng[n], f)
    BY <1>0, <1>10, <2>0, <2>1 DEF Engine, LoopOK, Calm, Keeps, Riders, Game!NextRound
  <2>8. eng' = [eng EXCEPT ![n] = f] /\ Others(s)
    BY <1>0, <1>10, <2>0, <2>1 DEF Game!NextRound, Game!Set, Game!RamOnly, Others, Tables
  <2> QED BY <2>2, <2>7, <2>8
<1> QED BY <1>1, <1>2, <1>3, <1>4, <1>5, <1>6, <1>7, <1>8, <1>9, <1>10

(* Riders keep their rows in all of these.                                 *)
LEMMA RowsCalm ==
  ASSUME NEW s, RowsInv(s), NEW n \in s.nodes,
         \/ Game(s)!Tick(n) \/ Game(s)!Hiccup(n) \/ Game(s)!Resume(n) \/ Game(s)!DrainServer(n)
         \/ Game(s)!Scan(n) \/ Game(s)!RecoverFails(n) \/ Game(s)!Recovered(n)
         \/ Game(s)!BeaconFails(n) \/ Game(s)!SettleFails(n) \/ Game(s)!NextRound(n)
  PROVE  RowsInv(s)'
<1>1. PICK f \in Engine(s) : /\ LoopOK(f) /\ Calm(eng[n], f)
                             /\ eng' = [eng EXCEPT ![n] = f] /\ Others(s)
  BY CalmSteps
<1>2. Tables(s)'
  BY <1>1, TablesSame DEF Others, RowsInv
<1> QED BY <1>1, <1>2, RowsKept DEF Calm, Others

\* A process that has just started and knows of no round.
Fresh(f) ==
    /\ f.cur = 0 /\ Riders(f) = {} /\ f.loop \in {"idle", "scan"} /\ ~f.settling /\ f.queue = {}

(* A started process is in no round.                                       *)
LEMMA BootSteps ==
  ASSUME NEW s, RowsInv(s), NEW n \in s.nodes, Game(s)!Boot(n)
  PROVE  \E f \in Engine(s) : /\ LoopOK(f) /\ Fresh(f)
                              /\ eng' = [eng EXCEPT ![n] = f] /\ Others(s)
<1>1. PICK o : o = Game(s)!Off
  OBVIOUS
<1>2. PICK e : e = [o EXCEPT !.up = TRUE]
  OBVIOUS
<1>3. PICK f : f = Game(s)!Leading(e)
  OBVIOUS
<1>4. /\ o \in Engine(s) /\ LoopOK(o) /\ Riders(o) = {} /\ o.binding = None
      /\ o.cur = 0 /\ o.loop = "idle" /\ o.phase = "waiting" /\ ~o.settling /\ o.queue = {}
  BY <1>1, OffIs
<1>5. e \in Engine(s) /\ LoopOK(e) /\ Fresh(e)
  BY <1>2, <1>4 DEF Engine, LoopOK, Riders, Fresh
<1>6. f \in Engine(s) /\ LoopOK(f) /\ Fresh(f)
  BY <1>3, <1>5, LeadingIs DEF Keeps, Fresh
<1>7. /\ eng' = [eng EXCEPT ![n] = e] \/ eng' = [eng EXCEPT ![n] = f]
      /\ Others(s)
  BY <1>1, <1>2, <1>3 DEF Game!Boot, Game!Set, Others, RowsInv, Tables
<1> QED BY <1>5, <1>6, <1>7

(* Nobody rides a process that has just started.                           *)
LEMMA RowsBoot ==
  ASSUME NEW s, RowsInv(s), NEW n \in s.nodes, Game(s)!Boot(n)
  PROVE  RowsInv(s)'
<1>1. PICK f \in Engine(s) : /\ LoopOK(f) /\ Fresh(f)
                             /\ eng' = [eng EXCEPT ![n] = f] /\ Others(s)
  BY BootSteps
<1>2. Tables(s)'
  BY <1>1, TablesSame DEF Others, RowsInv
<1> QED BY <1>1, <1>2, RowsQuiet DEF Fresh, Others

(* The process dies: its requests are gone, nobody rides in it.            *)
LEMMA RowsDie ==
  ASSUME NEW s, RowsInv(s), NEW n \in s.nodes, Game(s)!Die(n), lock' \in {lock, None}
  PROVE  RowsInv(s)'
<1>1. PICK f : f = Game(s)!Off
  OBVIOUS
<1>2. PICK q : q = Game(s)!Idle
  OBVIOUS
<1>3. f \in Engine(s) /\ LoopOK(f) /\ Riders(f) = {}
  BY <1>1, OffIs
<1>4. q \in Request(s) /\ q.at = "idle"
  BY <1>2, IdleIs
<1>5. /\ eng' = [eng EXCEPT ![n] = f] /\ writes' \subseteq writes
      /\ bet' = [u \in Users |-> IF bet[u].node = n THEN q ELSE bet[u]]
      /\ queued' = [u \in Users |-> IF queued[u].node = n THEN q ELSE queued[u]]
      /\ UNCHANGED <<round, row, sched, bal>>
  BY <1>1, <1>2 DEF Game!Die, Game!Set
<1>6. Tables(s)'
  BY <1>4, <1>5 DEF RowsInv, Tables
<1>7. /\ eng' \in [s.nodes -> Engine(s)] /\ eng'[n] = f
      /\ \A m \in s.nodes \ {n} : eng'[m] = eng[m]
  BY <1>3, <1>5 DEF RowsInv
<1>8. bet' \in [Users -> Request(s)] /\ BetRows(s)'
  BY <1>4, <1>5 DEF RowsInv, BetRows
<1>9. \A u \in Users : bet'[u] = q \/ bet'[u] = bet[u]
  BY <1>5
<1>10. \A u \in Users : RequestOK(s, u)'
  BY <1>4, <1>5, <1>9 DEF RowsInv, RequestOK, Late
<1>11. ASSUME NEW m \in s.nodes PROVE LoopOK(eng'[m]) /\ RidersOK(eng[m])'
  <2>1. CASE m = n
    BY <1>3, <1>7, <2>1 DEF RidersOK, Riders
  <2>2. CASE m # n
    BY <1>4, <1>5, <1>7, <1>9, <2>2 DEF RowsInv, RidersOK, Late, Riders
  <2> QED BY <2>1, <2>2
<1>12. \A m \in s.nodes : LoopOK(eng[m])'
  BY <1>11 DEF LoopOK
<1> QED BY <1>6, <1>7, <1>8, <1>10, <1>11, <1>12 DEF RowsInv

(* The steps of the loop that keep their round, or open the next.          *)
LEMMA RowsLoop ==
  ASSUME NEW s, Setting(s), RowsInv(s), NEW n \in s.nodes,
         \/ Game(s)!ReadBets(n) \/ Game(s)!CloseBets(n) \/ Game(s)!Run(n) \/ Game(s)!Bust(n)
  PROVE  RowsInv(s)'
<1>0. eng[n] \in Engine(s) /\ LoopOK(eng[n]) /\ Tables(s)
  BY DEF RowsInv
<1>1. CASE Game(s)!ReadBets(n)
  <2>0. PICK r : r = Game(s)!Min(eng[n].todo)
    OBVIOUS
  <2>1. PICK z : z = [u \in {v \in Users : <<r, v>> \in DOMAIN row} |-> row[<<r, u>>]]
    OBVIOUS
  <2>2. PICK f : f = [eng[n] EXCEPT !.loop = "claim", !.snap = z]
    OBVIOUS
  <2>3. z \in Snaps(s)
    <3>1. {v \in Users : <<r, v>> \in DOMAIN row} \in SUBSET Users
      OBVIOUS
    <3>2. z \in [{v \in Users : <<r, v>> \in DOMAIN row} -> Position(s)]
      BY <2>1 DEF RowsInv, BetRows
    <3> QED BY <3>1, <3>2 DEF Snaps
  <2>4. f \in Engine(s)
    BY <1>0, <2>2, <2>3 DEF Engine
  <2>5. LoopOK(f) /\ Keeps(eng[n], f)
    BY <1>0, <1>1, <2>2 DEF Engine, LoopOK, Keeps, Riders, Game!ReadBets
  <2>6. eng' = [eng EXCEPT ![n] = f] /\ Others(s)
    BY <1>0, <1>1, <2>0, <2>1, <2>2 DEF Game!ReadBets, Game!Set, Game!RamOnly, Others, Tables
  <2> QED BY <1>0, <2>4, <2>5, <2>6, RowsKept, TablesSame DEF Others
<1>2. CASE Game(s)!CloseBets(n)
  <2>1. PICK f : f = [eng[n] EXCEPT !.loop = "beacon", !.closed = TRUE]
    OBVIOUS
  <2>2. PICK g : g = [eng[n] EXCEPT !.loop = "idle"]
    OBVIOUS
  <2>3. f \in Engine(s) /\ g \in Engine(s)
    BY <1>0, <2>1, <2>2 DEF Engine
  <2>4. LoopOK(f) /\ Keeps(eng[n], f) /\ LoopOK(g) /\ Keeps(eng[n], g)
    BY <1>0, <1>2, <2>1, <2>2 DEF Engine, LoopOK, Keeps, Riders, Game!CloseBets
  <2>5. (eng' = [eng EXCEPT ![n] = f] \/ eng' = [eng EXCEPT ![n] = g]) /\ Others(s)
    BY <1>0, <1>2, <2>1, <2>2 DEF Game!CloseBets, Game!Set, Game!RamOnly, Others, Tables
  <2> QED BY <1>0, <2>3, <2>4, <2>5, RowsKept, TablesSame DEF Others
<1>3. CASE Game(s)!Run(n)
  <2>1. PICK f : f = [eng[n] EXCEPT !.loop = "starting", !.phase = "running"]
    OBVIOUS
  <2>2. PICK w : w = [kind |-> "run", node |-> n, r |-> eng[n].cur, u |-> None, rem |-> 0, pay |-> 0]
    OBVIOUS
  <2>3. f \in Engine(s)
    BY <1>0, <2>1 DEF Engine
  <2>4. LoopOK(f) /\ Keeps(eng[n], f)
    BY <1>0, <1>3, <2>1 DEF Engine, LoopOK, Keeps, Riders, Game!Run
  <2>5. /\ eng' = [eng EXCEPT ![n] = f] /\ writes' = writes \cup {w}
        /\ UNCHANGED <<round, row, sched, bal, lock, bet, queued>>
    BY <1>3, <2>1, <2>2 DEF Game!Run, Game!Set
  <2>6. w \in Write(s)
    <3>1. eng[n].cur \in 1..MaxRound
      BY <1>0, <1>3, CrashAssumption DEF Engine, LoopOK, Game!Run
    <3>2. 0 \in 0..s.stake /\ 0 \in 0..(2 * s.stake)
      BY DEF Setting
    <3> QED BY <2>2, <3>1, <3>2 DEF Write
  <2>7. Tables(s)'
    BY <2>5, <2>6 DEF RowsInv, Tables
  <2> QED BY <2>3, <2>4, <2>5, <2>7, RowsKept
<1>4. CASE Game(s)!Bust(n)
  <2>1. PICK f : f = [eng[n] EXCEPT !.loop = "settle", !.phase = "busted",
                        !.settling = TRUE, !.tosettle = eng[n].bets]
    OBVIOUS
  <2>2. PICK g : g = [eng[n] EXCEPT !.loop = "idle"]
    OBVIOUS
  <2>3. f \in Engine(s) /\ g \in Engine(s)
    BY <1>0, <2>1, <2>2 DEF Engine
  <2>4. LoopOK(f) /\ Keeps(eng[n], f) /\ LoopOK(g) /\ Keeps(eng[n], g)
    BY <1>0, <1>4, <2>1, <2>2 DEF Engine, LoopOK, Keeps, Riders, Game!Bust
  <2>5. (eng' = [eng EXCEPT ![n] = f] \/ eng' = [eng EXCEPT ![n] = g]) /\ Others(s)
    BY <1>0, <1>4, <2>1, <2>2 DEF Game!Bust, Game!Set, Game!RamOnly, Others, Tables
  <2> QED BY <1>0, <2>3, <2>4, <2>5, RowsKept, TablesSame DEF Others
<1> QED BY <1>1, <1>2, <1>3, <1>4

(* A round is claimed by recovery: rows keep their keys.                   *)
LEMMA RowsRecover ==
  ASSUME NEW s, Setting(s), RowsInv(s), NEW n \in s.nodes, Game(s)!Recover(n)
  PROVE  RowsInv(s)'
<1>0. eng[n] \in Engine(s) /\ LoopOK(eng[n]) /\ Tables(s) /\ eng[n].loop = "claim"
  BY DEF RowsInv, Game!Recover
<1>1. PICK r : r = Game(s)!Min(eng[n].todo)
  OBVIOUS
<1>2. PICK f : f = Game(s)!Proceed(eng[n], eng[n].todo \ {r})
  OBVIOUS
<1>3. PICK z : z = eng[n].snap
  OBVIOUS
<1>4. DOMAIN z \subseteq Users /\ \A u \in DOMAIN z : z[u] \in Position(s)
  BY <1>0, <1>3 DEF Engine, Snaps
<1>5. eng[n].todo \ {r} \in SUBSET (1..MaxRound)
  BY <1>0 DEF Engine
<1>6. f \in Engine(s) /\ LoopOK(f) /\ Keeps(eng[n], f)
  BY <1>0, <1>2, <1>5, ProceedIs DEF Tables
<1>7. /\ eng' = [eng EXCEPT ![n] = f] /\ UNCHANGED <<sched, lock, writes, bet, queued>>
      /\ round' \in {round, [round EXCEPT ![r] = "busted"]}
      /\ row' \in {row, [k \in DOMAIN row |-> IF k[1] = r /\ k[2] \in DOMAIN z
                            THEN [rem |-> 0, pay |-> z[k[2]].pay] ELSE row[k]]}
      /\ bal' \in {bal, Game(s)!Credited([u \in DOMAIN z |-> z[u].rem + z[u].pay])}
  BY <1>1, <1>2, <1>3 DEF Game!Recover, Game!Set
<1>8. bal' \in [Users -> Nat]
  <2>1. PICK a : a = [u \in DOMAIN z |-> z[u].rem + z[u].pay]
    OBVIOUS
  <2>2. \A u \in DOMAIN a : a[u] \in Nat
    BY <1>4, <2>1 DEF Position, Setting
  <2>3. Game(s)!Credited(a) \in [Users -> Nat]
    BY <1>0, <2>2 DEF Game!Credited, Tables
  <2> QED BY <1>0, <1>7, <2>1, <2>3 DEF Tables
<1>9. Tables(s)'
  BY <1>0, <1>7, <1>8 DEF Tables
<1>10. DOMAIN row' = DOMAIN row
  BY <1>7
<1>11. BetRows(s)'
  <2>1. 0 \in 0..s.stake
    BY DEF Setting
  <2>2. \A u \in DOMAIN z : [rem |-> 0, pay |-> z[u].pay] \in Position(s)
    BY <1>4, <2>1 DEF Position
  <2> QED BY <1>7, <1>10, <2>2 DEF RowsInv, BetRows
<1>12. /\ eng' \in [s.nodes -> Engine(s)] /\ eng'[n] = f
       /\ \A m \in s.nodes \ {n} : eng'[m] = eng[m]
  BY <1>6, <1>7 DEF RowsInv
<1>13. bet' \in [Users -> Request(s)] /\ \A u \in Users : RequestOK(s, u)'
  BY <1>7, <1>10 DEF RowsInv, RequestOK, Late
<1>14. ASSUME NEW m \in s.nodes PROVE LoopOK(eng'[m]) /\ RidersOK(eng[m])'
  <2>1. CASE m = n
    BY <1>6, <1>7, <1>10, <1>12, <2>1 DEF RowsInv, RidersOK, Late, Riders, Keeps
  <2>2. CASE m # n
    BY <1>7, <1>10, <1>12, <2>2 DEF RowsInv, RidersOK, Late, Riders
  <2> QED BY <2>1, <2>2
<1>15. \A m \in s.nodes : LoopOK(eng[m])'
  BY <1>14 DEF LoopOK
<1> QED BY <1>9, <1>11, <1>12, <1>13, <1>14, <1>15 DEF RowsInv

(* A round is opened: only the player being bound is in it.                *)
LEMMA OpenRoundSteps ==
  ASSUME NEW s, Setting(s), RowsInv(s), NEW n \in s.nodes, Game(s)!OpenRound(n)
  PROVE  \E f \in Engine(s) :
           /\ LoopOK(f) /\ eng' = [eng EXCEPT ![n] = f]
           /\ UNCHANGED <<row, sched, bal, lock, writes, bet, queued, due, known>>
           /\ \/ Calm(eng[n], f) /\ round' = round
              \/ \E r \in 1..MaxRound :
                   /\ round[r] = "none" /\ round' = [round EXCEPT ![r] = "waiting"]
                   /\ Game(s)!Hit("staleSettle") \/ ~eng[n].settling
                   /\ f.cur = r /\ f.phase = "waiting" /\ Riders(f) = {}
                   /\ f.settling = eng[n].settling
                   /\ f.loop \in {"window", "idle", "bind"} /\ f.queue \subseteq eng[n].queue
                   /\ f.loop = "bind" => /\ f.bets[f.binding] = [rem |-> s.stake, pay |-> 0]
                                         /\ f.binding \in f.seen /\ Apart(f) /\ eng[n].queue # {}
<1>0. eng[n] \in Engine(s) /\ LoopOK(eng[n]) /\ eng[n].loop = "open"
  BY DEF RowsInv, Game!OpenRound
<1>1. CASE ~eng[n].leader \/ eng[n].draining
  <2>1. PICK f : f = [eng[n] EXCEPT !.loop = "idle"]
    OBVIOUS
  <2>2. f \in Engine(s)
    BY <1>0, <2>1 DEF Engine
  <2>3. LoopOK(f) /\ Calm(eng[n], f)
    BY <1>0, <2>1 DEF Engine, LoopOK, Calm, Keeps, Riders
  <2>4. /\ eng' = [eng EXCEPT ![n] = f] /\ round' = round
        /\ UNCHANGED <<row, sched, bal, lock, writes, bet, queued, due, known>>
    BY <1>1, <2>1 DEF Game!OpenRound, Game!Set
  <2> QED BY <2>2, <2>3, <2>4
<1>2. CASE ~(~eng[n].leader \/ eng[n].draining)
  <2>0. PICK z : z = Game(s)!Nothing
    OBVIOUS
  <2>1. PICK r \in 1..MaxRound :
          /\ Game(s)!Hit("staleSettle") \/ ~eng[n].settling
          /\ round[r] = "none" /\ round' = [round EXCEPT ![r] = "waiting"]
          /\ \E f \in Game(s)!Placed([eng[n] EXCEPT !.cur = r, !.phase = "waiting",
                                        !.closed = FALSE, !.bets = z, !.seen = {}]) :
                eng' = [eng EXCEPT ![n] = f]
    BY <1>2, <2>0 DEF Game!OpenRound, Game!Set, Game!Rounds
  <2>2. PICK e : e = [eng[n] EXCEPT !.cur = r, !.phase = "waiting",
                                    !.closed = FALSE, !.bets = z, !.seen = {}]
    OBVIOUS
  <2>3. PICK f : f \in Game(s)!Placed(e) /\ eng' = [eng EXCEPT ![n] = f]
    BY <2>1, <2>2
  <2>4. z \in Bets(s) /\ DOMAIN z = {}
    BY <2>0, NothingIs
  <2>a. r \in 0..MaxRound /\ r # 0
    BY CrashAssumption
  <2>5. e \in Engine(s)
    BY <1>0, <2>2, <2>4, <2>a DEF Engine
  <2>6. /\ e.cur = r /\ e.phase = "waiting" /\ e.bets = z /\ e.binding = None
        /\ e.settling = eng[n].settling /\ e.queue = eng[n].queue
    BY <1>0, <2>2 DEF Engine, LoopOK
  <2>7. Apart(e) /\ Riders(e) = {} /\ e.cur # 0
    BY <2>4, <2>6, <2>a DEF Apart, Riders
  <2>8. /\ f \in Engine(s) /\ LoopOK(f) /\ f.loop \in {"window", "idle", "bind"}
        /\ f.cur = e.cur /\ f.phase = e.phase /\ f.settling = e.settling
        /\ Riders(f) \subseteq DOMAIN e.bets
        /\ f.queue \subseteq e.queue
        /\ f.loop = "bind" => /\ f.bets[f.binding] = [rem |-> s.stake, pay |-> 0]
                              /\ f.binding \in f.seen
        /\ f.loop = "bind" => Apart(f) /\ e.queue # {}
    BY <2>3, <2>5, <2>6, <2>7, PlacedIs
  <2>9. UNCHANGED <<row, sched, bal, lock, writes, bet, queued, due, known>>
    BY DEF Game!OpenRound
  <2>10. /\ f.cur = r /\ f.phase = "waiting" /\ Riders(f) = {}
         /\ f.settling = eng[n].settling /\ f.queue \subseteq eng[n].queue
    BY <2>4, <2>6, <2>8
  <2>11. \E q \in 1..MaxRound :
           /\ round[q] = "none" /\ round' = [round EXCEPT ![q] = "waiting"]
           /\ Game(s)!Hit("staleSettle") \/ ~eng[n].settling
           /\ f.cur = q /\ f.phase = "waiting" /\ Riders(f) = {}
           /\ f.settling = eng[n].settling
           /\ f.loop \in {"window", "idle", "bind"} /\ f.queue \subseteq eng[n].queue
           /\ f.loop = "bind" => /\ f.bets[f.binding] = [rem |-> s.stake, pay |-> 0]
                                 /\ f.binding \in f.seen /\ Apart(f) /\ eng[n].queue # {}
    <3> WITNESS r \in 1..MaxRound
    <3> QED BY <2>1, <2>6, <2>8, <2>10
  <2> QED BY <2>3, <2>8, <2>9, <2>11
<1> QED BY <1>1, <1>2

(* A new round starts without riders.                                      *)
LEMMA RowsOpen ==
  ASSUME NEW s, Setting(s), RowsInv(s), NEW n \in s.nodes, Game(s)!OpenRound(n)
  PROVE  RowsInv(s)'
<1>1. PICK f \in Engine(s) :
        /\ LoopOK(f) /\ eng' = [eng EXCEPT ![n] = f]
        /\ UNCHANGED <<row, sched, bal, lock, writes, bet, queued>>
        /\ \/ Calm(eng[n], f) /\ round' = round
           \/ Riders(f) = {} /\ \E r \in 1..MaxRound : round' = [round EXCEPT ![r] = "waiting"]
  BY OpenRoundSteps
<1>2. Tables(s)'
  BY <1>1 DEF RowsInv, Tables
<1> QED BY <1>1, <1>2, RowsQuiet DEF Calm, Keeps

(* The binding of a queued stake ended, well or not, and the loop went on. *)
Bound(s, e, f) ==
    /\ f.cur = e.cur /\ f.phase = e.phase /\ f.settling = e.settling /\ f.tosettle = e.tosettle
    /\ f.loop \in {"window", "idle", "bind"} /\ f.queue \subseteq e.queue
    /\ f.loop = "bind" => /\ f.bets[f.binding] = [rem |-> s.stake, pay |-> 0]
                          /\ f.binding \in f.seen

\* Nobody is being bound; otherwise as before, but for the bets.
Unbound(e, d) ==
    /\ d.binding = None /\ d.cur = e.cur /\ d.phase = e.phase
    /\ d.settling = e.settling /\ d.tosettle = e.tosettle /\ d.queue = e.queue /\ d.seen = e.seen

(* The stake was not bound: the player does not ride.                      *)
LEMMA NotBoundSteps ==
  ASSUME NEW s, Setting(s), NEW e \in Engine(s), LoopOK(e), e.loop = "bind",
         NEW d \in Engine(s), Unbound(e, d), DOMAIN d.bets = Riders(e),
         \A x \in Riders(e) : d.bets[x] = e.bets[x],
         NEW f, f \in Game(s)!Placed(d)
  PROVE  /\ f \in Engine(s) /\ LoopOK(f) /\ Bound(s, e, f)
         /\ Riders(f) \subseteq Riders(e)
         /\ Apart(e) => Keeps(e, f) /\ (f.loop = "bind" => Apart(f))
<1>2. e.bets \in Bets(s) /\ e.binding \in Users
  BY BetsFacts DEF Engine, LoopOK
<1>6. d.binding = None /\ d.cur # 0
  BY DEF Unbound, LoopOK
<1>8. /\ f \in Engine(s) /\ LoopOK(f) /\ f.loop \in {"window", "idle", "bind"}
      /\ f.cur = d.cur /\ f.phase = d.phase /\ f.settling = d.settling /\ f.tosettle = d.tosettle
      /\ Riders(f) \subseteq DOMAIN d.bets
      /\ f.queue \subseteq d.queue
      /\ f.loop = "bind" => /\ f.bets[f.binding] = [rem |-> s.stake, pay |-> 0]
                            /\ f.binding \in f.seen
      /\ Apart(d) => Keeps(d, f) /\ (f.loop = "bind" => Apart(f))
  BY <1>6, PlacedIs
<1>9. Riders(d) = Riders(e)
  BY <1>2, <1>6, BetsFacts, CrashAssumption DEF Riders
<1>10. Apart(e) => Apart(d)
  BY DEF Apart, Riders, Unbound
<1> QED BY <1>8, <1>9, <1>10 DEF Bound, Keeps, Unbound

(* The stake was bound: the player rides from now on.                      *)
LEMMA BoundSteps ==
  ASSUME NEW s, Setting(s), NEW e \in Engine(s), LoopOK(e), e.loop = "bind",
         NEW d \in Engine(s), Unbound(e, d), d.bets = e.bets,
         NEW f, f \in Game(s)!Placed(d)
  PROVE  /\ f \in Engine(s) /\ LoopOK(f) /\ Bound(s, e, f)
         /\ Riders(f) \subseteq DOMAIN e.bets
         /\ Apart(e) => /\ Riders(f) = DOMAIN e.bets
                        /\ \A u \in DOMAIN e.bets : f.bets[u] = e.bets[u]
                        /\ f.loop = "bind" => Apart(f)
<1>2. e.bets \in Bets(s) /\ e.binding \in Users
  BY BetsFacts DEF Engine, LoopOK
<1>6. d.binding = None /\ d.cur # 0
  BY DEF Unbound, LoopOK
<1>8. /\ f \in Engine(s) /\ LoopOK(f) /\ f.loop \in {"window", "idle", "bind"}
      /\ f.cur = d.cur /\ f.phase = d.phase /\ f.settling = d.settling /\ f.tosettle = d.tosettle
      /\ Riders(f) \subseteq DOMAIN d.bets
      /\ f.queue \subseteq d.queue
      /\ f.loop = "bind" => /\ f.bets[f.binding] = [rem |-> s.stake, pay |-> 0]
                            /\ f.binding \in f.seen
      /\ Apart(d) => Keeps(d, f) /\ (f.loop = "bind" => Apart(f))
  BY <1>6, PlacedIs
<1>9. Riders(d) = DOMAIN e.bets
  BY <1>2, <1>6, BetsFacts, CrashAssumption DEF Riders
<1>10. Apart(e) => Apart(d)
  BY DEF Apart, Unbound
<1> QED BY <1>8, <1>9, <1>10 DEF Bound, Keeps, Unbound

(* What a failed binding leaves behind.                                    *)
LEMMA BindFailsSteps ==
  ASSUME NEW s, Setting(s), RowsInv(s), NEW n \in s.nodes,
         \/ Game(s)!BindFails(n)
         \/ Game(s)!BindQueued(n) /\ ~Game(s)!Bindable(eng[n].binding, <<eng[n].cur, eng[n].binding>>)
  PROVE  /\ eng[n].loop = "bind" /\ Others(s)
         /\ \E f \in Engine(s) :
              /\ LoopOK(f) /\ Bound(s, eng[n], f) /\ eng' = [eng EXCEPT ![n] = f]
              /\ Riders(f) \subseteq Riders(eng[n])
              /\ Apart(eng[n]) => Keeps(eng[n], f) /\ (f.loop = "bind" => Apart(f))
<1>0. eng[n] \in Engine(s) /\ LoopOK(eng[n]) /\ eng[n].loop = "bind"
  BY DEF RowsInv, Game!BindFails, Game!BindQueued
<1>1. PICK d : d = [eng[n] EXCEPT !.binding = None,
                       !.bets = [x \in DOMAIN eng[n].bets \ {eng[n].binding} |-> eng[n].bets[x]]]
  OBVIOUS
<1>2. Others(s) /\ \E f \in Game(s)!Placed(d) : eng' = [eng EXCEPT ![n] = f]
  <2>1. CASE Game(s)!BindFails(n)
    BY <1>0, <1>1, <2>1 DEF Game!BindFails, Game!Drop, Game!Set, Game!RamOnly, Others, RowsInv, Tables, Engine
  <2>2. CASE Game(s)!BindQueued(n) /\ ~Game(s)!Bindable(eng[n].binding, <<eng[n].cur, eng[n].binding>>)
    <3>1. PICK c : c = [eng[n] EXCEPT !.binding = None]
      OBVIOUS
    <3>2. c.cur = eng[n].cur /\ c.bets = eng[n].bets
      BY <1>0, <3>1 DEF Engine
    <3>3. /\ \E f \in Game(s)!Placed([c EXCEPT !.bets = Game(s)!Drop(c.bets, eng[n].binding)]) :
               Game(s)!Set(n, f)
          /\ UNCHANGED <<row, sched, owed, due, known, round, bal, lock, writes, bet, queued>>
      BY <2>2, <3>1, <3>2 DEF Game!BindQueued
    <3>4. [c EXCEPT !.bets = Game(s)!Drop(c.bets, eng[n].binding)] = d
      BY <1>0, <1>1, <3>1, <3>2 DEF Game!Drop, Engine
    <3> QED BY <3>3, <3>4 DEF Game!Set, Others, RowsInv, Tables
  <2> QED BY <2>1, <2>2
<1>3. PICK f \in Game(s)!Placed(d) : eng' = [eng EXCEPT ![n] = f]
  BY <1>2
<1>4. /\ f \in Engine(s) /\ LoopOK(f) /\ Bound(s, eng[n], f)
      /\ Riders(f) \subseteq Riders(eng[n])
      /\ Apart(eng[n]) => Keeps(eng[n], f) /\ (f.loop = "bind" => Apart(f))
  <2>1. PICK b : b = [x \in DOMAIN eng[n].bets \ {eng[n].binding} |-> eng[n].bets[x]]
    OBVIOUS
  <2>2. b \in Bets(s)
    BY <1>0, <2>1, BetsCut DEF Engine
  <2>3. d = [eng[n] EXCEPT !.binding = None, !.bets = b]
    BY <1>1, <2>1
  <2>4. d \in Engine(s)
    BY <1>0, <2>2, <2>3 DEF Engine
  <2>5. Unbound(eng[n], d) /\ d.bets = b
    BY <1>0, <2>3 DEF Engine, Unbound
  <2>6. DOMAIN d.bets = Riders(eng[n]) /\ \A x \in Riders(eng[n]) : d.bets[x] = eng[n].bets[x]
    BY <2>1, <2>5 DEF Riders
  <2> QED BY <1>0, <1>3, <2>4, <2>5, <2>6, NotBoundSteps
<1> QED BY <1>0, <1>2, <1>3, <1>4

(* What a binding that succeeds leaves behind.                             *)
LEMMA BindQueuedSteps ==
  ASSUME NEW s, Setting(s), RowsInv(s), NEW n \in s.nodes, Game(s)!BindQueued(n),
         NEW u, u = eng[n].binding, NEW k, k = <<eng[n].cur, u>>, NEW v, v = Game(s)!FullStake,
         Game(s)!Bindable(u, k)
  PROVE  /\ eng[n].loop = "bind" /\ u \in Users /\ k \notin DOMAIN row
         /\ row' = [x \in DOMAIN row \cup {k} |-> IF x = k THEN v ELSE row[x]]
         /\ sched' = sched \ {u}
         /\ due' = [due EXCEPT ![k] = @ + s.stake] /\ known' = [known EXCEPT ![k] = s.stake]
         /\ UNCHANGED <<round, bal, lock, writes, bet, queued>>
         /\ \E f \in Engine(s) :
              /\ LoopOK(f) /\ Bound(s, eng[n], f) /\ eng' = [eng EXCEPT ![n] = f]
              /\ Riders(f) \subseteq DOMAIN eng[n].bets
              /\ Apart(eng[n]) => /\ Riders(f) = DOMAIN eng[n].bets
                                  /\ \A x \in DOMAIN eng[n].bets : f.bets[x] = eng[n].bets[x]
                                  /\ f.loop = "bind" => Apart(f)
<1>0. eng[n] \in Engine(s) /\ LoopOK(eng[n]) /\ eng[n].loop = "bind"
  BY DEF RowsInv, Game!BindQueued
<1>1. PICK d : d = [eng[n] EXCEPT !.binding = None]
  OBVIOUS
<1>2. d.cur = eng[n].cur
  BY <1>0, <1>1 DEF Engine
<1>3. /\ row' = Game(s)!Put(row, k, v)
      /\ sched' = sched \ {u}
      /\ due' = [due EXCEPT ![k] = @ + s.stake] /\ known' = [known EXCEPT ![k] = s.stake]
      /\ \E f \in Game(s)!Placed(d) : Game(s)!Set(n, f)
      /\ UNCHANGED <<round, bal, lock, writes, bet, queued>>
  BY <1>1, <1>2 DEF Game!BindQueued
<1>4. PICK f \in Game(s)!Placed(d) : eng' = [eng EXCEPT ![n] = f]
  BY <1>3 DEF Game!Set
<1>5. /\ f \in Engine(s) /\ LoopOK(f) /\ Bound(s, eng[n], f)
      /\ Riders(f) \subseteq DOMAIN eng[n].bets
      /\ Apart(eng[n]) => /\ Riders(f) = DOMAIN eng[n].bets
                          /\ \A x \in DOMAIN eng[n].bets : f.bets[x] = eng[n].bets[x]
                          /\ f.loop = "bind" => Apart(f)
  <2>1. d \in Engine(s)
    BY <1>0, <1>1 DEF Engine
  <2>2. Unbound(eng[n], d) /\ d.bets = eng[n].bets
    BY <1>0, <1>1 DEF Engine, Unbound
  <2> QED BY <1>0, <1>4, <2>1, <2>2, BoundSteps
<1>6. u \in Users /\ k \notin DOMAIN row
  BY <1>0, BetsFacts DEF Engine, LoopOK, Game!Bindable
<1>7. row' = [x \in DOMAIN row \cup {k} |-> IF x = k THEN v ELSE row[x]]
  BY <1>3 DEF Game!Put
<1> QED BY <1>0, <1>3, <1>4, <1>5, <1>6, <1>7

(* A player rides when the transaction has created the row.                *)
LEMMA RowsBind ==
  ASSUME NEW s, Setting(s), RowsInv(s), NEW n \in s.nodes, Game(s)!BindQueued(n) \/ Game(s)!BindFails(n)
  PROVE  RowsInv(s)'
<1>0. eng[n] \in Engine(s) /\ LoopOK(eng[n])
  BY DEF RowsInv
<1>1. PICK u, k, v : u = eng[n].binding /\ k = <<eng[n].cur, u>> /\ v = Game(s)!FullStake
  OBVIOUS
<1>2. CASE Game(s)!BindFails(n) \/ (Game(s)!BindQueued(n) /\ ~Game(s)!Bindable(u, k))
  <2>1. PICK f \in Engine(s) : /\ LoopOK(f) /\ Bound(s, eng[n], f) /\ eng' = [eng EXCEPT ![n] = f]
                               /\ Riders(f) \subseteq Riders(eng[n]) /\ Others(s)
    BY <1>1, <1>2, BindFailsSteps
  <2>2. Tables(s)'
    BY <2>1, TablesSame DEF Others, RowsInv
  <2> QED BY <2>1, <2>2, RowsQuiet DEF Others, Bound
<1>3. CASE Game(s)!BindQueued(n) /\ Game(s)!Bindable(u, k)
  <2>1. /\ eng[n].loop = "bind" /\ u \in Users /\ k \notin DOMAIN row
        /\ row' = [x \in DOMAIN row \cup {k} |-> IF x = k THEN v ELSE row[x]]
        /\ sched' = sched \ {u}
        /\ UNCHANGED <<round, bal, lock, writes, bet, queued>>
    BY <1>1, <1>3, BindQueuedSteps
  <2>2. PICK f \in Engine(s) : /\ LoopOK(f) /\ Bound(s, eng[n], f) /\ eng' = [eng EXCEPT ![n] = f]
                               /\ Riders(f) \subseteq DOMAIN eng[n].bets
    BY <1>1, <1>3, BindQueuedSteps
  <2>3. Tables(s)'
    BY <2>1 DEF RowsInv, Tables
  <2>4. eng[n].cur \in 1..MaxRound /\ v \in Position(s)
    BY <1>0, <1>1, <2>1, FullStakeIs, CrashAssumption DEF Engine, LoopOK
  <2>5. BetRows(s)' /\ bet' \in [Users -> Request(s)]
    BY <1>1, <2>1, <2>4 DEF RowsInv, BetRows
  <2>6. \A x \in Users : RequestOK(s, x)'
    BY <2>1 DEF RowsInv, RequestOK, Late
  <2>7. /\ eng' \in [s.nodes -> Engine(s)] /\ eng'[n] = f
        /\ \A m \in s.nodes \ {n} : eng'[m] = eng[m]
    BY <2>2 DEF RowsInv
  <2>8. \A x \in Users : Late(x, eng[n].cur) => x # u
    BY <1>1, <2>1 DEF RowsInv, RequestOK, Late
  <2>9. ASSUME NEW m \in s.nodes PROVE LoopOK(eng'[m]) /\ RidersOK(eng[m])'
    <3>1. CASE m = n
      <4>1. \A x \in DOMAIN eng[n].bets : x = u \/ x \in Riders(eng[n])
        BY <1>1 DEF Riders
      <4>2. \A x \in Users : x \in Riders(f) => <<f.cur, x>> \in DOMAIN row'
        BY <1>1, <2>1, <2>2, <4>1 DEF RowsInv, RidersOK, Bound
      <4>3. \A x \in Users : Late(x, f.cur) => x \notin Riders(f)
        BY <2>2, <2>8, <4>1 DEF RowsInv, RidersOK, Bound
      <4> QED BY <2>1, <2>2, <2>7, <3>1, <4>2, <4>3 DEF RidersOK, Late, Riders
    <3>2. CASE m # n
      BY <2>1, <2>7, <3>2 DEF RowsInv, RidersOK, Late, Riders
    <3> QED BY <3>1, <3>2
  <2>10. \A m \in s.nodes : LoopOK(eng[m])'
    BY <2>9 DEF LoopOK
  <2> QED BY <2>3, <2>5, <2>6, <2>7, <2>9, <2>10 DEF RowsInv
<1> QED BY <1>2, <1>3

(* The status write moves its round to the ticks.                          *)
LEMMA RunWrittenSteps ==
  ASSUME NEW s, RowsInv(s), NEW w \in writes, Game(s)!RunWritten(w)
  PROVE  /\ w.kind = "run" /\ w \in Write(s) /\ w.node \in s.nodes
         /\ writes' = writes \ {w} /\ round' = [round EXCEPT ![w.r] = "running"]
         /\ UNCHANGED <<row, sched, bal, lock, bet, queued, due, known>>
         /\ \E f \in Engine(s) :
              /\ LoopOK(f) /\ Keeps(eng[w.node], f) /\ eng' = [eng EXCEPT ![w.node] = f]
              /\ \/ f = eng[w.node]
                 \/ /\ f.loop = "fly" /\ f.cur = w.r
                    /\ f.settling = eng[w.node].settling /\ f.tosettle = eng[w.node].tosettle
                    /\ f.phase = eng[w.node].phase /\ f.bets = eng[w.node].bets
                    /\ f.queue = eng[w.node].queue
<1>1. w \in Write(s) /\ w.node \in s.nodes /\ w.kind = "run"
  BY DEF RowsInv, Tables, Write, Game!RunWritten
<1>2. PICK e : e = eng[w.node]
  OBVIOUS
<1>3. e \in Engine(s) /\ LoopOK(e)
  BY <1>1, <1>2 DEF RowsInv
<1>4. PICK g : g = [e EXCEPT !.loop = "fly"]
  OBVIOUS
<1>5. PICK f : f = IF e.loop = "starting" /\ e.cur = w.r THEN g ELSE e
  OBVIOUS
<1>6. /\ writes' = writes \ {w} /\ round' = [round EXCEPT ![w.r] = "running"]
      /\ UNCHANGED <<row, sched, bal, lock, bet, queued, due, known>>
      /\ eng' = [eng EXCEPT ![w.node] = f]
  BY <1>2, <1>4, <1>5 DEF Game!RunWritten, Game!RunningFrom
<1>7. g \in Engine(s)
  BY <1>3, <1>4 DEF Engine
<1>8. /\ g.loop = "fly" /\ g.settling = e.settling /\ g.tosettle = e.tosettle /\ g.phase = e.phase
      /\ g.bets = e.bets /\ g.queue = e.queue /\ g.cur = e.cur /\ g.binding = e.binding
  BY <1>3, <1>4 DEF Engine
<1>9. f \in Engine(s) /\ LoopOK(f) /\ Keeps(e, f)
  BY <1>3, <1>5, <1>7, <1>8 DEF LoopOK, Keeps, Riders
<1>10. f = e \/ (f = g /\ e.cur = w.r)
  BY <1>5
<1> QED BY <1>1, <1>2, <1>6, <1>8, <1>9, <1>10

(* Status writes and updates keep every row.                               *)
LEMMA RowsWrites ==
  ASSUME NEW s, RowsInv(s), NEW w \in writes,
         Game(s)!RunWritten(w) \/ Game(s)!CashWritten(w) \/ Game(s)!CashFails(w)
  PROVE  RowsInv(s)'
<1>0. w \in Write(s)
  BY DEF RowsInv, Tables
<1>1. CASE Game(s)!RunWritten(w)
  <2>1. /\ w.node \in s.nodes
        /\ writes' = writes \ {w} /\ round' = [round EXCEPT ![w.r] = "running"]
        /\ UNCHANGED <<row, sched, bal, lock, bet, queued>>
    BY <1>1, RunWrittenSteps
  <2>2. PICK f \in Engine(s) : LoopOK(f) /\ Keeps(eng[w.node], f) /\ eng' = [eng EXCEPT ![w.node] = f]
    BY <1>1, RunWrittenSteps
  <2>3. Tables(s)'
    BY <2>1 DEF RowsInv, Tables
  <2> QED BY <2>1, <2>2, <2>3, RowsKept
<1>2. CASE Game(s)!CashWritten(w)
  <2>1. PICK k, x : k = <<w.r, w.u>> /\ x = [rem |-> w.rem, pay |-> w.pay]
    OBVIOUS
  <2>2. x \in Position(s)
    BY <1>0, <2>1 DEF Write, Position
  <2>3. /\ UNCHANGED <<round, sched, bal, lock, eng, bet, queued>> /\ writes' = writes \ {w}
        /\ row' \in {row, [row EXCEPT ![k] = x]}
    BY <1>2, <2>1 DEF Game!CashWritten, Game!Stored
  <2>4. Tables(s)' /\ BetRows(s)' /\ DOMAIN row' = DOMAIN row
    BY <2>2, <2>3 DEF RowsInv, Tables, BetRows
  <2> QED BY <2>3, <2>4 DEF RowsInv, LoopOK, RidersOK, RequestOK, Late, Riders
<1>3. CASE Game(s)!CashFails(w)
  BY <1>3 DEF Game!CashFails, RowsInv, Tables, BetRows, LoopOK, RidersOK, RequestOK, Late, Riders
<1> QED BY <1>1, <1>2, <1>3

(* A settlement leaves the round in memory as it was.                      *)
LEMMA SettleSteps ==
  ASSUME NEW s, RowsInv(s), NEW n \in s.nodes, Game(s)!Settle(n)
  PROVE  \E f \in Engine(s) : /\ LoopOK(f) /\ Calm(eng[n], f) /\ ~f.settling
                              /\ eng' = [eng EXCEPT ![n] = f]
<1>0. eng[n] \in Engine(s) /\ LoopOK(eng[n])
  BY DEF RowsInv
<1>1. PICK z : z = Game(s)!Nothing
  OBVIOUS
<1>2. PICK l : l = IF eng[n].loop = "settle" THEN "gap" ELSE eng[n].loop
  OBVIOUS
<1>3. PICK f : f = [eng[n] EXCEPT !.settling = FALSE, !.tosettle = z, !.loop = l]
  OBVIOUS
<1>4. z \in Bets(s)
  BY <1>1, NothingIs
<1>5. l \in {"idle", "scan", "read", "claim", "orphans", "open", "bind", "window",
             "beacon", "starting", "fly", "settle", "gap"}
  BY <1>0, <1>2 DEF Engine
<1>6. f \in Engine(s)
  BY <1>0, <1>3, <1>4, <1>5 DEF Engine
<1>7. LoopOK(f) /\ Calm(eng[n], f) /\ ~f.settling
  BY <1>0, <1>2, <1>3 DEF Engine, LoopOK, Calm, Keeps, Riders
<1>8. eng' = [eng EXCEPT ![n] = f]
  <2>1. eng' = [eng EXCEPT ![n] = [eng[n] EXCEPT !.settling = FALSE, !.tosettle = Game(s)!Nothing,
                           !.loop = IF @ = "settle" THEN "gap" ELSE @]]
    BY DEF Game!Settle, Game!Set
  <2>2. [eng[n] EXCEPT !.settling = FALSE, !.tosettle = Game(s)!Nothing,
                           !.loop = IF @ = "settle" THEN "gap" ELSE @] = f
    BY <1>0, <1>1, <1>2, <1>3 DEF Engine
  <2> QED BY <2>1, <2>2
<1> QED BY <1>6, <1>7, <1>8

(* Riders keep their rows in a settlement.                                 *)
LEMMA RowsSettle ==
  ASSUME NEW s, Setting(s), RowsInv(s), NEW n \in s.nodes, Game(s)!Settle(n)
  PROVE  RowsInv(s)'
<1>0. eng[n] \in Engine(s) /\ LoopOK(eng[n]) /\ Tables(s) /\ eng[n].settling
  BY DEF RowsInv, Game!Settle
<1>1. PICK r : r = eng[n].cur
  OBVIOUS
<1>2. PICK z : z = eng[n].tosettle
  OBVIOUS
<1>3. PICK f \in Engine(s) : LoopOK(f) /\ Calm(eng[n], f) /\ eng' = [eng EXCEPT ![n] = f]
  BY SettleSteps
<1>4. DOMAIN z \subseteq Users /\ \A u \in DOMAIN z : z[u] \in Ride(s)
  BY <1>0, <1>2, BetsFacts DEF Engine
<1>5. r \in 1..MaxRound
  BY <1>0, <1>1, CrashAssumption DEF Engine, LoopOK
<1>7. /\ UNCHANGED <<sched, lock, writes, bet, queued>>
      /\ round' \in {round, [round EXCEPT ![r] = "busted"]}
      /\ row' \in {row, [k \in DOMAIN row \cup {<<r, u>> : u \in DOMAIN z} |->
                            IF k[1] = r /\ k[2] \in DOMAIN z
                            THEN [rem |-> 0, pay |-> z[k[2]].pay] ELSE row[k]]}
      /\ bal' \in {bal, Game(s)!Credited([u \in DOMAIN z |-> z[u].pay])}
  BY <1>1, <1>2 DEF Game!Settle
<1>8. bal' \in [Users -> Nat]
  <2>1. PICK a : a = [u \in DOMAIN z |-> z[u].pay]
    OBVIOUS
  <2>2. \A u \in DOMAIN a : a[u] \in Nat
    BY <1>4, <2>1 DEF Ride, Setting
  <2>3. Game(s)!Credited(a) \in [Users -> Nat]
    BY <1>0, <2>2 DEF Game!Credited, Tables
  <2> QED BY <1>0, <1>7, <2>1, <2>3 DEF Tables
<1>9. Tables(s)'
  BY <1>0, <1>7, <1>8 DEF Tables
<1>10. DOMAIN row \subseteq DOMAIN row' /\ DOMAIN row' \subseteq (1..MaxRound) \X Users
  BY <1>4, <1>5, <1>7 DEF RowsInv, BetRows
<1>11. BetRows(s)'
  <2>1. 0 \in 0..s.stake
    BY DEF Setting
  <2>2. \A u \in DOMAIN z : [rem |-> 0, pay |-> z[u].pay] \in Position(s)
    BY <1>4, <2>1 DEF Position, Ride
  <2>3. \A k \in DOMAIN row' : row'[k] \in Position(s)
    BY <1>7, <2>2 DEF RowsInv, BetRows
  <2> QED BY <1>10, <2>3 DEF BetRows
<1>12. /\ eng' \in [s.nodes -> Engine(s)] /\ eng'[n] = f
       /\ \A m \in s.nodes \ {n} : eng'[m] = eng[m]
  BY <1>3 DEF RowsInv
<1>13. bet' \in [Users -> Request(s)] /\ \A u \in Users : RequestOK(s, u)'
  BY <1>7, <1>10 DEF RowsInv, RequestOK, Late
<1>14. ASSUME NEW m \in s.nodes PROVE LoopOK(eng'[m]) /\ RidersOK(eng[m])'
  <2>1. CASE m = n
    BY <1>3, <1>7, <1>10, <1>12, <2>1 DEF RowsInv, RidersOK, Late, Riders, Keeps, Calm
  <2>2. CASE m # n
    BY <1>7, <1>10, <1>12, <2>2 DEF RowsInv, RidersOK, Late, Riders
  <2> QED BY <2>1, <2>2
<1>15. \A m \in s.nodes : LoopOK(eng[m])'
  BY <1>14 DEF LoopOK
<1> QED BY <1>9, <1>11, <1>12, <1>13, <1>14, <1>15 DEF RowsInv

(* Asking, and the refund of a late bet: rows and engines stay.            *)
LEMMA RowsAsk ==
  ASSUME NEW s, RowsInv(s), NEW u \in Users, NEW n \in s.nodes, Game(s)!Ask(u, n)
  PROVE  RowsInv(s)'
<1>1. PICK q : q = [at |-> "tx", node |-> n, r |-> eng[n].cur]
  OBVIOUS
<1>2. /\ bet' = [bet EXCEPT ![u] = q] /\ eng[n].cur # 0
      /\ UNCHANGED <<round, row, sched, bal, lock, eng, writes, queued>>
  BY <1>1 DEF Game!Ask
<1>3. q \in Request(s) /\ q.at = "tx" /\ q.node = n /\ q.r = eng[n].cur
  BY <1>1 DEF RowsInv, Engine, Request
<1>4. bet' \in [Users -> Request(s)] /\ bet'[u] = q /\ \A v \in Users \ {u} : bet'[v] = bet[v]
  BY <1>2, <1>3 DEF RowsInv
<1>5. Tables(s)' /\ BetRows(s)'
  BY <1>2 DEF RowsInv, Tables, BetRows
<1>6. \A v \in Users : RequestOK(s, v)'
  BY <1>2, <1>3, <1>4 DEF RowsInv, RequestOK, Late
<1>7. \A m \in s.nodes : LoopOK(eng[m])' /\ RidersOK(eng[m])'
  BY <1>2, <1>3, <1>4 DEF RowsInv, LoopOK, RidersOK, Late, Riders
<1> QED BY <1>2, <1>4, <1>5, <1>6, <1>7 DEF RowsInv

(* The refund of a late bet touches no row.                                *)
LEMMA RowsRefund ==
  ASSUME NEW s, Setting(s), RowsInv(s), NEW u \in Users, Game(s)!Refund(u)
  PROVE  RowsInv(s)'
<1>1. PICK q : q = [bet[u] EXCEPT !.at = "delete"]
  OBVIOUS
<1>2. /\ bet' = [bet EXCEPT ![u] = q] /\ bet[u].at = "refund" /\ bal' = [bal EXCEPT ![u] = @ + s.stake]
      /\ UNCHANGED <<round, row, sched, lock, eng, writes, queued>>
  BY <1>1 DEF Game!Refund
<1>3. q \in Request(s) /\ q.at = "delete" /\ q.node = bet[u].node /\ q.r = bet[u].r
  BY <1>1 DEF RowsInv, Request
<1>4. bet' \in [Users -> Request(s)] /\ bet'[u] = q /\ \A v \in Users \ {u} : bet'[v] = bet[v]
  BY <1>2, <1>3 DEF RowsInv
<1>5. Tables(s)' /\ BetRows(s)'
  BY <1>2 DEF RowsInv, Tables, BetRows, Setting
<1>6. \A v \in Users : RequestOK(s, v)'
  BY <1>2, <1>3, <1>4 DEF RowsInv, RequestOK, Late
<1>7. \A m \in s.nodes : LoopOK(eng[m])' /\ RidersOK(eng[m])'
  BY <1>2, <1>3, <1>4 DEF RowsInv, LoopOK, RidersOK, Late, Riders
<1> QED BY <1>2, <1>4, <1>5, <1>6, <1>7 DEF RowsInv

(* The debit and the new row: nobody rides without a row, so the player    *)
(* whose row is new does not.                                              *)
LEMMA DebitSteps ==
  ASSUME NEW s, Setting(s), RowsInv(s), NEW u \in Users, NEW k, k = <<bet[u].r, u>>,
         NEW v, v = Game(s)!FullStake, Game(s)!Debit(u)
  PROVE  /\ bet[u].at = "tx"
         /\ UNCHANGED <<round, sched, lock, eng, writes, queued>>
         /\ \/ /\ bet' = [bet EXCEPT ![u] = Game(s)!Idle]
               /\ UNCHANGED <<row, bal, due, known>>
            \/ /\ k \notin DOMAIN row /\ bal[u] >= s.stake
               /\ bet' = [bet EXCEPT ![u].at = "answer"]
               /\ bal' = [bal EXCEPT ![u] = @ - s.stake]
               /\ row' = [x \in DOMAIN row \cup {k} |-> IF x = k THEN v ELSE row[x]]
               /\ due' = [due EXCEPT ![k] = @ + s.stake]
               /\ known' = [known EXCEPT ![k] = s.stake]
<1>1. bal[u] \in Nat /\ s.stake \in Nat
  BY DEF RowsInv, Tables, Setting
<1>2. CASE bal[u] < s.stake \/ Game(s)!Duplicate(k)
  BY <1>2 DEF Game!Debit
<1>3. CASE ~(bal[u] < s.stake \/ Game(s)!Duplicate(k))
  <2>1. k \notin DOMAIN row /\ bal[u] >= s.stake
    BY <1>1, <1>3 DEF Game!Duplicate
  <2>2. /\ bet' = [bet EXCEPT ![u].at = "answer"]
        /\ bal' = [bal EXCEPT ![u] = @ - s.stake]
        /\ row' = Game(s)!Put(row, k, IF k \in DOMAIN row THEN row[k] ELSE v)
        /\ due' = [due EXCEPT ![k] = @ + s.stake]
        /\ known' = [known EXCEPT ![k] = s.stake]
        /\ UNCHANGED <<round, sched, lock, eng, writes, queued>> /\ bet[u].at = "tx"
    BY <1>3 DEF Game!Debit
  <2>3. row' = [x \in DOMAIN row \cup {k} |-> IF x = k THEN v ELSE row[x]]
    BY <2>1, <2>2 DEF Game!Put
  <2> QED BY <2>1, <2>2, <2>3
<1> QED BY <1>2, <1>3

(* The debit creates the row of a player who does not ride.                *)
LEMMA RowsDebit ==
  ASSUME NEW s, Setting(s), RowsInv(s), NEW u \in Users, Game(s)!Debit(u)
  PROVE  RowsInv(s)'
<1>1. PICK k, v, i : k = <<bet[u].r, u>> /\ v = Game(s)!FullStake /\ i = Game(s)!Idle
  OBVIOUS
<1>2. /\ bet[u].at = "tx"
      /\ UNCHANGED <<round, sched, lock, eng, writes, queued>>
      /\ \/ /\ bet' = [bet EXCEPT ![u] = i]
            /\ UNCHANGED <<row, bal, due, known>>
         \/ /\ k \notin DOMAIN row /\ bal[u] >= s.stake
            /\ bet' = [bet EXCEPT ![u].at = "answer"]
            /\ bal' = [bal EXCEPT ![u] = @ - s.stake]
            /\ row' = [x \in DOMAIN row \cup {k} |-> IF x = k THEN v ELSE row[x]]
  BY <1>1, DebitSteps
<1>3. v \in Position(s) /\ i \in Request(s) /\ i.at = "idle"
  BY <1>1, FullStakeIs, IdleIs
<1>4. CASE bet' = [bet EXCEPT ![u] = i] /\ UNCHANGED <<row, bal>>
  <2>1. bet' \in [Users -> Request(s)] /\ bet'[u] = i /\ \A x \in Users \ {u} : bet'[x] = bet[x]
    BY <1>3, <1>4 DEF RowsInv
  <2>2. Tables(s)' /\ BetRows(s)'
    BY <1>2, <1>4 DEF RowsInv, Tables, BetRows
  <2>3. \A x \in Users : RequestOK(s, x)'
    BY <1>3, <1>4, <2>1 DEF RowsInv, RequestOK, Late
  <2>4. \A m \in s.nodes : LoopOK(eng[m])' /\ RidersOK(eng[m])'
    BY <1>2, <1>3, <1>4, <2>1 DEF RowsInv, LoopOK, RidersOK, Late, Riders
  <2> QED BY <1>2, <2>1, <2>2, <2>3, <2>4 DEF RowsInv
<1>5. CASE /\ k \notin DOMAIN row /\ bal[u] >= s.stake
           /\ bet' = [bet EXCEPT ![u].at = "answer"]
           /\ bal' = [bal EXCEPT ![u] = @ - s.stake]
           /\ row' = [x \in DOMAIN row \cup {k} |-> IF x = k THEN v ELSE row[x]]
  <2>0. PICK q : q = [bet[u] EXCEPT !.at = "answer"]
    OBVIOUS
  <2>1. q \in Request(s) /\ q.at = "answer" /\ q.node = bet[u].node /\ q.r = bet[u].r
    BY <2>0 DEF RowsInv, Request
  <2>2. bet' = [bet EXCEPT ![u] = q]
    BY <1>5, <2>0
  <2>3. bet' \in [Users -> Request(s)] /\ bet'[u] = q /\ \A x \in Users \ {u} : bet'[x] = bet[x]
    BY <2>1, <2>2 DEF RowsInv
  <2>4. bal' \in [Users -> Nat]
    BY <1>5 DEF RowsInv, Tables, Setting
  <2>5. Tables(s)'
    BY <1>2, <2>4 DEF RowsInv, Tables
  <2>6. bet[u].r \in 1..MaxRound
    <3>1. bet[u].r \in 0..MaxRound
      BY DEF RowsInv, Request
    <3>2. bet[u].r # 0
      BY <1>2 DEF RowsInv, RequestOK
    <3> QED BY <3>1, <3>2, CrashAssumption
  <2>7. BetRows(s)' /\ DOMAIN row' = DOMAIN row \cup {k}
    BY <1>1, <1>3, <1>5, <2>6 DEF RowsInv, BetRows
  <2>8. \A x \in Users : RequestOK(s, x)'
    BY <1>1, <1>2, <2>1, <2>3, <2>7 DEF RowsInv, RequestOK, Late
  <2>9. ASSUME NEW m \in s.nodes PROVE LoopOK(eng[m])' /\ RidersOK(eng[m])'
    <3>1. LoopOK(eng[m])'
      BY <1>2 DEF RowsInv, LoopOK
    <3>2. \A x \in Users : x \in Riders(eng[m]) => <<eng[m].cur, x>> \in DOMAIN row
      BY DEF RowsInv, RidersOK
    <3>a. bet[u].r = eng[m].cur => u \notin Riders(eng[m])
      BY <1>1, <1>5, <3>2
    <3>3. \A x \in Users : Late(x, eng[m].cur)' => x \notin Riders(eng[m])
      <4>1. ASSUME NEW x \in Users, x # u, Late(x, eng[m].cur)' PROVE x \notin Riders(eng[m])
        BY <1>2, <2>3, <4>1 DEF RowsInv, RidersOK, Late
      <4>2. ASSUME Late(u, eng[m].cur)' PROVE u \notin Riders(eng[m])
        BY <1>2, <2>1, <2>3, <3>a, <4>2 DEF Late
      <4> QED BY <4>1, <4>2
    <3> QED BY <1>2, <2>7, <3>1, <3>2, <3>3 DEF RidersOK, Riders, Late
  <2> QED BY <1>2, <2>3, <2>5, <2>7, <2>8, <2>9 DEF RowsInv
<1> QED BY <1>2, <1>4, <1>5

(* The row of a refunded bet goes: its player does not ride.               *)
LEMMA RowsDelete ==
  ASSUME NEW s, RowsInv(s), NEW u \in Users, Game(s)!DeleteRow(u)
  PROVE  RowsInv(s)'
<1>1. PICK k, i : k = <<bet[u].r, u>> /\ i = Game(s)!Idle
  OBVIOUS
<1>2. /\ bet[u].at = "delete" /\ bet' = [bet EXCEPT ![u] = i]
      /\ row' = [x \in DOMAIN row \ {k} |-> row[x]]
      /\ UNCHANGED <<round, sched, bal, lock, eng, writes, queued>>
  BY <1>1 DEF Game!DeleteRow, Game!Drop
<1>3. i \in Request(s) /\ i.at = "idle"
  BY <1>1, IdleIs
<1>4. bet' \in [Users -> Request(s)] /\ bet'[u] = i /\ \A x \in Users \ {u} : bet'[x] = bet[x]
  BY <1>2, <1>3 DEF RowsInv
<1>5. Tables(s)' /\ BetRows(s)' /\ DOMAIN row' = DOMAIN row \ {k}
  BY <1>2 DEF RowsInv, Tables, BetRows
<1>6. \A x \in Users : RequestOK(s, x)'
  BY <1>1, <1>3, <1>4, <1>5 DEF RowsInv, RequestOK, Late
<1>7. ASSUME NEW m \in s.nodes PROVE LoopOK(eng[m])' /\ RidersOK(eng[m])'
  <2>1. LoopOK(eng[m])'
    BY <1>2 DEF RowsInv, LoopOK
  <2>2. eng[m].cur = bet[u].r => u \notin Riders(eng[m])
    BY <1>2 DEF RowsInv, RidersOK, Late
  <2>3. \A x \in Users : x \in Riders(eng[m]) => <<eng[m].cur, x>> \in DOMAIN row'
    BY <1>1, <1>5, <2>2 DEF RowsInv, RidersOK
  <2>4. \A x \in Users : Late(x, eng[m].cur)' => x \notin Riders(eng[m])
    BY <1>2, <1>3, <1>4 DEF RowsInv, RidersOK, Late
  <2> QED BY <1>2, <2>1, <2>3, <2>4 DEF RidersOK, Riders, Late
<1> QED BY <1>2, <1>4, <1>5, <1>6, <1>7 DEF RowsInv

\* The position of one rider is set, the rest stays as it was.
Seats(e, f, u, v) ==
    /\ f.bets = [x \in DOMAIN e.bets \cup {u} |-> IF x = u THEN v ELSE e.bets[x]]
    /\ f.loop = e.loop /\ f.cur = e.cur /\ f.phase = e.phase
    /\ f.settling = e.settling /\ f.tosettle = e.tosettle
    /\ f.queue = e.queue /\ f.seen = e.seen /\ f.binding = e.binding
    /\ f.todo = e.todo /\ f.snap = e.snap

(* The engine seats one player.                                            *)
LEMMA SeatsIs ==
  ASSUME NEW s, NEW e \in Engine(s), NEW u \in Users, NEW v \in Ride(s), NEW b,
         b = [x \in DOMAIN e.bets \cup {u} |-> IF x = u THEN v ELSE e.bets[x]],
         NEW f, f = [e EXCEPT !.bets = b]
  PROVE  f \in Engine(s) /\ Seats(e, f, u, v)
<1>1. b \in Bets(s)
  BY BetsPut DEF Engine
<1>2. f \in Engine(s)
  BY <1>1 DEF Engine
<1>3. /\ f.bets = b /\ f.loop = e.loop /\ f.cur = e.cur /\ f.phase = e.phase
      /\ f.settling = e.settling /\ f.tosettle = e.tosettle
      /\ f.queue = e.queue /\ f.seen = e.seen /\ f.binding = e.binding
      /\ f.todo = e.todo /\ f.snap = e.snap
  BY DEF Engine
<1> QED BY <1>2, <1>3 DEF Seats

(* The engine takes the bet, whose row is there, or refuses it.            *)
LEMMA AnswerSteps ==
  ASSUME NEW s, Setting(s), RowsInv(s), NEW u \in Users, Game(s)!Answer(u),
         NEW n, n = bet[u].node, NEW v, v = Game(s)!FullStake
  PROVE  /\ bet[u].at = "answer" /\ n \in s.nodes /\ bet[u].r \in 1..MaxRound
         /\ UNCHANGED <<round, row, sched, bal, lock, writes, queued, due, known>>
         /\ \/ bet' = [bet EXCEPT ![u].at = "refund"] /\ eng' = eng
            \/ /\ bet' = [bet EXCEPT ![u] = Game(s)!Idle]
               /\ eng[n].cur = bet[u].r /\ eng[n].phase = "waiting" /\ u \notin DOMAIN eng[n].bets
               /\ Game(s)!Hit("openRound") \/ ~Game(s)!Abandoned(bet[u].r)
               /\ \/ Game(s)!Hit("drainCollision") \/ eng[n].loop # "bind"
                  \/ u \notin eng[n].queue \ eng[n].seen
               /\ \E f \in Engine(s) : eng' = [eng EXCEPT ![n] = f] /\ Seats(eng[n], f, u, v)
<1>0. /\ bet[u].at = "answer"
      /\ UNCHANGED <<round, row, sched, bal, lock, writes, queued, due, known>>
  BY DEF Game!Answer
<1>1. n \in s.nodes /\ bet[u].r \in 1..MaxRound
  <2>1. bet[u].r \in 0..MaxRound
    BY DEF RowsInv, Request
  <2>2. bet[u].r # 0 /\ n \in s.nodes
    BY <1>0 DEF RowsInv, RequestOK
  <2> QED BY <2>1, <2>2, CrashAssumption
<1>2. eng[n] \in Engine(s)
  BY <1>1 DEF RowsInv
<1>3. CASE Game(s)!Accepts(eng[n], u, bet[u].r)
  <2>1. PICK b : b = [x \in DOMAIN eng[n].bets \cup {u} |-> IF x = u THEN v ELSE eng[n].bets[x]]
    OBVIOUS
  <2>2. PICK f : f = [eng[n] EXCEPT !.bets = b]
    OBVIOUS
  <2>3. f \in Engine(s) /\ Seats(eng[n], f, u, v)
    BY <1>2, <2>1, <2>2, FullStakeIs, SeatsIs
  <2>7. /\ eng[n].cur = bet[u].r /\ eng[n].phase = "waiting" /\ u \notin DOMAIN eng[n].bets
    BY <1>3 DEF Game!Accepts
  <2>8. /\ Game(s)!Hit("openRound") \/ ~Game(s)!Abandoned(bet[u].r)
        /\ \/ Game(s)!Hit("drainCollision") \/ eng[n].loop # "bind"
           \/ u \notin eng[n].queue \ eng[n].seen
        /\ Game(s)!Set(n, [eng[n] EXCEPT !.bets = Game(s)!Put(eng[n].bets, u, v)])
        /\ bet' = [bet EXCEPT ![u] = Game(s)!Idle]
    BY <1>3 DEF Game!Answer
  <2>9. eng' = [eng EXCEPT ![n] = f]
    BY <2>1, <2>2, <2>8 DEF Game!Set, Game!Put
  <2> QED BY <1>0, <1>1, <2>3, <2>7, <2>8, <2>9
<1>4. CASE ~Game(s)!Accepts(eng[n], u, bet[u].r)
  BY <1>0, <1>1, <1>4 DEF Game!Answer
<1> QED BY <1>3, <1>4

(* An accepted bet rides with the row its debit created.                   *)
LEMMA RowsAnswer ==
  ASSUME NEW s, Setting(s), RowsInv(s), NEW u \in Users, Game(s)!Answer(u)
  PROVE  RowsInv(s)'
<1>1. PICK n, v, i : n = bet[u].node /\ v = Game(s)!FullStake /\ i = Game(s)!Idle
  OBVIOUS
<1>2. /\ bet[u].at = "answer" /\ n \in s.nodes
      /\ UNCHANGED <<round, row, sched, bal, lock, writes, queued>>
  BY <1>1, AnswerSteps
<1>3. i \in Request(s) /\ i.at = "idle"
  BY <1>1, IdleIs
<1>4. Tables(s)' /\ BetRows(s)'
  BY <1>2 DEF RowsInv, Tables, BetRows
<1>5. CASE bet' = [bet EXCEPT ![u].at = "refund"] /\ eng' = eng
  <2>0. PICK q : q = [bet[u] EXCEPT !.at = "refund"]
    OBVIOUS
  <2>1. q \in Request(s) /\ q.at = "refund" /\ q.node = bet[u].node /\ q.r = bet[u].r
    BY <2>0 DEF RowsInv, Request
  <2>2. bet' = [bet EXCEPT ![u] = q]
    BY <1>5, <2>0
  <2>3. bet' \in [Users -> Request(s)] /\ bet'[u] = q /\ \A x \in Users \ {u} : bet'[x] = bet[x]
    BY <2>1, <2>2 DEF RowsInv
  <2>4. \A x \in Users : RequestOK(s, x)'
    BY <1>2, <2>1, <2>3 DEF RowsInv, RequestOK, Late
  <2>5. \A m \in s.nodes : LoopOK(eng[m])' /\ RidersOK(eng[m])'
    BY <1>2, <1>5, <2>1, <2>3 DEF RowsInv, LoopOK, RidersOK, Late, Riders
  <2> QED BY <1>4, <1>5, <2>3, <2>4, <2>5 DEF RowsInv
<1>a. \/ bet' = [bet EXCEPT ![u].at = "refund"] /\ eng' = eng
      \/ /\ bet' = [bet EXCEPT ![u] = i] /\ eng[n].cur = bet[u].r /\ u \notin DOMAIN eng[n].bets
         /\ \E f \in Engine(s) : eng' = [eng EXCEPT ![n] = f] /\ Seats(eng[n], f, u, v)
  BY <1>1, AnswerSteps
<1>6. CASE /\ bet' = [bet EXCEPT ![u] = i] /\ eng[n].cur = bet[u].r /\ u \notin DOMAIN eng[n].bets
           /\ \E f \in Engine(s) : eng' = [eng EXCEPT ![n] = f] /\ Seats(eng[n], f, u, v)
  <2>1. /\ bet' = [bet EXCEPT ![u] = i]
        /\ eng[n].cur = bet[u].r /\ u \notin DOMAIN eng[n].bets
    BY <1>6
  <2>2. PICK f \in Engine(s) :
          /\ eng' = [eng EXCEPT ![n] = f]
          /\ f.bets = [x \in DOMAIN eng[n].bets \cup {u} |-> IF x = u THEN v ELSE eng[n].bets[x]]
          /\ f.loop = eng[n].loop /\ f.cur = eng[n].cur /\ f.phase = eng[n].phase
          /\ f.settling = eng[n].settling /\ f.binding = eng[n].binding /\ f.todo = eng[n].todo
    BY <1>6 DEF Seats
  <2>3. bet' \in [Users -> Request(s)] /\ bet'[u] = i /\ \A x \in Users \ {u} : bet'[x] = bet[x]
    BY <1>3, <2>1 DEF RowsInv
  <2>4. \A x \in Users : RequestOK(s, x)'
    BY <1>2, <1>3, <2>3 DEF RowsInv, RequestOK, Late
  <2>5. /\ eng' \in [s.nodes -> Engine(s)] /\ eng'[n] = f
        /\ \A m \in s.nodes \ {n} : eng'[m] = eng[m]
    BY <1>2, <2>2 DEF RowsInv
  <2>6. LoopOK(f) /\ Riders(f) \subseteq Riders(eng[n]) \cup {u}
    BY <1>2, <2>2 DEF RowsInv, LoopOK, Riders
  <2>7. <<bet[u].r, u>> \in DOMAIN row
    BY <1>2 DEF RowsInv, RequestOK, Late
  <2>8. \A x \in Users, r \in 0..MaxRound : Late(x, r)' => Late(x, r) /\ x # u
    BY <1>3, <2>3 DEF Late
  <2>9. \A m \in s.nodes : eng[m].cur \in 0..MaxRound
    BY DEF RowsInv, Engine
  <2>10. ASSUME NEW m \in s.nodes PROVE LoopOK(eng'[m]) /\ RidersOK(eng[m])'
    <3>1. CASE m = n
      <4>1. \A x \in Users : x \in Riders(f) => <<f.cur, x>> \in DOMAIN row
        BY <1>2, <2>1, <2>2, <2>6, <2>7 DEF RowsInv, RidersOK
      <4>2. \A x \in Users : bet'[x].r = f.cur /\ bet'[x].at \in {"answer", "refund", "delete"} => x \notin Riders(f)
        BY <1>2, <1>3, <2>2, <2>3, <2>6 DEF RowsInv, RidersOK, Late
      <4> QED BY <1>2, <2>5, <2>6, <3>1, <4>1, <4>2 DEF RidersOK, Late, Riders
    <3>2. CASE m # n
      BY <1>2, <1>3, <2>3, <2>5, <3>2 DEF RowsInv, RidersOK, Late, Riders
    <3> QED BY <3>1, <3>2
  <2>11. \A m \in s.nodes : LoopOK(eng[m])'
    BY <2>10 DEF LoopOK
  <2> QED BY <1>4, <2>3, <2>4, <2>5, <2>10, <2>11 DEF RowsInv
<1> QED BY <1>a, <1>5, <1>6

\* The update of one bet, sent to the database.
Sent(w, n, r, u, pay) ==
    w.kind = "cash" /\ w.node = n /\ w.r = r /\ w.u = u /\ w.pay = pay

(* A cash-out keeps the player riding.                                     *)
LEMMA CashOutSteps ==
  ASSUME NEW s, Setting(s), RowsInv(s), NEW u \in Users, NEW n \in s.nodes, Game(s)!CashOut(u, n)
  PROVE  /\ eng[n].phase = "running" /\ u \in DOMAIN eng[n].bets
         /\ Game(s)!Hit("lateCashOut") \/ ~Game(s)!Abandoned(eng[n].cur)
         /\ UNCHANGED <<round, row, sched, bal, lock, bet, queued, due, known>>
         /\ \E f \in Engine(s), c \in Ride(s), w \in Write(s) :
              /\ eng' = [eng EXCEPT ![n] = f] /\ writes' = writes \cup {w}
              /\ Sent(w, n, eng[n].cur, u, c.pay)
              /\ c.pay >= eng[n].bets[u].pay
              /\ Seats(eng[n], f, u, c)
<1>0. /\ eng[n].phase = "running" /\ u \in DOMAIN eng[n].bets
      /\ UNCHANGED <<round, row, sched, bal, lock, bet, queued, due, known>>
  BY DEF Game!CashOut
<1>1. eng[n] \in Engine(s) /\ LoopOK(eng[n])
  BY DEF RowsInv
<1>2. PICK b : b = eng[n].bets[u]
  OBVIOUS
<1>3. eng[n].bets \in Bets(s) /\ b \in Ride(s)
  BY <1>0, <1>1, <1>2, BetsFacts DEF Engine
<1>4. PICK k \in 1..b.rem :
        /\ Game(s)!Hit("lateCashOut") \/ ~Game(s)!Abandoned(eng[n].cur)
        /\ Game(s)!Set(n, [eng[n] EXCEPT !.bets = Game(s)!Put(eng[n].bets, u,
                            [rem |-> b.rem - k, pay |-> b.pay + 2 * k])])
        /\ writes' = writes \cup {[kind |-> "cash", node |-> n, r |-> eng[n].cur,
                                   u |-> u, rem |-> b.rem - k, pay |-> b.pay + 2 * k]}
  BY <1>2 DEF Game!CashOut, Game!Multiplier
<1>5. PICK c : c = [rem |-> b.rem - k, pay |-> b.pay + 2 * k]
  OBVIOUS
<1>6. PICK w : w = [kind |-> "cash", node |-> n, r |-> eng[n].cur, u |-> u, rem |-> c.rem, pay |-> c.pay]
  OBVIOUS
<1>7. /\ b.rem \in 0..s.stake /\ b.pay \in 0..(2 * s.stake) /\ b.pay = 2 * (s.stake - b.rem)
  BY <1>3 DEF Ride
<1>8. /\ c.rem \in 0..s.stake /\ c.pay \in 0..(2 * s.stake) /\ c.pay = 2 * (s.stake - c.rem)
      /\ c.pay >= b.pay
  BY <1>5, <1>7 DEF Setting
<1>9. c \in Ride(s)
  BY <1>5, <1>8 DEF Ride
<1>10. eng[n].cur \in 1..MaxRound
  BY <1>0, <1>1, CrashAssumption DEF Engine, LoopOK
<1>11. w \in Write(s)
  BY <1>6, <1>8, <1>10 DEF Write
<1>12. PICK d : d = [x \in DOMAIN eng[n].bets \cup {u} |-> IF x = u THEN c ELSE eng[n].bets[x]]
  OBVIOUS
<1>13. PICK f : f = [eng[n] EXCEPT !.bets = d]
  OBVIOUS
<1>15. f \in Engine(s) /\ Seats(eng[n], f, u, c)
  BY <1>1, <1>9, <1>12, <1>13, SeatsIs
<1>17. eng' = [eng EXCEPT ![n] = f]
  BY <1>4, <1>5, <1>12, <1>13 DEF Game!Set, Game!Put
<1>18. writes' = writes \cup {w}
  BY <1>4, <1>5, <1>6
<1>19. Sent(w, n, eng[n].cur, u, c.pay)
  BY <1>6 DEF Sent
<1> QED BY <1>0, <1>2, <1>4, <1>8, <1>9, <1>11, <1>15, <1>17, <1>18, <1>19

(* Cashing out changes a position and no row.                              *)
LEMMA RowsCashOut ==
  ASSUME NEW s, Setting(s), RowsInv(s), NEW u \in Users, NEW n \in s.nodes, Game(s)!CashOut(u, n)
  PROVE  RowsInv(s)'
<1>0. eng[n] \in Engine(s) /\ LoopOK(eng[n])
  BY DEF RowsInv
<1>1. u \in DOMAIN eng[n].bets /\ UNCHANGED <<round, row, sched, bal, lock, bet, queued>>
  BY CashOutSteps
<1>2. PICK f \in Engine(s), c \in Ride(s), w \in Write(s) :
        /\ eng' = [eng EXCEPT ![n] = f] /\ writes' = writes \cup {w}
        /\ Seats(eng[n], f, u, c)
  BY CashOutSteps
<1>3. DOMAIN f.bets = DOMAIN eng[n].bets
  BY <1>1, <1>2 DEF Seats
<1>4. LoopOK(f) /\ Riders(f) = Riders(eng[n]) /\ f.cur = eng[n].cur
  BY <1>0, <1>2, <1>3 DEF LoopOK, Riders, Seats
<1>5. Tables(s)'
  BY <1>1, <1>2 DEF RowsInv, Tables
<1> QED BY <1>1, <1>2, <1>4, <1>5, RowsQuiet

(* The scheduled stakes: only the queues of the engines and the orphans    *)
(* left to return change.                                                  *)
LEMMA RowsScheduled ==
  ASSUME NEW s, Setting(s), RowsInv(s), NEW u \in Users, NEW n \in s.nodes,
         Game(s)!RecoverScheduled(n, u)
  PROVE  RowsInv(s)'
<1>0. eng[n] \in Engine(s) /\ LoopOK(eng[n])
  BY DEF RowsInv
<1>1. PICK f : f = [eng[n] EXCEPT !.left = eng[n].left \ {u}]
  OBVIOUS
<1>2. f \in Engine(s)
  BY <1>0, <1>1 DEF Engine
<1>3. LoopOK(f) /\ Keeps(eng[n], f)
  BY <1>0, <1>1 DEF Engine, LoopOK, Keeps, Riders
<1>4. /\ eng' = [eng EXCEPT ![n] = f] /\ sched' \subseteq sched
      /\ bal' \in {bal, [bal EXCEPT ![u] = @ + s.stake]}
      /\ UNCHANGED <<round, row, lock, writes, bet, queued>>
  BY <1>1 DEF Game!RecoverScheduled, Game!Set
<1>5. bal' \in [Users -> Nat]
  BY <1>4 DEF RowsInv, Tables, Setting
<1>6. Tables(s)'
  BY <1>4, <1>5 DEF RowsInv, Tables
<1> QED BY <1>2, <1>3, <1>4, <1>6, RowsKept

(* Scheduling a bet touches no round.                                      *)
LEMMA RowsSchedule ==
  ASSUME NEW s, Setting(s), RowsInv(s), NEW u \in Users, NEW n \in s.nodes, Game(s)!Schedule(u, n)
  PROVE  RowsInv(s)'
<1>1. PICK q : q = [at |-> "answer", node |-> n, r |-> 0]
  OBVIOUS
<1>2. /\ bal[u] >= s.stake /\ bal' = [bal EXCEPT ![u] = @ - s.stake]
      /\ sched' = sched \cup {u}
      /\ queued' = [queued EXCEPT ![u] = q]
      /\ eng' = [m \in s.nodes |-> [eng[m] EXCEPT !.left = @ \ {u}]]
      /\ UNCHANGED <<round, row, lock, writes, bet>>
  BY <1>1 DEF Game!Schedule
<1>3. q \in Request(s) /\ q.node = n
  BY <1>1, CrashAssumption DEF Request
<1>4. bal' \in [Users -> Nat]
  BY <1>2 DEF RowsInv, Tables, Setting
<1>5. Tables(s)' /\ BetRows(s)'
  BY <1>2, <1>3, <1>4 DEF RowsInv, Tables, BetRows
<1>6. ASSUME NEW m \in s.nodes
      PROVE  /\ eng'[m] \in Engine(s) /\ LoopOK(eng'[m]) /\ Keeps(eng[m], eng'[m])
  <2>0. eng[m] \in Engine(s) /\ LoopOK(eng[m])
    BY DEF RowsInv
  <2>1. PICK f : f = [eng[m] EXCEPT !.left = eng[m].left \ {u}]
    OBVIOUS
  <2>2. f \in Engine(s)
    BY <2>0, <2>1 DEF Engine
  <2>3. LoopOK(f) /\ Keeps(eng[m], f)
    BY <2>0, <2>1 DEF Engine, LoopOK, Keeps, Riders
  <2>4. eng'[m] = f
    BY <1>2, <2>1
  <2> QED BY <2>2, <2>3, <2>4
<1>7. eng' \in [s.nodes -> Engine(s)]
  BY <1>2, <1>6
<1>8. \A m \in s.nodes : LoopOK(eng[m])'
  BY <1>6 DEF LoopOK
<1>9. ASSUME NEW m \in s.nodes PROVE RidersOK(eng[m])'
  BY <1>2, <1>6 DEF RowsInv, RidersOK, Late, Riders, Keeps
<1>10. bet' \in [Users -> Request(s)] /\ \A x \in Users : RequestOK(s, x)'
  BY <1>2 DEF RowsInv, RequestOK, Late
<1> QED BY <1>5, <1>7, <1>8, <1>9, <1>10 DEF RowsInv

(* A change of the queue leaves the round as it is.                        *)
LEMMA QueueIs ==
  ASSUME NEW s, NEW e \in Engine(s), LoopOK(e), NEW Q \in SUBSET Users, NEW f, f = [e EXCEPT !.queue = Q]
  PROVE  /\ f \in Engine(s) /\ LoopOK(f) /\ Keeps(e, f) /\ f.queue = Q
         /\ f.settling = e.settling /\ f.phase = e.phase /\ f.tosettle = e.tosettle /\ f.bets = e.bets
         /\ f.loop = e.loop /\ f.binding = e.binding /\ f.seen = e.seen /\ f.todo = e.todo
         /\ f.snap = e.snap
<1>1. f \in Engine(s)
  BY DEF Engine
<1>2. /\ f.settling = e.settling /\ f.phase = e.phase /\ f.tosettle = e.tosettle /\ f.bets = e.bets
      /\ f.loop = e.loop /\ f.binding = e.binding /\ f.seen = e.seen /\ f.todo = e.todo
      /\ f.snap = e.snap /\ f.queue = Q /\ f.cur = e.cur
  BY DEF Engine
<1> QED BY <1>1, <1>2 DEF LoopOK, Keeps, Riders

\* The request to schedule or to cancel is answered.
QueueStep(s, u, n, Q) ==
    /\ eng' = [eng EXCEPT ![n] = [eng[n] EXCEPT !.queue = Q]]
    /\ queued' = [queued EXCEPT ![u] = Game(s)!Idle]
    /\ UNCHANGED <<round, row, sched, bal, lock, writes, bet, due, known>>

(* The answers to schedule and cancel requests touch no round.             *)
LEMMA RowsQueue ==
  ASSUME NEW s, RowsInv(s), NEW u \in Users, Game(s)!Enqueue(u) \/ Game(s)!Dequeue(u)
  PROVE  RowsInv(s)'
<1>0. PICK n, i : n = queued[u].node /\ i = Game(s)!Idle
  OBVIOUS
<1>1. n \in s.nodes
  BY <1>0 DEF RowsInv, Tables, Game!Enqueue, Game!Dequeue
<1>2. eng[n] \in Engine(s) /\ LoopOK(eng[n]) /\ eng[n].queue \subseteq Users
  BY <1>1 DEF RowsInv, Engine
<1>3. i \in Request(s) /\ i.at = "idle"
  BY <1>0, IdleIs
<1>4. CASE queued' = [queued EXCEPT ![u].at = "refund"]
           /\ UNCHANGED <<eng, round, row, sched, bal, lock, writes, bet>>
  <2>0. PICK q : q = [queued[u] EXCEPT !.at = "refund"]
    OBVIOUS
  <2>1. q \in Request(s) /\ q.node = n
    BY <1>0, <2>0 DEF RowsInv, Tables, Request
  <2>2. queued' = [queued EXCEPT ![u] = q]
    BY <1>4, <2>0
  <2>a. /\ queued' \in [Users -> Request(s)]
        /\ \A x \in Users : queued'[x].at # "idle" => queued'[x].node \in s.nodes
    BY <1>1, <2>1, <2>2 DEF RowsInv, Tables
  <2>3. Tables(s)'
    BY <1>4, <2>a DEF RowsInv, Tables
  <2> QED BY <1>4, <2>3 DEF RowsInv, BetRows, LoopOK, RidersOK, RequestOK, Late, Riders
<1>5. ASSUME NEW Q \in SUBSET Users, QueueStep(s, u, n, Q) PROVE RowsInv(s)'
  <2>1. PICK f : f = [eng[n] EXCEPT !.queue = Q]
    OBVIOUS
  <2>2. f \in Engine(s) /\ LoopOK(f) /\ Keeps(eng[n], f)
    BY <1>2, <2>1, QueueIs
  <2>3. Tables(s)'
    BY <1>0, <1>3, <1>5 DEF RowsInv, Tables, QueueStep
  <2> QED BY <1>1, <1>5, <2>1, <2>2, <2>3, RowsKept DEF QueueStep
<1>6. \/ queued' = [queued EXCEPT ![u].at = "refund"]
           /\ UNCHANGED <<eng, round, row, sched, bal, lock, writes, bet>>
      \/ QueueStep(s, u, n, eng[n].queue \cup {u})
      \/ QueueStep(s, u, n, eng[n].queue \ {u})
  BY <1>0 DEF Game!Enqueue, Game!Dequeue, Game!Set, QueueStep
<1>7. eng[n].queue \cup {u} \in SUBSET Users /\ eng[n].queue \ {u} \in SUBSET Users
  BY <1>2
<1> QED BY <1>4, <1>5, <1>6, <1>7

(* Nor do the refunds of scheduled stakes.                                 *)
LEMMA RowsCancel ==
  ASSUME NEW s, Setting(s), RowsInv(s), NEW u \in Users,
         Game(s)!RefundScheduled(u) \/ \E n \in s.nodes : Game(s)!Cancel(u, n)
  PROVE  RowsInv(s)'
<1>0. PICK i : i = Game(s)!Idle
  OBVIOUS
<1>1. i \in Request(s) /\ i.at = "idle"
  BY <1>0, IdleIs
<1>2. PICK q \in Request(s) :
        /\ q.at # "idle" => q.node \in s.nodes
        /\ queued' = [queued EXCEPT ![u] = q]
        /\ bal' = [bal EXCEPT ![u] = @ + s.stake] /\ sched' = sched \ {u}
        /\ UNCHANGED <<round, row, lock, eng, writes, bet>>
  <2>1. CASE Game(s)!RefundScheduled(u)
    BY <1>0, <1>1, <2>1 DEF Game!RefundScheduled
  <2>2. ASSUME NEW n \in s.nodes, Game(s)!Cancel(u, n)
        PROVE  \E q \in Request(s) :
        /\ q.at # "idle" => q.node \in s.nodes
        /\ queued' = [queued EXCEPT ![u] = q]
        /\ bal' = [bal EXCEPT ![u] = @ + s.stake] /\ sched' = sched \ {u}
        /\ UNCHANGED <<round, row, lock, eng, writes, bet>>
    <3>1. PICK q : q = [at |-> "dequeue", node |-> n, r |-> 0]
      OBVIOUS
    <3>2. q \in Request(s) /\ q.node = n
      BY <3>1, CrashAssumption DEF Request
    <3> QED BY <2>2, <3>1, <3>2 DEF Game!Cancel
  <2> QED BY <2>1, <2>2
<1>3. bal' \in [Users -> Nat]
  BY <1>2 DEF RowsInv, Tables, Setting
<1>4. Tables(s)'
  BY <1>2, <1>3 DEF RowsInv, Tables
<1> QED BY <1>2, <1>4 DEF RowsInv, BetRows, LoopOK, RidersOK, RequestOK, Late, Riders

(* Every step keeps the rows of the riders.                                *)
LEMMA RowsStep ==
  ASSUME NEW s, Setting(s), RowsInv(s), Game(s)!Next
  PROVE  RowsInv(s)'
<1>1. CASE Game(s)!Expire \/ Game(s)!RoundsExhausted
  <2>1. UNCHANGED <<round, row, sched, bal, eng, writes, bet, queued>> /\ lock' \in {lock, None}
    BY <1>1 DEF Game!Expire, Game!RoundsExhausted, Game!vars
  <2> QED BY <2>1 DEF RowsInv, Tables, BetRows, LoopOK, RidersOK, RequestOK, Late, Riders
<1>2. ASSUME NEW n \in s.nodes, Game(s)!Crash(n) \/ Game(s)!Stop(n) \/ Game(s)!DrainTimesOut(n)
      PROVE  RowsInv(s)'
  <2>1. Game(s)!Die(n) /\ lock' \in {lock, None}
    BY <1>2 DEF Game!Crash, Game!Stop, Game!DrainTimesOut, Game!Leave
  <2> QED BY <2>1, RowsDie
<1>3. ASSUME NEW n \in s.nodes,
             \/ Game(s)!Boot(n) \/ Game(s)!Tick(n) \/ Game(s)!Hiccup(n) \/ Game(s)!Resume(n)
             \/ Game(s)!DrainServer(n) \/ Game(s)!Scan(n) \/ Game(s)!ReadBets(n) \/ Game(s)!Recover(n)
             \/ Game(s)!RecoverFails(n) \/ Game(s)!Recovered(n)
      PROVE  RowsInv(s)'
  BY <1>3, RowsBoot, RowsCalm, RowsLoop, RowsRecover
<1>4. ASSUME NEW n \in s.nodes,
             \/ Game(s)!OpenRound(n) \/ Game(s)!BindQueued(n) \/ Game(s)!BindFails(n)
             \/ Game(s)!CloseBets(n) \/ Game(s)!BeaconFails(n) \/ Game(s)!Run(n)
             \/ Game(s)!Bust(n) \/ Game(s)!Settle(n) \/ Game(s)!SettleFails(n) \/ Game(s)!NextRound(n)
      PROVE  RowsInv(s)'
  BY <1>4, RowsOpen, RowsBind, RowsLoop, RowsCalm, RowsSettle
<1>5. ASSUME NEW w \in writes, Game(s)!RunWritten(w) \/ Game(s)!CashWritten(w) \/ Game(s)!CashFails(w)
      PROVE  RowsInv(s)'
  BY <1>5, RowsWrites
<1>6. ASSUME NEW u \in Users,
             \/ Game(s)!Debit(u) \/ Game(s)!Answer(u) \/ Game(s)!Refund(u) \/ Game(s)!DeleteRow(u)
             \/ Game(s)!Enqueue(u) \/ Game(s)!RefundScheduled(u) \/ Game(s)!Dequeue(u)
      PROVE  RowsInv(s)'
  BY <1>6, RowsDebit, RowsAnswer, RowsRefund, RowsDelete, RowsQueue, RowsCancel
<1>7. ASSUME NEW u \in Users, NEW n \in s.nodes,
             \/ Game(s)!Ask(u, n) \/ Game(s)!CashOut(u, n) \/ Game(s)!RecoverScheduled(n, u)
             \/ Game(s)!Schedule(u, n) \/ Game(s)!Cancel(u, n)
      PROVE  RowsInv(s)'
  BY <1>7, RowsAsk, RowsCashOut, RowsScheduled, RowsSchedule, RowsCancel
<1> QED BY <1>1, <1>2, <1>3, <1>4, <1>5, <1>6, <1>7 DEF Game!Next

(* Nobody rides at first.                                                  *)
LEMMA RowsInit ==
  ASSUME NEW s, Setting(s), Game(s)!Init
  PROVE  RowsInv(s)
<1>1. PICK e, i, z : e = Game(s)!Off /\ i = Game(s)!Idle /\ z = Game(s)!Nothing
  OBVIOUS
<1>2. e \in Engine(s) /\ LoopOK(e) /\ Riders(e) = {}
  BY <1>1, OffIs
<1>3. i \in Request(s) /\ i.at = "idle"
  BY <1>1, IdleIs
<1>4. DOMAIN z = {}
  BY <1>1, NothingIs
<1>5. /\ round = [r \in 1..MaxRound |-> "none"] /\ row = z /\ sched = {} /\ bal = [u \in Users |-> s.funds]
      /\ lock = None /\ eng = [n \in s.nodes |-> e] /\ writes = {} /\ bet = [u \in Users |-> i]
      /\ queued = [u \in Users |-> i]
  BY <1>1 DEF Game!Init, Game!Rounds
<1>6. Tables(s) /\ BetRows(s)
  BY <1>3, <1>4, <1>5 DEF Tables, BetRows, Setting
<1>7. eng \in [s.nodes -> Engine(s)] /\ bet \in [Users -> Request(s)]
  BY <1>2, <1>3, <1>5
<1>8. \A n \in s.nodes : LoopOK(eng[n]) /\ RidersOK(eng[n])
  BY <1>2, <1>3, <1>5 DEF RidersOK
<1>9. \A u \in Users : RequestOK(s, u)
  BY <1>3, <1>5 DEF RequestOK, Late
<1> QED BY <1>6, <1>7, <1>8, <1>9 DEF RowsInv

(* The invariant gives the types and the rows of the riders.               *)
LEMMA RowsGiveTypes ==
  ASSUME NEW s, Setting(s), RowsInv(s)
  PROVE  Game(s)!TypeOK /\ Game(s)!RiderHasRow
<1>1. ASSUME NEW n \in s.nodes
      PROVE  LET e == eng[n] IN
         /\ {e.up, e.leader, e.closed, e.draining, e.settling} \subseteq BOOLEAN
         /\ e.cur \in 0..MaxRound /\ e.todo \subseteq 1..MaxRound
         /\ e.phase \in {"waiting", "running", "busted"}
         /\ DOMAIN e.bets \cup e.queue \cup e.left \subseteq Users
         /\ \A u \in DOMAIN e.bets : e.bets[u] \in Position(s)
         /\ e.loop = "claim" => e.todo # {}
         /\ e.loop = "bind" => e.binding \in DOMAIN e.bets
         /\ \A u \in DOMAIN e.bets \ {e.binding} : <<e.cur, u>> \in DOMAIN row
  <2>0. eng[n] \in Engine(s) /\ LoopOK(eng[n]) /\ RidersOK(eng[n])
    BY DEF RowsInv
  <2>1. PICK e : e = eng[n]
    OBVIOUS
  <2>2. e \in Engine(s) /\ LoopOK(e) /\ RidersOK(e)
    BY <2>0, <2>1
  <2>3. DOMAIN e.bets \subseteq Users /\ \A u \in DOMAIN e.bets : e.bets[u] \in Ride(s)
    BY <2>2, BetsFacts DEF Engine
  <2>4. \A u \in DOMAIN e.bets : e.bets[u] \in Position(s)
    BY <2>3 DEF Ride, Position
  <2>5. /\ {e.up, e.leader, e.closed, e.draining, e.settling} \subseteq BOOLEAN
        /\ e.cur \in 0..MaxRound /\ e.todo \subseteq 1..MaxRound
        /\ e.phase \in {"waiting", "running", "busted"}
        /\ e.queue \cup e.left \subseteq Users
    BY <2>2 DEF Engine
  <2>6. \A u \in DOMAIN e.bets \ {e.binding} : <<e.cur, u>> \in DOMAIN row
    BY <2>2, <2>3 DEF RidersOK, Riders
  <2>7. /\ e.loop = "claim" => e.todo # {}
        /\ e.loop = "bind" => e.binding \in DOMAIN e.bets
    BY <2>2 DEF LoopOK
  <2> QED BY <2>1, <2>3, <2>4, <2>5, <2>6, <2>7
<1>2. Game(s)!TypeOK
  BY <1>1 DEF Game!TypeOK, Game!Rounds, Game!Position, Position, RowsInv, Tables, BetRows
<1> QED BY <1>1, <1>2 DEF Game!RiderHasRow

(* Whoever the engine lets ride has a row, and every replica is in a state *)
(* its code can be in, whatever windows are hit (crash.engine.ts placeBet, *)
(* startNewRound and recoverStrandedRounds; crash.service.ts placeBet).    *)
THEOREM RidersAlwaysHaveRows == CrashSpec => []RidersHaveRows
<1> DEFINE Inv == \/ setting = "restart" /\ RowsInv(Restart)
                  \/ setting = "failover" /\ RowsInv(Failover)
<1>0. Setting(Restart) /\ Setting(Failover)
  BY DEF Setting, Restart, Failover
<1>1. CrashInit => Inv
  BY <1>0, RowsInit DEF CrashInit
<1>2. Inv /\ [CrashNext]_vars => Inv'
  <2> SUFFICES ASSUME Inv, [CrashNext]_vars PROVE Inv'
    OBVIOUS
  <2>1. CASE UNCHANGED vars
    <3>1. \A s : RowsInv(s) => RowsInv(s)'
      BY <2>1 DEF vars, RowsInv, Tables, BetRows, LoopOK, RidersOK, RequestOK, Late, Riders
    <3> QED BY <2>1, <3>1 DEF vars, Restart, Failover
  <2>2. CASE setting = "restart" /\ Game(Restart)!Next /\ UNCHANGED setting
    <3>1. PICK s : s = Restart
      OBVIOUS
    <3>2. RowsInv(s)'
      BY <1>0, <2>2, <3>1, RowsStep
    <3> QED BY <2>2, <3>1, <3>2 DEF Restart
  <2>3. CASE setting = "failover" /\ Game(Failover)!Next /\ UNCHANGED setting
    <3>1. PICK s : s = Failover
      OBVIOUS
    <3>2. RowsInv(s)'
      BY <1>0, <2>3, <3>1, RowsStep
    <3> QED BY <2>3, <3>1, <3>2 DEF Failover
  <2> QED BY <2>1, <2>2, <2>3 DEF CrashNext
<1>3. Inv => RidersHaveRows
  BY <1>0, RowsGiveTypes DEF RidersHaveRows
<1> QED BY <1>1, <1>2, <1>3, PTL DEF CrashSpec
-----------------------------------------------------------------------------
(***************************************************************************)
(* The ledger.                                                             *)
(***************************************************************************)
\* No window is hit but the stale queue, which the bets do not depend on.
Closed == Windows \subseteq {"staleQueue"}

\* Bets are scheduled only where there is one replica.
OneQueue(s) == s.queueing => \A m \in s.nodes, n \in s.nodes : m = n

(* The windows that are closed.                                            *)
LEMMA NothingHit ==
  ASSUME NEW s, Closed
  PROVE  /\ ~Game(s)!Hit("lateAnswer") /\ ~Game(s)!Hit("lateCashOut") /\ ~Game(s)!Hit("lateRunning")
         /\ ~Game(s)!Hit("openRound") /\ ~Game(s)!Hit("refundGap") /\ ~Game(s)!Hit("reorder")
         /\ ~Game(s)!Hit("staleSettle") /\ ~Game(s)!Hit("drainCollision")
  BY DEF Game!Hit, Closed

(* The next round a recovery looks at is one of those it found.            *)
LEMMA FirstIs ==
  ASSUME NEW T \in SUBSET (1..MaxRound), T # {}
  PROVE  First(T) \in T
<1>1. PICK R : R = OpToRel(<, Nat)
  OBVIOUS
<1>2. IsWellFoundedOn(R, Nat)
  BY <1>1, NatLessThanWellFounded
<1>3. T \subseteq Nat
  BY CrashAssumption
<1>4. PICK x \in T : \A y \in T : ~(<<y, x>> \in R)
  BY <1>2, <1>3, WFMin
<1>5. \A y \in T : y < x => <<y, x>> \in R
  BY <1>1, <1>3 DEF OpToRel
<1>6. ASSUME NEW y \in T PROVE x <= y
  <2>1. ~(y < x)
    BY <1>4, <1>5
  <2>2. x \in Nat /\ y \in Nat
    BY <1>3
  <2> QED BY <2>1, <2>2
<1> QED BY <1>6 DEF First

(* The first round of a recovery, as the game names it.                    *)
LEMMA MinIs ==
  ASSUME NEW s, NEW T
  PROVE  Game(s)!Min(T) = First(T)
  BY DEF Game!Min, First

\* What a replica may become when nothing else changes.
Quiet(s, e, f) ==
    /\ f.cur = 0 \/ Keeps(e, f)
    /\ Running(f) /\ Claims(f) /\ Unqueued(s, f)

(* Steps that change the memories only, and no bet in them.                *)
LEMMA MoneyFrame ==
  ASSUME NEW s, RowsInv(s), MoneyInv(s), UNCHANGED <<round, row, writes, bet, due, known>>,
         eng' \in [s.nodes -> Engine(s)],
         \A m \in s.nodes : Quiet(s, eng[m], eng'[m]),
         ~s.queueing => \A u \in Users : queued'[u].at # "answer"
  PROVE  MoneyInv(s)'
<1>1. Books(s)' /\ Asked'
  BY DEF MoneyInv, Books, Book, Asked, Late
<1>2. \A w \in writes' : WriteOK(w)'
  BY DEF MoneyInv, WriteOK, Late
<1>3. ASSUME NEW m \in s.nodes PROVE Homes(s, m, eng[m])'
  BY DEF MoneyInv, Homes, Quiet, Keeps
<1>4. ASSUME NEW m \in s.nodes PROVE Running(eng[m])' /\ Claims(eng[m])' /\ Unqueued(s, eng[m])'
  BY DEF Quiet, Running, Claims, Unqueued, Apart, SnapOK, Late
<1>5. ASSUME NEW m \in s.nodes PROVE RamAhead(eng[m])'
  <2>1. RamAhead(eng[m]) /\ (eng'[m].cur = 0 \/ Keeps(eng[m], eng'[m]))
    BY DEF MoneyInv, Quiet
  <2> QED BY <2>1 DEF RamAhead, Keeps, Riders, Late
<1> QED BY <1>1, <1>2, <1>3, <1>4, <1>5 DEF MoneyInv

(* The same for one replica.                                               *)
LEMMA MoneyQuiet ==
  ASSUME NEW s, RowsInv(s), MoneyInv(s), UNCHANGED <<round, row, writes, bet, due, known>>,
         NEW n \in s.nodes, NEW f \in Engine(s), Quiet(s, eng[n], f), eng' = [eng EXCEPT ![n] = f],
         ~s.queueing => \A u \in Users : queued'[u].at # "answer"
  PROVE  MoneyInv(s)'
<1>1. /\ eng' \in [s.nodes -> Engine(s)] /\ eng'[n] = f
      /\ \A m \in s.nodes \ {n} : eng'[m] = eng[m]
  BY DEF RowsInv
<1>2. ASSUME NEW m \in s.nodes PROVE Quiet(s, eng[m], eng[m])
  BY DEF MoneyInv, Quiet, Keeps
<1>3. \A m \in s.nodes : Quiet(s, eng[m], eng'[m])
  BY <1>1, <1>2
<1> QED BY <1>1, <1>3, MoneyFrame

(* The steps of an election or a recovery are among them.                  *)
LEMMA CalmIsQuiet ==
  ASSUME NEW s, RowsInv(s), MoneyInv(s), NEW n \in s.nodes, NEW f \in Engine(s), Calm(eng[n], f)
  PROVE  Quiet(s, eng[n], f)
<1>0. PICK e : e = eng[n]
  OBVIOUS
<1>1. Running(e) /\ Claims(e) /\ Unqueued(s, e) /\ LoopOK(e) /\ Calm(e, f)
  BY <1>0 DEF MoneyInv, RowsInv
<1>2. f.settling => f.tosettle = f.bets /\ f.phase = "busted"
  BY <1>1 DEF Running, Calm, LoopOK
<1>3. f.loop \in {"bind", "window", "beacon"} => f.phase = "waiting"
  BY <1>1 DEF Running, Calm
<1>4. f.loop = "bind" => round[f.cur] \in Alive /\ f.bets[f.binding].pay = 0 /\ f.binding \in f.seen /\ Apart(f)
  BY <1>1 DEF Running, Calm, Keeps, Apart
<1>5. f.loop = "fly" \/ f.settling => \A w \in writes : ~(w.kind = "run" /\ w.r = f.cur)
  BY <1>1 DEF Running, Calm, Keeps
<1>6. f.loop \in {"read", "claim"} => \A r \in f.todo : round[r] # "none"
  BY <1>1 DEF Claims, Calm
<1>7. f.loop = "claim" => SnapOK(f, First(f.todo))
  BY <1>1 DEF Claims, Calm, SnapOK
<1>8. Unqueued(s, f)
  BY <1>1 DEF Unqueued, Calm
<1> QED BY <1>0, <1>1, <1>2, <1>3, <1>4, <1>5, <1>6, <1>7, <1>8 DEF Quiet, Running, Claims, Calm

(* They leave the ledger as it is.                                         *)
LEMMA MoneyCalm ==
  ASSUME NEW s, RowsInv(s), MoneyInv(s), NEW n \in s.nodes,
         \/ Game(s)!Tick(n) \/ Game(s)!Hiccup(n) \/ Game(s)!Resume(n) \/ Game(s)!DrainServer(n)
         \/ Game(s)!Scan(n) \/ Game(s)!RecoverFails(n) \/ Game(s)!Recovered(n)
         \/ Game(s)!BeaconFails(n) \/ Game(s)!SettleFails(n) \/ Game(s)!NextRound(n)
  PROVE  MoneyInv(s)'
<1>1. PICK f \in Engine(s) : /\ LoopOK(f) /\ Calm(eng[n], f)
                             /\ eng' = [eng EXCEPT ![n] = f] /\ Others(s)
  BY CalmSteps
<1>2. Quiet(s, eng[n], f)
  BY <1>1, CalmIsQuiet
<1>3. ~s.queueing => \A u \in Users : queued'[u].at # "answer"
  BY <1>1 DEF Others, MoneyInv
<1> QED BY <1>1, <1>2, <1>3, MoneyQuiet DEF Others

(* So does starting a process.                                             *)
LEMMA MoneyBoot ==
  ASSUME NEW s, RowsInv(s), MoneyInv(s), NEW n \in s.nodes, Game(s)!Boot(n)
  PROVE  MoneyInv(s)'
<1>1. PICK f \in Engine(s) : /\ LoopOK(f) /\ Fresh(f)
                             /\ eng' = [eng EXCEPT ![n] = f] /\ Others(s)
  BY BootSteps
<1>2. Quiet(s, eng[n], f)
  BY <1>1 DEF Quiet, Fresh, Running, Claims, Unqueued
<1>3. ~s.queueing => \A u \in Users : queued'[u].at # "answer"
  BY <1>1 DEF Others, MoneyInv
<1> QED BY <1>1, <1>2, <1>3, MoneyQuiet DEF Others

(* The steps of the loop that change memories only.                        *)
LEMMA MoneyLoop ==
  ASSUME NEW s, RowsInv(s), MoneyInv(s), Closed, NEW n \in s.nodes,
         \/ Game(s)!ReadBets(n) \/ Game(s)!CloseBets(n) \/ Game(s)!Bust(n)
  PROVE  MoneyInv(s)'
<1>0. /\ eng[n] \in Engine(s) /\ LoopOK(eng[n]) /\ Running(eng[n]) /\ Claims(eng[n]) /\ Unqueued(s, eng[n])
      /\ Tables(s)
  BY DEF RowsInv, MoneyInv
<1>a. ASSUME Others(s) PROVE ~s.queueing => \A u \in Users : queued'[u].at # "answer"
  BY <1>a DEF Others, MoneyInv
<1>1. CASE Game(s)!ReadBets(n)
  <2>0. PICK r : r = First(eng[n].todo)
    OBVIOUS
  <2>1. PICK z : z = [u \in {v \in Users : <<r, v>> \in DOMAIN row} |-> row[<<r, u>>]]
    OBVIOUS
  <2>2. PICK f : f = [eng[n] EXCEPT !.loop = "claim", !.snap = z]
    OBVIOUS
  <2>3. z \in Snaps(s)
    <3>1. {v \in Users : <<r, v>> \in DOMAIN row} \in SUBSET Users
      OBVIOUS
    <3>2. z \in [{v \in Users : <<r, v>> \in DOMAIN row} -> Position(s)]
      BY <2>1 DEF RowsInv, BetRows
    <3> QED BY <3>1, <3>2 DEF Snaps
  <2>4. f \in Engine(s)
    BY <1>0, <2>2, <2>3 DEF Engine
  <2>5. /\ f.loop = "claim" /\ f.snap = z /\ f.todo = eng[n].todo /\ f.settling = eng[n].settling
        /\ f.tosettle = eng[n].tosettle /\ f.bets = eng[n].bets /\ f.phase = eng[n].phase
        /\ f.cur = eng[n].cur /\ f.binding = eng[n].binding /\ f.queue = eng[n].queue
    BY <1>0, <2>2 DEF Engine
  <2>6. /\ eng[n].loop = "read" /\ ~Game(s)!Unanswered(r)
        /\ \A w \in writes : w.kind = "run" \/ w.r # r
    BY <1>1, <2>0, NothingHit, MinIs DEF Game!ReadBets
  <2>7. eng' = [eng EXCEPT ![n] = f] /\ Others(s)
    BY <1>0, <1>1, <2>0, <2>1, <2>2, MinIs DEF Game!ReadBets, Game!Set, Game!RamOnly, Others, Tables
  <2>8. Keeps(eng[n], f)
    BY <2>5 DEF Keeps, Riders
  <2>9. SnapOK(f, r)
    <3>1. \A u \in Users : ~Late(u, r)
      BY <2>6 DEF Game!Unanswered, Late
    <3>2. \A w \in writes : ~(w.kind = "cash" /\ w.r = r)
      BY <2>6
    <3> QED BY <2>1, <2>5, <3>1, <3>2 DEF SnapOK
  <2>10. Running(f)
    BY <1>0, <2>5 DEF Running
  <2>11. Claims(f) /\ Unqueued(s, f)
    BY <1>0, <2>0, <2>5, <2>6, <2>9 DEF Claims, Unqueued
  <2>12. Quiet(s, eng[n], f)
    BY <2>8, <2>10, <2>11 DEF Quiet
  <2> QED BY <1>a, <2>4, <2>7, <2>12, MoneyQuiet DEF Others
<1>2. CASE Game(s)!CloseBets(n)
  <2>1. PICK f : f = [eng[n] EXCEPT !.loop = "beacon", !.closed = TRUE]
    OBVIOUS
  <2>2. PICK g : g = [eng[n] EXCEPT !.loop = "idle"]
    OBVIOUS
  <2>3. f \in Engine(s) /\ g \in Engine(s)
    BY <1>0, <2>1, <2>2 DEF Engine
  <2>4. eng[n].loop = "window"
    BY <1>2 DEF Game!CloseBets
  <2>5. /\ f.loop = "beacon" /\ f.settling = eng[n].settling
        /\ f.tosettle = eng[n].tosettle /\ f.bets = eng[n].bets /\ f.phase = eng[n].phase
        /\ f.cur = eng[n].cur /\ f.binding = eng[n].binding /\ f.queue = eng[n].queue
    BY <1>0, <2>1 DEF Engine
  <2>6. /\ g.loop = "idle" /\ g.settling = eng[n].settling
        /\ g.tosettle = eng[n].tosettle /\ g.bets = eng[n].bets /\ g.phase = eng[n].phase
        /\ g.cur = eng[n].cur /\ g.binding = eng[n].binding /\ g.queue = eng[n].queue
    BY <1>0, <2>2 DEF Engine
  <2>7. Quiet(s, eng[n], f)
    BY <1>0, <2>4, <2>5 DEF Quiet, Keeps, Riders, Running, Claims, Unqueued
  <2>8. Quiet(s, eng[n], g)
    BY <1>0, <2>4, <2>6 DEF Quiet, Keeps, Riders, Running, Claims, Unqueued
  <2>9. (eng' = [eng EXCEPT ![n] = f] \/ eng' = [eng EXCEPT ![n] = g]) /\ Others(s)
    BY <1>0, <1>2, <2>1, <2>2 DEF Game!CloseBets, Game!Set, Game!RamOnly, Others, Tables
  <2> QED BY <1>a, <2>3, <2>7, <2>8, <2>9, MoneyQuiet DEF Others
<1>3. CASE Game(s)!Bust(n)
  <2>1. PICK f : f = [eng[n] EXCEPT !.loop = "settle", !.phase = "busted",
                        !.settling = TRUE, !.tosettle = eng[n].bets]
    OBVIOUS
  <2>2. PICK g : g = [eng[n] EXCEPT !.loop = "idle"]
    OBVIOUS
  <2>3. f \in Engine(s) /\ g \in Engine(s)
    BY <1>0, <2>1, <2>2 DEF Engine
  <2>4. eng[n].loop = "fly"
    BY <1>3 DEF Game!Bust
  <2>5. /\ f.loop = "settle" /\ f.tosettle = f.bets /\ f.bets = eng[n].bets /\ f.phase = "busted"
        /\ f.cur = eng[n].cur /\ f.binding = eng[n].binding /\ f.queue = eng[n].queue
    BY <1>0, <2>1 DEF Engine
  <2>6. /\ g.loop = "idle" /\ g.settling = eng[n].settling
        /\ g.tosettle = eng[n].tosettle /\ g.bets = eng[n].bets /\ g.phase = eng[n].phase
        /\ g.cur = eng[n].cur /\ g.binding = eng[n].binding /\ g.queue = eng[n].queue
    BY <1>0, <2>2 DEF Engine
  <2>7. Quiet(s, eng[n], f)
    BY <1>0, <2>4, <2>5 DEF Quiet, Keeps, Riders, Running, Claims, Unqueued
  <2>8. Quiet(s, eng[n], g)
    BY <1>0, <2>4, <2>6 DEF Quiet, Keeps, Riders, Running, Claims, Unqueued
  <2>9. (eng' = [eng EXCEPT ![n] = f] \/ eng' = [eng EXCEPT ![n] = g]) /\ Others(s)
    BY <1>0, <1>3, <2>1, <2>2 DEF Game!Bust, Game!Set, Game!RamOnly, Others, Tables
  <2> QED BY <1>a, <2>3, <2>7, <2>8, <2>9, MoneyQuiet DEF Others
<1> QED BY <1>1, <1>2, <1>3

(* The binding of a stake that failed.                                     *)
LEMMA MoneyBindFails ==
  ASSUME NEW s, Setting(s), RowsInv(s), MoneyInv(s), NEW n \in s.nodes,
         \/ Game(s)!BindFails(n)
         \/ Game(s)!BindQueued(n) /\ ~Game(s)!Bindable(eng[n].binding, <<eng[n].cur, eng[n].binding>>)
  PROVE  MoneyInv(s)'
<1>0. eng[n] \in Engine(s) /\ LoopOK(eng[n]) /\ Running(eng[n]) /\ Claims(eng[n]) /\ Unqueued(s, eng[n])
  BY DEF RowsInv, MoneyInv
<1>1. eng[n].loop = "bind" /\ Others(s)
  BY BindFailsSteps
<1>2. PICK f \in Engine(s) :
        /\ LoopOK(f) /\ Bound(s, eng[n], f) /\ eng' = [eng EXCEPT ![n] = f]
        /\ Apart(eng[n]) => Keeps(eng[n], f) /\ (f.loop = "bind" => Apart(f))
  BY BindFailsSteps
<1>3. Keeps(eng[n], f) /\ (f.loop = "bind" => Apart(f))
  BY <1>0, <1>1, <1>2 DEF Running
<1>4. Running(f)
  BY <1>0, <1>1, <1>2, <1>3 DEF Running, Bound
<1>5. Claims(f) /\ Unqueued(s, f)
  BY <1>0, <1>1, <1>2 DEF Claims, Unqueued, Bound
<1>6. Quiet(s, eng[n], f)
  BY <1>3, <1>4, <1>5 DEF Quiet
<1>7. ~s.queueing => \A u \in Users : queued'[u].at # "answer"
  BY <1>1 DEF Others, MoneyInv
<1> QED BY <1>1, <1>2, <1>6, <1>7, MoneyQuiet DEF Others

(* Scheduled stakes are not bets yet.                                      *)
LEMMA MoneyScheduled ==
  ASSUME NEW s, RowsInv(s), MoneyInv(s), NEW u \in Users, NEW n \in s.nodes,
         Game(s)!RecoverScheduled(n, u) \/ Game(s)!Schedule(u, n)
  PROVE  MoneyInv(s)'
<1>1. /\ UNCHANGED <<round, row, writes, bet, due, known>>
      /\ ~s.queueing => \A x \in Users : queued'[x].at # "answer"
  BY DEF Game!RecoverScheduled, Game!Schedule, MoneyInv
<1>2. ASSUME NEW m \in s.nodes
      PROVE  eng'[m] = eng[m] \/ eng'[m] = [eng[m] EXCEPT !.left = eng[m].left \ {u}]
  BY DEF Game!RecoverScheduled, Game!Schedule, Game!Set, RowsInv
<1>3. ASSUME NEW m \in s.nodes PROVE eng'[m] \in Engine(s) /\ Quiet(s, eng[m], eng'[m])
  <2>0. PICK e : e = eng[m]
    OBVIOUS
  <2>1. e \in Engine(s) /\ Running(e) /\ Claims(e) /\ Unqueued(s, e)
    BY <2>0 DEF RowsInv, MoneyInv
  <2>2. Quiet(s, e, e)
    BY <2>1 DEF Quiet, Keeps
  <2>3. PICK f : f = [e EXCEPT !.left = e.left \ {u}]
    OBVIOUS
  <2>4. f \in Engine(s)
    BY <2>1, <2>3 DEF Engine
  <2>5. /\ f.settling = e.settling /\ f.phase = e.phase /\ f.tosettle = e.tosettle /\ f.bets = e.bets
        /\ f.loop = e.loop /\ f.binding = e.binding /\ f.seen = e.seen /\ f.todo = e.todo
        /\ f.snap = e.snap /\ f.queue = e.queue /\ f.cur = e.cur
    BY <2>1, <2>3 DEF Engine
  <2>6. Quiet(s, e, f)
    BY <2>1, <2>5 DEF Quiet, Keeps, Riders, Running, Claims, Unqueued, Apart, SnapOK
  <2> QED BY <1>2, <2>0, <2>1, <2>2, <2>3, <2>4, <2>6
<1>4. eng' \in [s.nodes -> Engine(s)]
  <2>1. eng' = [m \in s.nodes |-> eng'[m]]
    BY DEF Game!RecoverScheduled, Game!Schedule, Game!Set, RowsInv
  <2> QED BY <1>3, <2>1
<1> QED BY <1>1, <1>3, <1>4, MoneyFrame

(* The queue holds nobody who rides.                                       *)
LEMMA MoneyQueue ==
  ASSUME NEW s, RowsInv(s), MoneyInv(s), Closed, NEW u \in Users, Game(s)!Enqueue(u) \/ Game(s)!Dequeue(u)
  PROVE  MoneyInv(s)'
<1>0. PICK n, i : n = queued[u].node /\ i = Game(s)!Idle
  OBVIOUS
<1>1. n \in s.nodes /\ i.at = "idle"
  BY <1>0, IdleIs DEF RowsInv, Tables, Game!Enqueue, Game!Dequeue
<1>2. eng[n] \in Engine(s) /\ LoopOK(eng[n]) /\ eng[n].queue \subseteq Users
  BY <1>1 DEF RowsInv, Engine
<1>3. queued \in [Users -> Request(s)]
  BY DEF RowsInv, Tables
<1>b. Running(eng[n]) /\ Claims(eng[n]) /\ Unqueued(s, eng[n])
  BY <1>1 DEF MoneyInv
<1>4. CASE queued' = [queued EXCEPT ![u].at = "refund"]
           /\ UNCHANGED <<eng, round, row, writes, bet, due, known>>
  <2>1. ~s.queueing => \A x \in Users : queued'[x].at # "answer"
    BY <1>3, <1>4 DEF MoneyInv, Request
  <2>2. \A m \in s.nodes : Quiet(s, eng[m], eng'[m])
    BY <1>4 DEF MoneyInv, Quiet, Keeps
  <2> QED BY <1>4, <2>1, <2>2, MoneyFrame DEF RowsInv
<1>5. ASSUME NEW Q \in SUBSET Users, QueueStep(s, u, n, Q),
             ~s.queueing => Q = {},
             eng[n].loop = "bind" => (Q \ eng[n].seen) \cap DOMAIN eng[n].bets = {}
      PROVE  MoneyInv(s)'
  <2>1. PICK f : f = [eng[n] EXCEPT !.queue = Q]
    OBVIOUS
  <2>2. /\ f \in Engine(s) /\ Keeps(eng[n], f) /\ f.queue = Q
        /\ f.settling = eng[n].settling /\ f.phase = eng[n].phase /\ f.tosettle = eng[n].tosettle
        /\ f.bets = eng[n].bets /\ f.loop = eng[n].loop /\ f.binding = eng[n].binding
        /\ f.seen = eng[n].seen /\ f.todo = eng[n].todo /\ f.snap = eng[n].snap
    BY <1>2, <2>1, QueueIs
  <2>3. ~s.queueing => \A x \in Users : queued'[x].at # "answer"
    BY <1>0, <1>1, <1>3, <1>5 DEF MoneyInv, QueueStep
  <2>4. Running(f)
    BY <1>5, <1>b, <2>2 DEF Running, Apart, Keeps
  <2>5. Claims(f) /\ Unqueued(s, f)
    BY <1>5, <1>b, <2>2 DEF Claims, SnapOK, Unqueued
  <2>6. Quiet(s, eng[n], f)
    BY <2>2, <2>4, <2>5 DEF Quiet
  <2> QED BY <1>1, <1>5, <2>1, <2>2, <2>3, <2>6, MoneyQuiet DEF QueueStep
<1>6. CASE Game(s)!Dequeue(u)
  <2>1. QueueStep(s, u, n, eng[n].queue \ {u})
    BY <1>0, <1>6 DEF Game!Dequeue, Game!Set, QueueStep
  <2>2. PICK Q : Q = eng[n].queue \ {u}
    OBVIOUS
  <2>3. Q \in SUBSET Users /\ (~s.queueing => Q = {})
        /\ (eng[n].loop = "bind" => (Q \ eng[n].seen) \cap DOMAIN eng[n].bets = {})
    BY <1>2, <1>b, <2>2 DEF Unqueued, Running, Apart
  <2> QED BY <1>5, <2>1, <2>2, <2>3
<1>7. CASE Game(s)!Enqueue(u) /\ ~(~eng[n].draining /\ u \notin eng[n].queue)
  BY <1>0, <1>4, <1>7 DEF Game!Enqueue
<1>8. CASE Game(s)!Enqueue(u) /\ ~eng[n].draining /\ u \notin eng[n].queue
  <2>1. QueueStep(s, u, n, eng[n].queue \cup {u}) /\ queued[u].at = "answer"
    BY <1>0, <1>8 DEF Game!Enqueue, Game!Set, QueueStep
  <2>2. PICK Q : Q = eng[n].queue \cup {u}
    OBVIOUS
  <2>3. ~(eng[n].loop = "bind" /\ u \in DOMAIN eng[n].bets)
    BY <1>0, <1>8, NothingHit DEF Game!Enqueue
  <2>4. s.queueing
    BY <2>1 DEF MoneyInv
  <2>5. Q \in SUBSET Users /\ (eng[n].loop = "bind" => (Q \ eng[n].seen) \cap DOMAIN eng[n].bets = {})
    BY <1>2, <1>b, <2>2, <2>3 DEF Running, Apart
  <2> QED BY <1>5, <2>1, <2>2, <2>4, <2>5
<1> QED BY <1>6, <1>7, <1>8

(* Scheduled stakes that go back are no bets of a round.                   *)
LEMMA MoneyCancel ==
  ASSUME NEW s, RowsInv(s), MoneyInv(s), NEW u \in Users,
         Game(s)!RefundScheduled(u) \/ \E n \in s.nodes : Game(s)!Cancel(u, n)
  PROVE  MoneyInv(s)'
<1>0. PICK i : i = Game(s)!Idle
  OBVIOUS
<1>1. i.at = "idle" /\ queued \in [Users -> Request(s)]
  BY <1>0, IdleIs DEF RowsInv, Tables
<1>2. UNCHANGED <<round, row, eng, writes, bet, due, known>>
  BY DEF Game!RefundScheduled, Game!Cancel
<1>3. queued' = [queued EXCEPT ![u] = i] \/ \E n \in s.nodes : queued' = [queued EXCEPT ![u] = [at |-> "dequeue", node |-> n, r |-> 0]]
  BY <1>0 DEF Game!RefundScheduled, Game!Cancel
<1>4. ~s.queueing => \A x \in Users : queued'[x].at # "answer"
  BY <1>1, <1>3 DEF MoneyInv
<1>5. \A m \in s.nodes : Quiet(s, eng[m], eng'[m])
  BY <1>2 DEF MoneyInv, Quiet, Keeps
<1> QED BY <1>2, <1>4, <1>5, MoneyFrame DEF RowsInv

(* The status write is sent while the round is alive.                      *)
LEMMA MoneyRun ==
  ASSUME NEW s, RowsInv(s), MoneyInv(s), Closed, NEW n \in s.nodes, Game(s)!Run(n)
  PROVE  MoneyInv(s)'
<1>0. PICK e : e = eng[n]
  OBVIOUS
<1>1. /\ e \in Engine(s) /\ LoopOK(e) /\ Running(e) /\ Claims(e) /\ Unqueued(s, e) /\ Homes(s, n, e)
      /\ RamAhead(e)
  BY <1>0 DEF RowsInv, MoneyInv
<1>2. PICK f : f = [e EXCEPT !.loop = "starting", !.phase = "running"]
  OBVIOUS
<1>3. PICK w : w = [kind |-> "run", node |-> n, r |-> e.cur, u |-> None, rem |-> 0, pay |-> 0]
  OBVIOUS
<1>4. /\ e.loop = "beacon" /\ round[e.cur] # "busted"
      /\ eng' = [eng EXCEPT ![n] = f] /\ writes' = writes \cup {w}
      /\ UNCHANGED <<round, row, bet, queued, due, known>>
  BY <1>0, <1>2, <1>3, NothingHit DEF Game!Run, Game!Set
<1>5. /\ f.loop = "starting" /\ f.phase = "running" /\ f.cur = e.cur /\ f.bets = e.bets
      /\ f.binding = e.binding /\ f.settling = e.settling /\ f.queue = e.queue
  BY <1>1, <1>2 DEF Engine
<1>6. e.cur # 0 /\ ~e.settling
  BY <1>1, <1>4 DEF LoopOK, Running
<1>7. round[e.cur] \in Alive
  <2>1. e.cur \in 1..MaxRound
    BY <1>1, <1>6, CrashAssumption DEF Engine
  <2>2. round[e.cur] \in {"none", "waiting", "running", "busted"}
    BY <2>1 DEF RowsInv, Tables
  <2> QED BY <1>1, <1>4, <1>6, <2>2 DEF Homes, Alive
<1>8. w.kind = "run" /\ w.node = n /\ w.r = e.cur /\ w.u = None /\ w.rem = 0 /\ w.pay = 0
  BY <1>3
<1>9. f \in Engine(s)
  BY <1>1, <1>2 DEF Engine
<1>10. /\ eng'[n] = f /\ \A m \in s.nodes \ {n} : eng'[m] = eng[m]
  BY <1>4, <1>9 DEF RowsInv
<1>11. Books(s)' /\ Asked'
  BY <1>4 DEF MoneyInv, Books, Book, Asked, Late
<1>12. \A v \in writes' : WriteOK(v)'
  <2>1. WriteOK(w)'
    BY <1>4, <1>7, <1>8 DEF WriteOK, Alive
  <2>2. \A v \in writes : WriteOK(v)'
    BY <1>4 DEF MoneyInv, WriteOK, Late
  <2> QED BY <1>4, <2>1, <2>2
<1>13. ASSUME NEW m \in s.nodes, m # n
       PROVE  /\ Homes(s, m, eng[m])' /\ Running(eng[m])' /\ RamAhead(eng[m])' /\ Claims(eng[m])'
              /\ Unqueued(s, eng[m])'
  <2>1. /\ Homes(s, m, eng[m]) /\ Running(eng[m]) /\ RamAhead(eng[m]) /\ Claims(eng[m])
        /\ Unqueued(s, eng[m])
    BY DEF MoneyInv
  <2>2. eng[m].cur # e.cur /\ eng'[m] = eng[m] /\ LoopOK(eng[m])
    BY <1>0, <1>1, <1>6, <1>10, <1>13 DEF Homes, RowsInv
  <2>3. Homes(s, m, eng[m])'
    BY <1>0, <1>4, <1>5, <1>8, <1>10, <2>1, <2>2 DEF Homes
  <2>4. Running(eng[m])'
    BY <1>4, <1>8, <2>1, <2>2 DEF Running, Apart
  <2>5. RamAhead(eng[m])'
    BY <1>4, <1>8, <2>1, <2>2 DEF RamAhead, Riders, Late
  <2>6. Claims(eng[m])' /\ Unqueued(s, eng[m])'
    BY <1>4, <1>8, <2>1, <2>2 DEF Claims, SnapOK, Unqueued, Late
  <2> QED BY <2>3, <2>4, <2>5, <2>6
<1>14. /\ Homes(s, n, eng[n])' /\ Running(eng[n])' /\ RamAhead(eng[n])' /\ Claims(eng[n])'
       /\ Unqueued(s, eng[n])'
  <2>1. Homes(s, n, eng[n])'
    BY <1>0, <1>1, <1>4, <1>5, <1>8, <1>10 DEF Homes
  <2>2. Running(eng[n])' /\ Claims(eng[n])' /\ Unqueued(s, eng[n])'
    BY <1>1, <1>5, <1>6, <1>10 DEF Running, Claims, Unqueued
  <2>3. RamAhead(eng[n])'
    BY <1>1, <1>4, <1>5, <1>8, <1>10 DEF RamAhead, Riders, Late
  <2> QED BY <2>1, <2>2, <2>3
<1>15. ~s.queueing => \A u \in Users : queued'[u].at # "answer"
  BY <1>4 DEF MoneyInv
<1> QED BY <1>11, <1>12, <1>13, <1>14, <1>15 DEF MoneyInv

(* A request names a round.                                                *)
LEMMA AskedRounds ==
  ASSUME NEW s, RowsInv(s), NEW u \in Users, bet[u].at # "idle"
  PROVE  bet[u].r \in 1..MaxRound
<1>1. bet[u].r \in 0..MaxRound
  BY DEF RowsInv, Request
<1>2. bet[u].r # 0
  BY DEF RowsInv, RequestOK
<1> QED BY <1>1, <1>2, CrashAssumption

(* And executed before the round is over.                                  *)
LEMMA MoneyRunWritten ==
  ASSUME NEW s, RowsInv(s), MoneyInv(s), NEW w \in writes, Game(s)!RunWritten(w)
  PROVE  MoneyInv(s)'
<1>1. /\ w.kind = "run" /\ w \in Write(s) /\ w.node \in s.nodes
      /\ writes' = writes \ {w} /\ round' = [round EXCEPT ![w.r] = "running"]
      /\ UNCHANGED <<row, bet, queued, due, known>>
  BY RunWrittenSteps
<1>2. PICK f \in Engine(s) :
        /\ Keeps(eng[w.node], f) /\ eng' = [eng EXCEPT ![w.node] = f]
        /\ \/ f = eng[w.node]
           \/ /\ f.loop = "fly" /\ f.cur = w.r
              /\ f.settling = eng[w.node].settling /\ f.tosettle = eng[w.node].tosettle
              /\ f.phase = eng[w.node].phase /\ f.bets = eng[w.node].bets
              /\ f.queue = eng[w.node].queue
  BY RunWrittenSteps
<1>3. PICK n : n = w.node
  OBVIOUS
<1>4. PICK e : e = eng[n]
  OBVIOUS
<1>5. n \in s.nodes /\ e \in Engine(s) /\ LoopOK(e) /\ Running(e) /\ Claims(e) /\ Unqueued(s, e)
  BY <1>1, <1>3, <1>4 DEF RowsInv, MoneyInv
<1>6. /\ w.r \in 1..MaxRound /\ round[w.r] \in Alive
      /\ \A r \in 1..MaxRound : /\ round'[r] \in Alive <=> round[r] \in Alive
                                /\ round'[r] = "none" <=> round[r] = "none"
  <2>1. w.r \in 1..MaxRound /\ round[w.r] \in Alive
    BY <1>1 DEF MoneyInv, WriteOK, Write
  <2>2. round \in [1..MaxRound -> {"none", "waiting", "running", "busted"}]
    BY DEF RowsInv, Tables
  <2> QED BY <1>1, <2>1, <2>2 DEF Alive
<1>7. \A v \in writes : v \in Write(s) /\ v.r \in 1..MaxRound
  BY DEF RowsInv, Tables, Write
<1>8. Books(s)'
  BY <1>1, <1>6 DEF MoneyInv, Books, Book, Late
<1>9. Asked'
  BY <1>1, <1>6, AskedRounds DEF MoneyInv, Asked
<1>10. \A v \in writes' : WriteOK(v)'
  <2>1. ASSUME NEW v \in writes PROVE WriteOK(v)'
    <3>1. WriteOK(v) /\ v.r \in 1..MaxRound
      BY <1>7 DEF MoneyInv
    <3> QED BY <1>1, <1>6, <3>1 DEF WriteOK, Late
  <2> QED BY <1>1, <2>1
<1>11. /\ eng' \in [s.nodes -> Engine(s)] /\ eng'[n] = f /\ \A m \in s.nodes \ {n} : eng'[m] = eng[m]
  BY <1>2, <1>3, <1>5 DEF RowsInv
<1>12. ASSUME NEW m \in s.nodes PROVE eng[m].cur # 0 => eng[m].cur \in 1..MaxRound
  BY CrashAssumption DEF RowsInv, Engine
<1>13. ASSUME NEW m \in s.nodes PROVE eng'[m].cur = eng[m].cur /\ Keeps(eng[m], eng'[m])
  BY <1>2, <1>3, <1>11 DEF Keeps
<1>14. ASSUME NEW m \in s.nodes PROVE Homes(s, m, eng[m])' /\ RamAhead(eng[m])'
  <2>1. Homes(s, m, eng[m]) /\ RamAhead(eng[m])
    BY DEF MoneyInv
  <2>2. Homes(s, m, eng[m])'
    BY <1>1, <1>6, <1>12, <1>13, <2>1 DEF Homes
  <2>3. RamAhead(eng[m])'
    BY <1>1, <1>6, <1>12, <1>13, <2>1 DEF RamAhead, Keeps, Riders, Late
  <2> QED BY <2>2, <2>3
<1>15. ASSUME NEW m \in s.nodes, eng'[m] = eng[m]
       PROVE  Running(eng[m])' /\ Claims(eng[m])' /\ Unqueued(s, eng[m])'
  <2>1. Running(eng[m]) /\ Claims(eng[m]) /\ Unqueued(s, eng[m]) /\ LoopOK(eng[m]) /\ eng[m] \in Engine(s)
    BY DEF MoneyInv, RowsInv
  <2>2. Running(eng[m])'
    BY <1>1, <1>6, <1>12, <1>15, <2>1 DEF Running, Apart, LoopOK
  <2>3. eng[m].loop \in {"read", "claim"} => First(eng[m].todo) \in 1..MaxRound /\ eng[m].todo \subseteq 1..MaxRound
    BY <2>1, FirstIs DEF LoopOK, Engine
  <2>4. Claims(eng[m])' /\ Unqueued(s, eng[m])'
    BY <1>1, <1>6, <1>15, <2>1, <2>3 DEF Claims, SnapOK, Unqueued, Late
  <2> QED BY <2>2, <2>4
<1>16. CASE f = eng[w.node]
  BY <1>2, <1>3, <1>8, <1>9, <1>10, <1>11, <1>14, <1>15, <1>16, <1>1 DEF MoneyInv
<1>17. CASE /\ f.loop = "fly" /\ f.cur = w.r
            /\ f.settling = eng[w.node].settling /\ f.tosettle = eng[w.node].tosettle
            /\ f.phase = eng[w.node].phase /\ f.bets = eng[w.node].bets
            /\ f.queue = eng[w.node].queue
  <2>1. \A v \in writes' : ~(v.kind = "run" /\ v.r = w.r)
    <3>1. ASSUME NEW v \in writes, v.kind = "run", v.r = w.r PROVE v = w
      <4>1. e.cur = w.r /\ w.r # 0
        BY <1>2, <1>3, <1>4, <1>6, <1>17 DEF Keeps
      <4>2. v.node = n
        BY <1>4, <1>5, <3>1, <4>1 DEF MoneyInv, Homes
      <4>3. v.u = None /\ v.rem = 0 /\ v.pay = 0 /\ w.u = None /\ w.rem = 0 /\ w.pay = 0
        BY <1>1, <3>1 DEF MoneyInv, WriteOK
      <4> QED BY <1>1, <1>3, <1>7, <3>1, <4>2, <4>3 DEF Write
    <3> QED BY <1>1, <3>1
  <2>2. Running(eng[n])'
    BY <1>3, <1>4, <1>5, <1>11, <1>17, <2>1 DEF Running
  <2>3. Claims(eng[n])' /\ Unqueued(s, eng[n])'
    BY <1>3, <1>4, <1>5, <1>11, <1>17 DEF Claims, Unqueued
  <2> QED BY <1>1, <1>8, <1>9, <1>10, <1>11, <1>14, <1>15, <2>2, <2>3 DEF MoneyInv
<1> QED BY <1>2, <1>16, <1>17

(* Whoever rides is a player with a row.                                   *)
LEMMA RidersAre ==
  ASSUME NEW s, RowsInv(s), NEW m \in s.nodes
  PROVE  /\ Riders(eng[m]) \subseteq Users /\ \A u \in Riders(eng[m]) : <<eng[m].cur, u>> \in DOMAIN row
         /\ eng[m].loop # "bind" => Riders(eng[m]) = DOMAIN eng[m].bets
<1>1. eng[m] \in Engine(s) /\ LoopOK(eng[m]) /\ RidersOK(eng[m])
  BY DEF RowsInv
<1>2. DOMAIN eng[m].bets \subseteq Users
  BY <1>1, BetsFacts DEF Engine
<1> QED BY <1>1, <1>2, CrashAssumption DEF RidersOK, Riders, LoopOK

(* A round that was alive is over: what it owed has been paid, but to the  *)
(* requests whose answer is still to come.                                 *)
LEMMA MoneyBusted ==
  ASSUME NEW s, RowsInv(s), MoneyInv(s), NEW n \in s.nodes, NEW f \in Engine(s), LoopOK(f),
         NEW r \in 1..MaxRound, round[r] \in Alive, Quiet(s, eng[n], f), Keeps(eng[n], f),
         eng' = [eng EXCEPT ![n] = f], round' = [round EXCEPT ![r] = "busted"],
         UNCHANGED <<writes, bet, queued, known>>, DOMAIN row' = DOMAIN row,
         \A q \in 1..MaxRound, u \in Users :
           q # r /\ <<q, u>> \in DOMAIN row => row'[<<q, u>>] = row[<<q, u>>],
         DOMAIN due' = (1..MaxRound) \X Users,
         \A q \in 1..MaxRound, u \in Users : q # r => due'[<<q, u>>] = due[<<q, u>>],
         \A u \in Users : due'[<<r, u>>] = IF bet[u].r = r /\ bet[u].at \in {"answer", "refund"}
                                           THEN s.stake ELSE 0,
         \A m \in s.nodes : eng'[m].loop = "bind" => eng'[m].cur # r,
         \A w \in writes : ~(w.kind = "run" /\ w.r = r)
  PROVE  MoneyInv(s)'
<1>1. /\ eng' \in [s.nodes -> Engine(s)] /\ eng'[n] = f /\ \A m \in s.nodes \ {n} : eng'[m] = eng[m]
  BY DEF RowsInv
<1>2. /\ round'[r] = "busted" /\ round'[r] \notin Alive /\ round[r] # "none"
      /\ \A q \in 1..MaxRound : q # r => round'[q] = round[q]
      /\ \A q \in 1..MaxRound : round'[q] = "none" <=> round[q] = "none"
  BY DEF RowsInv, Tables, Alive
<1>3. Books(s)'
  <2>1. ASSUME NEW q \in 1..MaxRound, NEW u \in Users, q # r
        PROVE  Book(s, q, u)'
    BY <1>2, <2>1 DEF MoneyInv, Books, Book, Late
  <2>2. ASSUME NEW u \in Users
        PROVE  Book(s, r, u)'
    BY <1>2 DEF Book
  <2>3. DOMAIN known' = (1..MaxRound) \X Users
    BY DEF MoneyInv, Books, Book
  <2> QED BY <1>2, <2>1, <2>2, <2>3 DEF Books, Book
<1>4. Asked'
  BY <1>2, AskedRounds DEF MoneyInv, Asked
<1>5. ASSUME NEW w \in writes' PROVE WriteOK(w)'
  <2>1. WriteOK(w) /\ w \in Write(s) /\ ~(w.kind = "run" /\ w.r = r)
    BY DEF MoneyInv, RowsInv, Tables
  <2>2. w.r \in 1..MaxRound /\ (w.kind = "cash" => w.u \in Users)
    BY <2>1 DEF Write
  <2>3. CASE w.r = r
    BY <1>2, <2>1, <2>2, <2>3 DEF WriteOK, Late
  <2>4. CASE w.r # r
    BY <1>2, <2>1, <2>2, <2>4 DEF WriteOK, Late
  <2> QED BY <2>3, <2>4
<1>6. ASSUME NEW m \in s.nodes PROVE Quiet(s, eng[m], eng'[m]) /\ Keeps(eng[m], eng'[m])
  BY <1>1 DEF MoneyInv, Quiet, Keeps
<1>7. ASSUME NEW m \in s.nodes
      PROVE  /\ eng'[m] \in Engine(s) /\ eng'[m].cur \in 0..MaxRound
             /\ eng'[m].cur # 0 => eng'[m].cur \in 1..MaxRound
             /\ eng[m].cur = eng'[m].cur
  BY <1>1, <1>6, CrashAssumption DEF Engine, Keeps
<1>8. ASSUME NEW m \in s.nodes PROVE Homes(s, m, eng[m])'
  <2>1. Homes(s, m, eng[m])
    BY DEF MoneyInv
  <2> QED BY <1>2, <1>7, <2>1 DEF Homes
<1>9. ASSUME NEW m \in s.nodes PROVE Running(eng[m])'
  <2>1. Running(eng'[m])
    BY <1>6 DEF Quiet
  <2>2. LoopOK(eng'[m])
    BY <1>1 DEF RowsInv
  <2> QED BY <1>2, <1>7, <2>1, <2>2 DEF Running, Apart, LoopOK
<1>10. ASSUME NEW m \in s.nodes PROVE RamAhead(eng[m])'
  <2>1. RamAhead(eng[m]) /\ Keeps(eng[m], eng'[m])
    BY <1>6 DEF MoneyInv
  <2>2. Riders(eng[m]) \subseteq Users /\ \A u \in Riders(eng[m]) : <<eng[m].cur, u>> \in DOMAIN row
    BY RidersAre
  <2>3. CASE eng[m].cur = r
    BY <1>2, <1>7, <2>3 DEF RamAhead
  <2>4. CASE eng[m].cur # r
    BY <1>2, <1>7, <2>1, <2>2, <2>4 DEF RamAhead, Keeps, Riders, Late
  <2> QED BY <2>3, <2>4
<1>11. ASSUME NEW m \in s.nodes PROVE Claims(eng[m])' /\ Unqueued(s, eng[m])'
  <2>0. PICK e : e = eng'[m]
    OBVIOUS
  <2>1. Claims(e) /\ Unqueued(s, e) /\ LoopOK(e) /\ e \in Engine(s)
    BY <1>1, <1>6, <1>7, <2>0 DEF Quiet, RowsInv
  <2>2. e.loop \in {"read", "claim"} => e.todo \subseteq 1..MaxRound /\ First(e.todo) \in 1..MaxRound
    BY <2>1, FirstIs DEF LoopOK, Engine
  <2>3. ASSUME NEW q \in 1..MaxRound, SnapOK(e, q) PROVE SnapOK(e, q)'
    <3>1. CASE q = r
      BY <1>2, <3>1 DEF SnapOK
    <3>2. CASE q # r
      BY <1>2, <2>3, <3>2 DEF SnapOK, Late
    <3> QED BY <3>1, <3>2
  <2>4. Claims(e)'
    BY <1>2, <2>1, <2>2, <2>3 DEF Claims
  <2> QED BY <2>0, <2>1, <2>4 DEF Claims, Unqueued, SnapOK, Late
<1> QED BY <1>3, <1>4, <1>5, <1>8, <1>9, <1>10, <1>11 DEF MoneyInv

(* What recovery has read is what the bets of the round are owed.          *)
LEMMA MoneyRecover ==
  ASSUME NEW s, Setting(s), OneQueue(s), Closed, RowsInv(s), MoneyInv(s), NEW n \in s.nodes,
         Game(s)!Recover(n)
  PROVE  MoneyInv(s)'
<1>0. PICK e : e = eng[n]
  OBVIOUS
<1>1. /\ e \in Engine(s) /\ LoopOK(e) /\ Tables(s) /\ e.loop = "claim" /\ Claims(e)
      /\ Running(e) /\ Unqueued(s, e)
  BY <1>0 DEF RowsInv, Game!Recover, MoneyInv
<1>2. PICK r : r = First(e.todo)
  OBVIOUS
<1>3. PICK T : T = e.todo \ {r}
  OBVIOUS
<1>4. PICK f : f = Game(s)!Proceed(e, T)
  OBVIOUS
<1>5. r \in 1..MaxRound /\ r \in e.todo /\ T \in SUBSET (1..MaxRound) /\ T \subseteq e.todo
  BY <1>1, <1>2, <1>3, FirstIs DEF LoopOK, Engine
<1>6. /\ f \in Engine(s) /\ LoopOK(f) /\ Keeps(e, f) /\ f.loop \in {"orphans", "open", "read"}
      /\ f.loop = "read" => f.todo = T
      /\ f.phase = e.phase /\ f.settling = e.settling /\ f.tosettle = e.tosettle
      /\ f.queue = e.queue /\ f.seen = e.seen /\ f.bets = e.bets
  <2>1. e.loop \in {"scan", "claim"} /\ sched \subseteq Users
    BY <1>1 DEF Tables
  <2> QED BY <1>1, <1>4, <1>5, <2>1, ProceedIs
<1>7. Calm(e, f)
  BY <1>1, <1>5, <1>6 DEF Calm
<1>8. Quiet(s, e, f)
  BY <1>0, <1>6, <1>7, CalmIsQuiet
<1>9. PICK z : z = e.snap
  OBVIOUS
<1>10. PICK a : a = [u \in DOMAIN z |-> z[u].rem + z[u].pay]
  OBVIOUS
<1>11. /\ eng' = [eng EXCEPT ![n] = f] /\ UNCHANGED <<writes, bet, queued, known>>
       /\ \A w \in writes : ~(w.kind = "run" /\ w.r = r)
       /\ \/ UNCHANGED <<round, row, due>>
          \/ /\ round[r] \in Alive /\ round' = [round EXCEPT ![r] = "busted"]
             /\ row' = [k \in DOMAIN row |->
                            IF k[1] = r /\ k[2] \in DOMAIN z
                            THEN [rem |-> 0, pay |-> z[k[2]].pay] ELSE row[k]]
             /\ due' = Game(s)!Discharged(r, a)
  BY <1>0, <1>2, <1>3, <1>4, <1>9, <1>10, NothingHit, MinIs
     DEF Game!Recover, Game!Set, Game!Claimable, Game!Open, Alive
<1>12. ~s.queueing => \A u \in Users : queued'[u].at # "answer"
  BY <1>11 DEF MoneyInv
<1>13. CASE UNCHANGED <<round, row, due>>
  BY <1>0, <1>6, <1>8, <1>11, <1>12, <1>13, MoneyQuiet
<1>14. CASE /\ round[r] \in Alive /\ round' = [round EXCEPT ![r] = "busted"]
            /\ row' = [k \in DOMAIN row |->
                            IF k[1] = r /\ k[2] \in DOMAIN z
                            THEN [rem |-> 0, pay |-> z[k[2]].pay] ELSE row[k]]
            /\ due' = Game(s)!Discharged(r, a)
  <2>1. /\ DOMAIN row' = DOMAIN row
        /\ \A q \in 1..MaxRound, u \in Users :
             q # r /\ <<q, u>> \in DOMAIN row => row'[<<q, u>>] = row[<<q, u>>]
    BY <1>14
  <2>2. due' = [k \in (1..MaxRound) \X Users |->
                  IF k[1] = r /\ k[2] \in DOMAIN a THEN due[k] - a[k[2]] ELSE due[k]]
    BY <1>14 DEF Game!Discharged, Game!Rounds
  <2>3. /\ DOMAIN due' = (1..MaxRound) \X Users
        /\ \A q \in 1..MaxRound, u \in Users : q # r => due'[<<q, u>>] = due[<<q, u>>]
    BY <2>2
  <2>4. ASSUME NEW u \in Users
        PROVE  due'[<<r, u>>] = IF bet[u].r = r /\ bet[u].at \in {"answer", "refund"}
                                THEN s.stake ELSE 0
    <3>1. SnapOK(e, r)
      BY <1>1, <1>2 DEF Claims
    <3>2. /\ u \in DOMAIN z <=> <<r, u>> \in DOMAIN row /\ ~Late(u, r)
          /\ u \in DOMAIN z => z[u] = row[<<r, u>>]
      BY <1>9, <1>14, <3>1 DEF SnapOK
    <3>3. due'[<<r, u>>] = IF u \in DOMAIN z THEN due[<<r, u>>] - a[u] ELSE due[<<r, u>>]
      BY <1>5, <1>10, <2>2
    <3>4. due[<<r, u>>] =
           IF bet[u].r = r /\ bet[u].at \in {"answer", "refund"} THEN s.stake
           ELSE IF round[r] \in Alive /\ <<r, u>> \in DOMAIN row /\ ~Late(u, r)
           THEN Value(row[<<r, u>>]) ELSE 0
      BY <1>5 DEF MoneyInv, Books, Book
    <3>5. CASE u \in DOMAIN z
      <4>1. ~(bet[u].r = r /\ bet[u].at \in {"answer", "refund"})
        BY <3>2, <3>5 DEF Late
      <4>2. row[<<r, u>>] \in Position(s)
        BY <3>2, <3>5 DEF RowsInv, BetRows
      <4>3. Value(row[<<r, u>>]) \in Nat /\ a[u] = Value(row[<<r, u>>])
        BY <1>10, <3>2, <3>5, <4>2 DEF Value, Position, Setting
      <4> QED BY <1>14, <3>2, <3>3, <3>4, <3>5, <4>1, <4>3
    <3>6. CASE u \notin DOMAIN z
      BY <3>2, <3>3, <3>4, <3>6
    <3> QED BY <3>5, <3>6
  <2>5. ASSUME NEW m \in s.nodes, eng'[m].loop = "bind" PROVE eng'[m].cur # r
    <3>1. m # n
      BY <1>0, <1>6, <1>11, <2>5 DEF RowsInv
    <3>2. eng'[m] = eng[m]
      BY <1>11, <3>1 DEF RowsInv
    <3>3. s.queueing
      BY <2>5, <3>2 DEF MoneyInv, Unqueued
    <3> QED BY <3>1, <3>3 DEF OneQueue
  <2> QED BY <1>0, <1>5, <1>6, <1>8, <1>11, <1>14, <2>1, <2>3, <2>4, <2>5, MoneyBusted
<1> QED BY <1>11, <1>13, <1>14

(* What the bust pays is what its bets are owed.                           *)
LEMMA MoneySettle ==
  ASSUME NEW s, Setting(s), RowsInv(s), MoneyInv(s), NEW n \in s.nodes, Game(s)!Settle(n)
  PROVE  MoneyInv(s)'
<1>0. PICK e : e = eng[n]
  OBVIOUS
<1>1. /\ e \in Engine(s) /\ LoopOK(e) /\ RidersOK(e) /\ Tables(s) /\ e.settling
      /\ Running(e) /\ RamAhead(e)
  BY <1>0 DEF RowsInv, Game!Settle, MoneyInv
<1>2. PICK f \in Engine(s) : /\ LoopOK(f) /\ Calm(e, f) /\ ~f.settling
                              /\ eng' = [eng EXCEPT ![n] = f]
  BY <1>0, SettleSteps
<1>3. Quiet(s, e, f) /\ Keeps(e, f)
  BY <1>0, <1>2, CalmIsQuiet DEF Calm
<1>4. PICK r, z : r = e.cur /\ z = e.bets
  OBVIOUS
<1>5. /\ e.tosettle = z /\ e.phase = "busted" /\ e.loop # "bind"
      /\ \A w \in writes : ~(w.kind = "run" /\ w.r = r)
  BY <1>1, <1>4 DEF Running
<1>6. r \in 1..MaxRound /\ DOMAIN z \subseteq Users /\ Riders(e) = DOMAIN z
      /\ \A u \in DOMAIN z : <<r, u>> \in DOMAIN row
  <2>1. r \in 0..MaxRound /\ r # 0
    BY <1>1, <1>4 DEF Engine, LoopOK
  <2> QED BY <1>0, <1>4, <1>5, <2>1, CrashAssumption, RidersAre
<1>7. /\ UNCHANGED <<writes, bet, queued, known>>
      /\ \/ UNCHANGED <<round, row, due>>
         \/ /\ round[r] \in Alive /\ round' = [round EXCEPT ![r] = "busted"]
            /\ row' = [k \in DOMAIN row \cup {<<r, u>> : u \in DOMAIN z} |->
                            IF k[1] = r /\ k[2] \in DOMAIN z
                            THEN [rem |-> 0, pay |-> z[k[2]].pay] ELSE row[k]]
            /\ due' = [k \in (1..MaxRound) \X Users |->
                            IF k[1] # r \/ k[2] \notin DOMAIN z THEN due[k]
                            ELSE IF due[k] = known[k] THEN 0
                            ELSE due[k] - z[k[2]].pay]
  BY <1>0, <1>4, <1>5 DEF Game!Settle, Game!Claimable, Game!Open, Alive, Game!Rounds
<1>a. UNCHANGED <<writes, bet, queued, known>>
  BY <1>7
<1>8. ~s.queueing => \A u \in Users : queued'[u].at # "answer"
  BY <1>a DEF MoneyInv
<1>9. CASE UNCHANGED <<round, row, due>>
  BY <1>0, <1>2, <1>3, <1>a, <1>8, <1>9, MoneyQuiet
<1>10. CASE /\ round[r] \in Alive /\ round' = [round EXCEPT ![r] = "busted"]
            /\ row' = [k \in DOMAIN row \cup {<<r, u>> : u \in DOMAIN z} |->
                            IF k[1] = r /\ k[2] \in DOMAIN z
                            THEN [rem |-> 0, pay |-> z[k[2]].pay] ELSE row[k]]
            /\ due' = [k \in (1..MaxRound) \X Users |->
                            IF k[1] # r \/ k[2] \notin DOMAIN z THEN due[k]
                            ELSE IF due[k] = known[k] THEN 0
                            ELSE due[k] - z[k[2]].pay]
  <2>0. DOMAIN row \cup {<<r, u>> : u \in DOMAIN z} = DOMAIN row
    BY <1>6
  <2>1. /\ DOMAIN row' = DOMAIN row
        /\ \A q \in 1..MaxRound, u \in Users :
             q # r /\ <<q, u>> \in DOMAIN row => row'[<<q, u>>] = row[<<q, u>>]
    BY <1>10, <2>0
  <2>3. /\ DOMAIN due' = (1..MaxRound) \X Users
        /\ \A q \in 1..MaxRound, u \in Users : q # r => due'[<<q, u>>] = due[<<q, u>>]
    BY <1>10
  <2>4. ASSUME NEW u \in Users
        PROVE  due'[<<r, u>>] = IF bet[u].r = r /\ bet[u].at \in {"answer", "refund"}
                                THEN s.stake ELSE 0
    <3>4. due[<<r, u>>] =
           IF bet[u].r = r /\ bet[u].at \in {"answer", "refund"} THEN s.stake
           ELSE IF round[r] \in Alive /\ <<r, u>> \in DOMAIN row /\ ~Late(u, r)
           THEN Value(row[<<r, u>>]) ELSE 0
      BY <1>6 DEF MoneyInv, Books, Book
    <3>5. CASE u \in DOMAIN z
      <4>1. ~Late(u, r)
        BY <1>1, <1>4, <1>6, <3>5 DEF RidersOK
      <4>2. ~(bet[u].r = r /\ bet[u].at \in {"answer", "refund"})
        BY <4>1 DEF Late
      <4>3. due[<<r, u>>] = Value(row[<<r, u>>])
        BY <1>6, <1>10, <3>4, <3>5, <4>1, <4>2
      <4>4. known[<<r, u>>] = Value(row[<<r, u>>])
        BY <1>6, <1>10, <3>5 DEF MoneyInv, Books, Book
      <4>5. due'[<<r, u>>] = 0
        BY <1>6, <1>10, <3>5, <4>3, <4>4
      <4> QED BY <4>2, <4>5
    <3>6. CASE u \notin DOMAIN z
      <4>1. due'[<<r, u>>] = due[<<r, u>>]
        BY <1>6, <1>10, <3>6
      <4>2. <<r, u>> \in DOMAIN row => Late(u, r)
        BY <1>1, <1>4, <1>6, <1>10, <3>6, CrashAssumption DEF RamAhead
      <4> QED BY <3>4, <4>1, <4>2
    <3> QED BY <3>5, <3>6
  <2>5. ASSUME NEW m \in s.nodes, eng'[m].loop = "bind" PROVE eng'[m].cur # r
    <3>1. CASE m = n
      <4>1. eng'[m] = f
        BY <1>2, <3>1 DEF RowsInv
      <4> QED BY <1>2, <1>5, <2>5, <4>1 DEF Calm
    <3>2. CASE m # n
      <4>1. eng'[m] = eng[m]
        BY <1>2, <3>2 DEF RowsInv
      <4>2. e.cur # 0
        BY <1>4, <1>6, CrashAssumption
      <4> QED BY <1>0, <1>4, <3>2, <4>1, <4>2 DEF MoneyInv, Homes
    <3> QED BY <3>1, <3>2
  <2>6. round[r] \in Alive /\ round' = [round EXCEPT ![r] = "busted"] /\ r \in 1..MaxRound
    BY <1>6, <1>10
  <2> QED BY <1>0, <1>2, <1>3, <1>5, <1>a, <2>1, <2>3, <2>4, <2>5, <2>6, MoneyBusted
<1> QED BY <1>7, <1>9, <1>10

(* A round is opened that nothing speaks of yet.                           *)
LEMMA MoneyOpen ==
  ASSUME NEW s, Setting(s), Closed, RowsInv(s), MoneyInv(s), NEW n \in s.nodes, Game(s)!OpenRound(n)
  PROVE  MoneyInv(s)'
<1>0. PICK e : e = eng[n]
  OBVIOUS
<1>1. PICK f \in Engine(s) :
           /\ LoopOK(f) /\ eng' = [eng EXCEPT ![n] = f]
           /\ UNCHANGED <<row, writes, bet, queued, due, known>>
           /\ \/ Calm(e, f) /\ round' = round
              \/ \E r \in 1..MaxRound :
                   /\ round[r] = "none" /\ round' = [round EXCEPT ![r] = "waiting"]
                   /\ Game(s)!Hit("staleSettle") \/ ~e.settling
                   /\ f.cur = r /\ f.phase = "waiting" /\ Riders(f) = {}
                   /\ f.settling = e.settling
                   /\ f.loop \in {"window", "idle", "bind"} /\ f.queue \subseteq e.queue
                   /\ f.loop = "bind" => /\ f.bets[f.binding] = [rem |-> s.stake, pay |-> 0]
                                         /\ f.binding \in f.seen /\ Apart(f) /\ e.queue # {}
  BY <1>0, OpenRoundSteps
<1>2. ~s.queueing => \A u \in Users : queued'[u].at # "answer"
  BY <1>1 DEF MoneyInv
<1>3. CASE Calm(e, f) /\ round' = round
  <2>1. Quiet(s, e, f)
    BY <1>0, <1>3, CalmIsQuiet
  <2> QED BY <1>0, <1>1, <1>2, <1>3, <2>1, MoneyQuiet
<1>4. ASSUME NEW r \in 1..MaxRound,
             round[r] = "none", round' = [round EXCEPT ![r] = "waiting"],
             Game(s)!Hit("staleSettle") \/ ~e.settling,
             f.cur = r, f.phase = "waiting", Riders(f) = {}, f.settling = e.settling,
             f.loop \in {"window", "idle", "bind"}, f.queue \subseteq e.queue,
             f.loop = "bind" => /\ f.bets[f.binding] = [rem |-> s.stake, pay |-> 0]
                                /\ f.binding \in f.seen /\ Apart(f) /\ e.queue # {}
      PROVE  MoneyInv(s)'
  <2>1. /\ eng' \in [s.nodes -> Engine(s)] /\ eng'[n] = f /\ \A m \in s.nodes \ {n} : eng'[m] = eng[m]
    BY <1>1 DEF RowsInv
  <2>2. /\ round'[r] = "waiting" /\ round[r] \notin Alive /\ "waiting" \in Alive
        /\ \A q \in 1..MaxRound : q # r => round'[q] = round[q]
        /\ \A q \in 1..MaxRound : round[q] # "none" => round'[q] # "none"
    BY <1>4 DEF RowsInv, Tables, Alive
  <2>3. \A u \in Users : <<r, u>> \notin DOMAIN row
    BY <1>4 DEF MoneyInv, Books, Book
  <2>4. \A u \in Users : bet[u].at # "idle" => bet[u].r # r
    BY <1>4 DEF MoneyInv, Asked
  <2>5. \A w \in writes : w.r # r /\ w.r \in 1..MaxRound
    BY <1>4 DEF MoneyInv, WriteOK, RowsInv, Tables, Write
  <2>6. r # 0
    BY CrashAssumption
  <2>7. ASSUME NEW m \in s.nodes PROVE eng[m].cur # r /\ (eng[m].cur # 0 => eng[m].cur \in 1..MaxRound)
    BY <1>4, <2>6, CrashAssumption DEF MoneyInv, Homes, RowsInv, Engine
  <2>8. Books(s)'
    <3>1. DOMAIN due' = (1..MaxRound) \X Users /\ DOMAIN known' = (1..MaxRound) \X Users
      BY <1>1 DEF MoneyInv, Books, Book
    <3>2. ASSUME NEW q \in 1..MaxRound, NEW u \in Users
          PROVE  Book(s, q, u)'
      <4>1. CASE q = r
        BY <1>1, <2>2, <2>3, <2>4, <4>1 DEF MoneyInv, Books, Book
      <4>2. CASE q # r
        BY <1>1, <2>2, <4>2 DEF MoneyInv, Books, Book, Late
      <4> QED BY <4>1, <4>2
    <3> QED BY <3>1, <3>2 DEF Books, Book
  <2>9. Asked'
    BY <1>1, <2>2, AskedRounds DEF MoneyInv, Asked
  <2>10. \A w \in writes' : WriteOK(w)'
    BY <1>1, <2>2, <2>5 DEF MoneyInv, WriteOK, Late
  <2>11. ASSUME NEW m \in s.nodes, m # n
         PROVE  /\ Homes(s, m, eng[m])' /\ Running(eng[m])' /\ RamAhead(eng[m])' /\ Claims(eng[m])'
                /\ Unqueued(s, eng[m])'
    <3>1. /\ Homes(s, m, eng[m]) /\ Running(eng[m]) /\ RamAhead(eng[m]) /\ Claims(eng[m])
          /\ Unqueued(s, eng[m]) /\ LoopOK(eng[m]) /\ eng[m] \in Engine(s) /\ eng'[m] = eng[m]
      BY <2>1, <2>11 DEF MoneyInv, RowsInv
    <3>2. Homes(s, m, eng[m])'
      BY <1>1, <1>4, <2>1, <2>2, <2>7, <3>1 DEF Homes
    <3>3. Running(eng[m])'
      BY <1>1, <2>2, <2>7, <3>1 DEF Running, Apart, LoopOK
    <3>4. RamAhead(eng[m])'
      BY <1>1, <2>2, <2>7, <3>1 DEF RamAhead, Riders, Late
    <3>5. eng[m].loop \in {"read", "claim"} => eng[m].todo \subseteq 1..MaxRound /\ First(eng[m].todo) \in eng[m].todo
      BY <3>1, FirstIs DEF LoopOK, Engine
    <3>6. ASSUME NEW q \in 1..MaxRound, q # r, SnapOK(eng[m], q) PROVE SnapOK(eng[m], q)'
      BY <1>1, <2>2, <3>1, <3>6 DEF SnapOK, Late
    <3>7. Claims(eng[m])'
      BY <1>4, <2>2, <3>1, <3>5, <3>6 DEF Claims
    <3> QED BY <3>1, <3>2, <3>3, <3>4, <3>7 DEF Unqueued
  <2>12. /\ Homes(s, n, eng[n])' /\ Running(eng[n])' /\ RamAhead(eng[n])' /\ Claims(eng[n])'
         /\ Unqueued(s, eng[n])'
    <3>0. ~f.settling /\ Unqueued(s, e)
      BY <1>0, <1>4, NothingHit DEF MoneyInv
    <3>1. Homes(s, n, eng[n])'
      BY <1>1, <1>4, <2>1, <2>2, <2>4, <2>5, <2>7 DEF Homes
    <3>2. Running(eng[n])'
      BY <1>4, <2>1, <2>2, <3>0 DEF Running, Apart
    <3>3. RamAhead(eng[n])'
      BY <1>1, <1>4, <2>1, <2>3 DEF RamAhead, Riders
    <3>4. Claims(eng[n])' /\ Unqueued(s, eng[n])'
      BY <1>4, <2>1, <3>0 DEF Claims, Unqueued
    <3> QED BY <3>1, <3>2, <3>3, <3>4
  <2> QED BY <1>2, <2>8, <2>9, <2>10, <2>11, <2>12 DEF MoneyInv
<1> QED BY <1>1, <1>3, <1>4

(* A queued stake becomes a bet: its player has none in this round.        *)
LEMMA MoneyBind ==
  ASSUME NEW s, Setting(s), OneQueue(s), RowsInv(s), MoneyInv(s), NEW n \in s.nodes, Game(s)!BindQueued(n),
         Game(s)!Bindable(eng[n].binding, <<eng[n].cur, eng[n].binding>>)
  PROVE  MoneyInv(s)'
<1>0. PICK e : e = eng[n]
  OBVIOUS
<1>1. PICK u, k, v : u = e.binding /\ k = <<e.cur, u>> /\ v = Game(s)!FullStake
  OBVIOUS
<1>2. /\ e.loop = "bind" /\ u \in Users /\ k \notin DOMAIN row
      /\ row' = [x \in DOMAIN row \cup {k} |-> IF x = k THEN v ELSE row[x]]
      /\ due' = [due EXCEPT ![k] = @ + s.stake] /\ known' = [known EXCEPT ![k] = s.stake]
      /\ UNCHANGED <<round, writes, bet, queued>>
  BY <1>0, <1>1, BindQueuedSteps
<1>3. PICK f \in Engine(s) :
        /\ LoopOK(f) /\ Bound(s, eng[n], f) /\ eng' = [eng EXCEPT ![n] = f]
        /\ Riders(f) \subseteq DOMAIN eng[n].bets
        /\ Apart(eng[n]) => /\ Riders(f) = DOMAIN eng[n].bets
                            /\ \A x \in DOMAIN eng[n].bets : f.bets[x] = eng[n].bets[x]
                            /\ f.loop = "bind" => Apart(f)
  BY <1>0, <1>1, BindQueuedSteps
<1>4. /\ e \in Engine(s) /\ LoopOK(e) /\ RidersOK(e) /\ Homes(s, n, e) /\ Running(e) /\ RamAhead(e)
      /\ Unqueued(s, e)
  BY <1>0 DEF RowsInv, MoneyInv
<1>5. /\ round[e.cur] \in Alive /\ e.bets[u].pay = 0 /\ Apart(e) /\ e.phase = "waiting" /\ ~e.settling
      /\ u \in DOMAIN e.bets
  BY <1>1, <1>2, <1>4 DEF Running, LoopOK
<1>6. s.nodes = {n}
  BY <1>2, <1>4 DEF Unqueued, OneQueue
<1>7. e.cur \in 1..MaxRound
  <2>1. e.cur \in 0..MaxRound /\ e.cur # 0
    BY <1>2, <1>4 DEF Engine, LoopOK
  <2> QED BY <2>1, CrashAssumption
<1>8. v = [rem |-> s.stake, pay |-> 0] /\ v \in Ride(s) /\ v.pay = 0
  BY <1>1, FullStakeIs
<1>9. Value(v) = s.stake
  BY <1>8 DEF Value, Setting
<1>10. ~Late(u, e.cur)
  BY <1>1, <1>2 DEF RowsInv, RequestOK, Late
<1>11. eng' \in [s.nodes -> Engine(s)] /\ eng'[n] = f
  BY <1>3 DEF RowsInv
<1>12. \A x : x \in DOMAIN row' <=> x = k \/ x \in DOMAIN row
  BY <1>2
<1>13. row'[k] = v /\ \A x \in DOMAIN row : row'[x] = row[x]
  BY <1>2
<1>14. Books(s)'
  <2>0. DOMAIN due = (1..MaxRound) \X Users /\ DOMAIN known = (1..MaxRound) \X Users
    BY DEF MoneyInv, Books, Book
  <2>1. DOMAIN due' = (1..MaxRound) \X Users /\ DOMAIN known' = (1..MaxRound) \X Users
    BY <1>2, <2>0
  <2>2. ASSUME NEW q \in 1..MaxRound, NEW x \in Users
        PROVE  Book(s, q, x)'
    <3>1. CASE <<q, x>> = k
      <4>1. q = e.cur /\ x = u
        BY <1>1, <3>1
      <4>2. due[k] = 0
        BY <1>1, <1>2, <1>7, <1>10 DEF MoneyInv, Books, Book, Late
      <4>3. due'[k] = s.stake /\ known'[k] = s.stake
        BY <1>1, <1>2, <1>7, <2>0, <4>2 DEF Setting
      <4>4. /\ ~Late(x, q)' /\ ~(bet'[x].r = q /\ bet'[x].at \in {"answer", "refund"})
            /\ round'[q] \in Alive /\ round'[q] # "none"
        BY <1>2, <1>5, <1>10, <4>1 DEF Late, Alive
      <4> QED BY <1>8, <1>9, <1>12, <1>13, <3>1, <4>3, <4>4 DEF Book
    <3>2. CASE <<q, x>> # k
      <4>1. due'[<<q, x>>] = due[<<q, x>>] /\ known'[<<q, x>>] = known[<<q, x>>]
        BY <1>2, <2>0, <3>2
      <4>2. /\ <<q, x>> \in DOMAIN row' <=> <<q, x>> \in DOMAIN row
            /\ <<q, x>> \in DOMAIN row => row'[<<q, x>>] = row[<<q, x>>]
        BY <1>12, <1>13, <3>2
      <4> QED BY <1>2, <4>1, <4>2 DEF MoneyInv, Books, Book, Late
    <3> QED BY <3>1, <3>2
  <2> QED BY <2>1, <2>2 DEF Books, Book
<1>15. Asked'
  BY <1>2 DEF MoneyInv, Asked
<1>16. ASSUME NEW w \in writes' PROVE WriteOK(w)'
  BY <1>2, <1>12, <1>13 DEF MoneyInv, WriteOK, Late
<1>17. Homes(s, n, eng[n])'
  BY <1>0, <1>2, <1>3, <1>4, <1>6, <1>11 DEF Homes, Bound
<1>18. Running(eng[n])' /\ Claims(eng[n])' /\ Unqueued(s, eng[n])'
  BY <1>0, <1>2, <1>3, <1>4, <1>5, <1>11 DEF Running, Claims, Unqueued, Bound, Apart
<1>19. RamAhead(eng[n])'
  <2>1. \A x \in DOMAIN e.bets : x = u \/ x \in Riders(e)
    BY <1>1 DEF Riders
  <2>2. Riders(f) = DOMAIN e.bets /\ f.cur = e.cur /\ \A x \in DOMAIN e.bets : f.bets[x] = e.bets[x]
    BY <1>0, <1>3, <1>5 DEF Bound
  <2>3. ASSUME NEW x \in Users, <<f.cur, x>> \in DOMAIN row' PROVE x \in Riders(f) \/ Late(x, f.cur)
    <3>1. CASE x = u
      BY <1>5, <2>2, <3>1
    <3>2. CASE x # u
      <4>1. <<e.cur, x>> \in DOMAIN row
        BY <1>1, <1>12, <2>2, <2>3, <3>2
      <4>2. x \in Riders(e) \/ Late(x, e.cur)
        BY <1>4, <1>5, <1>7, <4>1, CrashAssumption DEF RamAhead
      <4> QED BY <2>2, <4>2 DEF Riders
    <3> QED BY <3>1, <3>2
  <2>4. ASSUME NEW x \in Users, x \in Riders(f)
        PROVE  /\ row'[<<f.cur, x>>].pay <= f.bets[x].pay
               /\ \A w \in writes : w.kind = "cash" /\ w.r = f.cur /\ w.u = x => w.pay <= f.bets[x].pay
    <3>1. CASE x = u
      <4>1. row'[<<f.cur, x>>].pay <= f.bets[x].pay
        BY <1>1, <1>5, <1>8, <1>13, <2>2, <3>1
      <4>2. \A w \in writes : ~(w.kind = "cash" /\ w.r = f.cur /\ w.u = x)
        BY <1>1, <1>2, <2>2, <3>1 DEF MoneyInv, WriteOK
      <4> QED BY <4>1, <4>2
    <3>2. CASE x # u
      <4>1. x \in Riders(e) /\ <<e.cur, x>> \in DOMAIN row
        BY <1>4, <2>1, <2>2, <2>4, <3>2 DEF RidersOK
      <4>2. /\ row[<<e.cur, x>>].pay <= e.bets[x].pay
            /\ \A w \in writes : w.kind = "cash" /\ w.r = e.cur /\ w.u = x => w.pay <= e.bets[x].pay
        BY <1>4, <1>5, <1>7, <4>1, CrashAssumption DEF RamAhead
      <4> QED BY <1>13, <2>2, <2>4, <4>1, <4>2
    <3> QED BY <3>1, <3>2
  <2> QED BY <1>2, <1>11, <2>3, <2>4 DEF RamAhead, Riders, Late
<1>20. ~s.queueing => \A x \in Users : queued'[x].at # "answer"
  BY <1>2 DEF MoneyInv
<1> QED BY <1>6, <1>14, <1>15, <1>16, <1>17, <1>18, <1>19, <1>20 DEF MoneyInv

(* A step of one request that a recovery and the engines do not see: they  *)
(* know of a row when its request is over.                                 *)
LEMMA MoneyRequest ==
  ASSUME NEW s, RowsInv(s), MoneyInv(s), NEW u \in Users, NEW r \in 1..MaxRound, NEW k, k = <<r, u>>,
         UNCHANGED <<round, eng, writes, queued>>,
         \A x \in Users : x # u => bet'[x] = bet[x],
         bet[u].at # "idle" => bet[u].r = r,
         bet'[u].at # "idle" => /\ bet'[u].r = r /\ round[r] # "none"
                                /\ \A m \in s.nodes : eng[m].cur = r => bet'[u].node = m,
         DOMAIN due' = (1..MaxRound) \X Users, DOMAIN known' = (1..MaxRound) \X Users,
         \A q \in 1..MaxRound, x \in Users : <<q, x>> # k =>
           /\ due'[<<q, x>>] = due[<<q, x>>] /\ known'[<<q, x>>] = known[<<q, x>>]
           /\ <<q, x>> \in DOMAIN row' <=> <<q, x>> \in DOMAIN row
           /\ <<q, x>> \in DOMAIN row => row'[<<q, x>>] = row[<<q, x>>],
         Book(s, r, u)',
         k \in DOMAIN row' /\ ~Late(u, r)' <=> k \in DOMAIN row /\ ~Late(u, r),
         k \in DOMAIN row /\ ~Late(u, r) => row'[k] = row[k]
  PROVE  MoneyInv(s)'
<1> DEFINE Seen(q, x) == <<q, x>> \in DOMAIN row /\ ~Late(x, q)
<1>1. \A q \in 1..MaxRound, x \in Users : <<q, x>> # k =>
        /\ Late(x, q)' <=> Late(x, q)
        /\ bet'[x].r = q /\ bet'[x].at \in {"answer", "refund"} <=> bet[x].r = q /\ bet[x].at \in {"answer", "refund"}
  BY DEF Late
<1>2. ASSUME NEW q \in 1..MaxRound, NEW x \in Users PROVE Book(s, q, x)'
  <2>1. CASE <<q, x>> = k
    BY <2>1
  <2>2. CASE <<q, x>> # k
    <3>1. Book(s, q, x)
      BY DEF MoneyInv, Books
    <3> QED BY <1>1, <2>2, <3>1 DEF Book
  <2> QED BY <2>1, <2>2
<1>3. Books(s)'
  BY <1>2 DEF Books
<1>4. ASSUME NEW q \in 1..MaxRound, NEW x \in Users
      PROVE  (Seen(q, x)' <=> Seen(q, x)) /\ (Seen(q, x) => row'[<<q, x>>] = row[<<q, x>>])
  <2>1. CASE <<q, x>> = k
    BY <2>1
  <2>2. CASE <<q, x>> # k
    BY <1>1, <2>2
  <2> QED BY <2>1, <2>2
<1>5. Asked'
  BY DEF MoneyInv, Asked
<1>6. ASSUME NEW w \in writes' PROVE WriteOK(w)'
  <2>1. WriteOK(w) /\ w.r \in 1..MaxRound /\ (w.kind = "cash" => w.u \in Users)
    BY DEF MoneyInv, RowsInv, Tables, Write
  <2>2. w.kind = "cash" => Seen(w.r, w.u)
    BY <2>1 DEF WriteOK
  <2> QED BY <1>4, <2>1, <2>2 DEF WriteOK
<1>7. ASSUME NEW m \in s.nodes
      PROVE  /\ Homes(s, m, eng[m])' /\ Running(eng[m])' /\ RamAhead(eng[m])' /\ Claims(eng[m])'
             /\ Unqueued(s, eng[m])'
  <2>0. PICK e : e = eng[m]
    OBVIOUS
  <2>1. /\ Homes(s, m, e) /\ Running(e) /\ RamAhead(e) /\ Claims(e) /\ Unqueued(s, e)
        /\ e \in Engine(s) /\ LoopOK(e) /\ RidersOK(e) /\ eng'[m] = e
    BY <2>0 DEF MoneyInv, RowsInv
  <2>2. e.cur # 0 => e.cur \in 1..MaxRound
    BY <2>1, CrashAssumption DEF Engine
  <2>3. Homes(s, m, eng[m])'
    BY <2>0, <2>1 DEF Homes
  <2>4. Running(eng[m])' /\ Unqueued(s, eng[m])'
    BY <2>1 DEF Running, Unqueued, Apart
  <2>5. RamAhead(eng[m])'
    <3>1. ASSUME e.cur # 0, round[e.cur] \in Alive, NEW x \in Users
          PROVE  /\ <<e.cur, x>> \in DOMAIN row' => x \in Riders(e) \/ Late(x, e.cur)'
                 /\ x \in Riders(e) => row'[<<e.cur, x>>].pay <= e.bets[x].pay
      <4>1. /\ Seen(e.cur, x)' <=> Seen(e.cur, x)
            /\ Seen(e.cur, x) => row'[<<e.cur, x>>] = row[<<e.cur, x>>]
        BY <1>4, <2>2, <3>1
      <4>2. Seen(e.cur, x) => x \in Riders(e)
        BY <2>1, <3>1 DEF RamAhead
      <4>3. x \in Riders(e) => Seen(e.cur, x)
        BY <2>1 DEF RidersOK
      <4>4. x \in Riders(e) => row[<<e.cur, x>>].pay <= e.bets[x].pay
        BY <2>1, <3>1 DEF RamAhead
      <4> QED BY <4>1, <4>2, <4>3, <4>4
    <3> QED BY <2>1, <3>1 DEF RamAhead, Riders, Late
  <2>6. e.loop \in {"read", "claim"} => e.todo \subseteq 1..MaxRound /\ First(e.todo) \in 1..MaxRound
    BY <2>1, FirstIs DEF LoopOK, Engine
  <2>7. ASSUME NEW q \in 1..MaxRound, SnapOK(e, q) PROVE SnapOK(e, q)'
    <3>1. \A x \in Users : round[q] \in Alive =>
            (x \in DOMAIN e.snap <=> Seen(q, x)) /\ (x \in DOMAIN e.snap => e.snap[x] = row[<<q, x>>])
      BY <2>7 DEF SnapOK
    <3>2. \A x \in Users : round[q] \in Alive =>
            (x \in DOMAIN e.snap <=> Seen(q, x)') /\ (x \in DOMAIN e.snap => e.snap[x] = row'[<<q, x>>])
      BY <1>4, <3>1
    <3> QED BY <2>7, <3>2 DEF SnapOK, Late
  <2>8. Claims(e)'
    BY <2>1, <2>6, <2>7 DEF Claims
  <2> QED BY <2>0, <2>3, <2>4, <2>5, <2>8
<1>8. ~s.queueing => \A x \in Users : queued'[x].at # "answer"
  BY DEF MoneyInv
<1> QED BY <1>3, <1>5, <1>6, <1>7, <1>8 DEF MoneyInv

(* Asking for a bet in the round a replica is in.                          *)
LEMMA MoneyAsk ==
  ASSUME NEW s, RowsInv(s), MoneyInv(s), NEW u \in Users, NEW n \in s.nodes, Game(s)!Ask(u, n)
  PROVE  MoneyInv(s)'
<1>1. PICK q : q = [at |-> "tx", node |-> n, r |-> eng[n].cur]
  OBVIOUS
<1>2. PICK r, k : r = eng[n].cur /\ k = <<r, u>>
  OBVIOUS
<1>3. /\ bet' = [bet EXCEPT ![u] = q] /\ r # 0 /\ bet[u].at = "idle"
      /\ UNCHANGED <<round, row, eng, writes, queued, due, known>>
  BY <1>1, <1>2 DEF Game!Ask
<1>4. q.at = "tx" /\ q.node = n /\ q.r = r
  BY <1>1, <1>2
<1>5. bet'[u] = q /\ \A x \in Users : x # u => bet'[x] = bet[x]
  BY <1>3 DEF RowsInv
<1>6. r \in 1..MaxRound
  BY <1>2, <1>3, CrashAssumption DEF RowsInv, Engine
<1>7. Homes(s, n, eng[n])
  BY DEF MoneyInv
<1>8. round[r] # "none" /\ \A m \in s.nodes : eng[m].cur = r => n = m
  BY <1>2, <1>3, <1>7 DEF Homes
<1>9. Books(s) /\ Book(s, r, u)
  BY <1>6 DEF MoneyInv, Books
<1>10. Book(s, r, u)' /\ ~Late(u, r) /\ ~Late(u, r)'
  BY <1>3, <1>4, <1>5, <1>9 DEF Book, Late
<1>11. DOMAIN due' = (1..MaxRound) \X Users /\ DOMAIN known' = (1..MaxRound) \X Users
  BY <1>3, <1>9 DEF Books
<1>12. bet'[u].at # "idle" => /\ bet'[u].r = r /\ round[r] # "none"
                              /\ \A m \in s.nodes : eng[m].cur = r => bet'[u].node = m
  BY <1>4, <1>5, <1>8
<1> QED BY <1>2, <1>3, <1>5, <1>6, <1>10, <1>11, <1>12, MoneyRequest

(* What a request asked of stays the round it asked of.                    *)
LEMMA StillAsked ==
  ASSUME NEW s, RowsInv(s), MoneyInv(s), NEW u \in Users, bet[u].at # "idle"
  PROVE  /\ bet[u].r \in 1..MaxRound /\ round[bet[u].r] # "none"
         /\ Books(s) /\ Book(s, bet[u].r, u)
         /\ DOMAIN due = (1..MaxRound) \X Users /\ DOMAIN known = (1..MaxRound) \X Users
         /\ \A m \in s.nodes : eng[m].cur = bet[u].r => bet[u].node = m
<1>1. bet[u].r \in 1..MaxRound /\ round[bet[u].r] # "none"
  BY AskedRounds DEF MoneyInv, Asked
<1>2. Books(s) /\ Book(s, bet[u].r, u)
  BY <1>1 DEF MoneyInv, Books
<1>3. \A m \in s.nodes : eng[m].cur = bet[u].r => bet[u].node = m
  BY <1>1, CrashAssumption DEF MoneyInv, Homes
<1> QED BY <1>1, <1>2, <1>3 DEF Books

(* The engine refused, or the refund is made: the row is still not seen.   *)
LEMMA MoneyRefund ==
  ASSUME NEW s, Setting(s), RowsInv(s), MoneyInv(s), NEW u \in Users, Game(s)!Refund(u)
  PROVE  MoneyInv(s)'
<1>1. PICK q : q = [bet[u] EXCEPT !.at = "delete"]
  OBVIOUS
<1>2. PICK r, k : r = bet[u].r /\ k = <<r, u>>
  OBVIOUS
<1>3. /\ bet' = [bet EXCEPT ![u] = q] /\ bet[u].at = "refund" /\ due' = [due EXCEPT ![k] = @ - s.stake]
      /\ UNCHANGED <<round, row, eng, writes, queued, known>>
  BY <1>1, <1>2 DEF Game!Refund
<1>4. q.at = "delete" /\ q.node = bet[u].node /\ q.r = r
  BY <1>1, <1>2 DEF RowsInv, Request
<1>5. bet'[u] = q /\ \A x \in Users : x # u => bet'[x] = bet[x]
  BY <1>3 DEF RowsInv
<1>6. /\ r \in 1..MaxRound /\ round[r] # "none" /\ Book(s, r, u)
      /\ DOMAIN due = (1..MaxRound) \X Users /\ DOMAIN known = (1..MaxRound) \X Users
      /\ \A m \in s.nodes : eng[m].cur = r => bet[u].node = m
  BY <1>2, <1>3, StillAsked
<1>7. due[k] = s.stake /\ Late(u, r) /\ Late(u, r)'
  BY <1>2, <1>3, <1>4, <1>5, <1>6 DEF Book, Late
<1>8. /\ due'[k] = 0 /\ DOMAIN due' = (1..MaxRound) \X Users
      /\ \A q1 \in 1..MaxRound, x \in Users : <<q1, x>> # k => due'[<<q1, x>>] = due[<<q1, x>>]
  BY <1>2, <1>3, <1>6, <1>7 DEF Setting
<1>9. Book(s, r, u)'
  BY <1>2, <1>3, <1>4, <1>5, <1>6, <1>7, <1>8 DEF Book
<1>10. bet'[u].at # "idle" => /\ bet'[u].r = r /\ round[r] # "none"
                              /\ \A m \in s.nodes : eng[m].cur = r => bet'[u].node = m
  BY <1>4, <1>5, <1>6
<1>11. \A q1 \in 1..MaxRound, x \in Users : <<q1, x>> # k =>
           /\ due'[<<q1, x>>] = due[<<q1, x>>] /\ known'[<<q1, x>>] = known[<<q1, x>>]
           /\ <<q1, x>> \in DOMAIN row' <=> <<q1, x>> \in DOMAIN row
           /\ <<q1, x>> \in DOMAIN row => row'[<<q1, x>>] = row[<<q1, x>>]
  BY <1>3, <1>8
<1>12. /\ k \in DOMAIN row' /\ ~Late(u, r)' <=> k \in DOMAIN row /\ ~Late(u, r)
       /\ k \in DOMAIN row /\ ~Late(u, r) => row'[k] = row[k]
       /\ DOMAIN known' = (1..MaxRound) \X Users /\ (bet[u].at # "idle" => bet[u].r = r)
  BY <1>2, <1>3, <1>6, <1>7
<1>13. UNCHANGED <<round, eng, writes, queued>>
  BY <1>3
<1> QED BY <1>2, <1>5, <1>6, <1>8, <1>9, <1>10, <1>11, <1>12, <1>13, MoneyRequest

(* The row of a refunded bet goes, which nobody had seen.                  *)
LEMMA MoneyDelete ==
  ASSUME NEW s, RowsInv(s), MoneyInv(s), NEW u \in Users, Game(s)!DeleteRow(u)
  PROVE  MoneyInv(s)'
<1>1. PICK i : i = Game(s)!Idle
  OBVIOUS
<1>2. PICK r, k : r = bet[u].r /\ k = <<r, u>>
  OBVIOUS
<1>3. /\ bet' = [bet EXCEPT ![u] = i] /\ bet[u].at = "delete" /\ row' = [x \in DOMAIN row \ {k} |-> row[x]]
      /\ UNCHANGED <<round, eng, writes, queued, due, known>>
  BY <1>1, <1>2 DEF Game!DeleteRow, Game!Drop
<1>4. i.at = "idle"
  BY <1>1, IdleIs
<1>5. bet'[u] = i /\ \A x \in Users : x # u => bet'[x] = bet[x]
  BY <1>3 DEF RowsInv
<1>6. /\ r \in 1..MaxRound /\ round[r] # "none" /\ Book(s, r, u)
      /\ DOMAIN due = (1..MaxRound) \X Users /\ DOMAIN known = (1..MaxRound) \X Users
  BY <1>2, <1>3, StillAsked
<1>7. due[k] = 0 /\ Late(u, r) /\ ~Late(u, r)'
  BY <1>2, <1>3, <1>4, <1>5, <1>6 DEF Book, Late
<1>8. /\ k \notin DOMAIN row'
      /\ \A x : x # k => (x \in DOMAIN row' <=> x \in DOMAIN row) /\ (x \in DOMAIN row => row'[x] = row[x])
  BY <1>3
<1>9. Book(s, r, u)'
  BY <1>2, <1>3, <1>4, <1>5, <1>6, <1>7, <1>8 DEF Book
<1>11. \A q1 \in 1..MaxRound, x \in Users : <<q1, x>> # k =>
           /\ due'[<<q1, x>>] = due[<<q1, x>>] /\ known'[<<q1, x>>] = known[<<q1, x>>]
           /\ <<q1, x>> \in DOMAIN row' <=> <<q1, x>> \in DOMAIN row
           /\ <<q1, x>> \in DOMAIN row => row'[<<q1, x>>] = row[<<q1, x>>]
  BY <1>3, <1>8
<1>12. /\ k \in DOMAIN row' /\ ~Late(u, r)' <=> k \in DOMAIN row /\ ~Late(u, r)
       /\ k \in DOMAIN row /\ ~Late(u, r) => row'[k] = row[k]
       /\ DOMAIN due' = (1..MaxRound) \X Users /\ DOMAIN known' = (1..MaxRound) \X Users
       /\ bet[u].at # "idle" => bet[u].r = r
       /\ bet'[u].at = "idle"
  BY <1>2, <1>3, <1>4, <1>5, <1>6, <1>7, <1>8
<1>13. UNCHANGED <<round, eng, writes, queued>>
  BY <1>3
<1> QED BY <1>2, <1>5, <1>6, <1>9, <1>11, <1>12, <1>13, MoneyRequest

(* A debited bet is owed its stake; its row is new, and not yet seen.      *)
LEMMA MoneyDebit ==
  ASSUME NEW s, Setting(s), RowsInv(s), MoneyInv(s), NEW u \in Users, Game(s)!Debit(u)
  PROVE  MoneyInv(s)'
<1>1. PICK r, k, v, i : r = bet[u].r /\ k = <<r, u>> /\ v = Game(s)!FullStake /\ i = Game(s)!Idle
  OBVIOUS
<1>2. /\ bet[u].at = "tx"
      /\ UNCHANGED <<round, eng, writes, queued>>
      /\ \/ /\ bet' = [bet EXCEPT ![u] = i]
            /\ UNCHANGED <<row, due, known>>
         \/ /\ k \notin DOMAIN row
            /\ bet' = [bet EXCEPT ![u].at = "answer"]
            /\ row' = [x \in DOMAIN row \cup {k} |-> IF x = k THEN v ELSE row[x]]
            /\ due' = [due EXCEPT ![k] = @ + s.stake]
            /\ known' = [known EXCEPT ![k] = s.stake]
  BY <1>1, DebitSteps
<1>3. /\ r \in 1..MaxRound /\ round[r] # "none" /\ Book(s, r, u)
      /\ DOMAIN due = (1..MaxRound) \X Users /\ DOMAIN known = (1..MaxRound) \X Users
      /\ \A m \in s.nodes : eng[m].cur = r => bet[u].node = m
  BY <1>1, <1>2, StillAsked
<1>4. ~Late(u, r) /\ (bet[u].at # "idle" => bet[u].r = r) /\ UNCHANGED <<round, eng, writes, queued>>
  BY <1>1, <1>2 DEF Late
<1>5. CASE bet' = [bet EXCEPT ![u] = i] /\ UNCHANGED <<row, due, known>>
  <2>1. i.at = "idle"
    BY <1>1, IdleIs
  <2>2. bet'[u] = i /\ \A x \in Users : x # u => bet'[x] = bet[x]
    BY <1>5 DEF RowsInv
  <2>3. ~Late(u, r)' /\ bet'[u].at = "idle"
    BY <2>1, <2>2 DEF Late
  <2>4. Book(s, r, u)'
    BY <1>2, <1>3, <1>4, <1>5, <2>1, <2>2, <2>3 DEF Book
  <2>5. /\ DOMAIN due' = (1..MaxRound) \X Users /\ DOMAIN known' = (1..MaxRound) \X Users
        /\ k \in DOMAIN row' /\ ~Late(u, r)' <=> k \in DOMAIN row /\ ~Late(u, r)
        /\ row' = row /\ due' = due /\ known' = known
    BY <1>3, <1>4, <1>5, <2>3
  <2> QED BY <1>1, <1>3, <1>4, <2>2, <2>3, <2>4, <2>5, MoneyRequest
<1>6. CASE /\ k \notin DOMAIN row
           /\ bet' = [bet EXCEPT ![u].at = "answer"]
           /\ row' = [x \in DOMAIN row \cup {k} |-> IF x = k THEN v ELSE row[x]]
           /\ due' = [due EXCEPT ![k] = @ + s.stake]
           /\ known' = [known EXCEPT ![k] = s.stake]
  <2>0. PICK q : q = [bet[u] EXCEPT !.at = "answer"]
    OBVIOUS
  <2>1. q.at = "answer" /\ q.node = bet[u].node /\ q.r = r
    BY <1>1, <2>0 DEF RowsInv, Request
  <2>2. bet'[u] = q /\ \A x \in Users : x # u => bet'[x] = bet[x]
    BY <1>6, <2>0 DEF RowsInv
  <2>3. Late(u, r)'
    BY <2>1, <2>2 DEF Late
  <2>4. /\ row'[k] = v /\ k \in DOMAIN row'
        /\ \A x : x # k => (x \in DOMAIN row' <=> x \in DOMAIN row) /\ (x \in DOMAIN row => row'[x] = row[x])
    BY <1>6
  <2>5. due[k] = 0
    BY <1>1, <1>2, <1>3, <1>6 DEF Book
  <2>6. /\ due'[k] = s.stake /\ known'[k] = s.stake
        /\ DOMAIN due' = (1..MaxRound) \X Users /\ DOMAIN known' = (1..MaxRound) \X Users
        /\ \A x \in (1..MaxRound) \X Users : x # k => due'[x] = due[x] /\ known'[x] = known[x]
    BY <1>1, <1>3, <1>6, <2>5 DEF Setting
  <2>7. v \in Ride(s) /\ v.pay = 0 /\ Value(v) = s.stake
    BY <1>1, FullStakeIs DEF Value, Setting
  <2>8. Book(s, r, u)'
    BY <1>1, <1>2, <1>3, <2>1, <2>2, <2>3, <2>4, <2>6, <2>7 DEF Book
  <2>9. bet'[u].at # "idle" => /\ bet'[u].r = r /\ round[r] # "none"
                               /\ \A m \in s.nodes : eng[m].cur = r => bet'[u].node = m
    BY <1>3, <2>1, <2>2
  <2>10. \A q1 \in 1..MaxRound, x \in Users : <<q1, x>> # k =>
           /\ due'[<<q1, x>>] = due[<<q1, x>>] /\ known'[<<q1, x>>] = known[<<q1, x>>]
           /\ <<q1, x>> \in DOMAIN row' <=> <<q1, x>> \in DOMAIN row
           /\ <<q1, x>> \in DOMAIN row => row'[<<q1, x>>] = row[<<q1, x>>]
    BY <2>4, <2>6
  <2>11. /\ k \in DOMAIN row' /\ ~Late(u, r)' <=> k \in DOMAIN row /\ ~Late(u, r)
         /\ k \in DOMAIN row /\ ~Late(u, r) => row'[k] = row[k]
         /\ DOMAIN due' = (1..MaxRound) \X Users /\ DOMAIN known' = (1..MaxRound) \X Users
    BY <1>6, <2>3, <2>6
  <2> QED BY <1>1, <1>3, <1>4, <2>2, <2>8, <2>9, <2>10, <2>11, MoneyRequest
<1> QED BY <1>2, <1>5, <1>6

(* A round nobody is about to settle for its recovery.                     *)
LEMMA NotAbandoned ==
  ASSUME NEW s, RowsInv(s), NEW r \in 1..MaxRound, round[r] # "none", ~Game(s)!Abandoned(r)
  PROVE  /\ round[r] \in Alive
         /\ \A m \in s.nodes : eng[m].loop = "claim" => First(eng[m].todo) # r
<1>1. round[r] # "busted" /\ ~Game(s)!BeingClaimed(r)
  BY DEF Game!Abandoned
<1>2. round[r] \in {"none", "waiting", "running", "busted"}
  BY DEF RowsInv, Tables
<1> QED BY <1>1, <1>2, MinIs DEF Game!BeingClaimed, Alive

(* The engine takes a bet: from now on its row is what it is owed.         *)
LEMMA MoneyAnswer ==
  ASSUME NEW s, Setting(s), Closed, RowsInv(s), MoneyInv(s), NEW u \in Users, Game(s)!Answer(u)
  PROVE  MoneyInv(s)'
<1>1. PICK n, v, i, r, k : /\ n = bet[u].node /\ v = Game(s)!FullStake /\ i = Game(s)!Idle
                           /\ r = bet[u].r /\ k = <<r, u>>
  OBVIOUS
<1>2. /\ bet[u].at = "answer" /\ n \in s.nodes /\ r \in 1..MaxRound
      /\ UNCHANGED <<round, row, writes, queued, due, known>>
  BY <1>1, AnswerSteps
<1>3. \/ bet' = [bet EXCEPT ![u].at = "refund"] /\ eng' = eng
      \/ /\ bet' = [bet EXCEPT ![u] = i]
         /\ eng[n].cur = r /\ eng[n].phase = "waiting" /\ u \notin DOMAIN eng[n].bets
         /\ ~Game(s)!Abandoned(r)
         /\ eng[n].loop # "bind" \/ u \notin eng[n].queue \ eng[n].seen
         /\ \E f \in Engine(s) : eng' = [eng EXCEPT ![n] = f] /\ Seats(eng[n], f, u, v)
  BY <1>1, AnswerSteps, NothingHit
<1>4. /\ r \in 1..MaxRound /\ round[r] # "none" /\ Books(s) /\ Book(s, r, u)
      /\ DOMAIN due = (1..MaxRound) \X Users /\ DOMAIN known = (1..MaxRound) \X Users
      /\ \A m \in s.nodes : eng[m].cur = r => bet[u].node = m
  BY <1>1, <1>2, StillAsked
<1>5. CASE bet' = [bet EXCEPT ![u].at = "refund"] /\ eng' = eng
  <2>0. PICK q : q = [bet[u] EXCEPT !.at = "refund"]
    OBVIOUS
  <2>1. q.at = "refund" /\ q.node = bet[u].node /\ q.r = r
    BY <1>1, <2>0 DEF RowsInv, Request
  <2>2. bet'[u] = q /\ \A x \in Users : x # u => bet'[x] = bet[x]
    BY <1>5, <2>0 DEF RowsInv
  <2>3. Late(u, r)' /\ Late(u, r)
    BY <1>1, <1>2, <2>1, <2>2 DEF Late
  <2>4. Book(s, r, u)'
    BY <1>1, <1>2, <1>4, <2>1, <2>2, <2>3 DEF Book
  <2>5. /\ DOMAIN due' = (1..MaxRound) \X Users /\ DOMAIN known' = (1..MaxRound) \X Users
        /\ k \in DOMAIN row' /\ ~Late(u, r)' <=> k \in DOMAIN row /\ ~Late(u, r)
        /\ row' = row /\ due' = due /\ known' = known /\ UNCHANGED <<round, eng, writes, queued>>
        /\ bet[u].at # "idle" => bet[u].r = r
    BY <1>1, <1>2, <1>4, <1>5, <2>3
  <2>6. bet'[u].at # "idle" => /\ bet'[u].r = r /\ round[r] # "none"
                               /\ \A m \in s.nodes : eng[m].cur = r => bet'[u].node = m
    BY <1>4, <2>1, <2>2
  <2> QED BY <1>1, <1>2, <2>2, <2>4, <2>5, <2>6, MoneyRequest
<1>6. CASE /\ bet' = [bet EXCEPT ![u] = i]
           /\ eng[n].cur = r /\ eng[n].phase = "waiting" /\ u \notin DOMAIN eng[n].bets
           /\ ~Game(s)!Abandoned(r)
           /\ eng[n].loop # "bind" \/ u \notin eng[n].queue \ eng[n].seen
           /\ \E f \in Engine(s) : eng' = [eng EXCEPT ![n] = f] /\ Seats(eng[n], f, u, v)
  <2>0. PICK e : e = eng[n]
    OBVIOUS
  <2>1. PICK f \in Engine(s) : eng' = [eng EXCEPT ![n] = f] /\ Seats(e, f, u, v)
    BY <1>6, <2>0
  <2>2. /\ f.bets = [x \in DOMAIN e.bets \cup {u} |-> IF x = u THEN v ELSE e.bets[x]]
        /\ f.loop = e.loop /\ f.cur = e.cur /\ f.phase = e.phase
        /\ f.settling = e.settling /\ f.tosettle = e.tosettle
        /\ f.queue = e.queue /\ f.seen = e.seen /\ f.binding = e.binding
        /\ f.todo = e.todo /\ f.snap = e.snap
    BY <2>1 DEF Seats
  <2>3. /\ e \in Engine(s) /\ LoopOK(e) /\ RidersOK(e) /\ Homes(s, n, e) /\ Running(e) /\ RamAhead(e)
        /\ Claims(e) /\ Unqueued(s, e)
    BY <1>2, <2>0 DEF RowsInv, MoneyInv
  <2>4. /\ e.cur = r /\ e.phase = "waiting" /\ u \notin DOMAIN e.bets /\ ~e.settling /\ r # 0
        /\ e.loop # "bind" \/ u \notin e.queue \ e.seen
    BY <1>2, <1>6, <2>0, <2>3, CrashAssumption DEF Running
  <2>5. /\ eng' \in [s.nodes -> Engine(s)] /\ eng'[n] = f
        /\ \A m \in s.nodes : m # n => eng'[m] = eng[m]
    BY <1>2, <2>1 DEF RowsInv
  <2>6. round[r] \in Alive /\ \A m \in s.nodes : eng[m].loop = "claim" => First(eng[m].todo) # r
    BY <1>4, <1>6, NotAbandoned
  <2>7. i.at = "idle" /\ bet'[u] = i /\ \A x \in Users : x # u => bet'[x] = bet[x]
    BY <1>1, <1>6, IdleIs DEF RowsInv
  <2>8. /\ Late(u, r) /\ ~Late(u, r)' /\ k \in DOMAIN row
        /\ \A q \in 1..MaxRound, x \in Users : <<q, x>> # k => (Late(x, q)' <=> Late(x, q))
    BY <1>1, <1>2, <2>7 DEF Late, RowsInv, RequestOK
  <2>9. row[k] \in Ride(s) /\ row[k].pay = 0 /\ v.pay = 0
    BY <1>1, <1>4, <2>6, <2>8, FullStakeIs DEF Book
  <2>10. Value(row[k]) = s.stake
    BY <2>9 DEF Value, Ride, Setting
  <2>11. Books(s)'
    <3>1. ASSUME NEW q \in 1..MaxRound, NEW x \in Users PROVE Book(s, q, x)'
      <4>1. CASE <<q, x>> = k
        <5>1. q = r /\ x = u
          BY <1>1, <4>1
        <5>2. due[k] = s.stake /\ known[k] = s.stake
          BY <1>1, <1>2, <1>4, <2>6, <2>8, <2>10 DEF Book
        <5> QED BY <1>1, <1>2, <1>4, <2>6, <2>7, <2>8, <2>9, <2>10, <5>1, <5>2 DEF Book
      <4>2. CASE <<q, x>> # k
        <5>1. Book(s, q, x)
          BY <1>4 DEF Books
        <5>2. bet'[x].r = q /\ bet'[x].at \in {"answer", "refund"} <=> bet[x].r = q /\ bet[x].at \in {"answer", "refund"}
          BY <1>1, <2>7, <4>2
        <5> QED BY <1>2, <2>8, <4>2, <5>1, <5>2 DEF Book
      <4> QED BY <4>1, <4>2
    <3> QED BY <1>2, <1>4, <3>1 DEF Books
  <2>12. Asked'
    BY <1>2, <2>7 DEF MoneyInv, Asked
  <2>13. ASSUME NEW w \in writes' PROVE WriteOK(w)'
    <3>1. WriteOK(w) /\ w.r \in 1..MaxRound /\ (w.kind = "cash" => w.u \in Users) /\ w \in writes
      BY <1>2 DEF MoneyInv, RowsInv, Tables, Write
    <3>2. w.kind = "cash" => <<w.r, w.u>> # k
      BY <1>1, <2>8, <3>1 DEF WriteOK
    <3> QED BY <1>2, <2>8, <3>1, <3>2 DEF WriteOK
  <2>14. ASSUME NEW m \in s.nodes PROVE Homes(s, m, eng[m])'
    <3>1. Homes(s, m, eng[m]) /\ eng'[m].cur = eng[m].cur /\ \A o \in s.nodes : eng'[o].cur = eng[o].cur
      BY <2>0, <2>2, <2>5 DEF MoneyInv
    <3> QED BY <1>2, <2>7, <3>1 DEF Homes
  <2>15. ASSUME NEW m \in s.nodes, m # n
         PROVE  Running(eng[m])' /\ RamAhead(eng[m])' /\ Unqueued(s, eng[m])'
    <3>1. /\ Running(eng[m]) /\ RamAhead(eng[m]) /\ Unqueued(s, eng[m])
          /\ eng[m] \in Engine(s) /\ eng'[m] = eng[m]
      BY <2>5, <2>15 DEF MoneyInv, RowsInv
    <3>2. eng[m].cur # r /\ (eng[m].cur # 0 => eng[m].cur \in 1..MaxRound)
      BY <1>1, <1>4, <2>15, <3>1, CrashAssumption DEF Engine
    <3>3. \A x \in Users : eng[m].cur # 0 => (Late(x, eng[m].cur)' <=> Late(x, eng[m].cur))
      BY <1>1, <1>2, <2>7, <2>8, <3>1, <3>2 DEF Late
    <3>4. RamAhead(eng[m])'
      BY <1>2, <3>1, <3>3 DEF RamAhead, Riders, Late
    <3> QED BY <1>2, <3>1, <3>4 DEF Running, Unqueued, Apart
  <2>16. Running(eng[n])' /\ Unqueued(s, eng[n])'
    <3>1. e.loop = "bind" => /\ f.bets[f.binding] = e.bets[e.binding] /\ Apart(f)
      BY <2>2, <2>3, <2>4 DEF LoopOK, Running, Apart
    <3> QED BY <1>2, <2>2, <2>3, <2>4, <2>5, <3>1 DEF Running, Unqueued, Apart
  <2>17. RamAhead(eng[n])'
    <3>1. /\ Riders(f) = Riders(e) \cup {u} /\ u \notin Riders(e) /\ f.bets[u] = v
          /\ \A x \in Riders(e) : f.bets[x] = e.bets[x]
      <4>1. u # e.binding
        BY <2>3, <2>4, CrashAssumption DEF LoopOK
      <4> QED BY <2>2, <2>4, <4>1 DEF Riders
    <3>2. ASSUME NEW x \in Users, <<r, x>> \in DOMAIN row PROVE x \in Riders(f) \/ Late(x, r)'
      <4>1. x \in Riders(e) \/ Late(x, r)
        BY <2>3, <2>4, <2>6, <3>2 DEF RamAhead
      <4> QED BY <1>1, <1>2, <2>8, <3>1, <4>1
    <3>3. ASSUME NEW x \in Users, x \in Riders(f)
          PROVE  /\ row[<<r, x>>].pay <= f.bets[x].pay
                 /\ \A w \in writes : w.kind = "cash" /\ w.r = r /\ w.u = x => w.pay <= f.bets[x].pay
      <4>1. CASE x = u
        <5>1. \A w \in writes : ~(w.kind = "cash" /\ w.r = r /\ w.u = u)
          BY <2>8 DEF MoneyInv, WriteOK
        <5> QED BY <1>1, <2>9, <3>1, <4>1, <5>1
      <4>2. CASE x # u
        BY <2>3, <2>4, <2>6, <3>1, <3>3, <4>2 DEF RamAhead
      <4> QED BY <4>1, <4>2
    <3>4. f.cur = r
      BY <2>2, <2>4
    <3> QED BY <1>2, <2>5, <3>2, <3>3, <3>4 DEF RamAhead, Riders, Late
  <2>18. ASSUME NEW m \in s.nodes PROVE Claims(eng[m])'
    <3>0. PICK g : g = eng[m]
      OBVIOUS
    <3>1. g \in Engine(s) /\ LoopOK(g) /\ Claims(g) /\ (g.loop = "claim" => First(g.todo) # r)
      BY <2>6, <3>0 DEF RowsInv, MoneyInv
    <3>2. eng'[m].loop = g.loop /\ eng'[m].todo = g.todo /\ eng'[m].snap = g.snap
      BY <2>0, <2>2, <2>5, <3>0
    <3>3. g.loop \in {"read", "claim"} => g.todo \subseteq 1..MaxRound /\ First(g.todo) \in 1..MaxRound
      BY <3>1, FirstIs DEF LoopOK, Engine
    <3>4. ASSUME NEW q \in 1..MaxRound, q # r, SnapOK(g, q) PROVE SnapOK(g, q)'
      <4>1. \A x \in Users : Late(x, q)' <=> Late(x, q)
        BY <1>1, <2>8, <3>4
      <4> QED BY <1>2, <3>4, <4>1 DEF SnapOK
    <3>5. Claims(g)'
      BY <1>2, <3>1, <3>3, <3>4 DEF Claims
    <3> QED BY <3>2, <3>5 DEF Claims, SnapOK, Late
  <2>19. ~s.queueing => \A x \in Users : queued'[x].at # "answer"
    BY <1>2 DEF MoneyInv
  <2> QED BY <2>11, <2>12, <2>13, <2>14, <2>15, <2>16, <2>17, <2>18, <2>19 DEF MoneyInv
<1> QED BY <1>3, <1>5, <1>6

(* A cash-out in a round that is alive: memory moves ahead of the row, and *)
(* the update that follows raises it.                                      *)
LEMMA MoneyCashOut ==
  ASSUME NEW s, Setting(s), Closed, RowsInv(s), MoneyInv(s), NEW u \in Users, NEW n \in s.nodes,
         Game(s)!CashOut(u, n)
  PROVE  MoneyInv(s)'
<1>0. PICK e, r : e = eng[n] /\ r = e.cur
  OBVIOUS
<1>1. /\ e.phase = "running" /\ u \in DOMAIN e.bets /\ ~Game(s)!Abandoned(r)
      /\ UNCHANGED <<round, row, bet, queued, due, known>>
  BY <1>0, CashOutSteps, NothingHit
<1>2. PICK f \in Engine(s), c \in Ride(s), w \in Write(s) :
              /\ eng' = [eng EXCEPT ![n] = f] /\ writes' = writes \cup {w}
              /\ Sent(w, n, eng[n].cur, u, c.pay)
              /\ c.pay >= eng[n].bets[u].pay
              /\ Seats(eng[n], f, u, c)
  BY CashOutSteps
<1>3. /\ e \in Engine(s) /\ LoopOK(e) /\ RidersOK(e) /\ Homes(s, n, e) /\ Running(e) /\ RamAhead(e)
      /\ Claims(e) /\ Unqueued(s, e)
  BY <1>0 DEF RowsInv, MoneyInv
<1>4. r \in 1..MaxRound /\ r # 0 /\ round[r] # "none"
  <2>1. r \in 0..MaxRound /\ r # 0
    BY <1>0, <1>1, <1>3 DEF Engine, LoopOK
  <2> QED BY <1>0, <1>3, <2>1, CrashAssumption DEF Homes
<1>5. round[r] \in Alive /\ \A m \in s.nodes : eng[m].loop = "claim" => First(eng[m].todo) # r
  BY <1>1, <1>4, NotAbandoned
<1>6. e.loop # "bind" /\ ~e.settling /\ u \in Riders(e)
  BY <1>0, <1>1, <1>3, RidersAre DEF Running
<1>7. <<r, u>> \in DOMAIN row /\ ~Late(u, r)
  BY <1>0, <1>3, <1>6 DEF RidersOK
<1>8. /\ f.bets = [x \in DOMAIN e.bets \cup {u} |-> IF x = u THEN c ELSE e.bets[x]]
      /\ f.loop = e.loop /\ f.cur = e.cur /\ f.phase = e.phase
      /\ f.settling = e.settling /\ f.tosettle = e.tosettle
      /\ f.queue = e.queue /\ f.seen = e.seen /\ f.binding = e.binding
      /\ f.todo = e.todo /\ f.snap = e.snap
  BY <1>0, <1>2 DEF Seats
<1>9. /\ w.kind = "cash" /\ w.node = n /\ w.r = r /\ w.u = u /\ w.pay = c.pay
      /\ c.pay >= e.bets[u].pay
  BY <1>0, <1>2 DEF Sent
<1>10. /\ eng' \in [s.nodes -> Engine(s)] /\ eng'[n] = f
       /\ \A m \in s.nodes : m # n => eng'[m] = eng[m]
  BY <1>2 DEF RowsInv
<1>11. Books(s)' /\ Asked'
  BY <1>1 DEF MoneyInv, Books, Book, Asked, Late
<1>12. /\ row[<<r, u>>].pay <= e.bets[u].pay
       /\ \A x \in writes : x.kind = "cash" /\ x.r = r /\ x.u = u => x.pay <= e.bets[u].pay
  BY <1>0, <1>3, <1>4, <1>5, <1>6 DEF RamAhead
<1>13. e.bets[u].pay \in Nat /\ c.pay \in Nat /\ row[<<r, u>>].pay \in Nat /\ \A x \in writes : x.pay \in Nat
  <2>1. e.bets[u] \in Ride(s)
    BY <1>1, <1>3, BetsFacts DEF Engine
  <2>2. row[<<r, u>>] \in Position(s)
    BY <1>7 DEF RowsInv, BetRows
  <2>3. \A x \in writes : x \in Write(s)
    BY DEF RowsInv, Tables
  <2> QED BY <2>1, <2>2, <2>3 DEF Ride, Position, Write, Setting
<1>14. row[<<r, u>>].pay <= c.pay /\ \A x \in writes : x.kind = "cash" /\ x.r = r /\ x.u = u => x.pay <= c.pay
  BY <1>9, <1>12, <1>13
<1>15. \A x \in writes' : WriteOK(x)'
  <2>1. WriteOK(w)'
    BY <1>1, <1>4, <1>7, <1>9, <1>13, <1>14 DEF WriteOK, Late
  <2>2. \A x \in writes : WriteOK(x)'
    BY <1>1 DEF MoneyInv, WriteOK, Late
  <2> QED BY <1>2, <2>1, <2>2
<1>16. ASSUME NEW m \in s.nodes PROVE Homes(s, m, eng[m])'
  <2>1. Homes(s, m, eng[m]) /\ eng'[m].cur = eng[m].cur /\ \A o \in s.nodes : eng'[o].cur = eng[o].cur
    BY <1>0, <1>8, <1>10 DEF MoneyInv
  <2>2. eng[m].cur = r => m = n
    BY <1>0, <1>3, <1>4 DEF Homes
  <2> QED BY <1>1, <1>2, <1>9, <2>1, <2>2 DEF Homes
<1>17. ASSUME NEW m \in s.nodes, m # n PROVE Running(eng[m])' /\ RamAhead(eng[m])' /\ Unqueued(s, eng[m])'
  <2>1. Running(eng[m]) /\ RamAhead(eng[m]) /\ Unqueued(s, eng[m]) /\ eng'[m] = eng[m]
    BY <1>10, <1>17 DEF MoneyInv
  <2>2. eng[m].cur # r
    BY <1>0, <1>3, <1>4, <1>17 DEF Homes
  <2>3. RamAhead(eng[m])'
    BY <1>1, <1>2, <1>9, <2>1, <2>2 DEF RamAhead, Riders, Late
  <2> QED BY <1>1, <1>2, <1>9, <2>1, <2>3 DEF Running, Unqueued, Apart
<1>18. Running(eng[n])' /\ Unqueued(s, eng[n])'
  BY <1>1, <1>2, <1>3, <1>6, <1>8, <1>9, <1>10 DEF Running, Unqueued
<1>19. RamAhead(eng[n])'
  <2>1. Riders(f) = Riders(e) /\ f.bets[u] = c /\ \A x \in Riders(e) : x # u => f.bets[x] = e.bets[x]
    BY <1>1, <1>8 DEF Riders
  <2>2. ASSUME NEW x \in Users, x \in Riders(f)
        PROVE  /\ row[<<r, x>>].pay <= f.bets[x].pay
               /\ \A y \in writes' : y.kind = "cash" /\ y.r = r /\ y.u = x => y.pay <= f.bets[x].pay
    <3>1. CASE x = u
      BY <1>2, <1>9, <1>13, <1>14, <2>1, <3>1
    <3>2. CASE x # u
      <4>1. /\ row[<<r, x>>].pay <= e.bets[x].pay
            /\ \A y \in writes : y.kind = "cash" /\ y.r = r /\ y.u = x => y.pay <= e.bets[x].pay
        BY <1>0, <1>3, <1>4, <1>5, <2>1, <2>2 DEF RamAhead
      <4> QED BY <1>2, <1>9, <2>1, <2>2, <3>2, <4>1
    <3> QED BY <3>1, <3>2
  <2>3. \A x \in Users : <<r, x>> \in DOMAIN row => x \in Riders(f) \/ Late(x, r)
    BY <1>0, <1>3, <1>4, <1>5, <2>1 DEF RamAhead
  <2>4. f.cur = r
    BY <1>0, <1>8
  <2> QED BY <1>1, <1>10, <2>2, <2>3, <2>4 DEF RamAhead, Riders, Late
<1>20. ASSUME NEW m \in s.nodes PROVE Claims(eng[m])'
  <2>0. PICK g : g = eng[m]
    OBVIOUS
  <2>1. Claims(g) /\ (g.loop = "claim" => First(g.todo) # r)
    BY <1>5, <2>0 DEF MoneyInv
  <2>2. eng'[m].loop = g.loop /\ eng'[m].todo = g.todo /\ eng'[m].snap = g.snap
    BY <1>0, <1>8, <1>10, <2>0
  <2>3. ASSUME NEW q, q # r, SnapOK(g, q) PROVE SnapOK(g, q)'
    BY <1>1, <1>2, <1>9, <2>3 DEF SnapOK, Late
  <2>4. Claims(g)'
    BY <1>1, <2>1, <2>3 DEF Claims
  <2> QED BY <2>2, <2>4 DEF Claims, SnapOK, Late
<1>21. ~s.queueing => \A x \in Users : queued'[x].at # "answer"
  BY <1>1 DEF MoneyInv
<1> QED BY <1>11, <1>15, <1>16, <1>17, <1>18, <1>19, <1>20, <1>21 DEF MoneyInv

(* An update that is gone, executed or not, no longer binds anyone.        *)
LEMMA MoneyCashFails ==
  ASSUME NEW s, RowsInv(s), MoneyInv(s), NEW w \in writes, Game(s)!CashFails(w)
  PROVE  MoneyInv(s)'
<1>1. writes' \subseteq writes /\ UNCHANGED <<round, row, eng, bet, queued, due, known>>
  BY DEF Game!CashFails
<1>2. Books(s)' /\ Asked'
  BY <1>1 DEF MoneyInv, Books, Book, Asked, Late
<1>3. \A x \in writes' : WriteOK(x)'
  BY <1>1 DEF MoneyInv, WriteOK, Late
<1>4. ASSUME NEW m \in s.nodes
      PROVE  Homes(s, m, eng[m])' /\ Running(eng[m])' /\ Unqueued(s, eng[m])'
  BY <1>1 DEF MoneyInv, Homes, Running, Unqueued, Apart
<1>5. ASSUME NEW m \in s.nodes PROVE RamAhead(eng[m])' /\ Claims(eng[m])'
  BY <1>1 DEF MoneyInv, RamAhead, Claims, SnapOK, Riders, Late
<1> QED BY <1>1, <1>2, <1>3, <1>4, <1>5 DEF MoneyInv

(* The update of a cash-out raises what the row is worth by as much as the *)
(* player is told, and no update overtakes another.                        *)
LEMMA MoneyCashWritten ==
  ASSUME NEW s, Setting(s), Closed, RowsInv(s), MoneyInv(s), NEW w \in writes, Game(s)!CashWritten(w)
  PROVE  MoneyInv(s)'
<1>0. PICK r, u, k, x, val : /\ r = w.r /\ u = w.u /\ k = <<r, u>> /\ x = [rem |-> w.rem, pay |-> w.pay]
                             /\ val = w.rem + w.pay
  OBVIOUS
<1>1. /\ w.kind = "cash" /\ writes' = writes \ {w}
      /\ \A v \in writes : ~(v.r = r /\ v.u = u /\ v.pay < w.pay)
      /\ UNCHANGED <<round, eng, bet, queued>>
  BY <1>0, NothingHit DEF Game!CashWritten
<1>2. w \in Write(s) /\ WriteOK(w)
  BY DEF RowsInv, Tables, MoneyInv
<1>3. r \in 1..MaxRound /\ u \in Users /\ w.rem \in 0..s.stake /\ w.pay = 2 * (s.stake - w.rem) /\ w.pay \in 0..(2 * s.stake)
  BY <1>0, <1>1, <1>2 DEF Write
<1>4. k \in DOMAIN row /\ ~Late(u, r) /\ round[r] # "none" /\ (round[r] \in Alive => w.pay >= row[k].pay)
  BY <1>0, <1>1, <1>2 DEF WriteOK
<1>5. /\ row' = [row EXCEPT ![k] = x]
      /\ IF round[r] \in Alive /\ val > known[k]
         THEN /\ known' = [known EXCEPT ![k] = val]
              /\ due' = [due EXCEPT ![k] = @ + (val - known[k])]
         ELSE UNCHANGED <<known, due>>
  BY <1>0, <1>4 DEF Game!CashWritten, Game!Stored, Game!Open, Alive
<1>6. x \in Ride(s) /\ x.rem = w.rem /\ x.pay = w.pay /\ Value(x) = val
  BY <1>0, <1>3 DEF Ride, Value
<1>7. /\ DOMAIN row' = DOMAIN row /\ row'[k] = x
      /\ \A y \in DOMAIN row : y # k => row'[y] = row[y]
  BY <1>4, <1>5
<1>8. Books(s) /\ Book(s, r, u) /\ DOMAIN due = (1..MaxRound) \X Users /\ DOMAIN known = (1..MaxRound) \X Users
  BY <1>3 DEF MoneyInv, Books
<1>9. /\ DOMAIN due' = (1..MaxRound) \X Users /\ DOMAIN known' = (1..MaxRound) \X Users
      /\ \A y \in (1..MaxRound) \X Users : y # k => due'[y] = due[y] /\ known'[y] = known[y]
  BY <1>5, <1>8
<1>10. Book(s, r, u)'
  <2>1. ~Late(u, r)' /\ ~(bet[u].r = r /\ bet[u].at \in {"answer", "refund"})
    BY <1>1, <1>4 DEF Late
  <2>2. CASE round[r] \notin Alive
    BY <1>0, <1>1, <1>4, <1>5, <1>7, <1>8, <2>1, <2>2 DEF Book
  <2>3. CASE round[r] \in Alive
    <3>1. row[k] \in Ride(s) /\ known[k] = Value(row[k]) /\ due[k] = Value(row[k]) /\ w.pay >= row[k].pay
      BY <1>0, <1>4, <1>8, <2>1, <2>3 DEF Book
    <3>2. val \in Nat /\ Value(row[k]) \in Nat /\ val >= Value(row[k])
      BY <1>0, <1>3, <3>1 DEF Ride, Value, Setting
    <3>3. due'[k] = val /\ known'[k] = val
      <4>1. CASE val > known[k]
        BY <1>0, <1>3, <1>5, <1>8, <2>3, <3>1, <3>2, <4>1
      <4>2. CASE ~(val > known[k])
        BY <1>5, <3>1, <3>2, <4>2
      <4> QED BY <4>1, <4>2
    <3> QED BY <1>0, <1>1, <1>4, <1>6, <1>7, <2>1, <2>3, <3>3 DEF Book
  <2> QED BY <2>2, <2>3
<1>11. Books(s)'
  <2>1. ASSUME NEW q \in 1..MaxRound, NEW y \in Users PROVE Book(s, q, y)'
    <3>1. CASE <<q, y>> = k
      BY <1>0, <1>10, <3>1
    <3>2. CASE <<q, y>> # k
      <4>1. Book(s, q, y)
        BY <1>8 DEF Books
      <4> QED BY <1>1, <1>7, <1>9, <3>2, <4>1 DEF Book, Late
    <3> QED BY <3>1, <3>2
  <2> QED BY <1>9, <2>1 DEF Books
<1>12. Asked'
  BY <1>1 DEF MoneyInv, Asked
<1>13. ASSUME NEW v \in writes' PROVE WriteOK(v)'
  <2>1. WriteOK(v) /\ v \in Write(s) /\ v \in writes
    BY <1>1 DEF MoneyInv, RowsInv, Tables
  <2>2. v.pay \in Nat /\ w.pay \in Nat
    BY <1>2, <2>1 DEF Write, Setting
  <2>3. CASE v.kind = "cash" /\ <<v.r, v.u>> = k
    <3>1. v.r = r /\ v.u = u
      BY <1>0, <2>3
    <3>2. v.pay >= row'[<<v.r, v.u>>].pay
      BY <1>1, <1>6, <1>7, <2>1, <2>2, <2>3, <3>1
    <3> QED BY <1>1, <1>7, <2>1, <2>3, <3>2 DEF WriteOK, Late
  <2>4. CASE ~(v.kind = "cash" /\ <<v.r, v.u>> = k)
    BY <1>1, <1>7, <2>1, <2>4 DEF WriteOK, Late
  <2> QED BY <2>3, <2>4
<1>14. ASSUME NEW m \in s.nodes PROVE Homes(s, m, eng[m])' /\ Running(eng[m])' /\ Unqueued(s, eng[m])'
  BY <1>1 DEF MoneyInv, Homes, Running, Unqueued, Apart
<1>15. ASSUME NEW m \in s.nodes PROVE RamAhead(eng[m])'
  <2>0. PICK e : e = eng[m]
    OBVIOUS
  <2>1. RamAhead(e) /\ RidersOK(e) /\ eng'[m] = e
    BY <1>1, <2>0 DEF MoneyInv, RowsInv
  <2>2. ASSUME e.cur # 0, round[e.cur] \in Alive, NEW y \in Users, y \in Riders(e)
        PROVE  row'[<<e.cur, y>>].pay <= e.bets[y].pay
    <3>1. CASE <<e.cur, y>> = k
      <4>1. e.cur = r /\ y = u
        BY <1>0, <3>1
      <4>2. w.pay <= e.bets[y].pay
        BY <1>0, <1>1, <2>1, <2>2, <4>1 DEF RamAhead
      <4> QED BY <1>6, <1>7, <3>1, <4>2
    <3>2. CASE <<e.cur, y>> # k
      BY <1>7, <2>1, <2>2, <3>2 DEF RamAhead, RidersOK
    <3> QED BY <3>1, <3>2
  <2> QED BY <1>1, <1>7, <2>1, <2>2 DEF RamAhead, Riders, Late
<1>16. ASSUME NEW m \in s.nodes PROVE Claims(eng[m])'
  <2>1. Claims(eng[m])
    BY DEF MoneyInv
  <2>2. ASSUME NEW q, SnapOK(eng[m], q) PROVE SnapOK(eng[m], q)'
    <3>1. CASE q = r
      BY <1>0, <1>1, <2>2, <3>1 DEF SnapOK
    <3>2. CASE q # r
      <4>1. \A y \in Users : <<q, y>> # k
        BY <1>0, <3>2
      <4> QED BY <1>1, <1>7, <2>2, <4>1 DEF SnapOK, Late
    <3> QED BY <3>1, <3>2
  <2>3. PICK q : q = First(eng[m].todo)
    OBVIOUS
  <2> QED BY <1>1, <2>1, <2>2, <2>3 DEF Claims
<1>17. ~s.queueing => \A y \in Users : queued'[y].at # "answer"
  BY <1>1 DEF MoneyInv
<1> QED BY <1>11, <1>12, <1>13, <1>14, <1>15, <1>16, <1>17 DEF MoneyInv

(* The process dies.  A bet it had debited and not answered is left to the *)
(* recovery, which has not yet read the round.                             *)
LEMMA MoneyDie ==
  ASSUME NEW s, Setting(s), Closed, RowsInv(s), MoneyInv(s), NEW n \in s.nodes,
         Game(s)!Die(n), Game(s)!Interruptible(n)
  PROVE  MoneyInv(s)'
<1>1. PICK f, i : f = Game(s)!Off /\ i = Game(s)!Idle
  OBVIOUS
<1>2. f.cur = 0 /\ f.loop = "idle" /\ ~f.settling /\ f.queue = {}
  BY <1>1, OffIs
<1>3. i.at = "idle" /\ i.r = 0
  BY <1>1, IdleIs
<1>4. /\ eng' = [eng EXCEPT ![n] = f] /\ writes' \subseteq writes
      /\ bet' = [u \in Users |-> IF bet[u].node = n THEN i ELSE bet[u]]
      /\ queued' = [u \in Users |-> IF queued[u].node = n THEN i ELSE queued[u]]
      /\ UNCHANGED <<round, row, due, known>>
  BY <1>1 DEF Game!Die, Game!Set
<1>5. eng'[n] = f /\ \A m \in s.nodes \ {n} : eng'[m] = eng[m]
  BY <1>4 DEF RowsInv
<1>6. \A u \in Users : /\ bet[u].node = n => bet'[u] = i
                       /\ bet[u].node # n => bet'[u] = bet[u]
  BY <1>4
<1>7. ASSUME NEW u \in Users, bet[u].node = n, NEW r \in 1..MaxRound, Late(u, r)
      PROVE  /\ bet[u].at \in {"answer", "refund"} /\ round[r] \in Alive /\ <<r, u>> \in DOMAIN row
             /\ \A m \in s.nodes : eng[m].loop = "claim" => First(eng[m].todo) # r
  <2>1. ~Game(s)!HalfReturned(bet[u])
    BY <1>7, NothingHit DEF Game!Interruptible
  <2>2. bet[u].r = r /\ bet[u].at \in {"answer", "refund", "delete"}
    BY <1>7 DEF Late
  <2>3. bet[u].at \in {"answer", "refund"} /\ ~Game(s)!Abandoned(r)
    BY <2>1, <2>2 DEF Game!HalfReturned
  <2>4. round[r] # "none"
    BY <2>2 DEF MoneyInv, Asked
  <2>5. <<r, u>> \in DOMAIN row
    BY <1>7, <2>2 DEF RowsInv, RequestOK
  <2> QED BY <2>3, <2>4, <2>5, NotAbandoned
<1>8. \A u \in Users, r \in 1..MaxRound : Late(u, r)' <=> Late(u, r) /\ bet[u].node # n
  BY <1>3, <1>6 DEF Late
<1>9. ASSUME NEW r \in 1..MaxRound, NEW u \in Users PROVE Book(s, r, u)'
  <2>0. Book(s, r, u)
    BY DEF MoneyInv, Books
  <2>1. CASE bet[u].node # n
    BY <1>4, <1>6, <2>0, <2>1 DEF Book, Late
  <2>2. CASE bet[u].node = n /\ ~Late(u, r)
    <3>1. ~(bet[u].r = r /\ bet[u].at \in {"answer", "refund"})
      BY <2>2 DEF Late
    <3>2. ~(bet'[u].r = r /\ bet'[u].at \in {"answer", "refund"}) /\ ~Late(u, r)'
      BY <1>3, <1>6, <2>2 DEF Late
    <3> QED BY <1>4, <2>0, <2>2, <3>1, <3>2 DEF Book
  <2>3. CASE bet[u].node = n /\ Late(u, r)
    <3>1. /\ bet[u].at \in {"answer", "refund"} /\ round[r] \in Alive /\ <<r, u>> \in DOMAIN row
          /\ bet[u].r = r
      BY <1>7, <2>3 DEF Late
    <3>2. PICK x : x = row[<<r, u>>]
      OBVIOUS
    <3>3. /\ due[<<r, u>>] = s.stake /\ known[<<r, u>>] = Value(x) /\ x \in Ride(s) /\ x.pay = 0
      BY <2>0, <2>3, <3>1, <3>2 DEF Book
    <3>4. Value(x) = s.stake
      BY <3>3 DEF Ride, Value, Setting
    <3>5. ~(bet'[u].r = r /\ bet'[u].at \in {"answer", "refund"}) /\ ~Late(u, r)'
      BY <1>3, <1>6, <2>3 DEF Late
    <3>6. round[r] # "none"
      BY <3>1 DEF Alive
    <3> QED BY <1>4, <3>1, <3>2, <3>3, <3>4, <3>5, <3>6 DEF Book
  <2> QED BY <2>1, <2>2, <2>3
<1>10. Books(s)'
  BY <1>4, <1>9 DEF MoneyInv, Books
<1>11. Asked'
  BY <1>3, <1>4, <1>6 DEF MoneyInv, Asked
<1>12. ASSUME NEW w \in writes' PROVE WriteOK(w)'
  <2>1. WriteOK(w) /\ w.r \in 1..MaxRound /\ (w.kind = "cash" => w.u \in Users)
    BY <1>4 DEF MoneyInv, RowsInv, Tables, Write
  <2> QED BY <1>4, <1>8, <2>1 DEF WriteOK
<1>13. ASSUME NEW m \in s.nodes
       PROVE  /\ Homes(s, m, eng[m])' /\ Running(eng[m])' /\ RamAhead(eng[m])' /\ Claims(eng[m])'
              /\ Unqueued(s, eng[m])'
  <2>1. CASE m = n
    BY <1>2, <1>5, <2>1 DEF Homes, Running, RamAhead, Claims, Unqueued
  <2>2. CASE m # n
    <3>0. PICK e : e = eng[m]
      OBVIOUS
    <3>1. /\ Homes(s, m, e) /\ Running(e) /\ RamAhead(e) /\ Claims(e) /\ Unqueued(s, e)
          /\ e \in Engine(s) /\ LoopOK(e) /\ eng'[m] = e
      BY <1>5, <2>2, <3>0 DEF MoneyInv, RowsInv
    <3>2. e.cur # 0 => e.cur \in 1..MaxRound
      BY <3>1, CrashAssumption DEF Engine
    <3>3. \A x \in s.nodes : eng'[x].cur = e.cur /\ e.cur # 0 => eng[x].cur = e.cur
      BY <1>2, <1>5
    <3>4. \A u \in Users : bet'[u].at # "idle" => bet'[u] = bet[u]
      BY <1>3, <1>6
    <3>5. Homes(s, m, e)'
      BY <1>4, <3>1, <3>3, <3>4 DEF Homes
    <3>6. Running(e)' /\ Unqueued(s, e)'
      BY <1>4, <3>1 DEF Running, Unqueued, Apart
    <3>7. \A u \in Users : e.cur # 0 /\ Late(u, e.cur) => Late(u, e.cur)'
      <4>1. ASSUME NEW u \in Users, e.cur # 0, Late(u, e.cur) PROVE bet[u].node = m
        BY <3>1, <4>1 DEF Homes, Late
      <4> QED BY <1>8, <2>2, <3>2, <4>1
    <3>8. RamAhead(e)'
      BY <1>4, <3>1, <3>7 DEF RamAhead, Riders
    <3>9. ASSUME e.loop = "claim" PROVE SnapOK(e, First(e.todo))'
      <4>0. PICK r : r = First(e.todo)
        OBVIOUS
      <4>1. r \in 1..MaxRound /\ SnapOK(e, r)
        BY <3>1, <3>9, <4>0, FirstIs DEF LoopOK, Engine, Claims
      <4>2. \A u \in Users : Late(u, r)' <=> Late(u, r)
        BY <1>7, <1>8, <3>0, <3>9, <4>0, <4>1
      <4>3. SnapOK(e, r)'
        BY <1>4, <4>1, <4>2 DEF SnapOK
      <4> QED BY <4>0, <4>3
    <3>10. Claims(e)'
      BY <1>4, <3>1, <3>9 DEF Claims
    <3> QED BY <3>0, <3>1, <3>5, <3>6, <3>8, <3>10
  <2> QED BY <2>1, <2>2
<1>14. ~s.queueing => \A u \in Users : queued'[u].at # "answer"
  BY <1>3, <1>4 DEF MoneyInv
<1> QED BY <1>10, <1>11, <1>12, <1>13, <1>14 DEF MoneyInv

(* The ledger depends on these variables only.                             *)
LEMMA MoneySame ==
  ASSUME NEW s, MoneyInv(s), UNCHANGED <<round, row, eng, writes, bet, queued, due, known>>
  PROVE  MoneyInv(s)'
  BY DEF MoneyInv, Books, Book, WriteOK, Asked, Homes, Running, RamAhead, Claims, Unqueued,
         SnapOK, Late, Riders, Apart

(* Every step keeps the ledger.                                            *)
LEMMA MoneyStep ==
  ASSUME NEW s, Setting(s), OneQueue(s), Closed, RowsInv(s), MoneyInv(s), Game(s)!Next
  PROVE  MoneyInv(s)'
<1>1. CASE Game(s)!Expire \/ Game(s)!RoundsExhausted
  <2>1. UNCHANGED <<round, row, eng, writes, bet, queued, due, known>>
    BY <1>1 DEF Game!Expire, Game!RoundsExhausted, Game!vars
  <2> QED BY <2>1, MoneySame
<1>2. ASSUME NEW n \in s.nodes, Game(s)!Crash(n) \/ Game(s)!Stop(n) \/ Game(s)!DrainTimesOut(n)
      PROVE  MoneyInv(s)'
  <2>1. Game(s)!Die(n) /\ Game(s)!Interruptible(n)
    BY <1>2 DEF Game!Crash, Game!Stop, Game!DrainTimesOut, Game!Leave
  <2> QED BY <2>1, MoneyDie
<1>3. ASSUME NEW n \in s.nodes,
             \/ Game(s)!Boot(n) \/ Game(s)!Tick(n) \/ Game(s)!Hiccup(n) \/ Game(s)!Resume(n)
             \/ Game(s)!DrainServer(n) \/ Game(s)!Scan(n) \/ Game(s)!ReadBets(n) \/ Game(s)!Recover(n)
             \/ Game(s)!RecoverFails(n) \/ Game(s)!Recovered(n)
      PROVE  MoneyInv(s)'
  BY <1>3, MoneyBoot, MoneyCalm, MoneyLoop, MoneyRecover
<1>4. ASSUME NEW n \in s.nodes,
             \/ Game(s)!OpenRound(n) \/ Game(s)!BindQueued(n) \/ Game(s)!BindFails(n)
             \/ Game(s)!CloseBets(n) \/ Game(s)!BeaconFails(n) \/ Game(s)!Run(n)
             \/ Game(s)!Bust(n) \/ Game(s)!Settle(n) \/ Game(s)!SettleFails(n) \/ Game(s)!NextRound(n)
      PROVE  MoneyInv(s)'
  BY <1>4, MoneyOpen, MoneyBind, MoneyBindFails, MoneyLoop, MoneyCalm, MoneyRun, MoneySettle
<1>5. ASSUME NEW w \in writes, Game(s)!RunWritten(w) \/ Game(s)!CashWritten(w) \/ Game(s)!CashFails(w)
      PROVE  MoneyInv(s)'
  BY <1>5, MoneyRunWritten, MoneyCashWritten, MoneyCashFails
<1>6. ASSUME NEW u \in Users,
             \/ Game(s)!Debit(u) \/ Game(s)!Answer(u) \/ Game(s)!Refund(u) \/ Game(s)!DeleteRow(u)
             \/ Game(s)!Enqueue(u) \/ Game(s)!RefundScheduled(u) \/ Game(s)!Dequeue(u)
      PROVE  MoneyInv(s)'
  BY <1>6, MoneyDebit, MoneyAnswer, MoneyRefund, MoneyDelete, MoneyQueue, MoneyCancel
<1>7. ASSUME NEW u \in Users, NEW n \in s.nodes,
             \/ Game(s)!Ask(u, n) \/ Game(s)!CashOut(u, n) \/ Game(s)!RecoverScheduled(n, u)
             \/ Game(s)!Schedule(u, n) \/ Game(s)!Cancel(u, n)
      PROVE  MoneyInv(s)'
  BY <1>7, MoneyAsk, MoneyCashOut, MoneyScheduled, MoneyCancel
<1> QED BY <1>1, <1>2, <1>3, <1>4, <1>5, <1>6, <1>7 DEF Game!Next

(* At first nothing is owed.                                               *)
LEMMA MoneyInit ==
  ASSUME NEW s, Setting(s), Game(s)!Init
  PROVE  MoneyInv(s)
<1>1. PICK e, i, z : e = Game(s)!Off /\ i = Game(s)!Idle /\ z = Game(s)!Nothing
  OBVIOUS
<1>2. e.cur = 0 /\ e.loop = "idle" /\ ~e.settling /\ e.queue = {}
  BY <1>1, OffIs
<1>3. i.at = "idle"
  BY <1>1, IdleIs
<1>4. DOMAIN z = {}
  BY <1>1, NothingIs
<1>5. /\ round = [r \in 1..MaxRound |-> "none"] /\ row = z
      /\ eng = [n \in s.nodes |-> e] /\ writes = {} /\ bet = [u \in Users |-> i]
      /\ queued = [u \in Users |-> i]
      /\ due = [k \in (1..MaxRound) \X Users |-> 0] /\ known = [k \in (1..MaxRound) \X Users |-> 0]
  BY <1>1 DEF Game!Init, Game!Rounds
<1>6. DOMAIN due = (1..MaxRound) \X Users /\ DOMAIN known = (1..MaxRound) \X Users
  BY <1>5
<1>7. ASSUME NEW r \in 1..MaxRound, NEW u \in Users PROVE Book(s, r, u)
  <2>1. due[<<r, u>>] = 0 /\ round[r] = "none" /\ bet[u].at = "idle" /\ <<r, u>> \notin DOMAIN row
    BY <1>3, <1>4, <1>5
  <2> QED BY <2>1 DEF Book, Alive
<1>8. Books(s) /\ Asked /\ \A w \in writes : WriteOK(w)
  BY <1>3, <1>5, <1>6, <1>7 DEF Books, Asked
<1>9. ASSUME NEW n \in s.nodes
      PROVE  Homes(s, n, eng[n]) /\ Running(eng[n]) /\ RamAhead(eng[n]) /\ Claims(eng[n]) /\ Unqueued(s, eng[n])
  <2>1. eng[n] = e
    BY <1>5
  <2> QED BY <1>2, <2>1 DEF Homes, Running, RamAhead, Claims, Unqueued
<1>10. \A u \in Users : queued[u].at # "answer"
  BY <1>3, <1>5
<1> QED BY <1>8, <1>9, <1>10 DEF MoneyInv

(* The ledger gives the conservation of every bet.                         *)
LEMMA MoneyGives ==
  ASSUME NEW s, Setting(s), RowsInv(s), MoneyInv(s)
  PROVE  Game(s)!BetConserved
<1>1. ASSUME NEW r \in 1..MaxRound, NEW u \in Users
      PROVE  /\ due[<<r, u>>] >= 0
             /\ round[r] = "busted" /\ bet[u].r # r => due[<<r, u>>] = 0
  <2>1. Book(s, r, u)
    BY DEF MoneyInv, Books
  <2>2. ASSUME <<r, u>> \in DOMAIN row PROVE Value(row[<<r, u>>]) \in Nat
    <3>1. PICK x : x = row[<<r, u>>]
      OBVIOUS
    <3>2. x \in Position(s)
      BY <2>2, <3>1 DEF RowsInv, BetRows
    <3>3. Value(x) \in Nat
      BY <3>2 DEF Position, Value, Setting
    <3> QED BY <3>1, <3>3
  <2>3. due[<<r, u>>] \in Nat
    BY <2>1, <2>2 DEF Book, Setting
  <2>4. round[r] = "busted" /\ bet[u].r # r => due[<<r, u>>] = 0
    BY <2>1 DEF Book, Alive
  <2> QED BY <2>3, <2>4
<1> QED BY <1>1 DEF Game!BetConserved, Game!Rounds

(* While no window but the stale queue is hit, every bet brings its player *)
(* what the player was told, once: crashes, settlements, recoveries, late  *)
(* answers and cash-outs in any order (crash.engine.ts settleRound and     *)
(* recoverStrandedRounds; crash.service.ts placeBet and cashout), for any  *)
(* players, rounds and faults.                                             *)
THEOREM BetsAlwaysConserved == Closed /\ CrashSpec => []BetsConserved
<1> SUFFICES ASSUME Closed PROVE CrashSpec => []BetsConserved
  OBVIOUS
<1> DEFINE Inv == \/ setting = "restart" /\ RowsInv(Restart) /\ MoneyInv(Restart)
                  \/ setting = "failover" /\ RowsInv(Failover) /\ MoneyInv(Failover)
<1>0. /\ Setting(Restart) /\ Setting(Failover)
      /\ OneQueue(Restart) /\ OneQueue(Failover)
  BY DEF Setting, OneQueue, Restart, Failover
<1>1. CrashInit => Inv
  BY <1>0, RowsInit, MoneyInit DEF CrashInit
<1>2. Inv /\ [CrashNext]_vars => Inv'
  <2> SUFFICES ASSUME Inv, [CrashNext]_vars PROVE Inv'
    OBVIOUS
  <2>1. CASE UNCHANGED vars
    <3>1. \A s : RowsInv(s) => RowsInv(s)'
      BY <2>1 DEF vars, RowsInv, Tables, BetRows, LoopOK, RidersOK, RequestOK, Late, Riders
    <3>2. UNCHANGED <<round, row, eng, writes, bet, queued, due, known>>
      BY <2>1 DEF vars
    <3>3. \A s : MoneyInv(s) => MoneyInv(s)'
      BY <3>2, MoneySame
    <3> QED BY <2>1, <3>1, <3>3 DEF vars, Restart, Failover
  <2>2. CASE setting = "restart" /\ Game(Restart)!Next /\ UNCHANGED setting
    <3>1. PICK s : s = Restart
      OBVIOUS
    <3>2. RowsInv(s)' /\ MoneyInv(s)'
      BY <1>0, <2>2, <3>1, RowsStep, MoneyStep
    <3> QED BY <2>2, <3>1, <3>2 DEF Restart
  <2>3. CASE setting = "failover" /\ Game(Failover)!Next /\ UNCHANGED setting
    <3>1. PICK s : s = Failover
      OBVIOUS
    <3>2. RowsInv(s)' /\ MoneyInv(s)'
      BY <1>0, <2>3, <3>1, RowsStep, MoneyStep
    <3> QED BY <2>3, <3>1, <3>2 DEF Failover
  <2> QED BY <2>1, <2>2, <2>3 DEF CrashNext
<1>3. Inv => BetsConserved
  BY <1>0, MoneyGives DEF BetsConserved
<1> QED BY <1>1, <1>2, <1>3, PTL DEF CrashSpec

(* The same of the game with any replicas, stake and funds, elected or     *)
(* not: riders have rows, and every bet brings what its player was told,   *)
(* once (crash.engine.ts, crash.service.ts).  Only where players schedule  *)
(* bets is there one replica.                                              *)
THEOREM EveryGameConserves ==
  ASSUME NEW CONSTANT s, Setting(s), OneQueue(s), Closed
  PROVE  Game(s)!Spec => [](Game(s)!TypeOK /\ Game(s)!RiderHasRow /\ Game(s)!BetConserved)
<1> DEFINE Inv == RowsInv(s) /\ MoneyInv(s)
<1>1. Game(s)!Init => Inv
  BY RowsInit, MoneyInit
<1>2. Inv /\ [Game(s)!Next]_(Game(s)!vars) => Inv'
  <2>1. CASE Game(s)!Next
    BY <2>1, RowsStep, MoneyStep
  <2>2. CASE UNCHANGED Game(s)!vars
    <3>1. UNCHANGED <<round, row, sched, bal, lock, eng, writes, bet, queued, due, known>>
      BY <2>2 DEF Game!vars
    <3>2. RowsInv(s) => RowsInv(s)'
      BY <3>1 DEF RowsInv, Tables, BetRows, LoopOK, RidersOK, RequestOK, Late, Riders
    <3> QED BY <3>1, <3>2, MoneySame
  <2> QED BY <2>1, <2>2
<1>3. Inv => Game(s)!TypeOK /\ Game(s)!RiderHasRow /\ Game(s)!BetConserved
  BY RowsGiveTypes, MoneyGives
<1> QED BY <1>1, <1>2, <1>3, PTL DEF Game!Spec
=============================================================================
