---------------------------- MODULE JackpotProofs ----------------------------
(***************************************************************************)
(* Proofs about Jackpot, for any players, entry, minimum of players, rounds *)
(* and retries, any number of crashes and failed statements, and either    *)
(* choice of windows.                                                      *)
(***************************************************************************)
EXTENDS Jackpot, Sums

-----------------------------------------------------------------------------
(* Operators. *)

(* A non-empty set of rounds has an oldest and a newest one: the round     *)
(* with the fewest before it, and the one with the fewest after it.        *)
LEMMA OldestNewest ==
  ASSUME NEW S, S \subseteq Rounds, S # {}
  PROVE  Min(S) \in S /\ Max(S) \in S
<1>0. IsFiniteSet(S)
  <2>1. IsFiniteSet(1 .. MaxRound)
    BY JackpotAssumption, FS_Interval
  <2> QED BY <2>1, FS_Subset DEF Rounds
<1>a. \A y, z \in S : y \in Nat /\ z \in Nat
  BY JackpotAssumption DEF Rounds
<1>1. \E x \in S : \A y \in S : x <= y
  <2> DEFINE before == [x \in S |-> {y \in S : y < x}]
             B == {before[x] : x \in S}
  <2>1. B \subseteq SUBSET S /\ B # {}
    OBVIOUS
  <2>2. PICK T \in B : \A U \in B : U \subseteq T => U = T
    <3> HIDE DEF B
    <3> QED BY <1>0, <2>1, MinimalSubset
  <2>3. PICK x \in S : T = before[x]
    OBVIOUS
  <2>4. ASSUME NEW y \in S, y < x PROVE FALSE
    <3>1. before[y] \subseteq before[x] /\ y \in before[x] /\ y \notin before[y]
      BY <1>a, <2>4
    <3> QED BY <2>2, <2>3, <3>1
  <2> QED BY <1>a, <2>4
<1>2. \E x \in S : \A y \in S : x >= y
  <2> DEFINE after == [x \in S |-> {y \in S : y > x}]
             B == {after[x] : x \in S}
  <2>1. B \subseteq SUBSET S /\ B # {}
    OBVIOUS
  <2>2. PICK T \in B : \A U \in B : U \subseteq T => U = T
    <3> HIDE DEF B
    <3> QED BY <1>0, <2>1, MinimalSubset
  <2>3. PICK x \in S : T = after[x]
    OBVIOUS
  <2>4. ASSUME NEW y \in S, y > x PROVE FALSE
    <3>1. after[y] \subseteq after[x] /\ y \in after[x] /\ y \notin after[y]
      BY <1>a, <2>4
    <3> QED BY <2>2, <2>3, <3>1
  <2> QED BY <1>a, <2>4
<1> QED BY <1>1, <1>2 DEF Min, Max

(* The winner's share of a pot is an amount of lamports.                   *)
LEMMA ShareType == \A n \in Nat : Share(n) \in Nat
<1>1. \A n \in Nat : n * 950 \in Nat
  OBVIOUS
<1>2. \A n \in Nat : n \div 1000 \in Nat
  OBVIOUS
<1> QED BY <1>1, <1>2 DEF Share

(* Won and lost move by the net result, one of them by zero.               *)
LEMMA ProfitBalance ==
  \A p, s \in Nat : /\ Profit(p - s) \in Nat /\ Profit(s - p) \in Nat
                    /\ Profit(p - s) - Profit(s - p) = p - s
  BY DEF Profit

-----------------------------------------------------------------------------
(***************************************************************************)
(* The inductive invariant.  A settlement and a request name a round that  *)
(* exists (Known).  The engine drives at most one live round, only while   *)
(* it is not booting, and every settlement that can still commit and every *)
(* request that can still enter is for that round (OneDriver).  With both  *)
(* windows closed RAM and the entries of the driven round differ by the    *)
(* requests whose notice is pending, a round with players has a clock      *)
(* wherever it is kept, and a settlement that will draw folds (InStep).    *)
(***************************************************************************)
Known ==
  /\ eng.open => eng.cur \in Rounds /\ rnd[eng.cur].status # "none"
  /\ eng.live # 0 => rnd[eng.live].status # "none"
  /\ \A r \in eng.todo : rnd[r].status # "none"
  /\ \A j \in {eng.job, zombie} : j # NoJob => j.r \in Rounds /\ rnd[j.r].status # "none"
  /\ \A u \in Users : req[u].at # "none" => req[u].r \in Rounds /\ rnd[req[u].r].status # "none"
  /\ \A r \in Rounds : /\ IsFiniteSet(rnd[r].entries)
                       /\ rnd[r].status = "none" => rnd[r].entries = {}

Drives == eng.open /\ rnd[eng.cur].status = "open"

OneDriver ==
  /\ Drives => eng.boot \in {"replaying", "idle"}
  /\ eng.boot = "replaying" /\ Drives => eng.job # NoJob /\ eng.job.r = eng.cur
  /\ eng.job # NoJob /\ rnd[eng.job.r].status = "open" => Drives /\ eng.cur = eng.job.r
  /\ \A u \in Users : req[u].at # "none" /\ rnd[req[u].r].status = "open" =>
       Drives /\ eng.cur = req[u].r

Pending(r) == {u \in Users : req[u] = [at |-> "entered", r |-> r]}

PlayersInStep == Drives => rnd[eng.cur].entries = eng.players \cup Pending(eng.cur)
ClockInRam == Drives /\ eng.players # {} => eng.close # "none"
ClockInRow ==
  \A r \in Rounds :
    rnd[r].status = "open" /\ rnd[r].entries # {} /\ ~(Drives /\ eng.cur = r) =>
      rnd[r].close # "none"

Folds(j) ==
  j # NoJob /\ rnd[j.r].status = "open" /\ ~j.refund
    /\ Cardinality(rnd[j.r].entries) >= MinPlayers => j.fold

InStep ==
  windows = {} =>
    PlayersInStep /\ ClockInRam /\ ClockInRow /\ Folds(eng.job) /\ Folds(zombie) /\ DrawFoldsBeacon

JackpotInv == TypeOK /\ Known /\ OneDriver /\ PotConserved /\ InStep

OpenIn(u) == {r \in Rounds : rnd[r].status = "open" /\ u \in rnd[r].entries}

(* What a player has riding is a number of entries.                        *)
LEMMA OpenInFinite ==
  ASSUME NEW u PROVE IsFiniteSet(OpenIn(u)) /\ Cardinality(OpenIn(u)) \in Nat
<1>1. IsFiniteSet(Rounds) /\ OpenIn(u) \subseteq Rounds
  BY JackpotAssumption, FS_Interval DEF Rounds, OpenIn
<1> QED BY <1>1, FS_Subset, FS_CardinalityType

(* A step that moves no money and enters or settles no one keeps the pot.  *)
LEMMA PotKept ==
  ASSUME PotConserved, UNCHANGED accountVars, \A u \in Users : OpenIn(u)' = OpenIn(u)
  PROVE  PotConserved'
  BY DEF PotConserved, OpenIn, accountVars

(* The parts of the type of the engine's RAM.                              *)
Rams == [cur : 0 .. MaxRound, open : BOOLEAN, players : SUBSET Users, close : Deadlines,
         boot : {"scan", "replay", "replaying", "open", "idle"}, todo : SUBSET Rounds,
         live : 0 .. MaxRound, fails : 0 .. Attempts, retry : SUBSET Rounds,
         job : [r : 0 .. MaxRound, refund : BOOLEAN, fold : BOOLEAN]]
Jobs == [r : 0 .. MaxRound, refund : BOOLEAN, fold : BOOLEAN]
Rows == [status : {"none", "open", "drawn", "refunded"}, close : Deadlines,
         entries : SUBSET Users, folded : BOOLEAN]

(* The conjuncts that the steps below take apart.                          *)
LEMMA Types ==
  TypeOK <=> /\ AccountTypeOK /\ rnd \in [Rounds -> Rows]
             /\ passed \subseteq Rounds \X Deadlines
             /\ eng \in Rams /\ zombie \in Jobs
             /\ req \in [Users -> [at : {"none", "checked", "entered"}, r : 0 .. MaxRound]]
             /\ faults \in 0 .. MaxFaults /\ windows \subseteq WindowNames
  BY DEF TypeOK, Rams, Jobs, Rows

(* Constants and the round numbers they bound.                             *)
LEMMA Bounds ==
  /\ MaxRound \in Nat /\ Attempts \in Nat /\ Entry \in Nat /\ MinPlayers \in Nat
  /\ Attempts > 0 /\ Entry > 0 /\ MinPlayers > 1
  /\ 0 \in 0 .. MaxRound /\ Rounds \subseteq 0 .. MaxRound /\ 0 \notin Rounds
  /\ 0 \in 0 .. Attempts /\ NoJob \in Jobs /\ NoJob.r = 0
  BY JackpotAssumption DEF Rounds, NoJob, Jobs

-----------------------------------------------------------------------------
(***************************************************************************)
(* Steps of the engine's RAM alone.  What they must show: the rounds,      *)
(* requests and settlements stay known, and the driven round stays the one *)
(* the engine drives or is no longer live.                                 *)
(***************************************************************************)
Quiet == UNCHANGED <<accountVars, rnd, req, windows>>

(* The boot marches on between rounds: nothing live is driven before it,   *)
(* or after.                                                               *)
LEMMA BootStep ==
  ASSUME JackpotInv, Quiet, passed' = passed, zombie' = zombie, faults' \in 0 .. MaxFaults,
         eng' \in Rams, ~Drives, eng'.job = eng.job,
         eng'.open => eng.open /\ eng'.cur = eng.cur,
         eng'.live # 0 => rnd[eng'.live].status # "none",
         \A r \in eng'.todo : rnd[r].status # "none"
  PROVE  JackpotInv'
<1> USE DEF JackpotInv, Quiet
<1>1. TypeOK'
  BY DEF TypeOK, Rams, AccountTypeOK, accountVars
<1>2. Known'
  BY DEF Known
<1>3. ~Drives' /\ OneDriver'
  BY DEF OneDriver, Drives
<1>4. PotConserved'
  BY PotKept DEF OpenIn
<1>5. InStep'
  BY <1>3 DEF InStep, PlayersInStep, ClockInRam, ClockInRow, Folds, DrawFoldsBeacon
<1> QED BY <1>1, <1>2, <1>3, <1>4, <1>5

(* What a rebuilt round is in RAM.                                         *)
LEMMA RebuiltFields ==
  ASSUME TypeOK, NEW r \in Rounds
  PROVE  /\ Rebuilt(r) \in Rams
         /\ Rebuilt(r).cur = r /\ Rebuilt(r).open = TRUE
         /\ Rebuilt(r).players = rnd[r].entries /\ Rebuilt(r).close = rnd[r].close
         /\ Rebuilt(r).boot = eng.boot /\ Rebuilt(r).todo = eng.todo
         /\ Rebuilt(r).live = eng.live /\ Rebuilt(r).job = eng.job
<1>1. rnd[r] \in Rows /\ eng \in Rams /\ r \in 0 .. MaxRound
  BY Types, Bounds
<1> QED BY <1>1 DEF Rebuilt, Rams, Rows

(* What drawAndSettle decides: a settlement of the current round, to be    *)
(* refunded, or folded when RAM says so.                                   *)
LEMMA BeginFields ==
  ASSUME NEW e \in Rams
  PROVE  /\ Begin(e) \in Rams
         /\ Begin(e).job.r = e.cur /\ Begin(e).job.refund = GivesUp(e)
         /\ Begin(e).job.fold = (NeedsBeacon(e) /\ ~GivesUp(e))
         /\ Begin(e).cur = e.cur /\ Begin(e).open = e.open /\ Begin(e).players = e.players
         /\ Begin(e).close = e.close /\ Begin(e).boot = e.boot /\ Begin(e).todo = e.todo
         /\ Begin(e).live = e.live
<1>1. GivesUp(e) \in BOOLEAN /\ NeedsBeacon(e) \in BOOLEAN
  BY DEF GivesUp, NeedsBeacon
<1> DEFINE j == [r |-> e.cur, refund |-> GivesUp(e), fold |-> NeedsBeacon(e) /\ ~GivesUp(e)]
<1>2. j \in Jobs
  BY <1>1 DEF Jobs, Rams
<1>3. Begin(e) = [e EXCEPT !.job = j]
  BY DEF Begin
<1>4. Begin(e) \in Rams
  BY <1>2, <1>3 DEF Rams, Jobs
<1> QED BY <1>3, <1>4 DEF Rams

(* A settlement of the driven round begins: with the windows closed RAM    *)
(* holds the entries and their clock, so it folds unless it refunds.       *)
LEMMA BeginStep ==
  ASSUME JackpotInv, Quiet, passed' = passed, zombie' = zombie, faults' = faults,
         NEW e \in Rams, eng' = Begin(e), e.open = TRUE, e.cur = eng.cur, eng.open,
         e.players = eng.players, e.close = eng.close, e.boot = eng.boot,
         e.todo = eng.todo, e.live = eng.live, Noticed(eng.cur)
  PROVE  JackpotInv'
<1> USE DEF JackpotInv, Quiet
<1>0. /\ eng' \in Rams /\ eng'.cur = eng.cur /\ eng'.open = TRUE
      /\ eng'.players = eng.players /\ eng'.close = eng.close /\ eng'.boot = eng.boot
      /\ eng'.todo = eng.todo /\ eng'.live = eng.live
      /\ eng'.job.r = eng.cur /\ eng'.job.refund = GivesUp(e)
      /\ eng'.job.fold = (NeedsBeacon(e) /\ ~GivesUp(e))
  BY BeginFields
<1>1. TypeOK'
  BY <1>0 DEF TypeOK, Rams, AccountTypeOK, accountVars
<1>2. eng.cur \in Rounds /\ rnd[eng.cur].status # "none" /\ eng'.job # NoJob
  BY <1>0, Bounds DEF Known
<1>3. Known'
  BY <1>0, <1>2 DEF Known
<1>4. Drives' <=> Drives
  BY <1>0 DEF Drives
<1>5. OneDriver'
  BY <1>0, <1>2, <1>4 DEF OneDriver, Drives
<1>6. PotConserved'
  BY PotKept DEF OpenIn
<1>7. ASSUME windows = {}, Drives, ~GivesUp(e),
             Cardinality(rnd[eng.cur].entries) >= MinPlayers
      PROVE  NeedsBeacon(e)
  <2>1. Pending(eng.cur) = {}
    BY <1>7 DEF Noticed, Hit, Pending
  <2>2. rnd[eng.cur].entries = eng.players
    BY <1>7, <2>1 DEF InStep, PlayersInStep
  <2>3. eng.players # {}
    BY <1>7, <2>2, FS_EmptySet, Bounds
  <2>4. eng.close # "none"
    BY <1>7, <2>3 DEF InStep, ClockInRam
  <2> QED BY <1>7, <2>2, <2>4 DEF NeedsBeacon
<1>8. windows = {} => Folds(eng.job)'
  BY <1>0, <1>7 DEF Folds, Drives
<1>9. InStep'
  BY <1>0, <1>4, <1>8
  DEF InStep, PlayersInStep, ClockInRam, ClockInRow, Folds, DrawFoldsBeacon, Pending, Drives
<1> QED BY <1>1, <1>3, <1>5, <1>6, <1>9

(* A round is rebuilt: driven if it is live, and with the windows closed   *)
(* its clock is the row's.                                                 *)
LEMMA RebuildStep ==
  ASSUME JackpotInv, Quiet, passed' = passed, zombie' = zombie, faults' = faults,
         eng' \in Rams, ~Drives, NEW r \in Rounds, rnd[r].status # "none",
         eng'.cur = r, eng'.open = TRUE, eng'.players = rnd[r].entries,
         eng'.close = rnd[r].close, eng'.live = eng.live, eng'.todo \subseteq eng.todo,
         \/ eng'.boot = "idle" /\ eng'.job = eng.job
         \/ /\ eng'.boot = "replaying" /\ eng'.job.r = r
            /\ eng'.job.refund = GivesUp(Rebuilt(r))
            /\ eng'.job.fold = (NeedsBeacon(Rebuilt(r)) /\ ~GivesUp(Rebuilt(r)))
  PROVE  JackpotInv'
<1> USE DEF JackpotInv, Quiet
<1>1. TypeOK'
  BY DEF TypeOK, Rams, AccountTypeOK, accountVars
<1>2. Known'
  BY DEF Known
<1>3. /\ Drives' <=> rnd[r].status = "open"
      /\ eng'.boot = "replaying" => eng'.job # NoJob
  BY Bounds DEF Drives
<1>4. OneDriver'
  BY <1>3 DEF OneDriver, Drives
<1>5. PotConserved'
  BY PotKept DEF OpenIn
<1>6. ASSUME windows = {} PROVE PlayersInStep' /\ ClockInRam' /\ ClockInRow'
  <2>1. rnd[r].status = "open" => Pending(r) = {}
    BY DEF OneDriver, Pending
  <2>2. rnd[r].status = "open" /\ rnd[r].entries # {} => rnd[r].close # "none"
    BY <1>6 DEF InStep, ClockInRow
  <2> QED BY <1>3, <1>6, <2>1, <2>2
      DEF InStep, PlayersInStep, ClockInRam, ClockInRow, Pending
<1>7. ASSUME windows = {} PROVE Folds(eng.job)'
  <2>1. CASE eng'.boot = "idle"
    BY <1>7, <2>1 DEF Folds, InStep
  <2>2. CASE eng'.boot = "replaying"
    <3> SUFFICES ASSUME rnd[r].status = "open", ~GivesUp(Rebuilt(r)),
                        Cardinality(rnd[r].entries) >= MinPlayers
                 PROVE  NeedsBeacon(Rebuilt(r))
      BY <2>2 DEF Folds
    <3>1. rnd[r].entries # {}
      BY FS_EmptySet, Bounds
    <3>2. rnd[r].close # "none"
      BY <1>7, <3>1 DEF InStep, ClockInRow
    <3>3. Rebuilt(r).players = rnd[r].entries /\ Rebuilt(r).close = rnd[r].close
      BY RebuiltFields
    <3> QED BY <3>2, <3>3 DEF NeedsBeacon
  <2> QED BY <2>1, <2>2
<1>8. InStep'
  BY <1>6, <1>7 DEF InStep, Folds, DrawFoldsBeacon
<1> QED BY <1>1, <1>2, <1>4, <1>5, <1>8

(* A settlement is over without a commit: it is given up for now, or       *)
(* someone else committed it.                                              *)
LEMMA JobEnds ==
  ASSUME JackpotInv, Quiet, passed' = passed, zombie' = zombie, faults' \in 0 .. MaxFaults,
         eng' \in Rams, eng'.job = NoJob, eng'.cur = eng.cur, eng'.open = eng.open,
         eng'.players = eng.players, eng'.close = eng.close, eng'.live = eng.live,
         eng'.todo = eng.todo,
         \/ eng'.boot = (IF eng.boot = "replaying" THEN "idle" ELSE eng.boot)
         \/ /\ eng.job # NoJob /\ rnd[eng.job.r].status # "open"
            /\ eng'.boot = (IF eng.boot = "replaying" THEN "replay" ELSE eng.boot)
  PROVE  JackpotInv'
<1> USE DEF JackpotInv, Quiet
<1>1. TypeOK'
  BY DEF TypeOK, Rams, AccountTypeOK, accountVars
<1>2. Known'
  BY DEF Known
<1>3. Drives' <=> Drives
  BY DEF Drives
<1>4. OneDriver'
  BY <1>3 DEF OneDriver, Drives
<1>5. PotConserved'
  BY PotKept DEF OpenIn
<1>6. InStep'
  BY <1>3 DEF InStep, PlayersInStep, ClockInRam, ClockInRow, Folds, DrawFoldsBeacon, Pending
<1> QED BY <1>1, <1>2, <1>4, <1>5, <1>6

-----------------------------------------------------------------------------
(* The steps that move money, and the ones that open or leave a round.     *)

(* e entries and one fewer.                                                *)
LEMMA OneEntryLess == \A e, c \in Int : e * (c - 1) = e * c - e /\ e * (c + 1) = e * c + e
  OBVIOUS

(* The transaction of a settlement: one round leaves 'open', and everyone  *)
(* in it gets an entry back or has it counted won or lost.                 *)
LEMMA SettleTxKeeps ==
  ASSUME JackpotInv, NEW j \in Jobs, j.r \in Rounds, SettleTx(j)
  PROVE  /\ AccountTypeOK' /\ PotConserved' /\ rnd' \in [Rounds -> Rows]
         /\ rnd[j.r].status = "open" /\ rnd'[j.r].status \in {"drawn", "refunded"}
         /\ rnd'[j.r].entries = rnd[j.r].entries
         /\ \A r \in Rounds \ {j.r} : rnd'[r] = rnd[r]
         /\ rnd'[j.r].status = "drawn" =>
              /\ rnd'[j.r].folded = j.fold /\ ~j.refund
              /\ Cardinality(rnd[j.r].entries) >= MinPlayers
<1> USE DEF JackpotInv
<1> DEFINE r == j.r
           in == rnd[r].entries
           pot == Share(Entry * Cardinality(in))
<1>0. /\ rnd \in [Rounds -> Rows] /\ rnd[r] \in Rows /\ r \in Rounds /\ in \subseteq Users
      /\ bal \in [Users -> Nat] /\ totalWon \in [Users -> Nat] /\ totalLost \in [Users -> Nat]
      /\ j.fold \in BOOLEAN /\ Entry \in Nat /\ Funds \in Nat /\ IsFiniteSet(in)
  BY Types, Bounds, FundsAssumption DEF Rows, Jobs, AccountTypeOK, Known
<1>1. pot \in Nat
  <2>1. Cardinality(in) \in Nat
    BY <1>0, FS_CardinalityType
  <2>2. Entry * Cardinality(in) \in Nat
    BY <1>0, <2>1
  <2> QED BY <2>2, ShareType
<1>2. rnd[r].status = "open"
  BY DEF SettleTx, Claimable
<1>3. \/ /\ rnd' = [rnd EXCEPT ![r].status = "refunded"]
         /\ bal' = [u \in Users |-> bal[u] + IF u \in in THEN Entry ELSE 0]
         /\ UNCHANGED <<totalWon, totalLost>>
      \/ /\ ~j.refund /\ ~(Cardinality(in) < MinPlayers)
         /\ \E w \in in :
              /\ rnd' = [rnd EXCEPT ![r] = [@ EXCEPT !.status = "drawn", !.folded = j.fold]]
              /\ bal' = [bal EXCEPT ![w] = @ + pot]
              /\ totalWon' = [totalWon EXCEPT ![w] = @ + Profit(pot - Entry)]
              /\ totalLost' = [u \in Users |-> totalLost[u] +
                   IF u = w THEN Profit(Entry - pot) ELSE IF u \in in THEN Entry ELSE 0]
  BY DEF SettleTx
<1> HIDE DEF pot
<1>4. \/ rnd' = [rnd EXCEPT ![r].status = "refunded"]
      \/ /\ rnd' = [rnd EXCEPT ![r] = [@ EXCEPT !.status = "drawn", !.folded = j.fold]]
         /\ ~j.refund /\ Cardinality(in) >= MinPlayers
  <2>1. Cardinality(in) \in Nat /\ MinPlayers \in Nat
    BY <1>0, FS_CardinalityType, Bounds
  <2> QED BY <1>3, <2>1
<1>5. /\ rnd' \in [Rounds -> Rows] /\ rnd'[r].status \in {"drawn", "refunded"}
      /\ rnd'[r].entries = in /\ \A q \in Rounds \ {r} : rnd'[q] = rnd[q]
      /\ rnd'[r].status = "drawn" =>
           rnd'[r].folded = j.fold /\ ~j.refund /\ Cardinality(in) >= MinPlayers
  <2>1. CASE rnd' = [rnd EXCEPT ![r].status = "refunded"]
    <3>1. /\ rnd'[r] = [rnd[r] EXCEPT !.status = "refunded"] /\ DOMAIN rnd' = Rounds
          /\ \A q \in Rounds \ {r} : rnd'[q] = rnd[q]
      BY <1>0, <2>1
    <3>2. rnd'[r] \in Rows /\ rnd'[r].status = "refunded" /\ rnd'[r].entries = in
      BY <1>0, <3>1 DEF Rows
    <3>3. rnd' \in [Rounds -> Rows]
      BY <1>0, <2>1, <3>1, <3>2
    <3> QED BY <3>1, <3>2, <3>3
  <2>2. CASE rnd' = [rnd EXCEPT ![r] = [@ EXCEPT !.status = "drawn", !.folded = j.fold]]
    <3>1. /\ rnd'[r] = [rnd[r] EXCEPT !.status = "drawn", !.folded = j.fold]
          /\ \A q \in Rounds \ {r} : rnd'[q] = rnd[q]
      BY <1>0, <2>2
    <3>2. /\ rnd'[r] \in Rows /\ rnd'[r].status = "drawn" /\ rnd'[r].entries = in
          /\ rnd'[r].folded = j.fold
      BY <1>0, <3>1 DEF Rows
    <3>3. rnd' \in [Rounds -> Rows]
      BY <1>0, <2>2, <3>1, <3>2
    <3>4. ~j.refund /\ Cardinality(in) >= MinPlayers
      <4>1. CASE rnd' = [rnd EXCEPT ![r].status = "refunded"]
        BY <1>0, <3>2, <4>1 DEF Rows
      <4> QED BY <1>4, <4>1
    <3> QED BY <3>1, <3>2, <3>3, <3>4
  <2> QED BY <1>4, <2>1, <2>2
<1>6. ASSUME NEW u \in Users
      PROVE  /\ Cardinality(OpenIn(u)) \in Nat /\ Cardinality(OpenIn(u)') \in Nat
             /\ Cardinality(OpenIn(u)') = Cardinality(OpenIn(u)) - (IF u \in in THEN 1 ELSE 0)
  <2>1. OpenIn(u)' = OpenIn(u) \ {r} /\ (r \in OpenIn(u) <=> u \in in)
    BY <1>0, <1>2, <1>5 DEF OpenIn
  <2>2. IsFiniteSet(OpenIn(u)) /\ Cardinality(OpenIn(u)) \in Nat
    BY OpenInFinite
  <2>3. CASE u \in in
    BY <2>1, <2>2, <2>3, FS_RemoveElement, FS_CardinalityType
  <2>4. CASE u \notin in
    <3>1. OpenIn(u)' = OpenIn(u)
      BY <2>1, <2>4
    <3> QED BY <2>2, <2>4, <3>1
  <2> QED BY <2>3, <2>4
<1>7. ASSUME NEW u \in Users
      PROVE  Entry * Cardinality(OpenIn(u)') =
               Entry * Cardinality(OpenIn(u)) - (IF u \in in THEN Entry ELSE 0)
  BY <1>0, <1>6, OneEntryLess
<1>8. ASSUME NEW u \in Users
      PROVE  /\ bal[u] = Funds + totalWon[u] - totalLost[u] - Entry * Cardinality(OpenIn(u))
             /\ Entry * Cardinality(OpenIn(u)) \in Nat
  <2>1. bal[u] = Funds + totalWon[u] - totalLost[u] - Entry * Cardinality(OpenIn(u))
    BY DEF PotConserved, OpenIn
  <2>2. \A e, c \in Nat : e * c \in Nat
    OBVIOUS
  <2> QED BY <1>0, <1>6, <2>1, <2>2
<1>9. CASE /\ bal' = [u \in Users |-> bal[u] + IF u \in in THEN Entry ELSE 0]
           /\ UNCHANGED <<totalWon, totalLost>>
  <2>1. AccountTypeOK'
    BY <1>0, <1>9 DEF AccountTypeOK
  <2>2. ASSUME NEW u \in Users
        PROVE  bal'[u] = Funds + totalWon'[u] - totalLost'[u] - Entry * Cardinality(OpenIn(u)')
    <3>1. /\ bal[u] \in Nat /\ totalWon[u] \in Nat /\ totalLost[u] \in Nat
          /\ bal'[u] = bal[u] + (IF u \in in THEN Entry ELSE 0)
          /\ totalWon'[u] = totalWon[u] /\ totalLost'[u] = totalLost[u]
      BY <1>0, <1>9
    <3> QED BY <1>0, <1>7, <1>8, <3>1
  <2>3. PotConserved'
    BY <2>2 DEF PotConserved, OpenIn
  <2> QED BY <1>2, <1>5, <2>1, <2>3
<1>10. ASSUME NEW w \in in,
              bal' = [bal EXCEPT ![w] = @ + pot],
              totalWon' = [totalWon EXCEPT ![w] = @ + Profit(pot - Entry)],
              totalLost' = [u \in Users |-> totalLost[u] +
                   IF u = w THEN Profit(Entry - pot) ELSE IF u \in in THEN Entry ELSE 0]
       PROVE  AccountTypeOK' /\ PotConserved'
  <2>1. /\ Profit(pot - Entry) \in Nat /\ Profit(Entry - pot) \in Nat
        /\ Profit(pot - Entry) - Profit(Entry - pot) = pot - Entry
    BY <1>0, <1>1, ProfitBalance
  <2>2. AccountTypeOK'
    BY <1>0, <1>1, <1>10, <2>1 DEF AccountTypeOK
  <2>3. ASSUME NEW u \in Users
        PROVE  bal'[u] = Funds + totalWon'[u] - totalLost'[u] - Entry * Cardinality(OpenIn(u)')
    <3>0. bal[u] \in Nat /\ totalWon[u] \in Nat /\ totalLost[u] \in Nat
      BY <1>0
    <3>1. CASE u = w
      <4>1. /\ bal'[u] = bal[u] + pot /\ totalWon'[u] = totalWon[u] + Profit(pot - Entry)
            /\ totalLost'[u] = totalLost[u] + Profit(Entry - pot)
        BY <1>0, <1>10, <3>1
      <4> QED BY <1>0, <1>1, <1>7, <1>8, <2>1, <3>0, <3>1, <4>1
    <3>2. CASE u # w
      <4>1. /\ bal'[u] = bal[u] /\ totalWon'[u] = totalWon[u]
            /\ totalLost'[u] = totalLost[u] + (IF u \in in THEN Entry ELSE 0)
        BY <1>0, <1>10, <3>2
      <4> QED BY <1>0, <1>7, <1>8, <3>0, <4>1
    <3> QED BY <3>1, <3>2
  <2>4. PotConserved'
    BY <2>3 DEF PotConserved, OpenIn
  <2> QED BY <2>2, <2>4
<1> QED BY <1>2, <1>3, <1>5, <1>9, <1>10

(* The engine's settlement commits: the round it drove is over.            *)
LEMMA SettleStep ==
  ASSUME JackpotInv, Settle, windows' = windows
  PROVE  JackpotInv'
<1> USE DEF JackpotInv
<1>0. /\ eng \in Rams /\ eng.job \in Jobs /\ eng.job # NoJob /\ eng.job.r \in Rounds
      /\ SettleTx(eng.job) /\ zombie' = zombie /\ req' = req /\ passed' = passed
      /\ faults' = faults
  BY Types DEF Settle, Rams, Jobs, Known
<1>1. PICK j \in Jobs : j = eng.job
  BY <1>0
<1>2. /\ AccountTypeOK' /\ PotConserved' /\ rnd' \in [Rounds -> Rows]
      /\ rnd[j.r].status = "open" /\ rnd'[j.r].status \in {"drawn", "refunded"}
      /\ rnd'[j.r].entries = rnd[j.r].entries
      /\ \A r \in Rounds \ {j.r} : rnd'[r] = rnd[r]
      /\ rnd'[j.r].status = "drawn" =>
           /\ rnd'[j.r].folded = j.fold /\ ~j.refund
           /\ Cardinality(rnd[j.r].entries) >= MinPlayers
  BY <1>0, <1>1, SettleTxKeeps
<1>3. Drives /\ eng.cur = j.r /\ j.r \in Rounds /\ eng.boot \in {"replaying", "idle"}
  BY <1>0, <1>1, <1>2 DEF OneDriver
<1>4. /\ eng' \in Rams /\ eng'.job = NoJob /\ eng'.open = FALSE /\ eng'.cur = eng.cur
      /\ eng'.live = eng.live /\ eng'.todo = eng.todo
  BY <1>0, <1>1, <1>3, Bounds DEF Settle, Rams, Jobs
<1>5. TypeOK'
  BY <1>0, <1>2, <1>4 DEF TypeOK, Rams, Rows
<1>6. \A r \in Rounds : /\ rnd'[r].status = "none" <=> rnd[r].status = "none"
                        /\ rnd'[r].entries = rnd[r].entries
                        /\ rnd'[r].status = "open" => rnd[r].status = "open" /\ r # j.r
  BY <1>2, <1>3
<1>7. eng.live # 0 => eng.live \in Rounds
  BY <1>0, Bounds DEF Rams, Rounds
<1>8. Known'
  BY <1>0, <1>4, <1>6, <1>7 DEF Known, Rams
<1>9. ~Drives' /\ OneDriver'
  BY <1>0, <1>3, <1>4, <1>6 DEF OneDriver, Drives, Known
<1>10. InStep'
  <2> SUFFICES ASSUME windows = {}
               PROVE  ClockInRow' /\ Folds(zombie)' /\ DrawFoldsBeacon'
    BY <1>4, <1>9 DEF InStep, PlayersInStep, ClockInRam, Folds
  <2>1. Folds(eng.job) /\ Folds(zombie) /\ ClockInRow /\ DrawFoldsBeacon
    BY DEF InStep
  <2>2. ClockInRow'
    BY <1>2, <1>3, <1>6, <2>1 DEF ClockInRow
  <2>3. Folds(zombie)'
    BY <1>0, <1>2, <1>6, <2>1 DEF Folds, Known
  <2>4. rnd'[j.r].status = "drawn" => rnd'[j.r].folded
    BY <1>0, <1>1, <1>2, <2>1 DEF Folds
  <2>5. DrawFoldsBeacon'
    BY <1>2, <2>1, <2>4 DEF DrawFoldsBeacon
  <2> QED BY <2>2, <2>3, <2>5
<1> QED BY <1>2, <1>5, <1>8, <1>9, <1>10

(* So does that of a process that was replaced; the engine may be driving  *)
(* the same round, and finds it taken.                                     *)
LEMMA ZombieStep ==
  ASSUME JackpotInv, ZombieSettles, windows' = windows
  PROVE  JackpotInv'
<1> USE DEF JackpotInv
<1>0. /\ zombie \in Jobs /\ zombie.r \in Rounds /\ SettleTx(zombie) /\ zombie' = NoJob
      /\ eng' = eng /\ req' = req /\ passed' = passed /\ faults' = faults
  BY Types DEF ZombieSettles, Known
<1>1. PICK j \in Jobs : j = zombie
  BY <1>0
<1>2. /\ AccountTypeOK' /\ PotConserved' /\ rnd' \in [Rounds -> Rows]
      /\ rnd[j.r].status = "open" /\ rnd'[j.r].status \in {"drawn", "refunded"}
      /\ rnd'[j.r].entries = rnd[j.r].entries
      /\ \A r \in Rounds \ {j.r} : rnd'[r] = rnd[r]
      /\ rnd'[j.r].status = "drawn" =>
           /\ rnd'[j.r].folded = j.fold /\ ~j.refund
           /\ Cardinality(rnd[j.r].entries) >= MinPlayers
  BY <1>0, <1>1, SettleTxKeeps
<1>3. j.r \in Rounds /\ zombie # NoJob /\ eng \in Rams
  BY <1>0, <1>1, Types DEF ZombieSettles
<1>4. TypeOK'
  BY <1>0, <1>2, Bounds DEF TypeOK, Rows, Jobs
<1>5. \A r \in Rounds : /\ rnd'[r].status = "none" <=> rnd[r].status = "none"
                        /\ rnd'[r].entries = rnd[r].entries
                        /\ rnd'[r].status = "open" => rnd[r].status = "open" /\ r # j.r
                        /\ rnd'[r].status = "open" => rnd'[r] = rnd[r]
  BY <1>2, <1>3
<1>6. eng.live # 0 => eng.live \in Rounds
  BY <1>3, Bounds DEF Rams, Rounds
<1>7. Known'
  BY <1>0, <1>3, <1>5, <1>6 DEF Known, Rams
<1>8. Drives' => Drives /\ rnd'[eng.cur] = rnd[eng.cur]
  BY <1>0, <1>5 DEF Drives, Known
<1>9. Drives /\ eng.cur # j.r => Drives'
  BY <1>0, <1>2 DEF Drives, Known
<1>10. OneDriver'
  <2>1. \A r \in Rounds : rnd'[r].status = "open" /\ Drives /\ eng.cur = r => Drives'
    BY <1>5, <1>9
  <2> QED BY <1>0, <1>5, <1>8, <2>1 DEF OneDriver, Known
<1>11. InStep'
  <2> SUFFICES ASSUME windows = {}
               PROVE  PlayersInStep' /\ ClockInRam' /\ ClockInRow' /\ Folds(eng.job)'
                        /\ DrawFoldsBeacon'
    BY <1>0 DEF InStep, Folds
  <2>1. /\ Folds(eng.job) /\ Folds(zombie) /\ ClockInRow /\ DrawFoldsBeacon
        /\ PlayersInStep /\ ClockInRam
    BY DEF InStep
  <2>2. PlayersInStep' /\ ClockInRam'
    BY <1>0, <1>8, <2>1 DEF PlayersInStep, ClockInRam, Pending
  <2>3. ClockInRow'
    BY <1>0, <1>5, <1>9, <2>1 DEF ClockInRow
  <2>4. Folds(eng.job)'
    BY <1>0, <1>5, <2>1 DEF Folds, Known
  <2>5. rnd'[j.r].status = "drawn" => rnd'[j.r].folded
    BY <1>1, <1>2, <1>3, <2>1 DEF Folds
  <2>6. DrawFoldsBeacon'
    BY <1>2, <2>1, <2>5 DEF DrawFoldsBeacon
  <2> QED BY <2>2, <2>3, <2>4, <2>6
<1> QED BY <1>2, <1>4, <1>7, <1>10, <1>11

(* A new round has no players and no clock.                                *)
LEMMA OpenStep ==
  ASSUME JackpotInv, OpenNewRound, windows' = windows
  PROVE  JackpotInv'
<1> USE DEF JackpotInv
<1>1. PICK r \in Rounds :
        /\ rnd[r].status = "none" /\ rnd' = [rnd EXCEPT ![r].status = "open"]
        /\ eng' = [eng EXCEPT !.cur = r, !.open = TRUE, !.players = {}, !.close = "none",
                              !.fails = 0, !.boot = "idle"]
  BY DEF OpenNewRound
<1>2. /\ UNCHANGED <<accountVars, passed, zombie, req, faults>> /\ eng.boot = "open"
      /\ eng \in Rams /\ rnd \in [Rounds -> Rows] /\ rnd[r] \in Rows
      /\ rnd[r].entries = {} /\ ~Drives
  <2>1. UNCHANGED <<accountVars, passed, zombie, req, faults>> /\ eng.boot = "open"
    BY DEF OpenNewRound
  <2>2. eng \in Rams /\ rnd \in [Rounds -> Rows] /\ rnd[r] \in Rows
    BY Types
  <2>3. rnd[r].entries = {}
    BY <1>1 DEF Known
  <2>4. ~Drives
    BY <2>1 DEF OneDriver
  <2> QED BY <2>1, <2>2, <2>3, <2>4
<1>3. /\ eng' \in Rams /\ eng'.cur = r /\ eng'.open = TRUE /\ eng'.players = {}
      /\ eng'.boot = "idle" /\ eng'.live = eng.live /\ eng'.todo = eng.todo
      /\ eng'.job = eng.job
  BY <1>1, <1>2, Bounds DEF Rams, Deadlines
<1>4. /\ rnd'[r] = [rnd[r] EXCEPT !.status = "open"]
      /\ \A q \in Rounds \ {r} : rnd'[q] = rnd[q]
  BY <1>1, <1>2
<1>5. rnd'[r] \in Rows /\ rnd'[r].status = "open" /\ rnd'[r].entries = {}
  BY <1>2, <1>4 DEF Rows
<1>6. rnd' \in [Rounds -> Rows]
  BY <1>1, <1>2, <1>5
<1>7. TypeOK'
  BY <1>2, <1>3, <1>6 DEF TypeOK, Rams, Rows, AccountTypeOK, accountVars
<1>8. \A q \in Rounds : rnd[q].status # "none" => q # r /\ rnd'[q] = rnd[q]
  BY <1>1, <1>4
<1>9. Known'
  <2>1. eng.live # 0 => eng.live \in Rounds
    BY <1>2, Bounds DEF Rams, Rounds
  <2>2. eng.todo \subseteq Rounds
    BY <1>2 DEF Rams
  <2>3. \A q \in Rounds : /\ IsFiniteSet(rnd'[q].entries)
                          /\ rnd'[q].status = "none" => rnd'[q].entries = {}
    BY <1>4, <1>5, FS_EmptySet DEF Known
  <2>4. \A q \in eng.todo : rnd'[q].status # "none"
    BY <1>8, <2>2 DEF Known
  <2>5. eng.live # 0 => rnd'[eng.live].status # "none"
    BY <1>8, <2>1 DEF Known
  <2>6. \A j \in {eng.job, zombie} : j # NoJob => j.r \in Rounds /\ rnd'[j.r].status # "none"
    BY <1>8 DEF Known
  <2>7. \A u \in Users : req[u].at # "none" => req[u].r \in Rounds /\ rnd'[req[u].r].status # "none"
    BY <1>8 DEF Known
  <2> QED BY <1>2, <1>3, <1>5, <2>3, <2>4, <2>5, <2>6, <2>7 DEF Known
<1>10. Drives'
  BY <1>3, <1>5 DEF Drives
<1>11. OneDriver'
  BY <1>2, <1>3, <1>8, <1>10 DEF OneDriver, Known
<1>12. PotConserved'
  <2>1. \A u \in Users : OpenIn(u)' = OpenIn(u)
    BY <1>1, <1>4, <1>5 DEF OpenIn
  <2> QED BY <1>2, <2>1, PotKept
<1>13. InStep'
  <2> SUFFICES ASSUME windows = {}
               PROVE  PlayersInStep' /\ ClockInRam' /\ ClockInRow' /\ Folds(eng.job)'
                        /\ Folds(zombie)' /\ DrawFoldsBeacon'
    BY DEF InStep
  <2>1. Folds(eng.job) /\ Folds(zombie) /\ ClockInRow /\ DrawFoldsBeacon
    BY DEF InStep
  <2>2. Pending(r)' = {}
    BY <1>1, <1>2 DEF Pending, Known
  <2>3. PlayersInStep' /\ ClockInRam'
    BY <1>3, <1>5, <2>2 DEF PlayersInStep, ClockInRam
  <2>4. ClockInRow'
    BY <1>2, <1>3, <1>4, <1>5, <1>10, <2>1 DEF ClockInRow
  <2>5. Folds(eng.job)' /\ Folds(zombie)'
    BY <1>2, <1>3, <1>8, <2>1 DEF Folds, Known
  <2>6. DrawFoldsBeacon'
    BY <1>4, <1>5, <2>1 DEF DrawFoldsBeacon
  <2> QED BY <2>3, <2>4, <2>5, <2>6
<1> QED BY <1>7, <1>9, <1>11, <1>12, <1>13

-----------------------------------------------------------------------------
(* Players entering. *)

(* A request begins for the round being driven, or ends without a notice   *)
(* pending.                                                                *)
LEMMA RequestStep ==
  ASSUME JackpotInv, windows' = windows, NEW u \in Users, Check(u) \/ Refuse(u)
  PROVE  JackpotInv'
<1> USE DEF JackpotInv
<1>0. /\ UNCHANGED <<accountVars, rnd, passed, eng, zombie, faults>>
      /\ eng \in Rams
      /\ req \in [Users -> [at : {"none", "checked", "entered"}, r : 0 .. MaxRound]]
  BY Types DEF Check, Refuse
<1>1. PICK x \in [at : {"none", "checked"}, r : 0 .. MaxRound] :
        /\ req' = [req EXCEPT ![u] = x] /\ req[u].at # "entered"
        /\ x.at # "none" => eng.open /\ x.r = eng.cur
  <2>1. CASE Check(u)
    <3>1. /\ req' = [req EXCEPT ![u] = [at |-> "checked", r |-> eng.cur]]
          /\ req[u].at = "none" /\ eng.open
      BY <2>1 DEF Check
    <3>2. [at |-> "checked", r |-> eng.cur] \in [at : {"none", "checked"}, r : 0 .. MaxRound]
      BY <1>0 DEF Rams
    <3> QED BY <3>1, <3>2
  <2>2. CASE Refuse(u)
    <3>1. req' = [req EXCEPT ![u] = NoReq] /\ req[u].at = "checked"
      BY <2>2 DEF Refuse
    <3>2. NoReq \in [at : {"none", "checked"}, r : 0 .. MaxRound] /\ NoReq.at = "none"
      BY Bounds DEF NoReq
    <3> QED BY <3>1, <3>2
  <2> QED BY <2>1, <2>2
<1>2. /\ req'[u] = x /\ \A v \in Users \ {u} : req'[v] = req[v]
      /\ req' \in [Users -> [at : {"none", "checked", "entered"}, r : 0 .. MaxRound]]
  BY <1>0, <1>1
<1>3. TypeOK'
  BY <1>0, <1>2 DEF TypeOK, AccountTypeOK, accountVars
<1>4. Known'
  BY <1>0, <1>1, <1>2 DEF Known
<1>5. Drives' <=> Drives
  BY <1>0 DEF Drives
<1>6. OneDriver'
  <2>1. \A v \in Users : req'[v].at # "none" /\ rnd[req'[v].r].status = "open" =>
          Drives /\ eng.cur = req'[v].r
    BY <1>1, <1>2 DEF OneDriver, Drives
  <2> QED BY <1>0, <1>5, <2>1 DEF OneDriver
<1>7. PotConserved'
  BY <1>0, PotKept DEF OpenIn
<1>8. \A r : Pending(r)' = Pending(r)
  BY <1>1, <1>2 DEF Pending
<1>9. InStep'
  BY <1>0, <1>5, <1>8
  DEF InStep, PlayersInStep, ClockInRam, ClockInRow, Folds, DrawFoldsBeacon
<1> QED BY <1>3, <1>4, <1>6, <1>7, <1>9

(* An entry commits: the debit and the entry in one transaction, into the  *)
(* round being driven; with the windows closed nothing is settling it.     *)
LEMMA EnterStep ==
  ASSUME JackpotInv, windows' = windows, NEW u \in Users, EnterTx(u)
  PROVE  JackpotInv'
<1> USE DEF JackpotInv
<1> DEFINE r == req[u].r
<1>0. /\ UNCHANGED <<totalWon, totalLost, passed, eng, zombie, faults>>
      /\ req[u].at = "checked" /\ rnd[r].status = "open" /\ u \notin rnd[r].entries
      /\ bal[u] >= Entry /\ bal' = [bal EXCEPT ![u] = @ - Entry]
      /\ rnd' = [rnd EXCEPT ![r].entries = @ \cup {u}]
      /\ req' = [req EXCEPT ![u].at = "entered"]
      /\ windows = {} => r # eng.job.r /\ r # zombie.r
  BY DEF EnterTx, StillOpen, CanDebit, Hit
<1>1. /\ eng \in Rams /\ rnd \in [Rounds -> Rows] /\ r \in Rounds /\ rnd[r] \in Rows
      /\ req \in [Users -> [at : {"none", "checked", "entered"}, r : 0 .. MaxRound]]
      /\ bal \in [Users -> Nat] /\ totalWon \in [Users -> Nat] /\ totalLost \in [Users -> Nat]
      /\ Entry \in Nat /\ Funds \in Nat
  <2>1. r \in Rounds
    BY <1>0 DEF Known
  <2> QED BY <2>1, Types, Bounds, FundsAssumption DEF AccountTypeOK
<1>2. Drives /\ eng.cur = r
  BY <1>0 DEF OneDriver
<1>3. PICK k : k = r
  OBVIOUS
<1> HIDE DEF r
<1>4. /\ rnd'[k] = [rnd[k] EXCEPT !.entries = @ \cup {u}]
      /\ \A q \in Rounds \ {k} : rnd'[q] = rnd[q]
  BY <1>0, <1>1, <1>3
<1>5. /\ rnd'[k] \in Rows /\ rnd'[k].status = "open" /\ rnd'[k].close = rnd[k].close
      /\ rnd'[k].entries = rnd[k].entries \cup {u} /\ rnd'[k].folded = rnd[k].folded
  BY <1>0, <1>1, <1>3, <1>4 DEF Rows
<1>6. rnd' \in [Rounds -> Rows]
  BY <1>0, <1>1, <1>3, <1>5
<1>7. /\ req'[u] = [at |-> "entered", r |-> k] /\ \A v \in Users \ {u} : req'[v] = req[v]
      /\ req' \in [Users -> [at : {"none", "checked", "entered"}, r : 0 .. MaxRound]]
  <2>1. req'[u] = [req[u] EXCEPT !.at = "entered"] /\ \A v \in Users \ {u} : req'[v] = req[v]
    BY <1>0, <1>1
  <2>2. req[u] \in [at : {"none", "checked", "entered"}, r : 0 .. MaxRound] /\ req[u].r = k
    BY <1>1, <1>3 DEF r
  <2>3. req'[u] = [at |-> "entered", r |-> k]
    BY <2>1, <2>2
  <2>4. req'[u] \in [at : {"none", "checked", "entered"}, r : 0 .. MaxRound]
    BY <2>2, <2>3
  <2> QED BY <1>0, <1>1, <2>1, <2>3, <2>4
<1>8. AccountTypeOK'
  BY <1>0, <1>1 DEF AccountTypeOK
<1>9. TypeOK'
  BY <1>0, <1>6, <1>7, <1>8 DEF TypeOK, Rows
<1>10. \A q \in Rounds : /\ rnd'[q].status = rnd[q].status
                         /\ rnd'[q].close = rnd[q].close /\ rnd'[q].folded = rnd[q].folded
  BY <1>0, <1>3, <1>4, <1>5
<1>11. Known'
  <2>1. \A q \in Rounds : /\ IsFiniteSet(rnd'[q].entries)
                          /\ rnd'[q].status = "none" => rnd'[q].entries = {}
    <3>1. IsFiniteSet(rnd[k].entries) /\ k \in Rounds
      BY <1>1, <1>3 DEF Known
    <3>2. IsFiniteSet(rnd'[k].entries)
      BY <1>5, <3>1, FS_AddElement
    <3> QED BY <1>4, <1>5, <3>2 DEF Known
  <2>2. eng.live # 0 => eng.live \in Rounds
    BY <1>1, Bounds DEF Rams, Rounds
  <2>3. eng.todo \subseteq Rounds
    BY <1>1 DEF Rams
  <2>4. \A v \in Users : req'[v].at # "none" => req'[v].r \in Rounds /\ rnd'[req'[v].r].status # "none"
    BY <1>0, <1>1, <1>3, <1>7, <1>10 DEF Known
  <2>5. \A j \in {eng.job, zombie} : j # NoJob => j.r \in Rounds /\ rnd'[j.r].status # "none"
    BY <1>10 DEF Known
  <2>6. /\ eng.open => eng.cur \in Rounds /\ rnd'[eng.cur].status # "none"
        /\ eng.live # 0 => rnd'[eng.live].status # "none"
        /\ \A q \in eng.todo : rnd'[q].status # "none"
    BY <1>10, <2>2, <2>3 DEF Known
  <2> QED BY <1>0, <2>1, <2>4, <2>5, <2>6 DEF Known
<1>12. Drives' <=> Drives
  BY <1>0, <1>10 DEF Drives, Known
<1>13. OneDriver'
  <2>1. \A v \in Users : req'[v].at # "none" /\ rnd'[req'[v].r].status = "open" =>
          Drives /\ eng.cur = req'[v].r
    BY <1>2, <1>3, <1>7, <1>10 DEF OneDriver, Known
  <2>2. eng.job # NoJob /\ rnd'[eng.job.r].status = "open" => Drives /\ eng.cur = eng.job.r
    BY <1>10 DEF OneDriver, Known
  <2> QED BY <1>0, <1>12, <2>1, <2>2 DEF OneDriver
<1>14. PotConserved'
  <2>1. ASSUME NEW v \in Users
        PROVE  /\ Cardinality(OpenIn(v)) \in Nat
               /\ Cardinality(OpenIn(v)') = Cardinality(OpenIn(v)) + (IF v = u THEN 1 ELSE 0)
    <3>1. CASE v = u
      <4>1. OpenIn(v)' = OpenIn(v) \cup {k} /\ k \notin OpenIn(v)
        BY <1>0, <1>1, <1>3, <1>4, <1>5, <3>1 DEF OpenIn
      <4> QED BY <3>1, <4>1, OpenInFinite, FS_AddElement
    <3>2. CASE v # u
      <4>1. OpenIn(v)' = OpenIn(v)
        BY <1>0, <1>1, <1>3, <1>4, <1>5, <3>2 DEF OpenIn
      <4> QED BY <3>2, <4>1, OpenInFinite
    <3> QED BY <3>1, <3>2
  <2>2. ASSUME NEW v \in Users
        PROVE  bal'[v] = Funds + totalWon'[v] - totalLost'[v] - Entry * Cardinality(OpenIn(v)')
    <3>1. /\ bal[v] = Funds + totalWon[v] - totalLost[v] - Entry * Cardinality(OpenIn(v))
      BY DEF PotConserved, OpenIn
    <3>2. /\ bal[v] \in Nat /\ totalWon'[v] = totalWon[v] /\ totalLost'[v] = totalLost[v]
          /\ totalWon[v] \in Nat /\ totalLost[v] \in Nat
          /\ bal'[v] = bal[v] - (IF v = u THEN Entry ELSE 0)
      BY <1>0, <1>1
    <3>3. \A e, c \in Nat : e * c \in Nat
      OBVIOUS
    <3>4. /\ Entry * Cardinality(OpenIn(v)) \in Nat
          /\ Entry * Cardinality(OpenIn(v)') =
               Entry * Cardinality(OpenIn(v)) + (IF v = u THEN Entry ELSE 0)
      <4>1. Entry * Cardinality(OpenIn(v)) \in Nat
        BY <1>1, <2>1, <3>3
      <4>2. CASE v = u
        BY <1>1, <2>1, <4>1, <4>2, OneEntryLess
      <4>3. CASE v # u
        BY <1>1, <2>1, <4>1, <4>3
      <4> QED BY <4>1, <4>2, <4>3
    <3> QED BY <1>1, <3>1, <3>2, <3>4
  <2> QED BY <2>2 DEF PotConserved, OpenIn
<1>15. InStep'
  <2> SUFFICES ASSUME windows = {}
               PROVE  PlayersInStep' /\ ClockInRam' /\ ClockInRow' /\ Folds(eng.job)'
                        /\ Folds(zombie)' /\ DrawFoldsBeacon'
    BY DEF InStep
  <2>1. /\ Folds(eng.job) /\ Folds(zombie) /\ ClockInRow /\ DrawFoldsBeacon
        /\ PlayersInStep /\ ClockInRam
    BY DEF InStep
  <2>2. Pending(k)' = Pending(k) \cup {u}
    BY <1>7 DEF Pending
  <2>3. PlayersInStep'
    BY <1>0, <1>2, <1>3, <1>5, <2>1, <2>2 DEF PlayersInStep
  <2>4. ClockInRam'
    BY <1>0, <1>12, <2>1 DEF ClockInRam
  <2>5. ClockInRow'
    BY <1>0, <1>2, <1>3, <1>4, <1>12, <2>1 DEF ClockInRow
  <2>6. Folds(eng.job)' /\ Folds(zombie)'
    BY <1>0, <1>3, <1>4, <2>1 DEF Folds, Known
  <2>7. DrawFoldsBeacon'
    BY <1>10, <2>1 DEF DrawFoldsBeacon
  <2> QED BY <2>3, <2>4, <2>5, <2>6, <2>7
<1> QED BY <1>9, <1>11, <1>13, <1>14, <1>15

(* The clock after an entry is never "none" again: the first player starts *)
(* a wait, and a round with players has a clock already.                   *)
LEMMA ClockStarts ==
  ASSUME NEW S, NEW u, NEW close \in Deadlines, S # {} => close # "none"
  PROVE  /\ Clock(Cardinality(S), Cardinality(S \cup {u}), close) \in Deadlines \ {"none"}
<1>1. CASE S = {}
  <2>1. Cardinality(S) = 0 /\ Cardinality(S \cup {u}) = 1
    BY <1>1, FS_EmptySet, FS_Singleton
  <2> QED BY <2>1, Bounds DEF Clock, Deadlines
<1>2. CASE S # {}
  BY <1>2 DEF Clock, Deadlines
<1> QED BY <1>1, <1>2

(* In any case it is a deadline.                                           *)
LEMMA ClockType ==
  ASSUME NEW S, NEW T, NEW close \in Deadlines
  PROVE  Clock(Cardinality(S), Cardinality(T), close) \in Deadlines
  BY DEF Clock, Deadlines

(* The engine is told of an entry, and the row of the clock, or not.       *)
LEMMA NoticeStep ==
  ASSUME JackpotInv, windows' = windows, NEW u \in Users, NEW stored \in BOOLEAN,
         OnEntry(u, stored), UNCHANGED <<accountVars, passed, zombie>>,
         faults' \in 0 .. MaxFaults
  PROVE  JackpotInv'
<1> USE DEF JackpotInv
<1>0. /\ eng \in Rams /\ rnd \in [Rounds -> Rows]
      /\ req \in [Users -> [at : {"none", "checked", "entered"}, r : 0 .. MaxRound]]
  BY Types
<1>1. PICK k \in Rounds : k = req[u].r
  BY DEF OnEntry, Known
<1>2. PICK close \in Deadlines :
        close = Clock(Cardinality(eng.players), Cardinality(eng.players \cup {u}), eng.close)
  BY <1>0, ClockType DEF Rams
<1>3. /\ req[u] = [at |-> "entered", r |-> k]
      /\ req' = [req EXCEPT ![u] = NoReq]
  BY <1>0, <1>1 DEF OnEntry
<1>4. \/ /\ eng.cur = k /\ eng.open
         /\ eng' = [eng EXCEPT !.players = eng.players \cup {u}, !.close = close]
         /\ rnd' = IF stored /\ close # eng.close THEN [rnd EXCEPT ![k].close = close] ELSE rnd
      \/ ~(eng.cur = k /\ eng.open) /\ eng' = eng /\ rnd' = rnd
  BY <1>1, <1>2 DEF OnEntry
<1>5. /\ eng' \in Rams /\ eng'.cur = eng.cur /\ eng'.open = eng.open /\ eng'.boot = eng.boot
      /\ eng'.job = eng.job /\ eng'.live = eng.live /\ eng'.todo = eng.todo
      /\ eng.cur = k /\ eng.open => eng'.players = eng.players \cup {u} /\ eng'.close = close
      /\ ~(eng.cur = k /\ eng.open) => eng'.players = eng.players /\ eng'.close = eng.close
  <2>1. CASE eng' = eng /\ ~(eng.cur = k /\ eng.open)
    BY <1>0, <2>1
  <2>2. CASE /\ eng' = [eng EXCEPT !.players = eng.players \cup {u}, !.close = close]
             /\ eng.cur = k /\ eng.open
    <3>1. eng.players \cup {u} \in SUBSET Users
      BY <1>0 DEF Rams
    <3>2. eng' \in Rams
      BY <1>0, <2>2, <3>1 DEF Rams
    <3>3. /\ eng'.cur = eng.cur /\ eng'.open = eng.open /\ eng'.boot = eng.boot
          /\ eng'.job = eng.job /\ eng'.live = eng.live /\ eng'.todo = eng.todo
          /\ eng'.players = eng.players \cup {u} /\ eng'.close = close
      BY <1>0, <2>2 DEF Rams
    <3> QED BY <2>2, <3>2, <3>3
  <2> QED BY <1>4, <2>1, <2>2
<1>6. /\ rnd' \in [Rounds -> Rows]
      /\ \A q \in Rounds : /\ rnd'[q].status = rnd[q].status /\ rnd'[q].folded = rnd[q].folded
                           /\ rnd'[q].entries = rnd[q].entries
                           /\ rnd'[q].close # rnd[q].close => q = k /\ eng.cur = k /\ eng.open
  <2>1. CASE rnd' = rnd
    BY <1>0, <2>1
  <2>2. CASE rnd' = [rnd EXCEPT ![k].close = close] /\ eng.cur = k /\ eng.open
    <3>1. rnd[k] \in Rows /\ rnd'[k] = [rnd[k] EXCEPT !.close = close]
      BY <1>0, <2>2
    <3>2. /\ rnd'[k] \in Rows /\ rnd'[k].status = rnd[k].status
          /\ rnd'[k].folded = rnd[k].folded /\ rnd'[k].entries = rnd[k].entries
      BY <3>1 DEF Rows
    <3>3. \A q \in Rounds \ {k} : rnd'[q] = rnd[q]
      BY <1>0, <2>2
    <3>4. rnd' \in [Rounds -> Rows]
      BY <1>0, <2>2, <3>2
    <3> QED BY <2>2, <3>2, <3>3, <3>4
  <2> QED BY <1>4, <2>1, <2>2
<1>7. /\ req'[u] = NoReq /\ \A v \in Users \ {u} : req'[v] = req[v]
      /\ req' \in [Users -> [at : {"none", "checked", "entered"}, r : 0 .. MaxRound]]
      /\ NoReq.at = "none"
  <2>1. NoReq \in [at : {"none", "checked", "entered"}, r : 0 .. MaxRound] /\ NoReq.at = "none"
    BY Bounds DEF NoReq
  <2> QED BY <1>0, <1>3, <2>1
<1>8. TypeOK'
  BY <1>5, <1>6, <1>7 DEF TypeOK, Rams, Rows, AccountTypeOK, accountVars
<1>9. Known'
  <2>1. eng.live # 0 => eng.live \in Rounds
    BY <1>0, Bounds DEF Rams, Rounds
  <2>2. eng.todo \subseteq Rounds
    BY <1>0 DEF Rams
  <2>3. \A v \in Users : req'[v].at # "none" => req'[v].r \in Rounds /\ rnd'[req'[v].r].status # "none"
    BY <1>6, <1>7 DEF Known
  <2>4. \A j \in {eng.job, zombie} : j # NoJob => j.r \in Rounds /\ rnd'[j.r].status # "none"
    BY <1>6 DEF Known
  <2>5. /\ eng.open => eng.cur \in Rounds /\ rnd'[eng.cur].status # "none"
        /\ eng.live # 0 => rnd'[eng.live].status # "none"
        /\ \A q \in eng.todo : rnd'[q].status # "none"
    BY <1>6, <2>1, <2>2 DEF Known
  <2>6. \A q \in Rounds : /\ IsFiniteSet(rnd'[q].entries)
                          /\ rnd'[q].status = "none" => rnd'[q].entries = {}
    BY <1>6 DEF Known
  <2> QED BY <1>5, <2>3, <2>4, <2>5, <2>6 DEF Known
<1>10. Drives' <=> Drives
  BY <1>5, <1>6 DEF Drives, Known
<1>11. OneDriver'
  <2>1. \A v \in Users : req'[v].at # "none" /\ rnd'[req'[v].r].status = "open" =>
          Drives /\ eng.cur = req'[v].r
    BY <1>6, <1>7 DEF OneDriver, Known
  <2>2. eng.job # NoJob /\ rnd'[eng.job.r].status = "open" => Drives /\ eng.cur = eng.job.r
    BY <1>6 DEF OneDriver, Known
  <2> QED BY <1>5, <1>10, <2>1, <2>2 DEF OneDriver
<1>12. PotConserved'
  <2>1. \A v \in Users : OpenIn(v)' = OpenIn(v)
    BY <1>6 DEF OpenIn
  <2> QED BY <2>1, PotKept
<1>13. InStep'
  <2> SUFFICES ASSUME windows = {}
               PROVE  PlayersInStep' /\ ClockInRam' /\ ClockInRow' /\ Folds(eng.job)'
                        /\ Folds(zombie)' /\ DrawFoldsBeacon'
    BY DEF InStep
  <2>1. /\ Folds(eng.job) /\ Folds(zombie) /\ ClockInRow /\ DrawFoldsBeacon
        /\ PlayersInStep /\ ClockInRam
    BY DEF InStep
  <2>2. \A q \in Rounds : Pending(q)' = Pending(q) \ (IF q = k THEN {u} ELSE {})
    BY <1>3, <1>7, Bounds DEF Pending
  <2>3. PlayersInStep'
    <3> SUFFICES ASSUME Drives
                 PROVE  rnd'[eng.cur].entries = eng'.players \cup Pending(eng.cur)'
      BY <1>5, <1>10 DEF PlayersInStep, Pending
    <3>1. eng.cur \in Rounds /\ eng.open
      BY DEF Drives, Known
    <3>2. rnd'[eng.cur].entries = eng.players \cup Pending(eng.cur)
      BY <1>6, <2>1, <3>1 DEF PlayersInStep
    <3>3. u \in Pending(k)
      BY <1>3 DEF Pending
    <3>4. CASE eng.cur = k
      BY <1>5, <2>2, <3>1, <3>2, <3>3, <3>4
    <3>5. CASE eng.cur # k
      BY <1>5, <2>2, <3>1, <3>2, <3>5
    <3> QED BY <3>4, <3>5
  <2>4. ClockInRam'
    <3>1. CASE eng.cur = k /\ eng.open /\ Drives
      <4>1. close # "none"
        BY <1>0, <1>2, <2>1, <3>1, ClockStarts DEF ClockInRam, Rams
      <4> QED BY <1>5, <3>1, <4>1 DEF ClockInRam
    <3>2. CASE ~(eng.cur = k /\ eng.open)
      BY <1>5, <1>10, <2>1, <3>2 DEF ClockInRam
    <3> QED BY <1>10, <3>1, <3>2 DEF ClockInRam
  <2>5. ClockInRow'
    BY <1>5, <1>6, <1>10, <2>1 DEF ClockInRow, Drives
  <2>6. Folds(eng.job)' /\ Folds(zombie)'
    BY <1>5, <1>6, <2>1 DEF Folds, Known
  <2>7. DrawFoldsBeacon'
    BY <1>6, <2>1 DEF DrawFoldsBeacon
  <2> QED BY <2>3, <2>4, <2>5, <2>6, <2>7
<1> QED BY <1>8, <1>9, <1>11, <1>12, <1>13

-----------------------------------------------------------------------------
(* A process dies or sleeps: RAM and requests are gone.  With the windows  *)
(* closed no notice is pending and the row has the clock RAM had.          *)
LEMMA RestartStep ==
  ASSUME JackpotInv, windows' = windows, UNCHANGED <<accountVars, rnd, passed>>, Kept,
         eng' = Booting, req' = [u \in Users |-> NoReq],
         zombie' \in {zombie, eng.job}, faults' \in 0 .. MaxFaults
  PROVE  JackpotInv'
<1> USE DEF JackpotInv
<1>0. eng \in Rams /\ eng.job \in Jobs /\ zombie' \in Jobs
  BY Types DEF Rams, Jobs
<1>1. /\ eng' \in Rams /\ eng'.open = FALSE /\ eng'.live = 0 /\ eng'.todo = {}
      /\ eng'.job = NoJob
  BY Bounds DEF Booting, Rams, Jobs, Deadlines
<1>2. /\ req' \in [Users -> [at : {"none", "checked", "entered"}, r : 0 .. MaxRound]]
      /\ \A u \in Users : req'[u].at = "none"
  BY Bounds DEF NoReq
<1>3. TypeOK'
  BY <1>0, <1>1, <1>2 DEF TypeOK, Rams, Jobs, AccountTypeOK, accountVars
<1>4. Known'
  BY <1>1, <1>2 DEF Known
<1>5. ~Drives' /\ OneDriver'
  BY <1>1, <1>2 DEF OneDriver, Drives
<1>6. PotConserved'
  BY PotKept DEF OpenIn
<1>7. ASSUME windows = {} PROVE ClockInRow'
  <2>1. PlayersInStep /\ ClockInRam /\ ClockInRow
    BY <1>7 DEF InStep
  <2>2. /\ \A u \in Users : req[u].at # "entered"
        /\ eng.open => eng.close = rnd[eng.cur].close
    BY <1>7 DEF Kept, Hit
  <2>3. Drives => rnd[eng.cur].entries = eng.players
    <3>1. Pending(eng.cur) = {}
      BY <2>2 DEF Pending
    <3> QED BY <2>1, <3>1 DEF PlayersInStep
  <2>4. Drives /\ rnd[eng.cur].entries # {} => rnd[eng.cur].close # "none"
    BY <2>1, <2>2, <2>3 DEF ClockInRam, Drives
  <2> QED BY <2>1, <2>4 DEF ClockInRow
<1>8. InStep'
  BY <1>1, <1>5, <1>7 DEF InStep, PlayersInStep, ClockInRam, Folds, DrawFoldsBeacon
<1> QED BY <1>3, <1>4, <1>5, <1>6, <1>8

(* A failure is counted while there are any left.                          *)
LEMMA FaultBound == ASSUME TypeOK, Fault PROVE faults' \in 0 .. MaxFaults
  BY JackpotAssumption DEF TypeOK, Fault

(* The initial states.                                                     *)
LEMMA JackpotInit == Init => JackpotInv
<1> SUFFICES ASSUME Init PROVE JackpotInv
  OBVIOUS
<1>1. /\ eng \in Rams /\ eng.open = FALSE /\ eng.live = 0 /\ eng.todo = {}
      /\ eng.job = NoJob /\ zombie = NoJob /\ NoJob \in Jobs
  BY Bounds DEF Init, Booting, Rams, Jobs, Deadlines
<1>2. /\ rnd \in [Rounds -> Rows]
      /\ \A r \in Rounds : rnd[r].status = "none" /\ rnd[r].entries = {}
  BY DEF Init, Rows, Deadlines
<1>3. /\ req \in [Users -> [at : {"none", "checked", "entered"}, r : 0 .. MaxRound]]
      /\ \A u \in Users : req[u].at = "none"
  BY Bounds DEF Init, NoReq
<1>4. TypeOK
  <2>1. AccountTypeOK
    BY FundsAssumption DEF Init, AccountInit, AccountTypeOK
  <2>2. passed \subseteq Rounds \X Deadlines /\ faults \in 0 .. MaxFaults /\ windows \subseteq WindowNames
    BY JackpotAssumption DEF Init
  <2> QED BY <1>1, <1>2, <1>3, <2>1, <2>2, Types
<1>5. Known /\ OneDriver
  BY <1>1, <1>2, <1>3, FS_EmptySet DEF Known, OneDriver, Drives
<1>6. PotConserved
  <2>1. \A u \in Users : OpenIn(u) = {}
    BY <1>2 DEF OpenIn
  <2>2. \A u \in Users : bal[u] = Funds /\ totalWon[u] = 0 /\ totalLost[u] = 0
    BY DEF Init, AccountInit
  <2>3. Cardinality({}) = 0 /\ Entry * 0 = 0
    BY FS_EmptySet, Bounds
  <2>4. \A u \in Users : bal[u] = Funds + totalWon[u] - totalLost[u] - Entry * Cardinality(OpenIn(u))
    <3> SUFFICES ASSUME NEW u \in Users
                 PROVE  bal[u] = Funds + totalWon[u] - totalLost[u] - Entry * Cardinality(OpenIn(u))
      OBVIOUS
    <3>1. Entry * Cardinality(OpenIn(u)) = 0
      BY <2>1, <2>3
    <3> QED BY <2>2, <3>1, FundsAssumption
  <2> QED BY <2>4 DEF PotConserved, OpenIn
<1>7. InStep
  BY <1>1, <1>2 DEF InStep, PlayersInStep, ClockInRam, ClockInRow, Folds, DrawFoldsBeacon, Drives
<1> QED BY <1>4, <1>5, <1>6, <1>7 DEF JackpotInv

(* The boot's own steps.                                                   *)
LEMMA BootSteps ==
  ASSUME JackpotInv, windows' = windows,
         \/ Scan \/ ScanFails \/ ReplayFails \/ Resume \/ ResumeFails
         \/ NoMoreRounds \/ OpenFails \/ Replay
  PROVE  JackpotInv'
<1>0. eng \in Rams /\ TypeOK /\ Known /\ faults \in 0 .. MaxFaults /\ MaxFaults \in Nat
  BY Types, JackpotAssumption DEF JackpotInv
<1>1. /\ passed' = passed /\ zombie' = zombie /\ Quiet
      /\ eng.boot \in {"scan", "replay", "open"}
  BY DEF Scan, ScanFails, ReplayFails, Resume, ResumeFails, NoMoreRounds, OpenFails, Replay, Quiet
<1>2. ~Drives
  BY <1>1 DEF JackpotInv, OneDriver
<1>3. faults' \in 0 .. MaxFaults
  BY <1>0, FaultBound
  DEF Scan, ScanFails, ReplayFails, Resume, ResumeFails, NoMoreRounds, OpenFails, Replay
<1>4. CASE Scan
  <2>1. PICK stranded, running, live :
          /\ stranded = {r \in Rounds : rnd[r].status = "open"}
          /\ running = {r \in stranded : ~Due(r, rnd[r].close)}
          /\ live = IF running = {} THEN 0 ELSE Max(running)
          /\ eng' = [eng EXCEPT !.boot = IF stranded = {} THEN "open" ELSE "replay",
                                !.todo = stranded \ {live}, !.live = live]
    BY <1>4 DEF Scan
  <2>2. live \in 0 .. MaxRound /\ (live # 0 => live \in stranded)
    BY <2>1, OldestNewest, Bounds
  <2>3. stranded \ {live} \in SUBSET Rounds
    BY <2>1
  <2>4. /\ eng' \in Rams /\ eng'.job = eng.job /\ eng'.open = eng.open /\ eng'.cur = eng.cur
        /\ eng'.live = live /\ eng'.todo = stranded \ {live}
    BY <1>0, <2>1, <2>2, <2>3 DEF Rams
  <2>5. /\ live # 0 => rnd[live].status # "none"
        /\ \A r \in stranded \ {live} : rnd[r].status # "none"
    BY <2>1, <2>2
  <2> QED BY <1>1, <1>2, <1>3, <2>4, <2>5, BootStep
<1>5. CASE ScanFails \/ ResumeFails \/ (Resume /\ eng.live = 0)
  <2>1. eng' = [eng EXCEPT !.boot = "open"]
    BY <1>5 DEF ScanFails, ResumeFails, Resume
  <2>2. /\ eng' \in Rams /\ eng'.job = eng.job /\ eng'.open = eng.open /\ eng'.cur = eng.cur
        /\ eng'.live = eng.live /\ eng'.todo = eng.todo
    BY <1>0, <2>1 DEF Rams
  <2> QED BY <1>0, <1>1, <1>2, <1>3, <2>2, BootStep DEF Known
<1>6. CASE ReplayFails
  <2>1. eng' = [eng EXCEPT !.todo = eng.todo \ {Min(eng.todo)}]
    BY <1>6 DEF ReplayFails
  <2>2. /\ eng' \in Rams /\ eng'.job = eng.job /\ eng'.open = eng.open /\ eng'.cur = eng.cur
        /\ eng'.live = eng.live /\ eng'.todo = eng.todo \ {Min(eng.todo)}
    BY <1>0, <2>1 DEF Rams
  <2> QED BY <1>0, <1>1, <1>2, <1>3, <2>2, BootStep DEF Known
<1>7. CASE NoMoreRounds
  <2>1. eng' = [eng EXCEPT !.cur = 0, !.open = FALSE, !.boot = "idle"]
    BY <1>7 DEF NoMoreRounds
  <2>2. /\ eng' \in Rams /\ eng'.job = eng.job /\ eng'.open = FALSE
        /\ eng'.live = eng.live /\ eng'.todo = eng.todo
    BY <1>0, <2>1, Bounds DEF Rams
  <2> QED BY <1>0, <1>1, <1>2, <1>3, <2>2, BootStep DEF Known
<1>8. CASE OpenFails
  <2>1. eng' = [eng EXCEPT !.boot = "scan", !.retry = {}]
    BY <1>8 DEF OpenFails
  <2>2. /\ eng' \in Rams /\ eng'.job = eng.job /\ eng'.open = eng.open /\ eng'.cur = eng.cur
        /\ eng'.live = eng.live /\ eng'.todo = eng.todo
    BY <1>0, <2>1 DEF Rams
  <2> QED BY <1>0, <1>1, <1>2, <1>3, <2>2, BootStep DEF Known
<1>9. CASE Resume /\ eng.live # 0
  <2>1. eng.live \in Rounds /\ rnd[eng.live].status # "none"
    BY <1>0, <1>9, Bounds DEF Known, Rams, Rounds
  <2>2. PICK r \in Rounds : r = eng.live
    BY <2>1
  <2>3. eng' = [Rebuilt(r) EXCEPT !.boot = "idle"] /\ faults' = faults
    BY <1>9, <2>2 DEF Resume
  <2>4. /\ Rebuilt(r) \in Rams
        /\ Rebuilt(r).cur = r /\ Rebuilt(r).open = TRUE
        /\ Rebuilt(r).players = rnd[r].entries /\ Rebuilt(r).close = rnd[r].close
        /\ Rebuilt(r).todo = eng.todo /\ Rebuilt(r).live = eng.live
        /\ Rebuilt(r).job = eng.job
    BY <1>0, RebuiltFields
  <2>5. /\ eng' \in Rams /\ eng'.cur = r /\ eng'.open = TRUE /\ eng'.players = rnd[r].entries
        /\ eng'.close = rnd[r].close /\ eng'.todo = eng.todo /\ eng'.live = eng.live
        /\ eng'.job = eng.job /\ eng'.boot = "idle"
    BY <2>3, <2>4 DEF Rams
  <2> QED BY <1>1, <1>2, <2>1, <2>2, <2>3, <2>5, RebuildStep
<1>10. CASE Replay
  <2>1. eng.todo \subseteq Rounds /\ eng.todo # {}
    BY <1>0, <1>10 DEF Replay, Rams
  <2>2. PICK r \in Rounds : r = Min(eng.todo) /\ r \in eng.todo
    BY <2>1, OldestNewest
  <2>3. /\ eng' = [Begin(Rebuilt(r)) EXCEPT !.boot = "replaying", !.todo = @ \ {r}]
        /\ faults' = faults
    BY <1>10, <2>2 DEF Replay
  <2>4. PICK e \in Rams : e = Rebuilt(r)
    BY <1>0, RebuiltFields
  <2>5. /\ e.cur = r /\ e.open = TRUE /\ e.players = rnd[r].entries /\ e.close = rnd[r].close
        /\ e.todo = eng.todo /\ e.live = eng.live
    BY <1>0, <2>4, RebuiltFields
  <2>6. /\ Begin(e) \in Rams
        /\ Begin(e).job.r = r /\ Begin(e).job.refund = GivesUp(e)
        /\ Begin(e).job.fold = (NeedsBeacon(e) /\ ~GivesUp(e))
        /\ Begin(e).cur = r /\ Begin(e).open = TRUE /\ Begin(e).players = rnd[r].entries
        /\ Begin(e).close = rnd[r].close /\ Begin(e).todo = eng.todo /\ Begin(e).live = eng.live
    BY <2>5, BeginFields
  <2>7. PICK b \in Rams : b = Begin(e)
    BY <2>6
  <2>8. eng' = [b EXCEPT !.boot = "replaying", !.todo = b.todo \ {r}]
    BY <2>3, <2>4, <2>7
  <2>9. b.todo \ {r} \in SUBSET Rounds
    BY <2>7 DEF Rams
  <2>10. /\ eng' \in Rams /\ eng'.cur = b.cur /\ eng'.open = b.open /\ eng'.players = b.players
         /\ eng'.close = b.close /\ eng'.todo = b.todo \ {r} /\ eng'.live = b.live
         /\ eng'.job = b.job /\ eng'.boot = "replaying"
    BY <2>8, <2>9 DEF Rams
  <2>11. rnd[r].status # "none"
    BY <1>0, <2>2 DEF Known
  <2>12. /\ eng'.cur = r /\ eng'.open = TRUE /\ eng'.players = rnd[r].entries
         /\ eng'.close = rnd[r].close /\ eng'.live = eng.live /\ eng'.todo \subseteq eng.todo
         /\ eng'.job.r = r /\ eng'.job.refund = GivesUp(Rebuilt(r))
         /\ eng'.job.fold = (NeedsBeacon(Rebuilt(r)) /\ ~GivesUp(Rebuilt(r)))
    BY <2>4, <2>6, <2>7, <2>10
  <2> QED BY <1>1, <1>2, <2>3, <2>10, <2>11, <2>12, RebuildStep
<1> QED BY <1>4, <1>5, <1>6, <1>7, <1>8, <1>9, <1>10

(* A retry that finds the engine elsewhere is dropped.                     *)
LEMMA RetryDropped ==
  ASSUME JackpotInv, Quiet, passed' = passed, zombie' = zombie, faults' = faults,
         eng' \in Rams, eng'.cur = eng.cur, eng'.open = eng.open, eng'.players = eng.players,
         eng'.close = eng.close, eng'.boot = eng.boot, eng'.todo = eng.todo,
         eng'.live = eng.live, eng'.job = eng.job
  PROVE  JackpotInv'
<1> USE DEF JackpotInv, Quiet
<1>1. TypeOK'
  BY DEF TypeOK, Rams, AccountTypeOK, accountVars
<1>2. Drives' <=> Drives
  BY DEF Drives
<1>3. Known' /\ OneDriver'
  BY <1>2 DEF Known, OneDriver
<1>4. PotConserved'
  BY PotKept DEF OpenIn
<1>5. InStep'
  BY <1>2 DEF InStep, PlayersInStep, ClockInRam, ClockInRow, Folds, DrawFoldsBeacon, Pending
<1> QED BY <1>1, <1>3, <1>4, <1>5

(* Time passes, a replaced process ends without a commit, or nothing       *)
(* happens.                                                                *)
LEMMA IdleStep ==
  ASSUME JackpotInv, windows' = windows,
         ZombieEnds \/ (\E r \in Rounds, close \in Deadlines : Pass(r, close)) \/ UNCHANGED vars
  PROVE  JackpotInv'
<1> USE DEF JackpotInv
<1>1. /\ UNCHANGED <<accountVars, rnd, eng, req, faults>> /\ zombie' \in {zombie, NoJob}
      /\ passed' \subseteq passed \cup Rounds \X Deadlines
  BY DEF ZombieEnds, Pass, vars, stepVars
<1>2. TypeOK'
  BY <1>1, Bounds DEF TypeOK, Jobs, AccountTypeOK, accountVars
<1>3. Drives' <=> Drives
  BY <1>1 DEF Drives
<1>4. Known' /\ OneDriver'
  BY <1>1, <1>3 DEF Known, OneDriver
<1>5. PotConserved'
  BY <1>1, PotKept DEF OpenIn
<1>6. InStep'
  BY <1>1, <1>3
  DEF InStep, PlayersInStep, ClockInRam, ClockInRow, Folds, DrawFoldsBeacon, Pending
<1> QED BY <1>2, <1>4, <1>5, <1>6

(* A settlement that begins, is retried, or ends without a commit.         *)
LEMMA SettlementSteps ==
  ASSUME JackpotInv, windows' = windows,
         \/ Draw \/ ClaimLost \/ BeaconDown \/ SettleFails \/ \E r \in Rounds : Retry(r)
  PROVE  JackpotInv'
<1>0. eng \in Rams /\ TypeOK /\ Known /\ faults \in 0 .. MaxFaults /\ MaxFaults \in Nat
  BY Types, JackpotAssumption DEF JackpotInv
<1>1. passed' = passed /\ zombie' = zombie /\ Quiet
  BY DEF Draw, ClaimLost, BeaconDown, SettleFails, Retry, Quiet
<1>2. faults' \in 0 .. MaxFaults
  BY <1>0, FaultBound DEF Draw, ClaimLost, BeaconDown, SettleFails, Retry
<1>3. CASE Draw
  <2>1. eng' = Begin(eng) /\ eng.open /\ Noticed(eng.cur) /\ faults' = faults
    BY <1>3 DEF Draw
  <2>2. eng.open = TRUE
    BY <1>0, <2>1 DEF Rams
  <2>3. PICK e \in Rams : e = eng
    BY <1>0
  <2> QED BY <1>1, <2>1, <2>2, <2>3, BeginStep
<1>4. ASSUME NEW r \in Rounds, Retry(r) PROVE JackpotInv'
  <2>1. PICK e : e = [eng EXCEPT !.retry = eng.retry \ {r}]
    OBVIOUS
  <2>2. /\ eng' = IF e.job = NoJob /\ e.cur = r /\ e.open THEN Begin(e) ELSE e
        /\ Noticed(r) /\ faults' = faults
    BY <1>4, <2>1 DEF Retry
  <2>3. eng.retry \ {r} \in SUBSET Rounds
    BY <1>0 DEF Rams
  <2>4. /\ e \in Rams /\ e.cur = eng.cur /\ e.open = eng.open /\ e.players = eng.players
        /\ e.close = eng.close /\ e.boot = eng.boot /\ e.todo = eng.todo /\ e.live = eng.live
        /\ e.job = eng.job
    BY <1>0, <2>1, <2>3 DEF Rams
  <2>5. CASE e.job = NoJob /\ e.cur = r /\ e.open
    <3>1. e.open = TRUE /\ eng.open
      BY <2>4, <2>5 DEF Rams
    <3> QED BY <1>1, <2>2, <2>4, <2>5, <3>1, BeginStep
  <2>6. CASE eng' = e
    BY <1>1, <2>2, <2>4, <2>6, RetryDropped
  <2> QED BY <2>2, <2>5, <2>6
<1>5. CASE ClaimLost
  <2>1. /\ eng' = [eng EXCEPT !.job = NoJob,
                              !.boot = IF eng.boot = "replaying" THEN "replay" ELSE eng.boot]
        /\ eng.job # NoJob /\ rnd[eng.job.r].status # "open"
    BY <1>5 DEF ClaimLost
  <2>2. /\ eng' \in Rams /\ eng'.job = NoJob /\ eng'.cur = eng.cur /\ eng'.open = eng.open
        /\ eng'.players = eng.players /\ eng'.close = eng.close /\ eng'.live = eng.live
        /\ eng'.todo = eng.todo
        /\ eng'.boot = IF eng.boot = "replaying" THEN "replay" ELSE eng.boot
    BY <1>0, <2>1, Bounds DEF Rams, Jobs
  <2> QED BY <1>1, <1>2, <2>1, <2>2, JobEnds
<1>6. CASE BeaconDown \/ SettleFails
  <2>1. eng' = [eng EXCEPT !.job = NoJob, !.retry = eng.retry \cup {eng.job.r},
                           !.fails = IF eng.fails < Attempts THEN eng.fails + 1 ELSE eng.fails,
                           !.boot = IF eng.boot = "replaying" THEN "idle" ELSE eng.boot]
    BY <1>6 DEF BeaconDown, SettleFails, Failed
  <2>2. eng.job # NoJob
    BY <1>6 DEF BeaconDown, SettleFails, NoJob
  <2>3. eng.retry \cup {eng.job.r} \in SUBSET Rounds
    BY <1>0, <2>2 DEF Rams, Known
  <2>4. (IF eng.fails < Attempts THEN eng.fails + 1 ELSE eng.fails) \in 0 .. Attempts
    BY <1>0, Bounds DEF Rams
  <2>5. /\ eng' \in Rams /\ eng'.job = NoJob /\ eng'.cur = eng.cur /\ eng'.open = eng.open
        /\ eng'.players = eng.players /\ eng'.close = eng.close /\ eng'.live = eng.live
        /\ eng'.todo = eng.todo
        /\ eng'.boot = IF eng.boot = "replaying" THEN "idle" ELSE eng.boot
    BY <1>0, <2>1, <2>3, <2>4, Bounds DEF Rams, Jobs
  <2> QED BY <1>1, <1>2, <2>5, JobEnds
<1> QED BY <1>3, <1>4, <1>5, <1>6

(* Every step keeps the invariant, action by action.                       *)
LEMMA JackpotStep == JackpotInv /\ [Next]_vars => JackpotInv'
<1> SUFFICES ASSUME JackpotInv, [Next]_vars PROVE JackpotInv'
  OBVIOUS
<1>0. windows' = windows
  BY DEF Next, vars
<1>2. ASSUME NEW u \in Users, Notice(u) \/ NoticeFails(u) PROVE JackpotInv'
  <2>1. faults' \in 0 .. MaxFaults
    BY <1>2, FaultBound DEF Notice, NoticeFails, JackpotInv, TypeOK
  <2>2. CASE Notice(u)
    BY <1>0, <2>1, <2>2, NoticeStep DEF Notice
  <2>3. CASE NoticeFails(u)
    BY <1>0, <2>1, <2>3, NoticeStep DEF NoticeFails
  <2> QED BY <1>2, <2>2, <2>3
<1>3. CASE Crash \/ Reboot
  <2>1. faults' \in 0 .. MaxFaults
    BY <1>3, FaultBound DEF Crash, Reboot, JackpotInv, TypeOK
  <2>2. /\ UNCHANGED <<accountVars, rnd, passed>> /\ Kept /\ eng' = Booting
        /\ req' = [u \in Users |-> NoReq] /\ zombie' \in {zombie, eng.job}
    BY <1>3 DEF Crash, Reboot
  <2> QED BY <1>0, <2>1, <2>2, RestartStep
<1>4. CASE ZombieEnds \/ (\E r \in Rounds, close \in Deadlines : Pass(r, close)) \/ UNCHANGED vars
  BY <1>0, <1>4, IdleStep
<1> QED
  BY <1>0, <1>2, <1>3, <1>4, BootSteps, OpenStep, SettlementSteps, SettleStep, ZombieStep,
     RequestStep, EnterStep
  DEF Next, Step, EngineStep

(* Every variable keeps its type: no balance goes below zero, and every    *)
(* settlement, request and resumed round names a round.                    *)
THEOREM TypeCorrect == Spec => []TypeOK
<1>1. JackpotInv => TypeOK
  BY DEF JackpotInv
<1> QED BY <1>1, JackpotInit, JackpotStep, PTL DEF Spec

(* No entry is orphaned and none is paid twice, whichever settler commits, *)
(* however often the engine dies, and whenever an entry commits            *)
(* (jackpot.engine.ts:638-647).                                            *)
THEOREM PotAlwaysConserved == Spec => []PotConserved
<1>1. JackpotInv => PotConserved
  BY DEF JackpotInv
<1> QED BY <1>1, JackpotInit, JackpotStep, PTL DEF Spec

(* With the windows closed every winner is drawn with the beacon folded    *)
(* in, in recovery too (jackpot.engine.ts:649-652).                        *)
THEOREM DrawsFoldTheBeacon == Spec => []DrawFoldsBeacon
<1>1. JackpotInv => DrawFoldsBeacon
  BY DEF JackpotInv, InStep, DrawFoldsBeacon
<1> QED BY <1>1, JackpotInit, JackpotStep, PTL DEF Spec
=============================================================================
