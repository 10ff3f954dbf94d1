-------------------------- MODULE InstantGamesProofs --------------------------
(***************************************************************************)
(* Proofs about InstantGames, for any players, stakes, multiplier tables,  *)
(* round lengths and bounds, and any number of requests in flight.         *)
(***************************************************************************)
EXTENDS InstantGames, FiniteSetTheorems, SequenceTheorems, TLAPS

-----------------------------------------------------------------------------
(* Operators. *)

(* A payout is an amount of lamports (instant-settle.ts:135-139). *)
LEMMA PayoutType == \A m \in Nat : Payout(m) \in Nat
<1> SUFFICES ASSUME NEW m \in Nat PROVE (Stake * m) \div 100 \in Nat
  BY DEF Payout
<1>1. Stake * m \in Nat
  BY InstantAssumption
<1> HIDE InstantAssumption
<1>2. \A n \in Nat : n \div 100 \in Nat
  OBVIOUS
<1> QED BY <1>1, <1>2

(* Won and lost move by the net result of the wager, one of them by zero.  *)
LEMMA ProfitBalance ==
  \A p, s \in Nat : /\ Profit(p - s) \in Nat /\ Profit(s - p) \in Nat
                    /\ Profit(p - s) - Profit(s - p) = p - s
  BY DEF Profit

(* The pair a wager reads and leaves is a pair of the same server seed     *)
(* (seed-manager.service.ts:166-175 and 191-211).                          *)
LEMMA PairType ==
  ASSUME SeedTypeOK, NEW u \in Users
  PROVE  /\ ActivePair(u) \in Pairs
         /\ BumpNonce(u) \in Pairs
         /\ BumpNonce(u).server = ActivePair(u).server
         /\ Context(u) \in Contexts
         /\ Context(u).user = u
         /\ Context(u).server = ActivePair(u).server
<1>1. ActivePair(u) \in Pairs
  BY DEF SeedTypeOK, ActivePair, Pairs
<1>2. BumpNonce(u) \in Pairs /\ BumpNonce(u).server = ActivePair(u).server
  BY <1>1 DEF BumpNonce, Pairs
<1>3. /\ Context(u) \in Contexts /\ Context(u).user = u
      /\ Context(u).server = BumpNonce(u).server
  BY <1>2 DEF Context, Contexts, Pairs
<1> QED BY <1>1, <1>2, <1>3

(* A step of a round ends it or not, at a multiplier. *)
LEMMA PicksType ==
  ASSUME NEW r \in RoundRows, r.game # "instant", r.steps < Limit
  PROVE  \A step \in Picks(r) : step.over \in BOOLEAN /\ step.mult \in Nat
<1>1. r.game \in {"mines", "hilo", "tower"}
  <2>1. r.game \in Games \cup {"instant"}
    BY DEF RoundRows, Kinds
  <2> QED BY <2>1, InstantAssumption
<1>2. /\ r.steps \in Nat /\ r.mult \in Nat /\ Limit \in Nat
      /\ r.steps + 1 \in 1 .. Limit
  BY InstantAssumption DEF RoundRows
<1>3. ASSUME NEW m \in Nat
      PROVE  /\ Bust.over \in BOOLEAN /\ Bust.mult \in Nat
             /\ Safe(r, m).over \in BOOLEAN /\ Safe(r, m).mult \in Nat
  BY DEF Bust, Safe
<1>4. CASE r.game = "mines"
  <2>1. Picks(r) = {Bust, Safe(r, MinesMult[r.steps + 1])}
    BY <1>4 DEF Picks, MinesPick
  <2>2. MinesMult[r.steps + 1] \in Nat
    BY <1>2, InstantAssumption
  <2> QED BY <1>3, <2>1, <2>2
<1>5. CASE r.game = "hilo"
  <2> DEFINE cum == IF r.steps = 0 THEN 100 ELSE r.mult
  <2>1. Picks(r) = {Bust} \cup {Safe(r, (cum * s) \div 100) : s \in HiloSteps}
    BY <1>5 DEF Picks, HiloGuess
  <2>2. cum \in Nat
    BY <1>2
  <2> HIDE DEF cum
  <2>3. ASSUME NEW s \in HiloSteps PROVE (cum * s) \div 100 \in Nat
    <3>1. s \in Nat
      BY <2>3, InstantAssumption
    <3>2. cum * s \in Nat
      BY <2>2, <3>1
    <3>3. \A n \in Nat : n \div 100 \in Nat
      OBVIOUS
    <3> QED BY <3>2, <3>3
  <2> QED BY <1>3, <2>1, <2>3
<1>6. CASE r.game = "tower"
  <2>1. Picks(r) = {Bust, Safe(r, TowerMult[r.steps + 1])}
    BY <1>6 DEF Picks, TowerPick
  <2>2. TowerMult[r.steps + 1] \in Nat
    BY <1>2, InstantAssumption
  <2> QED BY <1>3, <2>1, <2>2
<1> QED BY <1>1, <1>4, <1>5, <1>6

-----------------------------------------------------------------------------
(* The rounds in progress. *)

\* A round row has its type.
LEMMA RowType ==
  ASSUME TypeOK, NEW i \in DOMAIN rounds
  PROVE  /\ rounds[i] \in RoundRows /\ rounds[i].mult \in Nat
         /\ rounds[i].steps \in 0 .. Limit
<1>1. rounds[i] \in RoundRows
  BY DEF TypeOK
<1> QED BY <1>1 DEF RoundRows

\* A user has finitely many active rounds.
LEMMA ActiveFinite ==
  ASSUME rounds \in Seq(RoundRows), NEW u
  PROVE  IsFiniteSet(Active(u)) /\ Cardinality(Active(u)) \in Nat
<1>1. Len(rounds) \in Nat /\ Active(u) \subseteq 1 .. Len(rounds)
  BY DEF Active
<1>2. IsFiniteSet(1 .. Len(rounds))
  BY <1>1, FS_Interval
<1> QED BY <1>1, <1>2, FS_Subset, FS_CardinalityType

(* A new row is in progress or not. *)
LEMMA ActiveGrows ==
  ASSUME rounds \in Seq(RoundRows), NEW x \in RoundRows,
         rounds' = Append(rounds, x), NEW u
  PROVE  /\ rounds' \in Seq(RoundRows)
         /\ Cardinality(Active(u)') = Cardinality(Active(u))
              + (IF x.user = u /\ x.status = "active" THEN 1 ELSE 0)
<1> DEFINE n == Len(rounds) + 1
<1>1. /\ rounds' \in Seq(RoundRows) /\ Len(rounds) \in Nat /\ Len(rounds') = n
      /\ \A i \in 1 .. Len(rounds) : rounds'[i] = rounds[i]
      /\ rounds'[n] = x
  BY AppendProperties
<1>2. DOMAIN rounds = 1 .. Len(rounds) /\ DOMAIN rounds' = 1 .. n
  BY <1>1
<1>3. CASE x.user = u /\ x.status = "active"
  <2>1. Active(u)' = Active(u) \cup {n} /\ n \notin Active(u)
    BY <1>1, <1>2, <1>3 DEF Active
  <2> QED BY <1>1, <1>3, <2>1, ActiveFinite, FS_AddElement, ZenonT(30)
<1>4. CASE ~(x.user = u /\ x.status = "active")
  <2>1. Active(u)' = Active(u)
    BY <1>1, <1>2, <1>4 DEF Active
  <2> QED BY <1>1, <1>4, <2>1, ActiveFinite
<1> QED BY <1>3, <1>4

(* A row of a round in progress is replaced. *)
LEMMA ActiveChanges ==
  ASSUME rounds \in Seq(RoundRows), NEW i \in DOMAIN rounds, NEW x \in RoundRows,
         rounds[i].status = "active", x.user = rounds[i].user,
         rounds' = [rounds EXCEPT ![i] = x], NEW u
  PROVE  /\ rounds' \in Seq(RoundRows)
         /\ Cardinality(Active(u)') = Cardinality(Active(u))
              - (IF x.user = u /\ x.status # "active" THEN 1 ELSE 0)
<1>1. /\ rounds' \in Seq(RoundRows) /\ DOMAIN rounds' = DOMAIN rounds
      /\ rounds'[i] = x /\ \A j \in DOMAIN rounds : j # i => rounds'[j] = rounds[j]
  BY ExceptSeq
<1>2. CASE x.user = u /\ x.status # "active"
  <2>1. Active(u)' = Active(u) \ {i} /\ i \in Active(u)
    BY <1>1, <1>2 DEF Active
  <2> QED BY <1>1, <1>2, <2>1, ActiveFinite, FS_RemoveElement, ZenonT(30)
<1>3. CASE ~(x.user = u /\ x.status # "active")
  <2>1. Active(u)' = Active(u)
    BY <1>1, <1>3 DEF Active
  <2> QED BY <1>1, <1>3, <2>1, ActiveFinite
<1> QED BY <1>2, <1>3

-----------------------------------------------------------------------------
(* The two kinds of steps that move money. *)

Books(u) == bal[u] = Funds + totalWon[u] - totalLost[u] - Stake * Cardinality(Active(u))

(* The transaction of a wager (instant-settle.ts:104-210, stateful-round.ts *)
(* :174-237) keeps the types and the books.                                *)
LEMMA EnterKeeps ==
  ASSUME TypeOK, NEW u \in Users, NEW g \in Kinds, NEW ctx \in Contexts, NEW e \in BOOLEAN,
         Enter(u, g, ctx, e)
  PROVE  /\ AccountTypeOK' /\ rounds' \in Seq(RoundRows)
         /\ BooksBalance => BooksBalance'
         /\ \E x \in RoundRows : /\ x.user = u /\ x.ctx = ctx
                                /\ rounds' = Append(rounds, x)
<1> USE DEF TypeOK, AccountTypeOK
<1>0. Stake \in Nat /\ Funds \in Nat /\ 0 \in 0 .. Limit
  BY InstantAssumption, FundsAssumption
<1>1. CASE g = "instant"
  <2>1. PICK m \in Multipliers : SettleInstant(u, ctx, e, m)
    BY <1>1 DEF Enter
  <2> DEFINE p == Payout(m)
             x == [user |-> u, game |-> "instant", ctx |-> ctx, steps |-> 0,
                   entropy |-> e, mult |-> m, status |-> Outcome(m)]
  <2>2. m \in Nat /\ p \in Nat
    BY PayoutType, InstantAssumption
  <2>3. x \in RoundRows /\ x.status # "active" /\ x.user = u /\ x.ctx = ctx
    BY <1>0, <2>2 DEF RoundRows, Kinds, Outcome
  <2>4. /\ bal[u] >= Stake /\ bal' = [bal EXCEPT ![u] = @ - Stake + p]
        /\ totalWon' = [totalWon EXCEPT ![u] = @ + Profit(p - Stake)]
        /\ totalLost' = [totalLost EXCEPT ![u] = @ + Profit(Stake - p)]
        /\ rounds' = Append(rounds, x)
    BY <2>1 DEF SettleInstant, CanDebit, Tally
  <2> HIDE DEF p, x
  <2>5. /\ rounds' \in Seq(RoundRows)
        /\ \A v \in Users : Cardinality(Active(v)') = Cardinality(Active(v))
                           /\ Cardinality(Active(v)) \in Nat
    BY <2>3, <2>4, ActiveGrows, ActiveFinite
  <2> DEFINE won == Profit(p - Stake)
             lost == Profit(Stake - p)
  <2>6. /\ won \in Nat /\ lost \in Nat /\ won - lost = p - Stake
        /\ totalWon' = [totalWon EXCEPT ![u] = @ + won]
        /\ totalLost' = [totalLost EXCEPT ![u] = @ + lost]
    BY <1>0, <2>2, <2>4, ProfitBalance
  <2> HIDE DEF won, lost
  <2>7. AccountTypeOK'
    <3>1. bal[u] - Stake + p \in Nat
      BY <1>0, <2>2, <2>4
    <3>2. bal' \in [Users -> Nat]
      BY <2>4, <3>1
    <3>3. totalWon' \in [Users -> Nat] /\ totalLost' \in [Users -> Nat]
      BY <2>6
    <3> QED BY <3>2, <3>3
  <2>8. ASSUME BooksBalance, NEW v \in Users PROVE Books(v)'
    <3>1. PICK k \in Nat : /\ k = Stake * Cardinality(Active(v))
                           /\ k = Stake * Cardinality(Active(v)')
      BY <1>0, <2>5
    <3>2. bal[v] = Funds + totalWon[v] - totalLost[v] - k
      BY <2>8, <3>1 DEF BooksBalance
    <3>3. bal'[v] = Funds + totalWon'[v] - totalLost'[v] - k
      <4>1. /\ bal[v] \in Nat /\ totalWon[v] \in Nat /\ totalLost[v] \in Nat
        OBVIOUS
      <4>2. CASE v = u
        <5>1. /\ bal'[v] = bal[v] - Stake + p
              /\ totalWon'[v] = totalWon[v] + won /\ totalLost'[v] = totalLost[v] + lost
          BY <2>4, <2>6, <4>2
        <5>2. bal[v] - Stake + p = Funds + (totalWon[v] + won) - (totalLost[v] + lost) - k
          <6>1. /\ won \in Nat /\ lost \in Nat /\ p \in Nat /\ Stake \in Nat /\ Funds \in Nat
                /\ won - lost = p - Stake
            BY <1>0, <2>2, <2>6
          <6> HIDE DEF TypeOK, AccountTypeOK
          <6> QED BY <3>2, <4>1, <6>1, SMTT(30)
        <5> QED BY <5>1, <5>2
      <4>3. CASE v # u
        BY <2>4, <2>6, <3>2, <4>3
      <4> QED BY <4>2, <4>3
    <3> QED BY <3>1, <3>3 DEF Books
  <2> QED BY <2>3, <2>4, <2>5, <2>7, <2>8 DEF BooksBalance, Books
<1>2. CASE g # "instant"
  <2> DEFINE x == [user |-> u, game |-> g, ctx |-> ctx, steps |-> 0,
                   entropy |-> e, mult |-> 0, status |-> "active"]
  <2>1. /\ bal[u] >= Stake /\ bal' = [bal EXCEPT ![u] = @ - Stake]
        /\ rounds' = Append(rounds, x)
        /\ totalWon' = totalWon /\ totalLost' = totalLost
    BY <1>2 DEF Enter, OpenRound, CanDebit
  <2>2. x \in RoundRows /\ x.status = "active" /\ x.user = u /\ x.ctx = ctx
    BY <1>0 DEF RoundRows
  <2> HIDE DEF x
  <2>3. /\ rounds' \in Seq(RoundRows)
        /\ \A v \in Users : /\ Cardinality(Active(v)) \in Nat
                           /\ Cardinality(Active(v)') = Cardinality(Active(v))
                                + (IF u = v THEN 1 ELSE 0)
    BY <2>1, <2>2, ActiveGrows, ActiveFinite
  <2>4. AccountTypeOK'
    BY <1>0, <2>1
  <2>5. ASSUME BooksBalance, NEW v \in Users PROVE Books(v)'
    <3>1. bal[v] = Funds + totalWon[v] - totalLost[v] - Stake * Cardinality(Active(v))
      BY <2>5 DEF BooksBalance
    <3>2. CASE v # u
      BY <2>1, <2>3, <3>1, <3>2 DEF Books
    <3>3. CASE v = u
      <4>1. Stake * (Cardinality(Active(v)) + 1) = Stake * Cardinality(Active(v)) + Stake
        BY <1>0, <2>3
      <4>2. Stake * Cardinality(Active(v)) \in Nat
        BY <1>0, <2>3
      <4>3. Stake * Cardinality(Active(v)') = Stake * Cardinality(Active(v)) + Stake
        BY <2>3, <3>3, <4>1
      <4>4. bal'[v] = bal[v] - Stake
        BY <2>1, <3>3
      <4> QED BY <1>0, <2>1, <3>1, <3>3, <4>2, <4>3, <4>4 DEF Books
    <3> QED BY <3>2, <3>3
  <2> QED BY <2>1, <2>2, <2>3, <2>4, <2>5 DEF BooksBalance, Books
<1> QED BY <1>1, <1>2
(* The terminal step of a round (stateful-round.ts:287-362) keeps them too. *)
LEMMA SettleKeeps ==
  ASSUME TypeOK, NEW i \in DOMAIN rounds, rounds[i].status = "active",
         NEW n \in 0 .. Limit, NEW m \in Nat, Settle(i, n, m)
  PROVE  /\ AccountTypeOK' /\ rounds' \in Seq(RoundRows)
         /\ BooksBalance => BooksBalance'
         /\ \E x \in RoundRows : /\ x.user = rounds[i].user /\ x.ctx = rounds[i].ctx
                                /\ rounds' = [rounds EXCEPT ![i] = x]
<1> DEFINE u == rounds[i].user
           p == Payout(m)
           won == Profit(p - Stake)
           lost == Profit(Stake - p)
           x == [rounds[i] EXCEPT !.steps = n, !.mult = m, !.status = Outcome(m)]
<1>1. Stake \in Nat /\ Funds \in Nat /\ p \in Nat
  BY PayoutType, InstantAssumption, FundsAssumption
<1>2. /\ rounds[i] \in RoundRows /\ u \in Users
      /\ x \in RoundRows /\ x.status # "active" /\ x.user = u /\ x.ctx = rounds[i].ctx
  <2>1. rounds[i] \in RoundRows
    BY RowType
  <2>2. Outcome(m) \in {"won", "lost"}
    BY DEF Outcome
  <2> QED BY <2>1, <2>2 DEF RoundRows
<1>3. /\ bal' = [bal EXCEPT ![u] = @ + p]
      /\ totalWon' = [totalWon EXCEPT ![u] = @ + won]
      /\ totalLost' = [totalLost EXCEPT ![u] = @ + lost]
      /\ rounds' = [rounds EXCEPT ![i] = x]
  BY DEF Settle, Tally
<1>4. won \in Nat /\ lost \in Nat /\ won - lost = p - Stake
  BY <1>1, ProfitBalance
<1> HIDE DEF u, p, won, lost, x
<1>5. /\ rounds' \in Seq(RoundRows)
      /\ \A v \in Users : /\ Cardinality(Active(v)) \in Nat
                         /\ Cardinality(Active(v)') = Cardinality(Active(v))
                              - (IF u = v THEN 1 ELSE 0)
  <2>1. rounds \in Seq(RoundRows) /\ x.user = rounds[i].user
    BY <1>2 DEF TypeOK, u
  <2> QED BY <1>2, <1>3, <2>1, ActiveChanges, ActiveFinite
<1>6. /\ bal \in [Users -> Nat]
      /\ totalWon \in [Users -> Nat] /\ totalLost \in [Users -> Nat]
  BY DEF TypeOK, AccountTypeOK
<1>7. AccountTypeOK'
  BY <1>1, <1>2, <1>3, <1>4, <1>6 DEF AccountTypeOK
<1>8. ASSUME BooksBalance, NEW v \in Users PROVE Books(v)'
  <2>1. bal[v] = Funds + totalWon[v] - totalLost[v] - Stake * Cardinality(Active(v))
    BY <1>8 DEF BooksBalance
  <2>2. CASE v # u
    BY <1>3, <1>5, <2>1, <2>2 DEF Books
  <2>3. CASE v = u
    <3>1. PICK k \in Nat : k = Stake * Cardinality(Active(v))
      BY <1>1, <1>5
    <3>2. Stake * Cardinality(Active(v)') = k - Stake
      <4>1. Cardinality(Active(v)') = Cardinality(Active(v)) - 1
        BY <1>5, <2>3
      <4>2. Stake * (Cardinality(Active(v)) - 1) = Stake * Cardinality(Active(v)) - Stake
        BY <1>1, <1>5
      <4> QED BY <3>1, <4>1, <4>2
    <3>3. bal[v] \in Nat /\ totalWon[v] \in Nat /\ totalLost[v] \in Nat
      BY <1>6
    <3>4. /\ bal'[v] = bal[v] + p
          /\ totalWon'[v] = totalWon[v] + won /\ totalLost'[v] = totalLost[v] + lost
      BY <1>3, <1>6, <2>3
    <3>5. bal[v] = Funds + totalWon[v] - totalLost[v] - k
      BY <2>1, <3>1
    <3>6. bal[v] - Stake + p = Funds + (totalWon[v] + won) - (totalLost[v] + lost) - k
      BY <1>1, <1>4, <3>3, <3>5
    <3>7. bal[v] + p = Funds + (totalWon[v] + won) - (totalLost[v] + lost) - (k - Stake)
      <4> HIDE DEF TypeOK
      <4> QED BY <1>1, <1>4, <3>3, <3>6
    <3>8. bal'[v] = Funds + totalWon'[v] - totalLost'[v] - (k - Stake)
      BY <3>4, <3>7
    <3> QED BY <3>2, <3>8 DEF Books
  <2> QED BY <2>2, <2>3
<1> QED BY <1>2, <1>3, <1>5, <1>7, <1>8 DEF BooksBalance, Books, u

-----------------------------------------------------------------------------
(* Every step, for the types and the books. *)

Sound == TypeOK /\ BooksBalance

\* The inductive invariant holds at the start ...
LEMMA SoundInit == Init => Sound
<1> SUFFICES ASSUME Init PROVE Sound
  OBVIOUS
<1>1. TypeOK
  <2>1. AccountTypeOK /\ SeedTypeOK
    BY FundsAssumption DEF Init, AccountInit, SeedInit, AccountTypeOK, SeedTypeOK
  <2>2. live \in BOOLEAN /\ rounds \in Seq(RoundRows)
    BY InstantAssumption DEF Init
  <2>3. req \in [Requests -> [pc : {"idle"}] \cup Pending]
    BY DEF Init, Idle
  <2> QED BY <2>1, <2>2, <2>3 DEF TypeOK
<1>2. BooksBalance
  <2> SUFFICES ASSUME NEW u \in Users PROVE Books(u)
    BY DEF BooksBalance, Books
  <2>1. Active(u) = {}
    BY DEF Init, Active
  <2>2. Cardinality(Active(u)) = 0
    BY <2>1, FS_EmptySet
  <2>3. Stake * Cardinality(Active(u)) = 0
    BY <2>2, InstantAssumption
  <2>4. bal[u] = Funds /\ totalWon[u] = 0 /\ totalLost[u] = 0
    BY DEF Init, AccountInit
  <2> QED BY <2>3, <2>4, FundsAssumption DEF Books
<1> QED BY <1>1, <1>2 DEF Sound

\* ... and every step keeps it.
LEMMA SoundStep == Sound /\ [Next]_vars => Sound'
<1> SUFFICES ASSUME Sound, [Next]_vars PROVE Sound'
  OBVIOUS
<1>0. TypeOK /\ BooksBalance /\ SeedTypeOK
  BY DEF Sound, TypeOK
<1>a. ASSUME UNCHANGED <<accountVars, rounds>> PROVE AccountTypeOK' /\ BooksBalance'
  BY <1>0, <1>a DEF accountVars, TypeOK, AccountTypeOK, BooksBalance, Active
<1>b. ASSUME NEW u \in Users, NEW q \in Pairs, pair' = [pair EXCEPT ![u] = q],
             published' \subseteq published \cup {<<u, ActivePair(u).server>>}
      PROVE  SeedTypeOK'
  <2>1. ActivePair(u).server \in Nat \ {0}
    BY <1>0, PairType DEF Pairs
  <2> QED BY <1>0, <1>b, <2>1 DEF SeedTypeOK
<1>1. ASSUME NEW u \in Users, NEW c \in ClientSeeds, ChooseClientSeed(u, c) PROVE Sound'
  <2>1. [ActivePair(u) EXCEPT !.client = c, !.nonce = 0] \in Pairs
    BY <1>0, PairType, ZenonT(30) DEF Pairs
  <2>2. SeedTypeOK'
    BY <1>1, <1>b, <2>1 DEF ChooseClientSeed, SetClientSeed
  <2> QED BY <1>0, <1>1, <1>a, <2>2 DEF ChooseClientSeed, Sound, TypeOK
<1>2. ASSUME NEW u \in Users, Rotate(u) PROVE Sound'
  <2>1. [ActivePair(u) EXCEPT !.server = @ + 1, !.nonce = 0] \in Pairs
    <3>1. ActivePair(u) \in Pairs
      BY <1>0, PairType
    <3>2. ActivePair(u).server + 1 \in Nat \ {0}
      BY <3>1 DEF Pairs
    <3> QED BY <3>1, <3>2 DEF Pairs
  <2>2. SeedTypeOK'
    BY <1>2, <1>b, <2>1 DEF Rotate, RotateServerSeed
  <2> QED BY <1>0, <1>2, <1>a, <2>2 DEF Rotate, Sound, TypeOK
<1>3. ASSUME NEW u \in Users, NEW g \in Kinds, Wager(u, g) PROVE Sound'
  <2>1. Context(u) \in Contexts /\ BumpNonce(u) \in Pairs
    BY <1>0, PairType
  <2>2. AccountTypeOK' /\ rounds' \in Seq(RoundRows) /\ BooksBalance'
    BY <1>0, <1>3, <2>1, EnterKeeps DEF Wager
  <2>3. SeedTypeOK'
    BY <1>3, <1>b, <2>1 DEF Wager
  <2> QED BY <1>0, <1>3, <2>2, <2>3 DEF Wager, Sound, TypeOK
<1>4. ASSUME NEW q \in Requests, NEW u \in Users, NEW g \in Kinds, Reserve(q, u, g)
      PROVE  Sound'
  <2>1. Context(u) \in Contexts /\ BumpNonce(u) \in Pairs
    BY <1>0, PairType
  <2>2. SeedTypeOK'
    BY <1>4, <1>b, <2>1 DEF Reserve
  <2>3. req' \in [Requests -> [pc : {"idle"}] \cup Pending]
    BY <1>0, <1>4, <2>1 DEF Reserve, TypeOK, Pending
  <2> QED BY <1>0, <1>4, <1>a, <2>2, <2>3 DEF Reserve, Sound, TypeOK
<1>5. ASSUME NEW q \in Requests, req[q].pc = "reserved"
      PROVE  /\ req[q] \in Pending
             /\ <<req[q].ctx.user, req[q].ctx.server>> \in Users \X (Nat \ {0})
  BY <1>0, <1>5 DEF TypeOK, Pending, Contexts
<1>6. ASSUME NEW q \in Requests, NEW landed \in BOOLEAN, EntropyFails(q, landed) PROVE Sound'
  <2>1. SeedTypeOK'
    BY <1>0, <1>5, <1>6 DEF EntropyFails, SeedTypeOK
  <2>2. req' \in [Requests -> [pc : {"idle"}] \cup Pending]
    BY <1>0, <1>5, <1>6 DEF EntropyFails, TypeOK, Pending
  <2> QED BY <1>0, <1>6, <1>a, <2>1, <2>2 DEF EntropyFails, Sound, TypeOK
<1>7. ASSUME NEW q \in Requests, EntropyArrives(q) PROVE Sound'
  <2>1. SeedTypeOK'
    BY <1>0, <1>5, <1>7 DEF EntropyArrives, SeedTypeOK
  <2>2. req' \in [Requests -> [pc : {"idle"}] \cup Pending]
    BY <1>0, <1>5, <1>7 DEF EntropyArrives, TypeOK, Pending
  <2> QED BY <1>0, <1>7, <1>a, <2>1, <2>2 DEF EntropyArrives, Sound, TypeOK
<1>8. ASSUME NEW q \in Requests, EnterReserved(q) PROVE Sound'
  <2>1. /\ req[q].game \in Kinds /\ req[q].ctx \in Contexts /\ req[q].entropy \in BOOLEAN
        /\ req[q].ctx.user \in Users
    BY <1>0, <1>8 DEF EnterReserved, TypeOK, Pending, Contexts
  <2>2. AccountTypeOK' /\ rounds' \in Seq(RoundRows) /\ BooksBalance'
    BY <1>0, <1>8, <2>1, EnterKeeps DEF EnterReserved
  <2> QED BY <1>0, <1>8, <2>2 DEF EnterReserved, Sound, TypeOK, SeedTypeOK, Idle
<1>9. ASSUME NEW q \in Requests, Abandon(q) PROVE Sound'
  BY <1>0, <1>9, <1>a DEF Abandon, Sound, TypeOK, SeedTypeOK, seedVars, Idle
<1>10. ASSUME NEW i \in DOMAIN rounds, Advance(i) PROVE Sound'
  <2> DEFINE r == rounds[i]
  <2>1. /\ r \in RoundRows /\ r.game # "instant" /\ r.status = "active" /\ r.steps < Limit
        /\ r.steps \in 0 .. Limit /\ r.steps + 1 \in 0 .. Limit
    <3>1. r \in RoundRows /\ r.steps \in 0 .. Limit
      BY <1>0, RowType
    <3>2. r.game # "instant" /\ r.status = "active" /\ r.steps < Limit
      BY <1>10 DEF Advance, Refusable
    <3> QED BY <3>1, <3>2, InstantAssumption
  <2>2. PICK step \in Picks(r) :
          \/ /\ step.over
             /\ Settle(i, IF step = Bust THEN r.steps ELSE r.steps + 1, step.mult)
          \/ /\ rounds' = [rounds EXCEPT ![i] =
                  [@ EXCEPT !.steps = r.steps + 1, !.mult = step.mult]]
             /\ UNCHANGED accountVars
    BY <1>10 DEF Advance
  <2>3. step.mult \in Nat
    BY <2>1, PicksType
  <2>4. AccountTypeOK' /\ rounds' \in Seq(RoundRows) /\ BooksBalance'
    <3>1. CASE Settle(i, IF step = Bust THEN r.steps ELSE r.steps + 1, step.mult)
      <4>1. (IF step = Bust THEN r.steps ELSE r.steps + 1) \in 0 .. Limit
        BY <2>1
      <4> QED BY <1>0, <2>1, <2>3, <3>1, <4>1, SettleKeeps
    <3>2. CASE /\ rounds' = [rounds EXCEPT ![i] =
                    [@ EXCEPT !.steps = r.steps + 1, !.mult = step.mult]]
               /\ UNCHANGED accountVars
      <4> DEFINE x == [rounds[i] EXCEPT !.steps = r.steps + 1, !.mult = step.mult]
      <4>1. /\ x \in RoundRows /\ x.status = "active" /\ x.user = rounds[i].user
        BY <2>1, <2>3 DEF RoundRows
      <4>2. rounds' = [rounds EXCEPT ![i] = x] /\ rounds \in Seq(RoundRows)
        BY <1>0, <3>2 DEF TypeOK
      <4> HIDE DEF x
      <4>3. /\ rounds' \in Seq(RoundRows)
            /\ \A u \in Users : Cardinality(Active(u)') = Cardinality(Active(u))
        <5>1. ASSUME NEW u \in Users
              PROVE  /\ rounds' \in Seq(RoundRows)
                     /\ Cardinality(Active(u)') = Cardinality(Active(u)) - 0
          BY <2>1, <4>1, <4>2, ActiveChanges
        <5>2. ASSUME NEW u \in Users PROVE Cardinality(Active(u)) \in Nat
          BY <4>2, ActiveFinite
        <5>3. rounds' \in Seq(RoundRows)
          BY <2>1, <4>1, <4>2, ActiveChanges
        <5> QED BY <5>1, <5>2, <5>3
      <4> QED BY <1>0, <3>2, <4>3 DEF accountVars, TypeOK, AccountTypeOK, BooksBalance
    <3> QED BY <2>2, <3>1, <3>2
  <2> QED BY <1>0, <1>10, <2>4 DEF Advance, Sound, TypeOK, SeedTypeOK, seedVars
<1>11. ASSUME NEW i \in DOMAIN rounds, CashOut(i) PROVE Sound'
  <2>1. /\ rounds[i].status = "active" /\ rounds[i].steps \in 0 .. Limit
        /\ rounds[i].mult \in Nat /\ Settle(i, rounds[i].steps, rounds[i].mult)
    BY <1>0, <1>11, RowType DEF CashOut, Refusable
  <2>2. AccountTypeOK' /\ rounds' \in Seq(RoundRows) /\ BooksBalance'
    BY <1>0, <2>1, SettleKeeps
  <2> QED BY <1>0, <1>11, <2>2 DEF CashOut, Sound, TypeOK, SeedTypeOK, seedVars
<1>12. CASE UNCHANGED vars
  BY <1>0, <1>12 DEF vars, accountVars, seedVars, Sound, TypeOK, AccountTypeOK, SeedTypeOK,
                     BooksBalance, Active
<1> QED
  BY <1>1, <1>2, <1>3, <1>4, <1>6, <1>7, <1>8, <1>9, <1>10, <1>11, <1>12 DEF Next

(* Type correctness of every reachable state: balances, totals, seed pairs, *)
(* rows and requests; in particular a debit never takes a balance below    *)
(* zero (apply-balance-delta.ts:67-73).                                    *)
THEOREM TypeCorrect == Spec => []TypeOK
<1>1. Sound => TypeOK
  BY DEF Sound
<1> QED BY <1>1, SoundInit, SoundStep, PTL DEF Spec

(* The books balance for every player, whatever races: steps and cash-outs *)
(* of one round, starts of one game, requests in flight and abandoned ones *)
(* (stateful-round.ts:24-27).                                              *)
THEOREM BooksAlwaysBalance == Spec => []BooksBalance
<1>1. Sound => BooksBalance
  BY DEF Sound
<1> QED BY <1>1, SoundInit, SoundStep, PTL DEF Spec
-----------------------------------------------------------------------------
(***************************************************************************)
(* The hidden field.  FieldStaysSecret is not inductive: that an active    *)
(* round's seed is unpublished follows because it is still the player's    *)
(* active seed, and every published seed is an older one.                  *)
(***************************************************************************)
NothingPending == \A q \in Requests : req[q].pc = "idle"

PublishedOlder ==
  \A u \in Users, k \in Nat : <<u, k>> \in published => pair[u] # NoPair /\ k < pair[u].server

FieldsCurrent ==
  \A u \in Users : \A i \in Active(u) :
    pair[u] # NoPair /\ rounds[i].ctx.server = pair[u].server

Sealed == ~live => NothingPending /\ PublishedOlder /\ FieldsCurrent

(* A step of a round changes neither its player nor its seed context. *)
LEMMA RoundKeepsContext ==
  ASSUME TypeOK, NEW i \in DOMAIN rounds, Advance(i) \/ CashOut(i)
  PROVE  /\ DOMAIN rounds' = DOMAIN rounds
         /\ \A j \in DOMAIN rounds : rounds'[j].user = rounds[j].user
                                   /\ rounds'[j].ctx = rounds[j].ctx
         /\ \A u : Active(u)' \subseteq Active(u)
<1>1. /\ rounds \in Seq(RoundRows) /\ rounds[i] \in RoundRows
      /\ rounds[i].status = "active" /\ i \in 1 .. Len(rounds)
  <2>1. rounds \in Seq(RoundRows) /\ rounds[i] \in RoundRows
    BY RowType DEF TypeOK
  <2>2. rounds[i].status = "active"
    BY DEF Advance, CashOut, Refusable
  <2> QED BY <2>1, <2>2
<1>2. \E x : /\ x.user = rounds[i].user /\ x.ctx = rounds[i].ctx
             /\ rounds' = [rounds EXCEPT ![i] = x]
  <2>1. ASSUME NEW n, NEW m, Settle(i, n, m)
        PROVE  \E x : /\ x.user = rounds[i].user /\ x.ctx = rounds[i].ctx
                      /\ rounds' = [rounds EXCEPT ![i] = x]
    <3> DEFINE x == [rounds[i] EXCEPT !.steps = n, !.mult = m, !.status = Outcome(m)]
    <3>1. x.user = rounds[i].user /\ x.ctx = rounds[i].ctx
      BY <1>1 DEF RoundRows
    <3>2. rounds' = [rounds EXCEPT ![i] = x]
      BY <2>1 DEF Settle
    <3> QED BY <3>1, <3>2
  <2>2. ASSUME NEW n, NEW m,
               rounds' = [rounds EXCEPT ![i] = [@ EXCEPT !.steps = n, !.mult = m]]
        PROVE  \E x : /\ x.user = rounds[i].user /\ x.ctx = rounds[i].ctx
                      /\ rounds' = [rounds EXCEPT ![i] = x]
    <3> DEFINE x == [rounds[i] EXCEPT !.steps = n, !.mult = m]
    <3>1. x.user = rounds[i].user /\ x.ctx = rounds[i].ctx
      BY <1>1 DEF RoundRows
    <3>2. rounds' = [rounds EXCEPT ![i] = x]
      BY <2>2
    <3> QED BY <3>1, <3>2
  <2>3. CASE Advance(i)
    <3>1. PICK step \in Picks(rounds[i]) :
            \/ Settle(i, IF step = Bust THEN rounds[i].steps ELSE rounds[i].steps + 1, step.mult)
            \/ rounds' = [rounds EXCEPT ![i] =
                 [@ EXCEPT !.steps = rounds[i].steps + 1, !.mult = step.mult]]
      BY <2>3 DEF Advance
    <3> QED BY <2>1, <2>2, <3>1
  <2>4. CASE CashOut(i)
    BY <2>1, <2>4 DEF CashOut
  <2> QED BY <2>3, <2>4
<1>3. PICK x : /\ x.user = rounds[i].user /\ x.ctx = rounds[i].ctx
               /\ rounds' = [rounds EXCEPT ![i] = x]
  BY <1>2
<1>4. /\ DOMAIN rounds' = DOMAIN rounds
      /\ \A j \in DOMAIN rounds : rounds'[j] = IF j = i THEN x ELSE rounds[j]
  BY <1>1, <1>3
<1> QED BY <1>1, <1>3, <1>4 DEF Active

\* What hides the seed holds at the start ...
LEMMA SealedInit == Init => Sealed
  BY DEF Init, SeedInit, Sealed, NothingPending, PublishedOlder, FieldsCurrent, Active, Idle

\* ... and every step keeps it.
LEMMA SealedStep == TypeOK /\ Sealed /\ [Next]_vars => Sealed'
<1> SUFFICES ASSUME TypeOK, Sealed, [Next]_vars, ~live'
             PROVE  NothingPending' /\ PublishedOlder' /\ FieldsCurrent'
  BY DEF Sealed
<1>0. ~live
  BY DEF Next, ChooseClientSeed, Rotate, Wager, Reserve, EntropyFails, EntropyArrives,
         EnterReserved, Abandon, Advance, CashOut, vars
<1>1. NothingPending /\ PublishedOlder /\ FieldsCurrent
  BY <1>0 DEF Sealed
<1>2. /\ SeedTypeOK /\ pair \in [Users -> Pairs \cup {NoPair}]
      /\ rounds \in Seq(RoundRows)
  BY DEF TypeOK, SeedTypeOK
<1>a. ASSUME NEW u \in Users, NEW q \in Pairs, pair' = [pair EXCEPT ![u] = q],
             q.server = ActivePair(u).server
      PROVE  \A v \in Users : pair[v] # NoPair =>
               pair'[v] # NoPair /\ pair'[v].server = pair[v].server
  BY <1>2, <1>a, NoPairAssumption DEF ActivePair
<1>3. ASSUME NEW u \in Users, NEW c \in ClientSeeds, ChooseClientSeed(u, c)
      PROVE  NothingPending' /\ PublishedOlder' /\ FieldsCurrent'
  <2> DEFINE q == [ActivePair(u) EXCEPT !.client = c, !.nonce = 0]
  <2>1. q \in Pairs /\ q.server = ActivePair(u).server
    BY <1>2, PairType, ZenonT(30) DEF Pairs
  <2>2. /\ pair' = [pair EXCEPT ![u] = q]
        /\ published' = published /\ rounds' = rounds /\ req' = req
    BY <1>3 DEF ChooseClientSeed, SetClientSeed
  <2> HIDE DEF q
  <2>3. \A v \in Users : pair[v] # NoPair =>
          pair'[v] # NoPair /\ pair'[v].server = pair[v].server
    BY <1>a, <2>1, <2>2
  <2> QED BY <1>1, <2>2, <2>3 DEF NothingPending, PublishedOlder, FieldsCurrent, Active
<1>4. ASSUME NEW u \in Users, Rotate(u)
      PROVE  NothingPending' /\ PublishedOlder' /\ FieldsCurrent'
  <2> DEFINE s == ActivePair(u).server
             q == [ActivePair(u) EXCEPT !.server = @ + 1, !.nonce = 0]
  <2>1. ActivePair(u) \in Pairs /\ s \in Nat \ {0}
    BY <1>2, PairType DEF Pairs
  <2>2. q \in Pairs /\ q.server = s + 1 /\ q # NoPair
    <3>1. s + 1 \in Nat \ {0}
      BY <2>1
    <3>2. q \in Pairs /\ q.server = s + 1
      BY <2>1, <3>1 DEF Pairs
    <3> QED BY <3>2, NoPairAssumption
  <2>3. /\ Active(u) = {} /\ pair' = [pair EXCEPT ![u] = q]
        /\ published' = published \cup {<<u, s>>} /\ rounds' = rounds /\ req' = req
    BY <1>4 DEF Rotate, RotateServerSeed
  <2>4. pair[u] # NoPair => s = pair[u].server
    BY DEF ActivePair
  <2> HIDE DEF q, s
  <2>5. pair'[u] = q /\ \A v \in Users \ {u} : pair'[v] = pair[v]
    BY <1>2, <2>3
  <2>6. PublishedOlder'
    <3> SUFFICES ASSUME NEW v \in Users, NEW k \in Nat, <<v, k>> \in published'
                 PROVE  pair'[v] # NoPair /\ k < pair'[v].server
      BY DEF PublishedOlder
    <3>1. CASE <<v, k>> \in published /\ v = u
      <4>1. k < s
        BY <1>1, <2>4, <3>1 DEF PublishedOlder
      <4> QED BY <2>1, <2>2, <2>5, <3>1, <4>1
    <3>2. CASE <<v, k>> \in published /\ v # u
      BY <1>1, <2>5, <3>2 DEF PublishedOlder
    <3>3. CASE v = u /\ k = s
      BY <2>1, <2>2, <2>5, <3>3
    <3> QED BY <2>3, <3>1, <3>2, <3>3
  <2> QED BY <1>1, <2>3, <2>5, <2>6 DEF NothingPending, FieldsCurrent, Active
<1>5. ASSUME NEW u \in Users, NEW g \in Kinds, Wager(u, g)
      PROVE  NothingPending' /\ PublishedOlder' /\ FieldsCurrent'
  <2>1. /\ BumpNonce(u) \in Pairs /\ BumpNonce(u).server = ActivePair(u).server
        /\ Context(u) \in Contexts /\ Context(u).server = ActivePair(u).server
    BY <1>2, PairType
  <2>2. /\ pair' = [pair EXCEPT ![u] = BumpNonce(u)] /\ Enter(u, g, Context(u), FALSE)
        /\ published' = published /\ req' = req
    BY <1>5 DEF Wager
  <2>3. PICK x \in RoundRows : x.user = u /\ x.ctx = Context(u) /\ rounds' = Append(rounds, x)
    BY <2>1, <2>2, EnterKeeps, ZenonT(30)
  <2>4. /\ Len(rounds) \in Nat /\ DOMAIN rounds = 1 .. Len(rounds)
        /\ DOMAIN rounds' = 1 .. Len(rounds) + 1 /\ rounds'[Len(rounds) + 1] = x
        /\ \A i \in 1 .. Len(rounds) : rounds'[i] = rounds[i]
    BY <1>2, <2>3, AppendProperties
  <2>5. /\ \A v \in Users : pair[v] # NoPair =>
             pair'[v] # NoPair /\ pair'[v].server = pair[v].server
        /\ pair'[u] # NoPair /\ pair'[u].server = Context(u).server
    BY <1>2, <1>a, <2>1, <2>2, NoPairAssumption
  <2>6. FieldsCurrent'
    <3> SUFFICES ASSUME NEW v \in Users, NEW i \in Active(v)'
                 PROVE  pair'[v] # NoPair /\ rounds'[i].ctx.server = pair'[v].server
      BY DEF FieldsCurrent
    <3>1. CASE i \in 1 .. Len(rounds)
      <4>1. i \in Active(v)
        BY <2>4, <3>1 DEF Active
      <4> QED BY <1>1, <2>4, <2>5, <3>1, <4>1 DEF FieldsCurrent
    <3>2. CASE i = Len(rounds) + 1
      <4>1. v = u
        BY <2>3, <2>4, <3>2 DEF Active
      <4> QED BY <2>3, <2>4, <2>5, <3>2, <4>1
    <3> QED BY <2>4, <3>1, <3>2 DEF Active
  <2> QED BY <1>1, <2>2, <2>5, <2>6 DEF NothingPending, PublishedOlder
<1>6. ASSUME NEW i \in DOMAIN rounds, Advance(i) \/ CashOut(i)
      PROVE  NothingPending' /\ PublishedOlder' /\ FieldsCurrent'
  <2>1. pair' = pair /\ published' = published /\ req' = req
    BY <1>6 DEF Advance, CashOut, seedVars
  <2>2. /\ \A j \in DOMAIN rounds : rounds'[j].ctx = rounds[j].ctx
        /\ \A u \in Users : Active(u)' \subseteq Active(u)
    BY <1>6, RoundKeepsContext
  <2>3. \A u \in Users : \A j \in Active(u) : j \in DOMAIN rounds
    BY DEF Active
  <2> QED BY <1>1, <2>1, <2>2, <2>3 DEF NothingPending, PublishedOlder, FieldsCurrent
<1>7. ASSUME NEW q \in Requests PROVE req[q].pc = "idle"
  BY <1>1 DEF NothingPending
<1>8. CASE UNCHANGED vars
  BY <1>1, <1>8 DEF vars, seedVars, NothingPending, PublishedOlder, FieldsCurrent, Active
<1> QED
  BY <1>0, <1>3, <1>4, <1>5, <1>6, <1>7, <1>8
  DEF Next, Reserve, EntropyFails, EntropyArrives, EnterReserved, Abandon

(* Without the on-chain program no player can know the hidden field of a   *)
(* round in progress: a rotation is refused while there is one, so what it *)
(* reveals was never the seed of an active round                           *)
(* (seed-manager.service.ts:106-120).                                      *)
THEOREM FieldStaysSecretHolds == Spec => []FieldStaysSecret
<1>1. TypeOK /\ Sealed => FieldStaysSecret
  <2> SUFFICES ASSUME TypeOK, Sealed, ~live, NEW u \in Users, NEW i \in Active(u)
               PROVE  <<u, rounds[i].ctx.server>> \notin published
    BY DEF FieldStaysSecret
  <2>1. PublishedOlder /\ FieldsCurrent
    BY DEF Sealed
  <2>2. rounds[i].ctx.server \in Nat
    <3>1. rounds[i] \in RoundRows
      BY RowType DEF Active
    <3> QED BY <3>1 DEF RoundRows, Contexts
  <2>3. rounds[i].ctx.server = pair[u].server
    BY <2>1 DEF FieldsCurrent
  <2>4. ~(rounds[i].ctx.server < pair[u].server)
    BY <2>2, <2>3
  <2> QED BY <2>1, <2>2, <2>4 DEF PublishedOlder
<1> QED BY <1>1, TypeCorrect, SealedInit, SealedStep, PTL DEF Spec

-----------------------------------------------------------------------------
(***************************************************************************)
(* No draw is made twice.  Every context a wager used, or a request in     *)
(* flight will use, is behind its player's seed pair: of an older server   *)
(* seed, of another client seed, or of a nonce already passed.  So the     *)
(* context the next wager takes is none of them.                           *)
(***************************************************************************)
Waiting(q) == req[q].pc # "idle"
InUse(c) ==
  \/ \E i \in DOMAIN rounds : rounds[i].ctx = c
  \/ \E q \in Requests : Waiting(q) /\ req[q].ctx = c

Behind(c) ==
  /\ c.server <= ActivePair(c.user).server
  /\ c.server = ActivePair(c.user).server /\ c.client = ActivePair(c.user).client =>
       c.nonce <= ActivePair(c.user).nonce

Fresh ==
  /\ FreshDraws
  /\ \A q, r \in Requests : Waiting(q) /\ Waiting(r) /\ q # r => req[q].ctx # req[r].ctx
  /\ \A q \in Requests : \A i \in DOMAIN rounds : Waiting(q) => req[q].ctx # rounds[i].ctx
  /\ \A c \in Contexts : InUse(c) => Behind(c)

(* A change of one player's pair, as ActivePair shows it.                  *)
LEMMA PairMoves ==
  ASSUME TypeOK, NEW u \in Users, NEW p \in Pairs, pair' = [pair EXCEPT ![u] = p]
  PROVE  ActivePair(u)' = p /\ \A v \in Users \ {u} : ActivePair(v)' = ActivePair(v)
<1>1. pair'[u] = p /\ p # NoPair /\ \A v \in Users \ {u} : pair'[v] = pair[v]
  BY NoPairAssumption DEF TypeOK, SeedTypeOK
<1> QED BY <1>1 DEF ActivePair

(* The context a wager takes, and the pair it leaves: one nonce further.   *)
LEMMA NextContext ==
  ASSUME TypeOK, NEW u \in Users
  PROVE  /\ ActivePair(u) \in Pairs /\ BumpNonce(u) \in Pairs /\ Context(u) \in Contexts
         /\ Context(u).user = u
         /\ Context(u).server = ActivePair(u).server /\ BumpNonce(u).server = ActivePair(u).server
         /\ Context(u).client = ActivePair(u).client /\ BumpNonce(u).client = ActivePair(u).client
         /\ Context(u).nonce = ActivePair(u).nonce + 1 /\ BumpNonce(u).nonce = ActivePair(u).nonce + 1
<1>1. ActivePair(u) \in Pairs /\ BumpNonce(u) \in Pairs /\ Context(u) \in Contexts
  BY PairType DEF TypeOK
<1>2. /\ BumpNonce(u).server = ActivePair(u).server
      /\ BumpNonce(u).client = ActivePair(u).client
      /\ BumpNonce(u).nonce = ActivePair(u).nonce + 1
  BY <1>1 DEF BumpNonce, Pairs
<1> QED BY <1>1, <1>2 DEF Context

(* What is in use has the type of a context.                               *)
LEMMA ContextTypes ==
  ASSUME TypeOK
  PROVE  /\ \A i \in DOMAIN rounds : rounds[i].ctx \in Contexts
         /\ \A q \in Requests : Waiting(q) => req[q].ctx \in Contexts
<1>1. \A i \in DOMAIN rounds : rounds[i].ctx \in Contexts
  BY RowType DEF RoundRows
<1>2. ASSUME NEW q \in Requests, Waiting(q) PROVE req[q].ctx \in Contexts
  BY <1>2 DEF TypeOK, Waiting, Pending
<1> QED BY <1>1, <1>2

(* The next context is not in use, and what is in use is behind the pair   *)
(* that took it.                                                           *)
LEMMA TakesFresh ==
  ASSUME TypeOK, Fresh, NEW u \in Users, pair' = [pair EXCEPT ![u] = BumpNonce(u)],
         NEW k \in Contexts, k = Context(u)
  PROVE  /\ ~InUse(k) /\ Behind(k)'
         /\ \A c \in Contexts : Behind(c) => Behind(c)'
<1>0. /\ ActivePair(u) \in Pairs /\ BumpNonce(u) \in Pairs
      /\ ActivePair(u).nonce \in Nat /\ ActivePair(u).server \in Nat
      /\ \A c \in Contexts : c.nonce \in Nat /\ c.server \in Nat /\ c.user \in Users
  BY NextContext DEF Pairs, Contexts
<1>1. ActivePair(u)' = BumpNonce(u) /\ \A v \in Users \ {u} : ActivePair(v)' = ActivePair(v)
  BY <1>0, PairMoves
<1>2. /\ k.user = u /\ k.server = ActivePair(u).server
      /\ k.client = ActivePair(u).client /\ k.nonce = ActivePair(u).nonce + 1
  BY NextContext
<1>3. ~InUse(k)
  <2>1. ~Behind(k)
    BY <1>0, <1>2 DEF Behind
  <2> QED BY <2>1 DEF Fresh
<1>4. Behind(k)'
  BY <1>0, <1>1, <1>2, NextContext DEF Behind
<1>5. ASSUME NEW c \in Contexts, Behind(c) PROVE Behind(c)'
  <2>1. CASE c.user = u
    BY <1>0, <1>1, <1>5, <2>1, NextContext DEF Behind
  <2>2. CASE c.user # u
    BY <1>0, <1>1, <1>5, <2>2 DEF Behind
  <2> QED BY <2>1, <2>2
<1> QED BY <1>3, <1>4, <1>5

(* A step that takes no context: the rounds keep theirs, and no request    *)
(* gains one.                                                              *)
LEMMA FreshKept ==
  ASSUME TypeOK, Fresh, DOMAIN rounds' = DOMAIN rounds,
         \A j \in DOMAIN rounds : rounds'[j].ctx = rounds[j].ctx,
         \A q \in Requests : Waiting(q)' => Waiting(q) /\ req'[q].ctx = req[q].ctx,
         \A c \in Contexts : InUse(c) /\ Behind(c) => Behind(c)'
  PROVE  Fresh'
<1>1. ASSUME NEW c \in Contexts, InUse(c)' PROVE InUse(c)
  BY <1>1 DEF InUse
<1>2. \A c \in Contexts : InUse(c)' => Behind(c)'
  BY <1>1 DEF Fresh
<1>3. FreshDraws'
  BY DEF Fresh, FreshDraws
<1>4. \A q, r \in Requests :
        Waiting(q)' /\ Waiting(r)' /\ q # r => req'[q].ctx # req'[r].ctx
  BY DEF Fresh
<1>5. \A q \in Requests : \A i \in DOMAIN rounds' :
        Waiting(q)' => req'[q].ctx # rounds'[i].ctx
  BY DEF Fresh
<1> QED BY <1>2, <1>3, <1>4, <1>5 DEF Fresh

(* A change of the client seed to one that no wager of this server seed    *)
(* used, and a new server seed, leave every context in use behind.         *)
LEMMA PairChangeKeepsBehind ==
  ASSUME TypeOK, Fresh, ~RepeatSeeds, NEW u \in Users,
         (\E c \in ClientSeeds : ChooseClientSeed(u, c)) \/ Rotate(u),
         NEW k \in Contexts, InUse(k)
  PROVE  Behind(k)'
<1>0. /\ k.user \in Users /\ k.server \in Nat /\ k.nonce \in Nat
      /\ ActivePair(u) \in Pairs /\ ActivePair(u).server \in Nat \ {0}
      /\ k.server <= ActivePair(k.user).server
  BY PairType DEF Contexts, Pairs, Fresh, Behind, TypeOK
<1>1. Behind(k)
  BY DEF Fresh
<1>2. ASSUME NEW c \in ClientSeeds, ChooseClientSeed(u, c) PROVE Behind(k)'
  <2> DEFINE p == [ActivePair(u) EXCEPT !.client = c, !.nonce = 0]
  <2>1. p \in Pairs
    BY <1>0, ZenonT(30) DEF Pairs
  <2>2. p.client = c /\ p.server = ActivePair(u).server
    BY <1>0 DEF Pairs
  <2>3. pair' = [pair EXCEPT ![u] = p]
    BY <1>2 DEF ChooseClientSeed, SetClientSeed
  <2> HIDE DEF p
  <2>4. ActivePair(u)' = p /\ \A v \in Users \ {u} : ActivePair(v)' = ActivePair(v)
    BY <2>1, <2>3, PairMoves
  <2>5. CASE k.user = u
    <3>1. CASE k.server = ActivePair(u).server
      <4>1. k \in {rounds[i].ctx : i \in DOMAIN rounds} \cup {req[q].ctx : q \in InFlight}
        BY DEF InUse, Waiting, InFlight
      <4>2. k \in SpentUnder(u)
        BY <2>5, <3>1, <4>1 DEF SpentUnder
      <4>3. k.client # c
        BY <1>2, <4>2 DEF ChooseClientSeed
      <4> QED BY <1>0, <2>2, <2>4, <2>5, <3>1, <4>3 DEF Behind
    <3>2. CASE k.server # ActivePair(u).server
      BY <1>0, <2>2, <2>4, <2>5, <3>2 DEF Behind
    <3> QED BY <3>1, <3>2
  <2>6. CASE k.user # u
    BY <1>0, <1>1, <2>4, <2>6 DEF Behind
  <2> QED BY <2>5, <2>6
<1>3. CASE Rotate(u)
  <2> DEFINE p == [ActivePair(u) EXCEPT !.server = @ + 1, !.nonce = 0]
  <2>1. ActivePair(u).server + 1 \in Nat \ {0}
    BY <1>0
  <2>2. p \in Pairs /\ p.server = ActivePair(u).server + 1
    BY <1>0, <2>1 DEF Pairs
  <2>3. pair' = [pair EXCEPT ![u] = p]
    BY <1>3 DEF Rotate, RotateServerSeed
  <2> HIDE DEF p
  <2>4. ActivePair(u)' = p /\ \A v \in Users \ {u} : ActivePair(v)' = ActivePair(v)
    BY <2>2, <2>3, PairMoves
  <2>5. CASE k.user = u
    BY <1>0, <2>2, <2>4, <2>5 DEF Behind
  <2>6. CASE k.user # u
    BY <1>0, <1>1, <2>4, <2>6 DEF Behind
  <2> QED BY <2>5, <2>6
<1> QED BY <1>2, <1>3

(* A wager settled in one transaction takes a context nothing used.        *)
LEMMA FreshWager ==
  ASSUME TypeOK, Fresh, NEW u \in Users, NEW g \in Kinds, Wager(u, g)
  PROVE  Fresh'
<1>1. /\ pair' = [pair EXCEPT ![u] = BumpNonce(u)] /\ Enter(u, g, Context(u), FALSE)
      /\ req' = req /\ rounds \in Seq(RoundRows)
  BY DEF Wager, TypeOK
<1>2. PICK k \in Contexts : k = Context(u)
  BY NextContext
<1>3. PICK x \in RoundRows : x.ctx = k /\ rounds' = Append(rounds, x)
  BY <1>1, <1>2, EnterKeeps, ZenonT(30)
<1>4. /\ ~InUse(k) /\ Behind(k)' /\ \A c \in Contexts : Behind(c) => Behind(c)'
  BY <1>1, <1>2, TakesFresh
<1>5. /\ Len(rounds) \in Nat /\ DOMAIN rounds = 1 .. Len(rounds)
      /\ DOMAIN rounds' = 1 .. Len(rounds) + 1 /\ rounds'[Len(rounds) + 1] = x
      /\ \A i \in 1 .. Len(rounds) : rounds'[i] = rounds[i]
  BY <1>1, <1>3, AppendProperties
<1>6. DOMAIN rounds' = DOMAIN rounds \cup {Len(rounds) + 1}
  BY <1>5
<1>7. \A c \in Contexts : InUse(c)' => InUse(c) \/ c = k
  BY <1>1, <1>3, <1>5, <1>6 DEF InUse, Waiting
<1>8. \A c \in Contexts : InUse(c)' => Behind(c)'
  BY <1>4, <1>7 DEF Fresh
<1>9. /\ \A i \in DOMAIN rounds : rounds[i].ctx # k
      /\ \A q \in Requests : Waiting(q) => req[q].ctx # k
  BY <1>4 DEF InUse
<1>10. FreshDraws'
  BY <1>3, <1>5, <1>6, <1>9 DEF Fresh, FreshDraws
<1>11. /\ \A q, r \in Requests :
            Waiting(q)' /\ Waiting(r)' /\ q # r => req'[q].ctx # req'[r].ctx
       /\ \A q \in Requests : \A i \in DOMAIN rounds' :
            Waiting(q)' => req'[q].ctx # rounds'[i].ctx
  BY <1>1, <1>3, <1>5, <1>6, <1>9 DEF Fresh, Waiting
<1> QED BY <1>8, <1>10, <1>11 DEF Fresh

(* So does a reservation.                                                  *)
LEMMA FreshReserve ==
  ASSUME TypeOK, Fresh, NEW q \in Requests, NEW u \in Users, NEW g \in Kinds,
         Reserve(q, u, g)
  PROVE  Fresh'
<1>1. /\ pair' = [pair EXCEPT ![u] = BumpNonce(u)] /\ rounds' = rounds
      /\ req' = [req EXCEPT ![q] =
           [pc |-> "reserved", game |-> g, ctx |-> Context(u), entropy |-> FALSE]]
      /\ DOMAIN req = Requests
  BY DEF Reserve, TypeOK
<1>2. PICK k \in Contexts : k = Context(u)
  BY NextContext
<1>3. /\ req'[q].ctx = k /\ \A r \in Requests \ {q} : req'[r] = req[r]
  BY <1>1, <1>2
<1>4. ~InUse(k) /\ Behind(k)' /\ \A c \in Contexts : Behind(c) => Behind(c)'
  BY <1>1, <1>2, TakesFresh
<1>5. \A c \in Contexts : InUse(c)' => InUse(c) \/ c = k
  BY <1>1, <1>3 DEF InUse, Waiting
<1>6. \A c \in Contexts : InUse(c)' => Behind(c)'
  BY <1>4, <1>5 DEF Fresh
<1>7. /\ \A i \in DOMAIN rounds : rounds[i].ctx # k
      /\ \A r \in Requests : Waiting(r) => req[r].ctx # k
  BY <1>4 DEF InUse
<1>8. FreshDraws'
  BY <1>1 DEF Fresh, FreshDraws
<1>9. \A r \in Requests \ {q} : Waiting(r)' = Waiting(r)
  BY <1>3 DEF Waiting
<1>10. ASSUME NEW r \in Requests, NEW s \in Requests, Waiting(r)', Waiting(s)', r # s
       PROVE  req'[r].ctx # req'[s].ctx
  BY <1>3, <1>7, <1>9, <1>10 DEF Fresh
<1>11. ASSUME NEW r \in Requests, NEW i \in DOMAIN rounds, Waiting(r)'
       PROVE  req'[r].ctx # rounds[i].ctx
  BY <1>3, <1>7, <1>9, <1>11 DEF Fresh
<1> QED BY <1>1, <1>6, <1>8, <1>10, <1>11 DEF Fresh

(* The transaction of a reserved wager moves its context from the request  *)
(* to the round, so it still has one place.                                *)
LEMMA FreshEnterReserved ==
  ASSUME TypeOK, Fresh, NEW q \in Requests, EnterReserved(q)
  PROVE  Fresh'
<1>1. /\ pair' = pair /\ req' = [req EXCEPT ![q] = Idle] /\ DOMAIN req = Requests
      /\ Enter(req[q].ctx.user, req[q].game, req[q].ctx, req[q].entropy)
      /\ req[q].pc = "anchored" /\ rounds \in Seq(RoundRows)
  BY DEF EnterReserved, TypeOK
<1>2. req[q] \in Pending
  BY <1>1 DEF TypeOK
<1>3. /\ Waiting(q) /\ req[q].ctx \in Contexts /\ req[q].ctx.user \in Users
      /\ req[q].game \in Kinds /\ req[q].entropy \in BOOLEAN
  BY <1>1, <1>2 DEF Waiting, Pending, Contexts
<1>4. PICK k \in Contexts : k = req[q].ctx
  BY <1>3
<1>5. PICK x \in RoundRows : x.ctx = k /\ rounds' = Append(rounds, x)
  <2>1. PICK u \in Users, g \in Kinds, e \in BOOLEAN : Enter(u, g, k, e)
    BY <1>1, <1>3, <1>4
  <2>2. \E x \in RoundRows : /\ x.user = u /\ x.ctx = k
                             /\ rounds' = Append(rounds, x)
    BY <2>1, EnterKeeps
  <2> QED BY <2>2
<1>6. /\ Len(rounds) \in Nat /\ DOMAIN rounds = 1 .. Len(rounds)
      /\ DOMAIN rounds' = 1 .. Len(rounds) + 1 /\ rounds'[Len(rounds) + 1] = x
      /\ \A i \in 1 .. Len(rounds) : rounds'[i] = rounds[i]
  BY <1>1, <1>5, AppendProperties
<1>7. DOMAIN rounds' = DOMAIN rounds \cup {Len(rounds) + 1}
  BY <1>6
<1>8. ~Waiting(q)' /\ \A r \in Requests \ {q} : req'[r] = req[r] /\ Waiting(r)' = Waiting(r)
  BY <1>1 DEF Waiting, Idle
<1>9. \A c \in Contexts : InUse(c)' => InUse(c)
  BY <1>3, <1>4, <1>5, <1>6, <1>7, <1>8 DEF InUse
<1>10. \A c \in Contexts : InUse(c)' => Behind(c)'
  BY <1>1, <1>9 DEF Fresh, Behind, ActivePair
<1>11. /\ \A i \in DOMAIN rounds : rounds[i].ctx # k
       /\ \A r \in Requests \ {q} : Waiting(r) => req[r].ctx # k
  BY <1>3, <1>4 DEF Fresh
<1>12. FreshDraws'
  BY <1>5, <1>6, <1>7, <1>11 DEF Fresh, FreshDraws
<1>13. \A r, s \in Requests :
         Waiting(r)' /\ Waiting(s)' /\ r # s => req'[r].ctx # req'[s].ctx
  BY <1>8 DEF Fresh
<1>14. \A r \in Requests : \A i \in DOMAIN rounds' :
         Waiting(r)' => req'[r].ctx # rounds'[i].ctx
  BY <1>5, <1>6, <1>7, <1>8, <1>11 DEF Fresh
<1> QED BY <1>10, <1>12, <1>13, <1>14 DEF Fresh

(* Nothing is in use at first.                                            *)
LEMMA FreshInit == Init => Fresh
  BY DEF Init, Fresh, FreshDraws, InUse, Waiting, Idle

(* Every step keeps the contexts apart, action by action.                  *)
LEMMA FreshStep == TypeOK /\ Fresh /\ ~RepeatSeeds /\ [Next]_vars => Fresh'
<1> SUFFICES ASSUME TypeOK, Fresh, ~RepeatSeeds, [Next]_vars PROVE Fresh'
  OBVIOUS
<1>0. pair' = pair => \A c \in Contexts : Behind(c) => Behind(c)'
  BY DEF Behind, ActivePair
<1>1. ASSUME NEW u \in Users,
             (\E c \in ClientSeeds : ChooseClientSeed(u, c)) \/ Rotate(u)
      PROVE  Fresh'
  <2>1. rounds' = rounds /\ req' = req
    BY <1>1 DEF ChooseClientSeed, Rotate
  <2>2. \A k \in Contexts : InUse(k) => Behind(k)'
    BY <1>1, PairChangeKeepsBehind
  <2> QED BY <2>1, <2>2, FreshKept DEF Waiting
<1>2. ASSUME NEW q \in Requests,
             (\E landed \in BOOLEAN : EntropyFails(q, landed)) \/ EntropyArrives(q) \/ Abandon(q)
      PROVE  Fresh'
  <2>1. rounds' = rounds /\ pair' = pair /\ req[q].pc # "idle" /\ DOMAIN req = Requests
    BY <1>2 DEF EntropyFails, EntropyArrives, Abandon, seedVars, TypeOK
  <2>2. \A r \in Requests \ {q} : req'[r] = req[r]
    BY <1>2, <2>1 DEF EntropyFails, EntropyArrives, Abandon
  <2>3. Waiting(q)' => req'[q].ctx = req[q].ctx
    <3>1. req[q] \in Pending
      BY <2>1 DEF TypeOK
    <3>2. CASE Abandon(q)
      BY <2>1, <3>2 DEF Abandon, Waiting, Idle
    <3>3. CASE EntropyArrives(q)
      BY <2>1, <3>1, <3>3 DEF EntropyArrives, Pending
    <3>4. ASSUME NEW l \in BOOLEAN, EntropyFails(q, l) PROVE req'[q].ctx = req[q].ctx
      BY <2>1, <3>1, <3>4 DEF EntropyFails, Pending
    <3> QED BY <1>2, <3>2, <3>3, <3>4
  <2>4. \A r \in Requests : Waiting(r)' => Waiting(r) /\ req'[r].ctx = req[r].ctx
    BY <2>1, <2>2, <2>3 DEF Waiting
  <2> QED BY <1>0, <2>1, <2>4, FreshKept
<1>3. ASSUME NEW i \in DOMAIN rounds, Advance(i) \/ CashOut(i) PROVE Fresh'
  <2>1. pair' = pair /\ req' = req
    BY <1>3 DEF Advance, CashOut, seedVars
  <2>2. /\ DOMAIN rounds' = DOMAIN rounds
        /\ \A j \in DOMAIN rounds : rounds'[j].ctx = rounds[j].ctx
    BY <1>3, RoundKeepsContext
  <2> QED BY <1>0, <2>1, <2>2, FreshKept DEF Waiting
<1>4. CASE UNCHANGED vars
  BY <1>0, <1>4, FreshKept DEF vars, seedVars, Waiting
<1> QED
  BY <1>1, <1>2, <1>3, <1>4, FreshWager, FreshReserve, FreshEnterReserved DEF Next

(* As long as no player types a client seed a second time under one server *)
(* seed, no two wagers are ever derived from the same seeds and nonce:     *)
(* consumeNonce and reserveSeedContext return the nonce they write         *)
(* (seed-manager.service.ts:141-145), a rotation starts a new server seed, *)
(* and a reservation that is abandoned leaves its nonce spent.             *)
THEOREM DrawsNeverRepeat == ~RepeatSeeds /\ Spec => []FreshDraws
<1>1. Fresh => FreshDraws
  BY DEF Fresh
<1>2. CASE RepeatSeeds
  BY <1>2
<1>3. CASE ~RepeatSeeds
  <2>1. TypeOK /\ Fresh /\ [Next]_vars => Fresh'
    BY <1>3, FreshStep
  <2> QED BY <1>1, <2>1, TypeCorrect, FreshInit, PTL DEF Spec
<1> QED BY <1>2, <1>3
=============================================================================
