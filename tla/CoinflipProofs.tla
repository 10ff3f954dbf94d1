---------------------------- MODULE CoinflipProofs ----------------------------
(***************************************************************************)
(* Proofs about Coinflip, for any players, flips, requests in flight and   *)
(* stakes.  None of its four properties is inductive: a transaction relies *)
(* on what its first half read, so the invariant says what of it is still  *)
(* true at the second half, and which lock or guard keeps it so.           *)
(***************************************************************************)
EXTENDS Coinflip, FiniteSetTheorems, TLAPS

\* What the constants must be.
FlipConstants ==
  /\ Funds \in Nat /\ FlipStake \in Nat /\ Deposit \in Nat /\ IsFiniteSet(Flips)
  /\ Creators \subseteq Users /\ Joiners \subseteq Users
  /\ Nobody \notin Users /\ House \notin Users

\* An open flip is of its creator's economy; a keyed one has left its answer.
FlipsKnown ==
  \A f \in Flips :
    /\ flip[f].status = "none" => flip[f] = NoFlip
    /\ flip[f].status # "none" => flip[f].creator \in Users
    /\ flip[f].status = "open" => real[flip[f].creator] = flip[f].eco
    /\ flip[f].keyed => flip[f].creator \in keys

\* What a join that has checked still knows: the locks of the joiner's row and of
\* the creator's open position keep both in their economies.
JoinsKnow ==
  \A q \in Slots :
    /\ ask[q].at # "idle" => ask[q].user \in Users
    /\ ask[q].at \in {"join", "anchored", "joining"} =>
         ask[q].f \in Flips /\ flip[ask[q].f].status # "none"
    /\ ask[q].at = "joining" =>
         /\ flip[ask[q].f].creator # ask[q].user
         /\ flip[ask[q].f].status = "open" => real[flip[ask[q].f].creator] = real[ask[q].user]

\* A key is claimed by one request, and by none once it has its answer.
KeysKnown ==
  \A q \in Slots : ask[q].at = "counted" /\ ask[q].keyed =>
    /\ ask[q].user \notin keys
    /\ \A p \in Slots : ask[p].at = "counted" /\ ask[p].keyed /\ ask[p].user = ask[q].user => p = q

\* Requests of a blocked player are late ones, and what the walk has to cancel
\* is all that is open but theirs.
BlocksKnown ==
  \A u \in Users :
    /\ block[u].at # "free" =>
         \A q \in Slots : ask[q].at \in {"create", "counted"} /\ ask[q].user = u => ask[q].late
    /\ block[u].at = "cancelling" =>
         \A f \in OpenOf(u) : f \in block[u].todo \/ flip[f].late

FlipInv ==
  /\ TypeOK /\ FlipsKnown /\ JoinsKnow /\ KeysKnown /\ BlocksKnown
  /\ FlipStakesBalance /\ FlipEconomiesApart /\ FlipKeyedOnce /\ FlipBlockStopsPlay

-----------------------------------------------------------------------------
(* The flips a player has open, as one of them opens or closes.            *)
LEMMA OpenCounted ==
  ASSUME FlipConstants, NEW u
  PROVE  /\ Cardinality(OpenOf(u)) \in Nat
         /\ \A f \in Flips : f \notin OpenOf(u) =>
              Cardinality(OpenOf(u) \cup {f}) = Cardinality(OpenOf(u)) + 1
         /\ \A f \in OpenOf(u) : Cardinality(OpenOf(u) \ {f}) = Cardinality(OpenOf(u)) - 1
<1>1. IsFiniteSet(OpenOf(u))
  <2>1. OpenOf(u) \subseteq Flips
    BY DEF OpenOf
  <2> QED BY <2>1, FS_Subset DEF FlipConstants
<1>2. Cardinality(OpenOf(u)) \in Nat
  BY <1>1, FS_CardinalityType
<1>3. ASSUME NEW f \in Flips, f \notin OpenOf(u)
      PROVE  Cardinality(OpenOf(u) \cup {f}) = Cardinality(OpenOf(u)) + 1
  BY <1>1, <1>3, FS_AddElement
<1>4. ASSUME NEW f \in OpenOf(u)
      PROVE  Cardinality(OpenOf(u) \ {f}) = Cardinality(OpenOf(u)) - 1
  BY <1>1, <1>4, FS_RemoveElement
<1> QED BY <1>2, <1>3, <1>4

(* One stake more or less.                                                 *)
LEMMA OneStake == \A e, c \in Int : e * (c - 1) = e * c - e /\ e * (c + 1) = e * c + e
  OBVIOUS

(* A winner never gets back less than the stake.                           *)
LEMMA WinningsType == FlipConstants => Winnings \in Nat /\ Winnings - FlipStake \in Nat
<1>1. \A n \in Nat : (n * 190) \div 100 \in Nat /\ (n * 190) \div 100 >= n
  OBVIOUS
<1> QED BY <1>1 DEF Winnings, FlipConstants

(* A step that moves no money and opens or closes no flip keeps the books. *)
LEMMA BooksKept ==
  ASSUME FlipStakesBalance, UNCHANGED <<accountVars, grant>>,
         \A u \in Users : OpenOf(u)' = OpenOf(u)
  PROVE  FlipStakesBalance'
  BY DEF FlipStakesBalance, accountVars

-----------------------------------------------------------------------------
(* A request takes a step in RAM, or a first half that only reads.  What   *)
(* it carries on with, a, is what the invariant asks of a request.         *)
LEMMA AskStep ==
  ASSUME FlipConstants, FlipInv, NEW q \in Slots, NEW a \in Request,
         ask' = [ask EXCEPT ![q] = a],
         UNCHANGED <<accountVars, flip, keys, block, real, grant>>,
         a.at # "idle" => a.user \in Users,
         a.at \in {"join", "anchored", "joining"} =>
           a.f \in Flips /\ flip[a.f].status # "none",
         a.at = "joining" =>
           /\ flip[a.f].creator # a.user
           /\ flip[a.f].status = "open" => real[flip[a.f].creator] = real[a.user],
         a.at = "counted" /\ a.keyed =>
           /\ a.user \notin keys
           /\ \A p \in Slots \ {q} : ~(ask[p].at = "counted" /\ ask[p].keyed /\ ask[p].user = a.user),
         a.at \in {"create", "counted"} => block[a.user].at = "free" \/ a.late
  PROVE  FlipInv'
<1> USE DEF FlipInv
<1>1. /\ ask'[q] = a /\ \A p \in Slots \ {q} : ask'[p] = ask[p]
      /\ ask' \in [Slots -> Request]
  BY DEF TypeOK
<1>2. TypeOK'
  BY <1>1 DEF TypeOK, AccountTypeOK, accountVars
<1>3. FlipsKnown' /\ FlipEconomiesApart' /\ FlipKeyedOnce'
  BY DEF FlipsKnown, FlipEconomiesApart, FlipKeyedOnce
<1>4. \A u \in Users : OpenOf(u)' = OpenOf(u)
  BY DEF OpenOf
<1>5. FlipStakesBalance'
  BY <1>4, BooksKept
<1>6. JoinsKnow'
  BY <1>1 DEF JoinsKnow
<1>7. KeysKnown'
  BY <1>1 DEF KeysKnown
<1>8. BlocksKnown'
  BY <1>1, <1>4 DEF BlocksKnown
<1>9. FlipBlockStopsPlay'
  BY <1>4 DEF FlipBlockStopsPlay
<1> QED BY <1>2, <1>3, <1>5, <1>6, <1>7, <1>8, <1>9

(* The steps of requests up to their second half.                          *)
LEMMA RequestSteps ==
  ASSUME FlipConstants, FlipInv, NEW q \in Slots,
         \/ \E u \in Creators, keyed, house \in BOOLEAN : AskCreate(q, u, keyed, house)
         \/ \E u \in Joiners, f \in Flips : AskJoin(q, u, f)
         \/ CountOpen(q) \/ Anchor(q) \/ CheckJoin(q) \/ Abandon(q)
  PROVE  FlipInv'
<1> USE DEF FlipInv
<1>0. /\ NoAsk \in Request /\ NoAsk.at = "idle"
      /\ ask[q] \in Request /\ Creators \subseteq Users /\ Joiners \subseteq Users
  BY DEF TypeOK, Request, NoAsk, FlipConstants
<1>a. ASSUME ask' = [ask EXCEPT ![q] = NoAsk],
             UNCHANGED <<accountVars, flip, keys, block, real, grant>>
      PROVE  FlipInv'
  BY <1>0, <1>a, AskStep
<1>1. CASE \E u \in Creators, keyed, house \in BOOLEAN : AskCreate(q, u, keyed, house)
  <2>1. PICK u \in Creators, keyed \in BOOLEAN, house \in BOOLEAN : AskCreate(q, u, keyed, house)
    BY <1>1
  <2> DEFINE a == [NoAsk EXCEPT !.at = "create", !.user = u, !.keyed = keyed, !.house = house]
  <2>2. a \in Request /\ a.at = "create" /\ a.user = u
    BY <1>0 DEF Request, NoAsk
  <2>3. block[u].at = "free" /\ u \in Users
    BY <1>0, <2>1 DEF AskCreate, MayWager
  <2>4. ask' = [ask EXCEPT ![q] = a] /\ UNCHANGED <<accountVars, flip, keys, block, real, grant>>
    BY <2>1 DEF AskCreate
  <2> HIDE DEF a
  <2> QED BY <2>2, <2>3, <2>4, AskStep
<1>2. CASE \E u \in Joiners, f \in Flips : AskJoin(q, u, f)
  <2>1. PICK u \in Joiners, f \in Flips : AskJoin(q, u, f)
    BY <1>2
  <2> DEFINE a == [NoAsk EXCEPT !.at = "join", !.user = u, !.f = f]
  <2>2. a \in Request /\ a.at = "join" /\ a.user = u /\ a.f = f
    BY <1>0 DEF Request, NoAsk
  <2>3. u \in Users /\ flip[f].status # "none"
    BY <1>0, <2>1 DEF AskJoin
  <2>4. ask' = [ask EXCEPT ![q] = a] /\ UNCHANGED <<accountVars, flip, keys, block, real, grant>>
    BY <2>1 DEF AskJoin
  <2> HIDE DEF a
  <2> QED BY <2>2, <2>3, <2>4, AskStep
<1>3. CASE CountOpen(q)
  <2>1. CASE ask' = [ask EXCEPT ![q] = NoAsk]
    BY <1>3, <1>a, <2>1 DEF CountOpen
  <2>2. CASE ask' # [ask EXCEPT ![q] = NoAsk]
    <3> DEFINE a == [ask[q] EXCEPT !.at = "counted"]
    <3>1. /\ ask' = [ask EXCEPT ![q] = a] /\ ~(ask[q].keyed /\ ask[q].user \in keys)
          /\ ask[q].at = "create" /\ (ask[q].keyed => KeyFree(q))
          /\ UNCHANGED <<accountVars, flip, keys, block, real, grant>>
      BY <1>3, <2>2 DEF CountOpen
    <3>2. /\ a \in Request /\ a.at = "counted" /\ a.user = ask[q].user
          /\ a.keyed = ask[q].keyed /\ a.late = ask[q].late
      BY <1>0 DEF Request
    <3>3. a.user \in Users /\ (block[a.user].at = "free" \/ a.late)
      BY <3>1, <3>2 DEF JoinsKnow, BlocksKnown
    <3>4. a.keyed =>
            /\ a.user \notin keys
            /\ \A p \in Slots \ {q} :
                 ~(ask[p].at = "counted" /\ ask[p].keyed /\ ask[p].user = a.user)
      BY <3>1, <3>2 DEF KeyFree
    <3> HIDE DEF a
    <3> QED BY <3>1, <3>2, <3>3, <3>4, AskStep
  <2> QED BY <2>1, <2>2
<1>4. CASE Anchor(q)
  <2> DEFINE a == [ask[q] EXCEPT !.at = "anchored"]
  <2>1. /\ ask' = [ask EXCEPT ![q] = a] /\ ask[q].at = "join"
        /\ UNCHANGED <<accountVars, flip, keys, block, real, grant>>
    BY <1>4 DEF Anchor
  <2>2. a \in Request /\ a.at = "anchored" /\ a.user = ask[q].user /\ a.f = ask[q].f
    BY <1>0 DEF Request
  <2>3. a.user \in Users /\ a.f \in Flips /\ flip[a.f].status # "none"
    BY <2>1, <2>2 DEF JoinsKnow
  <2> HIDE DEF a
  <2> QED BY <2>1, <2>2, <2>3, AskStep
<1>5. CASE CheckJoin(q)
  <2>1. CASE ask' = [ask EXCEPT ![q] = NoAsk]
    BY <1>5, <1>a, <2>1 DEF CheckJoin
  <2>2. CASE ask' # [ask EXCEPT ![q] = NoAsk]
    <3> DEFINE a == [ask[q] EXCEPT !.at = "joining"]
    <3>1. /\ ask' = [ask EXCEPT ![q] = a] /\ ask[q].at \in {"join", "anchored"}
          /\ flip[ask[q].f].creator # ask[q].user
          /\ real[flip[ask[q].f].creator] = real[ask[q].user]
          /\ UNCHANGED <<accountVars, flip, keys, block, real, grant>>
      BY <1>5, <2>2 DEF CheckJoin
    <3>2. a \in Request /\ a.at = "joining" /\ a.user = ask[q].user /\ a.f = ask[q].f
      BY <1>0 DEF Request
    <3>3. a.user \in Users /\ a.f \in Flips /\ flip[a.f].status # "none"
      BY <3>1, <3>2 DEF JoinsKnow
    <3> HIDE DEF a
    <3> QED BY <3>1, <3>2, <3>3, AskStep
  <2> QED BY <2>1, <2>2
<1>6. CASE Abandon(q)
  BY <1>6, <1>a DEF Abandon
<1> QED BY <1>1, <1>2, <1>3, <1>4, <1>5, <1>6

-----------------------------------------------------------------------------
(* An open flip is closed: joined, taken by the house or cancelled.  Apart *)
(* from the books and the blocks, every part of the invariant is kept.     *)
LEMMA CloseStep ==
  ASSUME FlipConstants, FlipInv, NEW f \in Flips, flip[f].status = "open",
         NEW row \in FlipRow, flip' = [flip EXCEPT ![f] = row],
         row.status \in {"completed", "cancelled"}, row.creator = flip[f].creator,
         row.keyed = flip[f].keyed, ~row.mixed, UNCHANGED <<keys, real, grant>>,
         ask' = ask \/ \E q \in Slots : ask' = [ask EXCEPT ![q] = NoAsk]
  PROVE  /\ flip' \in [Flips -> FlipRow] /\ ask' \in [Slots -> Request]
         /\ FlipsKnown' /\ JoinsKnow' /\ KeysKnown' /\ FlipEconomiesApart' /\ FlipKeyedOnce'
         /\ \A q \in Slots : ask'[q] \in {ask[q], NoAsk}
         /\ f \in OpenOf(flip[f].creator) /\ flip[f].creator \in Users
         /\ \A u \in Users : OpenOf(u)' = IF u = flip[f].creator THEN OpenOf(u) \ {f} ELSE OpenOf(u)
         /\ \A g \in Flips \ {f} : flip'[g] = flip[g]
<1> USE DEF FlipInv
<1>1. /\ flip'[f] = row /\ \A g \in Flips \ {f} : flip'[g] = flip[g]
      /\ flip' \in [Flips -> FlipRow]
  BY DEF TypeOK
<1>2. NoAsk \in Request /\ NoAsk.at = "idle"
  BY DEF Request, NoAsk
<1>3. \A q \in Slots : ask'[q] \in {ask[q], NoAsk}
  BY DEF TypeOK
<1>4. ask' \in [Slots -> Request]
  BY <1>2 DEF TypeOK
<1>5. f \in OpenOf(flip[f].creator) /\ flip[f].creator \in Users
  BY DEF OpenOf, FlipsKnown
<1>6. \A u \in Users : OpenOf(u)' = IF u = flip[f].creator THEN OpenOf(u) \ {f} ELSE OpenOf(u)
  BY <1>1 DEF OpenOf
<1>7. FlipsKnown'
  BY <1>1 DEF FlipsKnown
<1>8. JoinsKnow'
  BY <1>1, <1>2, <1>3 DEF JoinsKnow
<1>9. KeysKnown'
  BY <1>2, <1>3 DEF KeysKnown
<1>10. FlipEconomiesApart'
  BY <1>1 DEF FlipEconomiesApart
<1>11. FlipKeyedOnce'
  BY <1>1 DEF FlipKeyedOnce
<1> QED BY <1>1, <1>3, <1>4, <1>5, <1>6, <1>7, <1>8, <1>9, <1>10, <1>11

(* Fewer open flips and fewer requests leave the blocks as they were.      *)
LEMMA BlocksKept ==
  ASSUME FlipInv, UNCHANGED block, \A u \in Users : OpenOf(u)' \subseteq OpenOf(u),
         \A q \in Slots : ask'[q] \in {ask[q], NoAsk},
         \A u \in Users : \A g \in OpenOf(u)' : flip'[g].late = flip[g].late
  PROVE  BlocksKnown' /\ FlipBlockStopsPlay'
<1> USE DEF FlipInv
<1>1. NoAsk.at = "idle"
  BY DEF NoAsk
<1>2. BlocksKnown'
  BY <1>1 DEF BlocksKnown
<1>3. FlipBlockStopsPlay'
  BY DEF FlipBlockStopsPlay
<1> QED BY <1>2, <1>3

(* A settlement: `closed' are the creators (one or none) whose open stake  *)
(* it ends, payers the players debited in it.                              *)
LEMMA SettledBooks ==
  ASSUME FlipConstants, FlipInv, NEW closed \in SUBSET Users, NEW payers \in SUBSET Users,
         closed \cap payers = {}, NEW w, Settled(closed \cup payers, payers, w),
         w \in Users => w \in closed \cup payers,
         \A u \in payers : bal[u] >= FlipStake, UNCHANGED grant,
         \A u \in Users : Cardinality(OpenOf(u))' =
                            IF u \in closed THEN Cardinality(OpenOf(u)) - 1 ELSE Cardinality(OpenOf(u))
  PROVE  AccountTypeOK' /\ FlipStakesBalance'
<1> USE DEF FlipInv
<1>0. /\ FlipStake \in Nat /\ Winnings \in Nat /\ Winnings - FlipStake \in Nat
      /\ bal \in [Users -> Nat] /\ totalWon \in [Users -> Nat] /\ totalLost \in [Users -> Nat]
      /\ grant \in [Users -> Int]
  BY WinningsType DEF FlipConstants, TypeOK, AccountTypeOK
<1>1. /\ bal' = [u \in Users |-> bal[u] - (IF u \in payers THEN FlipStake ELSE 0)
                                        + (IF u = w THEN Winnings ELSE 0)]
      /\ totalWon' = [u \in Users |-> totalWon[u] + (IF u = w THEN Winnings - FlipStake ELSE 0)]
      /\ totalLost' = [u \in Users |-> totalLost[u] +
                         (IF u \in (closed \cup payers) \ {w} THEN FlipStake ELSE 0)]
  BY DEF Settled
<1>2. ASSUME NEW u \in Users
      PROVE  /\ bal'[u] \in Nat /\ totalWon'[u] \in Nat /\ totalLost'[u] \in Nat
             /\ bal'[u] = grant[u] + totalWon'[u] - totalLost'[u]
                            - FlipStake * Cardinality(OpenOf(u))'
  <2> DEFINE n == Cardinality(OpenOf(u))
             m == Cardinality(OpenOf(u))'
  <2>1. n \in Nat /\ m = IF u \in closed THEN n - 1 ELSE n
    BY OpenCounted
  <2>2. bal[u] = grant[u] + totalWon[u] - totalLost[u] - FlipStake * n
    BY DEF FlipStakesBalance
  <2>3. FlipStake * m = IF u \in closed THEN FlipStake * n - FlipStake ELSE FlipStake * n
    <3> HIDE DEF n, m
    <3> QED BY <1>0, <2>1, OneStake
  <2>4. FlipStake * n \in Int
    <3> HIDE DEF n
    <3> QED BY <1>0, <2>1
  <2>5. /\ bal[u] \in Nat /\ totalWon[u] \in Nat /\ totalLost[u] \in Nat /\ grant[u] \in Int
        /\ u \in payers => bal[u] >= FlipStake
    BY <1>0
  <2>6. /\ bal'[u] = bal[u] - (IF u \in payers THEN FlipStake ELSE 0)
                            + (IF u = w THEN Winnings ELSE 0)
        /\ totalWon'[u] = totalWon[u] + (IF u = w THEN Winnings - FlipStake ELSE 0)
        /\ totalLost'[u] = totalLost[u] +
             (IF u \in closed \cup payers /\ u # w THEN FlipStake ELSE 0)
    BY <1>1
  <2>7. PICK x \in Int : x = FlipStake * n
    BY <2>4
  <2>8. PICK y \in Int : y = FlipStake * m /\ y = IF u \in closed THEN x - FlipStake ELSE x
    BY <1>0, <2>3, <2>7
  <2> HIDE DEF n, m
  <2>9. u \in closed => u \notin payers
    OBVIOUS
  <2>10. bal'[u] \in Nat /\ totalWon'[u] \in Nat /\ totalLost'[u] \in Nat
    BY <1>0, <2>5, <2>6
  <2>11. bal'[u] = grant[u] + totalWon'[u] - totalLost'[u] - y
    BY <1>0, <2>2, <2>5, <2>6, <2>7, <2>8, <2>9
  <2>12. bal'[u] = grant[u] + totalWon'[u] - totalLost'[u] - FlipStake * m
    BY <2>8, <2>11
  <2> QED BY <2>10, <2>12 DEF m
<1>3. AccountTypeOK'
  BY <1>1, <1>2 DEF AccountTypeOK
<1>4. FlipStakesBalance'
  BY <1>2 DEF FlipStakesBalance
<1> QED BY <1>3, <1>4

(* A flip that is joined or played against the house: row is what becomes  *)
(* of it, payers are debited, w wins.                                      *)
LEMMA Resolved ==
  ASSUME FlipConstants, FlipInv, NEW f \in Flips, flip[f].status = "open",
         NEW payers \in SUBSET Users, NEW row \in FlipRow, NEW w,
         flip' = [flip EXCEPT ![f] = row], row.status = "completed",
         row.creator = flip[f].creator, row.keyed = flip[f].keyed, row.late = flip[f].late,
         ~row.mixed, flip[f].creator \notin payers,
         w \in Users => w \in {flip[f].creator} \cup payers,
         Settled({flip[f].creator} \cup payers, payers, w),
         \A u \in payers : bal[u] >= FlipStake,
         ask' = ask \/ \E q \in Slots : ask' = [ask EXCEPT ![q] = NoAsk],
         UNCHANGED <<keys, block, real, grant>>
  PROVE  FlipInv'
<1> USE DEF FlipInv
<1> DEFINE c == flip[f].creator
<1>1. c \in Users
  BY DEF FlipsKnown
<1>2. /\ flip' \in [Flips -> FlipRow] /\ ask' \in [Slots -> Request]
      /\ FlipsKnown' /\ JoinsKnow' /\ KeysKnown' /\ FlipEconomiesApart' /\ FlipKeyedOnce'
      /\ \A q \in Slots : ask'[q] \in {ask[q], NoAsk}
      /\ f \in OpenOf(c)
      /\ \A u \in Users : OpenOf(u)' = IF u = c THEN OpenOf(u) \ {f} ELSE OpenOf(u)
      /\ \A g \in Flips \ {f} : flip'[g] = flip[g]
  BY CloseStep
<1>3. \A u \in Users : Cardinality(OpenOf(u))' =
                         IF u \in {c} THEN Cardinality(OpenOf(u)) - 1 ELSE Cardinality(OpenOf(u))
  BY <1>2, OpenCounted
<1>4. AccountTypeOK' /\ FlipStakesBalance'
  <2>1. {c} \cap payers = {} /\ {c} \in SUBSET Users
    BY <1>1
  <2>2. Settled({c} \cup payers, payers, w) /\ (w \in Users => w \in {c} \cup payers)
    OBVIOUS
  <2> HIDE DEF c
  <2> QED BY <1>3, <2>1, <2>2, SettledBooks
<1>5. BlocksKnown' /\ FlipBlockStopsPlay'
  <2>1. flip'[f] = row
    BY DEF TypeOK
  <2>2. \A u \in Users : \A g \in OpenOf(u)' : g \in Flips
    BY DEF OpenOf
  <2>3. \A u \in Users : \A g \in OpenOf(u)' : flip'[g].late = flip[g].late
    BY <1>2, <2>1, <2>2
  <2> QED BY <1>2, <2>3, BlocksKept
<1>6. TypeOK'
  BY <1>2, <1>4 DEF TypeOK
<1> QED BY <1>2, <1>4, <1>5, <1>6

(* The house takes the other side.                                         *)
LEMMA PlayHouseStep ==
  ASSUME FlipConstants, FlipInv, NEW f \in Flips, PlayHouse(f)
  PROVE  FlipInv'
<1> USE DEF FlipInv
<1> DEFINE c == flip[f].creator
           row == [flip[f] EXCEPT !.status = "completed", !.joiner = House]
<1>0. flip[f].status = "open" /\ flip[f] \in FlipRow /\ c \in Users /\ House \notin Users
  BY DEF PlayHouse, Claimable, Joinable, TypeOK, FlipsKnown, FlipConstants
<1>1. PICK w \in {c, House} : Settled({c}, {}, w)
  BY DEF PlayHouse
<1>2. /\ row \in FlipRow /\ row.status = "completed" /\ row.creator = c
      /\ row.keyed = flip[f].keyed /\ row.late = flip[f].late /\ row.mixed = flip[f].mixed
  BY <1>0 DEF FlipRow
<1>3. ~row.mixed
  BY <1>2 DEF FlipEconomiesApart
<1>4. {c} \cup {} = {c}
  OBVIOUS
<1>5. flip' = [flip EXCEPT ![f] = row] /\ UNCHANGED <<ask, keys, block, real, grant>>
  BY DEF PlayHouse
<1>6. Settled({c} \cup {}, {}, w) /\ (w \in Users => w \in {c} \cup {})
  BY <1>0, <1>1, <1>4
<1>7. {} \in SUBSET Users /\ c \notin {} /\ \A u \in {} : bal[u] >= FlipStake
  OBVIOUS
<1> HIDE DEF row
<1> QED BY <1>0, <1>2, <1>3, <1>5, <1>6, <1>7, Resolved

(* A second player joins.                                                  *)
LEMMA JoinStep ==
  ASSUME FlipConstants, FlipInv, NEW q \in Slots, Join(q)
  PROVE  FlipInv'
<1> USE DEF FlipInv
<1> DEFINE f == ask[q].f
           u == ask[q].user
           c == flip[f].creator
           row == [flip[f] EXCEPT !.status = "completed", !.joiner = u,
                     !.mixed = real[u] # flip[f].eco \/ real[c] # flip[f].eco]
<1>0. ask[q].at = "joining" /\ CanDebit(u, FlipStake) /\ flip[f].status = "open" /\ f \in Flips
  BY DEF Join, Claimable, Joinable, JoinsKnow
<1>1. u \in Users /\ c \in Users /\ c # u /\ real[c] = real[u] /\ real[c] = flip[f].eco
  BY <1>0 DEF JoinsKnow, FlipsKnown
<1>2. PICK w \in {c, u} : Settled({c, u}, {u}, w)
  BY DEF Join
<1>3. flip[f] \in FlipRow
  BY <1>0 DEF TypeOK
<1>4. /\ row \in FlipRow /\ row.status = "completed" /\ row.creator = c
      /\ row.keyed = flip[f].keyed /\ row.late = flip[f].late
  BY <1>1, <1>3 DEF FlipRow
<1>5. ~row.mixed
  BY <1>1, <1>3 DEF FlipRow
<1>6. /\ flip' = [flip EXCEPT ![f] = row] /\ UNCHANGED <<keys, block, real, grant>>
      /\ ask' = [ask EXCEPT ![q] = NoAsk]
  BY DEF Join
<1>7. {u} \in SUBSET Users /\ c \notin {u} /\ \A v \in {u} : bal[v] >= FlipStake
  BY <1>0, <1>1 DEF CanDebit
<1>8. {c, u} = {c} \cup {u}
  OBVIOUS
<1>9. Settled({c} \cup {u}, {u}, w) /\ w \in {c} \cup {u}
  BY <1>2, <1>8
<1> HIDE DEF row, f, u
<1> QED BY <1>0, <1>4, <1>5, <1>6, <1>7, <1>9, Resolved

-----------------------------------------------------------------------------
(* A flip is cancelled and its stake given back: but for what the walk of  *)
(* a block has left to do, every part of the invariant is kept.            *)
LEMMA CancelStep ==
  ASSUME FlipConstants, FlipInv, NEW f \in Flips, CancelOpenFlip(f)
  PROVE  /\ AccountTypeOK' /\ FlipStakesBalance'
         /\ flip' \in [Flips -> FlipRow] /\ ask' = ask /\ keys' = keys /\ real' = real /\ grant' = grant
         /\ FlipsKnown' /\ JoinsKnow' /\ KeysKnown' /\ FlipEconomiesApart' /\ FlipKeyedOnce'
         /\ \A u \in Users : OpenOf(u)' \subseteq OpenOf(u) \ {f}
         /\ \A u \in Users : \A g \in OpenOf(u)' : flip'[g].late = flip[g].late
<1> USE DEF FlipInv
<1> DEFINE c == flip[f].creator
           row == [flip[f] EXCEPT !.status = "cancelled"]
<1>0. /\ flip[f].status = "open" /\ flip[f] \in FlipRow /\ c \in Users
      /\ UNCHANGED <<totalWon, totalLost, ask, keys, real, grant>>
      /\ bal' = [bal EXCEPT ![c] = bal[c] + FlipStake]
  BY DEF CancelOpenFlip, TypeOK, FlipsKnown
<1>1. /\ row \in FlipRow /\ row.status = "cancelled" /\ row.creator = c
      /\ row.keyed = flip[f].keyed /\ row.mixed = flip[f].mixed /\ row.late = flip[f].late
  BY <1>0 DEF FlipRow
<1>2. flip' = [flip EXCEPT ![f] = row]
  BY DEF CancelOpenFlip
<1>3. ~row.mixed
  BY <1>1 DEF FlipEconomiesApart
<1> HIDE DEF row
<1>4. /\ flip' \in [Flips -> FlipRow]
      /\ FlipsKnown' /\ JoinsKnow' /\ KeysKnown' /\ FlipEconomiesApart' /\ FlipKeyedOnce'
      /\ f \in OpenOf(c)
      /\ \A u \in Users : OpenOf(u)' = IF u = c THEN OpenOf(u) \ {f} ELSE OpenOf(u)
      /\ \A g \in Flips \ {f} : flip'[g] = flip[g]
  BY <1>0, <1>1, <1>2, <1>3, CloseStep
<1>5. \A u \in Users : Cardinality(OpenOf(u))' =
                         IF u = c THEN Cardinality(OpenOf(u)) - 1 ELSE Cardinality(OpenOf(u))
  BY <1>4, OpenCounted
<1>6. /\ FlipStake \in Nat /\ bal \in [Users -> Nat] /\ totalWon \in [Users -> Nat]
      /\ totalLost \in [Users -> Nat] /\ grant \in [Users -> Int]
  BY DEF FlipConstants, TypeOK, AccountTypeOK
<1>7. AccountTypeOK'
  BY <1>0, <1>6 DEF AccountTypeOK
<1>8. ASSUME NEW u \in Users
      PROVE  bal'[u] = grant[u] + totalWon[u] - totalLost[u] - FlipStake * Cardinality(OpenOf(u))'
  <2> DEFINE n == Cardinality(OpenOf(u))
             m == Cardinality(OpenOf(u))'
  <2>1. n \in Nat /\ m = IF u = c THEN n - 1 ELSE n
    BY <1>5, OpenCounted
  <2>2. bal[u] = grant[u] + totalWon[u] - totalLost[u] - FlipStake * n
    BY DEF FlipStakesBalance
  <2>3. bal'[u] = IF u = c THEN bal[u] + FlipStake ELSE bal[u]
    BY <1>0, <1>6
  <2> HIDE DEF n, m, c
  <2>4. FlipStake * m = IF u = c THEN FlipStake * n - FlipStake ELSE FlipStake * n
    BY <1>6, <2>1, OneStake
  <2>5. PICK x \in Int : x = FlipStake * n
    BY <1>6, <2>1
  <2>6. PICK y \in Int : y = FlipStake * m /\ y = IF u = c THEN x - FlipStake ELSE x
    BY <1>6, <2>4, <2>5
  <2>7. bal[u] \in Nat /\ totalWon[u] \in Nat /\ totalLost[u] \in Nat /\ grant[u] \in Int
    BY <1>6
  <2>8. bal'[u] = grant[u] + totalWon[u] - totalLost[u] - y
    BY <1>6, <2>2, <2>3, <2>5, <2>6, <2>7
  <2>9. bal'[u] = grant[u] + totalWon[u] - totalLost[u] - FlipStake * m
    BY <2>6, <2>8
  <2> QED BY <2>9 DEF m
<1>9. FlipStakesBalance'
  BY <1>0, <1>8 DEF FlipStakesBalance
<1>10. \A u \in Users : OpenOf(u)' \subseteq OpenOf(u) \ {f}
  <2>1. \A u \in Users : u # c => f \notin OpenOf(u)
    BY DEF OpenOf
  <2> QED BY <1>4, <2>1
<1>11. \A u \in Users : \A g \in OpenOf(u)' : flip'[g].late = flip[g].late
  <2>1. \A u \in Users : \A g \in OpenOf(u) : g \in Flips
    BY DEF OpenOf
  <2> QED BY <1>4, <1>10, <2>1
<1> QED BY <1>0, <1>4, <1>7, <1>9, <1>10, <1>11

(* Cancelled by its creator or by the expiry sweep.                        *)
LEMMA CancelSteps ==
  ASSUME FlipConstants, FlipInv, NEW f \in Flips, Cancel(f) \/ Expire(f)
  PROVE  FlipInv'
<1> USE DEF FlipInv
<1>1. CancelOpenFlip(f) /\ UNCHANGED block
  BY DEF Cancel, Expire
<1>2. /\ AccountTypeOK' /\ FlipStakesBalance'
      /\ flip' \in [Flips -> FlipRow] /\ ask' = ask /\ keys' = keys /\ real' = real /\ grant' = grant
      /\ FlipsKnown' /\ JoinsKnow' /\ KeysKnown' /\ FlipEconomiesApart' /\ FlipKeyedOnce'
      /\ \A u \in Users : OpenOf(u)' \subseteq OpenOf(u) \ {f}
      /\ \A u \in Users : \A g \in OpenOf(u)' : flip'[g].late = flip[g].late
  BY <1>1, CancelStep
<1>3. BlocksKnown' /\ FlipBlockStopsPlay'
  BY <1>1, <1>2, BlocksKept
<1>4. TypeOK'
  BY <1>1, <1>2 DEF TypeOK
<1> QED BY <1>2, <1>3, <1>4

(* The time to live of an open flip passes.                                *)
LEMMA TtlStep ==
  ASSUME FlipConstants, FlipInv, NEW f \in Flips, Ttl(f)
  PROVE  FlipInv'
<1> USE DEF FlipInv
<1> DEFINE row == [flip[f] EXCEPT !.stale = TRUE]
<1>0. /\ flip[f].status = "open" /\ flip[f] \in FlipRow
      /\ flip' = [flip EXCEPT ![f] = row] /\ UNCHANGED <<accountVars, ask, keys, block, real, grant>>
  BY DEF Ttl, TypeOK
<1>1. /\ row \in FlipRow /\ row.status = "open" /\ row.creator = flip[f].creator
      /\ row.keyed = flip[f].keyed /\ row.mixed = flip[f].mixed /\ row.late = flip[f].late
      /\ row.eco = flip[f].eco
  BY <1>0 DEF FlipRow
<1> HIDE DEF row
<1>2. /\ flip'[f] = row /\ \A g \in Flips \ {f} : flip'[g] = flip[g]
      /\ flip' \in [Flips -> FlipRow]
  BY <1>0, <1>1 DEF TypeOK
<1>3. \A g \in Flips : /\ flip'[g].status = flip[g].status /\ flip'[g].creator = flip[g].creator
                       /\ flip'[g].keyed = flip[g].keyed /\ flip'[g].mixed = flip[g].mixed
                       /\ flip'[g].late = flip[g].late /\ flip'[g].eco = flip[g].eco
                       /\ flip[g].status = "none" => flip'[g] = flip[g]
  BY <1>0, <1>1, <1>2
<1>4. \A u \in Users : OpenOf(u)' = OpenOf(u)
  BY <1>3 DEF OpenOf
<1>5. FlipsKnown' /\ FlipEconomiesApart' /\ FlipKeyedOnce'
  BY <1>0, <1>3 DEF FlipsKnown, FlipEconomiesApart, FlipKeyedOnce
<1>6. JoinsKnow'
  BY <1>0, <1>3 DEF JoinsKnow
<1>7. KeysKnown'
  BY <1>0 DEF KeysKnown
<1>8. \A q \in Slots : ask'[q] \in {ask[q], NoAsk}
  BY <1>0
<1>9. \A u \in Users : \A g \in OpenOf(u) : g \in Flips
  BY DEF OpenOf
<1>10. \A u \in Users : \A g \in OpenOf(u)' : flip'[g].late = flip[g].late
  BY <1>3, <1>4, <1>9
<1>11. BlocksKnown' /\ FlipBlockStopsPlay'
  BY <1>0, <1>4, <1>8, <1>10, BlocksKept
<1>12. FlipStakesBalance'
  BY <1>0, <1>4, BooksKept
<1>13. TypeOK'
  BY <1>0, <1>2 DEF TypeOK, AccountTypeOK, accountVars
<1> QED BY <1>5, <1>6, <1>7, <1>11, <1>12, <1>13

-----------------------------------------------------------------------------
(* A block is set: every request of the player is late from here.          *)
LEMMA ExcludeStep ==
  ASSUME FlipConstants, FlipInv, NEW u \in Users, Exclude(u)
  PROVE  FlipInv'
<1> USE DEF FlipInv
<1>0. /\ block' = [block EXCEPT ![u].at = "set"]
      /\ ask' = [q \in Slots |-> IF ask[q].user = u THEN [ask[q] EXCEPT !.late = TRUE] ELSE ask[q]]
      /\ UNCHANGED <<accountVars, flip, keys, real, grant>>
  BY DEF Exclude
<1>1. /\ block' \in [Users -> [at : {"free", "set", "cancelling", "done"}, todo : SUBSET Flips]]
      /\ block'[u].at = "set" /\ \A v \in Users \ {u} : block'[v] = block[v]
  BY <1>0 DEF TypeOK
<1>2. ASSUME NEW q \in Slots
      PROVE  /\ ask'[q] \in Request /\ ask'[q].at = ask[q].at /\ ask'[q].user = ask[q].user
             /\ ask'[q].f = ask[q].f /\ ask'[q].keyed = ask[q].keyed
             /\ ask'[q].late = (ask[q].late \/ ask[q].user = u)
  <2>1. ask[q] \in Request
    BY DEF TypeOK
  <2>2. ask'[q] = IF ask[q].user = u THEN [ask[q] EXCEPT !.late = TRUE] ELSE ask[q]
    BY <1>0
  <2>3. [ask[q] EXCEPT !.late = TRUE] \in Request
    BY <2>1 DEF Request
  <2> QED BY <2>1, <2>2, <2>3 DEF Request
<1>3. ask' \in [Slots -> Request]
  BY <1>0, <1>2
<1>4. \A v \in Users : OpenOf(v)' = OpenOf(v)
  BY <1>0 DEF OpenOf
<1>5. FlipsKnown' /\ FlipEconomiesApart' /\ FlipKeyedOnce'
  BY <1>0 DEF FlipsKnown, FlipEconomiesApart, FlipKeyedOnce
<1>6. JoinsKnow'
  BY <1>0, <1>2 DEF JoinsKnow
<1>7. KeysKnown'
  BY <1>0, <1>2 DEF KeysKnown
<1>8. BlocksKnown'
  BY <1>0, <1>1, <1>2, <1>4 DEF BlocksKnown
<1>9. FlipBlockStopsPlay'
  BY <1>0, <1>1, <1>4 DEF FlipBlockStopsPlay
<1>10. FlipStakesBalance'
  BY <1>0, <1>4, BooksKept
<1>11. TypeOK'
  BY <1>0, <1>1, <1>3 DEF TypeOK, AccountTypeOK, accountVars
<1> QED BY <1>5, <1>6, <1>7, <1>8, <1>9, <1>10, <1>11

(* The walk of a block moves without touching a flip: b is where it is.    *)
LEMMA WalkStep ==
  ASSUME FlipConstants, FlipInv, NEW u \in Users, block[u].at # "free",
         NEW b \in [at : {"free", "set", "cancelling", "done"}, todo : SUBSET Flips],
         block' = [block EXCEPT ![u] = b],
         UNCHANGED <<accountVars, flip, ask, keys, real, grant>>,
         b.at = "cancelling" => \A f \in OpenOf(u) : f \in b.todo \/ flip[f].late,
         b.at = "done" => \A f \in OpenOf(u) : flip[f].late
  PROVE  FlipInv'
<1> USE DEF FlipInv
<1>1. /\ block' \in [Users -> [at : {"free", "set", "cancelling", "done"}, todo : SUBSET Flips]]
      /\ block'[u] = b /\ \A v \in Users \ {u} : block'[v] = block[v]
  BY DEF TypeOK
<1>4. \A v \in Users : OpenOf(v)' = OpenOf(v)
  BY DEF OpenOf
<1>5. FlipsKnown' /\ FlipEconomiesApart' /\ FlipKeyedOnce'
  BY DEF FlipsKnown, FlipEconomiesApart, FlipKeyedOnce
<1>6. JoinsKnow' /\ KeysKnown'
  BY DEF JoinsKnow, KeysKnown
<1>8. BlocksKnown'
  BY <1>1, <1>4 DEF BlocksKnown
<1>9. FlipBlockStopsPlay'
  BY <1>1, <1>4 DEF FlipBlockStopsPlay
<1>10. FlipStakesBalance'
  BY <1>4, BooksKept
<1>11. TypeOK'
  BY <1>1 DEF TypeOK, AccountTypeOK, accountVars
<1> QED BY <1>5, <1>6, <1>8, <1>9, <1>10, <1>11

(* The walk: the open flips are read once, cancelled one by one, or the    *)
(* process dies on the way.                                                *)
LEMMA WalkSteps ==
  ASSUME FlipConstants, FlipInv, NEW u \in Users,
         FindOpenFlips(u) \/ CancelNext(u) \/ ExcludeFails(u)
  PROVE  FlipInv'
<1> USE DEF FlipInv
<1>0. block[u] \in [at : {"free", "set", "cancelling", "done"}, todo : SUBSET Flips]
  BY DEF TypeOK
<1>1. CASE FindOpenFlips(u)
  <2> DEFINE b == [at |-> "cancelling", todo |-> OpenOf(u)]
  <2>1. OpenOf(u) \subseteq Flips
    BY DEF OpenOf
  <2>2. b \in [at : {"free", "set", "cancelling", "done"}, todo : SUBSET Flips]
    BY <2>1
  <2>3. b.at = "cancelling" /\ b.todo = OpenOf(u)
    OBVIOUS
  <2>4. block' = [block EXCEPT ![u] = b] /\ UNCHANGED <<accountVars, flip, ask, keys, real, grant>>
        /\ block[u].at # "free"
    BY <1>1 DEF FindOpenFlips, ToCancel
  <2> HIDE DEF b
  <2> QED BY <2>2, <2>3, <2>4, WalkStep
<1>2. CASE ExcludeFails(u)
  <2> DEFINE b == [at |-> "set", todo |-> {}]
  <2>1. /\ b \in [at : {"free", "set", "cancelling", "done"}, todo : SUBSET Flips]
        /\ b.at = "set"
    OBVIOUS
  <2>2. block' = [block EXCEPT ![u] = b] /\ UNCHANGED <<accountVars, flip, ask, keys, real, grant>>
        /\ block[u].at # "free"
    BY <1>2 DEF ExcludeFails
  <2> HIDE DEF b
  <2> QED BY <2>1, <2>2, WalkStep
<1>3. CASE CancelNext(u)
  <2>0. block[u].at = "cancelling" /\ \A f \in OpenOf(u) : f \in block[u].todo \/ flip[f].late
    BY <1>3 DEF CancelNext, BlocksKnown
  <2>1. CASE block[u].todo = {}
    <3> DEFINE b == [block[u] EXCEPT !.at = "done"]
    <3>1. /\ b \in [at : {"free", "set", "cancelling", "done"}, todo : SUBSET Flips]
          /\ b.at = "done"
      BY <1>0
    <3>2. block' = [block EXCEPT ![u] = b] /\ UNCHANGED <<accountVars, flip, ask, keys, real, grant>>
      BY <1>3, <2>1 DEF CancelNext
    <3> HIDE DEF b
    <3> QED BY <2>0, <2>1, <3>1, <3>2, WalkStep
  <2>2. CASE block[u].todo # {}
    <3>1. PICK f \in block[u].todo :
            /\ block' = [block EXCEPT ![u].todo = @ \ {f}]
            /\ \/ CancelOpenFlip(f)
               \/ flip[f].status # "open" /\ UNCHANGED <<accountVars, flip, ask, keys, real, grant>>
      BY <1>3, <2>2 DEF CancelNext
    <3> DEFINE b == [block[u] EXCEPT !.todo = block[u].todo \ {f}]
    <3>2. /\ b \in [at : {"free", "set", "cancelling", "done"}, todo : SUBSET Flips]
          /\ b.at = "cancelling" /\ b.todo = block[u].todo \ {f} /\ f \in Flips
      BY <1>0, <2>0
    <3>3. block' = [block EXCEPT ![u] = b]
      BY <3>1
    <3> HIDE DEF b
    <3>4. CASE CancelOpenFlip(f)
      <4>1. /\ AccountTypeOK' /\ FlipStakesBalance' /\ flip' \in [Flips -> FlipRow]
            /\ ask' = ask /\ keys' = keys /\ real' = real /\ grant' = grant
            /\ FlipsKnown' /\ JoinsKnow' /\ KeysKnown' /\ FlipEconomiesApart' /\ FlipKeyedOnce'
            /\ \A v \in Users : OpenOf(v)' \subseteq OpenOf(v) \ {f}
            /\ \A v \in Users : \A g \in OpenOf(v)' : flip'[g].late = flip[g].late
        BY <3>2, <3>4, CancelStep
      <4>2. /\ block' \in [Users -> [at : {"free", "set", "cancelling", "done"}, todo : SUBSET Flips]]
            /\ block'[u] = b /\ \A v \in Users \ {u} : block'[v] = block[v]
        BY <3>2, <3>3 DEF TypeOK
      <4>3. BlocksKnown'
        BY <2>0, <3>2, <4>1, <4>2 DEF BlocksKnown
      <4>4. FlipBlockStopsPlay'
        BY <3>2, <4>1, <4>2 DEF FlipBlockStopsPlay
      <4>5. TypeOK'
        BY <4>1, <4>2 DEF TypeOK
      <4> QED BY <4>1, <4>3, <4>4, <4>5
    <3>5. CASE flip[f].status # "open" /\ UNCHANGED <<accountVars, flip, ask, keys, real, grant>>
      <4>1. f \notin OpenOf(u)
        BY <3>5 DEF OpenOf
      <4> QED BY <2>0, <3>2, <3>3, <3>5, <4>1, WalkStep
    <3> QED BY <3>1, <3>4, <3>5
  <2> QED BY <2>1, <2>2
<1> QED BY <1>1, <1>2, <1>3

-----------------------------------------------------------------------------
(* The first deposit: neither an open flip nor a join under way has the    *)
(* player in it.                                                           *)
LEMMA ConvertStep ==
  ASSUME FlipConstants, FlipInv, NEW u \in Users, Convert(u)
  PROVE  FlipInv'
<1> USE DEF FlipInv
<1>0. /\ real' = [real EXCEPT ![u] = TRUE] /\ bal' = [bal EXCEPT ![u] = Deposit]
      /\ grant' = [grant EXCEPT ![u] = grant[u] - bal[u] + Deposit]
      /\ UNCHANGED <<totalWon, totalLost, flip, ask, keys, block>>
      /\ RowFree(u) /\ OpenOf(u) = {}
  BY DEF Convert, NoOpenFlip
<1>1. /\ Deposit \in Nat /\ bal \in [Users -> Nat] /\ totalWon \in [Users -> Nat]
      /\ totalLost \in [Users -> Nat] /\ grant \in [Users -> Int]
  BY DEF FlipConstants, TypeOK, AccountTypeOK
<1>2. \A v \in Users : OpenOf(v)' = OpenOf(v)
  BY <1>0 DEF OpenOf
<1>3. \A v \in Users \ {u} : real'[v] = real[v] /\ bal'[v] = bal[v] /\ grant'[v] = grant[v]
  BY <1>0, <1>1 DEF TypeOK
<1>4. bal'[u] = Deposit /\ grant'[u] = grant[u] - bal[u] + Deposit
  BY <1>0, <1>1
<1>5. TypeOK'
  <2>1. grant' \in [Users -> Int] /\ bal' \in [Users -> Nat]
    BY <1>0, <1>1
  <2> QED BY <1>0, <2>1 DEF TypeOK, AccountTypeOK
<1>6. FlipsKnown'
  <2>1. \A f \in Flips : flip[f].status = "open" => flip[f].creator # u
    BY <1>0 DEF OpenOf
  <2> QED BY <1>0, <1>3, <2>1 DEF FlipsKnown
<1>7. JoinsKnow'
  <2>1. \A f \in Flips : flip[f].status = "open" => flip[f].creator # u /\ flip[f].creator \in Users
    BY <1>0 DEF OpenOf, FlipsKnown
  <2>2. \A q \in Slots : ask[q].at = "joining" => ask[q].user # u
    BY <1>0 DEF RowFree
  <2>3. ASSUME NEW q \in Slots, ask[q].at = "joining", flip[ask[q].f].status = "open"
        PROVE  real'[flip[ask[q].f].creator] = real'[ask[q].user]
    <3>1. ask[q].user \in Users \ {u} /\ ask[q].f \in Flips
          /\ real[flip[ask[q].f].creator] = real[ask[q].user]
      BY <2>2, <2>3 DEF JoinsKnow
    <3>2. flip[ask[q].f].creator \in Users \ {u}
      BY <2>1, <2>3, <3>1
    <3> QED BY <1>3, <3>1, <3>2
  <2> QED BY <1>0, <2>3 DEF JoinsKnow
<1>8. KeysKnown' /\ FlipEconomiesApart' /\ FlipKeyedOnce'
  BY <1>0 DEF KeysKnown, FlipEconomiesApart, FlipKeyedOnce
<1>9. BlocksKnown' /\ FlipBlockStopsPlay'
  BY <1>0, <1>2 DEF BlocksKnown, FlipBlockStopsPlay
<1>10. FlipStakesBalance'
  <2>1. ASSUME NEW v \in Users \ {u}
        PROVE  bal'[v] = grant'[v] + totalWon[v] - totalLost[v] - FlipStake * Cardinality(OpenOf(v))
    BY <1>3 DEF FlipStakesBalance
  <2>2. bal'[u] = grant'[u] + totalWon[u] - totalLost[u] - FlipStake * Cardinality(OpenOf(u))
    <3>1. bal[u] = grant[u] + totalWon[u] - totalLost[u] - FlipStake * Cardinality(OpenOf(u))
      BY DEF FlipStakesBalance
    <3>2. FlipStake * Cardinality(OpenOf(u)) \in Int
      BY OpenCounted DEF FlipConstants
    <3>3. PICK x \in Int : x = FlipStake * Cardinality(OpenOf(u))
      BY <3>2
    <3> QED BY <1>1, <1>4, <3>1, <3>3
  <2> QED BY <1>0, <1>2, <2>1, <2>2 DEF FlipStakesBalance
<1> QED BY <1>5, <1>6, <1>7, <1>8, <1>9, <1>10

-----------------------------------------------------------------------------
(* A create commits its row, open or settled against the house at once.    *)
LEMMA RowStep ==
  ASSUME FlipConstants, FlipInv, NEW q \in Slots, NEW f \in Flips, NEW row \in FlipRow,
         ask[q].at = "counted", flip[f].status = "none", flip' = [flip EXCEPT ![f] = row],
         row.status \in {"open", "completed"}, row.creator = ask[q].user,
         row.keyed = ask[q].keyed, row.late = ask[q].late, row.eco = real[ask[q].user], ~row.mixed,
         keys' = IF ask[q].keyed THEN keys \cup {ask[q].user} ELSE keys,
         ask' = [ask EXCEPT ![q] = NoAsk], UNCHANGED <<block, real, grant>>
  PROVE  /\ flip' \in [Flips -> FlipRow] /\ ask' \in [Slots -> Request] /\ keys' \subseteq Users
         /\ FlipsKnown' /\ JoinsKnow' /\ KeysKnown' /\ FlipEconomiesApart' /\ FlipKeyedOnce'
         /\ BlocksKnown' /\ FlipBlockStopsPlay'
         /\ \A v \in Users : /\ f \notin OpenOf(v)
                             /\ OpenOf(v)' = IF v = ask[q].user /\ row.status = "open"
                                             THEN OpenOf(v) \cup {f} ELSE OpenOf(v)
<1> USE DEF FlipInv
<1>1. /\ flip'[f] = row /\ \A g \in Flips \ {f} : flip'[g] = flip[g]
      /\ flip' \in [Flips -> FlipRow]
  BY DEF TypeOK
<1>2. NoAsk \in Request /\ NoAsk.at = "idle"
  BY DEF Request, NoAsk
<1>3. /\ ask'[q] = NoAsk /\ \A p \in Slots \ {q} : ask'[p] = ask[p]
      /\ ask' \in [Slots -> Request]
  BY <1>2 DEF TypeOK
<1>4. ask[q].user \in Users
  BY DEF JoinsKnow
<1>5. keys \subseteq keys' /\ keys' \subseteq Users /\ (ask[q].keyed => ask[q].user \in keys')
  BY <1>4 DEF TypeOK
<1>6. FlipsKnown'
  BY <1>1, <1>4, <1>5 DEF FlipsKnown
<1>7. JoinsKnow'
  <2>1. ASSUME NEW p \in Slots \ {q}, ask[p].at \in {"join", "anchored", "joining"}
        PROVE  ask[p].f \in Flips \ {f} /\ flip'[ask[p].f] = flip[ask[p].f]
    BY <1>1, <2>1 DEF JoinsKnow
  <2> QED BY <1>2, <1>3, <2>1 DEF JoinsKnow
<1>8. KeysKnown'
  BY <1>2, <1>3 DEF KeysKnown
<1>9. FlipEconomiesApart'
  BY <1>1 DEF FlipEconomiesApart
<1>10. FlipKeyedOnce'
  <2>1. ASSUME NEW g \in Flips \ {f}, flip[g].keyed, ask[q].keyed
        PROVE  flip[g].creator # ask[q].user
    BY <2>1 DEF FlipsKnown, KeysKnown
  <2> QED BY <1>1, <2>1 DEF FlipKeyedOnce
<1>11. \A v \in Users : /\ f \notin OpenOf(v)
                        /\ OpenOf(v)' = IF v = ask[q].user /\ row.status = "open"
                                        THEN OpenOf(v) \cup {f} ELSE OpenOf(v)
  BY <1>1 DEF OpenOf
<1>12. block[ask[q].user].at # "free" => row.late
  BY <1>4 DEF BlocksKnown
<1>13. \A v \in Users : \A g \in OpenOf(v) : g \in Flips \ {f} /\ flip'[g] = flip[g]
  BY <1>1 DEF OpenOf
<1>14. BlocksKnown'
  <2>1. ASSUME NEW v \in Users, block[v].at # "free", NEW p \in Slots,
               ask'[p].at \in {"create", "counted"}, ask'[p].user = v
        PROVE  ask'[p].late
    BY <1>2, <1>3, <2>1 DEF BlocksKnown
  <2>2. ASSUME NEW v \in Users, block[v].at = "cancelling", NEW g \in OpenOf(v)'
        PROVE  g \in block[v].todo \/ flip'[g].late
    BY <1>1, <1>11, <1>12, <1>13, <2>2 DEF BlocksKnown
  <2> QED BY <2>1, <2>2 DEF BlocksKnown
<1>15. FlipBlockStopsPlay'
  BY <1>1, <1>11, <1>12, <1>13 DEF FlipBlockStopsPlay
<1> QED BY <1>1, <1>3, <1>5, <1>6, <1>7, <1>8, <1>9, <1>10, <1>11, <1>14, <1>15

(* A create: the stake is locked in an open flip, or settled at once.      *)
LEMMA CreateStep ==
  ASSUME FlipConstants, FlipInv, NEW q \in Slots, NEW f \in Flips, Create(q, f)
  PROVE  FlipInv'
<1> USE DEF FlipInv
<1> DEFINE u == ask[q].user
<1>0. /\ ask[q].at = "counted" /\ flip[f].status = "none" /\ CanDebit(u, FlipStake)
      /\ keys' = IF ask[q].keyed THEN keys \cup {u} ELSE keys
      /\ ask' = [ask EXCEPT ![q] = NoAsk] /\ UNCHANGED <<block, real, grant>>
  BY DEF Create
<1>1. u \in Users /\ House \notin Users /\ bal[u] >= FlipStake
  BY <1>0 DEF JoinsKnow, FlipConstants, CanDebit
<1>2. ask[q] \in Request /\ real[u] \in BOOLEAN
  BY <1>1 DEF TypeOK
<1>3. /\ Opened(q) \in FlipRow /\ Opened(q).status = "open" /\ Opened(q).creator = u
      /\ Opened(q).keyed = ask[q].keyed /\ Opened(q).late = ask[q].late
      /\ Opened(q).eco = real[u] /\ ~Opened(q).mixed
  BY <1>1, <1>2 DEF Opened, NoFlip, FlipRow, Request
<1>4. /\ FlipStake \in Nat /\ bal \in [Users -> Nat] /\ totalWon \in [Users -> Nat]
      /\ totalLost \in [Users -> Nat] /\ grant \in [Users -> Int]
  BY DEF FlipConstants, TypeOK, AccountTypeOK
<1>5. CASE ~ask[q].house
  <2>0. /\ flip' = [flip EXCEPT ![f] = Opened(q)] /\ bal' = [bal EXCEPT ![u] = bal[u] - FlipStake]
        /\ UNCHANGED <<totalWon, totalLost>>
    BY <1>5 DEF Create
  <2>1. /\ flip' \in [Flips -> FlipRow] /\ ask' \in [Slots -> Request] /\ keys' \subseteq Users
        /\ FlipsKnown' /\ JoinsKnow' /\ KeysKnown' /\ FlipEconomiesApart' /\ FlipKeyedOnce'
        /\ BlocksKnown' /\ FlipBlockStopsPlay'
        /\ \A v \in Users : /\ f \notin OpenOf(v)
                            /\ OpenOf(v)' = IF v = u THEN OpenOf(v) \cup {f} ELSE OpenOf(v)
    BY <1>0, <1>3, <2>0, RowStep
  <2>2. AccountTypeOK'
    BY <1>1, <1>4, <2>0 DEF AccountTypeOK
  <2>3. ASSUME NEW v \in Users
        PROVE  bal'[v] = grant[v] + totalWon[v] - totalLost[v] - FlipStake * Cardinality(OpenOf(v))'
    <3> DEFINE n == Cardinality(OpenOf(v))
               m == Cardinality(OpenOf(v))'
    <3>1. n \in Nat /\ m = IF v = u THEN n + 1 ELSE n
      BY <2>1, OpenCounted
    <3>2. bal[v] = grant[v] + totalWon[v] - totalLost[v] - FlipStake * n
      BY DEF FlipStakesBalance
    <3>3. bal'[v] = IF v = u THEN bal[v] - FlipStake ELSE bal[v]
      BY <1>4, <2>0
    <3> HIDE DEF n, m, u
    <3>4. FlipStake * m = IF v = u THEN FlipStake * n + FlipStake ELSE FlipStake * n
      BY <1>4, <3>1, OneStake
    <3>5. PICK x \in Int : x = FlipStake * n
      BY <1>4, <3>1
    <3>6. PICK y \in Int : y = FlipStake * m /\ y = IF v = u THEN x + FlipStake ELSE x
      BY <1>4, <3>4, <3>5
    <3>7. bal[v] \in Nat /\ totalWon[v] \in Nat /\ totalLost[v] \in Nat /\ grant[v] \in Int
      BY <1>4
    <3>8. bal'[v] = grant[v] + totalWon[v] - totalLost[v] - y
      BY <1>4, <3>2, <3>3, <3>5, <3>6, <3>7
    <3>9. bal'[v] = grant[v] + totalWon[v] - totalLost[v] - FlipStake * m
      BY <3>6, <3>8
    <3> QED BY <3>9 DEF m
  <2>4. FlipStakesBalance'
    BY <1>0, <2>0, <2>3 DEF FlipStakesBalance
  <2>5. TypeOK'
    BY <1>0, <2>1, <2>2 DEF TypeOK
  <2> QED BY <2>1, <2>4, <2>5
<1>6. CASE ask[q].house
  <2> DEFINE row == [Opened(q) EXCEPT !.status = "completed", !.joiner = House]
  <2>0. flip' = [flip EXCEPT ![f] = row]
    BY <1>6 DEF Create
  <2>1. PICK w \in {u, House} : Settled({u}, {u}, w)
    BY <1>6 DEF Create
  <2>2. /\ row \in FlipRow /\ row.status = "completed" /\ row.creator = u
        /\ row.keyed = ask[q].keyed /\ row.late = ask[q].late
        /\ row.eco = real[u] /\ ~row.mixed
    BY <1>3 DEF FlipRow
  <2> HIDE DEF row
  <2>3. /\ flip' \in [Flips -> FlipRow] /\ ask' \in [Slots -> Request] /\ keys' \subseteq Users
        /\ FlipsKnown' /\ JoinsKnow' /\ KeysKnown' /\ FlipEconomiesApart' /\ FlipKeyedOnce'
        /\ BlocksKnown' /\ FlipBlockStopsPlay'
        /\ \A v \in Users : OpenOf(v)' = OpenOf(v)
    BY <1>0, <2>0, <2>2, RowStep
  <2>4. AccountTypeOK' /\ FlipStakesBalance'
    <3>1. /\ {u} \in SUBSET Users /\ {} \in SUBSET Users /\ {} \cap {u} = {} /\ {} \cup {u} = {u}
          /\ (w \in Users => w \in {u}) /\ \A v \in {u} : bal[v] >= FlipStake
      BY <1>1, <2>1
    <3>2. \A v \in Users : Cardinality(OpenOf(v))' =
            IF v \in {} THEN Cardinality(OpenOf(v)) - 1 ELSE Cardinality(OpenOf(v))
      BY <2>3
    <3>3. Settled({} \cup {u}, {u}, w) /\ (w \in Users => w \in {} \cup {u})
      BY <2>1, <3>1
    <3> HIDE DEF u
    <3> QED BY <1>0, <3>1, <3>2, <3>3, SettledBooks
  <2>5. TypeOK'
    BY <1>0, <2>3, <2>4 DEF TypeOK
  <2> QED BY <2>3, <2>4, <2>5
<1> QED BY <1>5, <1>6

-----------------------------------------------------------------------------
LEMMA FlipInit == FlipConstants /\ Init => FlipInv
<1> SUFFICES ASSUME FlipConstants, Init PROVE FlipInv
  OBVIOUS
<1>1. NoFlip \in FlipRow /\ NoFlip.status = "none" /\ ~NoFlip.keyed /\ ~NoFlip.mixed
  BY DEF NoFlip, FlipRow
<1>2. NoAsk \in Request /\ NoAsk.at = "idle"
  BY DEF NoAsk, Request
<1>3. /\ flip = [f \in Flips |-> NoFlip] /\ ask = [q \in Slots |-> NoAsk] /\ keys = {}
      /\ block = [u \in Users |-> Free] /\ real = [u \in Users |-> FALSE]
      /\ grant = [u \in Users |-> Funds] /\ bal = [u \in Users |-> Funds]
      /\ totalWon = [u \in Users |-> 0] /\ totalLost = [u \in Users |-> 0] /\ Funds \in Nat
      /\ FlipStake \in Nat
  BY DEF Init, AccountInit, FlipConstants
<1>4. TypeOK
  BY <1>1, <1>2, <1>3 DEF TypeOK, AccountTypeOK, Free
<1>5. FlipsKnown /\ FlipEconomiesApart /\ FlipKeyedOnce
  BY <1>1, <1>3 DEF FlipsKnown, FlipEconomiesApart, FlipKeyedOnce
<1>6. JoinsKnow /\ KeysKnown
  BY <1>2, <1>3 DEF JoinsKnow, KeysKnown
<1>7. BlocksKnown /\ FlipBlockStopsPlay
  BY <1>3 DEF BlocksKnown, FlipBlockStopsPlay, Free
<1>8. FlipStakesBalance
  <2>1. \A u : OpenOf(u) = {}
    BY <1>1, <1>3 DEF OpenOf
  <2>2. \A u : Cardinality(OpenOf(u)) = 0
    BY <2>1, FS_EmptySet
  <2>3. \A u \in Users : bal[u] = Funds /\ grant[u] = Funds /\ totalWon[u] = 0 /\ totalLost[u] = 0
    BY <1>3
  <2>4. FlipStake * 0 = 0 /\ Funds = Funds + 0 - 0 - 0
    BY <1>3
  <2> QED BY <2>2, <2>3, <2>4 DEF FlipStakesBalance
<1> QED BY <1>4, <1>5, <1>6, <1>7, <1>8 DEF FlipInv

LEMMA FlipStep == FlipConstants /\ FlipInv /\ [Next]_vars => FlipInv'
<1> SUFFICES ASSUME FlipConstants, FlipInv, [Next]_vars PROVE FlipInv'
  OBVIOUS
<1>0. Creators \subseteq Users
  BY DEF FlipConstants
<1>1. CASE UNCHANGED vars
  <2>1. UNCHANGED <<bal, totalWon, totalLost, flip, ask, keys, block, real, grant>>
    BY <1>1 DEF vars, accountVars, flipVars
  <2>2. \A u \in Users : OpenOf(u)' = OpenOf(u)
    BY <2>1 DEF OpenOf
  <2>3. TypeOK' /\ FlipsKnown' /\ JoinsKnow' /\ KeysKnown'
    BY <2>1 DEF FlipInv, TypeOK, AccountTypeOK, FlipsKnown, JoinsKnow, KeysKnown
  <2>4. BlocksKnown' /\ FlipStakesBalance' /\ FlipBlockStopsPlay'
    BY <2>1, <2>2 DEF FlipInv, BlocksKnown, FlipStakesBalance, FlipBlockStopsPlay
  <2>5. FlipEconomiesApart' /\ FlipKeyedOnce'
    BY <2>1 DEF FlipInv, FlipEconomiesApart, FlipKeyedOnce
  <2> QED BY <2>3, <2>4, <2>5 DEF FlipInv
<1>2. ASSUME NEW q \in Slots,
             \/ \E u \in Creators, keyed, house \in BOOLEAN : AskCreate(q, u, keyed, house)
             \/ \E u \in Joiners, f \in Flips : AskJoin(q, u, f)
             \/ CountOpen(q) \/ Anchor(q) \/ CheckJoin(q) \/ Abandon(q)
      PROVE  FlipInv'
  BY <1>2, RequestSteps
<1>3. ASSUME NEW q \in Slots, NEW f \in Flips, Create(q, f) PROVE FlipInv'
  BY <1>3, CreateStep
<1>4. ASSUME NEW q \in Slots, Join(q) PROVE FlipInv'
  BY <1>4, JoinStep
<1>5. ASSUME NEW f \in Flips, PlayHouse(f) \/ Cancel(f) \/ Ttl(f) \/ Expire(f) PROVE FlipInv'
  BY <1>5, PlayHouseStep, CancelSteps, TtlStep
<1>6. ASSUME NEW u \in Creators, Exclude(u) \/ FindOpenFlips(u) \/ CancelNext(u) \/ ExcludeFails(u)
      PROVE  FlipInv'
  BY <1>0, <1>6, ExcludeStep, WalkSteps
<1>7. ASSUME NEW u \in Users, Convert(u) PROVE FlipInv'
  BY <1>7, ConvertStep
<1>8. CASE Next
  BY <1>2, <1>3, <1>4, <1>5, <1>6, <1>7, <1>8 DEF Next
<1> QED BY <1>1, <1>8

(* Every stake is settled or refunded exactly once, play money and         *)
(* deposited money never meet, a keyed create opens one flip and a block   *)
(* stops play: for any players, flips, requests in flight and stakes.      *)
THEOREM FlipsAlwaysSettleOnce ==
  FlipConstants /\ Spec =>
    [](TypeOK /\ FlipStakesBalance /\ FlipEconomiesApart /\ FlipKeyedOnce /\ FlipBlockStopsPlay)
<1> SUFFICES ASSUME FlipConstants
             PROVE  Spec => [](TypeOK /\ FlipStakesBalance /\ FlipEconomiesApart /\ FlipKeyedOnce
                                 /\ FlipBlockStopsPlay)
  OBVIOUS
<1>1. Init => FlipInv
  BY FlipInit
<1>2. FlipInv /\ [Next]_vars => FlipInv'
  BY FlipStep
<1>3. FlipInv => TypeOK /\ FlipStakesBalance /\ FlipEconomiesApart /\ FlipKeyedOnce /\ FlipBlockStopsPlay
  BY DEF FlipInv
<1> QED BY <1>1, <1>2, <1>3, PTL DEF Spec

=============================================================================
