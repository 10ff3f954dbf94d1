----------------------------- MODULE CustodyProofs -----------------------------
(***************************************************************************)
(* Custody for every number of transfers, wallets, users, scanners, rows,  *)
(* wagers and persons.  Deposits first: DepositInv is inductive, and what  *)
(* the custody run checks of them follows.  Then what bounds the movements *)
(* of money: the limits a player sets on wagers (LimitInv), the gates a    *)
(* request passes (GateInv), and, with the invariants of the withdrawals,  *)
(* that the composition of MCCustody keeps LimitsHold.                     *)
(***************************************************************************)
EXTENDS MCCustody, Sums

(* The transfers credited to a user are finitely many.                     *)
LEMMA CreditedFinite ==
  ASSUME NEW u
  PROVE  IsFiniteSet(CreditedTo(u)) /\ IsFiniteSet(CreditedTo(u)')
<1>1. IsFiniteSet(Txs)
  BY DepositAssumption, FS_Interval DEF Txs
<1>2. CreditedTo(u) \in SUBSET Txs /\ CreditedTo(u)' \in SUBSET Txs
  BY DEF CreditedTo
<1> QED BY <1>1, <1>2, FS_Subset

(* A held row names a wallet, and a user only where an account owns it.    *)
LEMMA HeldRowType ==
  ASSUME TypeOK, NEW s \in Txs
  PROVE  /\ HeldRow(s) \in [status : {"held"}, reason : Reasons,
                            user : Users \cup {NoUser}, wallet : Wallets]
<1> DEFINE os == Owners(Signers[s])
<1>1. FeePayer[s] \in Wallets /\ Signers[s] \subseteq Wallets
  BY DepositAssumption
<1>2. CASE Cardinality(os) = 1
  <2> DEFINE u == CHOOSE u \in os : TRUE
             x == CHOOSE x \in Signers[s] : owner[x] = u
  <2>1. os # {}
    BY <1>2, FS_EmptySet
  <2>2. u \in os
    BY <2>1
  <2>3. \E y \in Signers[s] : owner[y] = u
    BY <2>2 DEF Owners
  <2>4. x \in Signers[s]
    BY <2>3
  <2>5. u \in Users
    BY <1>1, <2>2 DEF Owners, TypeOK
  <2>6. HeldRow(s) = [status |-> "held", reason |-> "none", user |-> u, wallet |-> x]
    BY <1>2 DEF HeldRow
  <2> HIDE DEF os, u, x
  <2> QED BY <1>1, <2>4, <2>5, <2>6 DEF Reasons
<1>3. CASE Cardinality(os) # 1
  BY <1>1, <1>3 DEF HeldRow, Reasons
<1> QED BY <1>2, <1>3

-----------------------------------------------------------------------------
(* The parts of the state a step of one row can disturb.                   *)
RowsOK ==
  /\ dep \in [Txs -> [status : {"absent", "held", "credited"}, reason : Reasons,
                     user : Users \cup {NoUser}, wallet : Wallets \cup {"none"}]]
  /\ \A s \in Txs : dep[s].status # "absent" => dep[s].wallet \in Wallets
MoneyOK ==
  /\ balance \in [Users -> Nat] /\ funded \in [Users -> BOOLEAN]
  /\ stake \in [Users -> {"none", "play", "real"}]
  /\ commission \in [Users -> Nat] /\ won \in [Users -> Int]
MoneyInv == ErasApart /\ NoPlayStakeAfterFunding /\ RealMoneyBacked

(* Rows are never deleted, and a credited one never changes.               *)
RowsKept ==
  \A s \in Txs : /\ dep'[s].status = "absent" => dep[s].status = "absent"
                 /\ dep[s].status = "credited" => dep'[s] = dep[s]

(* What a real account holds, with the sum over a function.                *)
LEMMA Backed ==
  RealMoneyBacked <=>
    \A u \in Users : funded[u] =>
      balance[u] + (IF stake[u] = "real" THEN 1 ELSE 0) = SumOver(Amount, CreditedTo(u)) + won[u]
  BY DEF RealMoneyBacked, SumOver

(* The same, one step later.                                               *)
LEMMA BackedNext ==
  RealMoneyBacked' <=>
    \A u \in Users : funded'[u] =>
      balance'[u] + (IF stake'[u] = "real" THEN 1 ELSE 0) = SumOver(Amount, CreditedTo(u)') + won'[u]
<1>1. (RealMoneyBacked <=>
         \A u \in Users : funded[u] =>
           balance[u] + (IF stake[u] = "real" THEN 1 ELSE 0) = SumOver(Amount, CreditedTo(u)) + won[u])'
  BY Backed, PTL
<1> QED BY <1>1

(* Recording a transfer creates a held row or none; none only for dust.    *)
LEMMA RecordKeeps ==
  ASSUME TypeOK, NEW s \in Txs, Record(s)
  PROVE  /\ RowsOK' /\ RowsKept
         /\ \A u : CreditedTo(u)' = CreditedTo(u)
         /\ dep'[s].status = "absent" => Amount[s] < MinDeposit
         /\ created' \in Seq(Txs) /\ DOMAIN created \subseteq DOMAIN created'
<1>0. RowsOK /\ created \in Seq(Txs)
  BY DEF TypeOK, RowsOK
<1>1. CASE UNCHANGED <<dep, created>> /\ (dep[s].status = "absent" => Amount[s] < MinDeposit)
  BY <1>0, <1>1 DEF RowsOK, RowsKept, CreditedTo
<1>2. CASE /\ dep[s].status = "absent"
           /\ created' = Append(created, s)
           /\ dep' = [dep EXCEPT ![s] = HeldRow(s)]
  <2>1. HeldRow(s) \in [status : {"held"}, reason : Reasons,
                        user : Users \cup {NoUser}, wallet : Wallets]
    BY HeldRowType
  <2>2. RowsOK'
    BY <1>0, <1>2, <2>1 DEF RowsOK
  <2>3. dep'[s].status = "held" /\ \A t \in Txs : t # s => dep'[t] = dep[t]
    BY <1>0, <1>2, <2>1 DEF RowsOK
  <2>4. RowsKept /\ \A u : CreditedTo(u)' = CreditedTo(u)
    BY <1>2, <2>3 DEF RowsKept, CreditedTo
  <2>5. created' \in Seq(Txs) /\ DOMAIN created \subseteq DOMAIN created'
    BY <1>0, <1>2
  <2> QED BY <2>2, <2>3, <2>4, <2>5
<1> QED BY <1>1, <1>2 DEF Record

(* One transfer's credit: held rows are re-labelled, or the account is     *)
(* credited once, and turned to real money if this is its first deposit.   *)
LEMMA CreditKeeps ==
  ASSUME DepositInv, NEW s \in Txs, Credit(s)
  PROVE  RowsOK' /\ RowsKept /\ MoneyOK' /\ MoneyInv'
<1>0. RowsOK /\ MoneyOK /\ MoneyInv
  BY DEF DepositInv, TypeOK, RowsOK, MoneyOK, MoneyInv
<1> DEFINE u == IF dep[s].user # NoUser THEN dep[s].user ELSE owner[dep[s].wallet]
<1>1. CASE UNCHANGED <<dep, moneyVars>>
  <2>1. \A v : CreditedTo(v)' = CreditedTo(v)
    BY <1>1 DEF CreditedTo
  <2> QED BY <1>0, <1>1, <2>1, Backed, BackedNext
      DEF moneyVars, RowsOK, RowsKept, MoneyOK, MoneyInv, ErasApart, NoPlayStakeAfterFunding
<1>2. ASSUME NEW reason \in Reasons, NEW v \in Users \cup {NoUser},
             Hold(s, reason, v), dep[s].status = "held"
      PROVE  RowsOK' /\ RowsKept /\ MoneyOK' /\ MoneyInv'
  <2>1. /\ dep'[s] = [dep[s] EXCEPT !.reason = reason, !.user = v]
        /\ \A t \in Txs : t # s => dep'[t] = dep[t]
    BY <1>0, <1>2 DEF Hold, RowsOK
  <2>2. RowsOK'
    BY <1>0, <1>2 DEF Hold, RowsOK
  <2>3. RowsKept /\ \A w : CreditedTo(w)' = CreditedTo(w)
    <3>1. dep'[s].status = "held" BY <1>0, <1>2, <2>1 DEF RowsOK
    <3> QED BY <1>2, <2>1, <3>1 DEF RowsKept, CreditedTo
  <2> QED BY <1>0, <1>2, <2>2, <2>3, Backed, BackedNext
      DEF Hold, moneyVars, MoneyOK, MoneyInv, ErasApart, NoPlayStakeAfterFunding
<1>3. dep[s].status = "held" => u \in Users \cup {NoUser}
  BY <1>0 DEF DepositInv, TypeOK, RowsOK
<1>4. ASSUME dep[s].status = "held", NEW acct \in Users, NEW kept \in {0, balance[acct]},
             \/ funded[acct] /\ kept = balance[acct] /\ UNCHANGED commission
             \/ ~funded[acct] /\ ~OpenPlayPositions(acct) /\ Convert(acct, kept),
             balance' = [balance EXCEPT ![acct] = kept + Amount[s]],
             funded' = [funded EXCEPT ![acct] = TRUE],
             dep' = [dep EXCEPT ![s] = [@ EXCEPT !.status = "credited",
                                                 !.reason = "none", !.user = acct]],
             UNCHANGED <<stake, won>>
      PROVE  RowsOK' /\ RowsKept /\ MoneyOK' /\ MoneyInv'
  <2>1. acct \in Users
    OBVIOUS
  <2>2. /\ dep'[s] = [dep[s] EXCEPT !.status = "credited", !.reason = "none", !.user = acct]
        /\ \A t \in Txs : t # s => dep'[t] = dep[t]
    BY <1>0, <1>4 DEF RowsOK
  <2>3. RowsOK'
    BY <1>0, <1>4, <2>1 DEF RowsOK, Reasons
  <2>4. dep'[s].status = "credited" /\ dep'[s].user = acct
    BY <1>0, <2>2 DEF RowsOK
  <2>5. RowsKept
    BY <1>4, <2>2, <2>4 DEF RowsKept
  <2>6. /\ s \notin CreditedTo(acct) /\ CreditedTo(acct)' = CreditedTo(acct) \cup {s}
        /\ \A v \in Users : v # acct => CreditedTo(v)' = CreditedTo(v)
    <3>1. s \notin CreditedTo(acct)
      BY <1>4 DEF CreditedTo
    <3>2. \A t : t \in CreditedTo(acct)' <=> t \in CreditedTo(acct) \/ t = s
      <4>1. \A t : t \in CreditedTo(acct)' <=> t \in Txs /\ dep'[t].status = "credited" /\ dep'[t].user = acct
        BY DEF CreditedTo
      <4>2. \A t : t \in CreditedTo(acct) <=> t \in Txs /\ dep[t].status = "credited" /\ dep[t].user = acct
        BY DEF CreditedTo
      <4> QED BY <2>2, <2>4, <4>1, <4>2
    <3>3. ASSUME NEW v \in Users, v # acct
          PROVE  \A t : t \in CreditedTo(v)' <=> t \in CreditedTo(v)
      BY <1>4, <2>2, <2>4, <3>3 DEF CreditedTo
    <3> QED BY <3>1, <3>2, <3>3
  <2>7. Amount[s] \in Nat \ {0} /\ \A t \in Txs : Amount[t] \in Nat
    BY DepositAssumption
  <2>8. SumOver(Amount, CreditedTo(acct)') = Amount[s] + SumOver(Amount, CreditedTo(acct))
    <3>1. \A t \in CreditedTo(acct) : Amount[t] \in Int
      BY <2>7 DEF CreditedTo
    <3> QED BY <2>6, <2>7, <3>1, CreditedFinite, SumAdd
  <2>9. SumOver(Amount, CreditedTo(acct)) \in Nat
    <3>1. \A t \in CreditedTo(acct) : Amount[t] \in Nat
      BY <2>7 DEF CreditedTo
    <3> QED BY <3>1, CreditedFinite, SumNat
  <2>10. kept \in Nat /\ MoneyOK'
    BY <1>0, <1>4, <2>1, <2>7 DEF MoneyOK, Convert
  <2>11. /\ balance'[acct] = kept + Amount[s] /\ funded'[acct] = TRUE
         /\ stake' = stake /\ won' = won /\ commission'[acct] = 0
         /\ \A v \in Users : v # acct => /\ balance'[v] = balance[v] /\ funded'[v] = funded[v]
                                      /\ commission'[v] = commission[v]
    BY <1>0, <1>4, <2>1 DEF MoneyOK, MoneyInv, ErasApart, Convert
  <2>12. ErasApart'
    BY <1>0, <2>11 DEF MoneyInv, ErasApart
  <2>13. stake[acct] # "play"
    BY <1>0, <1>4, <2>1 DEF MoneyInv, NoPlayStakeAfterFunding, OpenPlayPositions
  <2>14. NoPlayStakeAfterFunding'
    <3>1. ASSUME NEW v \in Users PROVE /\ funded'[v] => stake'[v] # "play"
                                       /\ funded'[v] <=> CreditedTo(v)' # {}
      <4>1. CASE v = acct
        <5>1. CreditedTo(v)' = CreditedTo(acct)' BY <4>1
        <5> QED BY <2>6, <2>11, <2>13, <4>1, <5>1
      <4>2. CASE v # acct BY <1>0, <2>6, <2>11, <4>2 DEF MoneyInv, NoPlayStakeAfterFunding
      <4> QED BY <4>1, <4>2
    <3> QED BY <3>1 DEF NoPlayStakeAfterFunding
  <2>15. balance'[acct] + (IF stake[acct] = "real" THEN 1 ELSE 0)
           = SumOver(Amount, CreditedTo(acct)') + won[acct]
    <3>1. CASE funded[acct]
      <4>1. balance[acct] + (IF stake[acct] = "real" THEN 1 ELSE 0)
              = SumOver(Amount, CreditedTo(acct)) + won[acct]
        BY <1>0, <2>1, <3>1, Backed DEF MoneyInv
      <4>2. kept = balance[acct] /\ won[acct] \in Int
        BY <1>0, <1>4, <2>1, <3>1 DEF MoneyOK
      <4> QED BY <2>7, <2>8, <2>9, <2>10, <2>11, <4>1, <4>2
    <3>2. CASE ~funded[acct]
      <4>1. CreditedTo(acct) = {} /\ won[acct] = 0 /\ stake[acct] # "real"
        BY <1>0, <2>1, <3>2 DEF MoneyInv, NoPlayStakeAfterFunding, ErasApart
      <4>2. kept = 0
        BY <1>4, <3>2 DEF Convert
      <4>3. SumOver(Amount, {}) = 0
        BY FS_EmptySet, SumStep
      <4>4. SumOver(Amount, CreditedTo(acct)') = Amount[s]
        BY <2>7, <2>8, <4>1, <4>3
      <4> QED BY <2>7, <2>11, <4>1, <4>2, <4>4
    <3> QED BY <3>1, <3>2
  <2>16. RealMoneyBacked'
    <3>1. ASSUME NEW v \in Users, funded'[v]
          PROVE  balance'[v] + (IF stake'[v] = "real" THEN 1 ELSE 0)
                   = SumOver(Amount, CreditedTo(v)') + won'[v]
      <4>1. CASE v = acct
        <5>1. CreditedTo(v)' = CreditedTo(acct)' BY <4>1
        <5> QED BY <2>11, <2>15, <4>1, <5>1
      <4>2. CASE v # acct
        <5>1. CreditedTo(v)' = CreditedTo(v) BY <2>6, <4>2
        <5>2. balance[v] + (IF stake[v] = "real" THEN 1 ELSE 0)
                = SumOver(Amount, CreditedTo(v)) + won[v]
          BY <1>0, <2>11, <3>1, <4>2, Backed DEF MoneyInv
        <5> QED BY <2>11, <4>2, <5>1, <5>2
      <4> QED BY <4>1, <4>2
    <3> QED BY <3>1, BackedNext
  <2> QED BY <2>3, <2>5, <2>10, <2>12, <2>14, <2>16 DEF MoneyInv
<1>5. CASE dep[s].status # "held" \/ dep[s].reason = "ambiguous_sender"
  BY <1>1, <1>5 DEF Credit
<1>6. CASE ~(dep[s].status # "held" \/ dep[s].reason = "ambiguous_sender")
  <2>1. dep[s].status = "held"
    BY <1>6
  <2>2. CASE \/ u = NoUser /\ Hold(s, "unattributed", NoUser)
             \/ u # NoUser /\ Hold(s, "below_minimum", u)
             \/ u # NoUser /\ Hold(s, "blocked", u)
             \/ u # NoUser /\ Hold(s, "open_play_positions", u)
    BY <1>2, <1>3, <2>1, <2>2 DEF Reasons
  <2>3. CASE /\ u # NoUser
             /\ \E kept \in {0, balance[u]} :
                  /\ \/ funded[u] /\ kept = balance[u] /\ UNCHANGED commission
                     \/ ~funded[u] /\ ~OpenPlayPositions(u) /\ Convert(u, kept)
                  /\ balance' = [balance EXCEPT ![u] = kept + Amount[s]]
             /\ funded' = [funded EXCEPT ![u] = TRUE]
             /\ dep' = [dep EXCEPT ![s] = [@ EXCEPT !.status = "credited",
                                                    !.reason = "none", !.user = u]]
             /\ UNCHANGED <<stake, won>>
    <3>1. u \in Users
      BY <1>3, <2>1, <2>3
    <3>2. PICK acct \in Users : acct = u
      BY <3>1
    <3> HIDE DEF u
    <3> QED BY <1>4, <2>1, <2>3, <3>2
  <2> QED BY <1>6, <2>2, <2>3 DEF Credit
<1> QED BY <1>5, <1>6

(* Steps that leave the rows, or the accounts, alone.                      *)
LEMMA SameRows ==
  ASSUME RowsOK, UNCHANGED dep
  PROVE  RowsOK' /\ RowsKept /\ \A u : CreditedTo(u)' = CreditedTo(u)
  BY DEF RowsOK, RowsKept, CreditedTo

(* The accounts keep their part of the invariant when neither they nor the *)
(* credited transfers change.                                              *)
LEMMA SameMoney ==
  ASSUME MoneyOK, MoneyInv, UNCHANGED moneyVars, \A u : CreditedTo(u)' = CreditedTo(u)
  PROVE  MoneyOK' /\ MoneyInv'
  BY Backed, BackedNext DEF moneyVars, MoneyOK, MoneyInv, ErasApart, NoPlayStakeAfterFunding

(* A player's bet, settlement, accrual or claim moves one account within   *)
(* its economy.                                                            *)
LEMMA PlayerKeeps ==
  ASSUME DepositInv, NEW u \in Users, UNCHANGED dep,
         \/ Bet(u) \/ Accrue(u) \/ ClaimCommission(u)
         \/ \E pay \in {0, 2} : Settle(u, pay)
  PROVE  MoneyOK' /\ MoneyInv'
<1>0. MoneyOK /\ MoneyInv
  BY DEF DepositInv, TypeOK, MoneyOK, MoneyInv
<1>1. \A v : CreditedTo(v)' = CreditedTo(v)
  BY DEF CreditedTo
<1>2. \A v \in Users : SumOver(Amount, CreditedTo(v)) \in Int
  <2>1. \A v \in Users : \A t \in CreditedTo(v) : Amount[t] \in Int
    BY DepositAssumption DEF CreditedTo
  <2> QED BY <2>1, CreditedFinite, SumType
<1>3. SUFFICES /\ MoneyOK' /\ ErasApart' /\ NoPlayStakeAfterFunding'
               /\ \A v \in Users : funded'[v] =>
                    balance'[v] + (IF stake'[v] = "real" THEN 1 ELSE 0)
                      = SumOver(Amount, CreditedTo(v)) + won'[v]
  BY <1>1, BackedNext DEF MoneyInv
<1>4. \A v \in Users : funded[v] => balance[v] + (IF stake[v] = "real" THEN 1 ELSE 0)
                                      = SumOver(Amount, CreditedTo(v)) + won[v]
  BY <1>0, Backed DEF MoneyInv
<1> DEFINE sum == [v \in Users |-> SumOver(Amount, CreditedTo(v))]
<1>5. sum \in [Users -> Int] /\ \A v \in Users : SumOver(Amount, CreditedTo(v)) = sum[v]
  BY <1>2
<1> HIDE DEF sum
<1>6. CASE Bet(u)
  <2>1. MoneyOK'
    BY <1>0, <1>6 DEF Bet, MoneyOK
  <2>2. ErasApart' /\ NoPlayStakeAfterFunding'
    BY <1>0, <1>1, <1>6 DEF Bet, MoneyOK, MoneyInv, ErasApart, NoPlayStakeAfterFunding
  <2> QED BY <1>0, <1>4, <1>5, <1>6, <2>1, <2>2 DEF Bet, MoneyOK, MoneyInv, NoPlayStakeAfterFunding
<1>7. CASE Accrue(u)
  <2>1. MoneyOK'
    BY <1>0, <1>7 DEF Accrue, MoneyOK
  <2>2. ErasApart' /\ NoPlayStakeAfterFunding'
    BY <1>0, <1>1, <1>7 DEF Accrue, MoneyOK, MoneyInv, ErasApart, NoPlayStakeAfterFunding
  <2> QED BY <1>4, <1>7, <2>1, <2>2 DEF Accrue
<1>8. CASE ClaimCommission(u)
  <2>1. MoneyOK'
    BY <1>0, <1>8 DEF ClaimCommission, MoneyOK
  <2>2. ErasApart' /\ NoPlayStakeAfterFunding'
    BY <1>0, <1>1, <1>8 DEF ClaimCommission, MoneyOK, MoneyInv, ErasApart, NoPlayStakeAfterFunding
  <2>3. ~funded[u]
    BY <1>0, <1>8 DEF ClaimCommission, MoneyOK, MoneyInv, ErasApart
  <2> QED BY <1>0, <1>4, <1>5, <1>8, <2>1, <2>2, <2>3 DEF ClaimCommission, MoneyOK
<1>9. CASE \E pay \in {0, 2} : Settle(u, pay)
  <2>1. PICK pay \in {0, 2} : Settle(u, pay)
    BY <1>9
  <2>2. MoneyOK'
    BY <1>0, <2>1 DEF Settle, MoneyOK
  <2>3. ErasApart' /\ NoPlayStakeAfterFunding'
    BY <1>0, <1>1, <2>1 DEF Settle, MoneyOK, MoneyInv, ErasApart, NoPlayStakeAfterFunding
  <2> QED BY <1>0, <1>4, <1>5, <2>1, <2>2, <2>3
      DEF Settle, MoneyOK, MoneyInv, NoPlayStakeAfterFunding
<1> QED BY <1>6, <1>7, <1>8, <1>9

-----------------------------------------------------------------------------
(* The rest of the state: the chain, the rows' order and the scanners.     *)
SideOK ==
  /\ owner \in [Wallets -> Users \cup {NoUser}]
  /\ listed \in 0 .. NumTx /\ cursor \in 0 .. NumTx
  /\ created \in Seq(Txs)
  /\ scan \in [Scanners -> [pc : {"idle", "record", "advance", "retry"}, next : Nat,
                            last : 0 .. NumTx, held : SUBSET (DOMAIN created)]]
  /\ blocked \in [Users -> BOOLEAN]
WalkOK == Covered(cursor) /\ ScannersCover

(* The inductive invariant, by the parts of the state it is about.         *)
LEMMA Parts ==
  /\ DepositInv <=> SideOK /\ RowsOK /\ MoneyOK /\ WalkOK /\ MoneyInv
  /\ DepositInv' <=> SideOK' /\ RowsOK' /\ MoneyOK' /\ WalkOK' /\ MoneyInv'
  BY DEF DepositInv, TypeOK, SideOK, RowsOK, MoneyOK, WalkOK, MoneyInv

(* Nothing the scanners hold depends on rows but what they have covered.   *)
LEMMA SameWalk ==
  ASSUME WalkOK, RowsKept, UNCHANGED <<cursor, scan>>
  PROVE  WalkOK'
  BY DEF WalkOK, ScannersCover, Covered, RowsKept

(* One scanner moves over rows already behind it.                          *)
LEMMA ScannerMoves ==
  ASSUME SideOK, WalkOK, RowsKept, NEW p \in Scanners, NEW r,
         scan' = [scan EXCEPT ![p] = r],
         r.pc = "record" => r.next \in 1 .. r.last + 1 /\ Covered(r.next - 1),
         r.pc = "advance" => r.next \in 1 .. r.last /\ (Covered(r.next))',
         Covered(cursor)'
  PROVE  WalkOK'
<1>1. scan'[p] = r /\ \A q \in Scanners : q # p => scan'[q] = scan[q]
  BY DEF SideOK
<1>2. ASSUME NEW q \in Scanners
      PROVE  /\ scan'[q].pc = "record" => scan'[q].next \in 1 .. scan'[q].last + 1
                                          /\ \A s \in Txs : s <= scan'[q].next - 1 /\ dep'[s].status = "absent" => Amount[s] < MinDeposit
             /\ scan'[q].pc = "advance" => scan'[q].next \in 1 .. scan'[q].last
                                           /\ \A s \in Txs : s <= scan'[q].next /\ dep'[s].status = "absent" => Amount[s] < MinDeposit
  <2>1. CASE q = p
    BY <1>1, <2>1 DEF Covered, RowsKept
  <2>2. CASE q # p
    BY <1>1, <2>2 DEF WalkOK, ScannersCover, Covered, RowsKept
  <2> QED BY <2>1, <2>2
<1> QED BY <1>2 DEF WalkOK, ScannersCover, Covered

(* DepositInv is inductive, and no step deletes a row or touches one that  *)
(* was credited.                                                           *)
LEMMA DepositStep ==
  ASSUME DepositInv, [Next]_vars
  PROVE  DepositInv' /\ RowsKept
<1>0. SideOK /\ RowsOK /\ MoneyOK /\ WalkOK /\ MoneyInv /\ TypeOK
  BY Parts DEF DepositInv
<1>p. NumTx \in Nat /\ Players \subseteq Users
  BY DepositAssumption
<1>1. ASSUME NEW s \in Txs, ConfirmRecord(s) PROVE DepositInv' /\ RowsKept
  <2>1. /\ RowsOK' /\ RowsKept /\ \A u : CreditedTo(u)' = CreditedTo(u)
        /\ created' \in Seq(Txs) /\ DOMAIN created \subseteq DOMAIN created'
    BY <1>0, <1>1, RecordKeeps DEF ConfirmRecord
  <2>2. MoneyOK' /\ MoneyInv'
    BY <1>0, <1>1, <2>1, SameMoney DEF ConfirmRecord
  <2>3. WalkOK'
    BY <1>0, <1>1, <2>1, SameWalk DEF ConfirmRecord
  <2>4. SideOK'
    BY <1>0, <1>1, <2>1 DEF ConfirmRecord, SideOK
  <2> QED BY <2>1, <2>2, <2>3, <2>4, Parts
<1>2. ASSUME NEW s \in Txs, ConfirmCredit(s) PROVE DepositInv' /\ RowsKept
  <2>1. RowsOK' /\ RowsKept /\ MoneyOK' /\ MoneyInv'
    BY <1>2, CreditKeeps DEF ConfirmCredit
  <2>2. WalkOK' /\ SideOK'
    BY <1>0, <1>2, <2>1, SameWalk DEF ConfirmCredit, SideOK
  <2> QED BY <2>1, <2>2, Parts
<1>s. \A p \in Scanners :
        /\ scan[p] \in [pc : {"idle", "record", "advance", "retry"}, next : Nat,
                        last : 0 .. NumTx, held : SUBSET (DOMAIN created)]
        /\ scan[p].next \in Nat /\ scan[p].last \in 0 .. NumTx
        /\ scan[p].held \in SUBSET (DOMAIN created)
  BY <1>0 DEF SideOK
<1>c. cursor \in Nat /\ listed \in Nat /\ cursor <= NumTx /\ listed <= NumTx
      /\ \A n \in 0 .. NumTx : n \in Nat /\ n <= NumTx
  BY <1>0, <1>p DEF SideOK
<1>3. ASSUME NEW p \in Scanners, ScanStart(p) PROVE DepositInv' /\ RowsKept
  <2>1. RowsOK' /\ RowsKept /\ MoneyOK' /\ MoneyInv'
    BY <1>0, <1>3, SameRows, SameMoney DEF ScanStart
  <2>2. PICK last \in cursor .. listed :
          scan' = [scan EXCEPT ![p] = [@ EXCEPT !.pc = "record", !.next = cursor + 1, !.last = last]]
    BY <1>3 DEF ScanStart
  <2>3. PICK r : r = [scan[p] EXCEPT !.pc = "record", !.next = cursor + 1, !.last = last]
    OBVIOUS
  <2>4. last \in 0 .. NumTx /\ cursor <= last /\ cursor + 1 \in Nat
    BY <1>c, <1>p
  <2>5. r \in [pc : {"record"}, next : Nat, last : 0 .. NumTx, held : SUBSET (DOMAIN created)]
    BY <1>s, <2>3, <2>4
  <2>6. scan' = [scan EXCEPT ![p] = r]
    BY <2>2, <2>3
  <2>7. SideOK'
    BY <1>0, <1>3, <2>5, <2>6 DEF ScanStart, SideOK
  <2>8. r.pc = "record" /\ r.next = cursor + 1 /\ r.last = last
    BY <1>s, <2>3
  <2>9. Covered(cursor) /\ Covered(cursor)'
    BY <1>0, <1>3 DEF WalkOK, ScanStart, Covered
  <2>10. r.next \in 1 .. r.last + 1 /\ r.next - 1 = cursor
    BY <1>c, <2>4, <2>8
  <2>11. WalkOK'
    BY <1>0, <2>1, <2>6, <2>8, <2>9, <2>10, ScannerMoves
  <2> QED BY <2>1, <2>7, <2>11, Parts
<1>4. ASSUME NEW p \in Scanners, ScanRecord(p) PROVE DepositInv' /\ RowsKept
  <2>1. PICK s : s = scan[p].next
    OBVIOUS
  <2>2. s \in Txs /\ s \in 1 .. scan[p].last /\ scan[p].pc = "record" /\ Covered(s - 1)
    BY <1>0, <1>4, <1>c, <1>p, <1>s, <2>1 DEF ScanRecord, WalkOK, ScannersCover, Txs
  <2>3. CASE scan' = [scan EXCEPT ![p].last = s - 1] /\ UNCHANGED <<dep, created>>
    <3>1. RowsOK' /\ RowsKept /\ MoneyOK' /\ MoneyInv'
      BY <1>0, <1>4, <2>3, SameRows, SameMoney DEF ScanRecord
    <3>2. PICK r : r = [scan[p] EXCEPT !.last = s - 1]
      OBVIOUS
    <3>3. s - 1 \in 0 .. NumTx /\ s \in Nat
      BY <1>c, <1>p, <1>s, <2>2
    <3>4. /\ r \in [pc : {"record"}, next : Nat, last : 0 .. NumTx, held : SUBSET (DOMAIN created)]
          /\ r.pc = "record" /\ r.next = s /\ r.last = s - 1
      BY <1>s, <2>1, <2>2, <3>2, <3>3
    <3>5. scan' = [scan EXCEPT ![p] = r]
      BY <2>3, <3>2
    <3>6. SideOK'
      <4>1. UNCHANGED <<owner, listed, cursor, blocked, created>>
        BY <1>4, <2>3 DEF ScanRecord
      <4> QED BY <1>0, <3>4, <3>5, <4>1 DEF SideOK
    <3>7. Covered(cursor)'
      BY <1>0, <1>4, <2>3 DEF WalkOK, ScanRecord, Covered
    <3>8. r.next \in 1 .. r.last + 1
      BY <2>2, <3>3, <3>4
    <3>9. WalkOK'
      BY <1>0, <2>2, <3>1, <3>4, <3>5, <3>7, <3>8, ScannerMoves
    <3> QED BY <3>1, <3>6, <3>9, Parts
  <2>4. CASE Record(s) /\ scan' = [scan EXCEPT ![p].pc = "advance"]
    <3>1. /\ RowsOK' /\ RowsKept /\ \A u : CreditedTo(u)' = CreditedTo(u)
          /\ dep'[s].status = "absent" => Amount[s] < MinDeposit
          /\ created' \in Seq(Txs) /\ DOMAIN created \subseteq DOMAIN created'
      BY <1>0, <2>2, <2>4, RecordKeeps
    <3>2. MoneyOK' /\ MoneyInv'
      BY <1>0, <1>4, <3>1, SameMoney DEF ScanRecord
    <3>3. PICK r : r = [scan[p] EXCEPT !.pc = "advance"]
      OBVIOUS
    <3>4. /\ r \in [pc : {"advance"}, next : Nat, last : 0 .. NumTx, held : SUBSET (DOMAIN created)]
          /\ r.pc = "advance" /\ r.next = s /\ r.last = scan[p].last
      BY <1>s, <2>1, <3>3
    <3>5. scan' = [scan EXCEPT ![p] = r]
      BY <2>4, <3>3
    <3>6. SideOK'
      BY <1>0, <1>4, <2>4, <3>1, <3>4, <3>5 DEF ScanRecord, SideOK
    <3>7. Covered(cursor)'
      BY <1>0, <1>4, <3>1 DEF WalkOK, ScanRecord, Covered, RowsKept
    <3>8. Covered(s)'
      <4>1. ASSUME NEW t \in Txs, t <= s, dep'[t].status = "absent" PROVE Amount[t] < MinDeposit
        <5>1. CASE t = s BY <3>1, <4>1, <5>1
        <5>2. CASE t # s
          <6>1. t <= s - 1 BY <2>2, <4>1, <5>2, <1>p DEF Txs
          <6> QED BY <2>2, <3>1, <4>1, <6>1 DEF Covered, RowsKept
        <5> QED BY <5>1, <5>2
      <4> QED BY <4>1 DEF Covered
    <3>9. WalkOK'
      BY <1>0, <2>2, <3>1, <3>4, <3>5, <3>7, <3>8, ScannerMoves
    <3> QED BY <3>1, <3>2, <3>6, <3>9, Parts
  <2> QED BY <1>4, <2>1, <2>3, <2>4 DEF ScanRecord
<1>5. ASSUME NEW p \in Scanners, ScanAdvance(p) PROVE DepositInv' /\ RowsKept
  <2>1. RowsOK' /\ RowsKept /\ MoneyOK' /\ MoneyInv'
    BY <1>0, <1>5, SameRows, SameMoney DEF ScanAdvance
  <2>2. PICK s : s = scan[p].next
    OBVIOUS
  <2>3. /\ s \in 1 .. scan[p].last /\ Covered(s) /\ cursor' = s
    BY <1>0, <1>5, <2>2 DEF ScanAdvance, WalkOK, ScannersCover
  <2>4. s \in Nat /\ s \in 0 .. NumTx /\ s <= scan[p].last
    BY <1>c, <1>p, <1>s, <2>3
  <2>5. PICK r : r = [scan[p] EXCEPT !.pc = "record", !.next = s + 1]
    OBVIOUS
  <2>6. /\ r \in [pc : {"record"}, next : Nat, last : 0 .. NumTx, held : SUBSET (DOMAIN created)]
        /\ r.pc = "record" /\ r.next = s + 1 /\ r.last = scan[p].last
    <3>1. s + 1 \in Nat
      BY <2>4
    <3> QED BY <1>s, <2>5, <3>1
  <2>7. scan' = [scan EXCEPT ![p] = r]
    <3>1. scan' = [scan EXCEPT ![p] = [scan[p] EXCEPT !.pc = "record", !.next = scan[p].next + 1]]
      BY <1>5, <1>s DEF ScanAdvance
    <3> QED BY <2>2, <2>5, <3>1
  <2>8. SideOK'
    BY <1>0, <1>5, <2>3, <2>4, <2>6, <2>7 DEF ScanAdvance, SideOK
  <2>9. Covered(cursor)'
    BY <1>5, <2>3 DEF ScanAdvance, Covered
  <2>10. r.next \in 1 .. r.last + 1 /\ r.next - 1 = s
    BY <1>c, <1>s, <2>4, <2>6
  <2>11. WalkOK'
    BY <1>0, <2>1, <2>3, <2>6, <2>7, <2>9, <2>10, ScannerMoves
  <2> QED BY <2>1, <2>8, <2>11, Parts
<1>6. ASSUME NEW p \in Scanners, ScanHeld(p) PROVE DepositInv' /\ RowsKept
  <2>1. RowsOK' /\ RowsKept /\ MoneyOK' /\ MoneyInv'
    BY <1>0, <1>6, SameRows, SameMoney DEF ScanHeld
  <2>2. PICK r : r = [scan[p] EXCEPT !.pc = "retry", !.held = HeldBatch]
    OBVIOUS
  <2>3. HeldBatch \in SUBSET (DOMAIN created)
    BY DEF HeldBatch
  <2>4. /\ r \in [pc : {"retry"}, next : Nat, last : 0 .. NumTx, held : SUBSET (DOMAIN created)]
        /\ r.pc = "retry" /\ scan' = [scan EXCEPT ![p] = r]
    BY <1>6, <1>s, <2>2, <2>3 DEF ScanHeld
  <2>5. SideOK'
    BY <1>0, <1>6, <2>4 DEF ScanHeld, SideOK
  <2>6. Covered(cursor)'
    BY <1>0, <1>6 DEF ScanHeld, Covered, WalkOK
  <2>7. WalkOK'
    BY <1>0, <2>1, <2>4, <2>6, ScannerMoves
  <2> QED BY <2>1, <2>5, <2>7, Parts
<1>7. ASSUME NEW p \in Scanners, ScanRetry(p) PROVE DepositInv' /\ RowsKept
  <2>1. PICK i \in scan[p].held : Credit(created[i]) /\ scan' = [scan EXCEPT ![p].held = @ \ {i}]
    BY <1>7 DEF ScanRetry
  <2>2. PICK s : s = created[i]
    OBVIOUS
  <2>3. s \in Txs
    BY <1>0, <1>s, <2>2 DEF SideOK
  <2>4. RowsOK' /\ RowsKept /\ MoneyOK' /\ MoneyInv'
    BY <2>1, <2>2, <2>3, CreditKeeps
  <2>5. PICK r : r = [scan[p] EXCEPT !.held = @ \ {i}]
    OBVIOUS
  <2>6. /\ r \in [pc : {"retry"}, next : Nat, last : 0 .. NumTx, held : SUBSET (DOMAIN created)]
        /\ r.pc = "retry" /\ scan' = [scan EXCEPT ![p] = r]
    BY <1>7, <1>s, <2>1, <2>5 DEF ScanRetry
  <2>7. SideOK'
    BY <1>0, <1>7, <2>6 DEF ScanRetry, SideOK
  <2>8. Covered(cursor)'
    BY <1>0, <1>7, <2>4 DEF ScanRetry, Covered, WalkOK, RowsKept
  <2>9. WalkOK'
    BY <1>0, <2>4, <2>6, <2>8, ScannerMoves
  <2> QED BY <2>4, <2>7, <2>9, Parts
<1>8. ASSUME NEW p \in Scanners, ScanEnd(p) \/ ScanCrash(p) PROVE DepositInv' /\ RowsKept
  <2>1. /\ scan' = [scan EXCEPT ![p] = IdleScan]
        /\ UNCHANGED <<owner, listed, dep, created, cursor, blocked, moneyVars>>
    BY <1>8 DEF ScanEnd, ScanCrash
  <2>2. RowsOK' /\ RowsKept /\ MoneyOK' /\ MoneyInv'
    BY <1>0, <2>1, SameRows, SameMoney
  <2>3. IdleScan \in [pc : {"idle"}, next : Nat, last : 0 .. NumTx, held : SUBSET (DOMAIN created)]
        /\ IdleScan.pc = "idle"
    BY <1>p DEF IdleScan
  <2>4. SideOK'
    BY <1>0, <2>1, <2>3 DEF SideOK
  <2>5. Covered(cursor)'
    BY <1>0, <2>1 DEF Covered, WalkOK
  <2>6. WalkOK'
    BY <1>0, <2>1, <2>2, <2>3, <2>5, ScannerMoves
  <2> QED BY <2>2, <2>4, <2>6, Parts
<1>9. ASSUME Arrive \/ (\E x \in Wallets, u \in Users : Link(x, u))
             \/ (\E u \in Players : SetBlocked(u))
      PROVE  DepositInv' /\ RowsKept
  <2>1. UNCHANGED <<dep, created, cursor, scan, moneyVars>>
    BY <1>9 DEF Arrive, Link, SetBlocked
  <2>2. RowsOK' /\ RowsKept /\ MoneyOK' /\ MoneyInv'
    BY <1>0, <2>1, SameRows, SameMoney
  <2>3. WalkOK'
    BY <1>0, <2>1, <2>2, SameWalk
  <2>4. listed' \in 0 .. NumTx
    BY <1>0, <1>9, <1>p DEF Arrive, Link, SetBlocked, SideOK
  <2>5. owner' \in [Wallets -> Users \cup {NoUser}] /\ blocked' \in [Users -> BOOLEAN]
    BY <1>0, <1>9, <1>p DEF Arrive, Link, SetBlocked, SideOK
  <2>6. SideOK'
    BY <1>0, <2>1, <2>4, <2>5 DEF SideOK
  <2> QED BY <2>2, <2>3, <2>6, Parts
<1>10. ASSUME NEW u \in Players,
              \/ Bet(u) \/ Accrue(u) \/ ClaimCommission(u)
              \/ \E pay \in {0, 2} : Settle(u, pay)
       PROVE  DepositInv' /\ RowsKept
  <2>1. UNCHANGED <<owner, listed, dep, created, cursor, scan, blocked>>
    BY <1>10 DEF Bet, Accrue, ClaimCommission, Settle
  <2>2. RowsOK' /\ RowsKept
    BY <1>0, <2>1, SameRows
  <2>3. MoneyOK' /\ MoneyInv'
    BY <1>10, <1>p, <2>1, PlayerKeeps
  <2>4. WalkOK' /\ SideOK'
    BY <1>0, <2>1, <2>2, SameWalk DEF SideOK
  <2> QED BY <2>2, <2>3, <2>4, Parts
<1>11. CASE UNCHANGED vars
  <2>1. UNCHANGED <<owner, listed, dep, created, cursor, scan, blocked, moneyVars>>
    BY <1>11 DEF vars, moneyVars
  <2>2. RowsOK' /\ RowsKept /\ MoneyOK' /\ MoneyInv'
    BY <1>0, <2>1, SameRows, SameMoney
  <2>3. WalkOK' /\ SideOK'
    BY <1>0, <2>1, <2>2, SameWalk DEF SideOK
  <2> QED BY <2>2, <2>3, Parts
<1> QED BY <1>1, <1>2, <1>3, <1>4, <1>5, <1>6, <1>7, <1>8, <1>9, <1>10, <1>11
    DEF Next, UpNext, ScanNext

(* A fresh database, no transfer listed, satisfies it.                     *)
LEMMA DepositInit == Init => DepositInv
<1> SUFFICES ASSUME Init PROVE DepositInv
  OBVIOUS
<1>0. /\ NumTx \in Nat /\ SeedMoney \in Nat
      /\ FirstOwner \in [Wallets -> Users \cup {NoUser}]
  BY DepositAssumption
<1>1. SideOK
  <2>1. IdleScan \in [pc : {"idle"}, next : Nat, last : 0 .. NumTx, held : SUBSET (DOMAIN created)]
    BY <1>0 DEF IdleScan
  <2> QED BY <1>0, <2>1 DEF Init, SideOK
<1>2. RowsOK
  BY DEF Init, RowsOK, NoDep, Reasons
<1>3. MoneyOK
  BY <1>0 DEF Init, MoneyOK
<1>4. WalkOK
  BY <1>0 DEF Init, WalkOK, Covered, ScannersCover, IdleScan, Txs
<1>5. MoneyInv
  BY DEF Init, MoneyInv, ErasApart, NoPlayStakeAfterFunding, RealMoneyBacked, CreditedTo, NoDep
<1> QED BY <1>1, <1>2, <1>3, <1>4, <1>5, Parts

(* So every reachable state does.                                          *)
LEMMA DepositAlways == Spec => []DepositInv
<1>1. DepositInv /\ [Next]_vars => DepositInv'
  BY DepositStep
<1> QED BY <1>1, DepositInit, PTL DEF Spec

-----------------------------------------------------------------------------
(* Every variable keeps its type: no balance or commission goes below zero *)
(* whatever the scanners, the player and the confirmations do.             *)
THEOREM TypeCorrect == Spec => []TypeOK
  BY DepositAlways, PTL DEF DepositInv

(* A converted account holds exactly its credited deposits, each once, and *)
(* the results of its real bets (deposit.service.ts convert).              *)
THEOREM RealMoneyAlwaysBacked == Spec => []RealMoneyBacked
  BY DepositAlways, PTL DEF DepositInv

(* No play-money stake outlives the conversion, and an account is real     *)
(* exactly when a deposit was credited (economy.ts openPlayPositions).     *)
THEOREM ErasNeverMix == Spec => []NoPlayStakeAfterFunding
  BY DepositAlways, PTL DEF DepositInv

(* Any number of racing, dying scanners share the cursor, and nothing      *)
(* behind it is unrecorded but dust (deposit.service.ts scanOnce).         *)
THEOREM NothingSkipped == Spec => []CursorSkipsNothing
<1>1. DepositInv => CursorSkipsNothing
  BY DEF DepositInv, CursorSkipsNothing, Covered
<1> QED BY <1>1, DepositAlways, PTL

(* No later step changes a credited row (deposit.service.ts credit).       *)
THEOREM CreditIsFinal == Spec => CreditedOnceForAll
<1>1. DepositInv /\ [Next]_vars =>
        [\A s \in Txs : dep[s].status = "credited" => dep'[s] = dep[s]]_vars
  BY DepositStep DEF RowsKept
<1> QED BY <1>1, DepositAlways, PTL DEF Spec, CreditedOnceForAll

-----------------------------------------------------------------------------
(* The limits of a player (WagerLimits).                                   *)

\* What the player has wagered today and what is still staked.
Staked == bets.amount + open + riding

\* A request, with the limits it was checked against.
LimitRequest == [at : {"idle", "sum", "clear"}, amount : Nat, kind : Limits!Kinds \cup {"none"},
                 missed : Nat, limits : WagerLimits \X LossLimits]

\* Every variable has its type.
LimitTypes ==
  /\ now \in 1..LastTick /\ bets \in [amount : Nat, payout : Nat]
  /\ open \in Nat /\ riding \in Nat /\ slack \in Nat /\ carried \in Nat
  /\ user \in [wager : WagerLimits, loss : LossLimits, until : [Blocks -> Nat]]
  /\ promised \in [Blocks -> Nat]
  /\ req \in [Wagers -> LimitRequest]

\* A request past its sums fits the limits it was checked against: if they are still the
\* player's, all that was staked since and that the sums left out is in `missed'.
ClearFits ==
  \A r \in Wagers : req[r].at = "clear" =>
    /\ req[r].limits[1] # None => req[r].amount <= req[r].limits[1]
    /\ req[r].limits[2] # None => req[r].amount <= req[r].limits[2]
    /\ req[r].limits = <<user.wager, user.loss>> =>
         /\ user.wager # None =>
              Staked + req[r].amount <= user.wager + slack + req[r].missed
         /\ user.loss # None =>
              Staked + req[r].amount <= user.loss + slack + carried + req[r].missed + bets.payout

\* The inductive invariant.
LimitInv ==
  /\ LimitTypes /\ ClearFits
  /\ Limits!WagersWithinLimit /\ Limits!LossesWithinLimit /\ Limits!BlocksLast



\* What is assumed of the amounts and limits.
LEMMA LimitConstants ==
  /\ UnitStakes \subseteq Nat /\ Returns \subseteq Nat
  /\ None \in WagerLimits /\ None \in LossLimits
  /\ \A l \in WagerLimits \cup LossLimits : l # None => l \in Nat
  /\ LastTick \in Nat /\ 1 \in 1..LastTick
  BY CustodyAssumption

\* It holds at the start ...
LEMMA LimitInit == Limits!Init => LimitInv
<1> SUFFICES ASSUME Limits!Init PROVE LimitInv
  OBVIOUS
<1>1. Limits!NoReq \in LimitRequest /\ Limits!NoReq.at # "clear"
  BY LimitConstants DEF Limits!NoReq, LimitRequest
<1>2. req \in [Wagers -> LimitRequest] /\ \A r \in Wagers : req[r].at # "clear"
  BY <1>1 DEF Limits!Init
<1>3. LimitTypes
  BY <1>2, LimitConstants DEF Limits!Init, LimitTypes
<1>4. ClearFits
  BY <1>2 DEF ClearFits
<1> QED
  BY <1>3, <1>4 DEF LimitInv, Limits!Init, Limits!WagersWithinLimit, Limits!LossesWithinLimit,
    Limits!BlocksLast

\* What a settlement pays is a natural.
LEMMA ProductNat == \A m, a \in Nat : m * a \in Nat
  OBVIOUS

\* ... and every step keeps it: a request that takes its stake adds it to what the others
\* missed, and new limits start with all that is staked as slack.
LEMMA LimitStep == LimitInv /\ [Limits!Next]_limitsVars => LimitInv'
<1> SUFFICES ASSUME LimitInv, [Limits!Next]_limitsVars PROVE LimitInv'
  OBVIOUS
<1> USE LimitConstants
<1>0. LimitTypes /\ ClearFits /\ Limits!WagersWithinLimit /\ Limits!LossesWithinLimit /\ Limits!BlocksLast
  BY DEF LimitInv
<1>1. ASSUME NEW r \in Wagers, NEW a \in UnitStakes, NEW k \in Limits!Kinds, Limits!Check(r, a, k)
      PROVE  LimitInv'
  <2>1. LimitTypes'
    BY <1>0, <1>1 DEF LimitTypes, LimitRequest, Limits!Check
  <2>2. ClearFits'
    BY <1>0, <1>1 DEF LimitTypes, LimitRequest, ClearFits, Staked, Limits!Check
  <2> QED
    BY <1>0, <1>1, <2>1, <2>2 DEF LimitInv, Limits!Check, Limits!WagersWithinLimit,
      Limits!LossesWithinLimit, Limits!BlocksLast
<1>2. ASSUME NEW r \in Wagers, Limits!Sum(r) PROVE LimitInv'
  <2>0. Limits!NoReq \in LimitRequest
    BY DEF LimitRequest, Limits!NoReq
  <2>3. [req[r] EXCEPT !.at = "clear", !.missed = riding] \in LimitRequest
    <3>1. ASSUME NEW q \in LimitRequest PROVE [q EXCEPT !.at = "clear"] \in LimitRequest
      BY <3>1 DEF LimitRequest
    <3>2. ASSUME NEW q \in LimitRequest PROVE [q EXCEPT !.missed = riding] \in LimitRequest
      BY <1>0, <3>2 DEF LimitRequest, LimitTypes
    <3>3. req[r] \in LimitRequest
      BY <1>0 DEF LimitTypes
    <3> QED BY <3>1, <3>2, <3>3
  <2>1. LimitTypes'
    BY <1>0, <1>2, <2>0, <2>3 DEF LimitTypes, Limits!Sum
  <2>2. ClearFits'
    BY <1>0, <1>2 DEF LimitTypes, LimitRequest, ClearFits, Staked, Limits!Sum, Limits!NoReq,
      Limits!Within, Limits!PendingStakes, Limits!Larger
  <2> QED
    BY <1>0, <1>2, <2>1, <2>2 DEF LimitInv, Limits!Sum, Limits!WagersWithinLimit,
      Limits!LossesWithinLimit, Limits!BlocksLast
<1>3. ASSUME NEW r \in Wagers, Limits!Take(r) PROVE LimitInv'
  <2>1. LimitTypes'
    BY <1>0, <1>3, ProductNat DEF LimitTypes, LimitRequest, Limits!Take, Limits!NoReq
  <2>2. ClearFits'
    BY <1>0, <1>3, ProductNat DEF LimitTypes, LimitRequest, ClearFits, Staked, Limits!Take, Limits!NoReq
  <2>3. Limits!WagersWithinLimit' /\ Limits!LossesWithinLimit'
    BY <1>0, <1>3, ProductNat DEF LimitTypes, LimitRequest, ClearFits, Staked, Limits!Take,
      Limits!WagersWithinLimit, Limits!LossesWithinLimit
  <2> QED
    BY <1>0, <1>3, <2>1, <2>2, <2>3 DEF LimitInv, Limits!Take, Limits!BlocksLast
<1>4. ASSUME NEW r \in Wagers, Limits!Refuse(r) PROVE LimitInv'
  <2>1. LimitTypes'
    BY <1>0, <1>4 DEF LimitTypes, LimitRequest, Limits!Refuse, Limits!NoReq
  <2>2. ClearFits'
    BY <1>0, <1>4 DEF LimitTypes, LimitRequest, ClearFits, Staked, Limits!Refuse, Limits!NoReq
  <2> QED
    BY <1>0, <1>4, <2>1, <2>2 DEF LimitInv, Limits!Refuse, Limits!WagersWithinLimit,
      Limits!LossesWithinLimit, Limits!BlocksLast
<1>5. ASSUME NEW a \in UnitStakes, NEW m \in Returns, Limits!Settle(a, m) \/ Limits!SettleRound(a, m)
      PROVE  LimitInv'
  <2>1. /\ UNCHANGED <<now, user, req, slack, carried, promised>>
        /\ open' \in Nat /\ riding' \in Nat /\ bets' \in [amount : Nat, payout : Nat]
        /\ Staked' <= Staked /\ bets'.payout >= bets.payout
    BY <1>0, <1>5, ProductNat DEF LimitTypes, Staked, Limits!Settle, Limits!SettleRound
  <2> QED BY <1>0, <2>1 DEF LimitInv, LimitTypes, LimitRequest, ClearFits, Staked,
        Limits!WagersWithinLimit, Limits!LossesWithinLimit, Limits!BlocksLast
<1>6. ASSUME NEW w \in WagerLimits, NEW l \in LossLimits, Limits!SetLimits(w, l) PROVE LimitInv'
  <2>0. bets.amount \in Nat /\ open \in Nat /\ riding \in Nat
    BY <1>0 DEF LimitTypes
  <2>3. slack' \in Nat
    BY <1>6, <2>0 DEF Limits!SetLimits
  <2>4. user' \in [wager : WagerLimits, loss : LossLimits, until : [Blocks -> Nat]]
    BY <1>0, <1>6 DEF LimitTypes, Limits!SetLimits
  <2>1. LimitTypes'
    BY <1>0, <1>6, <2>3, <2>4 DEF LimitTypes, Limits!SetLimits
  <2>2. ClearFits'
    BY <1>0, <1>6 DEF LimitTypes, LimitRequest, ClearFits, Staked, Limits!SetLimits
  <2> QED
    BY <1>0, <1>6, <2>1, <2>2 DEF LimitInv, LimitTypes, Limits!SetLimits, Limits!WagersWithinLimit,
      Limits!LossesWithinLimit, Limits!BlocksLast
<1>7. ASSUME NEW f \in Blocks, NEW until \in 1..(LastTick + 1), Limits!Extend(f, until)
      PROVE  LimitInv'
  <2>1. LimitTypes'
    BY <1>0, <1>7 DEF LimitTypes, Limits!Extend, Limits!Larger
  <2>2. ClearFits'
    BY <1>0, <1>7 DEF LimitTypes, LimitRequest, ClearFits, Staked, Limits!Extend
  <2>3. Limits!BlocksLast'
    BY <1>0, <1>7 DEF LimitTypes, Limits!Extend, Limits!Larger, Limits!NotShortened, Limits!BlocksLast
  <2> QED
    BY <1>0, <1>7, <2>1, <2>2, <2>3 DEF LimitInv, LimitTypes, Limits!Extend,
      Limits!WagersWithinLimit, Limits!LossesWithinLimit
<1>8. ASSUME Limits!Tick PROVE LimitInv'
  <2>1. LimitTypes'
    BY <1>0, <1>8 DEF LimitTypes, Limits!Tick
  <2>2. CASE now' % DayLength # 0
    BY <1>0, <1>8, <2>1, <2>2 DEF LimitInv, ClearFits, Staked, Limits!Tick,
      Limits!WagersWithinLimit, Limits!LossesWithinLimit, Limits!BlocksLast
  <2>3. CASE ~(now' % DayLength # 0)
    <3>1. bets' = [amount |-> 0, payout |-> 0] /\ carried' = open + riding
          /\ UNCHANGED <<user, open, riding, req, taken, slack, promised>>
      BY <1>8, <2>3 DEF Limits!Tick
    <3>2. ClearFits'
      BY <1>0, <3>1 DEF LimitTypes, LimitRequest, ClearFits, Staked
    <3> QED BY <1>0, <2>1, <3>1, <3>2 DEF LimitInv, LimitTypes, Limits!WagersWithinLimit,
          Limits!LossesWithinLimit, Limits!BlocksLast
  <2> QED BY <2>2, <2>3
<1>9. CASE UNCHANGED limitsVars
  BY <1>0, <1>9 DEF limitsVars, LimitInv, LimitTypes, ClearFits, Staked,
    Limits!WagersWithinLimit, Limits!LossesWithinLimit, Limits!BlocksLast
<1>10. ASSUME NEW a \in UnitStakes, Limits!Refund(a) PROVE LimitInv'
  <2>1. /\ UNCHANGED <<now, user, bets, req, slack, carried, promised>>
        /\ open' \in Nat /\ riding' \in Nat /\ Staked' <= Staked
    BY <1>0, <1>10 DEF LimitTypes, Staked, Limits!Refund
  <2> QED BY <1>0, <2>1 DEF LimitInv, LimitTypes, LimitRequest, ClearFits, Staked,
        Limits!WagersWithinLimit, Limits!LossesWithinLimit, Limits!BlocksLast
<1> QED
  BY <1>1, <1>2, <1>3, <1>4, <1>5, <1>6, <1>7, <1>8, <1>9, <1>10 DEF Limits!Next

-----------------------------------------------------------------------------
(* The gates of a request (RequestGates).                                  *)

\* A route has the guards that what it does asks for.
Guarded(route) ==
  /\ route[1] \in {"own", "edits", "spends", "scans", "moves"} => "jwt" \in route[2]
  /\ route[1] = "moves" => "kyc" \in route[2]
  /\ route[1] = "administers" => "admin" \in route[2]
  /\ route[1] = "runs" => "secret" \in route[2]

\* The wagers of a person in a window that has not ended.
InWindow(p) == {x \in passed : x.who = p /\ x.until > tick}

\* Every variable has its type, and the process has booted.
GateTypes ==
  /\ Gates!GatesTypeOK
  /\ Gates!AssertRealMoneyReady(cfg)
  /\ kyc \in [Persons -> [status : {"none", "pending", "approved", "rejected"},
                          cleared : BOOLEAN, of : Nat]]
  /\ review \in [Persons -> [n : Nat, open : BOOLEAN, verdict : Gates!Verdicts \cup {"none"}]]
  /\ hooks \subseteq [ref : Persons, status : Gates!Verdicts, review : Nat]
  /\ expires \in [Persons -> Nat]
  /\ IsFiniteSet(passed)
  /\ passed \subseteq [who : Persons, on : Replicas, until : Nat, n : Nat]

\* Who is cleared was approved in the last review.
Reviewed == \A p \in Persons : Gates!IsCleared(p) => review[p].verdict = "approved"

\* The counter of a window is no less than the wagers it let through, and a window ends
\* before the next one begins.
Counted ==
  /\ \A x \in passed : x.until <= expires[x.who]
  /\ \A p \in Persons : tick < expires[p] =>
       /\ Cardinality(InWindow(p)) <= hits[p]
       /\ Cardinality(InWindow(p)) <= Limit

\* The inductive invariant.
GateInv ==
  /\ GateTypes /\ Reviewed /\ Counted
  /\ Gates!RealMoneyVerified /\ Gates!OnlyTheEntitled

\* What is assumed of the throttle.
LEMMA GateConstants ==
  Limit \in Nat /\ WindowTicks \in Nat /\ MaxTick \in Nat /\ MaxAsks \in Nat
  BY CustodyAssumption

\* Every route of the controllers has them.
LEMMA RoutesGuarded == \A route \in Gates!Routes : Guarded(route)
<1>1. ASSUME NEW route \in UNION {Gates!AuthRoutes, Gates!UserRoutes, Gates!LimitRoutes,
                                  Gates!KycRoutes, Gates!FairnessRoutes}
      PROVE  Guarded(route)
  BY <1>1 DEF Guarded, Gates!AuthRoutes, Gates!UserRoutes, Gates!LimitRoutes,
    Gates!KycRoutes, Gates!FairnessRoutes
<1>2. ASSUME NEW route \in UNION {Gates!CrashRoutes, Gates!LotteryRoutes, Gates!BlackjackRoutes,
                                  Gates!CoinflipRoutes, Gates!JackpotRoutes}
      PROVE  Guarded(route)
  BY <1>2 DEF Guarded, Gates!CrashRoutes, Gates!LotteryRoutes, Gates!BlackjackRoutes,
    Gates!CoinflipRoutes, Gates!JackpotRoutes
<1>3. ASSUME NEW route \in UNION {Gates!MinesRoutes, Gates!HiloRoutes, Gates!TowerRoutes,
                                  Gates!DiceRoutes, Gates!LimboRoutes, Gates!KenoRoutes,
                                  Gates!PlinkoRoutes, Gates!WheelRoutes}
      PROVE  Guarded(route)
  BY <1>3 DEF Guarded, Gates!MinesRoutes, Gates!HiloRoutes, Gates!TowerRoutes,
    Gates!DiceRoutes, Gates!LimboRoutes, Gates!KenoRoutes, Gates!PlinkoRoutes, Gates!WheelRoutes
<1>4. ASSUME NEW route \in UNION {Gates!CustodyRoutes, Gates!VaultRoutes, Gates!StakingRoutes,
                                  Gates!RewardRoutes, Gates!AffiliateRoutes}
      PROVE  Guarded(route)
  BY <1>4 DEF Guarded, Gates!CustodyRoutes, Gates!VaultRoutes, Gates!StakingRoutes,
    Gates!RewardRoutes, Gates!AffiliateRoutes
<1>5. ASSUME NEW route \in UNION {Gates!AirdropRoutes, Gates!SwapRoutes, Gates!EngineRoutes,
                                  Gates!LeaderboardRoutes, Gates!AdminRoutes, Gates!JobRoutes}
      PROVE  Guarded(route)
  BY <1>5 DEF Guarded, Gates!AirdropRoutes, Gates!SwapRoutes, Gates!EngineRoutes,
    Gates!LeaderboardRoutes, Gates!AdminRoutes, Gates!JobRoutes
<1> QED BY <1>1, <1>2, <1>3, <1>4, <1>5 DEF Gates!Routes

\* The invariant holds at the start ...
LEMMA GateInit == Gates!GatesInit => GateInv
<1> SUFFICES ASSUME Gates!GatesInit PROVE GateInv
  OBVIOUS
<1>1. cfg \subseteq Gates!Switches /\ Gates!AssertRealMoneyReady(cfg)
  BY DEF Gates!GatesInit
<1>2. GateTypes
  BY <1>1, GateConstants, FS_EmptySet DEF GateTypes, Gates!GatesInit, Gates!GatesTypeOK
<1>3. Reviewed /\ Counted
  BY DEF Reviewed, Counted, Gates!GatesInit, Gates!IsCleared
<1> QED BY <1>2, <1>3 DEF GateInv, Gates!RealMoneyVerified, Gates!OnlyTheEntitled, Gates!GatesInit

\* What the geo guard lets through is what it looks for.
LEMMA GeoVerifies ==
  ASSUME Gates!AssertRealMoneyReady(cfg), "realMoney" \in cfg,
         NEW x \in Gates!Places, Gates!GeoAllows(x)
  PROVE  Gates!Verified(x)
<1>1. "proxySecret" \in cfg /\ ("vpn" \in cfg => "vpnKey" \in cfg)
  BY DEF Gates!AssertRealMoneyReady
<1>2. /\ x.from \in {"open", "blocked"} /\ x.header \in {"open", "blocked", "none"}
      /\ x.provider \in {"up", "down"} /\ x.vpn \in BOOLEAN /\ (x.proxied => x.header = x.from)
  BY DEF Gates!Places, Gates!Plausible, Gates!Countries
<1>3. x.proxied /\ x.from = "open"
  BY <1>1, <1>2 DEF Gates!GeoAllows, Gates!CountryOf, Gates!HeadersAreTrusted
<1>4. CASE "vpn" \in cfg
  <2>1. Gates!Score(x) # "error" /\ Gates!Score(x) # "high"
    BY <1>4 DEF Gates!GeoAllows
  <2>2. x.provider # "down" /\ ~x.vpn
    BY <1>1, <1>4, <2>1 DEF Gates!Score
  <2> QED BY <1>2, <1>3, <2>2 DEF Gates!Verified
<1> QED BY <1>3, <1>4 DEF Gates!Verified

\* What the guards of a route let through is entitled to it.
LEMMA GuardsEntitle ==
  ASSUME Reviewed, NEW p \in Persons, NEW q, Guarded(q.route),
         Gates!Credentials(q), Gates!KycAllows(p, q)
  PROVE  Gates!Entitled(p, q)
<1>1. q.route[1] \in {"own", "edits", "spends", "scans", "moves"} => Gates!SignedIn(q)
  BY DEF Guarded, Gates!Credentials
<1>2. q.route[1] = "moves" /\ "kycEnabled" \in cfg => review[p].verdict = "approved"
  BY DEF Guarded, Gates!KycAllows, Reviewed
<1>3. q.route[1] = "administers" => q.as = "admin"
  BY DEF Guarded, Gates!Credentials, Gates!AssertAdmin
<1>4. q.route[1] = "runs" => q.as = "cron"
  BY DEF Guarded, Gates!Credentials, Gates!HasSecret
<1> QED BY <1>1, <1>2, <1>3, <1>4 DEF Gates!Entitled


\* A request that Redis counts keeps the invariant, whatever it asks for.
LEMMA AskKeeps ==
  ASSUME GateInv, GateWindows = {}, NEW p \in Persons, NEW r \in Replicas, NEW up \in BOOLEAN,
         NEW x \in Gates!Places, NEW q, Guarded(q.route), Gates!Ask(p, x, q, r, up)
  PROVE  GateInv'
<1> DEFINE ends == IF tick >= expires[p] THEN tick + WindowTicks ELSE expires[p]
           counted == "bet" \in q.route[2] /\ Gates!SignedIn(q)
           capped == counted /\ up
           through == /\ capped => ~Gates!Throttled(p, r)
                      /\ Gates!Credentials(q) /\ Gates!KycAllows(p, q)
           fact == [ok |-> Gates!Verified(x), entitled |-> Gates!Entitled(p, q)]
           wager == [who |-> p, on |-> r, until |-> ends, n |-> asks]
<1>0. GateTypes /\ Reviewed /\ Counted /\ Gates!RealMoneyVerified /\ Gates!OnlyTheEntitled
  BY DEF GateInv
<1>1. /\ up /\ (counted => asks < MaxAsks)
      /\ asks' = IF counted THEN asks + 1 ELSE asks
      /\ Gates!GeoAllows(x)
      /\ hits' = [hits EXCEPT ![p] = IF capped THEN Gates!Count(p, r) + 1 ELSE @]
      /\ expires' = [expires EXCEPT ![p] = IF capped THEN ends ELSE @]
      /\ passed' = IF through /\ counted THEN passed \cup {wager} ELSE passed
      /\ seen' = IF through THEN seen \cup {fact} ELSE seen
      /\ UNCHANGED <<cfg, kyc, review, hooks, tick>>
  BY DEF Gates!Ask
<1>2. /\ tick \in Nat /\ asks \in 0 .. MaxAsks /\ hits \in [Persons -> Nat]
      /\ expires \in [Persons -> Nat] /\ WindowTicks \in Nat /\ MaxAsks \in Nat /\ MaxTick \in Nat
      /\ Limit \in Nat
  BY <1>0, GateConstants DEF GateTypes, Gates!GatesTypeOK
<1>3. ends \in Nat /\ Gates!Count(p, r) \in Nat
  BY <1>2 DEF Gates!Count
<1>4. through => /\ Gates!Entitled(p, q)
                 /\ "realMoney" \in cfg => Gates!Verified(x)
  BY <1>0, <1>1, GeoVerifies, GuardsEntitle DEF GateTypes
<1>5. (Gates!RealMoneyVerified /\ Gates!OnlyTheEntitled)'
  BY <1>0, <1>1, <1>4 DEF Gates!RealMoneyVerified, Gates!OnlyTheEntitled
<1>6. Reviewed'
  BY <1>0, <1>1 DEF Reviewed, Gates!IsCleared
<1>7. GateTypes'
  <2>1. hits' \in [Persons -> Nat] /\ expires' \in [Persons -> Nat]
    BY <1>1, <1>2, <1>3
  <2>2. asks' \in 0 .. MaxAsks
    BY <1>1, <1>2
  <2>3. wager \in [who : Persons, on : Replicas, until : Nat, n : Nat]
    BY <1>2, <1>3
  <2>4. IsFiniteSet(passed') /\ passed' \subseteq [who : Persons, on : Replicas, until : Nat, n : Nat]
    BY <1>0, <1>1, <2>3, FS_AddElement DEF GateTypes
  <2>5. GateTypes /\ UNCHANGED <<cfg, kyc, review, hooks, tick>>
    BY <1>0, <1>1
  <2> QED BY <2>1, <2>2, <2>4, <2>5 DEF GateTypes, Gates!GatesTypeOK, Gates!AssertRealMoneyReady
<1> HIDE DEF ends, through, fact
<1>8. Counted'
  <2>1. \A y \in passed : y.who \in Persons /\ y.until \in Nat /\ y.until <= expires[y.who]
    BY <1>0 DEF GateTypes, Counted
  <2>2. wager.who = p /\ wager.until = ends
    OBVIOUS
  <2>3. CASE ~capped
    <3>1. UNCHANGED <<hits, expires, passed, tick>>
      BY <1>1, <1>2, <2>3
    <3> QED BY <1>0, <3>1 DEF Counted, InWindow
  <2>4. CASE capped
    <3>1. /\ hits' = [hits EXCEPT ![p] = Gates!Count(p, r) + 1]
          /\ expires' = [expires EXCEPT ![p] = ends]
          /\ passed' = IF through THEN passed \cup {wager} ELSE passed
          /\ tick' = tick
      BY <1>1, <2>4
    <3>2. through => Gates!Count(p, r) + 1 <= Limit
      BY <1>2, <1>3, <2>4 DEF through, Gates!Throttled
    <3>3. expires[p] <= ends
      BY <1>2 DEF ends
    <3>4. \A y \in passed' : y.until <= expires'[y.who]
      BY <1>2, <1>3, <2>1, <2>2, <3>1, <3>3
    <3>5. ASSUME NEW o \in Persons, o # p PROVE InWindow(o)' = InWindow(o)
      BY <2>2, <3>1, <3>5 DEF InWindow
    <3>6. IsFiniteSet(InWindow(p))
      BY <1>0, FS_Subset DEF GateTypes, InWindow
    <3>7. /\ Cardinality(InWindow(p)) \in Nat
          /\ Cardinality(InWindow(p)) <= Gates!Count(p, r)
          /\ tick < ends => Cardinality(InWindow(p)) <= Limit
      <4>1. CASE tick >= expires[p]
        <5>1. InWindow(p) = {}
          BY <1>2, <2>1, <4>1 DEF InWindow
        <5> QED BY <1>2, <1>3, <5>1, FS_EmptySet
      <4>2. CASE ~(tick >= expires[p])
        BY <1>0, <1>2, <3>6, <4>2, FS_CardinalityType DEF Counted, Gates!Count
      <4> QED BY <4>1, <4>2
    <3>8. /\ Cardinality(InWindow(p)') <= Gates!Count(p, r) + 1
          /\ tick < ends => Cardinality(InWindow(p)') <= Limit
      <4>1. CASE ~through
        <5>1. InWindow(p)' = InWindow(p)
          BY <3>1, <4>1 DEF InWindow
        <5> QED BY <1>2, <1>3, <3>7, <5>1
      <4>2. CASE through
        <5>1. InWindow(p)' \subseteq InWindow(p) \cup {wager}
          BY <3>1, <4>2 DEF InWindow
        <5>2. /\ IsFiniteSet(InWindow(p) \cup {wager})
              /\ Cardinality(InWindow(p) \cup {wager}) <= Cardinality(InWindow(p)) + 1
          <6> HIDE DEF wager
          <6>1. /\ IsFiniteSet(InWindow(p) \cup {wager})
                /\ \/ Cardinality(InWindow(p) \cup {wager}) = Cardinality(InWindow(p))
                   \/ Cardinality(InWindow(p) \cup {wager}) = Cardinality(InWindow(p)) + 1
            BY <3>6, FS_AddElement
          <6> QED BY <3>7, <6>1
        <5>3. /\ Cardinality(InWindow(p)') <= Cardinality(InWindow(p) \cup {wager})
              /\ Cardinality(InWindow(p)') \in Nat /\ Cardinality(InWindow(p) \cup {wager}) \in Nat
          BY <5>1, <5>2, FS_Subset, FS_CardinalityType
        <5> QED BY <1>2, <1>3, <3>2, <3>7, <4>2, <5>2, <5>3
      <4> QED BY <4>1, <4>2
    <3>9. ASSUME NEW o \in Persons, tick' < expires'[o]
          PROVE  Cardinality(InWindow(o)') <= hits'[o] /\ Cardinality(InWindow(o)') <= Limit
      <4>1. CASE o = p
        BY <1>2, <1>3, <3>1, <3>8, <3>9, <4>1
      <4>2. CASE o # p
        BY <1>0, <1>2, <3>1, <3>5, <3>9, <4>2 DEF Counted
      <4> QED BY <4>1, <4>2
    <3> QED BY <3>4, <3>9 DEF Counted
  <2> QED BY <2>3, <2>4
<1> QED BY <1>5, <1>6, <1>7, <1>8 DEF GateInv

\* ... and every step keeps it.
LEMMA GateStep == GateWindows = {} /\ GateInv /\ [Gates!GatesNext]_gatesVars => GateInv'
<1> SUFFICES ASSUME GateWindows = {}, GateInv, [Gates!GatesNext]_gatesVars PROVE GateInv'
  OBVIOUS
<1>0. GateTypes /\ Reviewed /\ Counted /\ Gates!RealMoneyVerified /\ Gates!OnlyTheEntitled
  BY DEF GateInv
<1>1. CASE Gates!Tick
  <2>1. /\ tick < MaxTick /\ tick' = tick + 1
        /\ UNCHANGED <<cfg, kyc, review, hooks, hits, expires, passed, seen, asks>>
    BY <1>1 DEF Gates!Tick
  <2>2. tick \in 0 .. MaxTick /\ tick' \in 0 .. MaxTick /\ MaxTick \in Nat
    BY <1>0, <2>1, GateConstants DEF GateTypes, Gates!GatesTypeOK
  <2>3. GateTypes'
    BY <1>0, <2>1, <2>2 DEF GateTypes, Gates!GatesTypeOK, Gates!AssertRealMoneyReady
  <2>4. Reviewed' /\ (Gates!RealMoneyVerified /\ Gates!OnlyTheEntitled)'
    BY <1>0, <2>1 DEF Reviewed, Gates!IsCleared, Gates!RealMoneyVerified, Gates!OnlyTheEntitled
  <2>5. ASSUME NEW p \in Persons, tick' < expires'[p]
        PROVE  Cardinality(InWindow(p)') <= hits'[p] /\ Cardinality(InWindow(p)') <= Limit
    <3>1. tick < expires[p] /\ expires[p] \in Nat /\ hits[p] \in Nat
      BY <1>0, <2>1, <2>2, <2>5 DEF GateTypes, Gates!GatesTypeOK
    <3>2. IsFiniteSet(InWindow(p)) /\ InWindow(p)' \subseteq InWindow(p)
      BY <1>0, <2>1, <2>2, FS_Subset DEF GateTypes, InWindow
    <3>3. /\ Cardinality(InWindow(p)') <= Cardinality(InWindow(p))
          /\ Cardinality(InWindow(p)') \in Nat /\ Cardinality(InWindow(p)) \in Nat
      BY <3>2, FS_Subset, FS_CardinalityType
    <3>4. Cardinality(InWindow(p)) <= hits[p] /\ Cardinality(InWindow(p)) <= Limit
      BY <1>0, <3>1 DEF Counted
    <3> QED BY <2>1, <3>1, <3>3, <3>4, GateConstants
  <2>6. Counted'
    BY <1>0, <2>1, <2>5 DEF Counted
  <2> QED BY <2>3, <2>4, <2>6 DEF GateInv
<1>2. ASSUME NEW p \in Persons, Gates!KycStart(p) PROVE GateInv'
  <2>1. /\ UNCHANGED <<cfg, hooks, hits, expires, tick, passed, seen, asks>>
        /\ kyc' = [kyc EXCEPT ![p] = [status |-> "pending", cleared |-> @.cleared, of |-> @.of]]
        /\ review' = [review EXCEPT ![p] = [n |-> @.n + 1, open |-> TRUE, verdict |-> "none"]]
    BY <1>2 DEF Gates!KycStart
  <2>2. GateTypes'
    BY <1>0, <2>1 DEF GateTypes, Gates!GatesTypeOK, Gates!AssertRealMoneyReady
  <2>3. Reviewed'
    BY <1>0, <2>1 DEF Reviewed, Gates!IsCleared, GateTypes
  <2> QED BY <1>0, <2>1, <2>2, <2>3 DEF GateInv, Counted, InWindow, Gates!RealMoneyVerified,
        Gates!OnlyTheEntitled
<1>3. ASSUME NEW p \in Persons, NEW v \in Gates!Verdicts, Gates!Decide(p, v) PROVE GateInv'
  <2>1. /\ UNCHANGED <<cfg, kyc, hits, expires, tick, passed, seen, asks>>
        /\ ~Gates!IsCleared(p)
        /\ review' = [review EXCEPT ![p].open = (v = "onHold"), ![p].verdict = v]
        /\ hooks' = hooks \cup {[ref |-> p, status |-> v, review |-> review[p].n]}
    BY <1>3 DEF Gates!Decide
  <2>2. /\ review' \in [Persons -> [n : Nat, open : BOOLEAN, verdict : Gates!Verdicts \cup {"none"}]]
        /\ \A o \in Persons \ {p} : review'[o] = review[o]
    <3> DEFINE decided == [review EXCEPT ![p].open = (v = "onHold")]
               Type == [Persons -> [n : Nat, open : BOOLEAN, verdict : Gates!Verdicts \cup {"none"}]]
    <3>1. review \in Type
      BY <1>0 DEF GateTypes
    <3>2. decided \in Type /\ \A o \in Persons \ {p} : decided[o] = review[o]
      BY <3>1
    <3>3. review' = [decided EXCEPT ![p].verdict = v]
      BY <2>1
    <3> HIDE DEF decided
    <3> QED BY <3>1, <3>2, <3>3
  <2>3. GateTypes'
    BY <1>0, <2>1, <2>2 DEF GateTypes, Gates!GatesTypeOK, Gates!AssertRealMoneyReady
  <2>4. Reviewed'
    BY <1>0, <2>1, <2>2 DEF Reviewed, Gates!IsCleared
  <2> QED BY <1>0, <2>1, <2>3, <2>4 DEF GateInv, Counted, InWindow, Gates!RealMoneyVerified,
        Gates!OnlyTheEntitled
<1>4. ASSUME NEW h \in hooks, Gates!ApplyWebhook(h) PROVE GateInv'
  <2>1. /\ UNCHANGED <<cfg, review, hooks, hits, expires, tick, passed, seen, asks>>
        /\ h.status = review[h.ref].verdict
        /\ kyc' = [kyc EXCEPT ![h.ref] = [status |-> Gates!MapStatus(h.status),
                                          cleared |-> (h.status = "approved"), of |-> h.review]]
    BY <1>4 DEF Gates!ApplyWebhook, Gates!Pending
  <2>2. h.ref \in Persons /\ h.status \in Gates!Verdicts /\ h.review \in Nat
    BY <1>0 DEF GateTypes
  <2>3. Gates!MapStatus(h.status) \in {"none", "pending", "approved", "rejected"}
    BY <2>2 DEF Gates!MapStatus, Gates!Verdicts
  <2>4. GateTypes'
    BY <1>0, <2>1, <2>2, <2>3 DEF GateTypes, Gates!GatesTypeOK, Gates!AssertRealMoneyReady
  <2>5. Reviewed'
    BY <1>0, <2>1, <2>2 DEF Reviewed, Gates!IsCleared, GateTypes
  <2> QED BY <1>0, <2>1, <2>4, <2>5 DEF GateInv, Counted, InWindow, Gates!RealMoneyVerified,
        Gates!OnlyTheEntitled
<1>5. ASSUME NEW p \in Persons, NEW r \in Replicas, NEW up \in BOOLEAN,
             \/ \E x \in Gates!Places : Gates!Ask(p, x, Gates!Wager, r, up)
             \/ \E q \in Gates!Errands : Gates!Ask(p, Gates!Home, q, r, up)
      PROVE  GateInv'
  <2>1. Guarded(Gates!Wager.route) /\ \A q \in Gates!Errands : Guarded(q.route)
    BY RoutesGuarded DEF Guarded, Gates!Wager, Gates!Errands
  <2>2. Gates!Home \in Gates!Places
    BY DEF Gates!Home, Gates!Places, Gates!Plausible, Gates!Countries
  <2> QED BY <1>5, <2>1, <2>2, AskKeeps
<1>6. CASE UNCHANGED gatesVars
  BY <1>0, <1>6 DEF gatesVars, GateInv, GateTypes, Reviewed, Counted, InWindow, Gates!GatesTypeOK,
    Gates!AssertRealMoneyReady, Gates!IsCleared, Gates!RealMoneyVerified, Gates!OnlyTheEntitled
<1> QED BY <1>1, <1>2, <1>3, <1>4, <1>5, <1>6 DEF Gates!GatesNext

\* The instance counts as this module does.
LEMMA SameCardinality == \A S : Gates!Cardinality(S) = Cardinality(S)
  BY DEF Cardinality, Gates!Cardinality

\* What the run checks of the gates.
LEMMA GatesHold ==
  GateInv => /\ Gates!GatesTypeOK /\ Gates!RealMoneyVerified
             /\ Gates!OnlyTheEntitled /\ Gates!BurstsCapped
<1> SUFFICES ASSUME GateInv PROVE Gates!BurstsCapped
  BY DEF GateInv, GateTypes
<1> SUFFICES ASSUME NEW p \in Persons
             PROVE  Cardinality({x \in passed : x.who = p /\ x.until > tick /\ tick < expires[p]})
                      <= Limit
  BY SameCardinality DEF Gates!BurstsCapped
<1>1. CASE tick < expires[p]
  <2>1. {x \in passed : x.who = p /\ x.until > tick /\ tick < expires[p]} = InWindow(p)
    BY <1>1 DEF InWindow
  <2> QED BY <1>1, <2>1 DEF GateInv, Counted
<1>2. CASE ~(tick < expires[p])
  <2>1. {x \in passed : x.who = p /\ x.until > tick /\ tick < expires[p]} = {}
    BY <1>2
  <2> QED BY <2>1, FS_EmptySet, GateConstants
<1> QED BY <1>1, <1>2

-----------------------------------------------------------------------------
(* The composition.                                                        *)

\* The constants are those the proofs about withdrawals assume.
LEMMA WithdrawalConstants == Withdrawals!ConstantsAssumption /\ Withdrawals!MarginCoversLag
  BY CustodyAssumption DEF Withdrawals!ConstantsAssumption, Withdrawals!MarginCoversLag

\* Each service keeps its own invariant.
CustodyInv ==
  /\ service = "withdrawals" => Withdrawals!SafeInv /\ Withdrawals!BooksInv
  /\ service = "limits" => LimitInv
  /\ service = "gates" => GateInv

\* They hold at the start ...
LEMMA CustodyInvInit == CustodyInit => CustodyInv
  BY WithdrawalConstants, Withdrawals!SafeInit, Withdrawals!BooksInit, LimitInit, GateInit
  DEF CustodyInit, CustodyInv

\* ... and the service that runs keeps its own.
LEMMA CustodyInvStep == GateWindows = {} /\ CustodyInv /\ [CustodyNext]_custodyVars => CustodyInv'
<1> SUFFICES ASSUME GateWindows = {}, CustodyInv, [CustodyNext]_custodyVars PROVE CustodyInv'
  OBVIOUS
<1>1. service' = service
  BY DEF CustodyNext, custodyVars
<1>2. CASE service = "withdrawals"
  <2>1. [Withdrawals!Next]_(Withdrawals!vars)
    BY <1>2 DEF CustodyNext, custodyVars, withdrawalsVars, Withdrawals!vars
  <2>2. Withdrawals!SafeInv /\ Withdrawals!BooksInv
    BY <1>2 DEF CustodyInv
  <2>3. Withdrawals!SafeInv'
    BY <2>1, <2>2, WithdrawalConstants, Withdrawals!SafeStep
  <2>4. Withdrawals!BooksInv'
    BY <2>1, <2>2, <2>3, WithdrawalConstants, Withdrawals!BooksStep
  <2> QED BY <1>1, <1>2, <2>3, <2>4 DEF CustodyInv
<1>3. CASE service = "limits"
  <2>1. [Limits!Next]_limitsVars
    BY <1>3 DEF CustodyNext, custodyVars
  <2> QED BY <1>1, <1>3, <2>1, LimitStep DEF CustodyInv
<1>4. CASE service = "gates"
  <2>1. [Gates!GatesNext]_gatesVars
    BY <1>4 DEF CustodyNext, custodyVars
  <2> QED BY <1>1, <1>4, <2>1, GateStep DEF CustodyInv
<1> QED BY <1>1, <1>2, <1>3, <1>4 DEF CustodyInv

(* While Redis answers and the verdict of a review is applied before the   *)
(* next one is given (no gate window), the limits hold for any amounts,    *)
(* limits, requests and replicas: one withdrawal in flight and a day's     *)
(* payouts within the daily limit (withdrawal.service.ts), wagers and      *)
(* losses past a player's limits by no more than what the check could not  *)
(* see (rg.service.ts), no request past its guards, and no burst past the  *)
(* throttle (geo.guard.ts, kyc.service.ts, the throttler).                 *)
THEOREM LimitsKept == GateWindows = {} /\ CustodySpec => []LimitsHold
<1> SUFFICES ASSUME GateWindows = {} PROVE CustodySpec => []LimitsHold
  OBVIOUS
<1>1. CustodyInv => LimitsHold
  <2>1. Withdrawals!SafeInv /\ Withdrawals!BooksInv => Withdrawals!TypeOK /\ Withdrawals!LimitsHold
    BY WithdrawalConstants, Withdrawals!LimitsFollow DEF Withdrawals!SafeInv
  <2>2. LimitInv => /\ Limits!LimitsTypeOK /\ Limits!WagersWithinLimit
                    /\ Limits!LossesWithinLimit /\ Limits!BlocksLast
    BY DEF LimitInv, LimitTypes, Limits!LimitsTypeOK
  <2> QED BY <2>1, <2>2, GatesHold DEF CustodyInv, LimitsHold
<1> QED BY <1>1, CustodyInvInit, CustodyInvStep, PTL DEF CustodySpec
=============================================================================
