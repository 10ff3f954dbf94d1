------------------------ MODULE CustodyWithdrawalProofs ------------------------
(***************************************************************************)
(* Proofs about CustodyWithdrawal, for any number of users, rows and       *)
(* drivers, any amounts, attempt limits and blockhash life, and any margin *)
(* that covers the lag of the RPC nodes.                                   *)
(***************************************************************************)
EXTENDS CustodyWithdrawal, Sums

\* A driver at rest is a driver.
LEMMA IdleType == Idle \in Driver
  BY ConstantsAssumption DEF Idle, Driver, PCs, Statuses, NoSig

\* What a row debited is a natural.
LEMMA AmountNat == \A r \in Row : r.amount \in Nat
<1>1. \A a \in Amounts \cup {0} : a \in Nat
  BY ConstantsAssumption
<1> QED BY <1>1 DEF Row

\* The types hold at the start ...
LEMMA TypeInit == Init => TypeOK
<1> SUFFICES ASSUME Init PROVE TypeOK
  OBVIOUS
<1>1. NoRow \in Row
  BY DEF NoRow, Row, Statuses, NoSig
<1>2. row \in [Rows -> Row]
  BY <1>1 DEF Init
<1>3. driver \in [Drivers -> Driver]
  BY IdleType DEF Init
<1>4. balance \in [Users -> Nat]
  BY ConstantsAssumption DEF Init
<1>5. paused \in BOOLEAN /\ net \subseteq Rows \X Nat /\ landed \subseteq Landing
  BY DEF Init
<1>6. day \in Nat /\ height \in Nat /\ hot \in Nat /\ maxAttempts \in AttemptLimits
  BY ConstantsAssumption DEF Init
<1> QED
  BY <1>2, <1>3, <1>4, <1>5, <1>6 DEF TypeOK

\* ... and every action keeps them.
LEMMA TypeStep == TypeOK /\ [Next]_vars => TypeOK'
<1> SUFFICES ASSUME TypeOK, [Next]_vars PROVE TypeOK'
  OBVIOUS
<1> USE ConstantsAssumption
<1>1. ASSUME NEW w \in Rows, NEW a \in Amounts, Request(w, a) PROVE TypeOK'
  BY <1>1 DEF TypeOK, Request, Debit, Row, Statuses, NoSig, envVars, chainVars
<1>2. ASSUME NEW d \in Drivers, NEW w \in Rows, Step(d, w) PROVE TypeOK'
  BY <1>2 DEF TypeOK, Step, Row, Driver, PCs, Statuses, NoSig, envVars, chainVars
<1>3. ASSUME NEW d \in Drivers, DriverNext(d) PROVE TypeOK'
  <2>0. ASSUME NEW pc \in PCs, Goto(d, pc) PROVE driver' \in [Drivers -> Driver]
    BY <2>0, IdleType DEF Goto, TypeOK, Driver
  <2>1. CASE SendGuard(d)
    <3>1. driver' \in [Drivers -> Driver]
      BY <2>0, <2>1 DEF SendGuard, PCs
    <3> QED BY <2>1, <3>1 DEF SendGuard, TypeOK, envVars, chainVars
  <2>2. CASE SendBalance(d)
    <3>1. driver' \in [Drivers -> Driver]
      BY <2>0, <2>2 DEF SendBalance, PCs
    <3> QED BY <2>2, <3>1 DEF SendBalance, TypeOK, envVars, chainVars
  <2>3. CASE Sign(d)
    <3>1. PICK b \in Nat : driver' = [driver EXCEPT ![d] = [@ EXCEPT !.pc = "claim", !.new = b + Life]]
      BY <2>3 DEF Sign
    <3>2. driver' \in [Drivers -> Driver]
      <4>1. b + Life \in Nat
        OBVIOUS
      <4>2. [driver[d] EXCEPT !.pc = "claim", !.new = b + Life] \in Driver
        BY <4>1 DEF TypeOK, Driver, PCs
      <4> QED BY <3>1, <4>2 DEF TypeOK
    <3> QED BY <2>3, <3>2 DEF Sign, TypeOK, envVars, chainVars
  <2>4. CASE Claim(d)
    <3>1. driver' \in [Drivers -> Driver]
      BY <2>0, <2>4 DEF Claim, PCs
    <3>2. row' \in [Rows -> Row]
      <4>1. driver[d].w \in Rows /\ driver[d].new \in Nat /\ driver[d].attempts + 1 \in Nat
        BY DEF TypeOK, Driver
      <4>2. [row[driver[d].w] EXCEPT !.status = "sent", !.sig = driver[d].new,
                                     !.attempts = driver[d].attempts + 1] \in Row
        BY <4>1, ZenonT(30) DEF TypeOK, Row, Statuses
      <4> QED BY <2>4, <4>1, <4>2 DEF Claim, TypeOK
    <3> QED BY <2>4, <3>1, <3>2 DEF Claim, TypeOK, envVars, chainVars
  <2>5. CASE Broadcast(d)
    <3>1. driver' \in [Drivers -> Driver]
      BY <2>0, <2>5 DEF Broadcast, PCs
    <3>2. net' \subseteq Rows \X Nat
      BY <2>5 DEF Broadcast, TypeOK, Driver
    <3> QED BY <2>5, <3>1, <3>2 DEF Broadcast, TypeOK, envVars
  <2>6. CASE CheckHeight(d)
    <3>1. PICK f \in Int : driver' = [driver EXCEPT ![d] = [@ EXCEPT !.pc = "status", !.fin = f]]
      <4>1. height \in Int /\ MaxLag \in Int
        BY DEF TypeOK
      <4>2. \A f \in (height - MaxLag) .. height : f \in Int
        BY <4>1
      <4> QED BY <2>6, <4>2 DEF CheckHeight
    <3>2. driver' \in [Drivers -> Driver]
      BY <3>1, ZenonT(30) DEF TypeOK, Driver, PCs
    <3> QED BY <2>6, <3>2 DEF CheckHeight, TypeOK, envVars, chainVars
  <2>7. CASE CheckStatus(d)
    <3>1. \E pc \in {"idle", "confirm", "refund", "requeue"} : Goto(d, pc)
      BY <2>7 DEF CheckStatus, UnseenPC, SeenPC, DeadPC, Found, TypeOK, Landing
    <3>2. driver' \in [Drivers -> Driver]
      BY <2>0, <3>1 DEF PCs
    <3> QED BY <2>7, <3>2 DEF CheckStatus, TypeOK, envVars, chainVars
  <2>8. CASE Confirm(d)
    <3>1. driver' \in [Drivers -> Driver]
      BY <2>0, <2>8 DEF Confirm, PCs
    <3>2. row' \in [Rows -> Row]
      <4>1. driver[d].w \in Rows
        BY DEF TypeOK, Driver
      <4>2. [row[driver[d].w] EXCEPT !.status = "confirmed"] \in Row
        BY <4>1 DEF TypeOK, Row, Statuses
      <4> QED BY <2>8, <4>1, <4>2 DEF Confirm, TypeOK
    <3> QED BY <2>8, <3>1, <3>2 DEF Confirm, TypeOK, envVars, chainVars
  <2>9. CASE Requeue(d)
    <3>1. driver' \in [Drivers -> Driver]
      BY <2>0, <2>9 DEF Requeue, PCs
    <3>2. row' \in [Rows -> Row]
      <4>1. driver[d].w \in Rows
        BY DEF TypeOK, Driver
      <4>2. [row[driver[d].w] EXCEPT !.status = "pending", !.sig = NoSig] \in Row
        BY <4>1, ZenonT(30) DEF TypeOK, Row, Statuses, NoSig
      <4> QED BY <2>9, <4>1, <4>2 DEF Requeue, TypeOK
    <3> QED BY <2>9, <3>1, <3>2 DEF Requeue, TypeOK, envVars, chainVars
  <2>10. CASE Refund(d)
    <3>1. driver' \in [Drivers -> Driver]
      BY <2>0, <2>10 DEF Refund, PCs
    <3>2. row' \in [Rows -> Row]
      <4>1. driver[d].w \in Rows
        BY DEF TypeOK, Driver
      <4>2. [row[driver[d].w] EXCEPT !.status = "failed"] \in Row
        BY <4>1 DEF TypeOK, Row, Statuses
      <4> QED BY <2>10, <4>1, <4>2 DEF Refund, TypeOK
    <3>3. balance' \in [Users -> Nat]
      BY <2>10 DEF Refund, TypeOK, Row, Driver
    <3> QED BY <2>10, <3>1, <3>2, <3>3 DEF Refund, TypeOK, envVars, chainVars
  <2> QED
    BY <1>3, <2>1, <2>2, <2>3, <2>4, <2>5, <2>6, <2>7, <2>8, <2>9, <2>10 DEF DriverNext
<1>4. ASSUME NEW d \in Drivers, Crash(d) PROVE TypeOK'
  BY <1>4, IdleType DEF TypeOK, Crash, Goto, envVars, chainVars
<1>5. ASSUME NEW s \in net, NEW ok \in BOOLEAN, Land(s[1], s[2], ok) PROVE TypeOK'
  <2>1. s[1] \in Rows /\ s[2] \in Nat
    BY DEF TypeOK
  <2>2. row[s[1]].amount \in Nat
    BY <2>1, AmountNat DEF TypeOK
  <2>3. [row |-> s[1], sig |-> s[2], block |-> height + 1, ok |-> ok] \in Landing
    BY <2>1 DEF TypeOK, Landing
  <2>4. hot' \in Nat
    BY <1>5, <2>2 DEF Land, TypeOK
  <2> QED BY <1>5, <2>3, <2>4 DEF Land, TypeOK, envVars
<1>6. ASSUME NEW t \in landed, ForkDrops(t) PROVE TypeOK'
  <2>1. row[t.row].amount \in Nat
    BY AmountNat DEF TypeOK, Landing
  <2> QED BY <1>6, <2>1 DEF ForkDrops, TypeOK, envVars
<1>7. CASE AdvanceHeight
  BY <1>7 DEF TypeOK, AdvanceHeight, envVars
<1>8. CASE SetPaused
  BY <1>8 DEF TypeOK, SetPaused, chainVars
<1>9. CASE TopUp
  BY <1>9 DEF TypeOK, TopUp, envVars
<1>10. CASE Reconfigure
  BY <1>10 DEF TypeOK, Reconfigure, chainVars
<1>11. CASE NewDay
  BY <1>11 DEF TypeOK, NewDay, chainVars
<1>12. CASE UNCHANGED vars
  BY <1>12 DEF TypeOK, vars
<1> QED
  BY <1>1, <1>2, <1>3, <1>4, <1>5, <1>6, <1>7, <1>8, <1>9, <1>10, <1>11, <1>12
  DEF Next, UpNext

\* Every variable of the withdrawal machine keeps its type.
THEOREM TypeCorrect == Spec => []TypeOK
  BY TypeInit, TypeStep, PTL DEF Spec

-----------------------------------------------------------------------------
(***************************************************************************)
(* What the chain may do to a verdict.  Dead and PaidForGood are the two   *)
(* facts a driver carries across an await; no step takes either back.      *)
(***************************************************************************)
\* Only three actions touch the ledger; every other step leaves it alone.
LEMMA LedgerSteps ==
  ASSUME [Next]_vars
  PROVE  \/ \E s \in net, ok \in BOOLEAN : Land(s[1], s[2], ok)
         \/ \E t \in landed : ForkDrops(t)
         \/ AdvanceHeight
         \/ UNCHANGED <<height, landed>>
  BY DEF Next, UpNext, Request, Debit, Step, DriverNext, SendGuard, SendBalance, Sign, Claim,
         Broadcast, CheckHeight, CheckStatus, Confirm, Requeue, Refund, Crash, SetPaused,
         TopUp, Reconfigure, NewDay, vars, chainVars

\* The network forgets no signature.
LEMMA NetGrows == [Next]_vars => net \subseteq net'
  BY DEF Next, UpNext, Request, Debit, Step, DriverNext, SendGuard, SendBalance, Sign, Claim,
         Broadcast, CheckHeight, CheckStatus, Confirm, Requeue, Refund, Crash, SetPaused,
         TopUp, Reconfigure, NewDay, Land, ForkDrops, AdvanceHeight, vars, chainVars

\* Landings stay in the network, in time and one per signature.
LEMMA LandingsStep ==
  ASSUME TypeOK, LandingsWellFormed, [Next]_vars
  PROVE  LandingsWellFormed'
<1>0. height \in Nat /\ \A t \in landed : t.block \in Nat /\ t.sig \in Nat
  BY DEF TypeOK, Landing
<1>n. net \subseteq net'
  BY NetGrows
<1>1. CASE \E s \in net, ok \in BOOLEAN : Land(s[1], s[2], ok)
  <2>1. PICK s \in net, ok \in BOOLEAN : Land(s[1], s[2], ok)
    BY <1>1
  <2>2. PICK v : /\ v = [row |-> s[1], sig |-> s[2], block |-> height + 1, ok |-> ok]
                 /\ landed' = landed \cup {v}
    BY <2>1 DEF Land
  <2>3. /\ v.row = s[1] /\ v.sig = s[2] /\ v.block = height + 1
        /\ <<s[1], s[2]>> \in net /\ height + 1 <= s[2] /\ height' = height
        /\ ~ \E t \in landed : t.row = s[1] /\ t.sig = s[2]
    BY <2>1, <2>2 DEF Land
  <2> QED BY <1>0, <1>n, <2>2, <2>3 DEF LandingsWellFormed
<1>2. CASE \E t \in landed : ForkDrops(t)
  <2>1. landed' \subseteq landed /\ height' = height
    BY <1>2 DEF ForkDrops
  <2> QED BY <1>n, <2>1 DEF LandingsWellFormed
<1>3. CASE AdvanceHeight
  BY <1>0, <1>n, <1>3 DEF AdvanceHeight, LandingsWellFormed
<1>4. CASE UNCHANGED <<height, landed>>
  BY <1>n, <1>4 DEF LandingsWellFormed
<1> QED BY <1>1, <1>2, <1>3, <1>4, LedgerSteps

\* A dead signature stays dead: an expired one cannot land, a final failure
\* cannot be dropped by a fork.
LEMMA DeadStays ==
  ASSUME TypeOK, LandingsWellFormed, [Next]_vars,
         NEW w \in Rows, NEW s \in Nat, Dead(w, s)
  PROVE  Dead(w, s)'
<1>0. height \in Nat /\ \A t \in landed : t.block \in Nat /\ t.sig \in Nat
  BY DEF TypeOK, Landing
<1>1. CASE \E x \in net, ok \in BOOLEAN : Land(x[1], x[2], ok)
  <2>1. PICK x \in net, ok \in BOOLEAN : Land(x[1], x[2], ok)
    BY <1>1
  <2>2. PICK v : /\ v = [row |-> x[1], sig |-> x[2], block |-> height + 1, ok |-> ok]
                 /\ landed' = landed \cup {v}
    BY <2>1 DEF Land
  <2>3. /\ v.row = x[1] /\ v.sig = x[2]
        /\ height + 1 <= x[2] /\ height' = height
        /\ ~ \E t \in landed : t.row = x[1] /\ t.sig = x[2]
    BY <2>1, <2>2 DEF Land
  <2>4. ~ (x[1] = w /\ x[2] = s)
    BY <1>0, <2>3 DEF Dead
  <2> QED BY <2>2, <2>3, <2>4 DEF Dead
<1>2. CASE \E t \in landed : ForkDrops(t)
  <2>1. PICK v \in landed : ForkDrops(v)
    BY <1>2
  <2>2. v.block = height + 1 /\ landed' = landed \ {v} /\ height' = height
    BY <2>1 DEF ForkDrops
  <2>3. \A t \in landed : t.block <= height => t \in landed'
    BY <1>0, <2>2
  <2> QED BY <2>2, <2>3 DEF Dead
<1>3. CASE AdvanceHeight
  <2>1. height' = height + 1 /\ landed' = landed
    BY <1>3 DEF AdvanceHeight
  <2> QED BY <1>0, <2>1 DEF Dead
<1>4. CASE UNCHANGED <<height, landed>>
  BY <1>4 DEF Dead
<1> QED BY <1>1, <1>2, <1>3, <1>4, LedgerSteps

\* A payment in a final block stays.
LEMMA PaidStays ==
  ASSUME TypeOK, [Next]_vars, NEW w \in Rows, NEW s \in Nat, PaidForGood(w, s)
  PROVE  PaidForGood(w, s)'
<1>0. height \in Nat /\ \A t \in landed : t.block \in Nat
  BY DEF TypeOK, Landing
<1>1. PICK t \in landed : t.row = w /\ t.sig = s /\ t.ok /\ t.block <= height
  BY DEF PaidForGood
<1>2. t \in landed' /\ height' \in Nat /\ height <= height'
  <2>1. CASE \E x \in net, ok \in BOOLEAN : Land(x[1], x[2], ok)
    BY <1>0, <1>1, <2>1 DEF Land
  <2>2. CASE \E v \in landed : ForkDrops(v)
    <3>1. PICK v \in landed : v.block = height + 1 /\ landed' = landed \ {v} /\ height' = height
      BY <2>2 DEF ForkDrops
    <3> QED BY <1>0, <1>1, <3>1
  <2>3. CASE AdvanceHeight
    BY <1>0, <1>1, <2>3 DEF AdvanceHeight
  <2>4. CASE UNCHANGED <<height, landed>>
    BY <1>0, <1>1, <2>4
  <2> QED BY <2>1, <2>2, <2>3, <2>4, LedgerSteps
<1>3. t.block <= height'
  BY <1>0, <1>1, <1>2
<1> QED BY <1>1, <1>2, <1>3 DEF PaidForGood

-----------------------------------------------------------------------------
\* The fields a driver and a row carry, and what Goto leaves in them.
LEMMA Fields ==
  ASSUME TypeOK
  PROVE  /\ \A d \in Drivers : /\ driver[d].w \in Rows /\ driver[d].sig \in Nat
                               /\ driver[d].new \in Nat /\ driver[d].fin \in Int
         /\ \A w \in Rows : row[w].sig \in Nat /\ row[w].status \in Statuses
  BY DEF TypeOK, Driver, Row

\* A driver that goes on keeps what it holds.
LEMMA GotoFields ==
  ASSUME TypeOK, NEW d \in Drivers, NEW pc \in PCs, Goto(d, pc)
  PROVE  /\ \A e \in Drivers \ {d} : driver'[e] = driver[e]
         /\ driver'[d].pc = pc
         /\ pc # "idle" => /\ driver'[d].w = driver[d].w /\ driver'[d].new = driver[d].new
                           /\ driver'[d].status = driver[d].status
                           /\ driver'[d].sig = driver[d].sig /\ driver'[d].fin = driver[d].fin
<1>1. CASE pc = "idle"
  BY <1>1 DEF Goto, TypeOK, Idle
<1>2. CASE pc # "idle"
  BY <1>2 DEF Goto, TypeOK, Driver
<1> QED BY <1>1, <1>2

\* What one driver may rely on: the part of DriversKnow about d.
Knows(d) ==
  LET l == driver[d] IN
  /\ l.pc \in {"send", "balance", "sign", "claim"} => l.status = "pending" /\ l.sig = NoSig
  /\ l.pc \in {"check", "status"} => l.status = "sent"
  /\ l.pc = "status" => l.fin <= height
  /\ l.pc = "confirm" => PaidForGood(l.w, l.sig)
  /\ l.pc = "requeue" => Dead(l.w, l.sig)
  /\ l.pc = "refund" => \/ l.status = "pending" /\ l.sig = NoSig
                        \/ l.status = "sent" /\ Dead(l.w, l.sig)

\* DriversKnow, driver by driver.
LEMMA KnowsAll == DriversKnow <=> \A d \in Drivers : Knows(d)
  BY DEF DriversKnow, Knows

\* The chain only grows.
LEMMA HeightGrows ==
  ASSUME TypeOK, [Next]_vars PROVE height' \in Nat /\ height <= height'
<1>0. height \in Nat
  BY DEF TypeOK
<1>1. height' = height \/ height' = height + 1
  BY LedgerSteps DEF Land, ForkDrops, AdvanceHeight
<1> QED BY <1>0, <1>1

\* A driver that does not move keeps what it knows, whatever the others do.
LEMMA KnowsStays ==
  ASSUME TypeOK, LandingsWellFormed, [Next]_vars,
         NEW d \in Drivers, Knows(d), driver'[d] = driver[d]
  PROVE  Knows(d)'
<1>1. driver[d].w \in Rows /\ driver[d].sig \in Nat /\ driver[d].fin \in Int
  BY Fields
<1>2. Dead(driver[d].w, driver[d].sig) => Dead(driver[d].w, driver[d].sig)'
  <2>1. \A w \in Rows, s \in Nat : Dead(w, s) => Dead(w, s)'
    BY DeadStays
  <2> QED BY <1>1, <2>1 DEF Dead
<1>3. PaidForGood(driver[d].w, driver[d].sig) => PaidForGood(driver[d].w, driver[d].sig)'
  <2>1. \A w \in Rows, s \in Nat : PaidForGood(w, s) => PaidForGood(w, s)'
    BY PaidStays
  <2> QED BY <1>1, <2>1 DEF PaidForGood
<1>4. driver[d].fin <= height => driver[d].fin <= height'
  BY <1>1, HeightGrows DEF TypeOK
<1> QED BY <1>2, <1>3, <1>4 DEF Knows

\* The one place where a verdict is made: check() concludes "paid" or "dead" and
\* both are true when it does, because the margin covers the node's lag.
LEMMA VerdictIsTrue ==
  ASSUME TypeOK, LandingsWellFormed, NEW d \in Drivers, Knows(d), CheckStatus(d)
  PROVE  /\ driver'[d].pc = "confirm" => PaidForGood(driver[d].w, driver[d].sig)
         /\ driver'[d].pc \in {"requeue", "refund"} => Dead(driver[d].w, driver[d].sig)
         /\ driver'[d].pc \in {"idle", "confirm", "requeue", "refund"}
<1> DEFINE l == driver[d]
<1>0. /\ l.pc = "status" /\ l.fin \in Int /\ l.sig \in Nat /\ l.w \in Rows
      /\ height \in Nat /\ l.fin <= height /\ MaxLag \in Nat /\ Margin \in Nat
      /\ \A t \in landed : t.block \in Nat /\ t.sig \in Nat /\ t.ok \in BOOLEAN
  BY Fields, ConstantsAssumption DEF CheckStatus, Knows, TypeOK, Landing
<1>1. \A pc \in PCs : Goto(d, pc) => driver'[d].pc = pc
  BY GotoFields
<1>2. PICK view \in (height - MaxLag) .. height :
        \/ /\ Found(l.w, l.sig, view) = {}
           /\ Goto(d, UnseenPC(l))
        \/ \E t \in Found(l.w, l.sig, view) :
             Goto(d, SeenPC(l, t, view))
  BY DEF CheckStatus
<1>3. view \in Int /\ height - MaxLag <= view /\ view <= height
  BY <1>0, <1>2
<1>4. DeadPC(l.attempts) \in {"requeue", "refund"}
  BY DEF DeadPC
<1>5. CASE /\ Found(l.w, l.sig, view) = {}
           /\ Goto(d, UnseenPC(l))
  <2>1. CASE l.fin <= l.sig + Margin
    BY <1>1, <1>5, <2>1 DEF PCs, UnseenPC
  <2>2. CASE ~(l.fin <= l.sig + Margin)
    <3>1. l.sig < view /\ l.sig <= height
      BY <1>0, <1>3, <2>2, MarginCoversLag
    <3>2. \A t \in landed : ~(t.row = l.w /\ t.sig = l.sig)
      <4> SUFFICES ASSUME NEW t \in landed, t.row = l.w, t.sig = l.sig PROVE FALSE
        OBVIOUS
      <4>1. t.block <= t.sig
        BY DEF LandingsWellFormed
      <4>2. t.block <= view + 1
        BY <1>0, <1>3, <3>1, <4>1
      <4> QED BY <1>5, <4>2 DEF Found
    <3>3. Dead(l.w, l.sig)
      BY <1>0, <3>1, <3>2 DEF Dead
    <3>4. driver'[d].pc \in {"requeue", "refund"}
      BY <1>1, <1>4, <1>5, <2>2 DEF PCs, UnseenPC
    <3> QED BY <3>3, <3>4
  <2> QED BY <2>1, <2>2
<1>6. CASE \E t \in Found(l.w, l.sig, view) :
             Goto(d, SeenPC(l, t, view))
  <2>1. PICK t \in landed :
          /\ t.row = l.w /\ t.sig = l.sig
          /\ Goto(d, SeenPC(l, t, view))
    BY <1>6 DEF Found
  <2>2. CASE t.block > view
    <3>1. Goto(d, "idle")
      BY <1>0, <1>3, <2>1, <2>2 DEF SeenPC
    <3> QED BY <1>1, <3>1 DEF PCs
  <2>3. CASE t.block <= view /\ t.ok
    <3>1. Goto(d, "confirm")
      BY <1>0, <1>3, <2>1, <2>3 DEF SeenPC
    <3>2. t.block <= height
      BY <1>0, <1>3, <2>3
    <3> QED BY <1>1, <2>1, <2>3, <3>1, <3>2 DEF PCs, PaidForGood
  <2>4. CASE t.block <= view /\ ~t.ok
    <3>1. Goto(d, DeadPC(l.attempts))
      BY <1>0, <1>3, <2>1, <2>4 DEF SeenPC
    <3>2. t.block <= height
      BY <1>0, <1>3, <2>4
    <3>3. Dead(l.w, l.sig)
      BY <2>1, <2>4, <3>2 DEF Dead, LandingsWellFormed
    <3> QED BY <1>1, <1>4, <3>1, <3>3 DEF PCs
  <2>5. t.block > view \/ (t.block <= view /\ t.ok) \/ (t.block <= view /\ ~t.ok)
    BY <1>0, <1>3
  <2> QED BY <2>2, <2>3, <2>4, <2>5
<1> QED BY <1>2, <1>5, <1>6

\* Every driver still knows what it relies on, the one that moved too.
LEMMA DriversStep ==
  ASSUME TypeOK, LandingsWellFormed, RowsWellFormed, DriversKnow, [Next]_vars
  PROVE  DriversKnow'
<1>0. \A d \in Drivers : Knows(d)
  BY KnowsAll
<1>1. SUFFICES ASSUME NEW d \in Drivers, driver'[d] # driver[d] PROVE Knows(d)'
  <2>1. \A d \in Drivers : Knows(d)'
    BY <1>0, <1>1, KnowsStays
  <2> QED BY <2>1 DEF DriversKnow, Knows
<1>2. \A e \in Drivers, pc \in PCs : Goto(e, pc) /\ e # d => driver'[d] = driver[d]
  BY GotoFields
<1>3. ASSUME NEW pc \in PCs, Goto(d, pc), UNCHANGED <<height, landed>>,
             pc \in {"balance", "sign", "broadcast", "idle"},
             pc \in {"balance", "sign"} => driver[d].pc \in {"send", "balance"}
      PROVE  Knows(d)'
  BY <1>0, <1>3, GotoFields DEF Knows
<1>4. ASSUME NEW w \in Rows, Step(d, w) PROVE Knows(d)'
  <2>1. /\ driver'[d].pc \in {"send", "check"}
        /\ driver'[d].status = row[w].status /\ driver'[d].sig = row[w].sig
        /\ driver'[d].pc = "send" <=> row[w].status = "pending"
        /\ row[w].status \in {"pending", "sent"}
    BY <1>4 DEF Step, TypeOK
  <2>2. row[w].status = "pending" => row[w].sig = NoSig
    BY DEF RowsWellFormed
  <2> QED BY <2>1, <2>2 DEF Knows
<1>5. CASE SendGuard(d)
  <2>1. driver[d].pc = "send" /\ UNCHANGED <<height, landed>>
    BY <1>5 DEF SendGuard, chainVars
  <2>2. Goto(d, "refund") \/ Goto(d, "idle") \/ Goto(d, "balance")
    BY <1>5 DEF SendGuard
  <2>3. CASE Goto(d, "refund")
    BY <1>0, <2>1, <2>3, GotoFields DEF Knows, PCs
  <2> QED BY <1>3, <2>1, <2>2, <2>3 DEF PCs
<1>6. CASE SendBalance(d)
  BY <1>3, <1>6 DEF SendBalance, chainVars, PCs
<1>7. CASE Sign(d)
  <2>1. PICK b \in Nat : driver' = [driver EXCEPT ![d] = [@ EXCEPT !.pc = "claim", !.new = b + Life]]
    BY <1>7 DEF Sign
  <2>2. /\ driver'[d].pc = "claim" /\ driver'[d].status = driver[d].status
        /\ driver'[d].sig = driver[d].sig
    BY <2>1 DEF TypeOK, Driver
  <2> QED BY <1>0, <1>7, <2>2 DEF Knows, Sign
<1>8. CASE Claim(d)
  BY <1>3, <1>8 DEF Claim, chainVars, PCs
<1>9. CASE Broadcast(d)
  BY <1>3, <1>9 DEF Broadcast, PCs
<1>10. CASE CheckHeight(d)
  <2>1. PICK f \in (height - MaxLag) .. height :
          driver' = [driver EXCEPT ![d] = [@ EXCEPT !.pc = "status", !.fin = f]]
    BY <1>10 DEF CheckHeight
  <2>2. f <= height
    BY <2>1, ConstantsAssumption DEF TypeOK
  <2>3. /\ driver'[d].pc = "status" /\ driver'[d].status = driver[d].status
        /\ driver'[d].fin = f
    BY <2>1 DEF TypeOK, Driver
  <2>4. driver[d].status = "sent" /\ height' = height
    BY <1>0, <1>10 DEF Knows, CheckHeight, chainVars
  <2> QED BY <2>2, <2>3, <2>4 DEF Knows
<1>11. CASE CheckStatus(d)
  <2>1. /\ driver[d].status = "sent" /\ UNCHANGED <<height, landed>>
    BY <1>0, <1>11 DEF CheckStatus, Knows, chainVars
  <2>2. PICK pc \in {"idle", "confirm", "requeue", "refund"} : Goto(d, pc)
    BY <1>11 DEF CheckStatus, UnseenPC, SeenPC, DeadPC, Found, TypeOK, Landing
  <2>3. /\ driver'[d].pc = pc
        /\ pc # "idle" => /\ driver'[d].w = driver[d].w /\ driver'[d].sig = driver[d].sig
                          /\ driver'[d].status = driver[d].status
    BY <2>2, GotoFields DEF PCs
  <2>4. /\ pc = "confirm" => PaidForGood(driver[d].w, driver[d].sig)
        /\ pc \in {"requeue", "refund"} => Dead(driver[d].w, driver[d].sig)
    BY <1>0, <1>11, <2>3, VerdictIsTrue
  <2> QED BY <2>1, <2>3, <2>4 DEF Knows, PaidForGood, Dead
<1>12. CASE Confirm(d)
  BY <1>3, <1>12 DEF Confirm, chainVars, PCs
<1>13. CASE Requeue(d)
  BY <1>3, <1>13 DEF Requeue, chainVars, PCs
<1>14. CASE Refund(d)
  BY <1>3, <1>14 DEF Refund, chainVars, PCs
<1>15. CASE Crash(d)
  BY <1>3, <1>15 DEF Crash, chainVars, PCs
<1>16. (\E w \in Rows : Step(d, w)) \/ DriverNext(d) \/ Crash(d)
  <2>1. ASSUME NEW e \in Drivers, DriverNext(e) PROVE e = d
    <3>1. ASSUME e # d PROVE driver'[d] = driver[d]
      <4>1. CASE \E pc \in PCs : Goto(e, pc)
        BY <1>2, <3>1, <4>1
      <4>2. CASE Sign(e) \/ CheckHeight(e)
        BY <3>1, <4>2 DEF Sign, CheckHeight, TypeOK
      <4>3. CASE CheckStatus(e)
        <5>1. \E pc \in {"idle", "confirm", "requeue", "refund"} : Goto(e, pc)
          BY <4>3 DEF CheckStatus, UnseenPC, SeenPC, DeadPC, Found, TypeOK, Landing
        <5> QED BY <4>1, <5>1 DEF PCs
      <4> QED
        BY <2>1, <4>1, <4>2, <4>3 DEF DriverNext, SendGuard, SendBalance, Claim, Broadcast,
             Confirm, Requeue, Refund, PCs
    <3> QED BY <1>1, <3>1
  <2>2. ASSUME NEW e \in Drivers, Crash(e) PROVE e = d
    BY <1>1, <1>2, <2>2 DEF Crash, PCs
  <2>3. ASSUME NEW e \in Drivers, NEW w \in Rows, Step(e, w) PROVE e = d
    BY <1>1, <2>3 DEF Step, TypeOK
  <2>4. driver' # driver
    BY <1>1
  <2> QED
    BY <2>1, <2>2, <2>3, <2>4 DEF Next, UpNext, Request, Debit, Land, ForkDrops, AdvanceHeight,
      SetPaused, TopUp, Reconfigure, NewDay, vars
<1> QED
  BY <1>4, <1>5, <1>6, <1>7, <1>8, <1>9, <1>10, <1>11, <1>12, <1>13, <1>14, <1>15, <1>16
  DEF DriverNext

-----------------------------------------------------------------------------
\* The steps that write the table; every other step leaves it alone.
LEMMA RowSteps ==
  ASSUME [Next]_vars
  PROVE  \/ \E w \in Rows, a \in Amounts : Request(w, a)
         \/ \E d \in Drivers : Claim(d) \/ Confirm(d) \/ Requeue(d) \/ Refund(d)
         \/ row' = row
  BY DEF Next, UpNext, Step, DriverNext, SendGuard, SendBalance, Sign,
         Broadcast, CheckHeight, CheckStatus, Crash, SetPaused,
         TopUp, Reconfigure, NewDay, Land, ForkDrops, AdvanceHeight, vars

\* A row that changed went along one of the five arrows, with what justifies it.
LEMMA RowChange ==
  ASSUME TypeOK, DriversKnow, [Next]_vars, NEW w \in Rows, row'[w] # row[w]
  PROVE  \/ /\ row[w].status = "none" /\ row'[w].status = "pending" /\ row'[w].sig = NoSig
         \/ /\ row[w].status = "pending" /\ row'[w].status = "sent"
            /\ \E d \in Drivers : /\ driver[d].pc = "claim" /\ driver[d].w = w
                                  /\ row'[w].sig = driver[d].new
                                  /\ driver'[d].pc = "broadcast" /\ driver'[d].w = w
                                  /\ driver'[d].new = driver[d].new
                                  /\ \A e \in Drivers \ {d} : driver'[e] = driver[e]
                                  /\ net' = net
         \/ /\ row[w].status = "sent" /\ row'[w].status = "confirmed"
            /\ row'[w].sig = row[w].sig /\ PaidForGood(w, row[w].sig)
         \/ /\ row[w].status = "sent" /\ row'[w].status = "pending"
            /\ row'[w].sig = NoSig /\ Dead(w, row[w].sig)
         \/ /\ row[w].status = "pending" /\ row'[w].status = "failed"
            /\ row'[w].sig = row[w].sig
         \/ /\ row[w].status = "sent" /\ row'[w].status = "failed"
            /\ row'[w].sig = row[w].sig /\ Dead(w, row[w].sig)
<1>0. \A d \in Drivers : Knows(d)
  BY KnowsAll
<1>1. ASSUME NEW v \in Rows, NEW a \in Amounts, Request(v, a)
      PROVE  row[w].status = "none" /\ row'[w].status = "pending" /\ row'[w].sig = NoSig
  BY <1>1 DEF Request, Debit, TypeOK
<1>2. ASSUME NEW d \in Drivers, Claim(d)
      PROVE  /\ row[w].status = "pending" /\ row'[w].status = "sent"
             /\ driver[d].pc = "claim" /\ driver[d].w = w
             /\ row'[w].sig = driver[d].new
             /\ driver'[d].pc = "broadcast" /\ driver'[d].w = w
             /\ driver'[d].new = driver[d].new
             /\ \A e \in Drivers \ {d} : driver'[e] = driver[e]
             /\ net' = net
  <2>1. /\ driver[d].pc = "claim"
        /\ row[driver[d].w].status = "pending"
        /\ row' = [row EXCEPT ![driver[d].w] =
                     [@ EXCEPT !.status = "sent", !.sig = driver[d].new,
                               !.attempts = driver[d].attempts + 1]]
        /\ Goto(d, "broadcast") /\ net' = net
    BY <1>2 DEF Claim, StillPending, chainVars
  <2>2. driver[d].w = w
    BY <2>1 DEF TypeOK
  <2>3. row'[w].status = "sent" /\ row'[w].sig = driver[d].new
    BY <2>1, <2>2 DEF TypeOK, Row
  <2>4. "broadcast" \in PCs
    BY DEF PCs
  <2> QED BY <2>1, <2>2, <2>3, <2>4, GotoFields
<1>3. ASSUME NEW d \in Drivers, Confirm(d)
      PROVE  /\ row[w].status = "sent" /\ row'[w].status = "confirmed"
             /\ row'[w].sig = row[w].sig /\ PaidForGood(w, row[w].sig)
  <2>1. /\ driver[d].pc = "confirm" /\ StillSent(driver[d])
        /\ row' = [row EXCEPT ![driver[d].w].status = "confirmed"]
    BY <1>3 DEF Confirm
  <2>2. driver[d].w = w
    BY <2>1 DEF TypeOK
  <2>3. row'[w].status = "confirmed" /\ row'[w].sig = row[w].sig
    BY <2>1, <2>2 DEF TypeOK, Row
  <2> QED BY <1>0, <2>1, <2>2, <2>3 DEF StillSent, Knows
<1>4. ASSUME NEW d \in Drivers, Requeue(d)
      PROVE  /\ row[w].status = "sent" /\ row'[w].status = "pending"
             /\ row'[w].sig = NoSig /\ Dead(w, row[w].sig)
  <2>1. /\ driver[d].pc = "requeue" /\ StillSent(driver[d])
        /\ row' = [row EXCEPT ![driver[d].w] = [@ EXCEPT !.status = "pending", !.sig = NoSig]]
    BY <1>4 DEF Requeue
  <2>2. driver[d].w = w
    BY <2>1 DEF TypeOK
  <2>3. row'[w].status = "pending" /\ row'[w].sig = NoSig
    BY <2>1, <2>2 DEF TypeOK, Row
  <2> QED BY <1>0, <2>1, <2>2, <2>3 DEF StillSent, Knows
<1>5. ASSUME NEW d \in Drivers, Refund(d)
      PROVE  /\ row'[w].status = "failed" /\ row'[w].sig = row[w].sig
             /\ \/ row[w].status = "pending"
                \/ row[w].status = "sent" /\ Dead(w, row[w].sig)
  <2>1. /\ driver[d].pc = "refund"
        /\ row[driver[d].w].status = driver[d].status /\ row[driver[d].w].sig = driver[d].sig
        /\ row' = [row EXCEPT ![driver[d].w].status = "failed"]
    BY <1>5 DEF Refund, StillAsRead
  <2>2. driver[d].w = w
    BY <2>1 DEF TypeOK
  <2>3. row'[w].status = "failed" /\ row'[w].sig = row[w].sig
    BY <2>1, <2>2 DEF TypeOK, Row
  <2> QED BY <1>0, <2>1, <2>2, <2>3 DEF Knows
<1> QED BY <1>1, <1>2, <1>3, <1>4, <1>5, RowSteps

\* Rows stay well formed: a confirmed one is paid for good.
LEMMA RowsStep ==
  ASSUME TypeOK, LandingsWellFormed, RowsWellFormed, DriversKnow, [Next]_vars
  PROVE  RowsWellFormed'
<1> SUFFICES ASSUME NEW w \in Rows
             PROVE  /\ row'[w].status \in {"none", "pending"} => row'[w].sig = NoSig
                    /\ row'[w].status = "confirmed" => PaidForGood(w, row[w].sig)'
  BY DEF RowsWellFormed
<1>1. row[w].sig \in Nat
  BY Fields
<1>2. \A s \in Nat : PaidForGood(w, s) => PaidForGood(w, s)'
  BY PaidStays
<1>3. CASE row'[w] = row[w]
  BY <1>1, <1>2, <1>3 DEF RowsWellFormed, PaidForGood
<1>4. CASE row'[w] # row[w]
  <2>1. row'[w].status \in {"none", "pending"} => row'[w].sig = NoSig
    BY <1>4, RowChange
  <2>2. row'[w].status = "confirmed" => row'[w].sig = row[w].sig /\ PaidForGood(w, row[w].sig)
    BY <1>4, RowChange
  <2> QED BY <1>1, <1>2, <2>1, <2>2 DEF PaidForGood
<1> QED BY <1>3, <1>4

-----------------------------------------------------------------------------
\* Being out, as a predicate.
Out(w, s) ==
  \/ <<w, s>> \in net
  \/ \E d \in Drivers : driver[d].pc = "broadcast" /\ driver[d].w = w /\ driver[d].new = s

\* The stored signature of a row whose fate is open or good.
Stored(w, s) == row[w].status \in {"sent", "confirmed"} /\ row[w].sig = s

\* OutThere is the set of what is out.
LEMMA OutThereIsOut ==
  ASSUME TypeOK, NEW w \in Rows
  PROVE  \A s : s \in OutThere(w) <=> Out(w, s)
<1>1. \A s : s \in {x[2] : x \in {y \in net : y[1] = w}} <=> <<w, s>> \in net
  BY DEF TypeOK
<1> QED BY <1>1 DEF OutThere, Out

\* OneLiveSignature over predicates instead of sets.
LEMMA OneLiveAsOut ==
  ASSUME TypeOK
  PROVE  OneLiveSignature <=>
           \A w \in Rows, s \in Nat : Out(w, s) => Stored(w, s) \/ Dead(w, s)
<1>1. \A w \in Rows : \A s : Out(w, s) => s \in Nat
  BY Fields DEF Out, TypeOK
<1> QED BY <1>1, OutThereIsOut DEF OneLiveSignature, Stored

\* A signature gets out only through a successful claim, which stores it.
LEMMA OutStep ==
  ASSUME TypeOK, [Next]_vars, NEW w \in Rows, NEW s \in Nat, Out(w, s)', ~Out(w, s)
  PROVE  row'[w].status = "sent" /\ row'[w].sig = s
<1>1. ASSUME NEW d \in Drivers, Broadcast(d) PROVE FALSE
  <2>1. driver[d].pc = "broadcast" /\ Goto(d, "idle")
        /\ net' \subseteq net \cup {<<driver[d].w, driver[d].new>>}
    BY <1>1 DEF Broadcast
  <2>2. "idle" \in PCs
    BY DEF PCs
  <2>3. driver'[d].pc = "idle" /\ \A e \in Drivers \ {d} : driver'[e] = driver[e]
    BY <2>1, <2>2, GotoFields
  <2> QED BY <2>1, <2>3 DEF Out
<1>2. CASE net' = net
  <2>1. PICK e \in Drivers : /\ driver'[e].pc = "broadcast" /\ driver'[e].w = w
                             /\ driver'[e].new = s /\ driver'[e] # driver[e]
    BY <1>2 DEF Out
  <2>2. ASSUME NEW d \in Drivers, NEW pc \in PCs, Goto(d, pc) PROVE d = e /\ pc = "broadcast"
    BY <2>1, <2>2, GotoFields
  <2>3. ASSUME NEW d \in Drivers, Claim(d) PROVE row'[w].status = "sent" /\ row'[w].sig = s
    <3>1. Goto(d, "broadcast") \/ Goto(d, "idle")
      BY <2>3 DEF Claim
    <3>2. d = e /\ Goto(d, "broadcast")
      BY <2>2, <3>1 DEF PCs
    <3>3. driver[e].w = w /\ driver[e].new = s
      BY <2>1, <3>2, GotoFields DEF PCs
    <3>4. ~Goto(d, "idle")
      BY <2>2 DEF PCs
    <3>5. row' = [row EXCEPT ![w] = [@ EXCEPT !.status = "sent", !.sig = s,
                                               !.attempts = driver[d].attempts + 1]]
      BY <2>3, <3>2, <3>3, <3>4 DEF Claim
    <3> QED BY <3>5 DEF TypeOK, Row
  <2>4. ASSUME NEW d \in Drivers, CheckStatus(d) PROVE FALSE
    <3>1. \E pc \in {"idle", "confirm", "requeue", "refund"} : Goto(d, pc)
      BY <2>4 DEF CheckStatus, UnseenPC, SeenPC, DeadPC, Found, TypeOK, Landing
    <3> QED BY <2>2, <3>1 DEF PCs
  <2>5. ASSUME NEW d \in Drivers, Sign(d) \/ CheckHeight(d) PROVE FALSE
    <3>1. driver'[d].pc \in {"claim", "status"} /\ \A x \in Drivers \ {d} : driver'[x] = driver[x]
      BY <2>5, ZenonT(30) DEF Sign, CheckHeight, TypeOK, Driver
    <3> QED BY <2>1, <3>1
  <2>6. ASSUME NEW d \in Drivers, NEW v \in Rows, Step(d, v) PROVE FALSE
    <3>1. driver'[d].pc \in {"send", "check"} /\ \A x \in Drivers \ {d} : driver'[x] = driver[x]
      BY <2>6 DEF Step, TypeOK
    <3> QED BY <2>1, <3>1
  <2>7. ASSUME NEW d \in Drivers,
               SendGuard(d) \/ SendBalance(d) \/ Confirm(d) \/ Requeue(d) \/ Refund(d) \/ Crash(d)
        PROVE  FALSE
    <3>1. \E pc \in {"refund", "idle", "balance", "sign"} : Goto(d, pc)
      BY <2>7 DEF SendGuard, SendBalance, Confirm, Requeue, Refund, Crash
    <3> QED BY <2>2, <3>1 DEF PCs
  <2>8. driver' # driver
    BY <2>1
  <2> QED
    BY <1>1, <2>3, <2>4, <2>5, <2>6, <2>7, <2>8
    DEF Next, UpNext, DriverNext, Request, Debit, Land, ForkDrops, AdvanceHeight, SetPaused,
        TopUp, Reconfigure, NewDay, vars
<1>3. net' = net \/ \E d \in Drivers : Broadcast(d)
  BY DEF Next, UpNext, Request, Debit, Step, DriverNext, SendGuard, SendBalance, Sign, Claim,
         CheckHeight, CheckStatus, Confirm, Requeue, Refund, Crash, SetPaused,
         TopUp, Reconfigure, NewDay, Land, ForkDrops, AdvanceHeight, vars, chainVars
<1> QED BY <1>1, <1>2, <1>3

\* No step puts a second live signature out.
LEMMA OneLiveStep ==
  ASSUME TypeOK, TypeOK', LandingsWellFormed, DriversKnow, OneLiveSignature, [Next]_vars
  PROVE  OneLiveSignature'
<1>0. \A w \in Rows, s \in Nat : Out(w, s) => Stored(w, s) \/ Dead(w, s)
  BY OneLiveAsOut
<1>1. ASSUME NEW w \in Rows, NEW s \in Nat, Out(w, s)' PROVE Stored(w, s)' \/ Dead(w, s)'
  <2>1. CASE ~Out(w, s)
    BY <1>1, <2>1, OutStep DEF Stored
  <2>2. CASE Dead(w, s)
    BY <2>2, DeadStays
  <2>3. CASE Stored(w, s)
    <3>1. CASE row'[w] = row[w]
      BY <2>3, <3>1 DEF Stored
    <3>2. CASE row'[w] # row[w]
      <4>1. \/ row'[w].status = "confirmed" /\ row'[w].sig = row[w].sig
            \/ Dead(w, row[w].sig)
        BY <2>3, <3>2, RowChange DEF Stored
      <4> QED BY <2>2, <2>3, <4>1 DEF Stored
    <3> QED BY <3>1, <3>2
  <2> QED BY <1>0, <2>1, <2>2, <2>3
<1>2. OneLiveSignature' <=>
        \A w \in Rows, s \in Nat : Out(w, s)' => Stored(w, s)' \/ Dead(w, s)'
  <2>1. \A w \in Rows : \A s : Out(w, s)' => s \in Nat
    BY DEF Out, TypeOK, Driver
  <2>2. ASSUME NEW w \in Rows PROVE \A s : s \in OutThere(w)' <=> Out(w, s)'
    <3>1. \A s : s \in {x[2] : x \in {y \in net' : y[1] = w}} <=> <<w, s>> \in net'
      BY DEF TypeOK
    <3> QED BY <3>1 DEF OutThere, Out
  <2> QED BY <2>1, <2>2 DEF OneLiveSignature, Stored
<1> QED BY <1>1, <1>2

-----------------------------------------------------------------------------
\* The inductive invariant holds at the start ...
LEMMA SafeInit == Init => SafeInv
<1> SUFFICES ASSUME Init PROVE SafeInv
  OBVIOUS
<1>1. TypeOK
  BY TypeInit
<1>2. LandingsWellFormed
  BY DEF Init, LandingsWellFormed
<1>3. \A w \in Rows : row[w].status = "none" /\ row[w].sig = NoSig
  BY DEF Init, NoRow
<1>4. RowsWellFormed
  BY <1>3 DEF RowsWellFormed
<1>5. \A d \in Drivers : driver[d].pc = "idle"
  BY DEF Init, Idle
<1>6. DriversKnow
  BY <1>5 DEF DriversKnow
<1>7. OneLiveSignature
  BY <1>1, <1>5, OneLiveAsOut DEF Init, Out
<1> QED BY <1>1, <1>2, <1>4, <1>6, <1>7 DEF SafeInv

\* ... and every step keeps it.
LEMMA SafeStep == SafeInv /\ [Next]_vars => SafeInv'
  BY TypeStep, LandingsStep, RowsStep, DriversStep, OneLiveStep DEF SafeInv

\* No row ever has two live signatures: whatever the drivers, crashes, forks and
\* lagging nodes do, every signature that got out, other than the stored one of
\* a sent or confirmed row, is dead.
THEOREM OneLiveSignatureHolds == Spec => []OneLiveSignature
<1>1. SafeInv => OneLiveSignature
  BY DEF SafeInv
<1> QED BY SafeInit, SafeStep, <1>1, PTL DEF Spec

\* A refund is only ever given when nothing was or will be paid, and a row is
\* confirmed only when its payment is final.
THEOREM SettledTruthfullyHolds == Spec => []SettledTruthfully
<1>1. SafeInv => SettledTruthfully
  <2> SUFFICES ASSUME SafeInv, NEW w \in Rows
               PROVE  /\ row[w].status = "failed" =>
                           Payments(w) = {} /\ \A s \in OutThere(w) : Dead(w, s)
                      /\ row[w].status = "confirmed" =>
                           \E t \in Payments(w) : t.sig = row[w].sig /\ t.block <= height
    BY DEF SettledTruthfully
  <2>1. ASSUME row[w].status = "failed" PROVE \A s \in OutThere(w) : Dead(w, s)
    BY <2>1 DEF SafeInv, OneLiveSignature
  <2>2. ASSUME row[w].status = "failed" PROVE Payments(w) = {}
    <3> SUFFICES ASSUME NEW t \in landed, t.row = w, t.ok PROVE FALSE
      BY DEF Payments
    <3>1. t.sig \in OutThere(w)
      BY OutThereIsOut DEF SafeInv, LandingsWellFormed, Out
    <3> QED BY <2>1, <2>2, <3>1 DEF Dead
  <2>3. ASSUME row[w].status = "confirmed"
        PROVE  \E t \in Payments(w) : t.sig = row[w].sig /\ t.block <= height
    BY <2>3 DEF SafeInv, RowsWellFormed, PaidForGood, Payments
  <2> QED BY <2>1, <2>2, <2>3
<1> QED BY SafeInit, SafeStep, <1>1, PTL DEF Spec

\* Two payments of a row are the same payment.
LEMMA PaymentsAgree ==
  ASSUME SafeInv, NEW w \in Rows, NEW t \in Payments(w), NEW v \in Payments(w)
  PROVE  t = v
<1>1. \A x \in Payments(w) : x \in landed /\ x.row = w /\ x.ok
  BY DEF Payments
<1>2. \A x \in Payments(w) : x.sig \in OutThere(w)
  BY <1>1, OutThereIsOut DEF SafeInv, LandingsWellFormed, Out
<1>3. \A x \in Payments(w) : x.sig = row[w].sig
  BY <1>1, <1>2 DEF SafeInv, OneLiveSignature, Dead
<1> QED BY <1>1, <1>3 DEF SafeInv, LandingsWellFormed

\* The player is paid at most once, over all attempts of a withdrawal.
THEOREM PaidAtMostOnce == Spec => []AtMostOnePayment
<1>1. SafeInv => AtMostOnePayment
  <2> SUFFICES ASSUME SafeInv, NEW w \in Rows PROVE Cardinality(Payments(w)) <= 1
    BY DEF AtMostOnePayment
  <2>1. CASE Payments(w) = {}
    BY <2>1, FS_EmptySet
  <2>2. CASE Payments(w) # {}
    <3>1. PICK t : t \in Payments(w)
      BY <2>2
    <3>2. Payments(w) = {t}
      BY <3>1, PaymentsAgree
    <3> QED BY <3>2, FS_Singleton
  <2> QED BY <2>1, <2>2
<1> QED BY SafeInit, SafeStep, <1>1, PTL DEF Spec

-----------------------------------------------------------------------------
(***************************************************************************)
(* The money.  Only a request and a refund move a balance; every other     *)
(* step leaves the rows alone or moves one between pending, sent and       *)
(* confirmed with what it debited.                                         *)
(***************************************************************************)
\* A row as the steps that move no money leave it.
Carried(w) ==
  \/ row'[w] = row[w]
  \/ /\ row[w].status \in {"pending", "sent"}
     /\ row'[w].status \in {"pending", "sent", "confirmed"}
     /\ row'[w].amount = row[w].amount /\ row'[w].day = row[w].day
     /\ row'[w].attempts \in {row[w].attempts, row[w].attempts + 1}

\* A row that is refunded.
Returned(w) ==
  /\ row[w].status \in {"pending", "sent"}
  /\ row' = [row EXCEPT ![w].status = "failed"]
  /\ balance' = [balance EXCEPT ![Owner[w]] = @ + row[w].amount]
  /\ UNCHANGED <<landed, height>>

\* The three ways a step treats the money.
LEMMA BookSteps ==
  ASSUME TypeOK, DriversKnow, [Next]_vars
  PROVE  \/ \E w \in Rows, a \in Amounts : Request(w, a)
         \/ day' = day /\ \E w \in Rows : Returned(w)
         \/ balance' = balance /\ \A w \in Rows : Carried(w)
<1>0. \A d \in Drivers : Knows(d) /\ driver[d].w \in Rows
  BY KnowsAll, Fields
<1>1. ASSUME NEW d \in Drivers, Claim(d)
      PROVE  balance' = balance /\ \A w \in Rows : Carried(w)
  <2>1. CASE StillPending(driver[d])
    <3>1. PICK v \in Rows : v = driver[d].w
      BY <1>0
    <3>2. /\ row[v].status = "pending" /\ row[v].attempts = driver[d].attempts
          /\ balance' = balance
          /\ row' = [row EXCEPT ![v] = [@ EXCEPT !.status = "sent", !.sig = driver[d].new,
                                                 !.attempts = driver[d].attempts + 1]]
      BY <1>1, <2>1, <3>1 DEF Claim, StillPending
    <3>3. \A w \in Rows \ {v} : row'[w] = row[w]
      BY <3>2 DEF TypeOK
    <3>4. /\ row'[v].status = "sent" /\ row'[v].amount = row[v].amount
          /\ row'[v].day = row[v].day /\ row'[v].attempts = row[v].attempts + 1
      BY <3>2 DEF TypeOK, Row
    <3> QED BY <3>2, <3>3, <3>4 DEF Carried
  <2>2. CASE ~StillPending(driver[d])
    BY <1>1, <2>2 DEF Claim, Carried
  <2> QED BY <2>1, <2>2
<1>2. ASSUME NEW d \in Drivers, Confirm(d)
      PROVE  balance' = balance /\ \A w \in Rows : Carried(w)
  <2>1. CASE StillSent(driver[d])
    <3>1. PICK v \in Rows : v = driver[d].w
      BY <1>0
    <3>2. /\ row[v].status = "sent" /\ balance' = balance
          /\ row' = [row EXCEPT ![v].status = "confirmed"]
      BY <1>2, <2>1, <3>1 DEF Confirm, StillSent
    <3>3. \A w \in Rows \ {v} : row'[w] = row[w]
      BY <3>2 DEF TypeOK
    <3>4. /\ row'[v].status = "confirmed" /\ row'[v].amount = row[v].amount
          /\ row'[v].day = row[v].day /\ row'[v].attempts = row[v].attempts
      BY <3>2 DEF TypeOK, Row
    <3> QED BY <3>2, <3>3, <3>4 DEF Carried
  <2>2. CASE ~StillSent(driver[d])
    BY <1>2, <2>2 DEF Confirm, Carried
  <2> QED BY <2>1, <2>2
<1>3. ASSUME NEW d \in Drivers, Requeue(d)
      PROVE  balance' = balance /\ \A w \in Rows : Carried(w)
  <2>1. CASE StillSent(driver[d])
    <3>1. PICK v \in Rows : v = driver[d].w
      BY <1>0
    <3>2. /\ row[v].status = "sent" /\ balance' = balance
          /\ row' = [row EXCEPT ![v] = [@ EXCEPT !.status = "pending", !.sig = NoSig]]
      BY <1>3, <2>1, <3>1 DEF Requeue, StillSent
    <3>3. \A w \in Rows \ {v} : row'[w] = row[w]
      BY <3>2 DEF TypeOK
    <3>4. /\ row'[v].status = "pending" /\ row'[v].amount = row[v].amount
          /\ row'[v].day = row[v].day /\ row'[v].attempts = row[v].attempts
      BY <3>2 DEF TypeOK, Row
    <3> QED BY <3>2, <3>3, <3>4 DEF Carried
  <2>2. CASE ~StillSent(driver[d])
    BY <1>3, <2>2 DEF Requeue, Carried
  <2> QED BY <2>1, <2>2
<1>4. ASSUME NEW d \in Drivers, Refund(d)
      PROVE  \/ day' = day /\ \E w \in Rows : Returned(w)
             \/ balance' = balance /\ \A w \in Rows : Carried(w)
  <2>1. CASE StillAsRead(driver[d])
    <3>1. PICK v \in Rows : v = driver[d].w
      BY <1>0
    <3>2. row[v].status \in {"pending", "sent"}
      BY <1>0, <1>4, <2>1, <3>1 DEF Refund, StillAsRead, Knows
    <3> QED BY <1>4, <2>1, <3>1, <3>2 DEF Refund, Returned, envVars, chainVars
  <2>2. CASE ~StillAsRead(driver[d])
    BY <1>4, <2>2 DEF Refund, Carried
  <2> QED BY <2>1, <2>2
<1>5. row' = row => \/ \E w \in Rows, a \in Amounts : Request(w, a)
                    \/ \E d \in Drivers : Refund(d)
                    \/ balance' = balance
  BY DEF Next, UpNext, Step, DriverNext, SendGuard, SendBalance, Sign, Claim, Confirm, Requeue,
         Broadcast, CheckHeight, CheckStatus, Crash, SetPaused,
         TopUp, Reconfigure, NewDay, Land, ForkDrops, AdvanceHeight, vars
<1>6. row' = row => \A w \in Rows : Carried(w)
  BY DEF Carried
<1> QED BY <1>1, <1>2, <1>3, <1>4, <1>5, <1>6, RowSteps

\* A settled row never changes again and no attempt is forgotten.
LEMMA FinalStep ==
  ASSUME TypeOK, DriversKnow, BooksInv, [Next]_vars, NEW w \in Rows
  PROVE  /\ row[w].status \in {"confirmed", "failed"} => row'[w] = row[w]
         /\ row'[w].attempts \in {row[w].attempts, row[w].attempts + 1}
<1>1. ASSUME NEW v \in Rows, NEW a \in Amounts, Request(v, a)
      PROVE  /\ row[w].status \in {"confirmed", "failed"} => row'[w] = row[w]
             /\ row'[w].attempts \in {row[w].attempts, row[w].attempts + 1}
  <2>1. /\ row[v].status = "none"
        /\ row' = [row EXCEPT ![v] = [status |-> "pending", sig |-> NoSig, attempts |-> 0,
                                      amount |-> a, day |-> day]]
    BY <1>1 DEF Request, Debit
  <2>2. w # v => row'[w] = row[w]
    BY <2>1 DEF TypeOK
  <2>3. row'[v].attempts = 0 /\ row[v].attempts = 0
    BY <2>1 DEF BooksInv, TypeOK
  <2> QED BY <2>1, <2>2, <2>3
<1>2. ASSUME NEW v \in Rows, Returned(v)
      PROVE  /\ row[w].status \in {"confirmed", "failed"} => row'[w] = row[w]
             /\ row'[w].attempts \in {row[w].attempts, row[w].attempts + 1}
  <2>1. row[v].status \in {"pending", "sent"} /\ row' = [row EXCEPT ![v].status = "failed"]
    BY <1>2 DEF Returned
  <2>2. (w # v => row'[w] = row[w]) /\ row'[w].attempts = row[w].attempts
    BY <2>1 DEF TypeOK, Row
  <2> QED BY <2>1, <2>2
<1>3. ASSUME Carried(w)
      PROVE  /\ row[w].status \in {"confirmed", "failed"} => row'[w] = row[w]
             /\ row'[w].attempts \in {row[w].attempts, row[w].attempts + 1}
  BY <1>3 DEF Carried
<1> QED BY <1>1, <1>2, <1>3, BookSteps

-----------------------------------------------------------------------------
\* The sums over a user's rows, now and one step later.
LEMMA Sums0 ==
  ASSUME NEW S PROVE AmountOf(S) = SumOver(debited, S)
  BY DEF AmountOf, SumOver

\* The same one step later.
LEMMA SumsNext ==
  ASSUME NEW u, NEW d
  PROVE  /\ AmountOf(Kept(u))' = SumOver(debited', Kept(u)')
         /\ AmountOf(CountedOn(u, d))' = SumOver(debited', CountedOn(u, d)')
<1>1. AmountOf(Kept(u)) = SumOver(debited, Kept(u))
  BY Sums0
<1>2. AmountOf(CountedOn(u, d)) = SumOver(debited, CountedOn(u, d))
  BY Sums0
<1>3. (AmountOf(Kept(u)) = SumOver(debited, Kept(u)))'
  BY <1>1, PTL
<1>4. (AmountOf(CountedOn(u, d)) = SumOver(debited, CountedOn(u, d)))'
  BY <1>2, PTL
<1> QED BY <1>3, <1>4

\* What the rows debited, as a function ...
LEMMA DebitedType ==
  ASSUME TypeOK
  PROVE  DOMAIN debited = Rows /\ \A w \in Rows : debited[w] = row[w].amount /\ debited[w] \in Nat
  BY AmountNat DEF TypeOK, debited

\* ... and one step later.
LEMMA DebitedNext ==
  DOMAIN debited' = Rows /\ \A w \in Rows : debited'[w] = row'[w].amount
  BY DEF debited

\* A user has finitely many rows.
LEMMA BooksFinite ==
  ASSUME BooksInv, NEW u
  PROVE  /\ IsFiniteSet(Kept(u)) /\ Kept(u) \subseteq Rows
         /\ \A d : IsFiniteSet(CountedOn(u, d)) /\ CountedOn(u, d) \subseteq Rows
<1> DEFINE made == {w \in Rows : row[w].status # "none"}
<1>1. IsFiniteSet(made)
  BY DEF BooksInv
<1>2. Kept(u) \subseteq made /\ \A d : CountedOn(u, d) \subseteq made
  BY DEF Kept, CountedOn
<1> HIDE DEF made
<1>3. IsFiniteSet(Kept(u)) /\ \A d : IsFiniteSet(CountedOn(u, d))
  BY <1>1, <1>2, FS_Subset
<1> QED BY <1>3 DEF Kept, CountedOn

\* What BooksInv says of one user.
UserBooks(u) ==
  /\ balance[u] + AmountOf(Kept(u)) = InitBalance
  /\ \A w, v \in InFlight(u) : w = v
  /\ \A d \in 0 .. day : AmountOf(CountedOn(u, d)) <= DailyLimit

\* The daily limit, from the invariant.
LEMMA DayWithin ==
  ASSUME BooksInv, NEW u \in Users, NEW d \in 0 .. day
  PROVE  AmountOf(CountedOn(u, d)) <= DailyLimit
  BY DEF BooksInv

\* Midnight moves neither rows nor balances.
LEMMA DayGrows ==
  ASSUME TypeOK, [Next]_vars
  PROVE  /\ day \in Nat /\ day' \in {day, day + 1}
         /\ day' # day => row' = row /\ balance' = balance
<1>1. day \in Nat
  BY DEF TypeOK
<1>2. NewDay \/ day' = day
  BY DEF Next, UpNext, Request, Debit, Step, DriverNext, SendGuard, SendBalance, Sign, Claim,
         Broadcast, CheckHeight, CheckStatus, Confirm, Requeue, Refund, Crash, SetPaused,
         TopUp, Reconfigure, Land, ForkDrops, AdvanceHeight, vars, envVars
<1> QED BY <1>1, <1>2 DEF NewDay

\* A step that moves no money keeps the books.
LEMMA CarriedKeeps ==
  ASSUME TypeOK, TypeOK', BooksInv, balance' = balance, \A w \in Rows : Carried(w),
         day' \in {day, day + 1}
  PROVE  BooksInv'
<1>0. day \in Nat /\ \A w \in Rows : row[w].day \in 0 .. day
  BY DEF TypeOK, BooksInv
<1>1. debited' = debited
  BY DebitedType, DebitedNext DEF Carried, debited
<1>2. ASSUME NEW u \in Users
      PROVE  /\ Kept(u)' = Kept(u)
             /\ \A d : CountedOn(u, d)' = CountedOn(u, d)
             /\ InFlight(u)' \subseteq InFlight(u)
  BY DEF Kept, CountedOn, InFlight, Carried
<1>3. {w \in Rows : row'[w].status # "none"} = {w \in Rows : row[w].status # "none"}
  BY DEF Carried
<1>4. ASSUME NEW w \in Rows
      PROVE  /\ row'[w].status = "none" => row'[w].attempts = 0
             /\ row'[w].day \in 0 .. day'
  BY <1>0 DEF Carried, BooksInv
<1>5. ASSUME NEW u \in Users PROVE UserBooks(u)'
  <2>1. AmountOf(Kept(u))' = AmountOf(Kept(u))
    BY <1>1, <1>2, Sums0, SumsNext
  <2>2. \A w, v \in InFlight(u)' : w = v
    BY <1>2 DEF BooksInv
  <2>3. ASSUME NEW d \in 0 .. day' PROVE AmountOf(CountedOn(u, d))' <= DailyLimit
    <3>1. AmountOf(CountedOn(u, d))' = AmountOf(CountedOn(u, d))
      BY <1>1, <1>2, Sums0, SumsNext
    <3>2. CASE d \in 0 .. day
      BY <3>1, <3>2, DayWithin
    <3>3. CASE d \notin 0 .. day
      <4>1. CountedOn(u, d) = {}
        BY <1>0, <3>3 DEF CountedOn
      <4>2. SumOver(debited, {}) = 0
        BY FS_EmptySet, SumStep
      <4> QED BY <3>1, <4>1, <4>2, Sums0, ConstantsAssumption
    <3> QED BY <3>2, <3>3
  <2> QED BY <2>1, <2>2, <2>3 DEF UserBooks, BooksInv
<1> QED BY <1>3, <1>4, <1>5 DEF BooksInv, UserBooks

\* A request debits what its row then holds.
LEMMA RequestKeeps ==
  ASSUME TypeOK, TypeOK', BooksInv, NEW w \in Rows, NEW a \in Amounts, Request(w, a)
  PROVE  BooksInv'
<1>0. day \in Nat /\ a \in Nat /\ Owner[w] \in Users /\ Owner \in [Rows -> Users]
  BY ConstantsAssumption DEF TypeOK
<1>1. /\ row[w].status = "none" /\ InFlight(Owner[w]) = {} /\ day' = day
      /\ AmountOf(CountedOn(Owner[w], day)) + a <= DailyLimit
      /\ balance[Owner[w]] >= a /\ balance' = [balance EXCEPT ![Owner[w]] = @ - a]
      /\ row' = [row EXCEPT ![w] = [status |-> "pending", sig |-> NoSig, attempts |-> 0,
                                    amount |-> a, day |-> day]]
  BY DEF Request, Debit, envVars
<1>2. /\ row'[w].status = "pending" /\ row'[w].attempts = 0 /\ row'[w].amount = a
      /\ row'[w].day = day /\ \A v \in Rows \ {w} : row'[v] = row[v]
  BY <1>1 DEF TypeOK
<1>3. debited'[w] = a /\ \A v \in Rows \ {w} : debited'[v] = debited[v] /\ debited'[v] \in Int
  BY <1>2, DebitedType, DebitedNext
<1>4. IsFiniteSet({v \in Rows : row'[v].status # "none"})
  <2>1. {v \in Rows : row'[v].status # "none"} = {v \in Rows : row[v].status # "none"} \cup {w}
    BY <1>1, <1>2
  <2> QED BY <2>1, FS_AddElement DEF BooksInv
<1>5. ASSUME NEW v \in Rows
      PROVE  /\ row'[v].status = "none" => row'[v].attempts = 0
             /\ row'[v].day \in 0 .. day'
  BY <1>0, <1>1, <1>2 DEF BooksInv
<1>6. ASSUME NEW S, w \notin S, S \subseteq Rows, IsFiniteSet(S)
      PROVE  SumOver(debited', S) = SumOver(debited, S)
  BY <1>3, <1>6, SumEqual
<1>7. ASSUME NEW S, w \notin S, S \subseteq Rows, IsFiniteSet(S)
      PROVE  SumOver(debited', S \cup {w}) = a + SumOver(debited, S)
  <2>1. (\A v \in S : debited'[v] \in Int) /\ debited'[w] \in Int
    BY <1>0, <1>3, <1>7
  <2>2. SumOver(debited', S \cup {w}) = debited'[w] + SumOver(debited', S)
    BY <1>7, <2>1, SumAdd
  <2> QED BY <1>3, <1>6, <1>7, <2>2
<1>8. ASSUME NEW u \in Users PROVE UserBooks(u)'
  <2>1. w \notin Kept(u) /\ \A d : w \notin CountedOn(u, d)
    BY <1>1 DEF Kept, CountedOn
  <2>2. CASE u # Owner[w]
    <3>1. Kept(u)' = Kept(u) /\ InFlight(u)' = InFlight(u) /\ \A d : CountedOn(u, d)' = CountedOn(u, d)
      BY <1>2, <2>2 DEF Kept, InFlight, CountedOn
    <3>2. balance'[u] = balance[u]
      BY <1>1, <2>2 DEF TypeOK
    <3>3. AmountOf(Kept(u))' = AmountOf(Kept(u))
      BY <1>6, <2>1, <3>1, BooksFinite, Sums0, SumsNext
    <3>4. \A d : AmountOf(CountedOn(u, d))' = AmountOf(CountedOn(u, d))
      BY <1>6, <2>1, <3>1, BooksFinite, Sums0, SumsNext
    <3>5. \A d \in 0 .. day : AmountOf(CountedOn(u, d))' <= DailyLimit
      BY <3>4, DayWithin
    <3>6. balance'[u] + AmountOf(Kept(u))' = InitBalance
      BY <3>2, <3>3 DEF BooksInv
    <3>7. \A x, v \in InFlight(u)' : x = v
      BY <3>1 DEF BooksInv
    <3> QED BY <1>1, <3>5, <3>6, <3>7 DEF UserBooks
  <2>3. CASE u = Owner[w]
    <3>1. Kept(u)' = Kept(u) \cup {w} /\ InFlight(u)' \subseteq {w}
      BY <1>1, <1>2, <2>3 DEF Kept, InFlight
    <3>2. balance'[u] = balance[u] - a /\ balance[u] \in Nat
      BY <1>1, <2>3 DEF TypeOK
    <3>3. AmountOf(Kept(u))' = a + AmountOf(Kept(u))
      BY <1>7, <2>1, <3>1, BooksFinite, Sums0, SumsNext
    <3>4. AmountOf(Kept(u)) \in Nat
      <4>1. \A v \in Kept(u) : debited[v] \in Nat
        BY DebitedType, BooksFinite
      <4> QED BY <4>1, BooksFinite, SumNat, Sums0
    <3>5. balance'[u] + AmountOf(Kept(u))' = InitBalance
      BY <1>0, <3>2, <3>3, <3>4 DEF BooksInv
    <3>6. ASSUME NEW d \in 0 .. day PROVE AmountOf(CountedOn(u, d))' <= DailyLimit
      <4>1. CASE d # day
        <5>1. CountedOn(u, d)' = CountedOn(u, d)
          BY <1>2, <2>1, <4>1 DEF CountedOn
        <5>2. AmountOf(CountedOn(u, d))' = AmountOf(CountedOn(u, d))
          BY <1>6, <2>1, <5>1, BooksFinite, Sums0, SumsNext
        <5> QED BY <5>2, DayWithin
      <4>2. CASE d = day
        <5>1. CountedOn(u, d)' = CountedOn(u, d) \cup {w}
          BY <1>2, <2>3, <4>2 DEF CountedOn
        <5>2. AmountOf(CountedOn(u, d))' = a + AmountOf(CountedOn(u, d))
          BY <1>7, <2>1, <5>1, BooksFinite, Sums0, SumsNext
        <5>3. AmountOf(CountedOn(u, d)) \in Nat
          <6>1. \A v \in CountedOn(u, d) : debited[v] \in Nat
            BY DebitedType, BooksFinite
          <6> QED BY <6>1, BooksFinite, SumNat, Sums0
        <5> QED BY <1>0, <1>1, <2>3, <4>2, <5>2, <5>3
      <4> QED BY <4>1, <4>2
    <3> QED BY <1>1, <3>1, <3>5, <3>6 DEF UserBooks
  <2> QED BY <2>2, <2>3
<1> QED BY <1>4, <1>5, <1>8 DEF BooksInv, UserBooks

\* A refund credits what its row held.
LEMMA ReturnedKeeps ==
  ASSUME TypeOK, TypeOK', BooksInv, NEW w \in Rows, Returned(w), day' = day
  PROVE  BooksInv'
<1>0. day \in Nat /\ Owner[w] \in Users /\ Owner \in [Rows -> Users]
  BY ConstantsAssumption DEF TypeOK
<1>1. /\ row[w].status \in {"pending", "sent"}
      /\ row' = [row EXCEPT ![w].status = "failed"]
      /\ balance' = [balance EXCEPT ![Owner[w]] = @ + row[w].amount]
  BY DEF Returned
<1>2. /\ row'[w].status = "failed" /\ row'[w].amount = row[w].amount
      /\ row'[w].day = row[w].day /\ \A v \in Rows \ {w} : row'[v] = row[v]
  BY <1>1 DEF TypeOK, Row
<1>3. debited' = debited
  BY <1>2, DebitedType, DebitedNext DEF debited
<1>4. {v \in Rows : row'[v].status # "none"} = {v \in Rows : row[v].status # "none"}
  BY <1>1, <1>2
<1>5. ASSUME NEW v \in Rows
      PROVE  /\ row'[v].status = "none" => row'[v].attempts = 0
             /\ row'[v].day \in 0 .. day'
  BY <1>1, <1>2 DEF BooksInv
<1>6. ASSUME NEW u \in Users PROVE UserBooks(u)'
  <2>1. InFlight(u)' \subseteq InFlight(u) /\ \A d : CountedOn(u, d)' \subseteq CountedOn(u, d)
    BY <1>1, <1>2 DEF InFlight, CountedOn
  <2>2. ASSUME NEW d \in 0 .. day PROVE AmountOf(CountedOn(u, d))' <= DailyLimit
    <3>1. \A v \in CountedOn(u, d) : debited[v] \in Nat
      BY DebitedType, BooksFinite
    <3>2. SumOver(debited, CountedOn(u, d)') <= SumOver(debited, CountedOn(u, d))
      BY <2>1, <3>1, BooksFinite, SumMono
    <3>3. SumOver(debited, CountedOn(u, d)) \in Nat
      BY <3>1, BooksFinite, SumNat
    <3>4. SumOver(debited, CountedOn(u, d)') \in Nat
      <4>1. IsFiniteSet(CountedOn(u, d)') /\ \A v \in CountedOn(u, d)' : debited[v] \in Nat
        BY <2>1, <3>1, BooksFinite, FS_Subset
      <4> QED BY <4>1, SumNat
    <3>5. AmountOf(CountedOn(u, d))' = SumOver(debited, CountedOn(u, d)')
      BY <1>3, SumsNext
    <3>6. SumOver(debited, CountedOn(u, d)) <= DailyLimit /\ DailyLimit \in Nat
      BY Sums0, DayWithin, ConstantsAssumption
    <3> QED BY <3>2, <3>3, <3>4, <3>5, <3>6
  <2>3. CASE u # Owner[w]
    <3>1. Kept(u)' = Kept(u)
      BY <1>2, <2>3 DEF Kept
    <3>2. balance'[u] = balance[u]
      BY <1>1, <2>3 DEF TypeOK
    <3>3. AmountOf(Kept(u))' = AmountOf(Kept(u))
      BY <1>3, <3>1, Sums0, SumsNext
    <3> QED BY <2>1, <2>2, <3>2, <3>3 DEF UserBooks, BooksInv
  <2>4. CASE u = Owner[w]
    <3>1. w \in Kept(u) /\ Kept(u)' = Kept(u) \ {w}
      BY <1>1, <1>2, <2>4 DEF Kept
    <3>2. balance'[u] = balance[u] + debited[w] /\ balance[u] \in Nat /\ debited[w] \in Nat
      BY <1>1, <2>4, DebitedType DEF TypeOK
    <3>3. \A v \in Kept(u) : debited[v] \in Nat
      BY DebitedType, BooksFinite
    <3>4. SumOver(debited, Kept(u)) = debited[w] + SumOver(debited, Kept(u)')
      <4>1. \A v \in Kept(u) : debited[v] \in Int
        BY <3>3
      <4> QED BY <3>1, <4>1, BooksFinite, SumRemove
    <3>5. SumOver(debited, Kept(u)') \in Nat
      <4>1. IsFiniteSet(Kept(u)') /\ \A v \in Kept(u)' : debited[v] \in Nat
        BY <3>1, <3>3, BooksFinite, FS_Subset
      <4> QED BY <4>1, SumNat
    <3>6. AmountOf(Kept(u))' = SumOver(debited, Kept(u)')
      BY <1>3, SumsNext
    <3>7. balance[u] + SumOver(debited, Kept(u)) = InitBalance
      BY Sums0 DEF BooksInv
    <3>8. balance'[u] + AmountOf(Kept(u))' = InitBalance
      BY <3>2, <3>4, <3>5, <3>6, <3>7
    <3> QED BY <2>1, <2>2, <3>8 DEF UserBooks, BooksInv
  <2> QED BY <2>3, <2>4
<1> QED BY <1>4, <1>5, <1>6 DEF BooksInv, UserBooks

\* Every step keeps the books.
LEMMA BooksStep ==
  ASSUME SafeInv, SafeInv', BooksInv, [Next]_vars
  PROVE  BooksInv'
<1>1. TypeOK /\ TypeOK' /\ DriversKnow
  BY DEF SafeInv
<1> QED BY <1>1, BookSteps, DayGrows, CarriedKeeps, RequestKeeps, ReturnedKeeps

\* The books hold at the start.
LEMMA BooksInit == Init => BooksInv
<1> SUFFICES ASSUME Init PROVE BooksInv
  OBVIOUS
<1>1. \A w \in Rows : row[w].status = "none" /\ row[w].attempts = 0 /\ row[w].day = 0
  BY DEF Init, NoRow
<1>2. {w \in Rows : row[w].status # "none"} = {}
  BY <1>1
<1>3. \A u : Kept(u) = {} /\ InFlight(u) = {} /\ \A d : CountedOn(u, d) = {}
  BY <1>1 DEF Kept, InFlight, CountedOn
<1>4. AmountOf({}) = 0
  BY FS_EmptySet, SumStep, Sums0
<1>5. \A u \in Users : balance[u] = InitBalance
  BY DEF Init
<1>6. InitBalance \in Nat /\ DailyLimit \in Nat /\ day = 0
  BY ConstantsAssumption DEF Init
<1>7. IsFiniteSet({w \in Rows : row[w].status # "none"})
  BY <1>2, FS_EmptySet
<1>8. \A u \in Users : UserBooks(u)
  <2> SUFFICES ASSUME NEW u \in Users PROVE UserBooks(u)
    OBVIOUS
  <2>1. AmountOf(Kept(u)) = 0 /\ \A d : AmountOf(CountedOn(u, d)) = 0
    BY <1>3, <1>4
  <2>2. balance[u] + AmountOf(Kept(u)) = InitBalance
    BY <1>5, <1>6, <2>1
  <2>3. \A d : AmountOf(CountedOn(u, d)) <= DailyLimit
    BY <1>6, <2>1
  <2> QED BY <1>3, <2>2, <2>3 DEF UserBooks
<1>9. \A w \in Rows : row[w].day \in 0 .. day
  BY <1>1, <1>6
<1> QED BY <1>1, <1>7, <1>8, <1>9 DEF BooksInv, UserBooks

\* Both invariants hold in every reachable state.
LEMMA BooksAlways == Spec => [](SafeInv /\ BooksInv)
<1>1. Init => SafeInv /\ BooksInv
  BY SafeInit, BooksInit
<1>2. SafeInv /\ BooksInv /\ [Next]_vars => (SafeInv /\ BooksInv)'
  BY SafeStep, BooksStep
<1> QED BY <1>1, <1>2, PTL DEF Spec

-----------------------------------------------------------------------------
\* A row the chain paid is sent or confirmed: it was never refunded.
LEMMA PaidIsStored ==
  ASSUME SafeInv, NEW w \in Rows, Payments(w) # {}
  PROVE  row[w].status \in {"sent", "confirmed"}
<1>1. PICK t \in landed : t.row = w /\ t.ok
  BY DEF Payments
<1>2. t.sig \in OutThere(w)
  BY <1>1, OutThereIsOut DEF SafeInv, LandingsWellFormed, Out
<1> QED BY <1>1, <1>2 DEF SafeInv, OneLiveSignature, Dead

\* What is on its way or paid is what was not refunded.
LEMMA KeptIsOwed ==
  ASSUME SafeInv, NEW u \in Users
  PROVE  {w \in Rows : /\ Owner[w] = u
                       /\ \/ row[w].status \in {"pending", "sent"}
                          \/ Payments(w) # {}} = Kept(u)
<1>1. \A w \in Rows : row[w].status = "confirmed" => Payments(w) # {}
  BY DEF SafeInv, RowsWellFormed, PaidForGood, Payments
<1>2. \A w \in Rows : Payments(w) # {} => row[w].status \in {"sent", "confirmed"}
  BY PaidIsStored
<1> QED BY <1>1, <1>2 DEF Kept

\* What the user owns is conserved over any number of withdrawals: balance,
\* what is on its way and what the chain paid make up the opening balance.
THEOREM BalanceAlwaysConserved == Spec => []BalanceConserved
<1>1. SafeInv /\ BooksInv => BalanceConserved
  BY KeptIsOwed DEF BooksInv, BalanceConserved
<1> QED BY <1>1, BooksAlways, PTL

\* What is in flight and what a day pays out, from the books.
LEMMA LimitsFollow == SafeInv /\ BooksInv => LimitsHold
<1>1. ASSUME SafeInv, BooksInv PROVE LimitsHold
  <2> SUFFICES ASSUME NEW u \in Users
               PROVE  /\ Cardinality(InFlight(u)) <= 1
                      /\ \A d \in 0 .. day :
                           AmountOf({w \in Rows : Owner[w] = u /\ row[w].day = d /\ Payments(w) # {}})
                             <= DailyLimit
    BY DEF LimitsHold
  <2>1. Cardinality(InFlight(u)) <= 1
    <3>1. CASE InFlight(u) = {}
      BY <3>1, FS_EmptySet
    <3>2. CASE InFlight(u) # {}
      <4>1. PICK w : w \in InFlight(u)
        BY <3>2
      <4>2. InFlight(u) = {w}
        BY <1>1, <4>1 DEF BooksInv
      <4> QED BY <4>2, FS_Singleton
    <3> QED BY <3>1, <3>2
  <2>2. ASSUME NEW d \in 0 .. day
        PROVE  AmountOf({w \in Rows : Owner[w] = u /\ row[w].day = d /\ Payments(w) # {}})
                 <= DailyLimit
    <3> DEFINE S == {w \in Rows : Owner[w] = u /\ row[w].day = d /\ Payments(w) # {}}
    <3>1. S \subseteq CountedOn(u, d)
      BY <1>1, PaidIsStored DEF CountedOn
    <3>2. \A w \in CountedOn(u, d) : debited[w] \in Nat
      BY <1>1, DebitedType, BooksFinite DEF SafeInv
    <3>3. IsFiniteSet(CountedOn(u, d)) /\ IsFiniteSet(S)
      BY <1>1, <3>1, BooksFinite, FS_Subset
    <3> HIDE DEF S
    <3>4. SumOver(debited, S) <= SumOver(debited, CountedOn(u, d))
      BY <3>1, <3>2, <3>3, SumMono
    <3>5. SumOver(debited, S) \in Nat /\ SumOver(debited, CountedOn(u, d)) \in Nat
      BY <3>1, <3>2, <3>3, SumNat
    <3>6. SumOver(debited, CountedOn(u, d)) <= DailyLimit /\ DailyLimit \in Nat
      BY <1>1, Sums0, DayWithin, ConstantsAssumption
    <3>7. AmountOf(S) <= DailyLimit
      BY <3>4, <3>5, <3>6, Sums0
    <3> QED BY <3>7 DEF S
  <2> QED BY <2>1, <2>2
<1> QED BY <1>1

\* One withdrawal in flight per user, and no day pays out more than its limit.
THEOREM LimitsAlwaysHold == Spec => []LimitsHold
  BY LimitsFollow, BooksAlways, PTL

\* A confirmed or refunded row never changes again, and the attempt counter
\* that bounds the retries only ever counts up by one.
THEOREM SettledForGood == Spec => SettledIsFinal
<1>1. SafeInv /\ BooksInv /\ [Next]_vars =>
        [\A w \in Rows :
           /\ row[w].status \in {"confirmed", "failed"} => row'[w] = row[w]
           /\ row'[w].attempts \in {row[w].attempts, row[w].attempts + 1}]_vars
  BY FinalStep DEF SafeInv
<1> QED BY <1>1, BooksAlways, PTL DEF Spec, SettledIsFinal

-----------------------------------------------------------------------------
(***************************************************************************)
(* The refinement: under the mapping of CustodyWithdrawal every step of    *)
(* the machine is one step of the promise, or none.                        *)
(***************************************************************************)
LEMMA FinallyPaidIs ==
  ASSUME NEW w
  PROVE  /\ FinallyPaid(w) <=> \E t \in landed : t.row = w /\ t.ok /\ t.block <= height
         /\ FinallyPaid(w)' <=> \E t \in landed' : t.row = w /\ t.ok /\ t.block <= height'
  BY DEF FinallyPaid, Payments

\* Where a withdrawal stands, as a function of what the machine keeps.
LEMMA PhaseIs ==
  ASSUME SafeInv, NEW w \in Rows
  PROVE  /\ row[w].status = "none" => ~FinallyPaid(w) /\ Phase(w) = "none"
         /\ row[w].status = "failed" => ~FinallyPaid(w) /\ Phase(w) = "returned"
         /\ row[w].status \in {"pending", "sent", "confirmed"} =>
              Phase(w) = IF FinallyPaid(w) THEN "paid" ELSE "owed"
<1>1. FinallyPaid(w) => row[w].status \in {"sent", "confirmed"}
  BY PaidIsStored DEF FinallyPaid
<1>2. row[w].status \in Statuses
  BY Fields DEF SafeInv
<1> QED BY <1>1, <1>2 DEF Phase, Statuses

\* The same as an implication ...
LEMMA PhaseImp ==
  ASSUME NEW w \in Rows
  PROVE  SafeInv =>
           /\ row[w].status = "none" => ~FinallyPaid(w) /\ Phase(w) = "none"
           /\ row[w].status = "failed" => ~FinallyPaid(w) /\ Phase(w) = "returned"
           /\ row[w].status \in {"pending", "sent", "confirmed"} =>
                Phase(w) = IF FinallyPaid(w) THEN "paid" ELSE "owed"
  BY PhaseIs

\* ... and one step later.
LEMMA PhaseNextIs ==
  ASSUME NEW w \in Rows
  PROVE  SafeInv' =>
           /\ row'[w].status = "none" => ~FinallyPaid(w)' /\ Phase(w)' = "none"
           /\ row'[w].status = "failed" => ~FinallyPaid(w)' /\ Phase(w)' = "returned"
           /\ row'[w].status \in {"pending", "sent", "confirmed"} =>
                Phase(w)' = IF FinallyPaid(w)' THEN "paid" ELSE "owed"
<1>1. (SafeInv =>
         /\ row[w].status = "none" => ~FinallyPaid(w) /\ Phase(w) = "none"
         /\ row[w].status = "failed" => ~FinallyPaid(w) /\ Phase(w) = "returned"
         /\ row[w].status \in {"pending", "sent", "confirmed"} =>
              Phase(w) = IF FinallyPaid(w) THEN "paid" ELSE "owed")'
  BY PhaseImp, PTL
<1> QED BY <1>1

\* A landing or a fork changes nothing that is final.
LEMMA FinalityStep ==
  ASSUME SafeInv, [Next]_vars, NEW w \in Rows
  PROVE  /\ FinallyPaid(w) => FinallyPaid(w)'
         /\ ~AdvanceHeight => (FinallyPaid(w)' => FinallyPaid(w))
<1>0. height \in Nat /\ \A t \in landed : t.block \in Nat
  BY DEF SafeInv, TypeOK, Landing
<1>1. CASE \E s \in net, ok \in BOOLEAN : Land(s[1], s[2], ok)
  <2>1. PICK s \in net, ok \in BOOLEAN : Land(s[1], s[2], ok)
    BY <1>1
  <2>2. PICK v : /\ v = [row |-> s[1], sig |-> s[2], block |-> height + 1, ok |-> ok]
                 /\ landed' = landed \cup {v} /\ height' = height
    BY <2>1 DEF Land
  <2>3. ~(v.block <= height)
    BY <1>0, <2>2
  <2> QED BY <2>2, <2>3, FinallyPaidIs
<1>2. CASE \E t \in landed : ForkDrops(t)
  <2>1. PICK v \in landed : v.block = height + 1 /\ landed' = landed \ {v} /\ height' = height
    BY <1>2 DEF ForkDrops
  <2>2. ~(v.block <= height)
    BY <1>0, <2>1
  <2> QED BY <2>1, <2>2, FinallyPaidIs
<1>3. CASE AdvanceHeight
  <2>1. height' = height + 1 /\ landed' = landed
    BY <1>3 DEF AdvanceHeight
  <2>2. \A t \in landed : t.block <= height => t.block <= height'
    BY <1>0, <2>1
  <2> QED BY <1>3, <2>1, <2>2, FinallyPaidIs
<1>4. CASE UNCHANGED <<height, landed>>
  BY <1>4, FinallyPaidIs
<1> QED BY <1>1, <1>2, <1>3, <1>4, LedgerSteps

\* The initial states are initial states of the promise.
LEMMA PayoutInit == Init => Payout!PInit
<1> SUFFICES ASSUME Init PROVE Payout!PInit
  OBVIOUS
<1>1. \A w \in Rows : row[w].status = "none" /\ row[w].amount = 0
  BY DEF Init, NoRow
<1>2. \A w \in Rows : Phase(w) = "none"
  BY <1>1, SafeInit, PhaseIs
<1> QED BY <1>1, <1>2 DEF Init, Payout!PInit

\* Each step is a step of the promise or leaves it alone.
LEMMA PayoutStep ==
  ASSUME SafeInv, SafeInv', [Next]_vars
  PROVE  [Payout!PNext]_(Payout!payoutVars)
<1>0. TypeOK /\ DriversKnow
  BY DEF SafeInv
<1>1. ASSUME NEW w \in Rows, NEW a \in Amounts, Request(w, a)
      PROVE  Payout!Owe(w, a)
  <2>1. /\ row[w].status = "none" /\ balance[Owner[w]] >= a
        /\ balance' = [balance EXCEPT ![Owner[w]] = @ - a]
        /\ row' = [row EXCEPT ![w] = [status |-> "pending", sig |-> NoSig, attempts |-> 0,
                                      amount |-> a, day |-> day]]
        /\ UNCHANGED <<height, landed>>
    BY <1>1 DEF Request, Debit, chainVars
  <2>2. /\ row'[w].status = "pending" /\ row'[w].amount = a
        /\ \A v \in Rows \ {w} : row'[v] = row[v]
    BY <1>0, <2>1 DEF TypeOK
  <2>3. \A v \in Rows : FinallyPaid(v)' <=> FinallyPaid(v)
    BY <2>1, FinallyPaidIs
  <2>4. Phase(w) = "none" /\ Phase(w)' = "owed"
    BY <2>1, <2>2, <2>3, PhaseIs, PhaseNextIs
  <2>5. ASSUME NEW v \in Rows \ {w} PROVE Phase(v)' = Phase(v)
    <3>1. row'[v].status = row[v].status /\ row[v].status \in Statuses
      BY <1>0, <2>2, Fields
    <3> QED BY <2>3, <3>1, PhaseIs, PhaseNextIs DEF Statuses
  <2>6. [v \in Rows |-> Phase(v)]' = [[v \in Rows |-> Phase(v)] EXCEPT ![w] = "owed"]
    BY <2>4, <2>5
  <2>7. [v \in Rows |-> row[v].amount]' = [[v \in Rows |-> row[v].amount] EXCEPT ![w] = a]
    BY <2>2
  <2> QED BY <2>1, <2>4, <2>6, <2>7 DEF Payout!Owe
<1>2. ASSUME NEW w \in Rows, Returned(w)
      PROVE  Payout!Return(w)
  <2>1. /\ row[w].status \in {"pending", "sent"}
        /\ row' = [row EXCEPT ![w].status = "failed"]
        /\ balance' = [balance EXCEPT ![Owner[w]] = @ + row[w].amount]
        /\ UNCHANGED <<height, landed>>
    BY <1>2 DEF Returned
  <2>2. /\ row'[w].status = "failed" /\ \A v \in Rows \ {w} : row'[v] = row[v]
        /\ \A v \in Rows : row'[v].amount = row[v].amount
    BY <1>0, <2>1 DEF TypeOK, Row
  <2>3. \A v \in Rows : FinallyPaid(v)' <=> FinallyPaid(v)
    BY <2>1, FinallyPaidIs
  <2>4. Phase(w) = "owed" /\ Phase(w)' = "returned"
    BY <2>1, <2>2, <2>3, PhaseIs, PhaseNextIs
  <2>5. ASSUME NEW v \in Rows \ {w} PROVE Phase(v)' = Phase(v)
    <3>1. row'[v].status = row[v].status /\ row[v].status \in Statuses
      BY <1>0, <2>2, Fields
    <3> QED BY <2>3, <3>1, PhaseIs, PhaseNextIs DEF Statuses
  <2>6. [v \in Rows |-> Phase(v)]' = [[v \in Rows |-> Phase(v)] EXCEPT ![w] = "returned"]
    BY <2>4, <2>5
  <2>7. [v \in Rows |-> row[v].amount]' = [v \in Rows |-> row[v].amount]
    BY <2>2
  <2> QED BY <2>1, <2>4, <2>6, <2>7 DEF Payout!Return
<1>3. ASSUME balance' = balance, \A w \in Rows : Carried(w)
      PROVE  Payout!PNext \/ UNCHANGED Payout!payoutVars
  <2>1. [v \in Rows |-> row[v].amount]' = [v \in Rows |-> row[v].amount]
    BY <1>3 DEF Carried
  <2>2. \A w \in Rows : /\ row[w].status = "none" <=> row'[w].status = "none"
                        /\ row[w].status = "failed" <=> row'[w].status = "failed"
    BY <1>3 DEF Carried
  <2>3. \A w \in Rows : row[w].status \in Statuses /\ row'[w].status \in Statuses
    BY DEF SafeInv, TypeOK, Row
  <2>4. ASSUME NEW w \in Rows
        PROVE  Phase(w)' = IF FinallyPaid(w)' /\ ~FinallyPaid(w) THEN "paid" ELSE Phase(w)
    BY <2>2, <2>3, PhaseIs, PhaseNextIs, FinalityStep DEF Statuses
  <2>5. ASSUME NEW w \in Rows, FinallyPaid(w)', ~FinallyPaid(w) PROVE Phase(w) = "owed"
    BY <2>2, <2>3, <2>5, PhaseIs, PhaseNextIs DEF Statuses
  <2> DEFINE S == {w \in Rows : FinallyPaid(w)' /\ ~FinallyPaid(w)}
  <2>6. [w \in Rows |-> Phase(w)]' = [w \in Rows |-> IF w \in S THEN "paid" ELSE Phase(w)]
    BY <2>4
  <2>7. CASE S = {}
    <3>1. [w \in Rows |-> Phase(w)]' = [w \in Rows |-> Phase(w)]
      BY <2>6, <2>7
    <3> QED BY <1>3, <2>1, <3>1 DEF Payout!payoutVars
  <2>8. CASE S # {}
    <3>1. S \in SUBSET Rows /\ \A w \in S : Phase(w) = "owed"
      BY <2>5
    <3> HIDE DEF S
    <3>2. Payout!Pay(S)
      BY <1>3, <2>1, <2>6, <2>8, <3>1 DEF Payout!Pay
    <3> QED BY <3>1, <3>2 DEF Payout!PNext
  <2> QED BY <2>7, <2>8
<1> QED BY <1>0, <1>1, <1>2, <1>3, BookSteps DEF Payout!PNext

\* The machine of racing, crashing, retrying drivers keeps the promise: what is
\* debited is paid once or returned once, never both (withdrawal.service.ts).
THEOREM KeepsThePromise == Spec => ImplementsPayout
<1>1. SafeInv /\ SafeInv' /\ [Next]_vars => [Payout!PNext]_(Payout!payoutVars)
  BY PayoutStep
<1>2. Spec => []SafeInv
  BY BooksAlways, PTL
<1> QED BY <1>1, <1>2, PayoutInit, PTL DEF Spec, ImplementsPayout, Payout!PSpec
=============================================================================
