----------------------------- MODULE CustodyPayout -----------------------------
(***************************************************************************)
(* What a withdrawal promises the player, with no chain, driver or retry   *)
(* in sight: a debited amount is owed until it is either paid once or      *)
(* returned once, never both.  CustodyWithdrawal implements it.            *)
(***************************************************************************)
EXTENDS Integers

CONSTANTS Users, Rows, Owner, Amounts, InitBalance

VARIABLES
  phase,    \* of each withdrawal
  amount,   \* what was debited for it
  funds     \* what each user can spend

payoutVars == <<phase, amount, funds>>

PInit ==
  /\ phase = [w \in Rows |-> "none"]
  /\ amount = [w \in Rows |-> 0]
  /\ funds = [u \in Users |-> InitBalance]

Owe(w, a) ==
  /\ phase[w] = "none"
  /\ funds[Owner[w]] >= a
  /\ phase' = [phase EXCEPT ![w] = "owed"]
  /\ amount' = [amount EXCEPT ![w] = a]
  /\ funds' = [funds EXCEPT ![Owner[w]] = @ - a]

\* One block may pay several withdrawals.
Pay(S) ==
  /\ S # {}
  /\ \A w \in S : phase[w] = "owed"
  /\ phase' = [w \in Rows |-> IF w \in S THEN "paid" ELSE phase[w]]
  /\ UNCHANGED <<amount, funds>>

Return(w) ==
  /\ phase[w] = "owed"
  /\ phase' = [phase EXCEPT ![w] = "returned"]
  /\ funds' = [funds EXCEPT ![Owner[w]] = @ + amount[w]]
  /\ UNCHANGED amount

PNext ==
  \/ \E w \in Rows, a \in Amounts : Owe(w, a)
  \/ \E S \in SUBSET Rows : Pay(S)
  \/ \E w \in Rows : Return(w)

PSpec == PInit /\ [][PNext]_payoutVars
=============================================================================
