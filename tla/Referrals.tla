------------------------------ MODULE Referrals ------------------------------
(***************************************************************************)
(* AffiliatesService for one referrer: every settlement of a referred      *)
(* player accrues volume and commission on the player's Referral row, in   *)
(* the settlement's own transaction, and claims pay out what has accrued.  *)
(* A claim is a serializable transaction: what it read is what it commits  *)
(* on, or the database makes it start over.                                *)
(***************************************************************************)
EXTENDS Naturals, FiniteSets, FiniteSetsExt, Sequences

CONSTANTS
  Referrer, Referees,
  SameIp,      \* referees that signed up from the referrer's address
  Stakes,
  Thresholds,  \* TIER_THRESHOLDS_LAMPORTS
  Rates,       \* TIER_COMMISSION, in Unit-ths
  Edge,        \* GAME_HOUSE_EDGE, in Unit-ths
  Unit,        \* PPM
  Claims,      \* claim requests
  MaxVolume    \* bound: volume of the referrer

VARIABLES
  ref,       \* Referral rows: volume, commission, claimed, flagged
  funded,    \* who has made a first deposit, players and the referrer
  paid,      \* what claims have credited
  claim      \* the claims: the rows read

refVars == <<ref, funded, paid, claim>>
Nothing == <<>>
NoRow == [volume |-> 0, commission |-> 0, claimed |-> 0, flagged |-> FALSE]

Init ==
  /\ ref = [e \in Referees |-> NoRow]
  /\ funded = {} /\ paid = 0
  /\ claim = [c \in Claims |-> Nothing]

Total(f(_)) == MapThenSumSet(f, Referees)

\* tierCommission: the highest tier whose threshold the volume has reached.
TierCommission(v) == Rates[Max({1} \cup {i \in DOMAIN Thresholds : v >= Thresholds[i]})]

\* A share of the stake.
ShareOfStake(stake, rate) == (stake * rate) \div Unit

\* referralCommission: a share of what the house expects to keep.
ReferralCommission(stake, rate) == (stake * Edge * rate) \div (Unit * Unit)

SharesEconomy(e) == (e \in funded) <=> (Referrer \in funded)

\* creditReferral, inside a settlement
CreditReferral(e, stake) ==
  LET rate == TierCommission(Total(LAMBDA x : ref[x].volume))
      earns == e \notin SameIp /\ SharesEconomy(e)
  IN
  /\ Total(LAMBDA x : ref[x].volume) + stake <= MaxVolume
  /\ ref' = [ref EXCEPT ![e] =
       [@ EXCEPT !.volume = @ + stake,
                 !.commission = @ + (IF earns THEN ReferralCommission(stake, rate) ELSE 0),
                 !.flagged = @ \/ e \in SameIp]]
  /\ UNCHANGED <<funded, paid, claim>>

FirstDeposit(p) ==
  /\ p \notin funded /\ funded' = funded \cup {p}
  /\ UNCHANGED <<ref, paid, claim>>

Claimable == {e \in Referees : ~ref[e].flagged /\ ref[e].commission > ref[e].claimed}

ClaimRead(c) ==
  /\ claim[c] = Nothing /\ Claimable # {}
  /\ claim' = [claim EXCEPT ![c] = <<ref>>]
  /\ UNCHANGED <<ref, funded, paid>>

\* The transaction commits on rows that have changed since.
ReadCommitted(c) == TRUE

\* Serializable: nothing it read has changed.
Unconflicted(c) == \A e \in Referees : claim[c][1][e].claimed = ref[e].claimed
                                    /\ claim[c][1][e].commission = ref[e].commission

\* The markers are advanced to what was read, and the difference is credited.
ClaimCommit(c) ==
  LET read == claim[c][1]
      due == {e \in Referees : ~read[e].flagged /\ read[e].commission > read[e].claimed}
  IN
  /\ claim[c] # Nothing /\ Unconflicted(c)
  /\ ref' = [e \in Referees |-> IF e \in due THEN [ref[e] EXCEPT !.claimed = read[e].commission] ELSE ref[e]]
  /\ paid' = paid + MapThenSumSet(LAMBDA e : read[e].commission - read[e].claimed, due)
  /\ claim' = [claim EXCEPT ![c] = Nothing]
  /\ UNCHANGED funded

\* A conflict: the transaction is rolled back and retried, or fails.
ClaimConflict(c) ==
  /\ claim[c] # Nothing /\ ~Unconflicted(c)
  /\ claim' = [claim EXCEPT ![c] = Nothing]
  /\ UNCHANGED <<ref, funded, paid>>

Next ==
  \/ \E e \in Referees, stake \in Stakes : CreditReferral(e, stake)
  \/ \E p \in Referees \cup {Referrer} : FirstDeposit(p)
  \/ \E c \in Claims : ClaimRead(c) \/ ClaimCommit(c) \/ ClaimConflict(c)

Spec == Init /\ [][Next]_refVars

-----------------------------------------------------------------------------
ReferralsTypeOK ==
  /\ \A e \in Referees : ref[e].volume \in Nat /\ ref[e].claimed <= ref[e].commission
  /\ paid \in Nat

(* "Every lamport of commission is paid at most once": what claims have     *)
(* credited is what the rows' markers say, and no more than was earned,     *)
(* when two claims and settlements run together.                            *)
CommissionPaidOnce == paid = Total(LAMBDA e : ref[e].claimed) /\ paid <= Total(LAMBDA e : ref[e].commission)

(* Commission is "a share of what the house expects to KEEP": over all       *)
(* settlements, rounding and tier changes included, it stays below the top  *)
(* rate of the edge on the volume.                                          *)
CommissionWithinEdge ==
  \A e \in Referees :
    ref[e].commission * Unit * Unit <= ref[e].volume * Edge * Rates[Len(Rates)]
==============================================================================
