--------------------------- MODULE Reconciliation ---------------------------
(***************************************************************************)
(* The drift sweeps of ReconciliationService over the balance ledger.      *)
(* Every movement of a balance goes through applyBalanceDelta, which       *)
(* stamps the balance after it on a ledger row of that currency; a bet     *)
(* also moves the player's aggregates with its Bet row.  A sweep runs in a *)
(* database transaction of the default isolation, so each of its           *)
(* statements sees what was committed when that statement began, and other *)
(* transactions commit in between.                                         *)
(***************************************************************************)
EXTENDS Integers, Sequences, FiniteSets

CONSTANTS
  Users,
  Opening,       \* the default play balance of a new user, which is not ledgered
  Cap,           \* maxBalance of a capped credit
  SweepWindows,  \* {"same_ms"} lets two rows of one user carry one createdAt
  MaxMoves,      \* bound: committed movements
  MaxSweeps      \* bound: sweeps

Ledgered == {"playBalanceLamports", "scadiumBalance", "scadiumStaked"}
Fields == Ledgered \cup {"totalWagered"}
Job == [reconcileAll |-> {"playBalanceLamports", "totalWagered"},
        stakeLedgerDrift |-> {"scadiumStaked"},
        scadLedgerDrift |-> {"scadiumBalance"}]
None == -1

VARIABLES
  stored,    \* the columns of User
  rows,      \* BalanceLedger: field and balanceAfter of each row, oldest first
  bets,      \* the sum over a user's Bet rows
  direct,    \* columns whose last write went past the ledger
  sweep,     \* the running sweep: statements done, and what they returned
  flagged,   \* what the last finished sweep appended to ReconciliationDrift
  busy,      \* fields written while the running, or last, sweep ran
  moves, sweeps

dataVars == <<stored, rows, bets, direct>>
vars == <<dataVars, sweep, flagged, busy, moves, sweeps>>
NoSweep == [job |-> "none"]

Init ==
  /\ stored = [u \in Users |-> [f \in Fields |-> IF f = "playBalanceLamports" THEN Opening ELSE 0]]
  /\ rows = [u \in Users |-> <<>>]
  /\ bets = [u \in Users |-> 0]
  /\ direct = {}
  /\ sweep = NoSweep /\ flagged = {} /\ busy = {}
  /\ moves = 0 /\ sweeps = 0

-----------------------------------------------------------------------------
(* Movements.                                                              *)

Moved(written) ==
  /\ moves < MaxMoves /\ moves' = moves + 1
  /\ busy' = busy \cup written
  /\ UNCHANGED <<sweep, flagged, sweeps>>

Row(f, after) == [field |-> f, after |-> after]

\* A debit needs the funds and a capped credit the room; the row is of the balance after it.
Allowed(u, f, delta) == stored[u][f] + delta \in 0..Cap

ApplyBalanceDelta(u, f, delta) ==
  /\ Allowed(u, f, delta)
  /\ stored' = [stored EXCEPT ![u][f] = @ + delta]
  /\ rows' = [rows EXCEPT ![u] = Append(@, Row(f, stored[u][f] + delta))]
  /\ direct' = direct \ {<<u, f>>}
  /\ UNCHANGED bets
  /\ Moved({<<u, f>>})

\* A bet: the stake or the win, the Bet row and the aggregates in one transaction.
SettleBet(u, delta) ==
  /\ Allowed(u, "playBalanceLamports", delta)
  /\ stored' = [stored EXCEPT ![u]["playBalanceLamports"] = @ + delta,
                              ![u]["totalWagered"] = @ + 1]
  /\ rows' = [rows EXCEPT ![u] = Append(@, Row("playBalanceLamports", stored[u]["playBalanceLamports"] + delta))]
  /\ bets' = [bets EXCEPT ![u] = @ + 1]
  /\ direct' = direct \ {<<u, "playBalanceLamports">>}
  /\ Moved({<<u, "playBalanceLamports">>, <<u, "totalWagered">>})

\* A write that bypasses applyBalanceDelta: the fault the sweeps look for.
DirectWrite(u, f) ==
  /\ <<u, f>> \notin direct
  /\ stored' = [stored EXCEPT ![u][f] = @ + 1]
  /\ direct' = direct \cup {<<u, f>>}
  /\ UNCHANGED <<rows, bets>>
  /\ Moved({<<u, f>>})

-----------------------------------------------------------------------------
(* Sweeps.                                                                 *)

\* The newest row of the user, whatever it is a row of.
LatestOfAny(u, f) == {IF rows[u] = <<>> THEN None ELSE rows[u][Len(rows[u])].after}

\* ROW_NUMBER() = 1 of one currency by createdAt, id: of rows of one millisecond, any.
Latest(u, f) ==
  LET mine == SelectSeq(rows[u], LAMBDA r : r.field = f)
      n == Len(mine)
  IN
  IF n = 0 THEN {None}
  ELSE {mine[n].after} \cup {mine[i].after : i \in IF "same_ms" \in SweepWindows /\ n > 1 THEN {n - 1} ELSE {}}

\* The first statement: the Bet sums.
ReadBets ==
  /\ sweep = NoSweep /\ sweeps < MaxSweeps
  /\ sweep' = [job |-> "reconcileAll", at |-> "ledger", bets |-> bets]
  /\ busy' = {} /\ sweeps' = sweeps + 1
  /\ UNCHANGED <<dataVars, flagged, moves>>

\* The ledger statement of reconcileAll, and the first one of the other two sweeps.
ReadLedger(job) ==
  /\ \/ job = "reconcileAll" /\ sweep # NoSweep /\ sweep.at = "ledger"
        /\ UNCHANGED <<busy, sweeps>>
     \/ job # "reconcileAll" /\ sweep = NoSweep /\ sweeps < MaxSweeps
        /\ busy' = {} /\ sweeps' = sweeps + 1
  /\ \E latest \in [Users \X (Job[job] \cap Ledgered) -> UNION {Latest(u, f) : u \in Users, f \in Ledgered}] :
       /\ \A u \in Users, f \in Job[job] \cap Ledgered : latest[u, f] \in Latest(u, f)
       /\ sweep' = [job |-> job, at |-> "users", latest |-> latest,
                    bets |-> IF job = "reconcileAll" THEN sweep.bets ELSE bets]
  /\ UNCHANGED <<dataVars, flagged, moves>>

\* No column without a row is compared.
DerivedFromRows(u, f) ==
  IF f = "totalWagered" THEN sweep.bets[u]
  ELSE IF sweep.latest[u, f] # None THEN sweep.latest[u, f] ELSE stored[u][f]

\* What a column is compared with; a play balance without a row is not compared.
Derived(u, f) ==
  IF f = "totalWagered" THEN sweep.bets[u]
  ELSE IF sweep.latest[u, f] # None THEN sweep.latest[u, f]
  ELSE IF f = "playBalanceLamports" THEN stored[u][f] ELSE 0

\* The last statement: the users, and a drift row for every mismatch.
ReadUsers ==
  /\ sweep # NoSweep /\ sweep.at = "users"
  /\ flagged' = {<<u, f>> \in Users \X Job[sweep.job] : stored[u][f] # Derived(u, f)}
  /\ sweep' = NoSweep
  /\ UNCHANGED <<dataVars, busy, moves, sweeps>>

Next ==
  \/ \E u \in Users :
       \/ \E delta \in {-1, 1} :
            SettleBet(u, delta) \/ \E f \in Ledgered : ApplyBalanceDelta(u, f, delta)
       \/ \E f \in Fields : DirectWrite(u, f)
  \/ ReadBets \/ ReadUsers
  \/ \E job \in DOMAIN Job : ReadLedger(job)

Spec == Init /\ [][Next]_vars

-----------------------------------------------------------------------------
TypeOK ==
  /\ \A u \in Users : stored[u] \in [Fields -> Nat] /\ bets[u] \in Nat
  /\ flagged \subseteq Users \X Fields /\ direct \subseteq Users \X Fields
  /\ sweep.job \in DOMAIN Job \cup {"none"}

(* "An untampered user always matches": a drift row is of a column somebody *)
(* wrote past the ledger, or, since each statement of a sweep has its own   *)
(* snapshot, of one that was being written while the sweep ran.  Nothing    *)
(* else is ever flagged, whatever other currencies moved meanwhile.         *)
FlagsExplained == flagged' # flagged => flagged' \subseteq direct \cup busy
DriftExplained == [][FlagsExplained]_vars

(* "A direct (non-ledgered) write to the balance is flagged": a sweep flags *)
(* every column of its job that was last written past the ledger and that   *)
(* nobody wrote while it ran; a play balance only if it has a row.          *)
SweepFindsAll ==
  sweep # NoSweep /\ sweep' = NoSweep =>
    \A u \in Users, f \in Job[sweep.job] :
      <<u, f>> \in direct \ busy =>
        \/ <<u, f>> \in flagged'
        \/ f = "playBalanceLamports" /\ ~\E i \in DOMAIN rows[u] : rows[u][i].field = f
DirectWritesFound == [][SweepFindsAll]_vars

(* "So an untampered user always matches": no column is flagged unless it   *)
(* was written past the ledger.                                             *)
UntamperedMatches == [][flagged' # flagged => flagged' \subseteq direct]_vars
=============================================================================
