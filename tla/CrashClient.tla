----------------------------- MODULE CrashClient -----------------------------
(***************************************************************************)
(* The crash page of one player (apps/web/src/hooks/use-crash.ts and       *)
(* app/crash/crash-bet-panel.tsx): the round on the screen follows the     *)
(* events of a socket that drops, and a REST snapshot asked for on mount   *)
(* and on every connect, whose answer may arrive at any later time.        *)
(*                                                                         *)
(* The server is reduced to the round it plays, the player's bet in it     *)
(* and the queued bet.  Events of one connection arrive in order; a drop   *)
(* loses the ones on the way.                                              *)
(***************************************************************************)
EXTENDS Naturals, Sequences

CONSTANTS
  ScreenWindows,   \* orders of arrivals that are let happen, see the README
  MaxRounds, MaxDrops   \* bounds

VARIABLES
  srv,        \* round, phase, the player's bet in it, a bet queued for the next
  result,     \* what became of the player's bet, by round
  wire, sent, \* events on the way, events sent so far
  connected,  \* the hook's flag
  seq,        \* eventSeq
  heard,      \* number of the last event the screen has taken in
  shown,      \* state of the hook: round 0 before the first
  snaps,      \* snapshot requests under way, oldest first
  interrupted,
  panel,      \* busy request, scheduled flag
  myRounds,   \* rounds the page has seen a bet of the player's in
  auto,       \* one iteration of the auto-bet loop: runRound
  told, missed,   \* rounds reported as interrupted, rounds that left the screen unseen
  drops

clientVars == <<srv, result, wire, sent, connected, seq, heard, shown, snaps, interrupted,
                panel, myRounds, auto, told, missed, drops>>

RoundNos == 1..MaxRounds
Phases == {"waiting", "running", "busted"}
Blank == [round |-> 0, phase |-> "waiting", bet |-> "none", paid |-> 0]
Idle == [at |-> "off", round |-> 0, payout |-> "none"]

CrashClientInit ==
  /\ srv = [round |-> 1, phase |-> "waiting", bet |-> "none", queued |-> FALSE]
  /\ result = [r \in RoundNos |-> "none"]
  /\ wire = <<>> /\ sent = 0 /\ connected = FALSE /\ seq = 0 /\ heard = 0
  /\ shown = Blank
  /\ snaps = <<[reason |-> "mount", seq |-> 0, before |-> Blank, snap |-> Blank, n |-> 0]>>
  /\ interrupted = 0
  /\ panel = [busy |-> "no", scheduled |-> FALSE]
  /\ myRounds = {} /\ auto = Idle /\ told = {} /\ missed = {} /\ drops = 0

-----------------------------------------------------------------------------
(* The server, as far as the page can tell.                                *)

\* Events are numbered; the ones sent while nobody is connected are lost.
Emit(es) ==
  /\ sent' = sent + Len(es)
  /\ wire' = IF connected
                THEN wire \o [k \in DOMAIN es |-> [type |-> es[k].type, round |-> es[k].round,
                                                  n |-> sent + k]]
                ELSE wire
Event(type) == [type |-> type, round |-> srv.round]
Snapshot == [round |-> srv.round, phase |-> srv.phase, bet |-> srv.bet,
             paid |-> IF srv.bet = "out" THEN 1 ELSE 0]
Outcome == CASE srv.bet = "in" -> "lost" [] srv.bet = "out" -> "won" [] OTHER -> "none"
page == <<connected, seq, heard, shown, interrupted, panel, myRounds, auto, told, missed>>

SrvRun ==
  /\ srv.phase = "waiting"
  /\ srv' = [srv EXCEPT !.phase = "running"]
  /\ Emit(<<Event("running")>>)
  /\ UNCHANGED <<result, snaps, drops, page>>

SrvBust ==
  /\ srv.phase = "running"
  /\ srv' = [srv EXCEPT !.phase = "busted"]
  /\ Emit(<<Event("bust")>>)
  /\ UNCHANGED <<result, snaps, drops, page>>

\* The round is settled, the next one opens and takes the queued bet.
SrvNext ==
  /\ srv.phase = "busted" /\ srv.round < MaxRounds
  /\ result' = [result EXCEPT ![srv.round] = Outcome]
  /\ srv' = [round |-> srv.round + 1, phase |-> "waiting",
             bet |-> IF srv.queued THEN "in" ELSE "none", queued |-> FALSE]
  /\ Emit(<<[type |-> "start", round |-> srv.round + 1]>> \o
          (IF srv.queued THEN <<[type |-> "placed", round |-> srv.round + 1]>> ELSE <<>>))
  /\ UNCHANGED <<snaps, drops, page>>

\* A restart: what still rides and what is queued is returned, the sockets drop.
SrvRestart ==
  /\ srv.phase # "busted" /\ srv.round < MaxRounds /\ drops < MaxDrops
  /\ result' = [result EXCEPT ![srv.round] = IF srv.bet = "in" THEN "refunded" ELSE Outcome]
  /\ srv' = [round |-> srv.round + 1, phase |-> "waiting", bet |-> "none", queued |-> FALSE]
  /\ wire' = <<>> /\ sent' = sent + 1 /\ connected' = FALSE /\ drops' = drops + 1
  /\ UNCHANGED <<snaps, seq, heard, shown, interrupted, panel, myRounds, auto, told, missed>>

-----------------------------------------------------------------------------
(* useCrash.                                                               *)

Phase(e) == e.type \in {"start", "running", "bust"}

\* The page sees a new state; a bet of the player's in it is remembered, and it
\* clears the `scheduled' flag when it appears in a waiting round.
Show(s) ==
  /\ shown' = s
  /\ myRounds' = IF s.bet = "none" THEN myRounds ELSE myRounds \cup {s.round}
  /\ missed' = IF shown.round \in myRounds /\ shown.round # s.round /\ shown.phase # "busted"
                 THEN missed \cup {shown.round} ELSE missed

Unlocked(s, told1) ==
  panel' = IF told1 \/ (s.phase = "waiting" /\ s.bet # "none")
             THEN [panel EXCEPT !.scheduled = FALSE] ELSE panel

Running(s, e) == IF s.round = e.round THEN [s EXCEPT !.phase = "running"] ELSE s

RoundStart(e) == [round |-> e.round, phase |-> "waiting", bet |-> "none", paid |-> 0]
Busted(s, e) == IF s.round = e.round THEN [s EXCEPT !.phase = "busted"] ELSE s
BetPlaced(s, e) == IF s.round = e.round THEN [s EXCEPT !.bet = "in", !.paid = 0] ELSE s
CashedOut(s, e) ==
  IF s.round = e.round /\ s.bet # "none" THEN [s EXCEPT !.bet = "out", !.paid = @ + 1] ELSE s

Applied(s, e) ==
  CASE e.type = "start" -> RoundStart(e)
    [] e.type = "running" -> Running(s, e)
    [] e.type = "bust" -> Busted(s, e)
    [] e.type = "placed" -> BetPlaced(s, e)
    [] e.type = "cashed" -> CashedOut(s, e)

\* An event of a socket: phase events age the snapshots that are under way.
Deliver ==
  /\ wire # <<>>
  /\ LET e == Head(wire) IN
       /\ snaps # <<>> /\ (shown.round = 0 \/ e.n > heard + 1) => "late_snapshot" \in ScreenWindows
       /\ snaps # <<>> /\ ~Phase(e) => "crossing" \in ScreenWindows
       /\ heard' = IF e.n = heard + 1 THEN e.n ELSE heard
       /\ seq' = IF Phase(e) THEN seq + 1 ELSE seq
       /\ Show(Applied(shown, e))
       /\ Unlocked(Applied(shown, e), FALSE)
  /\ wire' = Tail(wire)
  /\ UNCHANGED <<srv, result, sent, connected, snaps, interrupted, auto, told, drops>>

\* applySnapshot asks.
Ask(reason) == Append(snaps, [reason |-> reason, seq |-> seq, before |-> shown, snap |-> Blank,
                              n |-> 0])

\* The server answers the request with the round as it is.
Answer(i) ==
  /\ i \in DOMAIN snaps /\ snaps[i].snap = Blank
  /\ (\E j \in 1..(i - 1) : snaps[j].snap = Blank) => "reorder" \in ScreenWindows
  /\ snaps' = [snaps EXCEPT ![i].snap = Snapshot, ![i].n = sent]
  /\ UNCHANGED <<srv, result, wire, sent, drops, page>>

\* A page that always takes the snapshot, whatever it has heard since.
TakeAlways(s) == s.snap
\* An older snapshot than what is shown is dropped (it may fill in the history).
Take(s) == IF shown.round # 0 /\ seq # s.seq THEN shown ELSE s.snap

\* The answer arrives; a round that ended unseen is reported.
Arrive(i) ==
  /\ i \in DOMAIN snaps /\ snaps[i].snap # Blank
  /\ i > 1 => "reorder" \in ScreenWindows
  /\ (\E j \in DOMAIN wire : wire[j].n <= snaps[i].n) => "crossing" \in ScreenWindows
  /\ LET s == snaps[i]
         unseen == /\ s.reason = "connect" /\ seq = s.seq /\ s.before.round # 0
                   /\ s.before.round # s.snap.round /\ s.before.phase # "busted"
     IN /\ Show(Take(s))
        /\ heard' = IF Take(s) = s.snap THEN s.n ELSE heard
        /\ Unlocked(Take(s), unseen)
        /\ interrupted' = IF unseen THEN s.before.round ELSE interrupted
        /\ told' = IF unseen THEN told \cup {s.before.round} ELSE told
  /\ snaps' = SubSeq(snaps, 1, i - 1) \o SubSeq(snaps, i + 1, Len(snaps))
  /\ UNCHANGED <<srv, result, wire, sent, connected, seq, auto, drops>>

\* The request fails and nothing is said.
SnapshotFails ==
  /\ Len(snaps) > 1 /\ drops < MaxDrops
  /\ snaps' = Tail(snaps) /\ drops' = drops + 1
  /\ UNCHANGED <<srv, result, wire, sent, page>>

Connect ==
  /\ ~connected /\ Len(snaps) < 2
  /\ connected' = TRUE
  /\ snaps' = Ask("connect")
  /\ UNCHANGED <<srv, result, wire, sent, seq, heard, shown, interrupted, panel, myRounds, auto,
                 told, missed, drops>>

Disconnect ==
  /\ connected /\ drops < MaxDrops
  /\ connected' = FALSE /\ wire' = <<>> /\ drops' = drops + 1
  /\ UNCHANGED <<srv, result, sent, snaps, seq, heard, shown, interrupted, panel, myRounds, auto,
                 told, missed>>

DismissInterruption ==
  /\ interrupted # 0 /\ interrupted' = 0
  /\ UNCHANGED <<srv, result, wire, sent, connected, seq, heard, shown, snaps, panel, myRounds, auto, told,
                 missed, drops>>

-----------------------------------------------------------------------------
(* The panel and its requests.                                             *)

answers == <<connected, seq, heard, shown, snaps, interrupted, myRounds, told, missed, drops, result>>

CanBet == connected /\ shown.round # 0 /\ shown.phase = "waiting" /\ shown.bet = "none"
Riding == shown.phase = "running" /\ shown.bet = "in"
CanCashout == connected /\ Riding

\* The one button the panel offers.
Offered ==
  CASE Riding /\ ~connected -> "reconnecting"
    [] CanCashout -> "cashout"
    [] panel.scheduled -> "cancel"
    [] CanBet -> "place"
    [] OTHER -> "schedule"

Press ==
  /\ panel.busy = "no" /\ auto.at = "off" /\ shown.round # 0 /\ Offered # "reconnecting"
  /\ Offered = "schedule" => shown.phase # "waiting"
  /\ panel' = [panel EXCEPT !.busy = Offered]
  /\ UNCHANGED <<answers, srv, wire, sent, auto>>

Settled == panel' = [panel EXCEPT !.busy = "no"]
Open == srv.phase = "waiting" /\ srv.bet = "none"
InFlight == srv.phase = "running" /\ srv.bet = "in"

\* POST /crash/bet, and /crash/cashout: refused when the round has moved on.
PostBet ==
  IF Open THEN srv' = [srv EXCEPT !.bet = "in"] /\ Emit(<<Event("placed")>>)
  ELSE UNCHANGED <<srv, wire, sent>>
PostCashout ==
  IF InFlight THEN srv' = [srv EXCEPT !.bet = "out"] /\ Emit(<<Event("cashed")>>)
  ELSE UNCHANGED <<srv, wire, sent>>
PostSchedule == srv' = [srv EXCEPT !.queued = TRUE]
PostCancel == srv' = [srv EXCEPT !.queued = FALSE]

OnPlace ==
  /\ panel.busy = "place" /\ PostBet /\ Settled
  /\ UNCHANGED <<answers, auto>>

OnCashout ==
  /\ panel.busy = "cashout" /\ PostCashout /\ Settled
  /\ UNCHANGED <<answers, auto>>

\* A second queued bet is refused.
OnSchedule ==
  /\ panel.busy = "schedule"
  /\ IF ~srv.queued
       THEN PostSchedule /\ panel' = [busy |-> "no", scheduled |-> TRUE]
       ELSE Settled /\ UNCHANGED srv
  /\ UNCHANGED <<answers, wire, sent, auto>>

\* "no scheduled bet" unlocks the panel as well.
OnCancelSchedule ==
  /\ panel.busy = "cancel" /\ PostCancel
  /\ panel' = [busy |-> "no", scheduled |-> FALSE]
  /\ UNCHANGED <<answers, wire, sent, auto>>

-----------------------------------------------------------------------------
(* runRound: waits for an open window, bets, waits for the end.            *)

AutoBet ==
  /\ auto.at = "off" /\ panel.busy = "no" /\ CanBet
  /\ srv.round = shown.round \/ "lagging" \in ScreenWindows
  /\ PostBet
  /\ auto' = IF Open THEN [at |-> "riding", round |-> srv.round, payout |-> "none"] ELSE auto
  /\ UNCHANGED <<answers, panel>>

\* runAutoCashouts of the server: the target is reached.
AutoCashout ==
  /\ auto.at = "riding" /\ srv.round = auto.round /\ srv.phase = "running" /\ srv.bet = "in"
  /\ srv' = [srv EXCEPT !.bet = "out"]
  /\ Emit(<<Event("cashed")>>)
  /\ UNCHANGED <<answers, auto, panel>>

OnScreen == shown.round = auto.round /\ shown.phase = "busted"
ScreenOutcome == IF shown.paid > 0 THEN "won" ELSE "lost"
\* An outcome taken from the screen also when the round has left it.
OutcomeFromScreen == ScreenOutcome
\* The settled row is the truth when the round ended out of sight; none: a refund.
OutcomeSeen ==
  IF OnScreen THEN ScreenOutcome
  ELSE IF result[auto.round] = "none" THEN "refunded" ELSE result[auto.round]

RoundOver ==
  /\ auto.at = "riding" /\ (shown.round # auto.round \/ OnScreen)
  /\ auto' = [auto EXCEPT !.at = "over", !.payout = OutcomeSeen]
  /\ UNCHANGED <<answers, srv, wire, sent, panel>>

CrashClientNext ==
  \/ SrvRun \/ SrvBust \/ SrvNext \/ SrvRestart
  \/ Deliver \/ Connect \/ Disconnect \/ SnapshotFails \/ DismissInterruption
  \/ \E i \in 1..2 : Answer(i) \/ Arrive(i)
  \/ Press \/ OnPlace \/ OnCashout \/ OnSchedule \/ OnCancelSchedule
  \/ AutoBet \/ AutoCashout \/ RoundOver

CrashClientSpec == CrashClientInit /\ [][CrashClientNext]_clientVars

-----------------------------------------------------------------------------
(* The state of the page has its types.                                    *)
CrashClientTypeOK ==
  /\ srv.round \in RoundNos /\ srv.phase \in Phases
  /\ shown.round \in 0..MaxRounds /\ shown.phase \in Phases
  /\ shown.bet \in {"none", "in", "out"} /\ shown.paid \in Nat
  /\ panel.busy \in {"no", "place", "cashout", "schedule", "cancel"}
  /\ interrupted \in 0..MaxRounds /\ Len(snaps) <= 2

(* A connected page that is owed neither an event nor a snapshot shows the *)
(* server's round in its phase with the player's bet and its payout: a     *)
(* bet that rides can be cashed out, whatever was missed while the socket  *)
(* was down.                                                               *)
ScreenCatchesUp ==
  connected /\ wire = <<>> /\ snaps = <<>> /\ shown.round # 0 => shown = Snapshot

(* A round the player had a bet in and that leaves the screen without its  *)
(* bust is reported as interrupted.                                        *)
NoBetVanishes == missed \subseteq told

(* The auto-bet loop counts what its bet really came to.                   *)
AutoOutcomeTrue ==
  auto.at = "over" =>
    auto.payout = (IF result[auto.round] # "none" THEN result[auto.round] ELSE Outcome)

(* No step takes the screen back to an earlier round.                      *)
NeverBack == shown'.round >= shown.round
ScreenNeverBack == [][NeverBack]_clientVars
=============================================================================
