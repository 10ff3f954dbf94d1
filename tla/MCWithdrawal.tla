----------------------------- MODULE MCWithdrawal -----------------------------
(***************************************************************************)
(* Small instances of CustodyWithdrawal: one for its races and, with       *)
(* crashes counted, one for liveness.                                      *)
(***************************************************************************)
EXTENDS CustodyWithdrawal, TLC

CONSTANTS
  u1,
  MaxCrashes   \* crashes the run allows

VARIABLE crashes

OwnerIsU1 == [w \in Rows |-> u1]

\* Drivers are interchangeable.
DriverSymmetry == Permutations(Drivers)

\* The race: every interleaving, crashes at any point and uncounted.
RaceInit == Init /\ crashes = 0
RaceNext == Next /\ UNCHANGED crashes
RaceSpec == RaceInit /\ [][RaceNext]_<<vars, crashes>>

(***************************************************************************)
(* For liveness the height must not hit a ceiling.  Only its distance to a *)
(* signature's expiry matters, so it need not advance while every stored   *)
(* or freshly made signature is dead in the eyes of every node: that keeps *)
(* the state space finite without cutting a behaviour short.  MaxHeight is *)
(* above every height the run reaches.                                     *)
(***************************************************************************)
SomeoneWatchesTheClock ==
  \/ \E w \in Rows : /\ row[w].status \in {"sent", "confirmed"}
                     /\ height <= row[w].sig + Margin + MaxLag
  \/ \E d \in Drivers : /\ driver[d].pc = "claim"
                        /\ height <= driver[d].new + Margin + MaxLag

LiveInit == Init /\ crashes = 0

LiveNext ==
  \/ /\ UpNext
     /\ height' # height => SomeoneWatchesTheClock
     /\ UNCHANGED crashes
  \/ /\ crashes < MaxCrashes
     /\ \E d \in Drivers : Crash(d)
     /\ crashes' = crashes + 1

(***************************************************************************)
(* Fairness the code's scheduling justifies: an await of a running step    *)
(* returns (DriverNext); the job runs resumeAll over every open row again  *)
(* and again (Step); blocks are produced (AdvanceHeight); the operator     *)
(* answers the "top it up" error (TopUp).  Nothing says that a broadcast   *)
(* signature ever lands.                                                   *)
(***************************************************************************)
LiveSpec ==
  /\ LiveInit /\ [][LiveNext]_<<vars, crashes>>
  /\ \A d \in Drivers : WF_vars(DriverNext(d))
  /\ \A w \in Rows : SF_vars(\E d \in Drivers : Step(d, w))
  /\ WF_vars(AdvanceHeight /\ SomeoneWatchesTheClock)
  /\ WF_vars(TopUp)

\* A requested withdrawal is eventually confirmed or refunded, whatever the
\* network drops, unless the operator keeps the global pause on.
EveryWithdrawalSettles ==
  <>[](~paused) =>
    \A w \in Rows : (row[w].status = "pending") ~> (row[w].status \in {"confirmed", "failed"})
=============================================================================
