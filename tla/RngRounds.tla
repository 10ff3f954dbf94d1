------------------------------ MODULE RngRounds ------------------------------
(***************************************************************************)
(* The scadium_rng program and the API's driver of it (OnchainRngService): *)
(* a request opens a round that commits to its seed and pins a slot to     *)
(* come, waits for the slot, and settles the round, which folds the hash   *)
(* of the pinned slot into the entropy of the game.  A transaction lands   *)
(* at any time after it is sent, or never, and its sender may have given   *)
(* up by then.                                                             *)
(***************************************************************************)
EXTENDS SlotHashes

CONSTANTS
  Requests,   \* calls of roundEntropy; a request stands for its server seed too
  RoundIds,   \* (game_type, round_id) pairs; two API processes may pick the same
  Offset      \* TARGET_SLOT_OFFSET

VARIABLES
  round,     \* the Round accounts
  call,      \* where each request is, and what it returns
  flight,    \* transactions sent and not yet executed or expired
  landed     \* transactions that executed without an error

rngVars == <<round, call, flight, landed>>
vars == <<slotVars, rngVars>>

NoRound == [status |-> "none"]
Null == <<>>
Idle == [at |-> "idle", id |-> Null, target |-> 0, answer |-> Null]
Open(r) == <<"open_round", r>>
Settle(r) == <<"settle_round", r>>
Pending(r) == call[r].at \in {"opening", "settling"}

Init ==
  /\ SlotInit
  /\ round = [i \in RoundIds |-> NoRound]
  /\ call = [r \in Requests |-> Idle]
  /\ flight = {} /\ landed = {}

-----------------------------------------------------------------------------
(* The program.                                                            *)

\* The entropy is the seed and the slot's hash under one sha256.
Entropy(seed, h) == <<seed, h>>

\* The hash of the newest slot, whenever the reveal comes.
NewestHash(target) ==
  IF Listed = {} THEN NoHash
  ELSE hash[CHOOSE s \in Listed : \A t \in Listed : t <= s]

\* The hash of the slot pinned at open, or an error.
SeedingHash(target) == FindSlotHash(target)

\* Any slot may be pinned.
AnySlot(target) == TRUE

\* require!(target_slot > Clock::get()?.slot)
InFuture(target) == target > slot

\* The account may exist (init_if_needed).
Reusable(i) == TRUE

\* The account is created by the instruction.
Unused(i) == round[i] = NoRound

OpenRound(r) ==
  LET c == call[r] IN
  /\ Open(r) \in flight
  /\ flight' = flight \ {Open(r)}
  /\ IF Unused(c.id) /\ InFuture(c.target)
     THEN /\ round' = [round EXCEPT ![c.id] =
                         [status |-> "open", seed |-> r, target |-> c.target,
                          known |-> hash[c.target] # Unborn, entropy |-> Null]]
          /\ landed' = landed \cup {Open(r)}
     ELSE UNCHANGED <<round, landed>>
  /\ UNCHANGED <<call, slotVars>>

SettleRound(r) ==
  LET i == call[r].id
      h == SeedingHash(round[i].target)
  IN
  /\ Settle(r) \in flight
  /\ flight' = flight \ {Settle(r)}
  /\ IF round[i].status = "open" /\ round[i].seed = r /\ h # NoHash
     THEN /\ round' = [round EXCEPT ![i].status = "settled", ![i].entropy = Entropy(r, h)]
          /\ landed' = landed \cup {Settle(r)}
     ELSE UNCHANGED <<round, landed>>
  /\ UNCHANGED <<call, slotVars>>

\* A transaction whose blockhash expired.
Expire(tx) ==
  /\ tx \in flight
  /\ flight' = flight \ {tx}
  /\ UNCHANGED <<round, call, landed, slotVars>>

-----------------------------------------------------------------------------
(* The driver.                                                             *)

\* roundEntropy: the current slot is read, the pinned one computed, open_round sent.
Begin(r, i) ==
  /\ call[r].at = "idle" /\ slot + Offset <= MaxSlot
  /\ call' = [call EXCEPT ![r] =
                [at |-> "opening", id |-> i, target |-> slot + Offset, answer |-> Null]]
  /\ flight' = flight \cup {Open(r)}
  /\ UNCHANGED <<round, landed, slotVars>>

\* rngOpenRound returned a signature.
Opened(r) ==
  /\ call[r].at = "opening" /\ Open(r) \in landed
  /\ call' = [call EXCEPT ![r].at = "waiting"]
  /\ UNCHANGED <<round, flight, landed, slotVars>>

\* waitForSlot: the chain is at the pinned slot or past it.
SlotReached(r) ==
  /\ call[r].at = "waiting" /\ slot >= call[r].target
  /\ call' = [call EXCEPT ![r].at = "settling"]
  /\ flight' = flight \cup {Settle(r)}
  /\ UNCHANGED <<round, landed, slotVars>>

\* rngSettleRound confirmed, and the entropy read back from the account.
Settled(r) ==
  /\ call[r].at = "settling" /\ Settle(r) \in landed
  /\ call' = [call EXCEPT ![r].at = "done", ![r].answer = round[call[r].id].entropy]
  /\ UNCHANGED <<round, flight, landed, slotVars>>

\* An error, a lost answer or too many polls: null, and the game derives off-chain.
GiveUp(r) ==
  /\ call[r].at \in {"opening", "waiting", "settling"}
  /\ call' = [call EXCEPT ![r].at = "done"]
  /\ UNCHANGED <<round, flight, landed, slotVars>>

Next ==
  \/ NewSlot /\ UNCHANGED rngVars
  \/ \E tx \in flight : Expire(tx)
  \/ \E r \in Requests :
       \/ \E i \in RoundIds : Begin(r, i)
       \/ OpenRound(r) \/ SettleRound(r)
       \/ Opened(r) \/ SlotReached(r) \/ Settled(r) \/ GiveUp(r)

Spec == Init /\ [][Next]_vars

-----------------------------------------------------------------------------
TypeOK ==
  /\ SlotTypeOK
  /\ \A i \in RoundIds : round[i].status \in {"none", "open", "settled"}
  /\ \A r \in Requests :
       /\ call[r].at \in {"idle", "opening", "waiting", "settling", "done"}
       /\ call[r].target \in 0..MaxSlot
  /\ flight \cup landed \subseteq {Open(r) : r \in Requests} \cup {Settle(r) : r \in Requests}

(* "The operator cannot know the round entropy at open time", nor grind it *)
(* by choosing when to reveal: when a commitment appeared on chain the     *)
(* hash of its slot did not exist, however late the transaction landed,    *)
(* and a settled round folded that hash and the committed seed.            *)
EntropyNotChosen ==
  \A i \in RoundIds :
    round[i].status # "none" =>
      /\ ~round[i].known
      /\ round[i].status = "settled" =>
           round[i].entropy = Entropy(round[i].seed, hash[round[i].target])

(* What a request returns is the entropy of a round of its own seed, also  *)
(* when two API processes picked one round id, and the account holds that  *)
(* entropy for anyone to check.                                            *)
AnswerIsOnChain ==
  \A r \in Requests :
    call[r].answer # Null =>
      /\ round[call[r].id].status = "settled"
      /\ round[call[r].id].seed = r
      /\ call[r].answer = round[call[r].id].entropy
=============================================================================
