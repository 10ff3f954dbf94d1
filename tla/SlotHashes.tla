----------------------------- MODULE SlotHashes -----------------------------
(***************************************************************************)
(* The SlotHashes sysvar the programs take their randomness from: the hash *)
(* of a slot exists once the slot is over, a skipped slot has none, and    *)
(* only the newest Window hashes can be read.                              *)
(***************************************************************************)
EXTENDS Naturals, FiniteSets

CONSTANTS
  MaxSlot,   \* bound: the last slot of a behaviour
  Window,    \* hashes the sysvar keeps (512)
  Hashes     \* what the hash of a slot can be

VARIABLES slot, hash
slotVars == <<slot, hash>>

Unborn == "unborn"
Skipped == "skipped"
NoHash == "no hash"

SlotInit == slot = 1 /\ hash = [s \in 1..MaxSlot |-> Unborn]
SlotTypeOK == slot \in 1..MaxSlot /\ hash \in [1..MaxSlot -> Hashes \cup {Unborn, Skipped}]

\* The slot ends: a block was produced in it, or none was.
NewSlot ==
  /\ slot < MaxSlot
  /\ slot' = slot + 1
  /\ \E h \in Hashes \cup {Skipped} : hash' = [hash EXCEPT ![slot] = h]

Produced == {s \in 1..MaxSlot : hash[s] \in Hashes}
Listed == {s \in Produced : Cardinality({t \in Produced : t >= s}) <= Window}

\* find_slot_hash: the entry of exactly this slot, if the sysvar still has it.
FindSlotHash(s) == IF s \in Listed THEN hash[s] ELSE NoHash
=============================================================================
