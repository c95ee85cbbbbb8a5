---------------------------- MODULE AudioRingBuffer ----------------------------
(***************************************************************************)
(* AudioRingBuffer: the last Capacity chunks of a call's audio with their  *)
(* sequence numbers.  A chunk is its sequence number here; an empty slot   *)
(* has sequence 0.  total_written equals last_received_seq: clear() is     *)
(* never called.                                                           *)
(***************************************************************************)
EXTENDS Naturals, FiniteSets

CONSTANT Capacity     \* settings.ring_buffer_capacity_slots

ASSUME CapacityAssumption == Capacity \in Nat \ {0}

VARIABLES
  slots,              \* _slots: the sequence number in each slot
  writePos,           \* _write_pos
  lastReceived,       \* last_received_seq
  lastSent            \* last_sent_seq

ringVars == <<slots, writePos, lastReceived, lastSent>>

RingTypeOK ==
  /\ slots \in [0..Capacity - 1 -> Nat]
  /\ writePos \in 0..Capacity - 1
  /\ lastReceived \in Nat /\ lastSent \in Nat

RingInit ==
  /\ slots = [i \in 0..Capacity - 1 |-> 0]
  /\ writePos = 0 /\ lastReceived = 0 /\ lastSent = 0

(* Fault: the position wraps one slot too early.                           *)
WriteWrapsEarly ==
  /\ lastReceived' = lastReceived + 1
  /\ slots' = [slots EXCEPT ![writePos] = lastReceived + 1]
  /\ writePos' = IF writePos + 2 >= Capacity THEN 0 ELSE writePos + 1
  /\ UNCHANGED lastSent

Write ==
  /\ lastReceived' = lastReceived + 1
  /\ slots' = [slots EXCEPT ![writePos] = lastReceived + 1]
  /\ writePos' = (writePos + 1) % Capacity
  /\ UNCHANGED lastSent

MarkSent(n) ==
  /\ lastSent' = IF n > lastSent THEN n ELSE lastSent
  /\ UNCHANGED <<slots, writePos, lastReceived>>

(* The end of a catch-up: everything received so far counts as sent.       *)
MarkAllSent ==
  /\ lastSent' = lastReceived
  /\ UNCHANGED <<slots, writePos, lastReceived>>

(* get_unsent, as a set: the code sorts it by sequence.                    *)
Unsent ==
  IF lastReceived <= lastSent THEN {}
  ELSE {slots[i] : i \in DOMAIN slots} \cap (lastSent + 1..lastReceived)

-----------------------------------------------------------------------------
(* What get_unsent is for: whatever was overwritten, it returns the unsent *)
(* chunks among the last Capacity ones, all of them and nothing else.      *)
UnsentIsTheTail ==
  Unsent = {n \in lastSent + 1..lastReceived : n + Capacity > lastReceived}
=============================================================================
