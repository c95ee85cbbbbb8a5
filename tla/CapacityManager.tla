--------------------------- MODULE CapacityManager ---------------------------
(***************************************************************************)
(* The process-wide call capacity (capacity_manager.py).  Every method     *)
(* runs under one asyncio.Lock that is never held across a suspension, so  *)
(* each method is one atomic step, and calling one does not yield either.  *)
(*                                                                         *)
(*   reserve() -> OpenAI and Twilio are prepared -> commit() -> finish()   *)
(*                                                                         *)
(* A refused reserve or commit changes nothing; the callers' modules model *)
(* what they do about it.                                                  *)
(***************************************************************************)
EXTENDS Integers, FiniteSets

CONSTANTS
  Calls,               \* the call ids
  MaxConcurrentCalls   \* settings.max_concurrent_calls

ASSUME MaxAssumption == MaxConcurrentCalls \in Nat

VARIABLES
  reserved,            \* _reserved: slots of calls being prepared
  active               \* _active: slots of calls in progress

capVars == <<reserved, active>>

CapTypeOK ==
  /\ reserved \in SUBSET Calls
  /\ active \in SUBSET Calls

CapInit ==
  /\ reserved = {}
  /\ active = {}

Occupied == Cardinality(active) + Cardinality(reserved)

(* Fault: the cap is compared with <= instead of <.                        *)
CanReserveOneMore(c) ==
  /\ c \notin reserved \cup active
  /\ Occupied <= MaxConcurrentCalls

(* The condition under which reserve() answers True.                       *)
CanReserve(c) ==
  /\ c \notin reserved \cup active
  /\ Occupied < MaxConcurrentCalls

Reserve(c) ==
  /\ CanReserve(c)
  /\ reserved' = reserved \cup {c}
  /\ UNCHANGED active

Commit(c) ==
  /\ c \in reserved
  /\ reserved' = reserved \ {c}
  /\ active' = active \cup {c}

Release(c) ==
  /\ reserved' = reserved \ {c}
  /\ UNCHANGED active

Finish(c) ==
  /\ active' = active \ {c}
  /\ UNCHANGED reserved

(* release() and finish() one after the other, as cleanup_call does.       *)
ReturnSlot(c) ==
  /\ reserved' = reserved \ {c}
  /\ active' = active \ {c}

CapNext ==
  \E c \in Calls :
    Reserve(c) \/ Commit(c) \/ Release(c) \/ Finish(c) \/ ReturnSlot(c)

CapSpec == CapInit /\ [][CapNext]_capVars

-----------------------------------------------------------------------------
(* The cap of the module's own docstring: at every moment                  *)
(* active + reserved <= max_concurrent_calls.                              *)
CapacityBound == Occupied <= MaxConcurrentCalls

(* A call holds one slot, never both a reservation and an active one: the  *)
(* cap would count it twice.                                               *)
OneSlotPerCall == reserved \cap active = {}
=============================================================================
