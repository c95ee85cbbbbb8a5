------------------------ MODULE CapacityManagerProofs ------------------------
(***************************************************************************)
(* The capacity bound, for any set of call ids and any cap.                *)
(***************************************************************************)
EXTENDS CapacityManager, FiniteSetTheorems, TLAPS

(* The bound is not inductive alone: commit() moves a slot between the two *)
(* sets, which keeps the sum only because the sets are finite, the slot    *)
(* leaves the reservations and it was not active already.                  *)
CapInv ==
  /\ CapTypeOK
  /\ IsFiniteSet(reserved)
  /\ IsFiniteSet(active)
  /\ OneSlotPerCall
  /\ CapacityBound

(* reserve() of a free slot counts one more, below the cap it has checked. *)
LEMMA ReserveKeepsCapInv ==
  ASSUME NEW c \in Calls, CapInv, Reserve(c)
  PROVE  CapInv'
<1>1. IsFiniteSet(reserved') /\ Cardinality(reserved') = Cardinality(reserved) + 1
  BY FS_AddElement DEF CapInv, Reserve, CanReserve
<1>2. Cardinality(reserved) \in Nat /\ Cardinality(active) \in Nat
  BY FS_CardinalityType DEF CapInv
<1>3. CapacityBound'
  BY <1>1, <1>2, MaxAssumption DEF CapacityBound, Occupied, Reserve, CanReserve
<1>4. CapTypeOK' /\ OneSlotPerCall' /\ IsFiniteSet(active')
  BY DEF CapInv, CapTypeOK, OneSlotPerCall, Reserve, CanReserve
<1>5. QED BY <1>1, <1>3, <1>4 DEF CapInv

(* commit() moves one slot: the sum does not change.                       *)
LEMMA CommitKeepsCapInv ==
  ASSUME NEW c \in Calls, CapInv, Commit(c)
  PROVE  CapInv'
<1>1. c \in reserved /\ c \notin active
  BY DEF CapInv, OneSlotPerCall, Commit
<1>2. IsFiniteSet(reserved') /\ Cardinality(reserved') = Cardinality(reserved) - 1
  BY <1>1, FS_RemoveElement DEF CapInv, Commit
<1>3. IsFiniteSet(active') /\ Cardinality(active') = Cardinality(active) + 1
  BY <1>1, FS_AddElement DEF CapInv, Commit
<1>4. Cardinality(reserved) \in Nat /\ Cardinality(active) \in Nat
  BY FS_CardinalityType DEF CapInv
<1>5. CapacityBound'
  BY <1>2, <1>3, <1>4, MaxAssumption DEF CapInv, CapacityBound, Occupied
<1>6. CapTypeOK' /\ OneSlotPerCall'
  BY <1>1 DEF CapInv, CapTypeOK, OneSlotPerCall, Commit
<1>7. QED BY <1>2, <1>3, <1>5, <1>6 DEF CapInv

(* release(), finish() and the two together only shrink the sets.          *)
LEMMA ShrinkKeepsCapInv ==
  ASSUME CapInv, reserved' \subseteq reserved, active' \subseteq active
  PROVE  CapInv'
<1>1. IsFiniteSet(reserved') /\ Cardinality(reserved') <= Cardinality(reserved)
  BY FS_Subset DEF CapInv
<1>2. IsFiniteSet(active') /\ Cardinality(active') <= Cardinality(active)
  BY FS_Subset DEF CapInv
<1>3. /\ Cardinality(reserved) \in Nat /\ Cardinality(reserved') \in Nat
      /\ Cardinality(active) \in Nat /\ Cardinality(active') \in Nat
  BY <1>1, <1>2, FS_CardinalityType DEF CapInv
<1>4. CapacityBound'
  BY <1>1, <1>2, <1>3, MaxAssumption DEF CapInv, CapacityBound, Occupied
<1>5. CapTypeOK' /\ OneSlotPerCall'
  BY DEF CapInv, CapTypeOK, OneSlotPerCall
<1>6. QED BY <1>1, <1>2, <1>4, <1>5 DEF CapInv

(* Every step of the capacity manager keeps the invariant.                 *)
LEMMA CapNextKeepsCapInv ==
  ASSUME CapInv, [CapNext]_capVars
  PROVE  CapInv'
<1>1. ASSUME NEW c \in Calls, Reserve(c) PROVE CapInv'
  BY <1>1, ReserveKeepsCapInv
<1>2. ASSUME NEW c \in Calls, Commit(c) PROVE CapInv'
  BY <1>2, CommitKeepsCapInv
<1>3. ASSUME NEW c \in Calls, Release(c) \/ Finish(c) \/ ReturnSlot(c) PROVE CapInv'
  BY <1>3, ShrinkKeepsCapInv DEF Release, Finish, ReturnSlot
<1>4. CASE UNCHANGED capVars
  BY <1>4, ShrinkKeepsCapInv DEF capVars
<1>5. QED BY <1>1, <1>2, <1>3, <1>4 DEF CapNext

LEMMA CapInitEstablishesCapInv == CapInit => CapInv
BY FS_EmptySet, MaxAssumption
   DEF CapInit, CapInv, CapTypeOK, OneSlotPerCall, CapacityBound, Occupied

(* The docstring of capacity_manager.py: reservations and active calls     *)
(* together never exceed max_concurrent_calls.                             *)
THEOREM CapacityBoundHolds == CapSpec => [](CapacityBound /\ OneSlotPerCall)
<1>1. CapInit => CapInv
  BY CapInitEstablishesCapInv
<1>2. CapInv /\ [CapNext]_capVars => CapInv'
  BY CapNextKeepsCapInv
<1>3. CapInv => CapacityBound /\ OneSlotPerCall
  BY DEF CapInv
<1>4. QED BY <1>1, <1>2, <1>3, PTL DEF CapSpec
=============================================================================
