------------------------------ MODULE DispatchRow ------------------------------
(***************************************************************************)
(* What the table inbound_call_dispatch promises of the row of each        *)
(* inbound call, whoever writes it: the state machine of models.py and the *)
(* discipline of claimed_by.  The writers (InboundDispatch) use single     *)
(* UPDATE statements that do not consult the table of transitions.         *)
(***************************************************************************)
EXTENDS Naturals

CONSTANTS
  Calls,      \* the inbound calls
  Agents,     \* the users that may pick up
  Nobody      \* claimed_by IS NULL

VARIABLES
  row,        \* state of the row of each call, "absent" when there is none
  claimant    \* claimed_by

rowVars == <<row, claimant>>

Terminal == {"ENDED", "CANCELLED", "TIMEOUT", "REJECTED"}
Preconnected == {"RINGING", "WAITING_FOR_AGENT", "CLAIMED", "SESSION_STARTING"}
DispatchState == Preconnected \cup {"CONNECTED"} \cup Terminal

Allowed ==
  [s \in DispatchState |->
     CASE s = "RINGING"           -> {"WAITING_FOR_AGENT", "CANCELLED", "REJECTED"}
       [] s = "WAITING_FOR_AGENT" -> {"CLAIMED", "CANCELLED", "TIMEOUT", "REJECTED"}
       [] s = "CLAIMED"           -> {"WAITING_FOR_AGENT", "SESSION_STARTING", "CANCELLED"}
       [] s = "SESSION_STARTING"  -> {"CONNECTED", "CANCELLED"}
       [] s = "CONNECTED"         -> {"ENDED"}
       [] s \in Terminal          -> {}]

RowTypeOK ==
  /\ row \in [Calls -> DispatchState \cup {"absent"}]
  /\ claimant \in [Calls -> Agents \cup {Nobody}]

RowInit ==
  /\ row = [c \in Calls |-> "absent"]
  /\ claimant = [c \in Calls |-> Nobody]

(* Who holds the claim after a move to state s: a claim starts with        *)
(* CLAIMED, is dropped on the way back to the queue and may be dropped by  *)
(* a cancellation; in every other move it stays with who has it.           *)
ClaimRule(s, old, new) ==
  CASE s = "CLAIMED"           -> old = Nobody /\ new # Nobody
    [] s = "WAITING_FOR_AGENT" -> new = Nobody
    [] s = "CANCELLED"         -> new \in {old, Nobody}
    [] OTHER                   -> new = old

RowMove(c) ==
  \/ /\ row[c] = "absent" /\ row'[c] = "RINGING"
     /\ claimant'[c] = Nobody
  \/ /\ row[c] # "absent"
     /\ row'[c] \in Allowed[row[c]]
     /\ ClaimRule(row'[c], claimant[c], claimant'[c])

(* A statement writes one row or many.                                     *)
RowNext ==
  /\ row' \in [Calls -> DispatchState \cup {"absent"}]
  /\ claimant' \in [Calls -> Agents \cup {Nobody}]
  /\ \A c \in Calls : RowMove(c) \/ UNCHANGED <<row[c], claimant[c]>>

RowSpec == RowInit /\ [][RowNext]_rowVars

-----------------------------------------------------------------------------
(* The CHECK constraint of the table: who is served is served by someone.  *)
ClaimHeld ==
  \A c \in Calls :
    row[c] \in {"CLAIMED", "SESSION_STARTING", "CONNECTED"} => claimant[c] # Nobody

(* And before anyone claims, nobody holds a claim.                         *)
QueueUnclaimed ==
  \A c \in Calls :
    row[c] \in {"absent", "RINGING", "WAITING_FOR_AGENT"} => claimant[c] = Nobody
=============================================================================
