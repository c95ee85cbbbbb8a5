------------------------------ MODULE MCPages ------------------------------
(* A small instance of Pages for TLC.                                      *)
EXTENDS Pages

(* Bound: a call is watched past its second message only while no other    *)
(* page has anything under way and the session has not ended.              *)
CaptionsAlone ==
  talk.messages > 2 =>
    /\ talk.noise = 0 /\ ended = 0 /\ ~late /\ ~list.stray
    /\ FreePolls = PollIds /\ pickups = {} /\ queue = [c \in Callers |-> "none"]
=============================================================================
