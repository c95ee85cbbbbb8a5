----------------------------- MODULE RelayLink -----------------------------
(***************************************************************************)
(* What a client's relay link promises, whatever sockets, timers and      *)
(* pending credential requests lie under it: it is down, being tried, up, *)
(* or given up; a loss costs one of the MaxTries attempts, and only a      *)
(* link that has been up gets its attempts back.                           *)
(***************************************************************************)
EXTENDS Naturals

CONSTANT MaxTries

VARIABLES link, tries

LinkInit == link = "down" /\ tries = 0

Dial    == link' = "trying" /\ UNCHANGED tries
Retry   == /\ link \in {"trying", "up"} /\ tries < MaxTries
           /\ link' = "trying" /\ tries' = tries + 1
GiveUp  == /\ link \in {"trying", "up"} /\ tries = MaxTries
           /\ link' = "failed" /\ UNCHANGED tries
Connect == link = "trying" /\ link' = "up" /\ UNCHANGED tries
Settle  == link = "up" /\ tries' = 0 /\ UNCHANGED link
Hangup  == link' = "down" /\ UNCHANGED tries
Renew   == link' = "down" /\ tries' = 0

LinkNext == Dial \/ Retry \/ GiveUp \/ Connect \/ Settle \/ Hangup \/ Renew
LinkSpec == LinkInit /\ [][LinkNext]_<<link, tries>>
=============================================================================
