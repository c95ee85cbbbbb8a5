----------------------------- MODULE MCSessions -----------------------------
(* A call's sessions for TLC: DualSessionManager connects both of them,    *)
(* and from then on one of them is monitored.                              *)
EXTENDS DualSession, SessionRecovery

SessionsInit == DualInit /\ RecoveryInit

(* Bound: monitored is a call whose sessions were connected at the first   *)
(* attempt and have lost nothing yet.                                      *)
Monitored ==
  /\ manager = "connected"
  /\ \A s \in Sessions : tries[s] = 1 /\ sock[s] = "open"

\* The monitored session is still as RecoveryInit says.
Fresh == ending = "no" /\ upsets = 0

SessionsNext ==
  \/ Fresh /\ DualNext /\ UNCHANGED sessionVars
  \/ Monitored /\ RecoveryNext /\ UNCHANGED dualVars

SessionsSpec ==
  /\ SessionsInit /\ [][SessionsNext]_<<dualVars, sessionVars>>
  /\ DualFairness /\ RecoveryFairness
=============================================================================
