------------------------------ MODULE DualSession ------------------------------
(***************************************************************************)
(* DualSessionManager: the two OpenAI sessions of a call are connected at  *)
(* the same time, each with its own retries, by a start request or an      *)
(* inbound bootstrap that may be cancelled, and are closed together.  When *)
(* one of them fails, gather() raises at once and the other one goes on.   *)
(***************************************************************************)
EXTENDS Naturals

CONSTANTS
  Sessions,   \* session_a and session_b
  Retries     \* settings.openai_ws_connect_retries

ASSUME DualAssumption == Sessions # {} /\ Retries \in Nat

VARIABLES
  conn,     \* where connect() of each session is
  tries,    \* its attempt
  sock,     \* the websocket it made: none, open, lost
  ours,     \* the sessions whose self.ws is that websocket
  shut,     \* the sessions whose _closed is set
  manager,  \* the manager's connect(), later its close()
  orphans   \* history: the connects that were still to open when gather() raised

dualVars == <<conn, tries, sock, ours, shut, manager, orphans>>

DualTypeOK ==
  /\ conn \in [Sessions -> {"trying", "pausing", "updating", "up", "failed", "cancelled"}]
  /\ tries \in [Sessions -> 1..Retries + 1]
  /\ sock \in [Sessions -> {"none", "open", "lost"}]
  /\ {ours, shut, orphans} \subseteq SUBSET Sessions
  /\ manager \in {"connecting", "connected", "failing", "failed", "cancelling",
                  "cancelled", "ending", "ended"}

DualInit ==
  /\ conn = [s \in Sessions |-> "trying"]
  /\ tries = [s \in Sessions |-> 1]
  /\ sock = [s \in Sessions |-> "none"]
  /\ ours = {} /\ shut = {} /\ orphans = {}
  /\ manager = "connecting"

-----------------------------------------------------------------------------
(* RealtimeSession.connect                                                 *)

(* The websocket is up; session.update is sent unless the session was      *)
(* closed.                                                                 *)
Opened(s) ==
  /\ conn[s] = "trying"
  /\ sock' = [sock EXCEPT ![s] = "open"] /\ ours' = ours \cup {s}
  /\ conn' = [conn EXCEPT ![s] = IF s \in shut THEN "up" ELSE "updating"]
  /\ UNCHANGED <<tries, shut, manager, orphans>>

(* An attempt fails; the next one follows after a second, if there is one. *)
AttemptFails(s) ==
  /\ conn[s] = "trying"
  /\ conn' = [conn EXCEPT ![s] = IF tries[s] <= Retries THEN "pausing" ELSE "failed"]
  /\ UNCHANGED <<tries, sock, ours, shut, manager, orphans>>

TryAgain(s) ==
  /\ conn[s] = "pausing"
  /\ conn' = [conn EXCEPT ![s] = "trying"]
  /\ tries' = [tries EXCEPT ![s] = @ + 1]
  /\ UNCHANGED <<sock, ours, shut, manager, orphans>>

(* session.update was sent, or the connection is lost before that.         *)
Updated(s) ==
  /\ conn[s] = "updating"
  /\ conn' = [conn EXCEPT ![s] = IF sock[s] = "open" THEN "up" ELSE "failed"]
  /\ UNCHANGED <<tries, sock, ours, shut, manager, orphans>>

SocketLost(s) ==
  /\ sock[s] = "open" /\ manager = "connecting"
  /\ sock' = [sock EXCEPT ![s] = "lost"]
  /\ UNCHANGED <<conn, tries, ours, shut, manager, orphans>>

-----------------------------------------------------------------------------
(* DualSessionManager                                                      *)

GatherDone ==
  /\ manager = "connecting"
  /\ \A s \in Sessions : conn[s] = "up"
  /\ manager' = "connected"
  /\ UNCHANGED <<conn, tries, sock, ours, shut, orphans>>

(* close() of both: _closed is set, the websockets there are get closed.   *)
CloseBoth(next) ==
  /\ manager' = next
  /\ shut' = Sessions
  /\ sock' = [s \in Sessions |-> IF s \in ours /\ sock[s] = "open" THEN "lost" ELSE sock[s]]

(* One connect() raised: the manager closes both sessions.  The task of    *)
(* the other connect() is not cancelled.                                   *)
GatherRaises ==
  /\ manager = "connecting"
  /\ \E s \in Sessions : conn[s] = "failed"
  /\ CloseBoth("failing")
  /\ orphans' = {s \in Sessions : conn[s] \in {"trying", "pausing"}}
  /\ UNCHANGED <<conn, tries, ours>>

(* An inbound bootstrap closes the sessions once more (inbound/media.py).  *)
BootstrapCloses ==
  /\ manager = "failed"
  /\ CloseBoth("failing")
  /\ UNCHANGED <<conn, tries, ours, orphans>>

(* Fault: the connects are not cancelled with the request.                 *)
CancelledOrphans ==
  /\ manager = "connecting"
  /\ CloseBoth("cancelling")
  /\ UNCHANGED <<conn, tries, ours, orphans>>

(* The request is cancelled (the client left, or 30 s have passed): gather *)
(* cancels both connects, the caller closes the sessions.                  *)
Cancelled ==
  /\ manager = "connecting"
  /\ conn' = [s \in Sessions |->
                IF conn[s] \in {"up", "failed"} THEN conn[s] ELSE "cancelled"]
  /\ CloseBoth("cancelling")
  /\ UNCHANGED <<tries, ours, orphans>>

(* The call ends.                                                          *)
CallEnds ==
  /\ manager = "connected"
  /\ CloseBoth("ending")
  /\ UNCHANGED <<conn, tries, ours, orphans>>

(* The websockets that close() found are closed; self.ws of every session  *)
(* that had one is None.                                                   *)
ClosedBoth ==
  /\ \/ manager = "failing" /\ manager' = "failed"
     \/ manager = "cancelling" /\ manager' = "cancelled"
     \/ manager = "ending" /\ manager' = "ended"
  /\ ours' = {s \in ours : sock[s] = "open"}
  /\ UNCHANGED <<conn, tries, sock, shut, orphans>>

DualNext ==
  \/ \E s \in Sessions :
       Opened(s) \/ AttemptFails(s) \/ TryAgain(s) \/ Updated(s) \/ SocketLost(s)
  \/ GatherDone \/ GatherRaises \/ BootstrapCloses \/ Cancelled \/ CallEnds \/ ClosedBoth

DualSpec == DualInit /\ [][DualNext]_dualVars

(* Attempts have a timeout, pauses end, the manager's awaits return.       *)
DualFairness ==
  /\ \A s \in Sessions :
       WF_dualVars(Opened(s) \/ AttemptFails(s) \/ TryAgain(s) \/ Updated(s))
  /\ WF_dualVars(GatherDone \/ GatherRaises) /\ WF_dualVars(ClosedBoth)

-----------------------------------------------------------------------------
(* Properties                                                              *)

(* Cancelling a start in the middle of two connects with retries, or       *)
(* ending the call, leaves no websocket at OpenAI open.                    *)
EndedLeavesNothing ==
  manager \in {"cancelled", "ended"} => \A s \in Sessions : sock[s] # "open"

(* A manager that failed leaves at most the websocket of a connect() that  *)
(* had not opened it when the other one raised: that of a session which    *)
(* was up, or was being updated, is closed.                                *)
FailedLeavesOrphans ==
  manager = "failed" => \A s \in Sessions : sock[s] = "open" => s \in orphans

(* connect() of the manager returns or raises in the end.                  *)
ConnectEnds == manager = "connecting" ~> manager # "connecting"

(* However the two connects fail, retry and are cancelled, the manager     *)
(* settles. Cancelled or ended it leaves nothing open; failed it leaves at *)
(* most the websocket of the other connect(), which gather() leaves to go *)
(* on although close() is said to end both (session_manager.py:451, :460). *)
ConnectSettles ==
  [](DualTypeOK /\ EndedLeavesNothing /\ FailedLeavesOrphans) /\ ConnectEnds
=============================================================================
