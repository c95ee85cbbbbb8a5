-------------------------------- MODULE Desk --------------------------------
(***************************************************************************)
(* The desk of an agent: the queue of callers who wait (app/inbound), the  *)
(* routes /api/inbound and /api/inbound/[callId]/pickup, and the relay     *)
(* behind them. Polls overlap: one is sent every three seconds whether or  *)
(* not the last has been answered.                                         *)
(***************************************************************************)
EXTENDS Router

CONSTANTS Callers,     \* inbound calls
          PollIds,     \* bound: polls that may be in flight at once
          MaxPickups   \* bound: pickups in flight, of pages left too
ASSUME DeskAssumption == None \notin Callers /\ MaxPickups \in Nat /\ PollIds # {}

VARIABLES desk,     \* the page
          polls,    \* GET /api/inbound in flight, with what they have read
          pickups,  \* POST .../pickup in flight; of a page that was left, too
          queue     \* the relay's rows: waiting, taken by us or by others

deskVars == <<desk, polls, pickups, queue>>

NoPoll   == [stage |-> "none", quiet |-> TRUE, seen |-> {}, ok |-> TRUE, retry |-> FALSE]
NoDesk   == [loading |-> FALSE, refreshing |-> FALSE, claiming |-> None,
             error |-> None, shown |-> {}]
Waiting  == {c \in Callers : queue[c] = "waiting"}
FreePolls == {i \in PollIds : polls[i].stage = "none"}

Sent(i, quiet, retry) ==
  polls' = [polls EXCEPT ![i] = [NoPoll EXCEPT !.stage = "sent", !.quiet = quiet, !.retry = retry]]

----------------------------------------------------------------------------
(* loadCalls *)

QuietPoll ==
  /\ route = "inbound"
  /\ \E i \in FreePolls : Sent(i, TRUE, FALSE)
  /\ UNCHANGED <<desk, pickups, queue, goto, account>>
\* The button: disabled, and the ref set, while its own load is running.
Refresh ==
  /\ route = "inbound" /\ ~desk.refreshing
  /\ \A i \in PollIds : polls[i].stage # "none" => polls[i].quiet
  /\ \E i \in FreePolls : Sent(i, FALSE, FALSE)
  /\ desk' = [desk EXCEPT !.refreshing = TRUE]
  /\ UNCHANGED <<pickups, queue, goto, account>>
\* The route asks the relay on behalf of the user.
QueueServed(i) ==
  /\ polls[i].stage = "sent"
  /\ \E a \in Answers({"ok", "error"}) :
       polls' = [polls EXCEPT ![i].stage = "answered", ![i].seen = Waiting, ![i].ok = (a = "ok")]
  /\ Provisioned
  /\ UNCHANGED <<desk, pickups, queue, goto>>
\* Whatever poll is answered last is believed; it also takes away the error
\* of a pickup and the spinner of the button.
\* Fault: a load that fails leaves the spinners on.
LoadedSlack(i) ==
  [desk EXCEPT !.loading = @ /\ ~polls[i].ok, !.refreshing = @ /\ ~polls[i].ok,
     !.error = IF polls[i].ok THEN None ELSE "load",
     !.shown = IF polls[i].ok THEN polls[i].seen ELSE @,
     !.claiming = IF polls[i].retry THEN None ELSE @]
Loaded(i) ==
  [desk EXCEPT !.loading = FALSE, !.refreshing = FALSE,
     !.error = IF polls[i].ok THEN None ELSE "load",
     !.shown = IF polls[i].ok THEN polls[i].seen ELSE @,
     !.claiming = IF polls[i].retry THEN None ELSE @]
QueueLoaded(i) ==
  /\ polls[i].stage = "answered"
  /\ desk' = Loaded(i)
  /\ polls' = [polls EXCEPT ![i] = NoPoll]
  /\ UNCHANGED <<pickups, queue, goto, account>>

----------------------------------------------------------------------------
(* pickup *)

pickup(c) ==
  /\ route = "inbound" /\ c \in desk.shown /\ desk.claiming = None /\ ~desk.loading
  /\ Cardinality(pickups) < MaxPickups
  /\ desk' = [desk EXCEPT !.claiming = c, !.error = None]
  /\ pickups' = pickups \cup {[call |-> c, answer |-> None, live |-> TRUE]}
  /\ UNCHANGED <<polls, queue, goto, account>>
\* The relay gives the call to the first who asks; a caller who has hung up
\* is not found.
PickupServed(p) ==
  /\ p.answer = None
  /\ \E a \in Answers({"serve", "error"}) :
       LET won == a = "serve" /\ p.call \in Waiting
           said == IF won THEN "ok" ELSE IF a = "serve" THEN "claimed" ELSE "error"
       IN  /\ queue' = IF won THEN [queue EXCEPT ![p.call] = "ours"] ELSE queue
           /\ pickups' = (pickups \ {p}) \cup {[p EXCEPT !.answer = said]}
  /\ Provisioned
  /\ UNCHANGED <<desk, polls, goto>>
\* The answer, or its loss: the call is opened, even from a page that was
\* left; a failure is shown and the queue loaded again before another
\* pickup may begin.
PickupAnswered(p) ==
  /\ p.answer # None
  /\ pickups' = pickups \ {p}
  /\ \/ /\ p.answer = "ok" /\ goto' = "inboundCall"
        /\ desk' = IF p.live THEN [desk EXCEPT !.claiming = None] ELSE desk
        /\ UNCHANGED polls
     \/ /\ p.live
        /\ \E i \in FreePolls : Sent(i, TRUE, TRUE)
        /\ desk' = [desk EXCEPT !.error = IF p.answer = "ok" THEN "lost" ELSE p.answer]
        /\ UNCHANGED goto
     \/ ~p.live /\ UNCHANGED <<desk, polls, goto>>
  /\ UNCHANGED <<queue, account>>
DeskLeft == route = "inbound" /\ goto' = "home" /\ UNCHANGED <<deskVars, account>>

----------------------------------------------------------------------------
(* The relay: callers give up, other agents pick up *)
QueueMoves ==
  /\ route = "inbound"
  /\ \E c \in Waiting : queue' = [queue EXCEPT ![c] = "others"]
  /\ UNCHANGED <<desk, polls, pickups, goto, account>>

DeskStep ==
  /\ \/ QuietPoll \/ Refresh \/ QueueMoves \/ DeskLeft
     \/ \E p \in pickups : PickupServed(p) \/ PickupAnswered(p)
     \/ \E i \in PollIds : QueueServed(i) \/ QueueLoaded(i)
     \/ \E c \in Callers : pickup(c)
  /\ UNCHANGED <<route, session, form, ended>>

\* On mount a first quiet load is sent at once.
DeskEntered(page) ==
  IF page = "inbound"
  THEN LET first == CHOOSE i \in PollIds : TRUE IN
         /\ desk' = [NoDesk EXCEPT !.loading = TRUE]
         /\ polls' = [i \in PollIds |-> IF i = first THEN [NoPoll EXCEPT !.stage = "sent"] ELSE NoPoll]
         /\ queue' \in [Callers -> {"none", "waiting"}]
  ELSE /\ desk' = NoDesk /\ polls' = [i \in PollIds |-> NoPoll]
       /\ queue' = [c \in Callers |-> "none"]
Abandoned == {[p EXCEPT !.live = FALSE] : p \in pickups}
DeskInit ==
  /\ desk = NoDesk /\ polls = [i \in PollIds |-> NoPoll]
  /\ pickups = {} /\ queue = [c \in Callers |-> "none"]
=============================================================================
