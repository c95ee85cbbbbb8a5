------------------------------ MODULE Records ------------------------------
(***************************************************************************)
(* Looking things up: the panel of past conversations                      *)
(* (ConversationHistoryPanel), the list of calls (/history), the waiting   *)
(* page of a call (/calling/[id]) and its result (/result/[id]), with the  *)
(* routes that answer them. A fetch of the panel goes on when another      *)
(* conversation is selected; only what it does after its first await is    *)
(* guarded by the flag of its effect.                                      *)
(***************************************************************************)
EXTENDS Router

CONSTANTS Convs,        \* conversations of the user
          MaxSelects    \* bound: selections during one visit of the panel
ASSUME RecordsAssumption == None \notin Convs /\ MaxSelects \in Nat

VARIABLES panel,    \* the panel of the menu "history"
          record,   \* the list, waiting or result page
          late      \* a waiting page, left or not, will still push its result

recordsVars == <<panel, record, late>>

CallStates == {"PENDING", "CALLING", "IN_PROGRESS", "COMPLETED", "FAILED"}
Terminal   == {"COMPLETED", "FAILED"}

NoPanel  == [list |-> "none", asked |-> FALSE, convs |-> {}, selects |-> 0, sel |-> None, detail |-> None,
             loading |-> FALSE, error |-> None, result |-> None, fetches |-> {}]
NoRecord == [asked |-> FALSE, loading |-> FALSE, error |-> FALSE, tries |-> 0, calls |-> {}]

PanelMounted(page)  ==
  [NoPanel EXCEPT !.list = IF page = "panel" THEN "loading" ELSE "none", !.asked = (page = "panel")]
RecordMounted(page) ==
  LET there == page \in {"history", "calling", "result"}
  IN  [NoRecord EXCEPT !.asked = there, !.loading = there]

Redirected(a) == goto' = IF a = "unauthorized" THEN "login" ELSE goto

----------------------------------------------------------------------------
(* The list of the panel: GET /api/conversations *)

\* A refused session leaves the list loading; it is left for /login.
fetchConversations ==
  /\ panel.asked
  /\ \E a \in Answers({"ok", "error"}) :
       /\ Redirected(a)
       /\ panel' = [panel EXCEPT !.asked = FALSE,
            !.list = IF a = "unauthorized" THEN @ ELSE IF a = "ok" THEN "rows" ELSE "error",
            !.convs = IF a = "ok" THEN Convs ELSE @]
  /\ Provisioned
handleRefresh ==
  /\ panel.list \in {"rows", "error"}
  /\ panel' = [panel EXCEPT !.list = "loading", !.asked = TRUE]
  /\ UNCHANGED <<goto, account>>

----------------------------------------------------------------------------
(* The conversation selected: its detail, then its call *)

Fetch(c, stage) == [conv |-> c, stage |-> stage, live |-> TRUE]
\* The clean-up of the effect: a fetch that awaits headers does nothing any
\* more, one that awaits a body goes on.
Cancelled == {[f EXCEPT !.live = FALSE] : f \in {g \in panel.fetches : g.stage \in {"body", "callsBody"}}}

\* The button "try again" selects what is selected and changes nothing.
handleSelect(c) ==
  /\ panel.list = "rows" /\ c \in panel.convs \ {panel.sel} /\ panel.selects < MaxSelects
  /\ panel' = [panel EXCEPT !.selects = @ + 1, !.sel = c, !.loading = TRUE, !.error = None,
                            !.result = None, !.fetches = Cancelled \cup {Fetch(c, "sent")}]
  /\ UNCHANGED <<goto, account>>

Moved(f, stage) == (panel.fetches \ {f}) \cup {[f EXCEPT !.stage = stage]}
Gone(f) == panel.fetches \ {f}
\* Fault: the error of a cancelled fetch is shown as well.
FailedLoud(f) == [panel EXCEPT !.fetches = Gone(f), !.error = f.conv, !.loading = FALSE]
Failed(f) ==
  IF f.live THEN [panel EXCEPT !.fetches = Gone(f), !.error = f.conv, !.loading = FALSE]
  ELSE [panel EXCEPT !.fetches = Gone(f)]

DetailAnswered(f) ==
  /\ f.stage = "sent"
  /\ \E a \in Answers({"ok", "error"}) :
       /\ Redirected(a)
       /\ panel' = CASE a = "ok" -> [panel EXCEPT !.fetches = Moved(f, "body")]
                     [] a = "unauthorized" -> [panel EXCEPT !.fetches = Gone(f)]
                     [] OTHER -> Failed(f)
  /\ Provisioned
\* The body has come: the detail is set, whatever is selected by now.
DetailRead(f) ==
  /\ f.stage = "body"
  /\ \/ panel' = [panel EXCEPT !.detail = f.conv, !.loading = FALSE,
                    !.fetches = IF f.live THEN Moved(f, "calls") ELSE Gone(f)]
     \/ panel' = Failed(f)
  /\ UNCHANGED <<goto, account>>
\* The call of the conversation; a failure is ignored.
CallsAnswered(f) ==
  /\ f.stage = "calls"
  /\ \E a \in Answers({"ok", "error"}) :
       panel' = [panel EXCEPT !.fetches = IF a = "ok" THEN Moved(f, "callsBody") ELSE Gone(f)]
  /\ Provisioned /\ UNCHANGED goto
CallsRead(f) ==
  /\ f.stage = "callsBody"
  /\ \E r \in {None, f.conv} : panel' = [panel EXCEPT !.result = r, !.fetches = Gone(f)]
  /\ UNCHANGED <<goto, account>>

\* What the right half shows: the error only when nothing is loading, the
\* detail only when there is no error.
Body == CASE panel.sel = None -> "empty"
          [] panel.sel # None /\ panel.loading -> "loading"
          [] panel.sel # None /\ ~panel.loading /\ panel.error # None -> "error"
          [] OTHER -> IF panel.detail = None THEN "blank" ELSE "detail"

PanelStep ==
  /\ \/ fetchConversations \/ handleRefresh
     \/ \E c \in Convs : handleSelect(c)
     \/ \E f \in panel.fetches :
          DetailAnswered(f) \/ DetailRead(f) \/ CallsAnswered(f) \/ CallsRead(f)
  /\ UNCHANGED <<record, late>>

----------------------------------------------------------------------------
(* The pages of calls *)

\* GET /api/calls of /history, GET /api/calls/[id] of the others.
Answered(a, seen) ==
  record' = [record EXCEPT !.asked = FALSE, !.loading = FALSE, !.error = (a # "ok"),
                           !.calls = IF a = "ok" THEN seen ELSE {}]
HistoryAnswered ==
  /\ route = "history" /\ record.asked
  /\ \E a \in Answers({"ok", "error"}) :
       /\ Redirected(a)
       /\ IF a = "unauthorized" THEN record' = [record EXCEPT !.asked = FALSE]
          ELSE \E seen \in {{}, CallStates} : Answered(a, seen)
  /\ Provisioned /\ UNCHANGED <<panel, late>>
ResultAnswered ==
  /\ route = "result" /\ record.asked
  /\ \E a \in Answers({"ok", "missing", "error"}) :
       /\ Redirected(a)
       /\ IF a = "unauthorized" THEN record' = [record EXCEPT !.asked = FALSE]
          ELSE \E s \in CallStates : Answered(a, {s})
  /\ Provisioned /\ UNCHANGED <<panel, late>>
\* useCallPolling asks once: a server error is counted to three but never
\* tried again, a call not found leads home, and a call that is over to its
\* result, a second later, by a timer nobody clears.
CallingAnswered ==
  /\ route = "calling" /\ record.asked
  /\ \E a \in Answers(CallStates \cup {"missing", "error"}) :
       /\ goto' = CASE a = "unauthorized" -> "login" [] a = "missing" -> "home" [] OTHER -> goto
       /\ CASE a \in CallStates -> Answered("ok", {a})
            [] a \in {"error", "forbidden"} ->
                 record' = [record EXCEPT !.asked = FALSE, !.tries = @ + 1]
            [] OTHER -> record' = [record EXCEPT !.asked = FALSE]
       /\ late' = (late \/ a \in Terminal)
  /\ Provisioned /\ UNCHANGED panel
LateResult ==
  /\ late
  /\ late' = FALSE /\ goto' = "result"
  /\ UNCHANGED <<panel, record, account>>

\* HistoryList: calls that are over lead to their result, others to the
\* waiting page; the other pages have a button home.
getNavigationTarget(s) == IF s \in Terminal THEN "result" ELSE "calling"
LeavesRecord ==
  /\ ~record.asked /\ goto = None
  /\ \/ /\ route = "history" /\ ~record.loading /\ ~record.error
        /\ \E s \in record.calls : goto' = getNavigationTarget(s)
     \/ /\ route = "history" \/ (route = "result" /\ record.error)
        /\ goto' = "home"
     \/ route = "result" /\ ~record.error /\ ~record.loading /\ goto' = "panel"
  /\ UNCHANGED <<recordsVars, account>>

\* CallingStatus: the three steps of the waiting page.
CallingStatus ==
  CASE \E s \in record.calls : s \in Terminal -> "ended"
    [] "IN_PROGRESS" \in record.calls -> "delivering"
    [] record.calls \cap {"PENDING", "CALLING"} # {} -> "connecting"
    [] OTHER -> "preparing"

RecordsStep ==
  /\ \/ PanelStep \/ HistoryAnswered \/ ResultAnswered \/ CallingAnswered
     \/ LateResult \/ LeavesRecord
  /\ UNCHANGED <<route, session, form, ended>>

RecordsEntered(page) ==
  panel' = PanelMounted(page) /\ record' = RecordMounted(page)
RecordsInit == panel = NoPanel /\ record = NoRecord /\ late = FALSE

----------------------------------------------------------------------------
(* Properties *)

\* The error under a selected conversation is that conversation's: what a
\* fetch of an earlier selection runs into is not shown under a later one
\* (ConversationHistoryPanel.tsx, the cancelled flag).
ErrorIsOfSelection == panel.error # None => panel.error = panel.sel
=============================================================================
