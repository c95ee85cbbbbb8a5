------------------------------- MODULE Pages -------------------------------
(***************************************************************************)
(* The pages of the web app around the chat and the call, composed: one is *)
(* mounted at a time, and what another left behind (a poll still awaited,  *)
(* a timer, a pickup) acts on the page that is on the screen by then.      *)
(***************************************************************************)
EXTENDS Monitor, Records, Desk

pagesVars == <<monitorVars, recordsVars, deskVars, routerVars, linkVars>>

----------------------------------------------------------------------------
Entered(page, stray, lateResult, open) ==
  /\ route' = page /\ goto' = None /\ form' = NoForm
  /\ MonitorEntered(page, stray) /\ RecordsEntered(page) /\ DeskEntered(page)
  /\ late' = lateResult /\ pickups' = open
  /\ UNCHANGED <<session, account, ended>>

\* The router goes where it was told to go, if the middleware lets it; a
\* push of the page on the screen changes nothing.
Navigates ==
  /\ goto # None
  /\ IF Admitted(goto) = route
     THEN /\ goto' = None
          /\ UNCHANGED <<monitorVars, recordsVars, deskVars, linkVars,
                         route, session, account, form, ended>>
     ELSE Entered(Admitted(goto), list.asked \/ list.stray, late, Abandoned)

\* An address is typed or a page loaded again: nothing is left behind. It
\* is typed on the home or sign-in page, any other is loaded again or left
\* for the home page first.
Addresses == Screens \ {"panel"}
Visits(page) ==
  /\ page \in IF route \in {"home", "login"} THEN Addresses ELSE {"home", route} \ {"panel"}
  /\ Entered(Admitted(page), FALSE, FALSE, {})

\* The menu of the dashboard shows the panel or the chat without the router.
handleMenuClick ==
  /\ \/ route = "home" /\ Entered("panel", list.stray, late, Abandoned)
     \/ route = "panel" /\ Entered("home", list.stray, late, Abandoned)

PagesInit == RouterInit /\ MonitorInit /\ RecordsInit /\ DeskInit
PagesNext ==
  \/ RouterStep /\ UNCHANGED <<monitorVars, recordsVars, deskVars, linkVars>>
  \/ MonitorStep /\ UNCHANGED <<recordsVars, deskVars>>
  \/ RecordsStep /\ UNCHANGED <<monitorVars, deskVars, linkVars>>
  \/ DeskStep /\ UNCHANGED <<monitorVars, recordsVars, linkVars>>
  \/ Navigates \/ handleMenuClick
  \/ \E page \in Addresses : Visits(page)
PagesSpec == PagesInit /\ [][PagesNext]_pagesVars

----------------------------------------------------------------------------
(* Properties *)

\* As long as the session lasts no page waits for nothing: whatever shows
\* a spinner or disables a button has a request under way that will end it,
\* whichever request was cancelled, overtaken or refused in between (the
\* loading flags of ConversationHistoryPanel.tsx, app/history, app/result,
\* app/monitor and app/inbound), and the waiting page that says "ended" is
\* left for the result. Its own spinner is left out: a server error leaves
\* it for ever (hooks/useCallPolling.ts counts to three but never retries).
AwaitsDetail == \E f \in panel.fetches : f.live /\ f.stage \in {"sent", "body"}
AwaitsPoll   == \E i \in PollIds : polls[i].stage # "none"
AwaitsPickup == \/ \E p \in pickups : p.live
                \/ \E i \in PollIds : polls[i].stage # "none" /\ polls[i].retry
NoEndlessSpinner ==
  OnePollLoop /\ (session = "valid" =>
    /\ panel.list = "loading" => panel.asked
    /\ Body = "loading" => AwaitsDetail
    /\ route \in {"history", "result"} /\ record.loading => record.asked
    /\ route = "calling" /\ CallingStatus = "ended" => late \/ goto # None
    /\ desk.loading \/ desk.refreshing => AwaitsPoll
    /\ desk.claiming # None => AwaitsPickup)
=============================================================================
