------------------------------- MODULE Router -------------------------------
(***************************************************************************)
(* Who may see which page of the web app: the middleware, the sign-in and  *)
(* sign-up forms, the OAuth callback, sign-out, and the guard requireUser  *)
(* of the API routes with its automatic provisioning.                      *)
(*                                                                         *)
(* router.push is asynchronous: it only says where to go (goto), the page  *)
(* stays mounted until the middleware has let the new one in.              *)
(***************************************************************************)
EXTENDS Naturals, FiniteSets

CONSTANTS None,
          MaxSessions   \* bound: how often a session ends

VARIABLES route,        \* the page on the screen
          goto,         \* where the router has been told to go, or None
          session,      \* the Supabase cookie: "none" or "valid"
          account,      \* the local users row: "none", "live" or "revoked"
          form,         \* the sign-in or sign-up form
          ended         \* sessions that have ended

routerVars == <<route, goto, session, account, form, ended>>

\* The list and the screen of the observer exist in two designs, /monitor
\* and /monitor2, that do the same; one stands for either.
Lists   == {"monitor"}
Watches == {"watch"}
AuthPages == {"login", "signup"}
Screens == AuthPages \cup Lists \cup Watches
           \cup {"home", "panel", "history", "calling", "result", "inbound", "inboundCall"}
ASSUME RouterAssumption == MaxSessions \in Nat /\ None \notin Screens

\* The middleware: without a session every page but /login, /signup too,
\* is answered with /login, with one /login is answered with the home page.
Admitted(page) ==
  CASE session = "none" -> "login"
    [] session = "valid" /\ page = "login" -> "home"
    [] OTHER -> page

\* requireUser: 401, 403, or the work of the route; the first request of a
\* new account inserts its row.
Answers(work) ==
  CASE session = "none" -> {"unauthorized"}
    [] session = "valid" /\ account = "revoked" -> {"forbidden"}
    [] OTHER -> work
Provisioned ==
  account' = IF session = "valid" /\ account = "none" THEN "live" ELSE account

NoForm == [busy |-> None, error |-> FALSE, success |-> FALSE, toast |-> FALSE, oauth |-> FALSE]

----------------------------------------------------------------------------
\* The two forms: a submit while one is pending does nothing, the passwords
\* of the sign-up are compared before anything is sent.
LoginSubmit ==
  /\ route = "login" /\ form.busy = None
  /\ form' = [form EXCEPT !.busy = "login", !.error = FALSE]
  /\ UNCHANGED <<route, goto, session, account, ended>>
SignupSubmit ==
  /\ route = "signup" /\ form.busy = None /\ ~form.success
  /\ \E valid \in BOOLEAN :
       form' = [form EXCEPT !.busy = IF valid THEN "signup" ELSE None, !.error = ~valid]
  /\ UNCHANGED <<route, goto, session, account, ended>>
LoginAnswered ==
  /\ form.busy = "login"
  /\ \/ /\ session' = "valid" /\ goto' = "home"
        /\ form' = [form EXCEPT !.busy = None]
     \/ /\ form' = [form EXCEPT !.busy = None, !.error = TRUE]
        /\ UNCHANGED <<session, goto>>
  /\ UNCHANGED <<route, account, ended>>
SignupAnswered ==
  /\ form.busy = "signup"
  /\ \E ok \in BOOLEAN :
       form' = [form EXCEPT !.busy = None, !.success = ok, !.error = ~ok]
  /\ UNCHANGED <<route, goto, session, account, ended>>

\* Google leaves for the provider unless a click is being handled; Kakao and
\* Apple show a notice for three seconds.
handleGoogleLogin ==
  /\ route = "login" /\ ~form.oauth
  /\ form' = [form EXCEPT !.oauth = TRUE]
  /\ UNCHANGED <<route, goto, session, account, ended>>
showToast ==
  /\ route = "login" /\ ~form.toast
  /\ form' = [form EXCEPT !.toast = TRUE]
  /\ UNCHANGED <<route, goto, session, account, ended>>
ToastEnds ==
  /\ form.toast
  /\ form' = [form EXCEPT !.toast = FALSE]
  /\ UNCHANGED <<route, goto, session, account, ended>>

\* GET /auth/callback: back from the provider the code is exchanged for a
\* session or the sign-in page is shown.
Callback ==
  /\ form.oauth
  /\ form' = [form EXCEPT !.oauth = FALSE]
  /\ \/ session' = "valid" /\ goto' = "home"
     \/ UNCHANGED session /\ goto' = "login"
  /\ UNCHANGED <<route, account, ended>>

handleSignOut ==
  /\ route \in {"home", "panel"} /\ ended < MaxSessions
  /\ session' = "none" /\ goto' = "login" /\ ended' = ended + 1
  /\ UNCHANGED <<route, account, form>>

\* The session expires; the operator revokes the account.
SessionEnds ==
  /\ session = "valid" /\ ended < MaxSessions
  /\ session' = "none" /\ ended' = ended + 1
  /\ UNCHANGED <<route, goto, account, form>>
AccountRevoked ==
  /\ account = "live" /\ ended < MaxSessions
  /\ account' = "revoked" /\ ended' = ended + 1
  /\ UNCHANGED <<route, goto, session, form>>

RouterStep ==
  \/ LoginSubmit \/ SignupSubmit \/ LoginAnswered \/ SignupAnswered
  \/ handleGoogleLogin \/ showToast \/ ToastEnds \/ Callback
  \/ handleSignOut \/ SessionEnds \/ AccountRevoked

RouterInit ==
  /\ route = "login" /\ goto = None /\ session = "none"
  /\ account = "none" /\ form = NoForm /\ ended = 0
=============================================================================
