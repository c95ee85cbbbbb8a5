---------------------------- MODULE SessionRecovery ----------------------------
(***************************************************************************)
(* One OpenAI Realtime session of a call in progress: its websocket, the   *)
(* listen tasks that read it, and its SessionRecoveryManager (heartbeat    *)
(* task, recovery task), until the call ends: cleanup_call stops the       *)
(* monitoring, cancels the registered listen task and closes the session.  *)
(*                                                                         *)
(* An action is the code between two awaits that suspend.  Time is         *)
(* abstracted: a sleep ends at any time, and so does a backoff that finds  *)
(* the recovery timeout passed.                                            *)
(***************************************************************************)
EXTENDS Naturals, FiniteSets

CONSTANTS
  Sockets,      \* names for websockets; that of a dead one is used again
  Listeners,    \* names for listen tasks, used again likewise
  Recoveries,   \* names for recovery tasks, used again likewise
  MaxAttempts,  \* settings.recovery_max_attempts
  MaxUpsets,    \* bound on broken sockets, error events, silences and handlers
                \* that outlast other steps
  None

ASSUME RecoveryAssumption ==
  /\ MaxAttempts \in Nat \ {0} /\ MaxUpsets \in Nat
  /\ Sockets # {} /\ Listeners # {}
  /\ None \notin Sockets \cup Listeners \cup Recoveries

VARIABLES
  (* RealtimeSession *)
  ws,           \* self.ws
  closed,       \* self._closed
  open,         \* the sockets that are open
  listener,     \* where each listen task is
  reads,        \* the socket it iterates over
  registered,   \* the listen task that call_manager knows
  (* SessionRecoveryManager *)
  recovering,   \* _recovering
  degraded,     \* _degraded_mode
  attempt,      \* _attempt
  state,        \* the session's state in the ActiveCall
  heartbeat,    \* the heartbeat task
  recovery,     \* where each recovery task is
  task,         \* _recovery_task
  (* the call, the world *)
  ending,       \* how far the end of the call has come
  upsets

socketVars == <<ws, closed, open>>
listenVars == <<listener, reads, registered>>
recoveryFlags == <<recovering, degraded, attempt, state>>
taskVars == <<heartbeat, recovery, task>>
sessionVars == <<socketVars, listenVars, recoveryFlags, taskVars, ending, upsets>>

RecoveryTypeOK ==
  /\ ws \in Sockets \cup {None} /\ closed \in BOOLEAN /\ open \in SUBSET Sockets
  /\ listener \in [Listeners -> {"idle", "spawned", "reading", "handling", "starting"}]
  /\ reads \in [Listeners -> Sockets \cup {None}]
  /\ registered \in Listeners \cup {None}
  /\ recovering \in BOOLEAN /\ degraded \in BOOLEAN /\ attempt \in 0..MaxAttempts
  /\ state \in {"CONNECTED", "RECONNECTING", "DEGRADED"}
  /\ heartbeat \in {"off", "asleep", "starting"}
  /\ recovery \in [Recoveries -> {"idle", "backoff", "closing", "connecting",
                                  "catchup", "recovered", "degraded"}]
  /\ task \in Recoveries \cup {None}
  /\ ending \in {"no", "stopping", "stopped", "unheard", "closing", "over"}
  /\ upsets \in 0..MaxUpsets

(* The session is connected, start_monitoring and listen_all are running.  *)
RecoveryInit ==
  /\ \E s \in Sockets, l \in Listeners :
       /\ ws = s /\ open = {s}
       /\ listener = [k \in Listeners |-> IF k = l THEN "reading" ELSE "idle"]
       /\ reads = [k \in Listeners |-> IF k = l THEN s ELSE None]
       /\ registered = l
  /\ closed = FALSE /\ recovering = FALSE /\ degraded = FALSE
  /\ attempt = 0 /\ state = "CONNECTED"
  /\ heartbeat = "asleep"
  /\ recovery = [r \in Recoveries |-> "idle"] /\ task = None
  /\ ending = "no" /\ upsets = 0

-----------------------------------------------------------------------------
(* The socket and its readers                                              *)

Upset == upsets < MaxUpsets /\ upsets' = upsets + 1

(* The connection is lost, or OpenAI closes it.                            *)
SocketBreaks(s) ==
  /\ s \in open /\ Upset
  /\ open' = open \ {s}
  /\ UNCHANGED <<ws, closed, listenVars, recoveryFlags, taskVars, ending>>

ListenerOver(l) ==
  /\ listener' = [listener EXCEPT ![l] = "idle"]
  /\ reads' = [reads EXCEPT ![l] = None]
  /\ registered' = IF registered = l THEN None ELSE registered

(* The read loop ends: the socket is no longer open, or a message arrived  *)
(* while _closed is set, or another task reads the socket already (which   *)
(* the library refuses).  The finally sets _closed, whatever self.ws is by *)
(* now.                                                                    *)
ListenEnds(l) ==
  /\ listener[l] = "reading"
  /\ \/ reads[l] \notin open
     \/ closed
     \/ \E k \in Listeners \ {l} : listener[k] = "reading" /\ reads[k] = reads[l]
  /\ ListenerOver(l)
  /\ closed' = TRUE
  /\ UNCHANGED <<ws, open, recoveryFlags, taskVars, ending, upsets>>

(* A message is handed to a handler that awaits (a slow app socket, the    *)
(* database), and the handler is done.                                     *)
HandleMessage(l) ==
  /\ listener[l] = "reading" /\ reads[l] \in open /\ ~closed /\ Upset
  /\ listener' = [listener EXCEPT ![l] = "handling"]
  /\ UNCHANGED <<socketVars, reads, registered, recoveryFlags, taskVars, ending>>

MessageHandled(l) ==
  /\ listener[l] = "handling"
  /\ listener' = [listener EXCEPT ![l] = "reading"]
  /\ UNCHANGED <<socketVars, reads, registered, recoveryFlags, taskVars, ending, upsets>>

(* The listen task that a recovery created begins: without a socket it     *)
(* returns at once.                                                        *)
ListenBegins(l) ==
  /\ listener[l] = "spawned"
  /\ listener' = [listener EXCEPT ![l] = IF ws = None THEN "idle" ELSE "reading"]
  /\ reads' = [reads EXCEPT ![l] = ws]
  /\ UNCHANGED <<socketVars, registered, recoveryFlags, taskVars, ending, upsets>>

-----------------------------------------------------------------------------
(* Detection                                                               *)

(* _start_recovery until it awaits the notification of the app.            *)
StartRecovery ==
  /\ ~recovering
  /\ recovering' = TRUE /\ attempt' = 0 /\ state' = "RECONNECTING"
  /\ UNCHANGED degraded

(* An error event that matters, handled by the listen task itself.  The    *)
(* handlers stay registered when the monitoring is stopped.                *)
SessionError(l) ==
  /\ listener[l] = "reading" /\ reads[l] \in open /\ ~closed /\ Upset
  /\ StartRecovery
  /\ listener' = [listener EXCEPT ![l] = "starting"]
  /\ UNCHANGED <<socketVars, reads, registered, taskVars, ending>>

(* Fault: only a session that was silent for too long is recovered.        *)
HeartbeatIgnoresClosed ==
  /\ heartbeat = "asleep"
  /\ ~closed
  /\ IF ws \notin open THEN UNCHANGED upsets ELSE Upset
  /\ StartRecovery
  /\ heartbeat' = "starting"
  /\ UNCHANGED <<socketVars, listenVars, recovery, task, ending>>

(* The heartbeat task wakes up: the session is marked closed, or there was *)
(* no event for heartbeat_timeout_s, because there is no connection or     *)
(* OpenAI was silent.                                                      *)
Lost == closed \/ ws \notin open
Heartbeat ==
  /\ heartbeat = "asleep"
  /\ IF Lost THEN UNCHANGED upsets ELSE Upset
  /\ StartRecovery
  /\ heartbeat' = "starting"
  /\ UNCHANGED <<socketVars, listenVars, recovery, task, ending>>

(* The app was notified: the recovery task is created.  Its first attempt  *)
(* begins with a backoff.                                                  *)
Launch(r) ==
  /\ recovery[r] = "idle"
  /\ recovery' = [recovery EXCEPT ![r] = "backoff"]
  /\ task' = r
  /\ attempt' = 1
  /\ UNCHANGED <<recovering, degraded, state, socketVars, reads, registered, ending, upsets>>

ErrorNotified(l, r) ==
  /\ listener[l] = "starting"
  /\ listener' = [listener EXCEPT ![l] = "reading"]
  /\ Launch(r)
  /\ UNCHANGED heartbeat

HeartbeatNotified(r) ==
  /\ heartbeat = "starting"
  /\ heartbeat' = "asleep"
  /\ Launch(r)
  /\ UNCHANGED listener

-----------------------------------------------------------------------------
(* The recovery task                                                       *)

EnterDegraded(r) ==
  /\ degraded' = TRUE /\ recovering' = FALSE /\ state' = "DEGRADED"
  /\ recovery' = [recovery EXCEPT ![r] = "degraded"]
  /\ UNCHANGED attempt

(* More than recovery_timeout_s have passed since the recovery began.      *)
RecoveryTimeout(r) ==
  /\ recovery[r] = "backoff"
  /\ EnterDegraded(r)
  /\ UNCHANGED <<socketVars, listenVars, heartbeat, task, ending, upsets>>

(* The backoff is over: session.close(), and without a socket at once      *)
(* session.connect().                                                      *)
CloseOld(r) ==
  /\ recovery[r] = "backoff"
  /\ IF ws = None
     THEN /\ recovery' = [recovery EXCEPT ![r] = "connecting"]
          /\ closed' = FALSE
     ELSE /\ recovery' = [recovery EXCEPT ![r] = "closing"]
          /\ closed' = TRUE
  /\ open' = open \ {ws}
  /\ UNCHANGED <<ws, listenVars, recoveryFlags, heartbeat, task, ending, upsets>>

(* A task that waits to read a closed socket is woken before close()       *)
(* returns; one that is in a handler comes back later.                     *)
OldClosed(r) ==
  /\ recovery[r] = "closing"
  /\ \A l \in Listeners : listener[l] = "reading" => reads[l] \in open
  /\ ws' = None /\ closed' = FALSE
  /\ recovery' = [recovery EXCEPT ![r] = "connecting"]
  /\ UNCHANGED <<open, listenVars, recoveryFlags, heartbeat, task, ending, upsets>>

(* connect() returns after its session.update.                             *)
SocketConnected(r) ==
  /\ recovery[r] = "connecting"
  /\ \E s \in Sockets \ open :
       /\ \A l \in Listeners : reads[l] # s
       /\ ws' = s /\ open' = open \cup {s}
  /\ recovery' = [recovery EXCEPT ![r] = "catchup"]
  /\ UNCHANGED <<closed, listenVars, recoveryFlags, heartbeat, task, ending, upsets>>

(* Fault: the last attempt leaves without degraded mode.                   *)
ConnectFailsForGood(r) ==
  /\ recovery[r] = "connecting"
  /\ IF attempt < MaxAttempts
     THEN /\ recovery' = [recovery EXCEPT ![r] = "backoff"]
          /\ attempt' = attempt + 1
     ELSE /\ recovery' = [recovery EXCEPT ![r] = "idle"]
          /\ UNCHANGED attempt
  /\ UNCHANGED <<socketVars, listenVars, recovering, degraded, state, heartbeat, task,
                 ending, upsets>>

(* connect() raised after its own retries.                                 *)
ConnectFails(r) ==
  /\ recovery[r] = "connecting"
  /\ IF attempt < MaxAttempts
     THEN /\ recovery' = [recovery EXCEPT ![r] = "backoff"]
          /\ attempt' = attempt + 1
          /\ UNCHANGED <<recovering, degraded, state>>
     ELSE EnterDegraded(r)
  /\ UNCHANGED <<socketVars, listenVars, heartbeat, task, ending, upsets>>

(* The catch-up is done or has failed; the session is back to normal and   *)
(* the app is notified.                                                    *)
CatchUpOver(r) ==
  /\ recovery[r] = "catchup"
  /\ recovering' = FALSE /\ state' = "CONNECTED"
  /\ recovery' = [recovery EXCEPT ![r] = "recovered"]
  /\ UNCHANGED <<socketVars, listenVars, degraded, attempt, heartbeat, task, ending,
                 upsets>>

(* The app was notified.  A recovered session gets a new listen task,      *)
(* which nobody registers.                                                 *)
Announced(r) ==
  /\ recovery[r] \in {"recovered", "degraded"}
  /\ recovery' = [recovery EXCEPT ![r] = "idle"]
  /\ IF recovery[r] = "recovered"
     THEN \E l \in Listeners : 
            /\ listener[l] = "idle"
            /\ listener' = [listener EXCEPT ![l] = "spawned"]
     ELSE UNCHANGED listener
  /\ UNCHANGED <<socketVars, reads, registered, recoveryFlags, heartbeat, task, ending, upsets>>

-----------------------------------------------------------------------------
(* The end of the call                                                     *)

(* router.stop() reaches recovery.stop(): the heartbeat task is cancelled, *)
(* a start of a recovery that it is in with it ...                         *)
StopHeartbeat ==
  /\ ending = "no"
  /\ ending' = "stopping" /\ heartbeat' = "off"
  /\ UNCHANGED <<socketVars, listenVars, recoveryFlags, recovery, task, upsets>>

(* ... and then the recovery task, wherever it waits.                      *)
StopRecovery ==
  /\ ending = "stopping"
  /\ ending' = "stopped"
  /\ recovery' = IF task = None THEN recovery ELSE [recovery EXCEPT ![task] = "idle"]
  /\ UNCHANGED <<socketVars, listenVars, recoveryFlags, heartbeat, task, upsets>>

(* The registered listen task is cancelled wherever it waits.              *)
CancelListen ==
  /\ ending = "stopped"
  /\ ending' = "unheard"
  /\ IF registered # None
     THEN /\ ListenerOver(registered)
          /\ closed' = TRUE
     ELSE UNCHANGED <<listenVars, closed>>
  /\ UNCHANGED <<ws, open, recoveryFlags, taskVars, upsets>>

(* session.close()                                                         *)
CloseSession ==
  /\ ending = "unheard"
  /\ ending' = IF ws = None THEN "over" ELSE "closing"
  /\ closed' = TRUE /\ open' = open \ {ws}
  /\ UNCHANGED <<ws, listenVars, recoveryFlags, taskVars, upsets>>

SessionClosed ==
  /\ ending = "closing"
  /\ ending' = "over" /\ ws' = None
  /\ UNCHANGED <<closed, open, listenVars, recoveryFlags, taskVars, upsets>>

-----------------------------------------------------------------------------
ListenerStep(l) ==
  \/ ListenEnds(l) \/ HandleMessage(l) \/ MessageHandled(l) \/ ListenBegins(l)
  \/ SessionError(l)
  \/ \E r \in Recoveries : ErrorNotified(l, r)

HeartbeatStep == Heartbeat \/ \E r \in Recoveries : HeartbeatNotified(r)

RecoveryStep(r) ==
  \/ RecoveryTimeout(r) \/ CloseOld(r) \/ OldClosed(r) \/ SocketConnected(r)
  \/ ConnectFails(r) \/ CatchUpOver(r) \/ Announced(r)

EndStep == StopHeartbeat \/ StopRecovery \/ CancelListen \/ CloseSession \/ SessionClosed

RecoveryNext ==
  \/ \E s \in Sockets : SocketBreaks(s)
  \/ \E l \in Listeners : ListenerStep(l)
  \/ HeartbeatStep
  \/ \E r \in Recoveries : RecoveryStep(r)
  \/ EndStep

RecoverySpec == RecoveryInit /\ [][RecoveryNext]_sessionVars

(* Timers expire, awaits end, a reader notices that its socket is gone.    *)
RecoveryFairness ==
  /\ \A l \in Listeners :
       /\ WF_sessionVars(ListenEnds(l)) /\ WF_sessionVars(ListenBegins(l))
       /\ WF_sessionVars(MessageHandled(l))
       /\ WF_sessionVars(\E r \in Recoveries : ErrorNotified(l, r))
  /\ WF_sessionVars(Lost /\ Heartbeat)
  /\ WF_sessionVars(\E r \in Recoveries : HeartbeatNotified(r))
  /\ \A r \in Recoveries : WF_sessionVars(RecoveryStep(r))

-----------------------------------------------------------------------------
(* Properties                                                              *)

(* Who is at work on a recovery: a start that notifies the app, a recovery *)
(* task until it restores normal or degraded mode.                         *)
Working == {"backoff", "closing", "connecting", "catchup"}
AtWork ==
  ({"listener"} \X {l \in Listeners : listener[l] = "starting"})
    \cup (IF heartbeat = "starting" THEN {<<"heartbeat", None>>} ELSE {})
    \cup ({"recovery"} \X {r \in Recoveries : recovery[r] \in Working})

(* Errors, heartbeat timeouts and closed connections that are detected     *)
(* together start one recovery: two would close each other's connection.   *)
OneRecoveryAtATime == \A v, w \in AtWork : v = w

(* _recovering is no dead end: while it is set the pipeline drops all      *)
(* audio of the session, so somebody must be about to clear it.            *)
RecoveringIsWorkedOn == recovering /\ ending = "no" => AtWork # {}

(* Exactly one task is at work on a recovery that is marked (recovery.py,  *)
(* _start_recovery against error handler, heartbeat and lost connection).  *)
OneRecoveryWorks == RecoveryTypeOK /\ OneRecoveryAtATime /\ RecoveringIsWorkedOn

(* Reconnecting leaks no connection: until the end of the call an open     *)
(* socket is the session's.                                                *)
OpenSocketIsOurs == ending = "no" => open \subseteq {ws}

(* A session that counts as healthy is read: somebody reads its socket or  *)
(* is about to.  Else its events (translations, errors) would be lost      *)
(* until the heartbeat times out.                                          *)
HealthyIsHeard ==
  ending = "no" /\ ~closed /\ ~recovering /\ ws \in open =>
    \/ \E l \in Listeners : reads[l] = ws \/ listener[l] = "spawned"
    \/ \E r \in Recoveries : recovery[r] = "recovered"

(* Reconnecting leaves no connection open behind it, and none that counts  *)
(* as healthy unread, whoever broke it and whichever reader came late      *)
(* (recovery.py, _recovery_loop; session_manager.py, listen and close).    *)
ConnectionIsHeard == OpenSocketIsOurs /\ HealthyIsHeard

(* A session that lost its connection is usable again or degraded in the   *)
(* end, unless the call ends; on the way no connection is leaked and none  *)
(* that counts as healthy goes unread.                                     *)
Usable == ws \in open /\ ~closed /\ ~recovering
LossIsHandled ==
  /\ []ConnectionIsHeard
  /\ (ending = "no" /\ Lost) ~> (Usable \/ degraded \/ ending # "no")
=============================================================================
