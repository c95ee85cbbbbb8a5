---------------------------- MODULE CallLifecycle ----------------------------
(***************************************************************************)
(* The life of outbound calls in the relay: POST /calls/start, the Twilio  *)
(* media stream, the app and monitor sockets, the Twilio status callback   *)
(* and POST /calls/{id}/end all meet in CallManager.cleanup_call.          *)
(*                                                                         *)
(* The relay is one asyncio loop: a handler runs alone until it awaits     *)
(* something that suspends it, so an action is the code between two such   *)
(* awaits.  A start is a request to start a call; it owns one dual         *)
(* session, one phone call at Twilio and the media stream of that phone    *)
(* call.  Several starts may carry the same call id.                       *)
(***************************************************************************)
EXTENDS CapacityManager

CONSTANTS
  Starts,     \* start requests (each with its session, phone call and stream)
  Enders,     \* end_call requests, and shutdown_all's visits to a call
  Apps,       \* sockets of the app (/stream)
  Monitors,   \* read-only sockets (/monitor)
  CallId,     \* CallId[x]: the call id that x names
  None        \* Python's None

Task == ({"start", "status", "stream"} \X Starts)
          \cup ({"end"} \X Enders) \cup ({"app"} \X Apps)

Of(t) == CallId[t[2]]        \* the call id a task works on

ASSUME LifecycleAssumption ==
  /\ CallId \in [Starts \cup Enders \cup Apps \cup Monitors -> Calls]
  /\ None \notin Starts \cup Apps \cup Task

VARIABLES
  (* CallManager's registries, one entry per call id *)
  calls,          \* _calls: the start whose ActiveCall is registered
  sessions,       \* _sessions: the start whose dual session is registered
  routers,        \* _routers: the start whose stream's router is registered
  listeners,      \* _listen_tasks: likewise
  appWs,          \* _app_ws: the app socket
  observers,      \* _observers: the monitor sockets
  locks,          \* _cleanup_locks: the lock of the call id, named by the
                  \* task that created it
  (* the cleanup_call that a task is in *)
  stage,          \* where it is
  lock,           \* the lock it took from locks
  seen,           \* its local variable `call`
  (* the handlers and the world *)
  start,          \* state of a start request
  stream,         \* state of a media-stream handler
  app,            \* state of an app socket's handler
  monitor,        \* state of a monitor socket's handler
  phone,          \* the phone call at Twilio
  live,           \* <<kind, start>>: resources running, not told to stop
  persisted,      \* starts whose ActiveCall was handed to persist_call
  told            \* sockets that were sent "ended"

registries == <<calls, sessions, routers, listeners, appWs, observers>>
cleanupVars == <<stage, lock, seen>>
handlers == <<start, stream, app, monitor, phone>>
vars == <<capVars, registries, locks, cleanupVars, handlers, live, persisted, told>>

(* cleanup_call's awaits, in the order of the code; each is the state of a *)
(* task that waits there.                                                  *)
Unwinding == <<"router", "listener", "session", "app", "observers">>
InCleanup ==
  {"status_db", "hangup", "persist"} \cup {Unwinding[k] : k \in DOMAIN Unwinding}
Stages == InCleanup \cup {"none", "queued", "done"}

LifecycleTypeOK ==
  /\ CapTypeOK
  /\ calls \in [Calls -> Starts \cup {None}]
  /\ sessions \in [Calls -> Starts \cup {None}]
  /\ routers \in [Calls -> Starts \cup {None}]
  /\ listeners \in [Calls -> Starts \cup {None}]
  /\ appWs \in [Calls -> Apps \cup {None}]
  /\ observers \in [Calls -> SUBSET Monitors]
  /\ locks \in [Calls -> Task \cup {None}]
  /\ stage \in [Task -> Stages]
  /\ lock \in [Task -> Task \cup {None}]
  /\ seen \in [Task -> Starts \cup {None}]
  /\ start \in [Starts -> {"idle", "connecting", "dialing", "started", "failing", "failed"}]
  /\ stream \in [Starts -> {"none", "running", "over"}]
  /\ app \in [Apps -> {"idle", "accepting", "attached", "over"}]
  /\ monitor \in [Monitors -> {"idle", "accepting", "watching", "over"}]
  /\ phone \in [Starts -> {"none", "live", "over"}]
  /\ live \in SUBSET ({"session", "router", "listener"} \X Starts)
  /\ persisted \in SUBSET Starts
  /\ told \in SUBSET (Apps \cup Monitors)

Init ==
  /\ CapInit
  /\ calls = [c \in Calls |-> None]
  /\ sessions = [c \in Calls |-> None]
  /\ routers = [c \in Calls |-> None]
  /\ listeners = [c \in Calls |-> None]
  /\ appWs = [c \in Calls |-> None]
  /\ observers = [c \in Calls |-> {}]
  /\ locks = [c \in Calls |-> None]
  /\ stage = [t \in Task |-> "none"]
  /\ lock = [t \in Task |-> None]
  /\ seen = [t \in Task |-> None]
  /\ start = [i \in Starts |-> "idle"]
  /\ stream = [i \in Starts |-> "none"]
  /\ app = [a \in Apps |-> "idle"]
  /\ monitor = [m \in Monitors |-> "idle"]
  /\ phone = [i \in Starts |-> "none"]
  /\ live = {}
  /\ persisted = {}
  /\ told = {}

-----------------------------------------------------------------------------
(* cleanup_call *)

(* Lock l is held by a task inside its async with, or tasks wait for it.   *)
Held(l) == \E u \in Task : lock[u] = l /\ stage[u] \in InCleanup
Contended(l) == \E u \in Task : lock[u] = l /\ stage[u] \in InCleanup \cup {"queued"}

(* The next registry entry of c to be taken down after the k-th of         *)
(* Unwinding.  A popped entry that is None is skipped without an await.    *)
Registered(c, k) ==
  CASE Unwinding[k] = "router"    -> routers[c] # None
    [] Unwinding[k] = "listener"  -> listeners[c] # None
    [] Unwinding[k] = "session"   -> sessions[c] # None
    [] Unwinding[k] = "app"       -> appWs[c] # None
    [] Unwinding[k] = "observers" -> observers[c] # {}

NextEntry(c, k) ==
  {j \in DOMAIN Unwinding :
     /\ j > k /\ Registered(c, j)
     /\ \A i \in DOMAIN Unwinding : i > k /\ Registered(c, i) => j <= i}

(* Line 336: the entry of the dictionary goes, whatever lock it names now. *)
DropLock(c) == locks' = [locks EXCEPT ![c] = None]

(* Fault: the entry is popped, what it names is left running.              *)
TakeDownForgetsStop(t, c, j) ==
  /\ stage' = [stage EXCEPT ![t] = Unwinding[j]]
  /\ routers' = IF j = 1 THEN [routers EXCEPT ![c] = None] ELSE routers
  /\ listeners' = IF j = 2 THEN [listeners EXCEPT ![c] = None] ELSE listeners
  /\ sessions' = IF j = 3 THEN [sessions EXCEPT ![c] = None] ELSE sessions
  /\ UNCHANGED live

(* Pop the j-th entry and start to shut it down: router.stop(), the listen *)
(* task's cancel(), session.close(), the "ended" message to the sockets.   *)
TakeDownMedia(t, c, j) ==
  /\ stage' = [stage EXCEPT ![t] = Unwinding[j]]
  /\ routers' = IF j = 1 THEN [routers EXCEPT ![c] = None] ELSE routers
  /\ listeners' = IF j = 2 THEN [listeners EXCEPT ![c] = None] ELSE listeners
  /\ sessions' = IF j = 3 THEN [sessions EXCEPT ![c] = None] ELSE sessions
  /\ live' = live \ (CASE j = 1 -> {<<"router", routers[c]>>}
                       [] j = 2 -> {<<"listener", listeners[c]>>}
                       [] j = 3 -> {<<"session", sessions[c]>>}
                       [] OTHER -> {})

TakeDown(t, c, j) ==
  /\ TakeDownMedia(t, c, j)
  /\ appWs' = IF j = 4 THEN [appWs EXCEPT ![c] = None] ELSE appWs
  /\ observers' = IF j = 5 THEN [observers EXCEPT ![c] = {}] ELSE observers
  /\ told' = told \cup (CASE j = 4 -> {appWs[c]}
                          [] j = 5 -> observers[c]
                          [] OTHER -> {})

(* On to the next entry after the k-th; after the last one the ActiveCall  *)
(* is popped, the slot returned and the call handed to persist_call, all   *)
(* without an await.                                                       *)
Unwind(t, c, k) ==
  \/ /\ \E j \in NextEntry(c, k) : TakeDown(t, c, j)
     /\ UNCHANGED <<capVars, calls, locks, persisted>>
  \/ /\ NextEntry(c, k) = {}
     /\ calls' = [calls EXCEPT ![c] = None]
     /\ ReturnSlot(c)
     /\ IF calls[c] # None
        THEN /\ stage' = [stage EXCEPT ![t] = "persist"]
             /\ persisted' = persisted \cup {calls[c]}
             /\ UNCHANGED locks
        ELSE /\ stage' = [stage EXCEPT ![t] = "done"]
             /\ DropLock(c)
             /\ UNCHANGED persisted
     /\ UNCHANGED <<sessions, routers, listeners, appWs, observers, live, told>>

(* The head of the critical section, after the caller's own writes (hence  *)
(* calls').  With nothing registered cleanup_call returns from inside its  *)
(* async with: the slot is returned, the entry of _cleanup_locks stays.    *)
EnterCleanup(t, c) ==
  \/ /\ calls'[c] = None /\ sessions[c] = None /\ routers[c] = None
     /\ ReturnSlot(c)
     /\ stage' = [stage EXCEPT ![t] = "done"]
     /\ UNCHANGED <<sessions, routers, listeners, live, seen>>
  \/ /\ calls'[c] # None
     /\ stage' = [stage EXCEPT ![t] = "status_db"]
     /\ seen' = [seen EXCEPT ![t] = calls'[c]]
     /\ UNCHANGED <<capVars, sessions, routers, listeners, live>>
  \/ /\ calls'[c] = None /\ (sessions[c] # None \/ routers[c] # None)
     /\ \E j \in NextEntry(c, 0) : TakeDownMedia(t, c, j)
     /\ UNCHANGED <<capVars, seen>>

(* cleanup_call(c) called by t: find or create the lock of c, then enter   *)
(* the critical section at once if the lock is free, else wait for it.     *)
CallCleanup(t, c) ==
  LET l == IF locks[c] = None THEN t ELSE locks[c]
  IN /\ stage[t] = "none"
     /\ locks' = [locks EXCEPT ![c] = l]
     /\ lock' = [lock EXCEPT ![t] = l]
     /\ IF Contended(l)
        THEN /\ stage' = [stage EXCEPT ![t] = "queued"]
             /\ UNCHANGED <<capVars, sessions, routers, listeners, live, seen>>
        ELSE EnterCleanup(t, c)
     /\ UNCHANGED <<observers, persisted, told>>

(* A waiter gets the lock it waited for (asyncio wakes them in order; any  *)
(* order here).                                                            *)
GetLock(t) ==
  /\ stage[t] = "queued" /\ ~Held(lock[t])
  /\ UNCHANGED <<calls, appWs, observers, locks, lock, handlers, persisted, told>>
  /\ EnterCleanup(t, Of(t))

(* The pre-persist of status COMPLETED has returned or failed; the phone   *)
(* call is asked to end.                                                   *)
StatusWritten(t) ==
  /\ stage[t] = "status_db"
  /\ stage' = [stage EXCEPT ![t] = "hangup"]
  /\ UNCHANGED <<capVars, registries, locks, lock, seen, handlers, live, persisted, told>>

(* Twilio accepted the request to end the phone call, or it failed (a      *)
(* warning): the resources come down either way.                           *)
HangUpDone(t) ==
  /\ stage[t] = "hangup"
  /\ phone' \in {phone, [phone EXCEPT ![seen[t]] = "over"]}
  /\ Unwind(t, Of(t), 0)
  /\ UNCHANGED <<lock, seen, start, stream, app, monitor>>

(* The k-th entry has come down (its errors are logged).                   *)
TakenDown(t) ==
  \E k \in DOMAIN Unwinding :
    /\ stage[t] = Unwinding[k]
    /\ Unwind(t, Of(t), k)
    /\ UNCHANGED <<lock, seen, handlers>>

(* persist_call has returned or failed.  A failed start then releases the  *)
(* reservation of its call id once more.                                   *)
Persisted(t) ==
  /\ stage[t] = "persist"
  /\ stage' = [stage EXCEPT ![t] = "done"]
  /\ DropLock(Of(t))
  /\ IF t[1] = "start" THEN Release(Of(t)) ELSE UNCHANGED capVars
  /\ UNCHANGED <<registries, lock, seen, handlers, live, persisted, told>>

-----------------------------------------------------------------------------
(* POST /calls/start *)

StarterOf(i) == <<"start", i>>

(* 409 for a call in progress, 503 at capacity, else a slot is reserved    *)
(* and the dual session starts to connect.                                 *)
StartCall(i) ==
  /\ start[i] = "idle"
  /\ IF calls[CallId[i]] = None /\ CanReserve(CallId[i])
     THEN /\ Reserve(CallId[i])
          /\ start' = [start EXCEPT ![i] = "connecting"]
     ELSE /\ start' = [start EXCEPT ![i] = "failed"]
          /\ UNCHANGED capVars
  /\ UNCHANGED <<registries, locks, cleanupVars, stream, app, monitor, phone,
                 live, persisted, told>>

(* Fault: the reservation of a start that failed is kept.                  *)
ConnectFailsKeepsSlot(i) ==
  /\ start[i] = "connecting"
  /\ start' = [start EXCEPT ![i] = "failed"]
  /\ UNCHANGED <<capVars, registries, locks, cleanupVars, stream, app, monitor,
                 phone, live, persisted, told>>

(* dual_session.connect failed or was cancelled.                           *)
ConnectFails(i) ==
  /\ start[i] = "connecting"
  /\ start' = [start EXCEPT ![i] = "failed"]
  /\ Release(CallId[i])
  /\ UNCHANGED <<registries, locks, cleanupVars, stream, app, monitor, phone,
                 live, persisted, told>>

(* Both sessions are up: the session is registered and Twilio is asked to  *)
(* make the phone call.                                                    *)
Connected(i) ==
  /\ start[i] = "connecting"
  /\ start' = [start EXCEPT ![i] = "dialing"]
  /\ sessions' = [sessions EXCEPT ![CallId[i]] = i]
  /\ live' = live \cup {<<"session", i>>}
  /\ UNCHANGED <<capVars, calls, routers, listeners, appWs, observers, locks,
                 cleanupVars, stream, app, monitor, phone, persisted, told>>

(* make_call_async failed or was cancelled; the phone call may exist.      *)
DialFails(i) ==
  /\ start[i] = "dialing"
  /\ start' = [start EXCEPT ![i] = "failing"]
  /\ UNCHANGED <<calls, appWs, stream, app, monitor, phone>>
  /\ CallCleanup(StarterOf(i), CallId[i])

(* Fault: the call becomes active whether or not its slot is reserved.     *)
DialedForcesSlot(i) ==
  /\ start[i] = "dialing" /\ phone[i] # "none"
  /\ calls' = [calls EXCEPT ![CallId[i]] = i]
  /\ reserved' = reserved \ {CallId[i]}
  /\ active' = active \cup {CallId[i]}
  /\ start' = [start EXCEPT ![i] = "started"]
  /\ UNCHANGED <<sessions, routers, listeners, appWs, observers, locks, cleanupVars,
                 stream, app, monitor, phone, live, persisted, told>>

(* Twilio answered with the sid: the call is registered and the            *)
(* reservation committed.  A reservation that is gone fails the start.     *)
Dialed(i) ==
  /\ start[i] = "dialing" /\ phone[i] # "none"
  /\ calls' = [calls EXCEPT ![CallId[i]] = i]
  /\ \/ /\ Commit(CallId[i])
        /\ start' = [start EXCEPT ![i] = "started"]
        /\ UNCHANGED <<sessions, routers, listeners, observers, locks, cleanupVars,
                       live, persisted, told>>
     \/ /\ CallId[i] \notin reserved
        /\ start' = [start EXCEPT ![i] = "failing"]
        /\ CallCleanup(StarterOf(i), CallId[i])
  /\ UNCHANGED <<appWs, stream, app, monitor, phone>>

-----------------------------------------------------------------------------
(* Twilio *)

(* Twilio places the phone call while the relay waits for its sid, or after *)
(* a cancelled start, for the thread that makes the request goes on.       *)
PhonePlaced(i) ==
  /\ start[i] \in {"dialing", "failing"} /\ phone[i] = "none"
  /\ phone' = [phone EXCEPT ![i] = "live"]
  /\ UNCHANGED <<capVars, registries, locks, cleanupVars, start, stream, app,
                 monitor, live, persisted, told>>

(* The callee hangs up, does not answer, is busy.                          *)
PhoneEnds(i) ==
  /\ phone[i] = "live"
  /\ phone' = [phone EXCEPT ![i] = "over"]
  /\ UNCHANGED <<capVars, registries, locks, cleanupVars, start, stream, app,
                 monitor, live, persisted, told>>

(* Fault: a callback that finds no registered call is dropped.             *)
StatusCallbackNeedsCall(i) ==
  /\ phone[i] = "over" /\ stage[<<"status", i>>] = "none"
  /\ IF calls[CallId[i]] = None
     THEN /\ stage' = [stage EXCEPT ![<<"status", i>>] = "done"]
          /\ UNCHANGED <<capVars, registries, locks, lock, seen, handlers, live,
                         persisted, told>>
     ELSE /\ UNCHANGED <<calls, appWs, handlers>>
          /\ CallCleanup(<<"status", i>>, CallId[i])

(* The status callback of an ended phone call.                             *)
StatusCallback(i) ==
  /\ phone[i] = "over"
  /\ UNCHANGED <<calls, appWs, handlers>>
  /\ CallCleanup(<<"status", i>>, CallId[i])

(* The callee answered and Twilio opened the media stream.  Without a call *)
(* or a session the socket is closed, which ends the phone call; else the  *)
(* router and the listen task start and are registered.                    *)
StreamOpens(i) ==
  LET c == CallId[i]
  IN /\ phone[i] = "live" /\ stream[i] = "none"
     /\ IF calls[c] = None \/ sessions[c] = None
        THEN /\ stream' = [stream EXCEPT ![i] = "over"]
             /\ phone' = [phone EXCEPT ![i] = "over"]
             /\ UNCHANGED <<routers, listeners, live>>
        ELSE /\ stream' = [stream EXCEPT ![i] = "running"]
             /\ routers' = [routers EXCEPT ![c] = i]
             /\ listeners' = [listeners EXCEPT ![c] = i]
             /\ live' = live \cup {<<"router", i>>, <<"listener", i>>}
             /\ UNCHANGED phone
     /\ UNCHANGED <<capVars, calls, sessions, appWs, observers, locks, cleanupVars,
                    start, app, monitor, persisted, told>>

(* The stream's socket closes or fails: the handler's finally.             *)
StreamEnds(i) ==
  /\ stream[i] = "running"
  /\ stream' = [stream EXCEPT ![i] = "over"]
  /\ UNCHANGED <<calls, appWs, start, app, monitor, phone>>
  /\ CallCleanup(<<"stream", i>>, CallId[i])

-----------------------------------------------------------------------------
(* The app *)

(* POST /calls/{id}/end, or shutdown_all reaching the call.                *)
EndCall(e) ==
  /\ calls[CallId[e]] # None
  /\ UNCHANGED <<calls, appWs, handlers>>
  /\ CallCleanup(<<"end", e>>, CallId[e])

(* The socket's call is looked up, then the handler awaits is_inbound and  *)
(* accept.                                                                 *)
AppConnects(a) ==
  /\ app[a] = "idle"
  /\ app' = [app EXCEPT ![a] = IF calls[CallId[a]] = None THEN "over" ELSE "accepting"]
  /\ UNCHANGED <<capVars, registries, locks, cleanupVars, start, stream, monitor,
                 phone, live, persisted, told>>

(* try_register_app_ws; a second socket of the call is turned away.        *)
AppAttaches(a) ==
  LET c == CallId[a]
  IN /\ app[a] = "accepting"
     /\ IF appWs[c] = None
        THEN /\ app' = [app EXCEPT ![a] = "attached"]
             /\ appWs' = [appWs EXCEPT ![c] = a]
        ELSE /\ app' = [app EXCEPT ![a] = "over"]
             /\ UNCHANGED appWs
     /\ UNCHANGED <<capVars, calls, sessions, routers, listeners, observers, locks,
                    cleanupVars, start, stream, monitor, phone, live, persisted, told>>

(* The user ends the call, the socket drops, or cleanup_call closed it: the *)
(* handler's finally unregisters the socket if it is still the registered  *)
(* one and calls cleanup_call.                                             *)
AppLeaves(a) ==
  LET c == CallId[a]
  IN /\ app[a] = "attached"
     /\ app' = [app EXCEPT ![a] = "over"]
     /\ appWs' = IF appWs[c] = a THEN [appWs EXCEPT ![c] = None] ELSE appWs
     /\ UNCHANGED <<calls, start, stream, monitor, phone>>
     /\ CallCleanup(<<"app", a>>, c)

MonitorConnects(m) ==
  /\ monitor[m] = "idle"
  /\ monitor' = [monitor EXCEPT
                   ![m] = IF calls[CallId[m]] = None THEN "over" ELSE "accepting"]
  /\ UNCHANGED <<capVars, registries, locks, cleanupVars, start, stream, app,
                 phone, live, persisted, told>>

MonitorAttaches(m) ==
  /\ monitor[m] = "accepting"
  /\ monitor' = [monitor EXCEPT ![m] = "watching"]
  /\ observers' = [observers EXCEPT ![CallId[m]] = @ \cup {m}]
  /\ UNCHANGED <<capVars, calls, sessions, routers, listeners, appWs, locks,
                 cleanupVars, start, stream, app, phone, live, persisted, told>>

(* A monitor that leaves is unregistered and ends nothing.                 *)
MonitorLeaves(m) ==
  /\ monitor[m] = "watching"
  /\ monitor' = [monitor EXCEPT ![m] = "over"]
  /\ observers' = [observers EXCEPT ![CallId[m]] = @ \ {m}]
  /\ UNCHANGED <<capVars, calls, sessions, routers, listeners, appWs, locks,
                 cleanupVars, start, stream, app, phone, live, persisted, told>>

(* send_to_app drops a monitor to which it could not send.                 *)
MonitorDropped(m) ==
  /\ m \in observers[CallId[m]]
  /\ observers' = [observers EXCEPT ![CallId[m]] = @ \ {m}]
  /\ UNCHANGED <<capVars, calls, sessions, routers, listeners, appWs, locks,
                 cleanupVars, handlers, live, persisted, told>>

-----------------------------------------------------------------------------
CleanupStep(t) ==
  GetLock(t) \/ StatusWritten(t) \/ HangUpDone(t) \/ TakenDown(t) \/ Persisted(t)

StartStep(i) ==
  \/ StartCall(i) \/ ConnectFails(i) \/ Connected(i) \/ DialFails(i) \/ Dialed(i)

TwilioStep(i) ==
  \/ PhonePlaced(i) \/ PhoneEnds(i) \/ StatusCallback(i)
  \/ StreamOpens(i) \/ StreamEnds(i)

AppStep(a) == AppConnects(a) \/ AppAttaches(a) \/ AppLeaves(a)

MonitorStep(m) ==
  MonitorConnects(m) \/ MonitorAttaches(m) \/ MonitorLeaves(m) \/ MonitorDropped(m)

Next ==
  \/ \E t \in Task : CleanupStep(t)
  \/ \E i \in Starts : StartStep(i) \/ TwilioStep(i)
  \/ \E e \in Enders : EndCall(e)
  \/ \E a \in Apps : AppStep(a)
  \/ \E m \in Monitors : MonitorStep(m)

Spec == Init /\ [][Next]_vars

(* The fairness the relay's loop gives: an await of cleanup_call or of a   *)
(* start request ends (DB, Twilio and OpenAI calls have timeouts or fail), *)
(* a lock that is free goes to a waiter, Twilio delivers the callback of an *)
(* ended phone call, a socket whose peer is gone is noticed.               *)
FairSpec ==
  /\ Spec
  /\ \A t \in Task : WF_vars(CleanupStep(t))
  /\ \A i \in Starts :
       /\ WF_vars(ConnectFails(i) \/ Connected(i))
       /\ WF_vars(DialFails(i) \/ Dialed(i))
       /\ WF_vars(StatusCallback(i))
       /\ WF_vars(phone[i] = "over" /\ StreamEnds(i))
  /\ \A a \in Apps : WF_vars(AppAttaches(a)) /\ WF_vars(a \in told /\ AppLeaves(a))

-----------------------------------------------------------------------------
(* Properties *)

(* Some task is inside cleanup_call for c.                                 *)
Cleaning(c) == \E t \in Task : Of(t) = c /\ stage[t] \in InCleanup

(* A start request for c has not been answered yet.                        *)
Starting(c) ==
  \E i \in Starts :
    /\ CallId[i] = c
    /\ \/ start[i] \in {"connecting", "dialing"}
       \/ start[i] = "failing" /\ stage[StarterOf(i)] # "done"

(* Every occupied slot has its reason: an active slot a registered call    *)
(* that some end of the call will clean up, a reservation a start request  *)
(* that will commit or release it.  Otherwise the cap of concurrent calls  *)
(* shrinks for good.                                                       *)
NoSlotLeak ==
  \A c \in Calls :
    /\ c \in active => calls[c] # None
    /\ c \in reserved => Starting(c)

(* The other way round: a registered call that nobody is tearing down is   *)
(* counted.  Otherwise the relay carries more calls than the cap.          *)
RegisteredIsCounted ==
  \A c \in Calls : calls[c] # None /\ ~Cleaning(c) => c \in active

(* What runs can be found: an open dual session, a started router, a       *)
(* listen task is in the registry from which cleanup_call would take it    *)
(* down, and is not left in the registry once it was taken down.           *)
NoLostResource ==
  \A i \in Starts :
    LET c == CallId[i]
    IN /\ <<"session", i>> \in live <=> sessions[c] = i
       /\ <<"router", i>> \in live <=> routers[c] = i
       /\ <<"listener", i>> \in live <=> listeners[c] = i

(* The lock does its work: the resources of a call id are taken down by    *)
(* one task at a time, though the dictionary entry is dropped while tasks  *)
(* may still wait for the lock it named.                                   *)
OneTeardownAtATime ==
  \A t, u \in Task :
    stage[t] \in InCleanup /\ stage[u] \in InCleanup /\ Of(t) = Of(u) => t = u

(* Once the status callback of an ended phone call has been handled, its   *)
(* call is not registered unless it is being torn down, wherever the start *)
(* request was when the callback arrived: in particular a callback that    *)
(* overtakes the answer of calls.create does not leave a call that ended   *)
(* before it was registered.                                               *)
NoCallOutlivesItsPhone ==
  \A i \in Starts :
    stage[<<"status", i>>] = "done" /\ calls[CallId[i]] = i => Cleaning(CallId[i])

(* A call answered with 200 is registered or was handed to persist_call:   *)
(* no started call disappears from memory without reaching the database.   *)
StartedIsPersisted ==
  \A i \in Starts : start[i] = "started" /\ calls[CallId[i]] # i => i \in persisted

(* Nothing is left of a call id at rest: no start request in flight, no    *)
(* cleanup, no stream, no socket, no phone call.                           *)
AtRest(c) ==
  /\ ~Starting(c)
  /\ \A t \in Task : Of(t) = c => stage[t] \in {"none", "done"}
  /\ \A i \in Starts :
       CallId[i] = c => /\ stream[i] # "running" 
                        /\ phone[i] # "live"
                        /\ phone[i] = "over" => stage[<<"status", i>>] = "done"
  /\ \A a \in Apps : CallId[a] = c => app[a] \notin {"accepting", "attached"}

NothingLeftAtRest ==
  \A c \in Calls : AtRest(c) =>
    /\ calls[c] = None /\ sessions[c] = None /\ routers[c] = None
    /\ listeners[c] = None /\ appWs[c] = None
    /\ c \notin reserved \cup active

(* What a call holds is found, counted, taken down by one task at a time,  *)
(* and gone at rest; no call outlives its phone or misses the database     *)
(* (cleanup_call against everybody who registers something for a call).    *)
NothingUnaccounted ==
  /\ LifecycleTypeOK
  /\ RegisteredIsCounted /\ NoLostResource /\ NothingLeftAtRest
  /\ OneTeardownAtATime /\ NoCallOutlivesItsPhone /\ StartedIsPersisted

(* An ended phone call gives its slot back.                                *)
SlotComesBack ==
  \A i \in Starts : phone[i] = "over" ~> CallId[i] \notin reserved \cup active

(* Every step of the relay is a step of the capacity manager or leaves it  *)
(* alone: no handler touches the slots behind its back.                    *)
RefinesCapacity == CapSpec
=============================================================================
