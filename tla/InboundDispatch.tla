---------------------------- MODULE InboundDispatch ----------------------------
(***************************************************************************)
(* Inbound calls: POST /twilio/incoming creates a dispatch row, the        *)
(* caller's media stream waits in PendingMediaHandler, an agent picks the  *)
(* call up (claim, session bootstrap, handoff of the stream), connects the *)
(* app socket, leaves and comes back; the sweeper, the two connection      *)
(* deadlines, Twilio's status callback and the end of the stream all clean *)
(* the call up, at any of these moments.                                   *)
(*                                                                         *)
(* The rows live in Postgres and survive a restart of the relay, the rest  *)
(* is memory of one asyncio loop.  A statement of the database runs when   *)
(* its task resumes.  The cleanup of a call is a sequence of steps; a task *)
(* may be interrupted before each of them.                                 *)
(***************************************************************************)
EXTENDS CapacityManager, Sequences

CONSTANTS
  Agents,          \* the users that may pick up
  Nobody,          \* claimed_by IS NULL, no app socket
  Apps,            \* sockets of agents' apps
  MaxWaiting,      \* settings.max_waiting_calls
  MaxRestarts,     \* bound on the restarts of the relay
  DbFails          \* whether statements of the database may raise

ASSUME InboundAssumption ==
  /\ MaxWaiting \in Nat /\ MaxRestarts \in Nat
  /\ DbFails \in BOOLEAN
  /\ Nobody \notin Agents \cup Apps

VARIABLES
  row, claimant,   \* the table of dispatches
  counted,    \* the calls whose create_ringing has counted the queue and
              \* is inserting the row, under _create_lock
  known,      \* _known_calls
  pending,    \* the registry's PendingCall: none, prepared, attached
  closed,     \* the calls whose PendingMediaHandler is _closed
  stream,     \* run() of the caller's stream: none, open, waiting, over
  pick,       \* the pickup of an agent
  answered,   \* pickups answered with 200, for the properties
  session,    \* the call's dual session: none, open, closed
  media,      \* the call in call_manager: none, registered, unwinding
  appWs,      \* call_manager's app socket of the call
  app,        \* the handler of an app socket
  initial,    \* the deadline of the agent's first connection
  grace,      \* the deadline of the agent's reconnection
  closing,    \* _connection_cleanup_started
  todo,       \* what is left of the cleanup a task is in
  seen,       \* the state that finish_dispatch read
  reported,   \* the calls whose end Twilio has reported
  restarts

INSTANCE DispatchRow

table == <<row, claimant>>
deadlines == <<initial, grace, closing>>
tasks == <<todo, seen>>
outside == <<reported, restarts>>
rest == <<counted, known, pending, closed, stream, pick, answered, session,
          media, appWs, app>>
vars == <<capVars, table, rest, deadlines, tasks, outside>>

(* Who cleans a call up: the end of its stream, a status callback, the     *)
(* sweeper, a deadline, end_call, a failed pickup, an app's end_call.      *)
Task == ({"stream", "status", "sweep", "initial", "grace", "end"} \cup Agents \cup Apps)
           \X Calls
Of(t) == t[2]

FinishRow == <<"finish", "read", "update">>
CleanUp == <<"close", "call", "slot">> \o FinishRow      \* cleanup_inbound_media
Steps == {"close", "call", "tear", "unwind", "unlock", "slot", "finish", "read",
          "update", "flag", "forget"}

DispatchTypeOK ==
  /\ CapTypeOK /\ RowTypeOK
  /\ counted \in SUBSET Calls /\ known \in SUBSET Calls /\ closed \in SUBSET Calls
  /\ pending \in [Calls -> {"none", "prepared", "attached"}]
  /\ stream \in [Calls -> {"none", "open", "waiting", "over"}]
  /\ pick \in [Agents \X Calls -> {"idle", "claimed", "connecting", "handing", "handed"}]
  /\ answered \in SUBSET (Agents \X Calls)
  /\ session \in [Calls -> {"none", "open", "closed"}]
  /\ media \in [Calls -> {"none", "registered", "unwinding"}]
  /\ appWs \in [Calls -> Apps \cup {Nobody}]
  /\ app \in [Apps \X Calls -> {"idle", "accepting", "attached", "over"}]
  /\ initial \in [Calls -> {"off", "pending", "cleaning"}]
  /\ grace \in [Calls -> {"off", "pending", "cleaning"}]
  /\ closing \in SUBSET Calls
  /\ todo \in [Task -> Seq(Steps)]
  /\ seen \in [Task -> DispatchState \cup {"absent"}]
  /\ reported \in SUBSET Calls
  /\ restarts \in 0..MaxRestarts

Init ==
  /\ CapInit /\ RowInit
  /\ counted = {} /\ known = {} /\ closed = {} /\ closing = {} /\ answered = {}
  /\ reported = {}
  /\ pending = [c \in Calls |-> "none"]
  /\ stream = [c \in Calls |-> "none"]
  /\ pick = [p \in Agents \X Calls |-> "idle"]
  /\ session = [c \in Calls |-> "none"]
  /\ media = [c \in Calls |-> "none"]
  /\ appWs = [c \in Calls |-> Nobody]
  /\ app = [x \in Apps \X Calls |-> "idle"]
  /\ initial = [c \in Calls |-> "off"]
  /\ grace = [c \in Calls |-> "off"]
  /\ todo = [t \in Task |-> <<>>]
  /\ seen = [t \in Task |-> "absent"]
  /\ restarts = 0

-----------------------------------------------------------------------------
(* The deadlines                                                           *)

(* cancel_initial_connect_cleanup and cancel_reconnect_cleanup: a deadline *)
(* whose cleanup has started is left alone.                                *)
CancelDeadlines(c) ==
  /\ initial' = IF c \in closing THEN initial ELSE [initial EXCEPT ![c] = "off"]
  /\ grace' = IF c \in closing THEN grace ELSE [grace EXCEPT ![c] = "off"]
  /\ UNCHANGED closing

ScheduleInitial(c) ==
  /\ initial' = IF c \in closing THEN initial ELSE [initial EXCEPT ![c] = "pending"]
  /\ UNCHANGED <<grace, closing>>

ScheduleGrace(c) ==
  /\ grace' = IF c \in closing THEN grace ELSE [grace EXCEPT ![c] = "pending"]
  /\ UNCHANGED <<initial, closing>>

Begin(t, s) == todo[t] = <<>> /\ todo' = [todo EXCEPT ![t] = s]

(* Fault: the start of the cleanup is not marked.                          *)
InitialExpiresUnmarked(c) ==
  /\ initial[c] = "pending"
  /\ IF appWs[c] = Nobody
     THEN /\ initial' = [initial EXCEPT ![c] = "cleaning"]
          /\ Begin(<<"initial", c>>, CleanUp \o <<"flag">>)
          /\ UNCHANGED closing
     ELSE /\ initial' = [initial EXCEPT ![c] = "off"]
          /\ closing' = closing \ {c}
          /\ UNCHANGED todo
  /\ UNCHANGED <<capVars, table, rest, grace, seen, outside>>

(* 15 s after the pickup: without an app socket the call is cleaned up.    *)
InitialExpires(c) ==
  /\ initial[c] = "pending"
  /\ IF appWs[c] = Nobody
     THEN /\ initial' = [initial EXCEPT ![c] = "cleaning"]
          /\ closing' = closing \cup {c}
          /\ Begin(<<"initial", c>>, CleanUp \o <<"flag">>)
     ELSE /\ initial' = [initial EXCEPT ![c] = "off"]
          /\ closing' = closing \ {c}
          /\ UNCHANGED todo
  /\ UNCHANGED <<capVars, table, rest, grace, seen, outside>>

(* 15 s after the app socket went away.                                    *)
GraceExpires(c) ==
  /\ grace[c] = "pending"
  /\ IF appWs[c] = Nobody
     THEN /\ grace' = [grace EXCEPT ![c] = "cleaning"]
          /\ closing' = closing \cup {c}
          /\ Begin(<<"grace", c>>, CleanUp \o <<"flag">>)
     ELSE /\ grace' = [grace EXCEPT ![c] = "off"]
          /\ closing' = closing \ {c}
          /\ UNCHANGED todo
  /\ UNCHANGED <<capVars, table, rest, initial, seen, outside>>

-----------------------------------------------------------------------------
(* The cleanup of a call                                                   *)

At(t, s) == todo[t] # <<>> /\ Head(todo[t]) = s

Past(e, s) == IF s # <<>> /\ Head(s) = e THEN Tail(s) ELSE s

(* The end of cleanup_call leaves its async with on the way.               *)
After(s) == Past("unlock", s)
Done(t) == todo' = [todo EXCEPT ![t] = After(Tail(@))]

Cleaning(c) == \E t \in Task : Of(t) = c /\ todo[t] # <<>>
Locked(c) == \E t \in Task : Of(t) = c /\ \E k \in DOMAIN todo[t] : todo[t][k] = "unlock"

(* The PendingCall leaves the registry; its handler stops and closes the   *)
(* caller's stream.                                                        *)
CloseStream(t) ==
  /\ At(t, "close") /\ Done(t)
  /\ pending' = [pending EXCEPT ![Of(t)] = "none"]
  /\ closed' = IF pending[Of(t)] = "attached" THEN closed \cup {Of(t)} ELSE closed
  /\ UNCHANGED <<capVars, table, counted, known, stream, pick, answered, session,
                 media, appWs, app, deadlines, seen, outside>>

(* cleanup_call finds nothing registered: the slot is returned, that is    *)
(* all; the caller's own release() and finish() and the start of           *)
(* dispatch_service.finish follow without a suspension.                    *)
NothingToClean(t) ==
  /\ At(t, "call") /\ ~Locked(Of(t)) /\ media[Of(t)] = "none"
  /\ ReturnSlot(Of(t))
  /\ LET left == Past("slot", Tail(todo[t])) IN
       /\ todo' = [todo EXCEPT ![t] = Past("finish", left)]
       /\ IF Past("finish", left) = left THEN UNCHANGED deadlines
          ELSE CancelDeadlines(Of(t))
  /\ UNCHANGED <<table, rest, seen, outside>>

(* cleanup_call takes the lock of a registered call.                       *)
EnterCleanup(t) ==
  /\ At(t, "call") /\ ~Locked(Of(t)) /\ media[Of(t)] # "none"
  /\ todo' = [todo EXCEPT ![t] = <<"tear", "unwind", "unlock">> \o Tail(@)]
  /\ UNCHANGED <<capVars, table, rest, deadlines, seen, outside>>

(* Fault: the dual session is popped and not closed.                       *)
TearDownForgetsSession(t) ==
  /\ At(t, "tear") /\ Done(t)
  /\ media' = [media EXCEPT ![Of(t)] = "unwinding"]
  /\ appWs' = [appWs EXCEPT ![Of(t)] = Nobody]
  /\ UNCHANGED <<capVars, table, counted, known, pending, closed, stream, pick,
                 answered, session, app, deadlines, seen, outside>>

(* The status is written and the phone call asked to end (or neither, each *)
(* failure is logged): router, listen task, session and app socket go.     *)
TearDown(t) ==
  /\ At(t, "tear") /\ Done(t)
  /\ media' = [media EXCEPT ![Of(t)] = "unwinding"]
  /\ session' = [session EXCEPT ![Of(t)] = "closed"]
  /\ appWs' = [appWs EXCEPT ![Of(t)] = Nobody]
  /\ UNCHANGED <<capVars, table, counted, known, pending, closed, stream, pick,
                 answered, app, deadlines, seen, outside>>

(* The call is popped and its slot returned; a known inbound call has its  *)
(* row finished before the lock is left.                                   *)
Unwound(t) ==
  /\ At(t, "unwind")
  /\ media' = [media EXCEPT ![Of(t)] = "none"]
  /\ ReturnSlot(Of(t))
  /\ IF Of(t) \in known
     THEN todo' = [todo EXCEPT ![t] = FinishRow \o Tail(@)]
     ELSE Done(t)
  /\ UNCHANGED <<table, counted, known, pending, closed, stream, pick, answered,
                 session, appWs, app, deadlines, seen, outside>>

(* cleanup_inbound_media and bootstrap_inbound_media return the slot again. *)
SlotReturned(t) ==
  /\ At(t, "slot") /\ Done(t)
  /\ ReturnSlot(Of(t))
  /\ UNCHANGED <<table, rest, deadlines, seen, outside>>

(* finish(): the deadlines are cancelled, the row is read ...              *)
FinishStarts(t) ==
  /\ At(t, "finish") /\ Done(t)
  /\ CancelDeadlines(Of(t))
  /\ UNCHANGED <<capVars, table, rest, seen, outside>>

(* ... and, unless it is in a terminal state already, ...                  *)
FinishReads(t) ==
  /\ At(t, "read")
  /\ IF row[Of(t)] \in Terminal \cup {"absent"}
     THEN /\ todo' = [todo EXCEPT ![t] = After(Tail(Tail(@)))]
          /\ known' = known \ {Of(t)}
          /\ UNCHANGED seen
     ELSE /\ Done(t)
          /\ seen' = [seen EXCEPT ![t] = row[Of(t)]]
          /\ UNCHANGED known
  /\ UNCHANGED <<capVars, table, counted, pending, closed, stream, pick, answered,
                 session, media, appWs, app, deadlines, outside>>

TerminalFor(s) == IF s = "CONNECTED" THEN "ENDED" ELSE "CANCELLED"

(* Fault: the row is finished whatever its state is by now.                *)
FinishWritesBlindly(t) ==
  /\ At(t, "update") /\ Done(t)
  /\ row' = [row EXCEPT ![Of(t)] = TerminalFor(seen[t])]
  /\ known' = known \ {Of(t)}
  /\ UNCHANGED <<capVars, claimant, counted, pending, closed, stream, pick, answered,
                 session, media, appWs, app, deadlines, seen, outside>>

(* ... is finished if it is still in the state that was read.              *)
FinishWrites(t) ==
  /\ At(t, "update") /\ Done(t)
  /\ row' = IF row[Of(t)] = seen[t]
            THEN [row EXCEPT ![Of(t)] = TerminalFor(seen[t])] ELSE row
  /\ known' = known \ {Of(t)}
  /\ UNCHANGED <<capVars, claimant, counted, pending, closed, stream, pick, answered,
                 session, media, appWs, app, deadlines, seen, outside>>

(* A statement of finish_dispatch raises: the call is not forgotten.       *)
FinishFails(t) ==
  /\ DbFails
  /\ \/ At(t, "read") /\ todo' = [todo EXCEPT ![t] = After(Tail(Tail(@)))]
     \/ At(t, "update") /\ Done(t)
  /\ UNCHANGED <<capVars, table, rest, deadlines, seen, outside>>

(* The end of a deadline's task.                                           *)
DeadlineOver(t) ==
  /\ At(t, "flag") /\ Done(t)
  /\ closing' = closing \ {Of(t)}
  /\ initial' = IF t[1] = "initial" THEN [initial EXCEPT ![Of(t)] = "off"] ELSE initial
  /\ grace' = IF t[1] = "grace" THEN [grace EXCEPT ![Of(t)] = "off"] ELSE grace
  /\ UNCHANGED <<capVars, table, rest, seen, outside>>

(* The sweeper's _forget_call.                                             *)
Forget(t) ==
  /\ At(t, "forget") /\ Done(t)
  /\ known' = known \ {Of(t)}
  /\ UNCHANGED <<capVars, table, counted, pending, closed, stream, pick, answered,
                 session, media, appWs, app, deadlines, seen, outside>>

CleanupStep(t) ==
  \/ CloseStream(t) \/ NothingToClean(t) \/ EnterCleanup(t) \/ TearDown(t)
  \/ Unwound(t) \/ SlotReturned(t) \/ FinishStarts(t) \/ FinishReads(t) \/ FinishWrites(t)
  \/ FinishFails(t) \/ DeadlineOver(t) \/ Forget(t)

-----------------------------------------------------------------------------
(* POST /twilio/incoming, the caller's stream, Twilio's status callback    *)

InQueue == {c \in Calls : row[c] \in Preconnected}

(* Fault: the queue is counted outside _create_lock.                       *)
CountQueueUnlocked(c) ==
  /\ c \notin counted /\ stream[c] = "none" /\ c \notin reported
  /\ Cardinality(InQueue) < MaxWaiting
  /\ counted' = counted \cup {c}
  /\ UNCHANGED <<capVars, table, known, pending, closed, stream, pick, answered,
                 session, media, appWs, app, deadlines, tasks, outside>>

(* create_ringing, holding _create_lock: a full queue is refused (busy).   *)
(* The webhook may be repeated until the caller's stream opens; Twilio does *)
(* not repeat it for a call that it has reported over.                     *)
CountQueue(c) ==
  /\ counted = {} /\ stream[c] = "none" /\ c \notin reported
  /\ Cardinality(InQueue) < MaxWaiting
  /\ counted' = counted \cup {c}
  /\ UNCHANGED <<capVars, table, known, pending, closed, stream, pick, answered,
                 session, media, appWs, app, deadlines, tasks, outside>>

(* The row is inserted, or the one there is is returned; prepare() enters  *)
(* the call in the registry of pending media unless it is there.           *)
InsertRinging(c) ==
  /\ c \in counted
  /\ counted' = counted \ {c}
  /\ row' = IF row[c] = "absent" THEN [row EXCEPT ![c] = "RINGING"] ELSE row
  /\ known' = known \cup {c}
  /\ pending' = IF pending[c] = "none" THEN [pending EXCEPT ![c] = "prepared"] ELSE pending
  /\ UNCHANGED <<capVars, claimant, closed, stream, pick, answered, session, media,
                 appWs, app, deadlines, tasks, outside>>

(* The caller's stream connects and gets the PendingMediaHandler; without  *)
(* a PendingCall it is closed.                                             *)
StreamConnects(c) ==
  /\ stream[c] = "none" /\ c \notin counted /\ row[c] # "absent"
  /\ IF pending[c] = "prepared"
     THEN /\ stream' = [stream EXCEPT ![c] = "open"]
          /\ pending' = [pending EXCEPT ![c] = "attached"]
     ELSE /\ stream' = [stream EXCEPT ![c] = "over"]
          /\ UNCHANGED pending
  /\ UNCHANGED <<capVars, table, counted, known, closed, pick, answered, session,
                 media, appWs, app, deadlines, tasks, outside>>

(* The stream's start event puts the call in the agents' queue.            *)
StreamStarts(c) ==
  /\ stream[c] = "open" /\ row[c] = "RINGING"
  /\ stream' = [stream EXCEPT ![c] = "waiting"]
  /\ row' = [row EXCEPT ![c] = "WAITING_FOR_AGENT"]
  /\ known' = known \cup {c}
  /\ UNCHANGED <<capVars, claimant, counted, pending, closed, pick, answered, session,
                 media, appWs, app, deadlines, tasks, outside>>

(* Fault: a stream that the handler closed itself is not cleaned up after. *)
StreamEndsUnlessClosed(c) ==
  /\ stream[c] \in {"open", "waiting"}
  /\ stream' = [stream EXCEPT ![c] = "over"]
  /\ IF stream[c] = "open" THEN UNCHANGED todo ELSE Begin(<<"stream", c>>, CleanUp)
  /\ UNCHANGED <<capVars, table, counted, known, pending, closed, pick, answered,
                 session, media, appWs, app, deadlines, seen, outside>>

(* run() leaves its loop: the caller hung up, the stream broke or was      *)
(* closed, or mark_waiting found the row not RINGING.                      *)
StreamEnds(c) ==
  /\ stream[c] \in {"open", "waiting"}
  /\ stream' = [stream EXCEPT ![c] = "over"]
  /\ Begin(<<"stream", c>>, CleanUp)
  /\ UNCHANGED <<capVars, table, counted, known, pending, closed, pick, answered,
                 session, media, appWs, app, deadlines, seen, outside>>

(* The phone call or the stream is over, Twilio says.                      *)
StatusCallback(c) ==
  /\ row[c] # "absent" /\ c \notin counted
  /\ Begin(<<"status", c>>, IF pending[c] # "none" THEN CleanUp ELSE <<"call">>)
  /\ reported' = reported \cup {c}
  /\ UNCHANGED <<capVars, table, rest, deadlines, seen, restarts>>

(* POST /calls/{id}/end of a registered call.                              *)
EndCall(c) ==
  /\ media[c] # "none"
  /\ Begin(<<"end", c>>, <<"call">>)
  /\ UNCHANGED <<capVars, table, rest, deadlines, seen, outside>>

-----------------------------------------------------------------------------
(* The sweeper                                                             *)

(* Fault: a session that is starting loses its claim too.                  *)
ReleaseExpiredClaimOfStarting(c) ==
  /\ row[c] \in {"CLAIMED", "SESSION_STARTING"}
  /\ row' = [row EXCEPT ![c] = "WAITING_FOR_AGENT"]
  /\ claimant' = [claimant EXCEPT ![c] = Nobody]
  /\ UNCHANGED <<capVars, rest, deadlines, tasks, outside>>

(* claim_ttl_s passed without the session being started.                   *)
ReleaseExpiredClaim(c) ==
  /\ row[c] = "CLAIMED"
  /\ row' = [row EXCEPT ![c] = "WAITING_FOR_AGENT"]
  /\ claimant' = [claimant EXCEPT ![c] = Nobody]
  /\ UNCHANGED <<capVars, rest, deadlines, tasks, outside>>

(* inbound_wait_timeout_s passed without a claim.                          *)
TimeoutWaiting(c) ==
  /\ row[c] = "WAITING_FOR_AGENT"
  /\ row' = [row EXCEPT ![c] = "TIMEOUT"]
  /\ Begin(<<"sweep", c>>, CleanUp \o <<"forget">>)
  /\ UNCHANGED <<capVars, claimant, rest, deadlines, seen, outside>>

-----------------------------------------------------------------------------
(* POST /relay/inbound/calls/{id}/pickup                                   *)

(* The pickup lock of the call is free, and agent a is in no pickup of it. *)
PickupFree(c) ==
  \A a \in Agents : pick[<<a, c>>] = "idle" /\ todo[<<a, c>>] = <<>>

Claim(a, c) ==
  /\ PickupFree(c)
  /\ row[c] = "WAITING_FOR_AGENT" /\ claimant[c] = Nobody
  /\ row' = [row EXCEPT ![c] = "CLAIMED"]
  /\ claimant' = [claimant EXCEPT ![c] = a]
  /\ pick' = [pick EXCEPT ![<<a, c>>] = "claimed"]
  /\ known' = known \cup {c}
  /\ UNCHANGED <<capVars, counted, pending, closed, stream, answered, session, media,
                 appWs, app, deadlines, tasks, outside>>

(* The agent who is connected already gets the same answer again.          *)
PickupAgain(a, c) ==
  /\ PickupFree(c)
  /\ row[c] = "CONNECTED" /\ claimant[c] = a
  /\ known' = known \cup {c}
  /\ answered' = answered \cup {<<a, c>>}
  /\ UNCHANGED <<capVars, table, counted, pending, closed, stream, pick, session,
                 media, appWs, app, deadlines, tasks, outside>>

FailStart == CleanUp \o FinishRow

(* The claim becomes SESSION_STARTING, or it expired meanwhile (409).  The *)
(* bootstrap wants the caller's stream and a slot of the relay.            *)
StartSession(a, c) ==
  /\ pick[<<a, c>>] = "claimed"
  /\ \/ /\ row[c] = "CLAIMED" /\ claimant[c] = a
        /\ row' = [row EXCEPT ![c] = "SESSION_STARTING"]
        /\ IF pending[c] = "attached" /\ CanReserve(c)
           THEN /\ Reserve(c)
                /\ pick' = [pick EXCEPT ![<<a, c>>] = "connecting"]
                /\ UNCHANGED todo
           ELSE /\ pick' = [pick EXCEPT ![<<a, c>>] = "idle"]
                /\ Begin(<<a, c>>, FailStart)
                /\ UNCHANGED capVars
     \/ /\ ~(row[c] = "CLAIMED" /\ claimant[c] = a)
        /\ pick' = [pick EXCEPT ![<<a, c>>] = "idle"]
        /\ UNCHANGED <<capVars, row, todo>>
  /\ UNCHANGED <<claimant, counted, known, pending, closed, stream, answered, session,
                 media, appWs, app, deadlines, seen, outside>>

(* Both OpenAI sessions are up: they are registered, the slot is committed *)
(* and the handoff of the stream begins.  A reservation that a cleanup     *)
(* took back, or a handler that it closed, fails the bootstrap.            *)
SessionConnected(a, c) ==
  /\ pick[<<a, c>>] = "connecting"
  /\ session' = [session EXCEPT ![c] = "open"]
  /\ media' = [media EXCEPT ![c] = "registered"]
  /\ IF c \in reserved /\ c \notin closed
     THEN /\ pick' = [pick EXCEPT ![<<a, c>>] = "handing"]
          /\ UNCHANGED todo
     ELSE /\ pick' = [pick EXCEPT ![<<a, c>>] = "idle"]
          /\ Begin(<<a, c>>, <<"call", "slot">> \o FailStart)
  /\ IF c \in reserved THEN Commit(c) ELSE UNCHANGED capVars
  /\ UNCHANGED <<table, counted, known, pending, closed, stream, answered, appWs,
                 app, deadlines, seen, outside>>

(* The sessions fail to connect, the handoff fails, or 30 s have passed.   *)
BootstrapFails(a, c) ==
  /\ pick[<<a, c>>] \in {"connecting", "handing"}
  /\ pick' = [pick EXCEPT ![<<a, c>>] = "idle"]
  /\ Begin(<<a, c>>, <<"call", "slot">> \o FailStart)
  /\ UNCHANGED <<capVars, table, counted, known, pending, closed, stream, answered,
                 session, media, appWs, app, deadlines, seen, outside>>

(* Hold audio has stopped, the router has the caller's stream.             *)
HandedOff(a, c) ==
  /\ pick[<<a, c>>] = "handing"
  /\ pick' = [pick EXCEPT ![<<a, c>>] = "handed"]
  /\ UNCHANGED <<capVars, table, counted, known, pending, closed, stream, answered,
                 session, media, appWs, app, deadlines, tasks, outside>>

(* Fault: the deadline of the agent's connection is not started.           *)
AnswerWithoutDeadline(a, c) ==
  /\ pick[<<a, c>>] = "handed"
  /\ pick' = [pick EXCEPT ![<<a, c>>] = "idle"]
  /\ IF row[c] = "SESSION_STARTING" /\ claimant[c] = a
     THEN /\ row' = [row EXCEPT ![c] = "CONNECTED"]
          /\ answered' = answered \cup {<<a, c>>}
          /\ UNCHANGED todo
     ELSE /\ Begin(<<a, c>>, FailStart)
          /\ UNCHANGED <<row, answered>>
  /\ UNCHANGED <<capVars, claimant, counted, known, pending, closed, stream, session,
                 media, appWs, app, deadlines, seen, outside>>

(* The row becomes CONNECTED and the agent has 15 s to connect; a row that *)
(* was finished meanwhile takes the session down again (409).              *)
Answer(a, c) ==
  /\ pick[<<a, c>>] = "handed"
  /\ pick' = [pick EXCEPT ![<<a, c>>] = "idle"]
  /\ IF row[c] = "SESSION_STARTING" /\ claimant[c] = a
     THEN /\ row' = [row EXCEPT ![c] = "CONNECTED"]
          /\ answered' = answered \cup {<<a, c>>}
          /\ ScheduleInitial(c)
          /\ UNCHANGED todo
     ELSE /\ Begin(<<a, c>>, FailStart)
          /\ UNCHANGED <<row, answered, deadlines>>
  /\ UNCHANGED <<capVars, claimant, counted, known, pending, closed, stream, session,
                 media, appWs, app, seen, outside>>

(* The statement of StartSession or Answer raises: the pickup answers 500  *)
(* and does nothing more.                                                  *)
PickupRaises(a, c) ==
  /\ DbFails
  /\ pick[<<a, c>>] \in {"claimed", "handed"}
  /\ pick' = [pick EXCEPT ![<<a, c>>] = "idle"]
  /\ UNCHANGED <<capVars, table, counted, known, pending, closed, stream, answered,
                 session, media, appWs, app, deadlines, tasks, outside>>

-----------------------------------------------------------------------------
(* The agent's app socket, WS /relay/calls/{id}/stream                     *)

(* The pickup token is good while the row is CONNECTED; is_inbound makes   *)
(* the call known.                                                         *)
AppConnects(x, c) ==
  /\ app[<<x, c>>] = "idle" /\ row[c] = "CONNECTED" /\ media[c] # "none"
  /\ app' = [app EXCEPT ![<<x, c>>] = "accepting"]
  /\ known' = known \cup {c}
  /\ UNCHANGED <<capVars, table, counted, pending, closed, stream, pick, answered,
                 session, media, appWs, deadlines, tasks, outside>>

(* try_register_app_ws, then confirm_agent_connected: one socket per call, *)
(* and none once a deadline's cleanup has started.                         *)
AppAttaches(x, c) ==
  /\ app[<<x, c>>] = "accepting"
  /\ IF appWs[c] = Nobody /\ c \notin closing
     THEN /\ appWs' = [appWs EXCEPT ![c] = x]
          /\ app' = [app EXCEPT ![<<x, c>>] = "attached"]
          /\ CancelDeadlines(c)
     ELSE /\ app' = [app EXCEPT ![<<x, c>>] = "over"]
          /\ UNCHANGED <<appWs, deadlines>>
  /\ UNCHANGED <<capVars, table, counted, known, pending, closed, stream, pick,
                 answered, session, media, tasks, outside>>

Unregister(x, c) == appWs' = IF appWs[c] = x THEN [appWs EXCEPT ![c] = Nobody] ELSE appWs

(* The socket breaks or was closed by the relay: the agent has 15 s to     *)
(* come back.                                                              *)
AppLeaves(x, c) ==
  /\ app[<<x, c>>] = "attached"
  /\ app' = [app EXCEPT ![<<x, c>>] = "over"]
  /\ Unregister(x, c)
  /\ ScheduleGrace(c)
  /\ UNCHANGED <<capVars, table, counted, known, pending, closed, stream, pick,
                 answered, session, media, tasks, outside>>

(* The agent ends the call.                                                *)
AppEndsCall(x, c) ==
  /\ app[<<x, c>>] = "attached"
  /\ app' = [app EXCEPT ![<<x, c>>] = "over"]
  /\ Unregister(x, c)
  /\ Begin(<<x, c>>, CleanUp)
  /\ UNCHANGED <<capVars, table, counted, known, pending, closed, stream, pick,
                 answered, session, media, deadlines, seen, outside>>

-----------------------------------------------------------------------------
(* The relay dies and starts again: its memory is gone, every socket is    *)
(* broken, recover_after_restart closes the rows.                          *)
Open(c) == row[c] \in Preconnected \cup {"CONNECTED"}

Restart ==
  /\ restarts < MaxRestarts
  /\ restarts' = restarts + 1
  /\ row' = [c \in Calls |-> IF Open(c) THEN TerminalFor(row[c]) ELSE row[c]]
  /\ claimant' = [c \in Calls |->
       IF Open(c) /\ row[c] # "CONNECTED" THEN Nobody ELSE claimant[c]]
  /\ stream' = [c \in Calls |-> IF stream[c] = "none" THEN "none" ELSE "over"]
  /\ app' = [x \in Apps \X Calls |-> IF app[x] = "idle" THEN "idle" ELSE "over"]
  /\ session' = [c \in Calls |-> IF session[c] = "none" THEN "none" ELSE "closed"]
  /\ reserved' = {} /\ active' = {} /\ counted' = {} /\ known' = {}
  /\ closed' = {} /\ closing' = {}
  /\ pending' = [c \in Calls |-> "none"]
  /\ pick' = [p \in Agents \X Calls |-> "idle"]
  /\ media' = [c \in Calls |-> "none"]
  /\ appWs' = [c \in Calls |-> Nobody]
  /\ initial' = [c \in Calls |-> "off"]
  /\ grace' = [c \in Calls |-> "off"]
  /\ todo' = [t \in Task |-> <<>>]
  /\ seen' = [t \in Task |-> "absent"]
  /\ UNCHANGED <<answered, reported>>

CallStep(c) ==
  \/ CountQueue(c) \/ InsertRinging(c) \/ StreamConnects(c) \/ StreamStarts(c)
  \/ StreamEnds(c) \/ StatusCallback(c) \/ EndCall(c)
  \/ ReleaseExpiredClaim(c) \/ TimeoutWaiting(c)
  \/ InitialExpires(c) \/ GraceExpires(c)

PickupStep(a, c) ==
  \/ Claim(a, c) \/ PickupAgain(a, c) \/ StartSession(a, c) \/ SessionConnected(a, c)
  \/ BootstrapFails(a, c) \/ HandedOff(a, c) \/ Answer(a, c) \/ PickupRaises(a, c)

AppStep(x, c) ==
  AppConnects(x, c) \/ AppAttaches(x, c) \/ AppLeaves(x, c) \/ AppEndsCall(x, c)

Next ==
  \/ \E t \in Task : CleanupStep(t)
  \/ \E c \in Calls :
       \/ CallStep(c)
       \/ \E a \in Agents : PickupStep(a, c)
       \/ \E x \in Apps : AppStep(x, c)
  \/ Restart

Spec == Init /\ [][Next]_vars

(* The relay runs on and its timers expire; the caller, the agents and     *)
(* Twilio may stop at any time.  A stream closed by the relay ends, and so *)
(* does the handler of an app socket that the relay closed.  A claim lasts *)
(* claim_ttl_s and the statement after it follows at once: it does not     *)
(* come too late forever (SF).                                             *)
Fairness ==
  /\ \A t \in Task : WF_vars(CleanupStep(t))
  /\ \A c \in Calls :
       /\ WF_vars(InsertRinging(c))
       /\ WF_vars(c \in closed /\ StreamEnds(c))
       /\ WF_vars(ReleaseExpiredClaim(c)) /\ WF_vars(TimeoutWaiting(c))
       /\ WF_vars(InitialExpires(c)) /\ WF_vars(GraceExpires(c))
       /\ \A a \in Agents :
            /\ WF_vars(\/ StartSession(a, c) \/ SessionConnected(a, c)
                       \/ BootstrapFails(a, c) \/ HandedOff(a, c) \/ Answer(a, c))
            /\ SF_vars(row[c] = "CLAIMED" /\ StartSession(a, c))
       /\ \A x \in Apps :
            WF_vars(AppAttaches(x, c) \/ (appWs[c] # x /\ AppLeaves(x, c)))

FairSpec == Spec /\ Fairness

-----------------------------------------------------------------------------
(* Properties                                                              *)

PickingUp(c) == \E a \in Agents : pick[<<a, c>>] # "idle"
DeadlineRuns(c) == initial[c] # "off" \/ grace[c] # "off"

(* The queue of calls without an agent never exceeds max_waiting_calls,    *)
(* with several callers ringing at once.                                   *)
QueueBound == Cardinality(InQueue) <= MaxWaiting

(* The agent whose session is being started holds the claim, so the one    *)
(* that is answered is the one that claimed.                               *)
StarterHoldsClaim ==
  \A a \in Agents, c \in Calls :
    /\ pick[<<a, c>>] \in {"connecting", "handing", "handed"}
    /\ row[c] \notin Terminal
    => row[c] = "SESSION_STARTING" /\ claimant[c] = a

(* Exactly one agent is given a call: two pickups of it never both succeed,*)
(* whatever claims expire, fail or are retried in between.                 *)
OneAgentPerCall ==
  StarterHoldsClaim /\ \A p, q \in answered : p[2] = q[2] => p = q

(* A slot held for an inbound call is held by its registered session, by   *)
(* the pickup that is connecting it, or is about to be returned.           *)
InboundSlotsOwned ==
  \A c \in Calls :
    /\ c \in active => media[c] # "none"
    /\ c \in reserved => PickingUp(c) \/ Cleaning(c)

(* An open dual session can be found by the next cleanup, and is counted   *)
(* unless a cleanup is at work.                                            *)
OpenSessionRegistered ==
  \A c \in Calls : session[c] = "open" =>
    /\ media[c] = "registered"
    /\ c \in active \/ Cleaning(c)

(* A caller who has left leaves the queue: the row of an ended stream is   *)
(* being finished, or a pickup, the sweeper or a deadline will do it.      *)
GoneCallerIsFinished ==
  \A c \in Calls : stream[c] = "over" /\ row[c] \notin Terminal =>
    \/ Cleaning(c) \/ PickingUp(c) \/ DeadlineRuns(c)
    \/ row[c] \in {"WAITING_FOR_AGENT", "CLAIMED"}

(* Nobody talks to an empty room: a bridged call has its agent's socket,   *)
(* or a deadline runs, or its pickup or its cleanup is under way; and no   *)
(* row says CONNECTED of a call that nobody will finish, nor is open       *)
(* though its caller has left and nobody finishes it.                      *)
CallIsWatched ==
  GoneCallerIsFinished /\ \A c \in Calls :
    /\ media[c] = "registered" =>
         appWs[c] # Nobody \/ DeadlineRuns(c) \/ PickingUp(c) \/ Cleaning(c)
    /\ row[c] = "CONNECTED" => appWs[c] # Nobody \/ DeadlineRuns(c) \/ Cleaning(c)

(* An agent who made it before the deadline is not cut off by it, and one  *)
(* who came too late is not connected: while a deadline's cleanup runs it  *)
(* is marked and the call has no app socket.                               *)
DeadlineDecides ==
  \A c \in Calls : 
    /\ c \in closing => appWs[c] = Nobody
    /\ c \in closing <=> initial[c] = "cleaning" \/ grace[c] = "cleaning"
    /\ initial[c] = "off" \/ grace[c] = "off"

(* Nothing is left of a call at rest: no session, no slot, no socket, no   *)
(* deadline, no pending media; the row of a caller who left is terminal or *)
(* the sweeper's.                                                          *)
AtRest(c) ==
  /\ stream[c] = "over" /\ c \notin counted
  /\ ~PickingUp(c) /\ ~Cleaning(c) /\ ~DeadlineRuns(c)
  /\ \A x \in Apps : app[<<x, c>>] \notin {"accepting", "attached"}

NothingLeftAtRest ==
  \A c \in Calls : AtRest(c) =>
    /\ session[c] # "open" /\ media[c] = "none" /\ c \notin reserved \cup active
    /\ appWs[c] = Nobody /\ pending[c] = "none"

(* What an inbound call holds has an owner at every moment and is gone at  *)
(* rest, also when a statement of the database raises on the way.          *)
InboundLeavesNothing ==
  DispatchTypeOK /\ InboundSlotsOwned /\ OpenSessionRegistered /\ NothingLeftAtRest

(* Who is left alone is let go: again and again no row is open of a caller *)
(* who has left, and no session runs without an agent (media.py and        *)
(* service.py: sweeper, deadlines and cleanups).                           *)
Abandoned(c) ==
  \/ stream[c] = "over" /\ row[c] \notin Terminal
  \/ session[c] = "open" /\ appWs[c] = Nobody

AbandonedEnds == \A c \in Calls : []<>~Abandoned(c)

(* Every write of the rows, the raw UPDATEs of the sweeper and of the      *)
(* recovery included, obeys models.py and the claim discipline.            *)
RefinesRow == RowSpec
=============================================================================
