------------------------- MODULE CallLifecycleProofs -------------------------
(***************************************************************************)
(* What holds of the life of outbound calls for every number of calls,     *)
(* starts, sockets and requests, call ids started again included: the      *)
(* handlers use the capacity manager only through its operations, so the   *)
(* cap holds, and no slot is left behind without a call or a start         *)
(* request that will give it back.  For call ids used once, CallsInv then  *)
(* says of each call how far its start request, its phone call and its     *)
(* tasks in cleanup_call have come, and with it that nothing it holds is   *)
(* unaccounted for.                                                        *)
(***************************************************************************)
EXTENDS CallLifecycle, CapacityManagerProofs

(* Every task works on a call id.                                          *)
LEMMA OfIsCall == ASSUME NEW t \in Task PROVE Of(t) \in Calls
BY LifecycleAssumption DEF Task, Of

(* A cleanup step either returns the slot of its call or leaves the slots. *)
LEMMA EnterCleanupSlots ==
  ASSUME NEW t, NEW c, EnterCleanup(t, c)
  PROVE  ReturnSlot(c) \/ UNCHANGED capVars
BY DEF EnterCleanup, capVars

LEMMA CallCleanupSlots ==
  ASSUME NEW t, NEW c, CallCleanup(t, c)
  PROVE  ReturnSlot(c) \/ UNCHANGED capVars
BY EnterCleanupSlots DEF CallCleanup, capVars

LEMMA UnwindSlots ==
  ASSUME NEW t, NEW c, NEW k, Unwind(t, c, k)
  PROVE  ReturnSlot(c) \/ UNCHANGED capVars
BY DEF Unwind, capVars

LEMMA CleanupStepIsCapStep ==
  ASSUME NEW t \in Task, CleanupStep(t)
  PROVE  [CapNext]_capVars
<1>. USE OfIsCall
<1>1. CASE GetLock(t)
  BY <1>1, EnterCleanupSlots DEF GetLock, CapNext
<1>2. CASE StatusWritten(t)
  BY <1>2 DEF StatusWritten
<1>3. CASE HangUpDone(t)
  BY <1>3, UnwindSlots DEF HangUpDone, CapNext
<1>4. CASE TakenDown(t)
  BY <1>4, UnwindSlots DEF TakenDown, CapNext
<1>5. CASE Persisted(t)
  BY <1>5 DEF Persisted, CapNext
<1>6. QED BY <1>1, <1>2, <1>3, <1>4, <1>5 DEF CleanupStep

LEMMA StartStepIsCapStep ==
  ASSUME NEW i \in Starts, StartStep(i)
  PROVE  [CapNext]_capVars
<1>. CallId[i] \in Calls
  BY LifecycleAssumption
<1>1. CASE StartCall(i)
  BY <1>1 DEF StartCall, CapNext
<1>2. CASE ConnectFails(i)
  BY <1>2 DEF ConnectFails, CapNext
<1>3. CASE Connected(i)
  BY <1>3 DEF Connected, capVars
<1>4. CASE DialFails(i)
  BY <1>4, CallCleanupSlots DEF DialFails, CapNext
<1>5. CASE Dialed(i)
  BY <1>5, CallCleanupSlots DEF Dialed, CapNext
<1>6. QED BY <1>1, <1>2, <1>3, <1>4, <1>5 DEF StartStep

LEMMA TwilioStepIsCapStep ==
  ASSUME NEW i \in Starts, TwilioStep(i)
  PROVE  [CapNext]_capVars
<1>. CallId[i] \in Calls
  BY LifecycleAssumption
<1>1. CASE PhonePlaced(i) \/ PhoneEnds(i) \/ StreamOpens(i)
  BY <1>1 DEF PhonePlaced, PhoneEnds, StreamOpens, capVars
<1>2. CASE StatusCallback(i)
  BY <1>2, CallCleanupSlots DEF StatusCallback, CapNext
<1>3. CASE StreamEnds(i)
  BY <1>3, CallCleanupSlots DEF StreamEnds, CapNext
<1>4. QED BY <1>1, <1>2, <1>3 DEF TwilioStep

(* The simulation: a step of the relay is a step of the capacity manager   *)
(* or a stutter of it.                                                     *)
LEMMA StepIsCapStep == [Next]_vars => [CapNext]_capVars
<1>. SUFFICES ASSUME [Next]_vars PROVE [CapNext]_capVars
  OBVIOUS
<1>1. ASSUME NEW t \in Task, CleanupStep(t) PROVE [CapNext]_capVars
  BY <1>1, CleanupStepIsCapStep
<1>2. ASSUME NEW i \in Starts, StartStep(i) PROVE [CapNext]_capVars
  BY <1>2, StartStepIsCapStep
<1>3. ASSUME NEW i \in Starts, TwilioStep(i) PROVE [CapNext]_capVars
  BY <1>3, TwilioStepIsCapStep
<1>4. ASSUME NEW e \in Enders, EndCall(e) PROVE [CapNext]_capVars
  <2>1. CallId[e] \in Calls
    BY LifecycleAssumption
  <2>2. QED BY <1>4, <2>1, CallCleanupSlots DEF EndCall, CapNext
<1>5. ASSUME NEW a \in Apps, AppStep(a) PROVE [CapNext]_capVars
  <2>1. CallId[a] \in Calls
    BY LifecycleAssumption
  <2>2. CASE AppConnects(a) \/ AppAttaches(a)
    BY <2>2 DEF AppConnects, AppAttaches, capVars
  <2>3. CASE AppLeaves(a)
    BY <2>1, <2>3, CallCleanupSlots DEF AppLeaves, CapNext
  <2>4. QED BY <1>5, <2>2, <2>3 DEF AppStep
<1>6. ASSUME NEW m \in Monitors, MonitorStep(m) PROVE [CapNext]_capVars
  BY <1>6 DEF MonitorStep, MonitorConnects, MonitorAttaches, MonitorLeaves,
              MonitorDropped, capVars
<1>7. CASE UNCHANGED vars
  BY <1>7 DEF vars
<1>8. QED BY <1>1, <1>2, <1>3, <1>4, <1>5, <1>6, <1>7 DEF Next

(* The relay implements the capacity manager: whatever its handlers do in  *)
(* whatever order, the slots change as that module says.                   *)
THEOREM RelayRefinesCapacity == Spec => RefinesCapacity
<1>1. Init => CapInit
  BY DEF Init
<1>2. [Next]_vars => [CapNext]_capVars
  BY StepIsCapStep
<1>3. QED BY <1>1, <1>2, PTL DEF Spec, RefinesCapacity, CapSpec

(* active + reserved never exceeds max_concurrent_calls in the relay.      *)
THEOREM RelayCapacityBound == Spec => []CapacityBound
<1>1. CapSpec => []CapacityBound
  BY CapacityBoundHolds, PTL
<1>2. QED BY <1>1, RelayRefinesCapacity, PTL DEF RefinesCapacity

-----------------------------------------------------------------------------
(* Type correctness.  One lemma per operator that several actions share.   *)

LEMMA UnwindingStages ==
  ASSUME NEW j \in DOMAIN Unwinding
  PROVE  j \in 1..5 /\ Unwinding[j] \in InCleanup /\ Unwinding[j] \in Stages
BY DEF Unwinding, InCleanup, Stages

LEMMA NextEntryRegistered ==
  ASSUME NEW c, NEW k, NEW j \in NextEntry(c, k)
  PROVE  j \in DOMAIN Unwinding /\ (j = 4 => appWs[c] # None)
<1>1. j \in DOMAIN Unwinding /\ Registered(c, j)
  BY DEF NextEntry
<1>2. ASSUME j = 4 PROVE appWs[c] # None
  <2>1. Unwinding[4] = "app"
    BY DEF Unwinding
  <2>2. Registered(c, 4) = (appWs[c] # None)
    BY <2>1 DEF Registered
  <2>3. QED BY <1>1, <1>2, <2>2
<1>3. QED BY <1>1, <1>2

LEMMA TakeDownMediaType ==
  ASSUME LifecycleTypeOK, NEW t \in Task, NEW c \in Calls,
         NEW j \in DOMAIN Unwinding, TakeDownMedia(t, c, j)
  PROVE  /\ stage' \in [Task -> Stages]
         /\ routers' \in [Calls -> Starts \cup {None}]
         /\ listeners' \in [Calls -> Starts \cup {None}]
         /\ sessions' \in [Calls -> Starts \cup {None}]
         /\ live' \in SUBSET ({"session", "router", "listener"} \X Starts)
<1>1. Unwinding[j] \in Stages
  BY UnwindingStages
<1>2. live' \subseteq live
  BY DEF TakeDownMedia
<1>3. live' \in SUBSET ({"session", "router", "listener"} \X Starts)
  BY <1>2 DEF LifecycleTypeOK
<1>4. QED BY <1>1, <1>3 DEF LifecycleTypeOK, TakeDownMedia

LEMMA EnterCleanupType ==
  ASSUME LifecycleTypeOK, NEW t \in Task, NEW c \in Calls, EnterCleanup(t, c),
         calls' \in [Calls -> Starts \cup {None}]
  PROVE  /\ CapTypeOK'
         /\ stage' \in [Task -> Stages]
         /\ seen' \in [Task -> Starts \cup {None}]
         /\ routers' \in [Calls -> Starts \cup {None}]
         /\ listeners' \in [Calls -> Starts \cup {None}]
         /\ sessions' \in [Calls -> Starts \cup {None}]
         /\ live' \in SUBSET ({"session", "router", "listener"} \X Starts)
<1>1. CapTypeOK'
  BY EnterCleanupSlots DEF LifecycleTypeOK, CapTypeOK, ReturnSlot, capVars
<1>2. CASE calls'[c] = None /\ sessions[c] = None /\ routers[c] = None
  BY <1>1, <1>2 DEF EnterCleanup, LifecycleTypeOK, Stages
<1>3. CASE calls'[c] # None
  BY <1>1, <1>3 DEF EnterCleanup, LifecycleTypeOK, Stages, InCleanup
<1>4. CASE calls'[c] = None /\ (sessions[c] # None \/ routers[c] # None)
  <2>1. PICK j \in NextEntry(c, 0) : TakeDownMedia(t, c, j)
    BY <1>4 DEF EnterCleanup
  <2>2. seen' = seen
    BY <1>4 DEF EnterCleanup
  <2>3. QED BY <1>1, <2>1, <2>2, NextEntryRegistered, TakeDownMediaType DEF LifecycleTypeOK
<1>5. QED BY <1>2, <1>3, <1>4

LEMMA CallCleanupType ==
  ASSUME LifecycleTypeOK, NEW t \in Task, NEW c \in Calls, CallCleanup(t, c),
         calls' \in [Calls -> Starts \cup {None}],
         appWs' \in [Calls -> Apps \cup {None}],
         start' \in [Starts -> {"idle", "connecting", "dialing", "started", "failing", "failed"}],
         stream' \in [Starts -> {"none", "running", "over"}],
         app' \in [Apps -> {"idle", "accepting", "attached", "over"}],
         monitor' = monitor, phone' = phone
  PROVE  LifecycleTypeOK'
<1>1. locks' \in [Calls -> Task \cup {None}] /\ lock' \in [Task -> Task \cup {None}]
  BY DEF CallCleanup, LifecycleTypeOK
<1>2. CASE EnterCleanup(t, c)
  BY <1>1, <1>2, EnterCleanupType DEF CallCleanup, LifecycleTypeOK
<1>3. CASE stage' = [stage EXCEPT ![t] = "queued"]
           /\ UNCHANGED <<capVars, sessions, routers, listeners, live, seen>>
  BY <1>1, <1>3 DEF CallCleanup, LifecycleTypeOK, CapTypeOK, capVars, Stages
<1>4. QED BY <1>2, <1>3 DEF CallCleanup

LEMMA UnwindType ==
  ASSUME LifecycleTypeOK, NEW t \in Task, NEW c \in Calls, NEW k, Unwind(t, c, k),
         lock' = lock, seen' = seen, start' = start, stream' = stream, app' = app,
         monitor' = monitor, phone' \in [Starts -> {"none", "live", "over"}]
  PROVE  LifecycleTypeOK'
<1>1. ASSUME NEW j \in NextEntry(c, k), TakeDown(t, c, j),
             UNCHANGED <<capVars, calls, locks, persisted>>
      PROVE  LifecycleTypeOK'
  <2>1. j \in DOMAIN Unwinding /\ (j = 4 => appWs[c] # None)
    BY NextEntryRegistered
  <2>2. appWs' \in [Calls -> Apps \cup {None}] /\ observers' \in [Calls -> SUBSET Monitors]
    BY <1>1 DEF TakeDown, LifecycleTypeOK
  <2>3. told' \in SUBSET (Apps \cup Monitors)
    <3>1. CASE j = 4
      BY <1>1, <2>1, <3>1 DEF TakeDown, LifecycleTypeOK
    <3>2. CASE j = 5
      BY <1>1, <3>2 DEF TakeDown, LifecycleTypeOK
    <3>3. CASE j # 4 /\ j # 5
      BY <1>1, <3>3 DEF TakeDown, LifecycleTypeOK
    <3>4. QED BY <3>1, <3>2, <3>3
  <2>4. TakeDownMedia(t, c, j)
    BY <1>1 DEF TakeDown
  <2>5. QED
    BY <1>1, <2>1, <2>2, <2>3, <2>4, TakeDownMediaType
       DEF LifecycleTypeOK, CapTypeOK, capVars
<1>2. ASSUME calls' = [calls EXCEPT ![c] = None], ReturnSlot(c),
             IF calls[c] # None
             THEN /\ stage' = [stage EXCEPT ![t] = "persist"]
                  /\ persisted' = persisted \cup {calls[c]}
                  /\ UNCHANGED locks
             ELSE /\ stage' = [stage EXCEPT ![t] = "done"]
                  /\ DropLock(c)
                  /\ UNCHANGED persisted,
             UNCHANGED <<sessions, routers, listeners, appWs, observers, live, told>>
      PROVE  LifecycleTypeOK'
  <2>1. CapTypeOK'
    BY <1>2 DEF LifecycleTypeOK, CapTypeOK, ReturnSlot
  <2>2. CASE calls[c] # None
    BY <1>2, <2>1, <2>2 DEF LifecycleTypeOK, Stages, InCleanup
  <2>3. CASE calls[c] = None
    BY <1>2, <2>1, <2>3 DEF LifecycleTypeOK, Stages, DropLock
  <2>4. QED BY <2>2, <2>3
<1>3. QED BY <1>1, <1>2 DEF Unwind

LEMMA CleanupStepType ==
  ASSUME LifecycleTypeOK, NEW t \in Task, CleanupStep(t)
  PROVE  LifecycleTypeOK'
<1>. Of(t) \in Calls
  BY OfIsCall
<1>1. CASE GetLock(t)
  <2>1. calls' \in [Calls -> Starts \cup {None}]
    BY <1>1 DEF GetLock, LifecycleTypeOK
  <2>2. QED BY <1>1, <2>1, EnterCleanupType DEF GetLock, LifecycleTypeOK, handlers
<1>2. CASE StatusWritten(t)
  BY <1>2 DEF StatusWritten, LifecycleTypeOK, CapTypeOK, capVars, registries, handlers,
              Stages, InCleanup
<1>3. CASE HangUpDone(t)
  <2>1. phone' \in [Starts -> {"none", "live", "over"}]
    BY <1>3 DEF HangUpDone, LifecycleTypeOK
  <2>2. QED BY <1>3, <2>1, UnwindType DEF HangUpDone
<1>4. CASE TakenDown(t)
  <2>1. PICK k \in DOMAIN Unwinding :
          Unwind(t, Of(t), k) /\ UNCHANGED <<lock, seen, handlers>>
    BY <1>4 DEF TakenDown
  <2>2. QED BY <2>1, UnwindType DEF LifecycleTypeOK, handlers
<1>5. CASE Persisted(t)
  BY <1>5 DEF Persisted, LifecycleTypeOK, CapTypeOK, capVars, registries, handlers,
              Stages, DropLock, Release
<1>6. QED BY <1>1, <1>2, <1>3, <1>4, <1>5 DEF CleanupStep

(* The tasks named by a start, an end request and an app socket.           *)
LEMMA TaskNames ==
  /\ \A i \in Starts : <<"start", i>> \in Task /\ <<"status", i>> \in Task
                       /\ <<"stream", i>> \in Task
  /\ \A e \in Enders : <<"end", e>> \in Task
  /\ \A a \in Apps : <<"app", a>> \in Task
BY DEF Task

LEMMA StartStepType ==
  ASSUME LifecycleTypeOK, NEW i \in Starts, StartStep(i)
  PROVE  LifecycleTypeOK'
<1>. CallId[i] \in Calls /\ StarterOf(i) \in Task
  BY LifecycleAssumption, TaskNames DEF StarterOf
<1>. USE DEF LifecycleTypeOK, CapTypeOK, capVars, registries, cleanupVars
<1>1. CASE StartCall(i)
  BY <1>1 DEF StartCall, Reserve
<1>2. CASE ConnectFails(i)
  BY <1>2 DEF ConnectFails, Release
<1>3. CASE Connected(i)
  <2>1. <<"session", i>> \in {"session", "router", "listener"} \X Starts
    OBVIOUS
  <2>2. QED BY <1>3, <2>1 DEF Connected
<1>4. CASE DialFails(i)
  BY <1>4, CallCleanupType DEF DialFails
<1>5. CASE Dialed(i)
  <2>1. calls' \in [Calls -> Starts \cup {None}]
    BY <1>5 DEF Dialed
  <2>2. CASE Commit(CallId[i])
    BY <1>5, <2>1, <2>2 DEF Dialed, Commit
  <2>3. CASE CallId[i] \notin reserved
    <3>1. CallCleanup(StarterOf(i), CallId[i])
      BY <1>5, <2>3 DEF Dialed, Commit
    <3>2. /\ start' \in [Starts -> {"idle", "connecting", "dialing", "started",
                                    "failing", "failed"}]
          /\ UNCHANGED <<appWs, stream, app, monitor, phone>>
      BY <1>5 DEF Dialed
    <3>3. QED BY <2>1, <3>1, <3>2, CallCleanupType
  <2>4. QED BY <1>5, <2>2, <2>3 DEF Dialed
<1>6. QED BY <1>1, <1>2, <1>3, <1>4, <1>5 DEF StartStep

LEMMA TwilioStepType ==
  ASSUME LifecycleTypeOK, NEW i \in Starts, TwilioStep(i)
  PROVE  LifecycleTypeOK'
<1>. CallId[i] \in Calls
  BY LifecycleAssumption
<1>. USE DEF LifecycleTypeOK, CapTypeOK, capVars, registries, cleanupVars, handlers
<1>1. CASE PhonePlaced(i)
  BY <1>1 DEF PhonePlaced
<1>2. CASE PhoneEnds(i)
  BY <1>2 DEF PhoneEnds
<1>3. CASE StatusCallback(i)
  BY <1>3, TaskNames, CallCleanupType DEF StatusCallback
<1>4. CASE StreamOpens(i)
  <2>1. /\ <<"router", i>> \in {"session", "router", "listener"} \X Starts
        /\ <<"listener", i>> \in {"session", "router", "listener"} \X Starts
    OBVIOUS
  <2>2. QED BY <1>4, <2>1 DEF StreamOpens
<1>5. CASE StreamEnds(i)
  BY <1>5, TaskNames, CallCleanupType DEF StreamEnds
<1>6. QED BY <1>1, <1>2, <1>3, <1>4, <1>5 DEF TwilioStep

LEMMA SocketStepType ==
  ASSUME LifecycleTypeOK,
         (\E a \in Apps : AppStep(a)) \/ (\E m \in Monitors : MonitorStep(m))
  PROVE  LifecycleTypeOK'
<1>. USE DEF LifecycleTypeOK, CapTypeOK, capVars, registries, cleanupVars, handlers
<1>1. ASSUME NEW a \in Apps, AppConnects(a) \/ AppAttaches(a) PROVE LifecycleTypeOK'
  BY <1>1, LifecycleAssumption DEF AppConnects, AppAttaches
<1>2. ASSUME NEW a \in Apps, AppLeaves(a) PROVE LifecycleTypeOK'
  BY <1>2, LifecycleAssumption, TaskNames, CallCleanupType DEF AppLeaves
<1>3. ASSUME NEW m \in Monitors, MonitorConnects(m) PROVE LifecycleTypeOK'
  BY <1>3 DEF MonitorConnects
<1>4. ASSUME NEW m \in Monitors, MonitorAttaches(m) \/ MonitorLeaves(m) \/ MonitorDropped(m)
      PROVE  LifecycleTypeOK'
  BY <1>4, LifecycleAssumption DEF MonitorAttaches, MonitorLeaves, MonitorDropped
<1>5. QED BY <1>1, <1>2, <1>3, <1>4 DEF AppStep, MonitorStep

LEMMA NextType ==
  ASSUME LifecycleTypeOK, [Next]_vars
  PROVE  LifecycleTypeOK'
<1>1. ASSUME NEW e \in Enders, EndCall(e) PROVE LifecycleTypeOK'
  BY <1>1, LifecycleAssumption, TaskNames, CallCleanupType
     DEF EndCall, LifecycleTypeOK, handlers
<1>2. CASE UNCHANGED vars
  BY <1>2 DEF vars, LifecycleTypeOK, CapTypeOK, capVars, registries, cleanupVars, handlers
<1>3. QED
  BY <1>1, <1>2, CleanupStepType, StartStepType, TwilioStepType, SocketStepType DEF Next

(* The registries, the tasks and the handlers keep their types.            *)
THEOREM LifecycleTypeCorrect == Spec => []LifecycleTypeOK
<1>1. Init => LifecycleTypeOK
  BY DEF Init, LifecycleTypeOK, CapInit, CapTypeOK, Stages
<1>2. LifecycleTypeOK /\ [Next]_vars => LifecycleTypeOK'
  BY NextType
<1>3. QED BY <1>1, <1>2, PTL DEF Spec

-----------------------------------------------------------------------------
(* No slot is lost.  With the types NoSlotLeak is inductive: a step that   *)
(* unregisters a call returns its slot at once, and a start request that   *)
(* ends without a call has given its reservation back in that same step.   *)

SlotInv == LifecycleTypeOK /\ NoSlotLeak

(* A step inside cleanup_call(c), by whichever task, keeps the slots of    *)
(* all calls accounted for: it returns the slot, or releases the           *)
(* reservation, or leaves the slots while the call stays and the start     *)
(* request that runs it (if one does) goes on.                             *)
LEMMA CleanupKeepsSlots ==
  ASSUME SlotInv, NEW t \in Task, NEW c \in Calls, Of(t) = c,
         \A u \in Task \ {t} : stage'[u] = stage[u],
         \A i \in Starts : \/ start'[i] = start[i]
                           \/ /\ start[i] = "dialing" /\ start'[i] = "failing"
                              /\ t = StarterOf(i),
         \A d \in Calls \ {c} : calls'[d] = calls[d],
         \/ ReturnSlot(c)
         \/ Release(c) /\ calls' = calls
         \/ /\ UNCHANGED capVars
            /\ calls[c] # None => calls'[c] # None
            /\ t[1] = "start" => stage'[t] # "done"
  PROVE  NoSlotLeak'
<1>1. ASSUME NEW d \in Calls, d \in active' PROVE calls'[d] # None
  <2>1. d \in active /\ calls[d] # None
    BY <1>1 DEF SlotInv, NoSlotLeak, ReturnSlot, Release, capVars
  <2>2. CASE d = c
    BY <1>1, <2>1, <2>2 DEF ReturnSlot, Release
  <2>3. CASE d # c
    BY <2>1, <2>3
  <2>4. QED BY <2>2, <2>3
<1>2. ASSUME NEW d \in Calls, d \in reserved' PROVE Starting(d)'
  <2>1. d \in reserved /\ Starting(d)
    BY <1>2 DEF SlotInv, NoSlotLeak, ReturnSlot, Release, capVars
  <2>2. PICK i \in Starts :
          /\ CallId[i] = d
          /\ \/ start[i] \in {"connecting", "dialing"}
             \/ start[i] = "failing" /\ stage[StarterOf(i)] # "done"
    BY <2>1 DEF Starting
  <2>3. StarterOf(i) \in Task /\ Of(StarterOf(i)) = d
    BY <2>2, TaskNames DEF StarterOf, Of
  <2>4. CASE d # c
    <3>1. StarterOf(i) # t
      BY <2>3, <2>4
    <3>2. start'[i] = start[i] /\ stage'[StarterOf(i)] = stage[StarterOf(i)]
      BY <2>3, <3>1
    <3>3. QED BY <2>2, <3>2 DEF Starting
  <2>5. CASE d = c
    <3>1. UNCHANGED capVars /\ (t[1] = "start" => stage'[t] # "done")
      BY <1>2, <2>5 DEF ReturnSlot, Release
    <3>2. StarterOf(i) = t => stage'[StarterOf(i)] # "done"
      BY <3>1 DEF StarterOf
    <3>3. start'[i] = start[i] \/ (start'[i] = "failing" /\ t = StarterOf(i))
      OBVIOUS
    <3>4. stage[StarterOf(i)] # "done" => stage'[StarterOf(i)] # "done"
      BY <2>3, <3>2
    <3>5. QED BY <2>2, <3>2, <3>3, <3>4 DEF Starting
  <2>6. QED BY <2>4, <2>5
<1>3. QED BY <1>1, <1>2 DEF NoSlotLeak

(* What entering the critical section does to the slots and to the task.   *)
LEMMA EnterCleanupEffect ==
  ASSUME LifecycleTypeOK, NEW t \in Task, NEW c \in Calls, EnterCleanup(t, c)
  PROVE  /\ \A u \in Task \ {t} : stage'[u] = stage[u]
         /\ ReturnSlot(c) \/ (UNCHANGED capVars /\ stage'[t] # "done")
<1>1. CASE calls'[c] = None /\ sessions[c] = None /\ routers[c] = None
  BY <1>1 DEF EnterCleanup, LifecycleTypeOK
<1>2. CASE calls'[c] # None
  BY <1>2 DEF EnterCleanup, LifecycleTypeOK
<1>3. CASE calls'[c] = None /\ (sessions[c] # None \/ routers[c] # None)
  <2>1. PICK j \in NextEntry(c, 0) : TakeDownMedia(t, c, j)
    BY <1>3 DEF EnterCleanup
  <2>2. Unwinding[j] # "done"
    BY NextEntryRegistered, UnwindingStages DEF InCleanup, Unwinding
  <2>3. QED BY <1>3, <2>1, <2>2 DEF EnterCleanup, TakeDownMedia, LifecycleTypeOK
<1>4. QED BY <1>1, <1>2, <1>3

LEMMA CallCleanupEffect ==
  ASSUME LifecycleTypeOK, NEW t \in Task, NEW c \in Calls, CallCleanup(t, c)
  PROVE  /\ \A u \in Task \ {t} : stage'[u] = stage[u]
         /\ ReturnSlot(c) \/ (UNCHANGED capVars /\ stage'[t] # "done")
<1>1. CASE EnterCleanup(t, c)
  BY <1>1, EnterCleanupEffect
<1>2. CASE stage' = [stage EXCEPT ![t] = "queued"] /\ UNCHANGED capVars
  BY <1>2 DEF LifecycleTypeOK
<1>3. QED BY <1>1, <1>2 DEF CallCleanup, capVars

LEMMA UnwindEffect ==
  ASSUME LifecycleTypeOK, NEW t \in Task, NEW c \in Calls, NEW k, Unwind(t, c, k)
  PROVE  /\ \A u \in Task \ {t} : stage'[u] = stage[u]
         /\ \A d \in Calls \ {c} : calls'[d] = calls[d]
         /\ \/ ReturnSlot(c)
            \/ UNCHANGED capVars /\ calls' = calls /\ stage'[t] # "done"
<1>1. CASE NextEntry(c, k) = {}
  BY <1>1 DEF Unwind, LifecycleTypeOK
<1>2. ASSUME NEW j \in NextEntry(c, k), TakeDown(t, c, j), UNCHANGED <<capVars, calls>>
      PROVE  /\ \A u \in Task \ {t} : stage'[u] = stage[u]
             /\ UNCHANGED capVars /\ calls' = calls /\ stage'[t] # "done"
  <2>1. Unwinding[j] # "done"
    BY NextEntryRegistered, UnwindingStages DEF InCleanup, Unwinding
  <2>2. QED BY <1>2, <2>1 DEF TakeDown, TakeDownMedia, LifecycleTypeOK
<1>3. QED BY <1>1, <1>2 DEF Unwind

LEMMA CleanupStepKeepsSlots ==
  ASSUME SlotInv, NEW t \in Task, CleanupStep(t)
  PROVE  NoSlotLeak'
<1>. Of(t) \in Calls /\ LifecycleTypeOK
  BY OfIsCall DEF SlotInv
<1>1. CASE GetLock(t)
  <2>1. UNCHANGED <<calls, start>> /\ EnterCleanup(t, Of(t))
    BY <1>1 DEF GetLock, handlers
  <2>2. QED BY <2>1, EnterCleanupEffect, CleanupKeepsSlots
<1>2. CASE StatusWritten(t)
  <2>1. UNCHANGED <<capVars, calls, start>> /\ stage' = [stage EXCEPT ![t] = "hangup"]
    BY <1>2 DEF StatusWritten, registries, handlers
  <2>2. stage'[t] # "done" /\ \A u \in Task \ {t} : stage'[u] = stage[u]
    BY <2>1 DEF LifecycleTypeOK
  <2>3. QED BY <2>1, <2>2, CleanupKeepsSlots
<1>3. CASE HangUpDone(t)
  BY <1>3, UnwindEffect, CleanupKeepsSlots DEF HangUpDone
<1>4. CASE TakenDown(t)
  <2>1. PICK k \in DOMAIN Unwinding : Unwind(t, Of(t), k) /\ UNCHANGED handlers
    BY <1>4 DEF TakenDown
  <2>2. start' = start
    BY <2>1 DEF handlers
  <2>3. QED BY <2>1, <2>2, UnwindEffect, CleanupKeepsSlots
<1>5. CASE Persisted(t)
  <2>1. /\ UNCHANGED <<calls, start>>
        /\ \A u \in Task \ {t} : stage'[u] = stage[u]
        /\ IF t[1] = "start" THEN Release(Of(t)) ELSE UNCHANGED capVars
    BY <1>5 DEF Persisted, registries, handlers, LifecycleTypeOK
  <2>2. QED BY <2>1, CleanupKeepsSlots
<1>6. QED BY <1>1, <1>2, <1>3, <1>4, <1>5 DEF CleanupStep

(* Leaving slots, calls, starts and stages alone leaks nothing.            *)
LEMMA UnchangedKeepsSlots ==
  ASSUME SlotInv, UNCHANGED <<reserved, active, calls, start, stage>>
  PROVE  NoSlotLeak'
BY DEF SlotInv, NoSlotLeak, Starting

LEMMA StartStepKeepsSlots ==
  ASSUME SlotInv, NEW i \in Starts, StartStep(i)
  PROVE  NoSlotLeak'
<1>. DEFINE c == CallId[i]
<1>. c \in Calls /\ StarterOf(i) \in Task /\ Of(StarterOf(i)) = c /\ LifecycleTypeOK
  BY LifecycleAssumption, TaskNames DEF StarterOf, Of, SlotInv
<1>1. CASE StartCall(i)
  <2>1. CASE calls[c] = None /\ CanReserve(c)
    BY <1>1, <2>1 DEF StartCall, Reserve, SlotInv, NoSlotLeak, Starting, LifecycleTypeOK,
                      registries, cleanupVars
  <2>2. CASE ~(calls[c] = None /\ CanReserve(c))
    BY <1>1, <2>2 DEF StartCall, SlotInv, NoSlotLeak, Starting, LifecycleTypeOK,
                      registries, cleanupVars, capVars
  <2>3. QED BY <2>1, <2>2
<1>2. CASE ConnectFails(i)
  BY <1>2 DEF ConnectFails, Release, SlotInv, NoSlotLeak, Starting, LifecycleTypeOK,
              registries, cleanupVars
<1>3. CASE Connected(i)
  BY <1>3 DEF Connected, SlotInv, NoSlotLeak, Starting, LifecycleTypeOK, cleanupVars, capVars
<1>4. CASE DialFails(i)
  <2>1. CallCleanup(StarterOf(i), c) /\ calls' = calls
    BY <1>4 DEF DialFails
  <2>2. /\ start[i] = "dialing" /\ start'[i] = "failing"
        /\ \A n \in Starts \ {i} : start'[n] = start[n]
    BY <1>4 DEF DialFails, LifecycleTypeOK
  <2>3. QED BY <2>1, <2>2, CallCleanupEffect, CleanupKeepsSlots
<1>5. CASE Dialed(i)
  <2>1. calls'[c] # None /\ \A d \in Calls \ {c} : calls'[d] = calls[d]
    BY <1>5, LifecycleAssumption DEF Dialed, LifecycleTypeOK
  <2>2. CASE Commit(c) /\ start' = [start EXCEPT ![i] = "started"] /\ UNCHANGED cleanupVars
    <3>1. ASSUME NEW d \in Calls, d \in active' PROVE calls'[d] # None
      BY <2>1, <2>2, <3>1 DEF SlotInv, NoSlotLeak, Commit
    <3>2. ASSUME NEW d \in Calls, d \in reserved' PROVE Starting(d)'
      BY <2>2, <3>2 DEF SlotInv, NoSlotLeak, Commit, Starting, LifecycleTypeOK, cleanupVars
    <3>3. QED BY <3>1, <3>2 DEF NoSlotLeak
  <2>3. CASE start' = [start EXCEPT ![i] = "failing"] /\ CallCleanup(StarterOf(i), c)
    <3>1. /\ start[i] = "dialing" /\ start'[i] = "failing"
          /\ \A n \in Starts \ {i} : start'[n] = start[n]
      BY <1>5, <2>3 DEF Dialed, LifecycleTypeOK
    <3>2. QED BY <2>1, <2>3, <3>1, CallCleanupEffect, CleanupKeepsSlots
  <2>4. QED BY <1>5, <2>2, <2>3 DEF Dialed
<1>6. QED BY <1>1, <1>2, <1>3, <1>4, <1>5 DEF StartStep

(* A handler outside the start request that calls cleanup_call.            *)
LEMMA CallerKeepsSlots ==
  ASSUME SlotInv, NEW t \in Task, CallCleanup(t, Of(t)), UNCHANGED <<calls, start>>
  PROVE  NoSlotLeak'
<1>1. Of(t) \in Calls /\ LifecycleTypeOK
  BY OfIsCall DEF SlotInv
<1>2. QED BY <1>1, CallCleanupEffect, CleanupKeepsSlots

LEMMA NextKeepsSlots ==
  ASSUME SlotInv, [Next]_vars
  PROVE  NoSlotLeak'
<1>1. ASSUME NEW i \in Starts, TwilioStep(i) PROVE NoSlotLeak'
  <2>. <<"status", i>> \in Task /\ Of(<<"status", i>>) = CallId[i]
       /\ <<"stream", i>> \in Task /\ Of(<<"stream", i>>) = CallId[i]
    BY TaskNames DEF Of
  <2>1. CASE PhonePlaced(i) \/ PhoneEnds(i) \/ StreamOpens(i)
    BY <2>1, UnchangedKeepsSlots
       DEF PhonePlaced, PhoneEnds, StreamOpens, capVars, registries, cleanupVars
  <2>2. CASE StatusCallback(i)
    BY <2>2, CallerKeepsSlots DEF StatusCallback, handlers
  <2>3. CASE StreamEnds(i)
    BY <2>3, CallerKeepsSlots DEF StreamEnds
  <2>4. QED BY <1>1, <2>1, <2>2, <2>3 DEF TwilioStep
<1>2. ASSUME NEW e \in Enders, EndCall(e) PROVE NoSlotLeak'
  <2>1. <<"end", e>> \in Task /\ Of(<<"end", e>>) = CallId[e]
    BY TaskNames DEF Of
  <2>2. QED BY <1>2, <2>1, CallerKeepsSlots DEF EndCall, handlers
<1>3. ASSUME NEW a \in Apps, AppStep(a) PROVE NoSlotLeak'
  <2>1. <<"app", a>> \in Task /\ Of(<<"app", a>>) = CallId[a]
    BY TaskNames DEF Of
  <2>2. CASE AppConnects(a) \/ AppAttaches(a)
    BY <2>2, UnchangedKeepsSlots
       DEF AppConnects, AppAttaches, capVars, registries, cleanupVars
  <2>3. CASE AppLeaves(a)
    BY <2>1, <2>3, CallerKeepsSlots DEF AppLeaves
  <2>4. QED BY <1>3, <2>2, <2>3 DEF AppStep
<1>4. ASSUME NEW m \in Monitors, MonitorStep(m) PROVE NoSlotLeak'
  BY <1>4, UnchangedKeepsSlots
     DEF MonitorStep, MonitorConnects, MonitorAttaches, MonitorLeaves, MonitorDropped,
         capVars, registries, cleanupVars, handlers
<1>5. CASE UNCHANGED vars
  BY <1>5, UnchangedKeepsSlots DEF vars, capVars, registries, cleanupVars, handlers
<1>6. QED
  BY <1>1, <1>2, <1>3, <1>4, <1>5, CleanupStepKeepsSlots, StartStepKeepsSlots DEF Next

(* An active slot belongs to a registered call and a reservation to a      *)
(* start request in flight, whatever start requests, hang-ups, callbacks   *)
(* and cleanups overlap, and also when a call id is used again.            *)
THEOREM RelayLosesNoSlot == Spec => []NoSlotLeak
<1>1. Init => SlotInv
  <2>1. Init => LifecycleTypeOK
    BY DEF Init, LifecycleTypeOK, CapInit, CapTypeOK, Stages
  <2>2. Init => NoSlotLeak
    BY DEF Init, CapInit, NoSlotLeak
  <2>3. QED BY <2>1, <2>2 DEF SlotInv
<1>2. SlotInv /\ [Next]_vars => SlotInv'
  <2>1. ASSUME SlotInv, [Next]_vars PROVE SlotInv'
    BY <2>1, NextType, NextKeepsSlots DEF SlotInv
  <2>2. QED BY <2>1
<1>3. SlotInv => NoSlotLeak
  BY DEF SlotInv
<1>4. QED BY <1>1, <1>2, <1>3, PTL DEF Spec

-----------------------------------------------------------------------------
(* What a call holds, when its id is used by one start request.            *)

Once == \A i, j \in Starts : CallId[i] = CallId[j] => i = j

Begun == {"dialing", "started", "failing"}   \* Twilio may have been asked
Answered == {"started", "failing"}
StatusOf(i) == <<"status", i>>
StreamOf(i) == <<"stream", i>>
OfCall(c) == {t \in Task : Of(t) = c}

Owned(c) == \E i \in Starts : CallId[i] = c /\ start[i] \in Begun

\* Before a session is registered there is nothing to take down, and nobody
\* who could.
Nothing(c) ==
  /\ calls[c] = None /\ sessions[c] = None /\ routers[c] = None /\ listeners[c] = None
  /\ \A t \in OfCall(c) : stage[t] = "none"
  /\ \A a \in Apps : CallId[a] = c => app[a] \notin {"accepting", "attached"}

Sockets(c) == appWs[c] # None => app[appWs[c]] = "attached" /\ CallId[appWs[c]] = c

LocksOwn(c) ==
  /\ locks[c] # None => Of(locks[c]) = c
  /\ \A t \in OfCall(c) : lock[t] # None => Of(lock[t]) = c

\* The registries name the start, and what runs is what they name.
HoldsOwn(i, c) ==
  /\ calls[c] \in {None, i} /\ sessions[c] \in {None, i}
  /\ routers[c] \in {None, i} /\ listeners[c] \in {None, i}
  /\ <<"session", i>> \in live <=> sessions[c] = i
  /\ <<"router", i>> \in live <=> routers[c] = i
  /\ <<"listener", i>> \in live <=> listeners[c] = i

\* While Twilio is being asked only the status callback can clean up, and
\* when it has, the reservation is gone.
Dialing(i, c) ==
  start[i] = "dialing" =>
    /\ calls[c] = None /\ routers[c] = None /\ listeners[c] = None
    /\ \A a \in Apps : CallId[a] = c => app[a] \notin {"accepting", "attached"}
    /\ \A t \in OfCall(c) \ {StatusOf(i)} : stage[t] = "none"
    /\ stage[StatusOf(i)] # "queued" /\ stream[i] # "running"
    /\ stage[StatusOf(i)] = "none" => sessions[c] = i
    /\ stage[StatusOf(i)] = "done" <=> c \notin reserved

Progress(i, c) ==
  /\ start[i] \notin Begun => phone[i] = "none"
  /\ start[i] = "connecting" => c \in reserved
  /\ phone[i] = "none" => stage[StatusOf(i)] = "none" /\ stream[i] = "none" /\ calls[c] = None
  /\ start[i] = "failing" <=> stage[StarterOf(i)] # "none"

\* What is still registered is still going to be taken down.
Left(i, c) ==
  /\ start[i] \in Answered /\ sessions[c] = i =>
       calls[c] = i \/ \E t \in OfCall(c) : stage[t] \in InCleanup \cup {"queued"}
  /\ routers[c] = i =>
       \/ stream[i] = "running" \/ stage[StreamOf(i)] = "queued"
       \/ \E t \in OfCall(c) : stage[t] \in {"status_db", "hangup"}
  /\ listeners[c] = i => routers[c] = i \/ \E t \in OfCall(c) : stage[t] = "router"
  /\ calls[c] = i =>
       \/ \E t \in OfCall(c) : stage[t] \in InCleanup
       \/ c \in active /\ stage[StatusOf(i)] # "done"
  /\ start[i] = "started" /\ calls[c] # i => i \in persisted

\* A lock may have been dropped from the dictionary while tasks wait for it:
\* then the call is over but for a router that a late stream has registered,
\* and the first task to find it leaves nothing for another.
Over(i, c) == start[i] \in Answered /\ calls[c] = None /\ sessions[c] = None

TaskOK(i, c, t) ==
  /\ stage[t] # "none" => lock[t] # None
  /\ stage[t] = "queued" =>
       \/ lock[t] = locks[c]
       \/ /\ Over(i, c)
          /\ (\E u \in OfCall(c) : stage[u] \in InCleanup) => routers[c] = None
  /\ stage[t] \in InCleanup => lock[t] = locks[c] \/ (Over(i, c) /\ routers[c] = None)
  /\ stage[t] \in {"session", "app", "observers", "persist"} => sessions[c] = None
  /\ stage[t] = "persist" => calls[c] = None /\ start[i] \in Answered
  /\ stage[t] \in {"status_db", "hangup"} => seen[t] = i
  /\ \A u \in OfCall(c) : stage[t] \in InCleanup /\ stage[u] \in InCleanup => t = u

StartOK(i, c) ==
  /\ HoldsOwn(i, c) /\ Dialing(i, c) /\ Progress(i, c) /\ Left(i, c)
  /\ \A t \in OfCall(c) : TaskOK(i, c, t)

CallOK(c) ==
  /\ ~Owned(c) => Nothing(c)
  /\ Sockets(c) /\ LocksOwn(c)
  /\ \A i \in Starts : CallId[i] = c => StartOK(i, c)

CallsInv == \A c \in Calls : CallOK(c)

(* A step that is another call's.                                          *)
SameCall(d) ==
  /\ calls'[d] = calls[d] /\ sessions'[d] = sessions[d] /\ routers'[d] = routers[d]
  /\ listeners'[d] = listeners[d] /\ appWs'[d] = appWs[d] /\ locks'[d] = locks[d]
  /\ (d \in active') <=> (d \in active)
  /\ (d \in reserved') <=> (d \in reserved)
  /\ \A t \in OfCall(d) : stage'[t] = stage[t] /\ lock'[t] = lock[t] /\ seen'[t] = seen[t]
  /\ \A i \in Starts : CallId[i] = d =>
       /\ start'[i] = start[i] /\ stream'[i] = stream[i] /\ phone'[i] = phone[i]
       /\ (i \in persisted') <=> (i \in persisted)
       /\ \A k \in {"session", "router", "listener"} : <<k, i>> \in live' <=> <<k, i>> \in live
  /\ \A a \in Apps : CallId[a] = d => app'[a] = app[a]

LEMMA SameKeepsCall ==
  ASSUME LifecycleTypeOK, NEW d \in Calls, CallOK(d), SameCall(d)
  PROVE  CallOK(d)'
<1>1. Owned(d)' <=> Owned(d)
  BY DEF SameCall, Owned
<1>2. OfCall(d)' = OfCall(d)
  BY DEF OfCall, Task, Of
<1>3. Nothing(d) => Nothing(d)'
  BY <1>2 DEF SameCall, Nothing
<1>4. Sockets(d)'
  <2>1. appWs[d] \in Apps \cup {None} /\ Sockets(d)
    BY DEF LifecycleTypeOK, CallOK
  <2>2. QED BY <2>1 DEF SameCall, Sockets
<1>5. LocksOwn(d)'
  <2>1. LocksOwn(d)
    BY DEF CallOK
  <2>2. QED BY <1>2, <2>1 DEF SameCall, LocksOwn, Of
<1>6. ASSUME NEW i \in Starts, CallId[i] = d PROVE StartOK(i, d)'
  <2>1. StatusOf(i) \in OfCall(d) /\ StarterOf(i) \in OfCall(d) /\ StreamOf(i) \in OfCall(d)
    BY <1>6 DEF OfCall, Task, Of, StatusOf, StarterOf, StreamOf
  <2>2. StartOK(i, d)
    BY <1>6 DEF CallOK
  <2>3. HoldsOwn(i, d)'
    BY <1>6, <2>2 DEF SameCall, StartOK, HoldsOwn
  <2>4. Dialing(i, d)'
    BY <1>2, <1>6, <2>1, <2>2 DEF SameCall, StartOK, Dialing, StatusOf
  <2>5. Progress(i, d)'
    BY <1>2, <1>6, <2>1, <2>2 DEF SameCall, StartOK, Progress, StatusOf, StarterOf
  <2>6. Left(i, d)'
    BY <1>2, <1>6, <2>1, <2>2 DEF SameCall, StartOK, Left, StatusOf, StreamOf
  <2>7. Over(i, d)' <=> Over(i, d)
    BY <1>6 DEF SameCall, Over
  <2>8. ASSUME NEW t \in OfCall(d) PROVE TaskOK(i, d, t)'
    <3>1. TaskOK(i, d, t)
      BY <2>2 DEF StartOK
    <3>2. /\ stage'[t] = stage[t] /\ lock'[t] = lock[t] /\ seen'[t] = seen[t]
          /\ sessions'[d] = sessions[d] /\ routers'[d] = routers[d]
          /\ calls'[d] = calls[d] /\ locks'[d] = locks[d] /\ start'[i] = start[i]
          /\ \A u \in OfCall(d) : stage'[u] = stage[u]
      BY <1>6 DEF SameCall
    <3>3. ((\E u \in OfCall(d) : stage[u] \in InCleanup)
            <=> (\E u \in OfCall(d) : stage'[u] \in InCleanup))
      BY <3>2
    <3>4. stage'[t] = "queued" =>
            \/ lock'[t] = locks'[d]
            \/ /\ Over(i, d)'
               /\ (\E u \in OfCall(d) : stage'[u] \in InCleanup) => routers'[d] = None
      BY <2>7, <3>1, <3>2, <3>3 DEF TaskOK
    <3>5. stage'[t] \in InCleanup =>
            lock'[t] = locks'[d] \/ (Over(i, d)' /\ routers'[d] = None)
      BY <2>7, <3>1, <3>2 DEF TaskOK
    <3>6. \A u \in OfCall(d) : stage'[t] \in InCleanup /\ stage'[u] \in InCleanup => t = u
      BY <3>1, <3>2 DEF TaskOK
    <3>7. /\ stage'[t] # "none" => lock'[t] # None
          /\ stage'[t] \in {"session", "app", "observers", "persist"} => sessions'[d] = None
          /\ stage'[t] = "persist" => calls'[d] = None /\ start'[i] \in Answered
          /\ stage'[t] \in {"status_db", "hangup"} => seen'[t] = i
      BY <3>1, <3>2 DEF TaskOK
    <3>8. InCleanup' = InCleanup /\ OfCall(d)' = OfCall(d)
      BY <1>2 DEF InCleanup, Unwinding
    <3>9. QED BY <3>4, <3>5, <3>6, <3>7, <3>8 DEF TaskOK, Answered
  <2>9. QED BY <1>2, <2>3, <2>4, <2>5, <2>6, <2>8 DEF StartOK
<1>7. QED BY <1>1, <1>3, <1>4, <1>5, <1>6 DEF CallOK

(* The order of the registries, spelled out: the next entry to be taken    *)
(* down after the k-th, and what is known of those before it.              *)
Cleared(c, k, j) ==
  /\ k < 1 /\ 1 < j => routers[c] = None
  /\ k < 2 /\ 2 < j => listeners[c] = None
  /\ k < 3 /\ 3 < j => sessions[c] = None

(* The entries of Unwinding, one by one.                                   *)
LEMMA RegisteredMeans ==
  ASSUME NEW c
  PROVE  /\ DOMAIN Unwinding = 1..5
         /\ Registered(c, 1) <=> routers[c] # None
         /\ Registered(c, 2) <=> listeners[c] # None
         /\ Registered(c, 3) <=> sessions[c] # None
         /\ Unwinding[1] = "router" /\ Unwinding[2] = "listener"
         /\ Unwinding[3] = "session" /\ Unwinding[4] = "app" /\ Unwinding[5] = "observers"
<1>1. /\ DOMAIN Unwinding = 1..5
      /\ Unwinding[1] = "router" /\ Unwinding[2] = "listener"
      /\ Unwinding[3] = "session" /\ Unwinding[4] = "app" /\ Unwinding[5] = "observers"
  BY DEF Unwinding
<1>2. QED BY <1>1 DEF Registered

(* The stages of cleanup_call, spelled out.                                *)
LEMMA CleanupStages ==
  InCleanup = {"status_db", "hangup", "persist", "router", "listener", "session", "app",
               "observers"}
<1>1. \A k \in DOMAIN Unwinding : Unwinding[k] \in {"router", "listener", "session", "app",
                                                    "observers"}
  BY RegisteredMeans
<1>2. {"router", "listener", "session", "app", "observers"} \subseteq
        {Unwinding[k] : k \in DOMAIN Unwinding}
  BY RegisteredMeans
<1>3. QED BY <1>1, <1>2 DEF InCleanup

(* What NextEntry says: the entry is there and those it skips are not.     *)
LEMMA NextEntryMeans ==
  ASSUME NEW c, NEW k \in 0..5, NEW j \in NextEntry(c, k)
  PROVE  /\ j \in 1..5 /\ k < j
         /\ j = 1 => routers[c] # None
         /\ j = 2 => listeners[c] # None
         /\ j = 3 => sessions[c] # None
         /\ Cleared(c, k, j)
BY RegisteredMeans DEF NextEntry, Cleared

(* With no next entry all later ones are gone: were one registered, the    *)
(* first of them would be the next.                                        *)
LEMMA NoNextEntryMeans ==
  ASSUME NEW c, NEW k \in 0..5, NextEntry(c, k) = {}
  PROVE  Cleared(c, k, 6)
<1>. DEFINE R == {n \in 1..5 : n > k /\ Registered(c, n)}
<1>1. ASSUME NEW n \in R, \A m \in R : n <= m PROVE FALSE
  BY <1>1, RegisteredMeans DEF NextEntry
<1>2. 1 \notin R
  BY <1>1
<1>3. 2 \notin R
  BY <1>1, <1>2
<1>4. 3 \notin R
  BY <1>1, <1>2, <1>3
<1>5. QED BY <1>2, <1>3, <1>4, RegisteredMeans DEF Cleared

(* What a step of cleanup_call leaves alone.                               *)
CleanupElsewhere(t, i, c) ==
  /\ \A d \in Calls \ {c} :
       /\ sessions'[d] = sessions[d] /\ routers'[d] = routers[d]
       /\ listeners'[d] = listeners[d]
       /\ (d \in active') <=> (d \in active)
       /\ (d \in reserved') <=> (d \in reserved)
  /\ \A u \in Task \ {t} : stage'[u] = stage[u] /\ seen'[u] = seen[u]
  /\ \A n \in Starts \ {i}, k \in {"session", "router", "listener"} :
       <<k, n>> \in live' <=> <<k, n>> \in live

LiveIs(i, c) ==
  /\ <<"session", i>> \in live <=> sessions[c] = i
  /\ <<"router", i>> \in live <=> routers[c] = i
  /\ <<"listener", i>> \in live <=> listeners[c] = i

(* The next entry of c after the k-th is popped and its resource stopped.  *)
Popped(t, c, j) ==
  /\ routers'[c] = IF j = 1 THEN None ELSE routers[c]
  /\ listeners'[c] = IF j = 2 THEN None ELSE listeners[c]
  /\ sessions'[c] = IF j = 3 THEN None ELSE sessions[c]
  /\ stage'[t] = Unwinding[j]

(* A pop disturbs one entry of its call and stops just what that named.    *)
LEMMA TakeDownMediaEffect ==
  ASSUME LifecycleTypeOK, NEW t \in Task, NEW c \in Calls, NEW i \in Starts,
         HoldsOwn(i, c), NEW j \in 1..5, TakeDownMedia(t, c, j),
         j = 1 => routers[c] # None, j = 2 => listeners[c] # None,
         j = 3 => sessions[c] # None, UNCHANGED capVars,
         \A u \in Task \ {t} : seen'[u] = seen[u]
  PROVE  Popped(t, c, j) /\ LiveIs(i, c)' /\ CleanupElsewhere(t, i, c)
<1>1. Popped(t, c, j)
  BY DEF Popped, TakeDownMedia, LifecycleTypeOK
<1>2. /\ j = 1 => live' = live \ {<<"router", i>>}
      /\ j = 2 => live' = live \ {<<"listener", i>>}
      /\ j = 3 => live' = live \ {<<"session", i>>}
      /\ j \notin {1, 2, 3} => live' = live
  BY DEF TakeDownMedia, HoldsOwn
<1>3. LiveIs(i, c)'
  <2>1. i # None
    BY LifecycleAssumption
  <2>2. LiveIs(i, c)
    BY DEF HoldsOwn, LiveIs
  <2>3. QED BY <1>1, <1>2, <2>1, <2>2 DEF Popped, LiveIs
<1>4. \A u \in Task \ {t} : stage'[u] = stage[u]
  BY DEF TakeDownMedia, LifecycleTypeOK
<1>5. \A d \in Calls \ {c} :
         /\ sessions'[d] = sessions[d] /\ routers'[d] = routers[d]
         /\ listeners'[d] = listeners[d]
  BY DEF TakeDownMedia, LifecycleTypeOK
<1>6. \A n \in Starts \ {i}, k \in {"session", "router", "listener"} :
         <<k, n>> \in live' <=> <<k, n>> \in live
  BY <1>2
<1>7. QED BY <1>1, <1>3, <1>4, <1>5, <1>6 DEF CleanupElsewhere, capVars

RegistriesElsewhere(i, c) ==
  /\ \A d \in Calls \ {c} :
       calls'[d] = calls[d] /\ appWs'[d] = appWs[d] /\ locks'[d] = locks[d]
  /\ \A n \in Starts \ {i} : (n \in persisted') <=> (n \in persisted)

(* One step of the take-down: an entry is popped, or the call itself.      *)
EntryPopped(t, i, c, k) ==
  /\ \E j \in 1..5 : k < j /\ Cleared(c, k, j) /\ Popped(t, c, j)
  /\ UNCHANGED <<calls, locks, persisted, reserved, active>>
  /\ appWs'[c] \in {appWs[c], None}

CallPopped(t, i, c, k) ==
  /\ Cleared(c, k, 6)
  /\ calls'[c] = None /\ c \notin reserved' /\ appWs' = appWs
  /\ sessions'[c] = sessions[c] /\ routers'[c] = routers[c] /\ listeners'[c] = listeners[c]
  /\ \/ /\ calls[c] = i /\ stage'[t] = "persist" /\ i \in persisted' /\ locks' = locks
     \/ /\ calls[c] = None /\ stage'[t] = "done" /\ persisted' = persisted
        /\ locks'[c] = None

(* A step of the take-down is one of the two, and leaves other calls.      *)
LEMMA UnwindMeans ==
  ASSUME LifecycleTypeOK, NEW t \in Task, NEW c \in Calls, NEW i \in Starts,
         HoldsOwn(i, c), NEW k \in 0..5, Unwind(t, c, k), seen' = seen
  PROVE  /\ CleanupElsewhere(t, i, c) /\ RegistriesElsewhere(i, c) /\ LiveIs(i, c)'
         /\ EntryPopped(t, i, c, k) \/ CallPopped(t, i, c, k)
<1>1. ASSUME NEW j \in NextEntry(c, k), TakeDown(t, c, j),
             UNCHANGED <<capVars, calls, locks, persisted>>
      PROVE  /\ CleanupElsewhere(t, i, c) /\ RegistriesElsewhere(i, c) /\ LiveIs(i, c)'
             /\ EntryPopped(t, i, c, k)
  <2>1. /\ j \in 1..5 /\ k < j /\ Cleared(c, k, j)
        /\ j = 1 => routers[c] # None
        /\ j = 2 => listeners[c] # None
        /\ j = 3 => sessions[c] # None
    BY NextEntryMeans
  <2>2. Popped(t, c, j) /\ LiveIs(i, c)' /\ CleanupElsewhere(t, i, c)
    BY <1>1, <2>1, TakeDownMediaEffect DEF TakeDown
  <2>3. appWs'[c] \in {appWs[c], None} /\ \A d \in Calls \ {c} : appWs'[d] = appWs[d]
    BY <1>1 DEF TakeDown, LifecycleTypeOK
  <2>4. QED
    BY <1>1, <2>1, <2>2, <2>3 DEF EntryPopped, RegistriesElsewhere, capVars
<1>2. ASSUME NextEntry(c, k) = {},
             calls' = [calls EXCEPT ![c] = None], ReturnSlot(c),
             IF calls[c] # None
             THEN /\ stage' = [stage EXCEPT ![t] = "persist"]
                  /\ persisted' = persisted \cup {calls[c]}
                  /\ UNCHANGED locks
             ELSE /\ stage' = [stage EXCEPT ![t] = "done"]
                  /\ DropLock(c)
                  /\ UNCHANGED persisted,
             UNCHANGED <<sessions, routers, listeners, appWs, observers, live, told>>
      PROVE  /\ CleanupElsewhere(t, i, c) /\ RegistriesElsewhere(i, c) /\ LiveIs(i, c)'
             /\ CallPopped(t, i, c, k)
  <2>1. Cleared(c, k, 6)
    BY <1>2, NoNextEntryMeans
  <2>2. LiveIs(i, c)'
    BY <1>2 DEF HoldsOwn, LiveIs
  <2>3. calls[c] \in {None, i} /\ c \notin reserved'
        /\ \A d \in Calls \ {c} : /\ (d \in active') <=> (d \in active)
                                  /\ (d \in reserved') <=> (d \in reserved)
    BY <1>2 DEF HoldsOwn, ReturnSlot
  <2>4. calls'[c] = None /\ \A d \in Calls \ {c} : calls'[d] = calls[d]
    BY <1>2 DEF LifecycleTypeOK
  <2>5. CASE calls[c] # None
    BY <1>2, <2>1, <2>2, <2>3, <2>4, <2>5
       DEF CallPopped, CleanupElsewhere, RegistriesElsewhere, LifecycleTypeOK
  <2>6. CASE calls[c] = None
    BY <1>2, <2>1, <2>2, <2>3, <2>4, <2>6
       DEF CallPopped, CleanupElsewhere, RegistriesElsewhere, LifecycleTypeOK, DropLock
  <2>7. QED BY <2>5, <2>6
<1>3. QED BY <1>1, <1>2 DEF Unwind

(* Entering the critical section: nothing to do, a call to take down, or a *)
(* registry entry without a call.                                          *)
NothingFound(t, c) ==
  /\ calls'[c] = None /\ sessions[c] = None /\ routers[c] = None
  /\ stage'[t] = "done" /\ c \notin reserved'
  /\ sessions'[c] = None /\ routers'[c] = None /\ listeners'[c] = listeners[c]

CallFound(t, i, c) ==
  /\ calls'[c] = i /\ stage'[t] = "status_db" /\ seen'[t] = i
  /\ sessions'[c] = sessions[c] /\ routers'[c] = routers[c] /\ listeners'[c] = listeners[c]
  /\ UNCHANGED <<reserved, active>>

MediaFound(t, c) ==
  /\ calls'[c] = None /\ UNCHANGED <<reserved, active>>
  /\ \/ routers[c] # None /\ Popped(t, c, 1)
     \/ routers[c] = None /\ sessions[c] # None /\ Popped(t, c, 2)
     \/ /\ routers[c] = None /\ listeners[c] = None /\ sessions[c] # None
        /\ Popped(t, c, 3)

(* EnterCleanup is one of the three.                                       *)
LEMMA EnterMeans ==
  ASSUME LifecycleTypeOK, NEW t \in Task, NEW c \in Calls, NEW i \in Starts,
         HoldsOwn(i, c), calls'[c] \in {None, i}, EnterCleanup(t, c)
  PROVE  /\ CleanupElsewhere(t, i, c) /\ LiveIs(i, c)'
         /\ NothingFound(t, c) \/ CallFound(t, i, c) \/ MediaFound(t, c)
<1>1. CASE /\ calls'[c] = None /\ sessions[c] = None /\ routers[c] = None
           /\ ReturnSlot(c)
           /\ stage' = [stage EXCEPT ![t] = "done"]
           /\ UNCHANGED <<sessions, routers, listeners, live, seen>>
  BY <1>1 DEF CleanupElsewhere, LiveIs, HoldsOwn, NothingFound, ReturnSlot, LifecycleTypeOK
<1>2. CASE /\ calls'[c] # None
           /\ stage' = [stage EXCEPT ![t] = "status_db"]
           /\ seen' = [seen EXCEPT ![t] = calls'[c]]
           /\ UNCHANGED <<capVars, sessions, routers, listeners, live>>
  BY <1>2 DEF CleanupElsewhere, LiveIs, HoldsOwn, CallFound, LifecycleTypeOK, capVars
<1>3. ASSUME calls'[c] = None, sessions[c] # None \/ routers[c] # None,
             NEW j \in NextEntry(c, 0), TakeDownMedia(t, c, j), UNCHANGED <<capVars, seen>>
      PROVE  CleanupElsewhere(t, i, c) /\ LiveIs(i, c)' /\ MediaFound(t, c)
  <2>1. /\ j \in 1..5 /\ Cleared(c, 0, j)
        /\ j = 1 => routers[c] # None
        /\ j = 2 => listeners[c] # None
        /\ j = 3 => sessions[c] # None
    BY NextEntryMeans
  <2>2. Popped(t, c, j) /\ LiveIs(i, c)' /\ CleanupElsewhere(t, i, c)
    BY <1>3, <2>1, TakeDownMediaEffect
  <2>3. /\ j \in 1..3 /\ (j > 1 => routers[c] = None)
        /\ j > 2 => listeners[c] = None
    BY <1>3, <2>1 DEF Cleared
  <2>4. QED BY <1>3, <2>1, <2>2, <2>3 DEF MediaFound, capVars
<1>4. QED BY <1>1, <1>2, <1>3 DEF EnterCleanup

(* A step of cleanup_call by t: the rest of what concerns call c and its   *)
(* start i stays.                                                          *)
Quiet(t, i, c) ==
  /\ \A u \in OfCall(c) \ {t} : stage'[u] = stage[u]
  /\ \A u \in OfCall(c) : seen'[u] = seen[u] /\ lock'[u] = lock[u]
  /\ \A a \in Apps : CallId[a] = c => app'[a] = app[a]
  /\ start'[i] = start[i] /\ stream'[i] = stream[i] /\ phone'[i] \in {phone[i], "over"}

(* The tasks of a call and the stages do not change.                       *)
LEMMA OfCallSame == \A c : OfCall(c)' = OfCall(c) /\ InCleanup' = InCleanup
BY DEF OfCall, Of, Task, InCleanup, Unwinding

(* The tasks that a start request owns.                                    *)
LEMMA TasksOf ==
  ASSUME NEW i \in Starts, NEW c, c = CallId[i]
  PROVE  /\ c \in Calls
         /\ StatusOf(i) \in OfCall(c) /\ StarterOf(i) \in OfCall(c) /\ StreamOf(i) \in OfCall(c)
         /\ StatusOf(i) # StarterOf(i) /\ StatusOf(i) # StreamOf(i)
         /\ StarterOf(i) # StreamOf(i) /\ i # None
         /\ \A t \in OfCall(c) : t \in Task /\ Of(t) = c
BY LifecycleAssumption DEF OfCall, Of, Task, StatusOf, StarterOf, StreamOf

(* The stage of a task that waits for the k-th entry, or for the hang-up.  *)
LEMMA AtUnwinding ==
  ASSUME NEW k \in 0..5, NEW s, (k = 0 /\ s = "hangup") \/ (k # 0 /\ s = Unwinding[k])
  PROVE  /\ s \in InCleanup /\ s \notin {"none", "queued", "done", "status_db", "persist"}
         /\ s = "hangup" <=> k = 0
         /\ s = "router" <=> k = 1
         /\ k > 2 <=> s \in {"session", "app", "observers"}
BY RegisteredMeans, CleanupStages

(* Popping a registry entry keeps what is known of the call.               *)
LEMMA EntryPoppedKeeps ==
  ASSUME NEW i \in Starts, NEW c, c = CallId[i], start[i] \in Begun, StartOK(i, c),
         NEW t \in OfCall(c), NEW k \in 0..5,
         (k = 0 /\ stage[t] = "hangup") \/ (k # 0 /\ stage[t] = Unwinding[k]),
         EntryPopped(t, i, c, k), Quiet(t, i, c), LiveIs(i, c)'
  PROVE  StartOK(i, c)'
<1>. /\ StatusOf(i) \in OfCall(c) /\ StarterOf(i) \in OfCall(c) /\ StreamOf(i) \in OfCall(c)
     /\ i # None
  BY TasksOf
<1>1. PICK j \in 1..5 : k < j /\ Cleared(c, k, j) /\ Popped(t, c, j)
  BY DEF EntryPopped
<1>2. /\ stage[t] \in InCleanup
      /\ stage[t] \notin {"none", "queued", "done", "status_db", "persist"}
      /\ stage[t] = "hangup" <=> k = 0
      /\ stage[t] = "router" <=> k = 1
      /\ k > 2 <=> stage[t] \in {"session", "app", "observers"}
  BY AtUnwinding
<1>3. /\ stage'[t] \in InCleanup
      /\ stage'[t] \notin {"none", "queued", "done", "status_db", "hangup", "persist"}
      /\ stage'[t] = "router" <=> j = 1
      /\ j > 2 <=> stage'[t] \in {"session", "app", "observers"}
  <2>1. stage'[t] = Unwinding[j]
    BY <1>1 DEF Popped
  <2>2. QED BY <2>1, AtUnwinding
<1>4. /\ routers'[c] = IF j = 1 THEN None ELSE routers[c]
      /\ listeners'[c] = IF j = 2 THEN None ELSE listeners[c]
      /\ sessions'[c] = IF j = 3 THEN None ELSE sessions[c]
      /\ calls' = calls /\ locks' = locks /\ persisted' = persisted
      /\ reserved' = reserved /\ active' = active
  BY <1>1 DEF Popped, EntryPopped
<1>5. /\ k < 1 /\ 1 < j => routers[c] = None
      /\ k < 2 /\ 2 < j => listeners[c] = None
      /\ k < 3 /\ 3 < j => sessions[c] = None
  BY <1>1 DEF Cleared
<1>6. /\ \A u \in OfCall(c) \ {t} : stage'[u] = stage[u]
      /\ \A u \in OfCall(c) : seen'[u] = seen[u] /\ lock'[u] = lock[u]
      /\ \A a \in Apps : CallId[a] = c => app'[a] = app[a]
      /\ start'[i] = start[i] /\ stream'[i] = stream[i] /\ phone'[i] \in {phone[i], "over"}
  BY DEF Quiet
<1>7. \A u \in OfCall(c) : TaskOK(i, c, u)
  BY DEF StartOK
<1>8. \A u \in OfCall(c) \ {t} : stage[u] \notin InCleanup
  BY <1>2, <1>7 DEF TaskOK
<1>9. HoldsOwn(i, c)'
  BY <1>4 DEF StartOK, HoldsOwn, LiveIs
<1>10. Dialing(i, c)'
  BY <1>2, <1>3, <1>4, <1>6, OfCallSame DEF StartOK, Dialing
<1>11. Progress(i, c)'
  BY <1>2, <1>3, <1>4, <1>6 DEF StartOK, Progress, Begun
<1>12. Left(i, c)'
  <2>1. Left(i, c)
    BY DEF StartOK
  <2>2. routers'[c] = i => stream'[i] = "running" \/ stage'[StreamOf(i)] = "queued"
    <3>1. ASSUME routers'[c] = i PROVE routers[c] = i /\ k # 0
      BY <1>1, <1>4, <1>5, <3>1
    <3>2. ASSUME routers'[c] = i PROVE stream[i] = "running" \/ stage[StreamOf(i)] = "queued"
      <4>1. \A u \in OfCall(c) : stage[u] \notin {"status_db", "hangup"}
        BY <1>2, <1>8, <3>1, <3>2, CleanupStages
      <4>2. QED BY <2>1, <3>1, <3>2, <4>1 DEF Left
    <3>3. QED BY <1>2, <1>6, <3>2
  <2>3. listeners'[c] = i => routers'[c] = i \/ stage'[t] = "router"
    <3>1. ASSUME listeners'[c] = i, j # 1 PROVE routers'[c] = i
      <4>1. k > 1 /\ listeners[c] = i
        BY <1>1, <1>4, <1>5, <3>1
      <4>2. \A u \in OfCall(c) : stage[u] # "router"
        BY <1>2, <1>8, <4>1, CleanupStages
      <4>3. routers[c] = i
        BY <2>1, <4>1, <4>2 DEF Left
      <4>4. QED BY <1>4, <3>1, <4>3
    <3>2. QED BY <1>3, <3>1
  <2>4. start'[i] = "started" /\ calls'[c] # i => i \in persisted'
    BY <1>4, <1>6, <2>1 DEF Left
  <2>5. QED BY <1>3, <2>2, <2>3, <2>4, OfCallSame DEF Left
<1>13. ASSUME NEW u \in OfCall(c) PROVE TaskOK(i, c, u)'
  <2>1. TaskOK(i, c, u)
    BY <1>7
  <2>2. Over(i, c) => Over(i, c)'
    BY <1>1, <1>4, <1>6 DEF Over, Answered
  <2>3. CASE u = t
    <3>1. lock'[t] # None /\ (lock'[t] = locks'[c] \/ (Over(i, c)' /\ routers'[c] = None))
      BY <1>2, <1>4, <1>6, <2>1, <2>2, <2>3 DEF TaskOK
    <3>2. stage'[t] \in {"session", "app", "observers"} => sessions'[c] = None
      BY <1>2, <1>3, <1>4, <1>5, <2>1, <2>3 DEF TaskOK
    <3>3. \A w \in OfCall(c) : stage'[w] \in InCleanup => t = w
      BY <1>6, <1>8
    <3>4. QED BY <1>3, <2>3, <3>1, <3>2, <3>3, OfCallSame DEF TaskOK
  <2>4. CASE u # t
    <3>1. stage'[u] = stage[u] /\ lock'[u] = lock[u] /\ stage'[u] \notin InCleanup
      BY <1>6, <1>8, <2>4
    <3>2. stage'[u] = "queued" =>
            lock'[u] = locks'[c] \/ (Over(i, c)' /\ routers'[c] = None)
      BY <1>2, <1>4, <2>1, <2>2, <3>1 DEF TaskOK
    <3>3. stage'[u] # "none" => lock'[u] # None
      BY <2>1, <3>1 DEF TaskOK
    <3>4. QED BY <3>1, <3>2, <3>3, OfCallSame, CleanupStages DEF TaskOK
  <2>5. QED BY <2>3, <2>4
<1>14. QED BY <1>9, <1>10, <1>11, <1>12, <1>13, OfCallSame DEF StartOK

(* So does popping the call, when all its entries have come down.          *)
LEMMA CallPoppedKeeps ==
  ASSUME NEW i \in Starts, NEW c, c = CallId[i], start[i] \in Begun, StartOK(i, c),
         NEW t \in OfCall(c), NEW k \in 0..5,
         (k = 0 /\ stage[t] = "hangup") \/ (k # 0 /\ stage[t] = Unwinding[k]),
         CallPopped(t, i, c, k), Quiet(t, i, c), LiveIs(i, c)'
  PROVE  StartOK(i, c)'
<1>. /\ StatusOf(i) \in OfCall(c) /\ StarterOf(i) \in OfCall(c) /\ StreamOf(i) \in OfCall(c)
     /\ i # None
  BY TasksOf
<1>1. /\ k < 1 => routers[c] = None
      /\ k < 2 => listeners[c] = None
      /\ k < 3 => sessions[c] = None
  BY DEF CallPopped, Cleared
<1>2. /\ stage[t] \in InCleanup
      /\ stage[t] \notin {"none", "queued", "done", "status_db", "persist"}
      /\ stage[t] = "hangup" <=> k = 0
      /\ stage[t] = "router" <=> k = 1
      /\ k > 2 <=> stage[t] \in {"session", "app", "observers"}
  BY AtUnwinding
<1>3. /\ calls'[c] = None /\ c \notin reserved'
      /\ sessions'[c] = sessions[c] /\ routers'[c] = routers[c] /\ listeners'[c] = listeners[c]
      /\ \/ calls[c] = i /\ stage'[t] = "persist" /\ i \in persisted' /\ locks' = locks
         \/ /\ calls[c] = None /\ stage'[t] = "done" /\ persisted' = persisted
            /\ locks'[c] = None
  BY DEF CallPopped
<1>4. /\ \A u \in OfCall(c) \ {t} : stage'[u] = stage[u]
      /\ \A u \in OfCall(c) : seen'[u] = seen[u] /\ lock'[u] = lock[u]
      /\ \A a \in Apps : CallId[a] = c => app'[a] = app[a]
      /\ start'[i] = start[i] /\ stream'[i] = stream[i] /\ phone'[i] \in {phone[i], "over"}
  BY DEF Quiet
<1>5. \A u \in OfCall(c) : TaskOK(i, c, u)
  BY DEF StartOK
<1>6. \A u \in OfCall(c) \ {t} : stage[u] \notin InCleanup
  BY <1>2, <1>5 DEF TaskOK
<1>7. sessions[c] = None
  BY <1>1, <1>2, <1>5 DEF TaskOK
<1>8. HoldsOwn(i, c)'
  BY <1>3 DEF StartOK, HoldsOwn, LiveIs
<1>9. start[i] = "dialing" => t = StatusOf(i) /\ calls[c] = None
  BY <1>2 DEF StartOK, Dialing
<1>10. Dialing(i, c)'
  BY <1>2, <1>3, <1>4, <1>9, OfCallSame DEF StartOK, Dialing
<1>11. Progress(i, c)'
  BY <1>2, <1>3, <1>4 DEF StartOK, Progress, Begun
<1>12. Left(i, c)'
  <2>1. Left(i, c)
    BY DEF StartOK
  <2>2. routers'[c] = i => stream'[i] = "running" \/ stage'[StreamOf(i)] = "queued"
    <3>1. ASSUME routers'[c] = i PROVE stream[i] = "running" \/ stage[StreamOf(i)] = "queued"
      <4>1. \A u \in OfCall(c) : stage[u] \notin {"status_db", "hangup"}
        BY <1>1, <1>2, <1>3, <1>6, <3>1, CleanupStages
      <4>2. QED BY <1>3, <2>1, <3>1, <4>1 DEF Left
    <3>2. QED BY <1>2, <1>4, <3>1
  <2>3. listeners'[c] = i => routers'[c] = i
    <3>1. ASSUME listeners'[c] = i PROVE routers[c] = i
      <4>1. k > 1
        BY <1>1, <1>3, <3>1
      <4>2. \A u \in OfCall(c) : stage[u] # "router"
        BY <1>2, <1>6, <4>1, CleanupStages
      <4>3. QED BY <1>3, <2>1, <3>1, <4>2 DEF Left
    <3>2. QED BY <1>3, <3>1
  <2>4. start'[i] = "started" /\ calls'[c] # i => i \in persisted'
    BY <1>3, <1>4, <2>1 DEF Left
  <2>5. QED BY <1>3, <1>7, <2>2, <2>3, <2>4, OfCallSame DEF Left
<1>13. ASSUME NEW u \in OfCall(c) PROVE TaskOK(i, c, u)'
  <2>1. TaskOK(i, c, u)
    BY <1>5
  <2>2. start[i] \in Answered => Over(i, c)'
    BY <1>3, <1>4, <1>7 DEF Over, Answered
  <2>3. CASE u = t
    <3>1. lock'[t] # None
      BY <1>2, <1>4, <2>1, <2>3 DEF TaskOK
    <3>2. stage'[t] = "persist" =>
            /\ start[i] \in Answered
            /\ lock'[t] = locks'[c] \/ (Over(i, c)' /\ routers'[c] = None)
      <4>1. ASSUME stage'[t] = "persist" PROVE calls[c] = i /\ locks' = locks
        BY <1>3, <4>1
      <4>2. ASSUME stage'[t] = "persist" PROVE start[i] \in Answered
        BY <1>9, <4>1, <4>2 DEF Begun, Answered
      <4>3. ASSUME stage'[t] = "persist"
            PROVE  lock'[t] = locks'[c] \/ (Over(i, c)' /\ routers'[c] = None)
        BY <1>2, <1>3, <1>4, <2>1, <2>2, <2>3, <4>1, <4>2, <4>3 DEF TaskOK
      <4>4. QED BY <4>2, <4>3
    <3>3. \A w \in OfCall(c) : stage'[w] \in InCleanup => t = w
      BY <1>4, <1>6
    <3>4. stage'[t] \in {"persist", "done"} /\ sessions'[c] = None
      BY <1>3, <1>7
    <3>5. QED
      BY <1>3, <1>4, <2>3, <3>1, <3>2, <3>3, <3>4, OfCallSame, CleanupStages
         DEF TaskOK, Answered
  <2>4. CASE u # t
    <3>1. stage'[u] = stage[u] /\ lock'[u] = lock[u] /\ stage'[u] \notin InCleanup
      BY <1>4, <1>6, <2>4
    <3>2. stage'[u] = "queued" => start[i] \in Answered
      BY <1>9, <2>4, <3>1 DEF StartOK, Dialing, Begun, Answered
    <3>3. stage'[u] # "none" => lock'[u] # None
      BY <2>1, <3>1 DEF TaskOK
    <3>4. stage'[u] = "queued" =>
            \/ lock'[u] = locks'[c]
            \/ /\ Over(i, c)'
               /\ (\E w \in OfCall(c) : stage'[w] \in InCleanup) => routers'[c] = None
      <4>1. ASSUME stage'[u] = "queued", stage'[t] = "done" PROVE
              \A w \in OfCall(c) : stage'[w] \notin InCleanup
        BY <1>4, <1>6, <4>1, CleanupStages
      <4>2. ASSUME stage'[u] = "queued", stage'[t] = "persist"
            PROVE  lock'[u] = locks'[c] \/ routers'[c] = None
        BY <1>2, <1>3, <2>1, <3>1, <4>2 DEF TaskOK
      <4>3. QED BY <1>3, <2>2, <3>2, <4>1, <4>2
    <3>5. QED BY <3>1, <3>3, <3>4, OfCallSame, CleanupStages DEF TaskOK
  <2>5. QED BY <2>3, <2>4
<1>14. QED BY <1>8, <1>10, <1>11, <1>12, <1>13, OfCallSame DEF StartOK

(* The last step: persist_call has returned, the lock's entry goes.        *)
LEMMA PersistedKeeps ==
  ASSUME NEW i \in Starts, NEW c, c = CallId[i], start[i] \in Begun, StartOK(i, c),
         NEW t \in OfCall(c), stage[t] = "persist", stage'[t] = "done",
         Quiet(t, i, c), LiveIs(i, c)', locks'[c] = None, persisted' = persisted,
         UNCHANGED <<calls, sessions, routers, listeners>>
  PROVE  StartOK(i, c)'
<1>. /\ StatusOf(i) \in OfCall(c) /\ StarterOf(i) \in OfCall(c) /\ StreamOf(i) \in OfCall(c)
     /\ i # None
  BY TasksOf
<1>1. /\ \A u \in OfCall(c) \ {t} : stage'[u] = stage[u]
      /\ \A u \in OfCall(c) : seen'[u] = seen[u] /\ lock'[u] = lock[u]
      /\ \A a \in Apps : CallId[a] = c => app'[a] = app[a]
      /\ start'[i] = start[i] /\ stream'[i] = stream[i] /\ phone'[i] \in {phone[i], "over"}
  BY DEF Quiet
<1>2. \A u \in OfCall(c) : TaskOK(i, c, u)
  BY DEF StartOK
<1>3. \A u \in OfCall(c) \ {t} : stage[u] \notin InCleanup
  BY <1>2, CleanupStages DEF TaskOK
<1>4. calls[c] = None /\ sessions[c] = None /\ start[i] \in Answered /\ lock[t] # None
  BY <1>2 DEF TaskOK
<1>5. \A u \in OfCall(c) : stage'[u] \notin InCleanup
  BY <1>1, <1>3, CleanupStages
<1>6. Over(i, c)'
  BY <1>1, <1>4 DEF Over, Answered
<1>7. HoldsOwn(i, c)'
  BY DEF StartOK, HoldsOwn, LiveIs
<1>8. Dialing(i, c)'
  BY <1>1, <1>4 DEF Dialing, Answered
<1>9. Progress(i, c)'
  BY <1>1, <1>4 DEF StartOK, Progress, Begun, Answered
<1>10. Left(i, c)'
  <2>1. Left(i, c)
    BY DEF StartOK
  <2>2. \A u \in OfCall(c) : stage[u] \notin {"status_db", "hangup", "router"}
    BY <1>3, CleanupStages
  <2>3. QED BY <1>1, <1>4, <2>1, <2>2 DEF Left
<1>11. ASSUME NEW u \in OfCall(c) PROVE TaskOK(i, c, u)'
  <2>1. stage'[u] # "none" => lock'[u] # None
    BY <1>1, <1>2, <1>4 DEF TaskOK
  <2>2. stage'[u] \notin InCleanup
    BY <1>5
  <2>3. QED BY <1>5, <1>6, <2>1, <2>2, OfCallSame, CleanupStages DEF TaskOK
<1>12. QED BY <1>7, <1>8, <1>9, <1>10, <1>11, OfCallSame DEF StartOK

(* The caller of cleanup_call: a failed start, a status callback, a stream *)
(* or a socket that ends, an end request, or a waiter that gets the lock.  *)
(* What it has changed itself in the step in which it enters or queues.    *)
Caller(t, i, c) ==
  /\ phone'[i] = phone[i]
  /\ \A a \in Apps : CallId[a] = c => app'[a] \in {app[a], "over"}
  /\ \/ start'[i] = start[i] /\ (t = StarterOf(i) => start[i] = "failing")
     \/ start[i] = "dialing" /\ start'[i] = "failing" /\ t = StarterOf(i)
  /\ \/ stream'[i] = stream[i]
     \/ stream[i] = "running" /\ stream'[i] = "over" /\ t = StreamOf(i)
  /\ \/ calls'[c] = calls[c]
     \/ /\ start[i] = "dialing" /\ start'[i] = "failing" /\ c \notin reserved
        /\ phone[i] # "none" /\ calls'[c] = i
  /\ t = StatusOf(i) => phone[i] # "none"
  /\ start'[i] = "dialing" => t = StatusOf(i)

Calling(t, i, c) ==
  /\ Caller(t, i, c)
  /\ \A u \in OfCall(c) \ {t} : lock'[u] = lock[u]
  /\ lock'[t] # None /\ (locks[c] # None => locks'[c] = locks[c])
  /\ (i \in persisted' <=> i \in persisted)

(* So does entering the critical section ...                               *)
LEMMA EnterKeeps ==
  ASSUME NEW i \in Starts, NEW c, c = CallId[i], start[i] \in Begun, StartOK(i, c),
         NEW t \in OfCall(c), stage[t] \in {"none", "queued"},
         Calling(t, i, c), CleanupElsewhere(t, i, c), LiveIs(i, c)',
         NothingFound(t, c) \/ CallFound(t, i, c) \/ MediaFound(t, c),
         lock'[t] = locks'[c] \/ Over(i, c),
         \/ \A u \in OfCall(c) : stage[u] \notin InCleanup
         \/ Over(i, c) /\ routers[c] = None
  PROVE  StartOK(i, c)' /\ start'[i] \in Begun
<1>. /\ StatusOf(i) \in OfCall(c) /\ StarterOf(i) \in OfCall(c) /\ StreamOf(i) \in OfCall(c)
     /\ i # None /\ StatusOf(i) # StarterOf(i) /\ StatusOf(i) # StreamOf(i)
     /\ StarterOf(i) # StreamOf(i) /\ \A u \in OfCall(c) : u \in Task
  BY TasksOf
<1>1. /\ \A u \in OfCall(c) \ {t} : stage'[u] = stage[u] /\ seen'[u] = seen[u] /\ lock'[u] = lock[u]
      /\ \A a \in Apps : CallId[a] = c => app'[a] \in {app[a], "over"}
      /\ lock'[t] # None /\ (locks[c] # None => locks'[c] = locks[c])
      /\ phone'[i] = phone[i] /\ (i \in persisted' <=> i \in persisted)
  BY DEF Calling, Caller, CleanupElsewhere
<1>2. /\ \/ start'[i] = start[i] /\ (t = StarterOf(i) => start[i] = "failing")
         \/ start[i] = "dialing" /\ start'[i] = "failing" /\ t = StarterOf(i)
      /\ \/ stream'[i] = stream[i]
         \/ stream[i] = "running" /\ stream'[i] = "over" /\ t = StreamOf(i)
      /\ \/ calls'[c] = calls[c]
         \/ /\ start[i] = "dialing" /\ start'[i] = "failing" /\ c \notin reserved
            /\ phone[i] # "none" /\ calls'[c] = i
      /\ t = StatusOf(i) => phone[i] # "none"
      /\ start'[i] = "dialing" => t = StatusOf(i)
  BY DEF Calling, Caller
<1>3. \A u \in OfCall(c) : TaskOK(i, c, u)
  BY DEF StartOK
<1>4. /\ HoldsOwn(i, c) /\ Dialing(i, c) /\ Progress(i, c) /\ Left(i, c)
  BY DEF StartOK
<1>5. Over(i, c) => /\ calls[c] = None /\ calls'[c] = None /\ sessions[c] = None
                    /\ start[i] \in Answered
  BY <1>2 DEF Over, Answered
<1>6. \A u \in OfCall(c) \ {t} : stage[u] \in InCleanup => Over(i, c) /\ routers[c] = None
  OBVIOUS
<1>7. start'[i] \in Begun /\ (start[i] \in Answered => start'[i] \in Answered)
  BY <1>2 DEF Begun, Answered
(* What the step does, case by case.                                       *)
<1>8. \/ /\ calls'[c] = None /\ sessions[c] = None /\ routers[c] = None
         /\ stage'[t] = "done" /\ c \notin reserved'
         /\ sessions'[c] = None /\ routers'[c] = None /\ listeners'[c] = listeners[c]
      \/ /\ calls'[c] = i /\ stage'[t] = "status_db" /\ seen'[t] = i
         /\ sessions'[c] = sessions[c] /\ routers'[c] = routers[c]
         /\ listeners'[c] = listeners[c]
         /\ reserved' = reserved /\ active' = active
      \/ /\ calls'[c] = None /\ reserved' = reserved /\ active' = active
         /\ \/ /\ routers[c] # None /\ routers'[c] = None /\ stage'[t] = "router"
               /\ sessions'[c] = sessions[c] /\ listeners'[c] = listeners[c]
            \/ /\ routers[c] = None /\ routers'[c] = None /\ stage'[t] = "listener"
               /\ sessions'[c] = sessions[c] /\ listeners'[c] = None /\ sessions[c] # None
            \/ /\ routers[c] = None /\ routers'[c] = None /\ stage'[t] = "session"
               /\ sessions'[c] = None /\ listeners'[c] = None /\ sessions[c] # None
  BY RegisteredMeans DEF NothingFound, CallFound, MediaFound, Popped
<1>9. Over(i, c) => Over(i, c)' /\ routers'[c] = None
  BY <1>5, <1>7, <1>8 DEF Over
<1>10. HoldsOwn(i, c)'
  BY <1>4, <1>8 DEF HoldsOwn, LiveIs
<1>11. Dialing(i, c)'
  <2>1. ASSUME start'[i] = "dialing"
        PROVE  /\ start[i] = "dialing" /\ t = StatusOf(i) /\ stage[t] = "none"
               /\ calls'[c] = None /\ sessions[c] = i /\ c \in reserved
               /\ stream'[i] # "running"
    BY <1>2, <1>4, <2>1 DEF Dialing
  <2>2. ASSUME start'[i] = "dialing"
        PROVE  /\ routers'[c] = None /\ listeners'[c] = None
               /\ stage'[t] \in {"listener", "session"} /\ c \in reserved'
    BY <1>4, <1>8, <2>1, <2>2 DEF Dialing
  <2>3. ASSUME start'[i] = "dialing"
        PROVE  /\ \A a \in Apps : CallId[a] = c => app'[a] \notin {"accepting", "attached"}
               /\ \A u \in OfCall(c) \ {StatusOf(i)} : stage'[u] = "none"
    BY <1>1, <1>4, <2>1, <2>3 DEF Dialing
  <2>4. QED BY <2>1, <2>2, <2>3, OfCallSame DEF Dialing
<1>12. Progress(i, c)'
  <2>1. stage'[t] \notin {"none", "queued"}
    BY <1>8
  <2>2. start'[i] = "failing" <=> stage'[StarterOf(i)] # "none"
    BY <1>1, <1>2, <1>4, <2>1 DEF Progress
  <2>3. phone'[i] = "none" =>
          stage'[StatusOf(i)] = "none" /\ stream'[i] = "none" /\ calls'[c] = None
    BY <1>1, <1>2, <1>4, <2>1 DEF Progress
  <2>4. QED BY <1>7, <2>2, <2>3 DEF Progress, Begun
<1>13. Left(i, c)'
  <2>1. /\ start'[i] \in Answered /\ sessions'[c] = i =>
             calls'[c] = i \/ \E u \in OfCall(c) : stage'[u] \in InCleanup \cup {"queued"}
        /\ routers'[c] = i => \E u \in OfCall(c) : stage'[u] \in {"status_db", "hangup"}
        /\ calls'[c] = i => \E u \in OfCall(c) : stage'[u] \in InCleanup
    BY <1>8, CleanupStages
  <2>2. listeners'[c] = i => routers'[c] = i \/ \E u \in OfCall(c) : stage'[u] = "router"
    <3>1. ASSUME listeners'[c] = i
          PROVE  listeners[c] = i /\ (routers'[c] = routers[c] \/ stage'[t] = "router")
      BY <1>8, <3>1
    <3>2. ASSUME listeners'[c] = i, routers[c] # i
          PROVE  \E u \in OfCall(c) : stage'[u] = "router"
      <4>1. PICK u \in OfCall(c) : stage[u] = "router"
        BY <1>4, <3>1, <3>2 DEF Left
      <4>2. u # t
        BY <4>1
      <4>3. QED BY <1>1, <4>1, <4>2
    <3>3. QED BY <3>1, <3>2
  <2>3. start'[i] = "started" /\ calls'[c] # i => i \in persisted'
    BY <1>1, <1>2, <1>4 DEF Left
  <2>4. QED BY <2>1, <2>2, <2>3, OfCallSame DEF Left
<1>14. ASSUME NEW u \in OfCall(c) PROVE TaskOK(i, c, u)'
  <2>1. TaskOK(i, c, u)
    BY <1>3
  <2>2. CASE u = t
    <3>1. lock'[t] = locks'[c] \/ (Over(i, c)' /\ routers'[c] = None)
      BY <1>9
    <3>2. stage'[t] \in InCleanup => \A w \in OfCall(c) \ {t} : stage'[w] \notin InCleanup
      <4>1. ASSUME stage'[t] \in InCleanup PROVE ~(Over(i, c) /\ routers[c] = None)
        BY <1>5, <1>8, <4>1, CleanupStages
      <4>2. QED BY <1>1, <1>6, <4>1
    <3>3. /\ stage'[t] \in {"session", "app", "observers", "persist"} => sessions'[c] = None
          /\ stage'[t] \notin {"persist", "hangup", "queued"}
          /\ stage'[t] = "status_db" => seen'[t] = i
      BY <1>8
    <3>4. QED BY <1>1, <2>2, <3>1, <3>2, <3>3, OfCallSame DEF TaskOK
  <2>3. CASE u # t
    <3>1. stage'[u] = stage[u] /\ lock'[u] = lock[u] /\ seen'[u] = seen[u]
      BY <1>1, <2>3
    <3>2. stage'[u] \in InCleanup \cup {"queued"} =>
            lock'[u] = locks'[c] \/ (Over(i, c)' /\ routers'[c] = None)
      BY <1>1, <1>9, <2>1, <3>1, CleanupStages DEF TaskOK
    <3>3. stage'[u] \in InCleanup =>
            sessions'[c] = None /\ calls'[c] = None /\ start'[i] \in Answered
      BY <1>5, <1>6, <1>7, <1>9, <2>3, <3>1 DEF Over
    <3>4. stage'[u] \in {"status_db", "hangup"} => seen'[u] = i
      BY <2>1, <3>1 DEF TaskOK
    <3>5. \A w \in OfCall(c) : stage'[u] \in InCleanup /\ stage'[w] \in InCleanup => u = w
      <4>1. CASE stage[u] \in InCleanup
        <5>1. Over(i, c) /\ routers[c] = None
          BY <1>6, <2>3, <4>1
        <5>2. stage'[t] \notin InCleanup
          BY <1>5, <1>8, <5>1, CleanupStages
        <5>3. QED BY <1>1, <2>1, <3>1, <5>2 DEF TaskOK
      <4>2. QED BY <3>1, <4>1
    <3>6. stage'[u] # "none" => lock'[u] # None
      BY <2>1, <3>1 DEF TaskOK
    <3>7. QED
      BY <3>2, <3>3, <3>4, <3>5, <3>6, OfCallSame, CleanupStages DEF TaskOK
  <2>4. QED BY <2>2, <2>3
<1>15. QED BY <1>7, <1>10, <1>11, <1>12, <1>13, <1>14, OfCallSame DEF StartOK

(* ... and waiting for the lock of somebody who is in it or waits for it.  *)
LEMMA QueueKeeps ==
  ASSUME NEW i \in Starts, NEW c, c = CallId[i], start[i] \in Begun, StartOK(i, c),
         NEW t \in OfCall(c), stage[t] = "none", stage'[t] = "queued",
         Calling(t, i, c), lock'[t] = locks'[c],
         \A u \in OfCall(c) \ {t} : stage'[u] = stage[u] /\ seen'[u] = seen[u],
         UNCHANGED <<reserved, active, sessions, routers, listeners, live>>,
         \E u \in OfCall(c) : stage[u] \in InCleanup \cup {"queued"}
  PROVE  StartOK(i, c)' /\ start'[i] \in Begun
<1>. /\ StatusOf(i) \in OfCall(c) /\ StarterOf(i) \in OfCall(c) /\ StreamOf(i) \in OfCall(c)
     /\ i # None /\ StatusOf(i) # StarterOf(i) /\ StatusOf(i) # StreamOf(i)
     /\ StarterOf(i) # StreamOf(i) /\ \A u \in OfCall(c) : u \in Task
  BY TasksOf
<1>1. /\ \A u \in OfCall(c) \ {t} : stage'[u] = stage[u] /\ seen'[u] = seen[u] /\ lock'[u] = lock[u]
      /\ \A a \in Apps : CallId[a] = c => app'[a] \in {app[a], "over"}
      /\ lock'[t] # None /\ (locks[c] # None => locks'[c] = locks[c])
      /\ phone'[i] = phone[i] /\ (i \in persisted' <=> i \in persisted)
  BY DEF Calling, Caller
<1>2. /\ \/ start'[i] = start[i] /\ (t = StarterOf(i) => start[i] = "failing")
         \/ start[i] = "dialing" /\ start'[i] = "failing" /\ t = StarterOf(i)
      /\ \/ stream'[i] = stream[i]
         \/ stream[i] = "running" /\ stream'[i] = "over" /\ t = StreamOf(i)
      /\ \/ calls'[c] = calls[c]
         \/ /\ start[i] = "dialing" /\ start'[i] = "failing" /\ c \notin reserved
            /\ phone[i] # "none" /\ calls'[c] = i
      /\ t = StatusOf(i) => phone[i] # "none"
      /\ start'[i] = "dialing" => t = StatusOf(i)
  BY DEF Calling, Caller
<1>3. \A u \in OfCall(c) : TaskOK(i, c, u)
  BY DEF StartOK
<1>4. /\ HoldsOwn(i, c) /\ Dialing(i, c) /\ Progress(i, c) /\ Left(i, c)
  BY DEF StartOK
<1>5. PICK v \in OfCall(c) : stage[v] \in InCleanup \cup {"queued"}
  OBVIOUS
<1>6. v # t /\ stage[v] \notin {"none", "done"}
  BY <1>5, CleanupStages
(* While Twilio is being asked only the status callback can be in the way. *)
<1>7. start[i] = "dialing" => v = StatusOf(i) /\ c \in reserved /\ t # StatusOf(i)
  BY <1>4, <1>6 DEF Dialing
<1>8. calls'[c] = calls[c] /\ start'[i] # "dialing"
  BY <1>2, <1>7
<1>9. start'[i] \in Begun /\ (start[i] \in Answered => start'[i] \in Answered)
  BY <1>2 DEF Begun, Answered
<1>10. Over(i, c) => Over(i, c)'
  BY <1>8, <1>9 DEF Over
<1>11. HoldsOwn(i, c)'
  BY <1>4, <1>8 DEF HoldsOwn
<1>12. Dialing(i, c)'
  BY <1>8 DEF Dialing
<1>13. Progress(i, c)'
  <2>1. start'[i] = "failing" <=> stage'[StarterOf(i)] # "none"
    BY <1>1, <1>2, <1>4 DEF Progress
  <2>2. phone'[i] = "none" =>
          stage'[StatusOf(i)] = "none" /\ stream'[i] = "none" /\ calls'[c] = None
    BY <1>1, <1>2, <1>4, <1>8 DEF Progress
  <2>3. QED BY <1>9, <2>1, <2>2 DEF Progress, Begun
<1>14. Left(i, c)'
  <2>2. routers'[c] = i =>
          \/ stream'[i] = "running" \/ stage'[StreamOf(i)] = "queued"
          \/ \E u \in OfCall(c) : stage'[u] \in {"status_db", "hangup"}
    <3>1. ASSUME routers[c] = i, NEW u \in OfCall(c), stage[u] \in {"status_db", "hangup"}
          PROVE  stage'[u] \in {"status_db", "hangup"}
      BY <1>1, <3>1
    <3>2. stage[StreamOf(i)] = "queued" => stage'[StreamOf(i)] = "queued"
      BY <1>1
    <3>3. stream[i] = "running" => stream'[i] = "running" \/ stage'[StreamOf(i)] = "queued"
      BY <1>2
    <3>4. QED BY <1>4, <3>1, <3>2, <3>3 DEF Left
  <2>3. listeners'[c] = i => routers'[c] = i \/ \E u \in OfCall(c) : stage'[u] = "router"
    <3>1. ASSUME NEW u \in OfCall(c), stage[u] = "router" PROVE stage'[u] = "router"
      BY <1>1, <3>1
    <3>2. QED BY <1>4, <3>1 DEF Left
  <2>4. calls'[c] = i =>
          \/ \E u \in OfCall(c) : stage'[u] \in InCleanup
          \/ c \in active' /\ stage'[StatusOf(i)] # "done"
    <3>1. ASSUME NEW u \in OfCall(c), stage[u] \in InCleanup PROVE stage'[u] \in InCleanup
      BY <1>1, <3>1, CleanupStages
    <3>2. stage'[StatusOf(i)] = "done" => stage[StatusOf(i)] = "done"
      BY <1>1
    <3>3. QED BY <1>4, <1>8, <3>1, <3>2 DEF Left
  <2>5. start'[i] = "started" /\ calls'[c] # i => i \in persisted'
    BY <1>1, <1>2, <1>4, <1>8 DEF Left
  <2>6. \E u \in OfCall(c) : stage'[u] \in InCleanup \cup {"queued"}
    OBVIOUS
  <2>7. QED BY <2>2, <2>3, <2>4, <2>5, <2>6, OfCallSame DEF Left
<1>15. ASSUME NEW u \in OfCall(c) PROVE TaskOK(i, c, u)'
  <2>1. TaskOK(i, c, u)
    BY <1>3
  <2>2. \A w \in OfCall(c) : stage'[w] \in InCleanup => w # t /\ stage[w] \in InCleanup
    BY <1>1, CleanupStages
  <2>3. CASE u = t
    BY <1>1, <2>2, <2>3, OfCallSame, CleanupStages DEF TaskOK
  <2>4. CASE u # t
    <3>1. stage'[u] = stage[u] /\ lock'[u] = lock[u] /\ seen'[u] = seen[u]
      BY <1>1, <2>4
    <3>2. stage'[u] = "queued" =>
            \/ lock'[u] = locks'[c]
            \/ /\ Over(i, c)'
               /\ (\E w \in OfCall(c) : stage'[w] \in InCleanup) => routers'[c] = None
      BY <1>1, <1>10, <2>1, <2>2, <3>1 DEF TaskOK
    <3>3. stage'[u] \in InCleanup =>
            lock'[u] = locks'[c] \/ (Over(i, c)' /\ routers'[c] = None)
      BY <1>1, <1>10, <2>1, <3>1, CleanupStages DEF TaskOK
    <3>4. /\ stage'[u] # "none" => lock'[u] # None
          /\ stage'[u] \in {"session", "app", "observers", "persist"} => sessions'[c] = None
          /\ stage'[u] = "persist" => calls'[c] = None /\ start'[i] \in Answered
          /\ stage'[u] \in {"status_db", "hangup"} => seen'[u] = i
      BY <1>8, <1>9, <2>1, <3>1 DEF TaskOK
    <3>5. \A w \in OfCall(c) : stage'[u] \in InCleanup /\ stage'[w] \in InCleanup => u = w
      BY <2>1, <2>2, <3>1 DEF TaskOK
    <3>6. QED BY <3>2, <3>3, <3>4, <3>5, OfCallSame DEF TaskOK
  <2>5. QED BY <2>3, <2>4
<1>16. QED BY <1>9, <1>11, <1>12, <1>13, <1>14, <1>15, OfCallSame DEF StartOK

Elsewhere(c) == \A d \in Calls \ {c} : SameCall(d)

(* A step on one call keeps the invariant if it does so for that call.     *)
LEMMA OneCall ==
  ASSUME LifecycleTypeOK, CallsInv, NEW c \in Calls, CallOK(c)', Elsewhere(c)
  PROVE  CallsInv'
<1>1. ASSUME NEW d \in Calls, d # c PROVE CallOK(d)'
  BY <1>1, SameKeepsCall DEF Elsewhere, CallsInv
<1>2. QED BY <1>1 DEF CallsInv

(* A task in cleanup_call works for a start request that has reached       *)
(* Twilio, the only one of its call id.                                    *)
LEMMA Busy ==
  ASSUME NEW c \in Calls, CallOK(c), NEW t \in OfCall(c), stage[t] # "none"
  PROVE  \E i \in Starts : c = CallId[i] /\ start[i] \in Begun /\ StartOK(i, c)
BY DEF CallOK, Owned, Nothing

(* For a start request that has reached Twilio, what is left to show.      *)
LEMMA OwnedKeeps ==
  ASSUME Once, NEW i \in Starts, NEW c, c = CallId[i], StartOK(i, c)', start'[i] \in Begun,
         Sockets(c)', LocksOwn(c)'
  PROVE  CallOK(c)'
BY DEF CallOK, Once, Owned, Begun

HandlersElsewhere(i, c) ==
  /\ \A n \in Starts \ {i} :
       start'[n] = start[n] /\ stream'[n] = stream[n] /\ phone'[n] = phone[n]
  /\ \A a \in Apps : CallId[a] # c => app'[a] = app[a]
  /\ \A u \in Task : Of(u) # c => lock'[u] = lock[u]

(* The steps of cleanup_call are steps on one call.                        *)
LEMMA CleanupFrame ==
  ASSUME Once, NEW i \in Starts, NEW c, c = CallId[i], NEW t \in OfCall(c),
         CleanupElsewhere(t, i, c), RegistriesElsewhere(i, c), HandlersElsewhere(i, c)
  PROVE  Elsewhere(c)
<1>1. ASSUME NEW d \in Calls, d # c PROVE SameCall(d)
  <2>1. ASSUME NEW u \in OfCall(d)
        PROVE  stage'[u] = stage[u] /\ lock'[u] = lock[u] /\ seen'[u] = seen[u]
    <3>1. u # t /\ u \in Task /\ Of(u) # c
      BY <1>1 DEF OfCall
    <3>2. QED BY <3>1 DEF CleanupElsewhere, HandlersElsewhere
  <2>2. ASSUME NEW n \in Starts, CallId[n] = d
        PROVE  /\ start'[n] = start[n] /\ stream'[n] = stream[n] /\ phone'[n] = phone[n]
               /\ (n \in persisted') <=> (n \in persisted)
               /\ \A k \in {"session", "router", "listener"} :
                    <<k, n>> \in live' <=> <<k, n>> \in live
    BY <1>1, <2>2 DEF CleanupElsewhere, HandlersElsewhere, RegistriesElsewhere
  <2>3. QED
    BY <1>1, <2>1, <2>2
       DEF SameCall, CleanupElsewhere, HandlersElsewhere, RegistriesElsewhere
<1>2. QED BY <1>1 DEF Elsewhere

(* The take-down, step by step.                                            *)
LEMMA UnwindKeeps ==
  ASSUME Once, LifecycleTypeOK, CallsInv, NEW t \in Task, NEW k \in 0..5,
         (k = 0 /\ stage[t] = "hangup") \/ (k # 0 /\ stage[t] = Unwinding[k]),
         Unwind(t, Of(t), k), UNCHANGED <<lock, seen, start, stream, app>>,
         phone' \in {phone, [phone EXCEPT ![seen[t]] = "over"]}, k # 0 => phone' = phone
  PROVE  CallsInv'
<1>. DEFINE c == Of(t)
<1>1. c \in Calls /\ t \in OfCall(c) /\ CallOK(c)
  BY OfIsCall DEF OfCall, CallsInv
<1>2. stage[t] \in InCleanup
  BY AtUnwinding
<1>3. PICK i \in Starts : c = CallId[i] /\ start[i] \in Begun /\ StartOK(i, c)
  BY <1>1, <1>2, Busy, CleanupStages
<1>4. /\ CleanupElsewhere(t, i, c) /\ RegistriesElsewhere(i, c) /\ LiveIs(i, c)'
      /\ EntryPopped(t, i, c, k) \/ CallPopped(t, i, c, k)
  <2>1. HoldsOwn(i, c)
    BY <1>3 DEF StartOK
  <2>2. QED BY <1>1, <1>3, <2>1, UnwindMeans
<1>5. phone'[i] \in {phone[i], "over"} /\ \A n \in Starts \ {i} : phone'[n] = phone[n]
  <2>1. k = 0 => seen[t] = i
    BY <1>1, <1>3 DEF StartOK, TaskOK
  <2>2. QED BY <2>1 DEF LifecycleTypeOK
<1>6. Quiet(t, i, c)
  <2>1. \A u \in OfCall(c) \ {t} : stage'[u] = stage[u]
    BY <1>4 DEF CleanupElsewhere, OfCall
  <2>2. QED BY <1>5, <2>1 DEF Quiet
<1>7. StartOK(i, c)'
  BY <1>1, <1>3, <1>4, <1>6, EntryPoppedKeeps, CallPoppedKeeps
<1>8. Sockets(c)'
  BY <1>1, <1>4 DEF CallOK, Sockets, EntryPopped, CallPopped
<1>9. LocksOwn(c)'
  <2>1. locks'[c] \in {locks[c], None}
    BY <1>4 DEF EntryPopped, CallPopped
  <2>2. QED BY <1>1, <2>1, OfCallSame DEF CallOK, LocksOwn, Of
<1>10. CallOK(c)'
  BY <1>3, <1>7, <1>8, <1>9, OwnedKeeps
<1>11. HandlersElsewhere(i, c)
  BY <1>5 DEF HandlersElsewhere
<1>12. QED BY <1>1, <1>3, <1>4, <1>10, <1>11, CleanupFrame, OneCall

(* Who gets a free lock is alone in cleanup_call, or finds that what he    *)
(* could take down is gone.                                                *)
LEMMA FreeLock ==
  ASSUME NEW i \in Starts, NEW c, StartOK(i, c), NEW l, l # None,
         \A u \in OfCall(c) : lock[u] = l => stage[u] \notin InCleanup,
         l = locks[c] \/ locks[c] = None
  PROVE  \/ \A u \in OfCall(c) : stage[u] \notin InCleanup
         \/ Over(i, c) /\ routers[c] = None
<1>1. ASSUME NEW u \in OfCall(c), stage[u] \in InCleanup
      PROVE  Over(i, c) /\ routers[c] = None
  <2>1. TaskOK(i, c, u)
    BY DEF StartOK
  <2>2. lock[u] # None /\ (lock[u] = locks[c] \/ (Over(i, c) /\ routers[c] = None))
    BY <1>1, <2>1, CleanupStages DEF TaskOK
  <2>3. QED BY <1>1, <2>2
<1>2. QED BY <1>1

(* A waiter gets the lock.                                                 *)
LEMMA GetLockKeeps ==
  ASSUME Once, LifecycleTypeOK, CallsInv, NEW t \in Task, GetLock(t)
  PROVE  CallsInv'
<1>. DEFINE c == Of(t)
<1>1. c \in Calls /\ t \in OfCall(c) /\ CallOK(c)
  BY OfIsCall DEF OfCall, CallsInv
<1>2. /\ stage[t] = "queued" /\ ~Held(lock[t]) /\ EnterCleanup(t, c)
      /\ UNCHANGED <<calls, appWs, locks, lock, start, stream, app, phone, persisted>>
  BY DEF GetLock, handlers
<1>3. PICK i \in Starts : c = CallId[i] /\ start[i] \in Begun /\ StartOK(i, c)
  BY <1>1, <1>2, Busy
<1>4. HoldsOwn(i, c) /\ Dialing(i, c) /\ Progress(i, c) /\ TaskOK(i, c, t)
  BY <1>1, <1>3 DEF StartOK
<1>5. /\ CleanupElsewhere(t, i, c) /\ LiveIs(i, c)'
      /\ NothingFound(t, c) \/ CallFound(t, i, c) \/ MediaFound(t, c)
  <2>1. calls'[c] \in {None, i}
    BY <1>2, <1>4 DEF HoldsOwn
  <2>2. QED BY <1>1, <1>2, <1>3, <1>4, <2>1, EnterMeans
<1>6. lock[t] # None
  BY <1>2, <1>4 DEF TaskOK
<1>7. Calling(t, i, c)
  <2>1. Caller(t, i, c)
    BY <1>1, <1>2, <1>4 DEF Caller, Progress, Dialing
  <2>2. QED BY <1>2, <1>6, <2>1 DEF Calling
<1>8. \/ \A u \in OfCall(c) : stage[u] \notin InCleanup
      \/ Over(i, c) /\ routers[c] = None
  <2>1. CASE lock[t] = locks[c]
    <3>1. \A u \in OfCall(c) : lock[u] = locks[c] => stage[u] \notin InCleanup
      BY <1>2, <2>1 DEF Held, OfCall
    <3>2. QED BY <1>3, <1>6, <2>1, <3>1, FreeLock
  <2>2. CASE lock[t] # locks[c]
    BY <1>2, <1>4, <2>2 DEF TaskOK
  <2>3. QED BY <2>1, <2>2
<1>9. lock'[t] = locks'[c] \/ Over(i, c)
  BY <1>2, <1>4 DEF TaskOK
<1>10. StartOK(i, c)' /\ start'[i] \in Begun
  BY <1>1, <1>2, <1>3, <1>5, <1>7, <1>8, <1>9, EnterKeeps
<1>11. Sockets(c)' /\ LocksOwn(c)'
  BY <1>1, <1>2, OfCallSame DEF CallOK, Sockets, LocksOwn, Of
<1>12. CallOK(c)'
  BY <1>3, <1>10, <1>11, OwnedKeeps
<1>13. RegistriesElsewhere(i, c) /\ HandlersElsewhere(i, c)
  BY <1>2 DEF RegistriesElsewhere, HandlersElsewhere
<1>14. QED BY <1>1, <1>3, <1>5, <1>12, <1>13, CleanupFrame, OneCall

(* cleanup_call is called: what the caller itself has changed is in the    *)
(* assumptions.                                                            *)
LEMMA CallCleanupKeeps ==
  ASSUME Once, LifecycleTypeOK, CallsInv, NEW t \in Task, NEW c, c = Of(t),
         CallCleanup(t, c), NEW i \in Starts, c = CallId[i], start[i] \in Begun,
         StartOK(i, c), Caller(t, i, c), Sockets(c)',
         \A d \in Calls \ {c} : calls'[d] = calls[d] /\ appWs'[d] = appWs[d],
         \A n \in Starts \ {i} :
           start'[n] = start[n] /\ stream'[n] = stream[n] /\ phone'[n] = phone[n],
         \A a \in Apps : CallId[a] # c => app'[a] = app[a]
  PROVE  CallsInv'
<1>1. c \in Calls /\ t \in OfCall(c) /\ CallOK(c)
  BY OfIsCall DEF OfCall, CallsInv
<1>. DEFINE l == IF locks[c] = None THEN t ELSE locks[c]
<1>2. /\ stage[t] = "none"
      /\ locks' = [locks EXCEPT ![c] = l] /\ lock' = [lock EXCEPT ![t] = l]
      /\ persisted' = persisted
      /\ \/ ~Contended(l) /\ EnterCleanup(t, c)
         \/ /\ Contended(l)
            /\ stage' = [stage EXCEPT ![t] = "queued"]
            /\ UNCHANGED <<capVars, sessions, routers, listeners, live, seen>>
  BY DEF CallCleanup
<1>3. l # None /\ Of(l) = c
  BY <1>1, LifecycleAssumption DEF CallOK, LocksOwn, OfCall
<1>4. /\ locks'[c] = l /\ lock'[t] = l
      /\ \A u \in Task \ {t} : lock'[u] = lock[u]
      /\ \A d \in Calls \ {c} : locks'[d] = locks[d]
  BY <1>1, <1>2 DEF LifecycleTypeOK
<1>5. Calling(t, i, c)
  <2>1. \A u \in OfCall(c) : u \in Task
    BY DEF OfCall
  <2>2. QED BY <1>2, <1>3, <1>4, <2>1 DEF Calling
<1>6. LocksOwn(c)'
  BY <1>1, <1>3, <1>4, OfCallSame DEF CallOK, LocksOwn, OfCall, Of
<1>7. RegistriesElsewhere(i, c) /\ HandlersElsewhere(i, c)
  BY <1>1, <1>2, <1>4 DEF RegistriesElsewhere, HandlersElsewhere, OfCall
<1>8. CASE ~Contended(l) /\ EnterCleanup(t, c)
  <2>1. HoldsOwn(i, c)
    BY DEF StartOK
  <2>2. calls'[c] \in {None, i}
    BY <2>1 DEF Caller, HoldsOwn
  <2>3. /\ CleanupElsewhere(t, i, c) /\ LiveIs(i, c)'
        /\ NothingFound(t, c) \/ CallFound(t, i, c) \/ MediaFound(t, c)
    BY <1>1, <1>8, <2>1, <2>2, EnterMeans
  <2>4. \A u \in OfCall(c) : lock[u] = l => stage[u] \notin InCleanup
    BY <1>8 DEF Contended, OfCall
  <2>5. \/ \A u \in OfCall(c) : stage[u] \notin InCleanup
        \/ Over(i, c) /\ routers[c] = None
    <3>1. l = locks[c] \/ locks[c] = None
      OBVIOUS
    <3>. HIDE DEF l
    <3>2. QED BY <1>3, <2>4, <3>1, FreeLock
  <2>6. StartOK(i, c)' /\ start'[i] \in Begun
    BY <1>1, <1>2, <1>4, <1>5, <2>3, <2>5, EnterKeeps
  <2>7. CallOK(c)'
    BY <1>6, <2>6, OwnedKeeps
  <2>8. QED BY <1>1, <1>7, <2>3, <2>7, CleanupFrame, OneCall
<1>9. CASE /\ Contended(l)
           /\ stage' = [stage EXCEPT ![t] = "queued"]
           /\ UNCHANGED <<capVars, sessions, routers, listeners, live, seen>>
  <2>1. stage'[t] = "queued" /\ \A u \in Task \ {t} : stage'[u] = stage[u]
    BY <1>9 DEF LifecycleTypeOK
  <2>2. \E u \in OfCall(c) : stage[u] \in InCleanup \cup {"queued"}
    <3>1. PICK u \in Task : lock[u] = l /\ stage[u] \in InCleanup \cup {"queued"}
      BY <1>9 DEF Contended
    <3>2. Of(u) \in Calls /\ u \in OfCall(Of(u))
      BY <3>1, OfIsCall DEF OfCall
    <3>3. LocksOwn(Of(u))
      BY <3>2 DEF CallsInv, CallOK
    <3>4. Of(u) = c
      BY <1>3, <3>1, <3>2, <3>3 DEF LocksOwn
    <3>5. QED BY <3>1, <3>4 DEF OfCall
  <2>3. StartOK(i, c)' /\ start'[i] \in Begun
    <3>1. \A u \in OfCall(c) \ {t} : stage'[u] = stage[u] /\ seen'[u] = seen[u]
      BY <1>9, <2>1 DEF OfCall
    <3>2. UNCHANGED <<reserved, active, sessions, routers, listeners, live>>
      BY <1>9 DEF capVars
    <3>3. QED BY <1>1, <1>2, <1>4, <1>5, <2>1, <2>2, <3>1, <3>2, QueueKeeps
  <2>4. CallOK(c)'
    BY <1>6, <2>3, OwnedKeeps
  <2>5. CleanupElsewhere(t, i, c)
    BY <1>9, <2>1 DEF CleanupElsewhere, capVars
  <2>6. QED BY <1>1, <1>7, <2>4, <2>5, CleanupFrame, OneCall
<1>10. QED BY <1>2, <1>8, <1>9

(* The status is written; the phone call is asked to end.                  *)
LEMMA StatusWrittenKeeps ==
  ASSUME Once, LifecycleTypeOK, CallsInv, NEW t \in Task, StatusWritten(t)
  PROVE  CallsInv'
<1>. DEFINE c == Of(t)
<1>1. c \in Calls /\ t \in OfCall(c) /\ CallOK(c)
  BY OfIsCall DEF OfCall, CallsInv
<1>2. /\ stage[t] = "status_db" /\ stage'[t] = "hangup"
      /\ \A u \in Task \ {t} : stage'[u] = stage[u]
      /\ UNCHANGED <<reserved, active, calls, sessions, routers, listeners, appWs, locks,
                     lock, seen, start, stream, app, phone, live, persisted>>
  BY DEF StatusWritten, capVars, registries, handlers, LifecycleTypeOK
<1>3. PICK i \in Starts : c = CallId[i] /\ start[i] \in Begun /\ StartOK(i, c)
  BY <1>1, <1>2, Busy
<1>4. /\ HoldsOwn(i, c) /\ Dialing(i, c) /\ Progress(i, c) /\ Left(i, c)
      /\ \A u \in OfCall(c) : TaskOK(i, c, u)
  BY <1>3 DEF StartOK
<1>5. /\ StatusOf(i) \in OfCall(c) /\ StarterOf(i) \in OfCall(c) /\ StreamOf(i) \in OfCall(c)
      /\ \A u \in OfCall(c) : u \in Task
  BY <1>3, TasksOf
<1>6. \A u \in OfCall(c) : /\ stage'[u] \in InCleanup <=> stage[u] \in InCleanup
                           /\ stage'[u] = stage[u] \/ (u = t /\ stage'[u] = "hangup")
  BY <1>2, <1>5, CleanupStages
<1>7. HoldsOwn(i, c)' /\ Over(i, c)' = Over(i, c)
  BY <1>2, <1>4 DEF HoldsOwn, Over
<1>8. Dialing(i, c)'
  BY <1>2, <1>4, <1>5, <1>6, OfCallSame DEF Dialing
<1>9. Progress(i, c)'
  BY <1>2, <1>4, <1>5, <1>6 DEF Progress
<1>10. Left(i, c)'
  <2>1. /\ stage[StreamOf(i)] = "queued" => stage'[StreamOf(i)] = "queued"
        /\ stage'[StatusOf(i)] = "done" => stage[StatusOf(i)] = "done"
        /\ \A u \in OfCall(c) :
             /\ stage[u] \in InCleanup \cup {"queued"} => stage'[u] \in InCleanup \cup {"queued"}
             /\ stage[u] \in {"status_db", "hangup"} => stage'[u] \in {"status_db", "hangup"}
             /\ stage[u] = "router" => stage'[u] = "router"
    BY <1>2, <1>5, <1>6, CleanupStages
  <2>2. Left(i, c)
    BY <1>4
  <2>3. QED BY <1>2, <1>6, <2>1, <2>2, OfCallSame DEF Left
<1>11. ASSUME NEW u \in OfCall(c) PROVE TaskOK(i, c, u)'
  <2>1. TaskOK(i, c, u)
    BY <1>4
  <2>2. \A w \in OfCall(c) : stage'[u] \in InCleanup /\ stage'[w] \in InCleanup => u = w
    BY <1>6, <2>1 DEF TaskOK
  <2>3. stage'[u] = "queued" =>
          \/ lock'[u] = locks'[c]
          \/ /\ Over(i, c)'
             /\ (\E w \in OfCall(c) : stage'[w] \in InCleanup) => routers'[c] = None
    BY <1>2, <1>6, <1>7, <2>1 DEF TaskOK
  <2>4. stage'[u] \in InCleanup =>
          lock'[u] = locks'[c] \/ (Over(i, c)' /\ routers'[c] = None)
    BY <1>2, <1>6, <1>7, <2>1 DEF TaskOK
  <2>5. /\ stage'[u] # "none" => lock'[u] # None
        /\ stage'[u] \in {"session", "app", "observers", "persist"} => sessions'[c] = None
        /\ stage'[u] = "persist" => calls'[c] = None /\ start'[i] \in Answered
        /\ stage'[u] \in {"status_db", "hangup"} => seen'[u] = i
    BY <1>2, <1>6, <2>1 DEF TaskOK
  <2>6. QED BY <2>2, <2>3, <2>4, <2>5, OfCallSame DEF TaskOK
<1>12. StartOK(i, c)' /\ start'[i] \in Begun
  BY <1>2, <1>3, <1>7, <1>8, <1>9, <1>10, <1>11, OfCallSame DEF StartOK
<1>13. Sockets(c)' /\ LocksOwn(c)'
  BY <1>1, <1>2, OfCallSame DEF CallOK, Sockets, LocksOwn, Of
<1>14. CallOK(c)'
  BY <1>3, <1>12, <1>13, OwnedKeeps
<1>15. /\ RegistriesElsewhere(i, c) /\ HandlersElsewhere(i, c)
       /\ CleanupElsewhere(t, i, c)
  BY <1>2 DEF RegistriesElsewhere, HandlersElsewhere, CleanupElsewhere
<1>16. QED BY <1>1, <1>3, <1>14, <1>15, CleanupFrame, OneCall

(* The call has been persisted.                                            *)
LEMMA PersistedStepKeeps ==
  ASSUME Once, LifecycleTypeOK, CallsInv, NEW t \in Task, Persisted(t)
  PROVE  CallsInv'
<1>. DEFINE c == Of(t)
<1>1. c \in Calls /\ t \in OfCall(c) /\ CallOK(c)
  BY OfIsCall DEF OfCall, CallsInv
<1>2. /\ stage[t] = "persist" /\ stage'[t] = "done"
      /\ \A u \in Task \ {t} : stage'[u] = stage[u]
      /\ locks'[c] = None /\ \A d \in Calls \ {c} : locks'[d] = locks[d]
      /\ \A d \in Calls \ {c} : /\ (d \in active') <=> (d \in active)
                                /\ (d \in reserved') <=> (d \in reserved)
      /\ UNCHANGED <<calls, sessions, routers, listeners, appWs,
                     lock, seen, start, stream, app, phone, live, persisted>>
  BY <1>1 DEF Persisted, capVars, registries, handlers, LifecycleTypeOK, DropLock, Release
<1>3. PICK i \in Starts : c = CallId[i] /\ start[i] \in Begun /\ StartOK(i, c)
  BY <1>1, <1>2, Busy
<1>4. Quiet(t, i, c) /\ LiveIs(i, c)'
  BY <1>2, <1>3 DEF Quiet, LiveIs, StartOK, HoldsOwn, OfCall
<1>5. StartOK(i, c)' /\ start'[i] \in Begun
  BY <1>1, <1>2, <1>3, <1>4, PersistedKeeps
<1>6. Sockets(c)' /\ LocksOwn(c)'
  BY <1>1, <1>2, OfCallSame DEF CallOK, Sockets, LocksOwn, Of
<1>7. CallOK(c)'
  BY <1>3, <1>5, <1>6, OwnedKeeps
<1>8. /\ RegistriesElsewhere(i, c) /\ HandlersElsewhere(i, c)
      /\ CleanupElsewhere(t, i, c)
  BY <1>2 DEF RegistriesElsewhere, HandlersElsewhere, CleanupElsewhere
<1>9. QED BY <1>1, <1>3, <1>7, <1>8, CleanupFrame, OneCall

(* All steps of cleanup_call.                                              *)
LEMMA CleanupStepKeeps ==
  ASSUME Once, LifecycleTypeOK, CallsInv, NEW t \in Task, CleanupStep(t)
  PROVE  CallsInv'
<1>1. CASE HangUpDone(t)
  <2>1. /\ stage[t] = "hangup" /\ Unwind(t, Of(t), 0)
        /\ UNCHANGED <<lock, seen, start, stream, app>>
        /\ phone' \in {phone, [phone EXCEPT ![seen[t]] = "over"]}
    BY <1>1 DEF HangUpDone
  <2>2. QED BY <2>1, UnwindKeeps
<1>2. CASE TakenDown(t)
  <2>1. PICK k \in DOMAIN Unwinding :
          /\ stage[t] = Unwinding[k] /\ Unwind(t, Of(t), k)
          /\ UNCHANGED <<lock, seen, handlers>>
    BY <1>2 DEF TakenDown
  <2>2. k \in 0..5 /\ k # 0
    BY RegisteredMeans
  <2>3. UNCHANGED <<lock, seen, start, stream, app, phone>>
    BY <2>1 DEF handlers
  <2>4. QED BY <2>1, <2>2, <2>3, UnwindKeeps
<1>3. QED
  BY <1>1, <1>2, GetLockKeeps, StatusWrittenKeeps, PersistedStepKeeps DEF CleanupStep

(* Steps outside cleanup_call.                                             *)
LEMMA TasksKept ==
  ASSUME NEW i \in Starts, NEW c, StartOK(i, c),
         UNCHANGED <<stage, lock, seen, locks>>, sessions'[c] = sessions[c],
         Over(i, c) => Over(i, c)' /\ routers'[c] = routers[c],
         calls[c] = None /\ start[i] \in Answered => calls'[c] = None /\ start'[i] \in Answered
  PROVE  \A t \in OfCall(c)' : TaskOK(i, c, t)'
<1>1. ASSUME NEW t \in OfCall(c) PROVE TaskOK(i, c, t)'
  <2>1. TaskOK(i, c, t)
    BY DEF StartOK
  <2>2. stage[t] = "queued" =>
          \/ lock[t] = locks[c]
          \/ /\ Over(i, c)'
             /\ (\E u \in OfCall(c) : stage[u] \in InCleanup) => routers'[c] = None
    BY <2>1 DEF TaskOK
  <2>3. stage[t] \in InCleanup =>
          lock[t] = locks[c] \/ (Over(i, c)' /\ routers'[c] = None)
    BY <2>1 DEF TaskOK
  <2>4. /\ stage[t] # "none" => lock[t] # None
        /\ stage[t] \in {"session", "app", "observers", "persist"} => sessions'[c] = None
        /\ stage[t] = "persist" => calls'[c] = None /\ start'[i] \in Answered
        /\ stage[t] \in {"status_db", "hangup"} => seen[t] = i
        /\ \A u \in OfCall(c) : stage[t] \in InCleanup /\ stage[u] \in InCleanup => t = u
    BY <2>1 DEF TaskOK
  <2>5. QED BY <2>2, <2>3, <2>4, OfCallSame DEF TaskOK, Answered
<1>2. QED BY <1>1, OfCallSame

(* A handler that changes its own call only.                               *)
LEMMA HandlerFrame ==
  ASSUME Once, NEW i \in Starts, NEW c, c = CallId[i],
         UNCHANGED <<stage, lock, seen, locks, persisted>>,
         \A d \in Calls \ {c} :
           /\ calls'[d] = calls[d] /\ sessions'[d] = sessions[d] /\ routers'[d] = routers[d]
           /\ listeners'[d] = listeners[d] /\ appWs'[d] = appWs[d]
           /\ (d \in active') <=> (d \in active)
           /\ (d \in reserved') <=> (d \in reserved),
         \A n \in Starts \ {i} :
           /\ start'[n] = start[n] /\ stream'[n] = stream[n] /\ phone'[n] = phone[n]
           /\ \A k \in {"session", "router", "listener"} :
                <<k, n>> \in live' <=> <<k, n>> \in live,
         \A a \in Apps : CallId[a] # c => app'[a] = app[a]
  PROVE  Elsewhere(c)
BY DEF Elsewhere, SameCall

(* So do its locks.                                                        *)
LEMMA SameLocks ==
  ASSUME NEW c, UNCHANGED <<lock, locks>>, LocksOwn(c)
  PROVE  LocksOwn(c)'
BY OfCallSame DEF LocksOwn, Of

(* What is not there for a start that has not reached Twilio.              *)
LEMMA NotBegun ==
  ASSUME Once, CallsInv, NEW i \in Starts, NEW c, c = CallId[i], start[i] \notin Begun
  PROVE  c \in Calls /\ Nothing(c) /\ StartOK(i, c) /\ Sockets(c) /\ LocksOwn(c)
<1>1. c \in Calls
  BY LifecycleAssumption
<1>2. ~Owned(c)
  BY DEF Once, Owned
<1>3. QED BY <1>1, <1>2 DEF CallsInv, CallOK

(* A start request is refused, reserves its slot, or fails to connect.     *)
LEMMA BeginKeeps ==
  ASSUME Once, LifecycleTypeOK, CallsInv, NEW i \in Starts, StartCall(i) \/ ConnectFails(i)
  PROVE  CallsInv'
<1>. DEFINE c == CallId[i]
<1>1. /\ start[i] \in {"idle", "connecting"} /\ start'[i] \in {"connecting", "failed"}
      /\ start'[i] = "connecting" => c \in reserved'
      /\ \A n \in Starts \ {i} : start'[n] = start[n]
      /\ \A d \in Calls \ {c} : /\ (d \in active') <=> (d \in active)
                                /\ (d \in reserved') <=> (d \in reserved)
      /\ UNCHANGED <<registries, locks, cleanupVars, stream, app, phone, live, persisted>>
  BY DEF StartCall, ConnectFails, Reserve, Release, capVars, LifecycleTypeOK
<1>2. UNCHANGED <<calls, sessions, routers, listeners, appWs, stage, lock, seen>>
  BY <1>1 DEF registries, cleanupVars
<1>3. c \in Calls /\ Nothing(c) /\ StartOK(i, c) /\ Sockets(c) /\ LocksOwn(c)
  BY <1>1, NotBegun DEF Begun
<1>4. Nothing(c)' /\ Sockets(c)' /\ LocksOwn(c)'
  BY <1>1, <1>2, <1>3, OfCallSame, SameLocks DEF Nothing, Sockets
<1>5. ~Owned(c)'
  BY <1>1 DEF Owned, Once, Begun
<1>6. StartOK(i, c)'
  <2>1. HoldsOwn(i, c)' /\ Dialing(i, c)' /\ Left(i, c)'
    BY <1>1, <1>2, <1>3, LifecycleAssumption DEF StartOK, HoldsOwn, Dialing, Left, Nothing, Answered
  <2>2. Progress(i, c)'
    BY <1>1, <1>2, <1>3 DEF StartOK, Progress, Begun
  <2>3. \A t \in OfCall(c)' : TaskOK(i, c, t)'
    BY <1>1, <1>2, <1>3, TasksKept DEF Over, Answered
  <2>4. QED BY <2>1, <2>2, <2>3 DEF StartOK
<1>7. CallOK(c)'
  BY <1>4, <1>5, <1>6 DEF CallOK, Once
<1>8. Elsewhere(c)
  BY <1>1, <1>2, HandlerFrame
<1>9. QED BY <1>3, <1>7, <1>8, OneCall

(* The dual session is up and registered.                                  *)
LEMMA ConnectedKeeps ==
  ASSUME Once, LifecycleTypeOK, CallsInv, NEW i \in Starts, Connected(i)
  PROVE  CallsInv'
<1>. DEFINE c == CallId[i]
<1>1. c \in Calls /\ Nothing(c) /\ StartOK(i, c) /\ Sockets(c) /\ LocksOwn(c)
  BY NotBegun DEF Connected, Begun
<1>2. /\ start[i] = "connecting" /\ start'[i] = "dialing" /\ sessions'[c] = i
      /\ \A n \in Starts \ {i} : start'[n] = start[n]
      /\ \A d \in Calls \ {c} : sessions'[d] = sessions[d]
      /\ live' = live \cup {<<"session", i>>}
      /\ UNCHANGED <<reserved, active, calls, routers, listeners, appWs, locks, stage, lock,
                     seen, stream, app, phone, persisted>>
  BY <1>1 DEF Connected, capVars, cleanupVars, LifecycleTypeOK
<1>. /\ StatusOf(i) \in OfCall(c) /\ StarterOf(i) \in OfCall(c) /\ i # None
  BY TasksOf
<1>3. /\ HoldsOwn(i, c) /\ Progress(i, c)
      /\ calls[c] = None /\ routers[c] = None /\ listeners[c] = None
      /\ \A t \in OfCall(c) : stage[t] = "none"
      /\ \A a \in Apps : CallId[a] = c => app[a] \notin {"accepting", "attached"}
  BY <1>1 DEF Nothing, StartOK
<1>4. HoldsOwn(i, c)'
  BY <1>2, <1>3 DEF HoldsOwn
<1>5. Progress(i, c)' /\ c \in reserved'
  BY <1>2, <1>3 DEF Progress, Begun
<1>6. Dialing(i, c)'
  <2>1. stream[i] = "none"
    BY <1>2, <1>3 DEF Progress, Begun
  <2>2. QED BY <1>2, <1>3, <1>5, <2>1, OfCallSame DEF Dialing
<1>7. Left(i, c)'
  BY <1>2, <1>3 DEF Left, Answered
<1>8. \A t \in OfCall(c)' : TaskOK(i, c, t)'
  BY <1>2, <1>3, OfCallSame, CleanupStages DEF TaskOK
<1>9. CallOK(c)'
  <2>1. Sockets(c)' /\ LocksOwn(c)'
    BY <1>1, <1>2, SameLocks DEF Sockets
  <2>2. QED BY <1>2, <1>4, <1>5, <1>6, <1>7, <1>8, <2>1, OwnedKeeps DEF StartOK, Begun
<1>10. Elsewhere(c)
  BY <1>2, HandlerFrame
<1>11. QED BY <1>1, <1>9, <1>10, OneCall

(* The invariant of one start request, taken apart.                        *)
LEMMA BegunOK ==
  ASSUME CallsInv, NEW i \in Starts, NEW c, c = CallId[i]
  PROVE  /\ c \in Calls /\ CallOK(c) /\ StartOK(i, c) /\ Sockets(c) /\ LocksOwn(c)
         /\ HoldsOwn(i, c) /\ Dialing(i, c) /\ Progress(i, c) /\ Left(i, c)
<1>1. c \in Calls
  BY LifecycleAssumption
<1>2. QED BY <1>1 DEF CallsInv, CallOK, StartOK

(* The sockets of a call stay when nobody touches them.                    *)
LEMMA SameSockets ==
  ASSUME NEW c, UNCHANGED <<appWs, app>>, Sockets(c)
  PROVE  Sockets(c)'
BY DEF Sockets

(* Twilio has answered: the call is registered, or the start fails.        *)
LEMMA DialedKeeps ==
  ASSUME Once, LifecycleTypeOK, CallsInv, NEW i \in Starts, DialFails(i) \/ Dialed(i)
  PROVE  CallsInv'
<1>. DEFINE c == CallId[i]
<1>. DEFINE t == StarterOf(i)
<1>1. /\ c \in Calls /\ CallOK(c) /\ StartOK(i, c) /\ Sockets(c) /\ LocksOwn(c)
      /\ HoldsOwn(i, c) /\ Dialing(i, c) /\ Progress(i, c) /\ Left(i, c)
  BY BegunOK
<1>2. /\ start[i] = "dialing" /\ start[i] \in Begun
      /\ UNCHANGED <<appWs, stream, app, phone>>
      /\ \A n \in Starts \ {i} : start'[n] = start[n]
      /\ \A d \in Calls \ {c} : calls'[d] = calls[d]
  BY DEF DialFails, Dialed, Begun, LifecycleTypeOK
<1>. /\ t \in Task /\ t # StatusOf(i) /\ t # StreamOf(i) /\ c = Of(t) /\ i # None
     /\ StatusOf(i) \in OfCall(c) /\ StarterOf(i) \in OfCall(c)
  BY TasksOf
<1>3. CASE CallCleanup(t, c) /\ start'[i] = "failing"
           /\ (calls'[c] = calls[c] \/ (calls'[c] = i /\ c \notin reserved /\ phone[i] # "none"))
  <2>1. Caller(t, i, c)
    BY <1>2, <1>3 DEF Caller
  <2>2. Sockets(c)'
    BY <1>1, <1>2, SameSockets
  <2>3. QED
    BY <1>1, <1>2, <1>3, <2>1, <2>2, CallCleanupKeeps
<1>4. CASE Commit(c) /\ start'[i] = "started" /\ calls'[c] = i /\ phone[i] # "none"
           /\ UNCHANGED <<sessions, routers, listeners, locks, stage, lock, seen, live, persisted>>
  <2>1. /\ c \in reserved /\ c \in active'
        /\ \A d \in Calls \ {c} : /\ (d \in active') <=> (d \in active)
                                  /\ (d \in reserved') <=> (d \in reserved)
    BY <1>4 DEF Commit
  <2>2. HoldsOwn(i, c)'
    BY <1>1, <1>4 DEF HoldsOwn
  <2>3. Dialing(i, c)'
    BY <1>4 DEF Dialing
  <2>4. Progress(i, c)'
    BY <1>1, <1>2, <1>4 DEF Progress, Begun
  <2>5. Left(i, c)'
    BY <1>1, <1>2, <1>4, <2>1 DEF Left, Dialing
  <2>6. \A u \in OfCall(c)' : TaskOK(i, c, u)'
    BY <1>1, <1>2, <1>4, TasksKept DEF Over, Answered
  <2>7. Sockets(c)' /\ LocksOwn(c)'
    BY <1>1, <1>2, <1>4, SameLocks, SameSockets
  <2>8. CallOK(c)'
    BY <1>4, <2>2, <2>3, <2>4, <2>5, <2>6, <2>7, OwnedKeeps DEF StartOK, Begun
  <2>9. Elsewhere(c)
    BY <1>2, <1>4, <2>1, HandlerFrame
  <2>10. QED BY <1>1, <2>8, <2>9, OneCall
<1>5. QED
  <2>1. CASE DialFails(i)
    BY <1>1, <1>3, <2>1 DEF DialFails, LifecycleTypeOK
  <2>2. CASE Dialed(i)
    BY <1>1, <1>3, <1>4, <2>2 DEF Dialed, LifecycleTypeOK, cleanupVars
  <2>3. QED BY <2>1, <2>2

(* The phone call is placed and ends.                                      *)
LEMMA PhoneKeeps ==
  ASSUME Once, LifecycleTypeOK, CallsInv, NEW i \in Starts, PhonePlaced(i) \/ PhoneEnds(i)
  PROVE  CallsInv'
<1>. DEFINE c == CallId[i]
<1>1. /\ c \in Calls /\ CallOK(c) /\ StartOK(i, c) /\ Sockets(c) /\ LocksOwn(c)
      /\ HoldsOwn(i, c) /\ Dialing(i, c) /\ Progress(i, c) /\ Left(i, c)
  BY BegunOK
<1>2. /\ phone'[i] \in {"live", "over"} /\ start[i] \in Begun
      /\ \A n \in Starts \ {i} : phone'[n] = phone[n]
      /\ UNCHANGED <<reserved, active, calls, sessions, routers, listeners, appWs, locks,
                     stage, lock, seen, start, stream, app, live, persisted>>
  BY <1>1 DEF PhonePlaced, PhoneEnds, Progress, Begun, capVars, registries, cleanupVars,
              LifecycleTypeOK
<1>3. HoldsOwn(i, c)' /\ Dialing(i, c)' /\ Left(i, c)'
  BY <1>1, <1>2, OfCallSame DEF HoldsOwn, Dialing, Left
<1>4. Progress(i, c)'
  BY <1>1, <1>2 DEF Progress, Begun
<1>5. \A u \in OfCall(c)' : TaskOK(i, c, u)'
  BY <1>1, <1>2, TasksKept DEF Over
<1>6. CallOK(c)'
  <2>1. Sockets(c)' /\ LocksOwn(c)'
    BY <1>1, <1>2, SameLocks, SameSockets
  <2>2. QED BY <1>2, <1>3, <1>4, <1>5, <2>1, OwnedKeeps DEF StartOK
<1>7. Elsewhere(c)
  BY <1>2, HandlerFrame
<1>8. QED BY <1>1, <1>6, <1>7, OneCall

(* The media stream opens: refused, or its router and listener start.      *)
LEMMA StreamOpensKeeps ==
  ASSUME Once, LifecycleTypeOK, CallsInv, NEW i \in Starts, StreamOpens(i)
  PROVE  CallsInv'
<1>. DEFINE c == CallId[i]
<1>. i # None
  BY TasksOf
<1>1. /\ c \in Calls /\ CallOK(c) /\ StartOK(i, c) /\ Sockets(c) /\ LocksOwn(c)
      /\ HoldsOwn(i, c) /\ Dialing(i, c) /\ Progress(i, c) /\ Left(i, c)
  BY BegunOK
<1>2. /\ phone[i] = "live" /\ stream[i] = "none" /\ start[i] \in Begun
      /\ \/ /\ stream'[i] = "over" /\ phone'[i] = "over"
            /\ UNCHANGED <<routers, listeners, live>>
         \/ /\ stream'[i] = "running" /\ phone'[i] = phone[i]
            /\ routers'[c] = i /\ listeners'[c] = i
            /\ live' = live \cup {<<"router", i>>, <<"listener", i>>}
            /\ calls[c] = i /\ sessions[c] = i
      /\ \A d \in Calls \ {c} : routers'[d] = routers[d] /\ listeners'[d] = listeners[d]
      /\ \A n \in Starts \ {i} : stream'[n] = stream[n] /\ phone'[n] = phone[n]
      /\ UNCHANGED <<reserved, active, calls, sessions, appWs, locks,
                     stage, lock, seen, start, app, persisted>>
  <2>1. start[i] \in Begun
    BY <1>1 DEF StreamOpens, Progress
  <2>2. CASE calls[c] = None \/ sessions[c] = None
    BY <1>1, <2>1, <2>2 DEF StreamOpens, LifecycleTypeOK, capVars, cleanupVars
  <2>3. CASE ~(calls[c] = None \/ sessions[c] = None)
    BY <1>1, <2>1, <2>3 DEF StreamOpens, LifecycleTypeOK, capVars, cleanupVars, HoldsOwn
  <2>4. QED BY <2>2, <2>3
<1>3. HoldsOwn(i, c)'
  BY <1>1, <1>2 DEF HoldsOwn
<1>4. Dialing(i, c)'
  BY <1>1, <1>2, OfCallSame DEF Dialing
<1>5. Progress(i, c)'
  BY <1>1, <1>2 DEF Progress, Begun
<1>6. Left(i, c)'
  BY <1>1, <1>2, OfCallSame DEF Left
<1>7. \A u \in OfCall(c)' : TaskOK(i, c, u)'
  BY <1>1, <1>2, TasksKept DEF Over
<1>8. CallOK(c)'
  <2>1. Sockets(c)' /\ LocksOwn(c)'
    BY <1>1, <1>2, SameLocks, SameSockets
  <2>2. QED BY <1>2, <1>3, <1>4, <1>5, <1>6, <1>7, <2>1, OwnedKeeps DEF StartOK
<1>9. Elsewhere(c)
  BY <1>2, HandlerFrame
<1>10. QED BY <1>1, <1>8, <1>9, OneCall

(* All that Twilio does.                                                   *)
LEMMA TwilioStepKeeps ==
  ASSUME Once, LifecycleTypeOK, CallsInv, NEW i \in Starts, TwilioStep(i)
  PROVE  CallsInv'
<1>. DEFINE c == CallId[i]
<1>1. /\ c \in Calls /\ CallOK(c) /\ StartOK(i, c) /\ Sockets(c) /\ LocksOwn(c)
      /\ HoldsOwn(i, c) /\ Dialing(i, c) /\ Progress(i, c) /\ Left(i, c)
  BY BegunOK
<1>. /\ StatusOf(i) \in Task /\ StreamOf(i) \in Task /\ Of(StatusOf(i)) = c
     /\ Of(StreamOf(i)) = c /\ StatusOf(i) # StarterOf(i) /\ StatusOf(i) # StreamOf(i)
     /\ StarterOf(i) # StreamOf(i)
  BY TasksOf
<1>2. CASE StatusCallback(i)
  <2>1. /\ phone[i] = "over" /\ CallCleanup(StatusOf(i), c)
        /\ UNCHANGED <<calls, appWs, start, stream, app, phone>>
    BY <1>2 DEF StatusCallback, handlers, StatusOf
  <2>2. start[i] \in Begun
    BY <1>1, <2>1 DEF Progress
  <2>3. Caller(StatusOf(i), i, c)
    BY <2>1 DEF Caller
  <2>4. Sockets(c)'
    BY <1>1, <2>1, SameSockets
  <2>5. QED BY <1>1, <2>1, <2>2, <2>3, <2>4, CallCleanupKeeps
<1>3. CASE StreamEnds(i)
  <2>1. /\ stream[i] = "running" /\ CallCleanup(StreamOf(i), c) /\ stream'[i] = "over"
        /\ \A n \in Starts \ {i} : stream'[n] = stream[n]
        /\ UNCHANGED <<calls, appWs, start, app, phone>>
    BY <1>3 DEF StreamEnds, StreamOf, LifecycleTypeOK
  <2>2. start[i] \in Begun /\ start[i] # "dialing"
    BY <1>1, <2>1 DEF Progress, Dialing
  <2>3. Caller(StreamOf(i), i, c)
    BY <2>1, <2>2 DEF Caller
  <2>4. Sockets(c)'
    BY <1>1, <2>1, SameSockets
  <2>5. QED BY <1>1, <2>1, <2>2, <2>3, <2>4, CallCleanupKeeps
<1>4. QED BY <1>2, <1>3, PhoneKeeps, StreamOpensKeeps DEF TwilioStep

(* An end request finds a registered call, so one that is not dialing.     *)
LEMMA EndCallKeeps ==
  ASSUME Once, LifecycleTypeOK, CallsInv, NEW e \in Enders, EndCall(e)
  PROVE  CallsInv'
<1>. DEFINE c == CallId[e]
<1>. DEFINE t == <<"end", e>>
<1>1. /\ c \in Calls /\ t \in Task /\ Of(t) = c
      /\ \A i \in Starts : t # StarterOf(i) /\ t # StatusOf(i)
  BY LifecycleAssumption, TaskNames DEF Of, StarterOf, StatusOf
<1>2. /\ calls[c] # None /\ CallCleanup(t, c)
      /\ UNCHANGED <<calls, appWs, start, stream, app, phone>>
  BY DEF EndCall, handlers
<1>3. PICK i \in Starts : CallId[i] = c /\ start[i] \in Begun
  BY <1>1, <1>2 DEF CallsInv, CallOK, Owned, Nothing
<1>4. StartOK(i, c) /\ Sockets(c) /\ start[i] # "dialing"
  BY <1>2, <1>3, BegunOK DEF Dialing
<1>5. Caller(t, i, c)
  BY <1>1, <1>2, <1>3, <1>4 DEF Caller
<1>6. Sockets(c)'
  BY <1>2, <1>4, SameSockets
<1>7. QED BY <1>1, <1>2, <1>3, <1>4, <1>5, <1>6, CallCleanupKeeps

(* A socket of the app is accepted while its call is registered.           *)
LEMMA AppStepKeeps ==
  ASSUME Once, LifecycleTypeOK, CallsInv, NEW a \in Apps, AppStep(a)
  PROVE  CallsInv'
<1>. DEFINE c == CallId[a]
<1>. DEFINE t == <<"app", a>>
<1>1. /\ c \in Calls /\ t \in Task /\ Of(t) = c
      /\ \A i \in Starts : t # StarterOf(i) /\ t # StatusOf(i)
  BY LifecycleAssumption, TaskNames DEF Of, StarterOf, StatusOf
<1>2. CallOK(c) /\ Sockets(c) /\ LocksOwn(c) /\ a # None
  BY <1>1, LifecycleAssumption DEF CallsInv, CallOK
<1>3. CASE AppConnects(a) \/ AppAttaches(a)
  <2>1. /\ app'[a] \in {"accepting", "attached", "over"}
        /\ \A b \in Apps \ {a} : app'[b] = app[b]
        /\ \A d \in Calls \ {c} : appWs'[d] = appWs[d]
        /\ UNCHANGED <<reserved, active, calls, sessions, routers, listeners, locks,
                       stage, lock, seen, start, stream, phone, live, persisted>>
    BY <1>1, <1>3 DEF AppConnects, AppAttaches, capVars, registries, cleanupVars,
                      LifecycleTypeOK
  <2>2. Sockets(c)'
    BY <1>1, <1>2, <1>3 DEF AppConnects, AppAttaches, registries, Sockets, LifecycleTypeOK
  <2>3. ASSUME app'[a] = "over" PROVE CallOK(c)'
    <3>1. Nothing(c) => Nothing(c)'
      BY <2>1, <2>3, OfCallSame DEF Nothing
    <3>2. ASSUME NEW i \in Starts, CallId[i] = c PROVE StartOK(i, c)'
      <4>1. /\ StartOK(i, c) /\ HoldsOwn(i, c) /\ Dialing(i, c) /\ Progress(i, c)
            /\ Left(i, c)
        BY <3>2, BegunOK
      <4>2. HoldsOwn(i, c)' /\ Dialing(i, c)' /\ Progress(i, c)' /\ Left(i, c)'
        BY <2>1, <2>3, <4>1, OfCallSame DEF HoldsOwn, Dialing, Progress, Left
      <4>3. \A u \in OfCall(c)' : TaskOK(i, c, u)'
        BY <2>1, <4>1, TasksKept DEF Over
      <4>4. QED BY <4>2, <4>3 DEF StartOK
    <3>3. LocksOwn(c)'
      BY <1>2, <2>1, SameLocks
    <3>4. Owned(c)' <=> Owned(c)
      BY <2>1 DEF Owned
    <3>5. QED BY <1>2, <2>2, <3>1, <3>2, <3>3, <3>4 DEF CallOK
  <2>4. ASSUME app'[a] # "over" PROVE CallOK(c)'
    <3>1. calls[c] # None \/ app[a] = "accepting"
      BY <1>3, <2>4 DEF AppConnects, AppAttaches, LifecycleTypeOK
    <3>2. PICK i \in Starts : CallId[i] = c /\ start[i] \in Begun
      BY <1>2, <3>1 DEF CallOK, Owned, Nothing
    <3>3. /\ StartOK(i, c) /\ HoldsOwn(i, c) /\ Dialing(i, c) /\ Progress(i, c)
          /\ Left(i, c)
      BY <3>2, BegunOK
    <3>4. start[i] # "dialing"
      BY <3>1, <3>3 DEF Dialing
    <3>5. HoldsOwn(i, c)' /\ Dialing(i, c)' /\ Progress(i, c)' /\ Left(i, c)'
      BY <2>1, <3>3, <3>4, OfCallSame DEF HoldsOwn, Dialing, Progress, Left
    <3>6. \A u \in OfCall(c)' : TaskOK(i, c, u)'
      BY <2>1, <3>3, TasksKept DEF Over
    <3>7. LocksOwn(c)'
      BY <1>2, <2>1, SameLocks
    <3>8. QED BY <2>1, <2>2, <3>2, <3>5, <3>6, <3>7, OwnedKeeps DEF StartOK
  <2>5. CallOK(c)'
    BY <2>3, <2>4
  <2>6. Elsewhere(c)
    BY <2>1 DEF Elsewhere, SameCall
  <2>7. QED BY <1>1, <2>5, <2>6, OneCall
<1>4. CASE AppLeaves(a)
  <2>1. /\ app[a] = "attached" /\ app'[a] = "over" /\ CallCleanup(t, c)
        /\ \A b \in Apps \ {a} : app'[b] = app[b]
        /\ appWs'[c] = (IF appWs[c] = a THEN None ELSE appWs[c])
        /\ \A d \in Calls \ {c} : appWs'[d] = appWs[d]
        /\ UNCHANGED <<calls, start, stream, phone>>
    BY <1>1, <1>4 DEF AppLeaves, LifecycleTypeOK
  <2>2. PICK i \in Starts : CallId[i] = c /\ start[i] \in Begun
    BY <1>2, <2>1 DEF CallOK, Owned, Nothing
  <2>3. StartOK(i, c) /\ start[i] # "dialing"
    BY <2>1, <2>2, BegunOK DEF Dialing
  <2>4. Caller(t, i, c)
    BY <1>1, <2>1, <2>2, <2>3 DEF Caller
  <2>5. Sockets(c)'
    <3>1. appWs[c] \in Apps \cup {None} /\ Sockets(c)
      BY <1>1, <1>2 DEF LifecycleTypeOK
    <3>2. QED BY <2>1, <3>1 DEF Sockets
  <2>6. QED BY <1>1, <2>1, <2>2, <2>3, <2>4, <2>5, CallCleanupKeeps
<1>5. QED BY <1>3, <1>4 DEF AppStep

(* The invariant is inductive.                                             *)
LEMMA NextKeepsCalls ==
  ASSUME Once, LifecycleTypeOK, CallsInv, [Next]_vars
  PROVE  CallsInv'
<1>1. ASSUME UNCHANGED <<capVars, calls, sessions, routers, listeners, appWs, locks,
                         cleanupVars, start, stream, app, phone, live, persisted>>
      PROVE  CallsInv'
  <2>1. \A d \in Calls : SameCall(d)
    BY <1>1 DEF SameCall, capVars, cleanupVars
  <2>2. QED BY <2>1, SameKeepsCall DEF CallsInv
<1>2. ASSUME NEW m \in Monitors, MonitorStep(m) PROVE CallsInv'
  BY <1>1, <1>2 DEF MonitorStep, MonitorConnects, MonitorAttaches, MonitorLeaves,
                    MonitorDropped, registries, handlers
<1>3. CASE UNCHANGED vars
  BY <1>1, <1>3 DEF vars, registries, handlers
<1>4. ASSUME NEW i \in Starts, StartStep(i) PROVE CallsInv'
  BY <1>4, BeginKeeps, ConnectedKeeps, DialedKeeps DEF StartStep
<1>5. QED
  BY <1>2, <1>3, <1>4, CleanupStepKeeps, TwilioStepKeeps, EndCallKeeps, AppStepKeeps
     DEF Next

(* It holds at the start.                                                  *)
LEMMA CallsStart == Init => CallsInv
<1>1. ASSUME Init, NEW c \in Calls PROVE CallOK(c)
  <2>1. /\ calls[c] = None /\ sessions[c] = None /\ routers[c] = None /\ listeners[c] = None
        /\ appWs[c] = None /\ locks[c] = None /\ live = {}
        /\ \A t \in OfCall(c) : stage[t] = "none" /\ lock[t] = None
        /\ \A i \in Starts : start[i] = "idle" /\ stream[i] = "none" /\ phone[i] = "none"
        /\ \A a \in Apps : app[a] = "idle"
    BY <1>1 DEF Init, OfCall
  <2>2. ~Owned(c) /\ Nothing(c) /\ Sockets(c) /\ LocksOwn(c)
    BY <2>1 DEF Owned, Nothing, Sockets, LocksOwn, Begun
  <2>3. ASSUME NEW i \in Starts, CallId[i] = c PROVE StartOK(i, c)
    <3>1. HoldsOwn(i, c) /\ Dialing(i, c) /\ Progress(i, c) /\ Left(i, c)
      BY <2>1, <2>3, TasksOf DEF HoldsOwn, Dialing, Progress, Left, Answered
    <3>2. \A t \in OfCall(c) : TaskOK(i, c, t)
      BY <2>1, CleanupStages DEF TaskOK
    <3>3. QED BY <3>1, <3>2 DEF StartOK
  <2>4. QED BY <2>2, <2>3 DEF CallOK
<1>2. QED BY <1>1 DEF CallsInv

(* At rest nobody is left to take anything down, so nothing is left.       *)
LEMMA RestMeans ==
  ASSUME SlotInv, CallsInv, NEW c \in Calls, AtRest(c)
  PROVE  /\ calls[c] = None /\ sessions[c] = None /\ routers[c] = None
         /\ listeners[c] = None /\ appWs[c] = None
         /\ c \notin reserved \cup active
<1>1. CallOK(c) /\ Sockets(c)
  BY DEF CallsInv, CallOK
<1>2. /\ \A t \in OfCall(c) : stage[t] \in {"none", "done"}
      /\ \A i \in Starts :
           CallId[i] = c => /\ stream[i] # "running" /\ phone[i] # "live"
                            /\ phone[i] = "over" => stage[StatusOf(i)] = "done"
                            /\ start[i] \notin {"connecting", "dialing"}
      /\ \A a \in Apps : CallId[a] = c => app[a] \notin {"accepting", "attached"}
      /\ ~Starting(c)
  BY DEF AtRest, Starting, OfCall, StatusOf
<1>3. appWs[c] = None
  BY <1>1, <1>2 DEF Sockets, SlotInv, LifecycleTypeOK
<1>4. calls[c] = None /\ sessions[c] = None /\ routers[c] = None /\ listeners[c] = None
  <2>1. CASE ~Owned(c)
    BY <1>1, <2>1 DEF CallOK, Nothing
  <2>2. CASE Owned(c)
    <3>1. PICK i \in Starts : CallId[i] = c /\ start[i] \in Begun
      BY <2>2 DEF Owned
    <3>2. HoldsOwn(i, c) /\ Progress(i, c) /\ Left(i, c) /\ StreamOf(i) \in OfCall(c)
      BY <3>1, BegunOK, TasksOf
    <3>3. start[i] \in Answered /\ phone[i] \in {"none", "live", "over"}
      BY <1>2, <3>1 DEF Begun, Answered, SlotInv, LifecycleTypeOK
    <3>4. \A t \in OfCall(c) : stage[t] \notin InCleanup \cup {"queued"}
      BY <1>2, CleanupStages
    <3>5. calls[c] # i
      BY <1>2, <3>1, <3>2, <3>3, <3>4, TasksOf DEF Progress, Left
    <3>6. sessions[c] # i
      BY <3>2, <3>3, <3>4, <3>5 DEF Left
    <3>7. routers[c] # i /\ listeners[c] # i
      BY <1>2, <3>1, <3>2, <3>4, CleanupStages DEF Left
    <3>8. QED BY <3>2, <3>5, <3>6, <3>7 DEF HoldsOwn
  <2>3. QED BY <2>1, <2>2
<1>5. QED BY <1>2, <1>3, <1>4 DEF SlotInv, NoSlotLeak

(* The invariant says what the run checks.                                 *)
LEMMA AccountedFor == SlotInv /\ CallsInv => NothingUnaccounted
<1>. SUFFICES ASSUME SlotInv, CallsInv PROVE NothingUnaccounted
  OBVIOUS
<1>1. LifecycleTypeOK
  BY DEF SlotInv
<1>2. RegisteredIsCounted
  <2>1. ASSUME NEW c \in Calls, calls[c] # None PROVE Cleaning(c) \/ c \in active
    <3>1. PICK i \in Starts : CallId[i] = c /\ start[i] \in Begun
      BY <2>1 DEF CallsInv, CallOK, Owned, Nothing
    <3>2. HoldsOwn(i, c) /\ Left(i, c)
      BY <3>1, BegunOK
    <3>3. QED BY <2>1, <3>2 DEF HoldsOwn, Left, Cleaning, OfCall
  <2>2. QED BY <2>1 DEF RegisteredIsCounted
<1>3. NoLostResource
  BY BegunOK DEF NoLostResource, HoldsOwn
<1>4. NothingLeftAtRest
  BY RestMeans DEF NothingLeftAtRest
<1>5. OneTeardownAtATime
  <2>1. ASSUME NEW t \in Task, NEW u \in Task, stage[t] \in InCleanup, stage[u] \in InCleanup,
               Of(t) = Of(u)
        PROVE  t = u
    <3>1. Of(t) \in Calls /\ t \in OfCall(Of(t)) /\ u \in OfCall(Of(t))
      BY <2>1, OfIsCall DEF OfCall
    <3>2. CallOK(Of(t))
      BY <3>1 DEF CallsInv
    <3>3. PICK i \in Starts : Of(t) = CallId[i] /\ start[i] \in Begun /\ StartOK(i, Of(t))
      BY <2>1, <3>1, <3>2, Busy, CleanupStages
    <3>4. QED BY <2>1, <3>1, <3>3 DEF StartOK, TaskOK
  <2>2. QED BY <2>1 DEF OneTeardownAtATime
<1>6. NoCallOutlivesItsPhone
  BY BegunOK DEF NoCallOutlivesItsPhone, Left, StatusOf, Cleaning, OfCall
<1>7. StartedIsPersisted
  BY BegunOK DEF StartedIsPersisted, Left
<1>8. QED BY <1>1, <1>2, <1>3, <1>4, <1>5, <1>6, <1>7 DEF NothingUnaccounted

(* What a call holds is found, counted, taken down by one task at a time,  *)
(* and gone at rest, and no call outlives its phone or misses the database *)
(* (cleanup_call against the start request, the status callback, the media *)
(* stream, the sockets and the end requests of any number of calls), when  *)
(* no two start requests carry the same call id.                           *)
THEOREM CallsAreAccounted == ASSUME Once PROVE Spec => []NothingUnaccounted
<1>. DEFINE I == SlotInv /\ CallsInv
<1>1. Init => I
  <2>1. Init => LifecycleTypeOK
    BY DEF Init, LifecycleTypeOK, CapInit, CapTypeOK, Stages
  <2>2. Init => NoSlotLeak
    BY DEF Init, CapInit, NoSlotLeak
  <2>3. QED BY <2>1, <2>2, CallsStart DEF SlotInv
<1>2. I /\ [Next]_vars => I'
  <2>1. ASSUME SlotInv, CallsInv, [Next]_vars PROVE SlotInv' /\ CallsInv'
    BY <2>1, NextType, NextKeepsSlots, NextKeepsCalls DEF SlotInv
  <2>2. QED BY <2>1
<1>3. I => NothingUnaccounted
  BY AccountedFor
<1>4. QED BY <1>1, <1>2, <1>3, PTL DEF Spec
=============================================================================
