# WIGVO: a formal model

WIGVO is a telephone interpreter. A user plans a call in a chat, speaks or types in a web
page or a phone app, and a relay dials the recipient through Twilio, or takes a call that
comes in, and lets two OpenAI Realtime sessions translate: Session A speaks the user's
words to the recipient, Session B the recipient's words to the user. An observer may
follow a call, and agents pick up callers from a queue. This directory holds TLA+ models
of the web app (`src/apps/web`, TypeScript), the phone app (`src/apps/mobile`, TypeScript)
and the relay (`src/apps/relay-server`, Python), the TLC runs that check them and TLAPS
proofs about them.

Paths without a directory are relative to `src/apps/web/` in what is said of the web app,
to `src/apps/mobile/` of the phone app, to `src/apps/relay-server/src/` of the relay.

Contents: 1 the system and its components; 2 the modules and how they correspond to the
code; 3 the runs, their bounds and what they show; 4 fairness; 5 the proofs; 6 what is
only model-checked, abstracted or not modelled; 7 where the code departs from what one
would expect; 8 the plan.

## 1. The system

### Clients

| Component | Source | State it keeps | Operations | What is hard | What makes it correct |
|---|---|---|---|---|---|
| Relay socket | `hooks/useRelayWebSocket.ts`, a near copy in the phone app | one WebSocket, retry count, generation, two timers | connect, credentials, open, close, retry, stable, disconnect, url change | credentials are awaited while the call ends or the url changes; the retry budget | one live socket, none after the end, every attempt decided, attempts returned only to a link that stayed up |
| Microphone and VAD | `hooks/useClientVad.ts`, `useWebAudioRecorder.ts`, `lib/audio/*` | recorder, VAD state, pre-buffer | start, stop, chunk, commit, reset | `getUserMedia` is awaited while mute is pressed; late resets | a caller who is not muted is heard, a commit is followed by a reset |
| Player | `lib/audio/web-player.ts` | queue, source, playing flag | play, stop, clear, ended, resume | late `ended` events, suspended context | audio that waits is played |
| Realtime call | `hooks/useRelayCall.ts`, `components/call/*`, `app/call`, `app/inbound/[callId]` | status, captions and stream, delayed disconnects | start, end, mute, messages, fetch of the record | 300/500 ms disconnects against reconnects, pages that unmount under them | captions under the right speaker, an ended call lets go |
| Chat and call creation | `hooks/useChat.ts`, `components/chat/*`, `app/api/chat`, `app/api/conversations`, `app/api/calls`, `lib/services`, `lib/db` | conversation and call rows, localStorage, a hook per tab | select, send, confirm, edit, reset, resume; the routes | several tabs and requests on one row, read before an LLM call and written after, answers to components that are gone | one call per readiness, answers land where they were asked, an ended call stays ended |
| Monitor | `hooks/useRelayMonitor.ts`, `useMonitorStore.ts`, `components/monitor/*`, `app/monitor*` | bubbles, open turns, lights, log, a link | captions, turn ends, status, error, polls | deltas and late originals, updaters run when React likes and write refs | each caption shown once, an ended call is left |
| History, result, waiting page | `ConversationHistoryPanel.tsx`, `app/history`, `app/result`, `app/calling`, `hooks/useCallPolling.ts` | list, selection, fetches | load, select, redirect | answers of an earlier selection, timers of pages that were left | an error belongs to the selection, no spinner without a request |
| Inbound desk | `app/inbound/page.tsx`, `app/api/inbound/*` | queue shown, overlapping polls, a pickup | poll, refresh, pick up | polls answered out of order, pickups of a page that was left | as above |
| Router, session, sign-in | `lib/supabase/middleware.ts`, `lib/auth/*`, `app/login`, `app/signup`, `app/auth/callback` | cookie, users row, form | sign in and up, OAuth, sign out, guard | sessions end between any two requests | part of the pages' properties |
| Phone: audio | `hooks/useAudioRecorder.ts`, `useAudioPlayback.ts`, `useClientVad.ts`, `lib/vad` | recording, interval, queue of sounds | start, stop, piece, enqueue, sound ends, stop | every step is an await, nothing is serialised | no sound waits at a player at rest |
| Phone: call and sign-in | `hooks/useRealtimeCall.ts`, `components/call/*`, `app/*`, `lib/AuthContext.tsx` | screen stack, requests, view, socket | sign in, start, end, modes, text | answers that reach another screen, End against a token that is awaited | a left call has no link |
| Prompts, scenarios, demo, metrics page, presentation | `lib/prompts*`, `lib/scenarios`, `lib/demo`, `app/metrics`, UI | none shared | rendering | nothing concurrent | not modelled |

### Relay

| Component | Source | State it keeps | Operations | What is hard | What makes it correct |
|---|---|---|---|---|---|
| Capacity manager | `capacity_manager.py` | `_reserved`, `_active`, one lock | reserve, commit, release, finish | several starts race for the last slot; every failure returns the reservation | the cap, one slot per call, no slot lost |
| Outbound calls, central cleanup | `call_manager.py`, `routes/calls.py`, `routes/twilio_webhook.py`, `routes/stream.py`, `twilio/outbound.py` | registries of calls, sessions, routers, tasks, sockets, a lock per call | start, end, media stream, status callback, app and monitor sockets, `cleanup_call`, `shutdown_all` | five triggers of one cleanup that awaits between its steps; callbacks before or after what they refer to | one teardown at a time, nothing left behind, each started call persisted, its slot returned |
| Inbound dispatch | `inbound/service.py`, `repository.py`, `models.py` | a row per call in Postgres, deadlines, known calls | create, claim, start, answer, reject, release, time out, finish, recover | agents, sweeper, deadlines, hang-ups and a restart write one row | exactly one agent, allowed transitions only, no bridged call unwatched |
| Inbound media | `inbound/media.py` | pending streams, hand-off | attach, wait, bootstrap, hand off, close | hang-up during bootstrap or hand-off | sessions and slots come down with the call |
| Session recovery | `realtime/recovery.py` | recovering, degraded, attempt, two tasks | error, heartbeat, reconnect, catch up, degrade, stop | three triggers, two listen tasks on one object | one recovery, none forgotten, no connection leaked |
| Realtime and dual session | `realtime/sessions/session_manager.py` | websocket, `_closed` | connect with retries, listen, send, close | gather with one failure, cancellation | nothing open after cancellation or end; after a failure at most what section 7 says |
| Ring buffer, audio path through a loss | `realtime/ring_buffer.py`, `realtime/pipeline/*` | slots, two sequence numbers | write, mark_sent, get_unsent | wrap-around, chunks in flight across a recovery | the unsent tail, nothing counted as sent unheard but in the ways section 3 shows |
| Session A | `realtime/sessions/session_a.py`, `realtime/first_message.py` | generating, expected, transcript, guardrail level | text, commit, cancel, server events | flags without response ids, events in flight after a cancel | blocked text is silent, waiters are let through |
| Echo gate, interrupts, local VAD, part of Session B | `realtime/pipeline/echo_gate.py`, `interrupt_handler.py`, `local_vad.py`, `sessions/session_b.py` | window, cooldown, watchdog, speaking state three times | filter, activate, settle, interrupt, speech | timers against events | Session A's voice is masked, the mask ends |
| Guardrail, agent tools, codecs, auth, prompts, observability, DB client | `guardrail/`, `tools/`, `twilio/`, `auth.py`, `prompt/`, `observability/`, `db/` | little or none | pure functions, I/O | nothing concurrent | not modelled |
| Evaluation, deployment, migrations | `src/scripts`, `src/deploy` | none at run time | batch | nothing | not modelled |

### How they interact

* The chat collects what a call needs. Its card asks `POST /api/calls` for a row, which
  claims the conversation (`READY` to `CALLING`), then `POST /api/calls/[id]/start`, which
  claims the row and asks the relay. The relay writes the call's end over the same rows,
  whatever they say by then.
* A page with the call's record opens the relay socket; the relay's messages drive
  captions, player and status, the VAD's chunks go back, and the call's end is learnt from
  a message, from the record, or by pressing End.
* The desk asks the relay for a waiting caller; its call page uses a pickup token for the
  first connection. The monitor opens a read-only socket to a running call.
* At the relay, `routes/calls.py` reserves a slot, connects the dual session, dials,
  commits the slot and registers the call. Twilio opens the media stream and reports the
  end when it likes, also before `start_call` has registered it. Everything that ends a
  call calls `cleanup_call` (lock, status, hang-up, sockets, router, listen task, session,
  slot, persist, finish hook). An inbound caller's stream waits until a pickup has claimed
  the row, bootstrapped the sessions and handed the stream over.
* A call's router owns a pipeline between app socket, media stream, two listen tasks and
  timers, with a recovery manager and a ring buffer for each session.

## 2. The modules

| Module | Models | Composed of |
|---|---|---|
| `RelayLink` | what a reconnecting link promises: the abstract specification | |
| `RelaySocket` | `useRelayWebSocket` | implements `RelayLink` |
| `Microphone`, `WebPlayer` | recorder with VAD; audio player | |
| `WebCall` | one call in the browser: pages, `useRelayCall`, captions, audio | extends the three above; `MCWebCall` |
| `ChatTurn` | one turn of the chat as functions on data | |
| `Chat` | tabs, routes and rows from first message to the call's end | extends `ChatTurn`; `MCChat` |
| `Router` | session, middleware, forms, API guard | |
| `MonitorStore`, `MonitorCaptions` | lights, log and panels; pairing into bubbles | |
| `Monitor` | list of calls, live and replayed call | extends `Router`, `RelayLink` and the two above |
| `Records`, `Desk` | history, waiting and result page; the agent's queue | extend `Router` |
| `Pages` | these pages under one router | extends `Monitor`, `Records`, `Desk`; `MCPages` |
| `MobileAudio` | the phone's recorder, VAD and player | |
| `MobileCall` | the phone app | extends `MobileAudio`, instantiates `RelaySocket`; `MCMobile` |
| `CapacityManager` | slots: the abstract specification | |
| `CallLifecycle` | outbound calls and `cleanup_call` | extends `CapacityManager`; `MCCallLifecycle` |
| `DispatchRow` | what the dispatch table promises | |
| `InboundDispatch` | inbound dispatch and media | extends `CapacityManager`, instantiates `DispatchRow`; `MCInboundDispatch` |
| `DualSession`, `SessionRecovery` | connect and close of the two sessions; one session with its recovery | `MCSessions` puts them one after the other |
| `AudioRingBuffer`, `RecipientAudio` | ring buffer; audio path through losses | the second extends the first |
| `SessionA`, `EchoGate`, `VoiceToVoice` | Session A with OpenAI behind it; echo gate; the pipeline around both | `VoiceToVoice` extends the two |
| `*Proofs` | theorems | each extends the module it is about |

**Granularity.** JavaScript and asyncio run one handler at a time: an action is the code
between two awaits that suspend, with every call it makes that changes state. In React, a
click or message with the renders and effects it triggers is one step, except where an
effect sets a timer or React may run an updater later; those are steps of their own. The
routes run statement by statement, since the database is shared. Operators named in a
comment `Fault:` stand beside the definition they distort; no specification uses them.
They are what a plausible bug there would look like, and every property of a passing run
fails when one of them takes the place of the definition.

### Web

**`RelaySocket`**: the record `sock` holds the hook's refs and state. `ws` is `wsRef`,
`orphan` says that a socket lives that `wsRef` no longer holds. The generation counter is
modelled by what it decides: `asking` is the attempt of the current generation that awaits
credentials, `stale` counts those of earlier ones. Every function of the hook is an
operator from record to record (`Cleaned`, `ConnectStarted`, `SocketClosed`, ...), which
lets the phone app's copy use the same operators and differ where it differs.

**`Microphone`, `WebPlayer`**: records with operators in the same style. `starting` counts
`getUserMedia` calls in flight, `leaked` says that a recorder runs which nothing holds,
`refused` that the last start failed, `userSpeaking` is the ref of `useRelayCall` that
decides whether speech stops the player. The player distinguishes the current source, one
superseded while sounding (`earlier`) and one that was stopped and will still report
(`stale`).

**`WebCall`**: `page` is the owner of the call (`host`: dashboard, `/call`,
`/inbound/[callId]`) with its fetches; `call` the state of `useRelayCall`; `late` counts
the 300 and 500 ms disconnect timers that are never cancelled; `captions` with `streaming`
(`streamingRef`); `relay` the phase of the call at the relay. `Torn` is an unmount. What a
page offers (`Controls`) is computed from what its layout renders.

**`ChatTurn`**: what a text says (`extractDataFromMessage`), what the model's reply says
(`parseAssistantResponse`), the branch without model (`IsDirect`), the merge, the
readiness. **`Chat`**: a request is a record that moves through the stages of its handler;
`link` says what is left of its caller: `live`, `stale` (component gone, page there) or
`dead`. `readied` counts how often a conversation was declared ready.

**`Router`**: `goto` is where `router.push` was told to go; the page stays until the
middleware admits the next (`Navigates` in `Pages`). **`Monitor`**: `talk` is the call
seen from outside, against which the bubbles are compared: a turn's translation is heard
in up to `MaxDeltas` pieces, as `session_a.py:255-283` sends them, its original as one,
and pieces said while the link is down are never heard. `queue` of the captions are
updaters React has not run yet. **`Records`**: a fetch of the history panel has the stages
`sent`, `body`, `calls`, `callsBody`; `live` is the negation of its effect's `cancelled`.
**`Desk`**: polls are sent, served and answered separately, so they overlap. **`Pages`**:
one page is mounted at a time; a poll, timer or pickup of a page that was left acts on
whatever is on the screen.

### Phone app

**`MobileAudio`**: recorder tasks (`start`, `piece`, `final`) each with the await they are
in; `ref` is `recordingRef`, `open` the device's one recording, `lost` an interval whose
handle was overwritten. The player counts sounds being written, created, stopped and
astray. **`MobileCall`**: `app` is the screen stack, the session and the requests in
flight (whose answers act on whatever screen is there), `view` the call's screen.

### Relay

**`CapacityManager`**: `reserved` and `active` are the two sets; `ReturnSlot` is the pair
that `cleanup_call` calls. **`CallLifecycle`**: the registries are functions from call
ids; `stage`, `lock`, `seen` say where a task is inside `cleanup_call` (`CallCleanup`,
`GetLock`, `StatusWritten`, `HangUpDone`, `TakenDown`, `Persisted`). `live` holds what
really runs, which the registries are compared with. **`InboundDispatch`**: `row` and
`claimant` are the table, the rest is memory that `Restart` loses. `pick` is where each
pickup is, `todo` the rest of a task's cleanup, `initial` and `grace` the deadlines.
**`SessionRecovery`**: `ws`, `closed`, `open` are `self.ws`, `self._closed` and the
sockets really open. **`DualSession`**: two `connect()` with retries under `gather()`.
`orphans` remembers the connects that were still to open when `gather()` raised.
**`RecipientAudio`**: one chunk at a time is written, held, filtered, sent or collected
for Whisper (`degradedBuffer`, three seconds; `whispering`, the batch whose text the
handler awaits); every request to Whisper may fail. Sets record each chunk's fate,
`wasted` those of a failed catch-up. **`SessionA`**: the server handles a command when it
is sent, its events are read later, in order; ids are the server's and serve the
properties only. **`EchoGate`** gives each operation as a formula; **`VoiceToVoice`** says
when they happen.

## 3. The runs

Every passing run explores its whole (bounded) state space. `CHECK_DEADLOCK FALSE`
throughout: a call ends, and then nothing has to happen any more.

| Run | Bounds | Question |
|---|---|---|
| `WebCall_main` | one address, one reconnect, one superseded attempt, two microphone starts, one late disconnect; two captions in text calls, a queue of one in agent calls | one live socket, captions, microphone, playback, and what an ended call lets go of |
| `Chat_main` | two tabs, one conversation, two calls, two requests in flight, three messages, one failure, two page loads | what tabs and rows may say of each other |
| `Pages_main` | one session end, one retry of the link, one turn of each voice, four pieces and one message of noise, two deltas a turn, two conversations, three selections, one caller, two polls, one pickup | late answers, endless spinners, captions, a call that is gone |
| `Mobile_main` | two recorder tasks, two sounds, one reconnect, one superseded attempt, a queue of one, one request | links and player of the phone app |
| `CallLifecycle_one` | one start, one end request, two app sockets, a monitor | what every interleaving of the cleanup's triggers leaves behind |
| `InboundDispatch_one` | one call, two agents, two sockets, one restart | one agent, watched calls, deadlines, the row's refinement, abandoned calls end |
| `InboundDispatch_queue` | two callers, room for one, statements may raise, one cleanup at a time, up to the second caller's session | the queue's bound; what comes down |
| `Sessions_main` | two sessions with two retries each; then three sockets and listen tasks, two recovery tasks, two attempts, three upsets | connect settles and what it leaves open; recovery |
| `RecipientAudio_main` | a buffer of three, six chunks, two losses | the unsent tail, no audio forgotten |
| `VoiceToVoice_main` | two requests (greeting included), one fault of OpenAI, one speech, one audio event in flight | blocked speech is silent, the voice is masked, mutes end |
| `Chat_recent` | one tab, the code's own limits of 20 and 10, 24 messages | **violated**: the model sees the message just sent |
| `RecipientAudio_late` | as `RecipientAudio_main` | **violated**: what comes during a catch-up is transcribed |

**Why the bounds suffice.** The races are between the handlers of one call, page or
conversation, so one of each with every kind of handler, and two of those that exist
several times, show them. A superseded attempt is one that awaits credentials while a
newer one exists: one of each. Two tabs and two requests are the smallest contest for a
conversation, two calls the smallest sign that it was called twice. One turn of each voice
after the announcement, an original and two deltas of a translation each, of which four
pieces are heard, gives the orders in which pieces, turns and renders overtake one
another; a second conversation is what a late answer can be mistaken for; two polls are
what can be answered in the wrong order. Two tasks of the recorder are a stop or start
against a piece, or two pieces. `CaptionsAlone` watches a call past its second piece only
while no other page has anything under way and the session has not ended: captions and
link on the one hand, late answers of other pages on the other meet no variable of each
other. Names of dead sockets, tasks and requests are used again, so that a bound limits
what exists at once, not what happens. For the relay: slots and the queue are what calls
share, for which two calls and room for one are the smallest contest; two reconnects fit
within three sockets, and `Monitored` starts the recovery from sessions connected at the
first attempt, since nothing else of a connect is left by then; a buffer of three with six
chunks wraps twice; one response that OpenAI begins or speaks wrongly, next to two that
were asked for, is what it takes to confuse flags shared by all responses. `OneCleanup`
bounds the queue run to one cleanup in progress, since `InboundDispatch_one` races them;
`OneSession` stops it once both callers have been given a session, when neither queue nor
slots are contested any more. `MCModes` follows captions in text calls, playback in agent
calls and the microphone in voice calls, since what the run checks relates none of the
three to another (the flag that would relate speech to the player is one of section 7);
`CaptionsAtRest` and `OneCrowd` of `Mobile_main` do the same for captions against audio
and recorder against player. The proofs of section 5 need none of these bounds.

**What they show.**

* *Web call.* `OneLiveSocket`: no superseded attempt opens a socket, neither a second one
  nor one after the disconnect. `LinkIsWorkedOn`: connecting means that something is under
  way. `RefinesLink`: the socket implements `RelayLink`. `StreamIsLast`: a caption delta
  never lands under another speaker or stage. `EnabledIsHeard`: a caller who is not muted
  has a recorder that `stop()` can reach, one being started, or was refused the
  microphone, and a committed VAD is about to be reset. `QueuedIsPlayed`. `EndedLetsGo`,
  `ConnectingEnds`: an ended call gives its address up, an attempt ends.
* *Chat.* `EveryCallSpentAReady`: a conversation has no more calls than it was declared
  ready for, however many tabs confirm. `NoForeignAnswer`: an answer is shown in the
  conversation it was sent in. `FinishedStaysFinished`: the late answer of the relay to a
  start does not revive an ended call. `LoadingEnds`.
* *Pages.* `NoCaptionIsLost`: each caption heard, delta by delta, stands in exactly one
  bubble or waits once in the queue. `GoneCallIsLeft`. `ErrorIsOfSelection`.
  `NoEndlessSpinner`: what the history panel and page, the result page, the list of live
  calls and the desk show as loading has a request that will end it, and the list polls in
  one loop. The spinner of `/calling` after a server error (section 7) and the "loading"
  of a watched call are not part of it.
* *Phone app.* `LeftCallHasNoLink`; `QueueIsWorked`.
* *Slots and teardown.* `NoSlotLeak`: a slot in use belongs to a registered call or to a
  start or cleanup that will give it back. `SlotComesBack`. `RefinesCapacity`.
  `NothingUnaccounted` joins the named parts `LifecycleTypeOK`, `RegisteredIsCounted`,
  `NoLostResource` (what runs can be found), `NothingLeftAtRest`, `OneTeardownAtATime`,
  `NoCallOutlivesItsPhone` (a status callback that overtakes the answer of `calls.create`
  leaves no registered call) and `StartedIsPersisted`.
* *Inbound.* `OneAgentPerCall` (with `StarterHoldsClaim`) for pickups against an expiring
  claim; `CallIsWatched` (with `GoneCallerIsFinished`); `DeadlineDecides`; `QueueBound`
  and `CapacityBound`; `InboundLeavesNothing` with failing statements; `AbandonedEnds` (a
  gone caller's row, a session without agent); `RefinesRow`.
* *Sessions.* `OneRecoveryWorks`; `LossIsHandled`, with `ConnectionIsHeard`
  (`OpenSocketIsOurs`, `HealthyIsHeard`) on the way. `ConnectSettles`: `connect()` ends;
  cancelled or ended it leaves nothing open (`EndedLeavesNothing`), failed at most the
  websocket of the connect that had still to open it (`FailedLeavesOrphans`).
* *Audio and voice.* `UnsentIsTheTail`: `get_unsent` returns the newest unsent chunks that
  are left (as a set; their order is the sort at its end). `NoAudioIsForgotten`: a chunk
  the buffer still has counts as sent only if the session got it, Whisper answered for it
  or it was filtered, save a failed transcription, a chunk that arrives during one and a
  session marked closed; audio of degraded mode is no exception, and the user's is handed
  to Whisper or waits for the batch. `BlockedIsSilent`: no audio of a response is heard
  once its text was rated Level 3; `StreamingIsMasked`: no timer of an earlier response
  opens the echo gate under one being spoken; `MutesEnd`.

**The violations.** Each states what a document or a comment says and the code does not
do.

* `LlmSeesTheMessage` (`lib/constants.ts:11`, the recent messages are the model's
  context): `lib/db/chat.ts:123` reads the history oldest first with a limit of 20 and the
  route keeps the last 10 of those, so from the 21st message on the model is shown
  messages 11 to 20 for ever, and never the message it is asked to answer.
* `LateIsTranscribed` (`README.md:185` of the repository: undelivered audio is retained
  and transcribed on reconnect): `recovery.py:373` marks everything received by then as
  sent, also what arrived while Whisper was asked about the rest.

The divergences without a run of their own are listed in section 7.

## 4. Fairness

Weak fairness of a task's next step: the event loop runs what is ready, awaited replies
come or time out, timers expire. Users, callers, agents, phone calls and faults get none.

* `WebCall`: the disconnect timers, the automatic and the repeated connect, credentials
  and the handshake, each answered one way or the other.
* `Chat`: the handler of a request and the return of its answer. Tabs, user and the
  relay's end of the call owe nothing.
* `Pages`, `MobileCall`, `RecipientAudio`: safety only, no fairness.
* `CallLifecycle`: cleanups, start requests, Twilio's callbacks (it retries and reports
  each call's end) and the handlers of ended calls. A socket the call no longer refers to
  leaves.
* `InboundDispatch`: cleanups, sweeper, deadlines and pickups in progress, and strong
  fairness of one step: a pickup that holds a claim is not overtaken by the sweeper for
  ever.
* `MCSessions`: attempts to connect time out, the manager's awaits return; all tasks of
  the recovery go on, and closed sockets wake their reader.
* `VoiceToVoice`: the listen task, requests that were begun, the timers, and OpenAI, which
  ends every response it began (it reports `response.done` also of a cancelled one);
  neither user nor recipient.

## 5. The proofs

`tlapm` proves for every value of the constants, from the modules' named assumptions:

* `WebCallProofs!SocketIsSingle`, `LinkNeverHangs`, `SocketRefinesLink`: the socket alone.
  `OneLiveSocket` is not inductive: that a second socket is never made needs that
  credentials, a socket and a retry timer exclude one another, and that nothing is under
  way after an intentional disconnect. `Sound` says so of a record, `SocketInv` adds the
  type; each operator of the hook is proved to keep it by a lemma of its own.
* `WebCallProofs!CallHasOneSocket`, `CallLinkNeverHangs`, `CallRefinesLink`: the same of
  the whole call. Every action of `WebCall` is shown to be a step of the socket, a step of
  its owner (url, disconnect, unmount) or a stutter, so the theorems carry over.
* `WebCallProofs!CallerIsHeard`, `AudioIsPlayed`, `DeltaContinuesItsCaption`: microphone,
  player and captions, each by an invariant of the operators on its record. For the
  microphone, the switch is that of the recorder's effect: `MicInv` ties what is held,
  started or refused to the page, the call and the socket that enable it. For the player:
  while it is marked as playing there is a source, an awaited event or an awaited resume.
  For the captions: the stream's speaker and stage are those of the last entry.
* `MobileProofs!LeftCallIsSilent`, `WaitingAudioIsTaken`: for any number of tasks, sounds,
  requests and attempts. `LinkInv`: of credentials, socket and timer there is one at most,
  and none unless the call's screen is there and was not ended. `PlayerInv`: a queue that
  is not empty has the mark set.
* `CapacityManagerProofs!CapacityBoundHolds`: reserved plus active never exceeds the
  maximum. Commit moves a slot between the sets, so `CapInv` adds that they are finite and
  disjoint.
* `CallLifecycleProofs!RelayRefinesCapacity`: every step of every handler is a step of the
  capacity manager or leaves the slots alone. Hence `RelayCapacityBound`, with any number
  of calls and any reuse of ids. `LifecycleTypeCorrect`, `RelayLosesNoSlot`: a slot always
  has somebody who gives it back. `CallId` is arbitrary, so overlapping uses of one id are
  included.
* `AudioProofs!RecoveryIsOne` (from `RecoveryTypeCorrect`, `RecoveryIsSingle`,
  `RecoveryIsNotForgotten`): one task at a time works on a recovery, and while the call
  lasts a session marked as recovering has one. `WorkInv`: nobody is at work unless
  `_recovering` is set, the workers exclude each other pair by pair, and until the end the
  mark implies a worker. A step leaves the workers alone, starts the first, hands the work
  on, ends it with the mark, or happens after the end; one lemma for each.
* `AudioProofs!ConnectionsAreHeard`, the safety part of `LossIsHandled`, builds on it.
  `SocketInv`: while a recovery closes or connects, no socket is open, and it is the only
  one that does. `HeardInv`: whether or not the mark is set, an open connection that is
  not marked closed has a reader, a listen task that will begin, or the recovery that will
  create one; a reader that stops marks the session closed, which is why the listen task
  of an old connection, coming late, costs a recovery but never leaves a connection
  unread.
* `InboundProofs!RowClaims`: a row in service has a claimant, one in the queue has none.
  `InboundRefinesRow`: every writer keeps to that row, although it acts on a state it read
  earlier. `TodoInv` says why: a cleanup's steps stay in order, and the state it is about
  to overwrite was read as open, so its `WHERE state = ...` decides.
* `InboundProofs!QueueStaysBounded`, `CallHasOneAgent`, `DeadlinesDecide`,
  `InboundCapacityBound`, for any number of calls, agents and apps. `QueueInv`: who has
  counted under the lock is alone and finds room. `AgentInv`: who is answered is the
  claimant of a row CONNECTED or ENDED, and both keep their claimant. `DeadlineInv`: only
  rows that were served have deadlines or apps, an app that is attached has ended the
  first deadline, and the mark of a cleanup belongs to a task that will clear it.
* `ChatProofs!CallsSpendReadies`, `CallsEndOnce`, `AnswersComeHome`, for any number of
  tabs, messages and conversations. `SpendInv`: a conversation in READY has fewer calls
  than readies and one that does not exist has no call, so the claim always finds a ready
  to spend. `WaitInv`: a mounted chat waits for one request at a time and shows the
  conversation it asked about.
* `AudioProofs!SpeakingIsMasked`: while a response is spoken the window is open. Alone it
  is not inductive: a cooldown in progress would close the window. `MaskInv` adds that
  none is, since each chunk cancels it and only `response.done` starts one.
  `HarmIsBlocked`: `response.done` of any response resets the level, so `BlockInv` says
  that events are read in the order of their responses and that a harmful response still
  wanted is the oldest in flight.
* `AudioProofs!RecoveryGetsTheTail`, `LossIsCaughtUp`, for every capacity and any number
  of chunks and losses. `RingInv` says which chunk each slot holds, as a function of the
  write position and the count: the newest of its residue. What is missing and still there
  is then what `get_unsent` walks over. `JumpInv`: the only step that moves `lastSent`
  over chunks it has not seen itself is the end of a catch-up, so each phase of it says up
  to where all is accounted for, the chunk in a handler's hands and the batch in Whisper's
  excepted. The theorem excepts the three losses of section 3 by name (`wasted`, `late`,
  `swallowed`) and nothing else: that a session was degraded excuses no chunk.
* `InboundProofs!InboundCallsAreLetGo`, with statements that raise: what a call holds is
  compared with what its cleanups still have to do. `Owed(c)` is the set of steps left in
  the `todo` sequences of its tasks (`Orderly`: steps follow each other as in the code);
  `CallInv` says of each resource who holds it or which step is owed, and that who
  connects after the stream was closed finds it closed; `TaskInv` that past the teardown
  the session is closed.
* `InboundProofs!CallsAreWatched`, under `~DbFails` (as in `InboundDispatch_one`; with a
  statement that raises it is false, section 7): a call never waits for nobody. `WatchInv`
  says who sees to the end of a row, state by state: its stream or the pending call
  (`Ringing`), the pickup or, once the caller has left, a cleanup (`Started`), the agent's
  socket or a deadline (`Bridged`). `Ending(c)` is a task that will still read the row, or
  has read it as it is; it is kept because nobody else changes a row under a cleanup
  except by ending it. Needed besides: what nobody can have done before the stream opens
  (`Fresh`), which steps a cleanup can be at while the call still has its stream or its
  media (`Waits`, `Served`), one holder of the cleanup lock (`LockedOnce`), and that every
  cleanup that lets go of something goes on to the row (`Reads`).
* `CallLifecycleProofs!CallsAreAccounted`, under `Once`: no two start requests carry one
  call id, which is what the apps do (a fresh id per call). TLC shows that a second start
  on an id breaks the property. `CallsInv` follows each call: nothing is registered before
  its session is up (`Nothing`); until Twilio's answer is in, only the status callback can
  have been there (`Dialing`); what is still registered is still going to be taken down
  (`Left`); and whoever waits for a lock that was dropped finds the call over (`TaskOK`),
  which is why two tasks never take one call down.
* `PagesProofs!CaptionsAreKept`, `EndedCallsAreLeft`, for any number of turns, deltas and
  tries: a render runs all queued updaters at once, a fold. The operators' lemma says what
  one updater does (`PairingPuts`: one piece into one bubble of its voice); a fold is a
  run of steps, and what each step keeps the fold keeps. That needs induction over the
  naturals, which is proved here for sets, from the pigeonhole principle (`LeastElement`,
  `SetInduction`). `CaptionInv`: each piece heard is in one bubble or once in the queue.
* `PagesProofs!ErrorsAreOfSelection`, `SpinnersEnd` (for the pages that section 3 names):
  `WaitInv` says, page by page, which request or timer each flag waits for. A request
  refused for want of a session may leave its spinner alone; `Stuck` is the state in which
  that happens, where the page has to be left for the sign-in.

Assumed of the constants, besides that bounds are naturals: that `None` and `Nobody` name
no start, agent, app, conversation or screen, that call ids are ids, that there is at
least one poll; TLC evaluates each assumption in the runs.

Out of the prover's reach, and left to TLC: liveness under fairness and ENABLED. The
library's induction theorems cannot be instantiated here; the proofs about folds go
through sets of naturals instead. No module here needs a RECURSIVE operator.

## 6. Model-checked only, abstracted, left out

*Only model-checked*: `DualSession` (`ConnectSettles`) and the liveness properties:
`SlotComesBack`, `AbandonedEnds`, what `LossIsHandled` says beside `ConnectionIsHeard`,
`MutesEnd`, `EndedLetsGo`, `ConnectingEnds`, `LoadingEnds`.

*Abstractions common to all.* Time: sleeps, deadlines and timeouts end at any time.
Payloads (audio, texts, tokens) are atoms; RMS values and speech probabilities are
nondeterministic choices.

*Web and phone app.* VAD onset and end delays are a choice at each chunk. Start times of
audio sources are left out. A page's fetch yields the record's relevant status only. A
text says up to four things (name, number, time, being long); collected data is the set of
known fields and the scenario. Supabase is a service that answers; in `Chat` a session
does not expire. `/monitor` and `/monitor2` do the same and one stands for either. A light
of the monitor's pipeline goes out at any time. In the phone app the 0 ms timer that
connects has run before a press; at most `MaxSounds` sounds are astray; after a restart of
the process nothing of it acts.

*Relay.* The exception to free time: the echo gate's watchdog of 5 s is slower than the
events of a response being spoken. Waiters of a lock acquire it in any order.
`shutdown_all` is an end request per call. A phone call gets one terminal status callback.
The close after a failed connect is part of `ConnectFails`. Graceful shutdown is a case of
`Restart`. The sweeper's statement touches one call per step. The webhook is retried until
the stream opens, but not for a call that Twilio has reported over (`reported`). Where
`cleanup_call` finds nothing registered, it, its caller's release and the start of
`finish()` follow without a suspension and are one step (`NothingToClean`). The websockets
library wakes a waiting reader before `close()` returns. In `RecipientAudio` the retries
of a recovery are folded into `ReconnectFails`, Whisper's filters against invented text
count as an answer, the order of the chunks in a batch is left out, audio that the VAD
replaces by silence counts as sent, and `clear()` and `snapshot()`, which nothing calls,
are omitted. In `VoiceToVoice` the settling after a window, the pre-speech buffer and the
energy filter of a user's commit are left out; a cancelled response yields `response.done`
and no further transcript.

*Not modelled, web and phone app*: prompts, scenario tables, the demo mode, the metrics
page (text, constants, drawing, a page of aggregates); level meters, fonts, vibration;
components no page imports (`CallHistoryPanel`, `AgentSidebar`, `InfoPanel`,
`ConversationList`, `MonitorEvents`). They hold no state that two actors share.

*Not modelled, relay*: cancellation of a task inside `cleanup_call`; load-test mode; an
exception of `prepare()` after the row was inserted; hold music and pre-buffer of the
waiting caller; the Server VAD path; text-to-voice and agent pipelines; Session B's
commits and responses; metrics, transcripts; what the inventory lists as not modelled.

*Assumed in runs*: a call id is used by one start at a time (the app generates a fresh id
per call; overlapping uses break `NothingUnaccounted`). `InboundDispatch_one` assumes
statements do not raise: else `CallIsWatched` fails (section 7).

## 7. Known divergences

Met while modelling and present in the models unless noted; those of section 3 have a run.
Each is something to look at, none is claimed to matter equally.

*Web: call.*
* Mute, or anything else that disables the microphone, while `getUserMedia` is pending
  leaves a recorder that runs, as `stop()` only knows one that has started, and is heard
  and sent, although `useRelayCall.ts:298` says that the VAD is active only when not
  muted. A refused microphone is an `error` that no page shows.
* The flag that speech has silenced the player (`useRelayCall.ts:301-312`) is set again by
  a chunk between the commit and the reset 50 ms later (`useClientVad.ts:60-66`) and is
  not cleared by a mute in an utterance (`:81-88`): the next utterance does not stop the
  player.
* Leaving the page closes the socket before the provider's `endCall()` runs, so END_CALL
  is not sent (`RelayCallProvider.tsx:113`, `useRelayCall.ts:349`).
* The 300 and 500 ms disconnect timers are never cancelled and stop whatever runs on the
  socket by then; a status said meanwhile sets an ended call to connected again.
* Mute during speech loses the commit; chunks may be sent after the commit.
* A stopped source's late `ended` starts the next chunk beside the one that sounds, and a
  `resume()` that returns after `stop()` plays.
* The retry count survives a new address. The refetch after "ended" may read a record that
  still says IN_PROGRESS, whereupon call and inbound pages have no button left.
* `useCallPolling` (`hooks/useCallPolling.ts:73-94`) counts failures to three but never
  asks again: one server error leaves `/calling` spinning. Its comment promises a move to
  the result when the call ends, but the page asks once.

*Web: chat.*
* `app/api/chat/route.ts:84` writes READY or COLLECTING over CALLING and COMPLETED, so a
  conversation may be called again while its first call runs, although
  `app/api/calls/route.ts:67-69` says the claim prevents it; `EveryCallSpentAReady` counts
  READYs for that reason.
* Two POSTs of one conversation both read before they write; what the first collected is
  lost. An error after the user's message was stored takes the message off the screen only
  (`useChat.ts:335`).
* An invalid number is refused by the start route after the claim: the call stays PENDING,
  the conversation CALLING. The same when the start fails after the creation.
* A model that says complete without a number yields READY and a card whose call is
  refused. A number typed directly ignores the name typed with it.
* `handleConfirm` opens the call panel through the page's store even when the chat has
  been left for a new one. A start whose answer is lost marks the call FAILED while the
  phone rings.

*Web: pages.*
* History: a body that arrives after a newer selection is shown under it, and takes its
  loading flag; a late call result likewise; "try again" selects what is selected and does
  nothing; a 401 leaves the list loading.
* Monitor: an original that comes late pairs with a newer turn's bubble; the caller's
  first original joins the announcement's bubble and is hidden with it; `done` before the
  render joins the next turn to the last and drops its line, and `done` between two deltas
  splits the turn's caption in two bubbles, the second of which is left open: the next
  turn's `done` then logs a second PASS, although `useRelayMonitor.ts:258` says one turn,
  one PASS; energy drops have no signal in the catalogue of `/monitor2`; a poll answered
  after the list was left may lead to `/login`.
* Desk: a quiet poll erases the error of a pickup within three seconds; polls answered out
  of order show an older queue; a 401 is shown as an error; a pickup whose answer is lost
  leaves a claimed row without a page until the relay's deadline.
* `/signup` cannot be reached without a session (`lib/supabase/middleware.ts:45`); the
  sign-in page does not show the callback's error.

*Phone app.*
* The relay's captions carry `role`; the app reads `speaker` and `isFinal`
  (`lib/types.ts:56`), so each caption takes the place of the one before it.
* `onopen` gives the attempts back at once. The relay accepts and then closes a socket of
  a call it does not know (`routes/stream.py:45-56`), so `MAX_RECONNECT_ATTEMPTS` is never
  reached; the web copy has a timer against this (`useRelayWebSocket.ts:144-145`).
* The piece that ends a speech raises the speaking flag again after the commit, so
  playback is silenced at the first utterance only (`useRealtimeCall.ts:131` says that it
  stops when the user starts to speak); a stop within an utterance leaves it set too.
* A recording that cannot be created leaves the button saying that the app listens
  (`useAudioRecorder.ts:108`, `:138-142`). Pieces that overlap do so for good: the ref is
  cleared of a recording that still runs (`useAudioRecorder.ts:65-70`), and every later
  creation fails.
* A `stop()` that awaits one sound and returns after another was made unloads the newer:
  `isPlaying` stays set and nothing plays any more. A stop during a piece may be followed
  by a new recording that nothing stops; two starts lose an interval's handle.
* Sign-in does not leave the sign-in screen; the answer to a start opens the call on
  whatever screen is there; End pressed twice goes back twice.

*Relay.*
* `recovery.py:202`: a recovery's start awaits a notification; `stop()` (`:108`) during
  that await finds no task, and the recovery reconnects after the call's end.
* `session_a.py:377` and `:224`: the correction of a Level 3 response is requested while
  the blocked response is still to be reported done; the report resets the expected flag
  and the correction is cancelled as unexpected (`README.md:424` of the relay says it is
  spoken).
* `session_b.py:607`, `interrupt_handler.py:108`: a speech dropped as too short or weak
  was announced to the InterruptHandler and is not taken back; Session A's audio is
  dropped until the next clear speech has ended.
* `call_manager.py:168`, `:336`: a lock created for a call that is gone stays, and one
  that others wait for is dropped; harmless while ids are not reused.
  `routes/stream.py:85` registers a socket after two awaits without looking whether the
  call still exists.
* `session_manager.py:451`: when one connect fails the other goes on and may open a
  websocket after `close()`, which `:460` says ends both: the exception in
  `ConnectSettles`. Outbound nobody closes again (`routes/calls.py:147-150`), inbound
  closes once more (`inbound/media.py:379-381`), which may be too early as well.
* `recovery.py:265`: the degraded flag survives a recovery (`exit_degraded_mode` has no
  caller). `voice_to_voice.py:391`: the recipient's audio goes nowhere in degraded mode,
  although the relay's `README.md:415` speaks of Whisper (`DegradedIsWhispered` is checked
  of the user's). The last batch, of less than three seconds, is never transcribed
  (`recovery.py:446-449`); chunks of degraded mode are not marked, so a later catch-up
  transcribes them again.
* `voice_to_voice.py:430` (also `:334`, `:447`) marks chunks a closed session swallowed,
  although `ring_buffer.py:98` says that the mark records what was sent successfully;
  `:429` lets the first send on a lost connection end the Twilio loop and so the call.
* `recovery.py:373`: chunks that arrive while Whisper transcribes count as sent
  (`LateIsTranscribed`), so do those of a failed transcription (`:526-529`).
* `echo_gate.py:325-327` clears Session B's input and resets the VAD although the
  recipient may have begun to speak; the silence timeout of 15 s notices.
* `session_a.py:206`: `cancel()` resets the guardrail, so audio in flight of an
  interrupted response is spoken; `BlockedIsSilent` excepts interrupted responses.
* `inbound/service.py:187`: a statement that raises after the session was started leaves
  it without a deadline. `:75`: a webhook retry of a row that exists is refused when the
  queue is full with that row itself; a row in RINGING whose stream never opens has no
  timeout.

## 8. The plan

1. Session B: debounce, silence timeout, speculative STT and its counter, composed into
   `VoiceToVoice`; an abstract specification "each speech is committed once, in order" for
   it to implement. Bounds: two speeches, one response, one STT late.
2. Text-to-voice (`text_send_lock`, waits with timeouts), the agent pipeline's forwarding,
   the B-output queue and the debounced metrics save.
3. The hysteresis of the three VADs (relay, web, phone app) as one algorithm against a
   reference definition.
4. Proofs: the safety part of `ConnectSettles`.
5. Web call and relay composed: END_CALL, lost connections and `cleanup_call` on both
   sides of one socket.
