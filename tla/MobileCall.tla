----------------------------- MODULE MobileCall -----------------------------
(***************************************************************************)
(* The phone app: signing in, the screen that starts a call, and the call  *)
(* itself (useRealtimeCall and RealtimeCallView). Its WebSocket hook is a  *)
(* copy of the browser's that gets its attempts back at once; the steps    *)
(* the two share are taken from RelaySocket.                               *)
(***************************************************************************)
EXTENDS MobileAudio

CONSTANTS MaxReconnectAttempts,
          MaxStale,    \* bound: superseded attempts remembered
          MaxQueue,    \* bound: chunks of audio that wait
          MaxRequests  \* bound: requests in flight, those of screens left too

VARIABLES app,     \* the screen, the session and the requests in flight
          view,    \* the call screen
          sock,    \* useRelayWebSocket
          mic,     \* useClientVad and useAudioRecorder
          player   \* useAudioPlayback

mobileVars == <<app, view, sock, mic, player>>
ASSUME MobileAssumption ==
  MaxQueue \in Nat /\ MaxRequests \in Nat

Call == "call"
Hook == INSTANCE RelaySocket WITH Urls <- {Call}, NoUrl <- "none"

\* below: the home screen lies under the one on display.
NoApp  == [screen |-> "index", below |-> FALSE, loading |-> TRUE, session |-> FALSE,
           busy |-> FALSE, signing |-> 0, dialing |-> 0, ending |-> 0]
InFlight == app.signing + app.dialing + app.ending
NoView == [mode |-> "voice", ended |-> FALSE, recovery |-> "none", fading |-> FALSE,
           captions |-> {}]

----------------------------------------------------------------------------
(* Screens: the main ones are redirected to the sign-in without a session  *)

CallMounted == sock' = Hook!UrlSet(Hook!NoSocket, Call)
\* Unmounting closes the socket and clears the timers of the view; a
\* recorder that runs is stopped by nothing and has nobody to hear it.
CallUnmounted ==
  sock' = Hook!NoSocket /\ mic' = MicOff /\ player' = NoPlayer /\ view' = NoView
CallKept == UNCHANGED <<view, sock, mic, player>>

\* The screen changes to what is on display from now on.
Displays(change, screen) ==
  LET page == IF ~change.session /\ screen \in {"home", "call"} THEN "login" ELSE screen
  IN  /\ app' = [change EXCEPT !.screen = page, !.busy = IF page = app.screen THEN @ ELSE FALSE]
      /\ CASE page = "call" /\ app.screen # "call" -> CallMounted /\ UNCHANGED <<view, mic, player>>
           [] page # "call" /\ app.screen = "call" -> CallUnmounted
           [] OTHER -> CallKept

\* getSession of the AuthProvider; the index redirects.
SessionLoaded ==
  /\ app.loading
  /\ \E s \in BOOLEAN :
       Displays([app EXCEPT !.loading = FALSE, !.session = s], IF s THEN "home" ELSE "login")
Links ==
  \/ app.screen = "login" /\ Displays(app, "signup")
  \/ app.screen = "signup" /\ Displays(app, "login")

Asks(screen) ==
  /\ app.screen = screen /\ ~app.busy /\ InFlight < MaxRequests
  /\ app' = [app EXCEPT !.busy = TRUE, !.signing = @ + 1]
  /\ CallKept
handleLogin  == Asks("login")
handleSignUp == Asks("signup")
\* onAuthStateChange keeps the session; no screen leaves the sign-in for it.
LoginAnswered ==
  /\ app.signing > 0
  /\ \E s \in BOOLEAN :
       app' = [app EXCEPT !.signing = @ - 1, !.session = @ \/ s,
                          !.busy = @ /\ app.screen \notin {"login", "signup"}]
  /\ CallKept

\* The session is signed out of, or lost.
SessionEnds ==
  /\ app.session /\ ~app.loading
  /\ Displays([app EXCEPT !.session = FALSE], app.screen)
\* The process is started anew; Supabase keeps the session.
Restarts ==
  /\ app' = NoApp /\ view' = NoView /\ sock' = Hook!NoSocket
  /\ mic' = MicOff /\ player' = NoPlayer

handleStartCall ==
  /\ app.screen = "home" /\ ~app.busy /\ InFlight < MaxRequests
  /\ app' = [app EXCEPT !.busy = TRUE, !.dialing = @ + 1]
  /\ CallKept
\* The call is pushed on whatever screen is on display by then.
StartAnswered ==
  /\ app.dialing > 0
  /\ \/ Displays([app EXCEPT !.dialing = @ - 1, !.below = (app.screen = "home")], "call")
     \/ Displays([app EXCEPT !.dialing = @ - 1, !.busy = FALSE], app.screen)

----------------------------------------------------------------------------
(* The socket *)

Link(change) == sock' = change /\ UNCHANGED <<app, view, mic, player>>

Connects == sock.auto /\ Link(Hook!ConnectStarted(sock, FALSE))
Fires    == sock.timer /\ Link(Hook!ConnectStarted(sock, FALSE))
\* Fault: the generation is not compared after the await.
TokenAlwaysUsed(current) ==
  /\ IF current THEN sock.asking ELSE sock.stale > 0
  /\ Link([Hook!Created(sock) EXCEPT !.stale = IF current THEN @ ELSE @ - 1])
TokenArrives(current) ==
  /\ IF current THEN sock.asking ELSE sock.stale > 0
  /\ Link(Hook!AttemptResumed(sock, current))
Opens  == sock.ws = "connecting"
          /\ Link([sock EXCEPT !.ws = "open", !.status = "connected", !.count = 0])
Closes == sock.ws # "none" /\ Link(Hook!SocketClosed(sock))
SocketStep ==
  \/ Connects \/ Fires \/ Opens \/ Closes
  \/ \E current \in BOOLEAN : TokenArrives(current)

----------------------------------------------------------------------------
(* What the relay says *)

Hears(page) ==
  sock.ws = "open" /\ view' = page /\ UNCHANGED <<app, sock, mic>>

\* The relay's captions carry neither isFinal nor speaker, so each takes the
\* place of the one before it.
addCaption(v, caption) == [v EXCEPT !.captions = @ \cup {caption}]
CaptionSaid == Hears(addCaption(view, "interim")) /\ UNCHANGED player
AudioSaid ==
  /\ player.queue < MaxQueue /\ (player.playing \/ Busy(player) < MaxSounds)
  /\ Hears(view) /\ player' = enqueue(player)
InterruptSaid == Hears(view) /\ player' = clearQueue(player)
\* Only "recovered" is given a timer, and nothing takes it back; "trouble"
\* is recovering or degraded.
RecoverySaid ==
  /\ \E s \in {"trouble", "recovered"} :
       Hears([view EXCEPT !.recovery = s, !.fading = @ \/ s = "recovered"])
  /\ UNCHANGED player
RecoveryFades ==
  /\ view.fading
  /\ view' = [view EXCEPT !.recovery = "none", !.fading = FALSE]
  /\ UNCHANGED <<app, sock, mic, player>>

----------------------------------------------------------------------------
(* What the caller does *)

Enabled == app.screen = "call" /\ sock.status = "connected"
\* ModeSelector, and what PushToTalkInput offers in each mode.
InputModes == {"voice", "text"}
Offered(mode) == IF mode = "text" THEN {"send"} ELSE {"record"}

toggleRecording ==
  /\ Enabled /\ "record" \in Offered(view.mode)
  /\ \E i \in FreeTasks(mic) :
       mic' = IF mic.rec THEN MicStopped(mic, i) ELSE MicStarted(mic, i)
  /\ UNCHANGED <<app, view, sock, player>>
setInputMode(mode) ==
  /\ Enabled /\ mode # view.mode
  /\ view' = [view EXCEPT !.mode = mode]
  /\ IF mode # "voice" /\ mic.rec
     THEN \E i \in FreeTasks(mic) : mic' = MicStopped(mic, i)
     ELSE UNCHANGED mic
  /\ UNCHANGED <<app, sock, player>>
handleSendText ==
  /\ Enabled /\ "send" \in Offered(view.mode)
  /\ view' = addCaption(view, "final")
  /\ UNCHANGED <<app, sock, mic, player>>

\* The recorder and the player are told to stop, the socket is closed, the
\* end is posted; the button stays enabled. The timer of 0 ms that connects
\* has run before anyone can press it.
handleEndCall ==
  /\ ~sock.auto /\ app.screen = "call" /\ InFlight < MaxRequests /\ player.stopping < MaxSounds
  /\ IF mic.rec THEN \E i \in FreeTasks(mic) : mic' = MicStopped(mic, i) ELSE UNCHANGED mic
  /\ player' = stop(player)
  /\ sock' = Hook!Disconnected(sock)
  /\ app' = [app EXCEPT !.ending = @ + 1] /\ view' = [view EXCEPT !.ended = TRUE]
\* Posted or not, the router goes back from whatever screen is on display.
EndAnswered ==
  /\ app.ending > 0
  /\ LET left == [app EXCEPT !.ending = @ - 1, !.below = FALSE]
     IN Displays(left, IF app.below THEN "home" ELSE app.screen)

----------------------------------------------------------------------------
(* The microphone and the player *)

MicSteps(m) == mic' = m /\ UNCHANGED <<app, view, sock, player>>
RecorderWorks(i) ==
  LET t == mic.tasks[i] IN
  \/ t.stage = "stop" /\ \E ok \in BOOLEAN : MicSteps(RecordingClosed(mic, i, ok))
  \/ t.stage = "create" /\ \E ok \in BOOLEAN : MicSteps(RecordingCreated(mic, i, ok))
  \/ t.kind = "start" /\ MicSteps(StartDenied(mic, i))
  \/ t.stage = "mode" /\ MicSteps(StopDone(mic, i))
  \/ /\ t = NoTask /\ (mic.timer \/ mic.lost)
     /\ MicSteps(PieceDue(mic, i))
\* A piece was read, or could not be.
PieceHeard(i) ==
  /\ mic.tasks[i].stage = "read"
  /\ \/ MicSteps(PieceRead(mic, i))
     \/ \E to \in VadMoves(mic.vad) :
          /\ mic' = Heard(PieceRead(mic, i), to)
          /\ player.stopping < MaxSounds
          /\ player' = IF BargesIn(mic, to) THEN stop(player) ELSE player
          /\ UNCHANGED <<app, view, sock>>
CommitHandled == mic.resetting /\ MicSteps(VadReset(mic))

PlayerSteps(p) == player' = p /\ UNCHANGED <<app, view, sock, mic>>
PlayerWorks ==
  \/ player.writing > 0 /\ (PlayerSteps(FileWritten(player)) \/ PlayerSteps(SoundFails(player, "writing")))
  \/ player.creating > 0 /\ (PlayerSteps(SoundCreated(player)) \/ PlayerSteps(SoundFails(player, "creating")))
  \/ player.cur = "sounding" /\ PlayerSteps(SoundEnds(player, FALSE))
  \/ player.astray > 0 /\ PlayerSteps(SoundEnds(player, TRUE))
  \/ player.stopping > 0 /\ PlayerSteps(StopAwaited(player))

----------------------------------------------------------------------------
MobileInit ==
  /\ app = NoApp /\ view = NoView /\ sock = Hook!NoSocket
  /\ mic = MicOff /\ player = NoPlayer
MobileNext ==
  \/ SessionLoaded \/ Links \/ handleLogin \/ handleSignUp \/ LoginAnswered \/ SessionEnds \/ Restarts
  \/ handleStartCall \/ StartAnswered
  \/ SocketStep
  \/ CaptionSaid \/ AudioSaid \/ InterruptSaid \/ RecoverySaid \/ RecoveryFades
  \/ toggleRecording \/ handleSendText \/ handleEndCall \/ EndAnswered
  \/ \E mode \in InputModes : setInputMode(mode)
  \/ \E i \in TaskIds : RecorderWorks(i) \/ PieceHeard(i)
  \/ CommitHandled \/ PlayerWorks
MobileSpec == MobileInit /\ [][MobileNext]_mobileVars

----------------------------------------------------------------------------
(* Properties *)

\* A call that was ended, or whose screen was left, has no socket, no
\* reconnect on its way and no second socket beside the one at hand, also
\* when the token arrives after End was pressed (the generation of
\* useRelayWebSocket.ts and its clean-up).
LeftCallHasNoLink ==
  /\ ~sock.orphan
  /\ sock.ws # "none" \/ sock.timer \/ sock.auto => app.screen = "call" /\ ~view.ended

\* No audio waits at a player that believes it is at rest: whoever ends a
\* sound, fails to prepare one or stops takes the next from the queue or
\* leaves the mark that a later one will (useAudioPlayback.ts, isPlayingRef
\* against onPlaybackStatusUpdate, catch and stop). The mark may be wrong:
\* a stop that unloads a newer sound leaves it set for good.
QueueIsWorked == player.queue > 0 => player.playing
=============================================================================
