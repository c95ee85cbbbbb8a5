------------------------------ MODULE WebCall ------------------------------
(***************************************************************************)
(* The web client of one call: the page that fetches the call's record     *)
(* (dashboard panel, /call/[callId], /inbound/[callId]), useRelayCall with *)
(* its socket, delayed disconnects and captions, and the microphone.  The  *)
(* relay is the environment: it says the status of its phase and captions, *)
(* hangs up, and loses connections.  A page that is left takes its hooks   *)
(* with it; coming back mounts new ones.                                   *)
(***************************************************************************)
EXTENDS RelaySocket, Microphone, WebPlayer, Sequences

CONSTANTS Modes,        \* communication modes offered
          MaxLate,      \* bound on the delayed disconnects under way
          MaxCaptions,  \* bound on the captions kept, for each mode
          MaxQueue      \* bound on the player's queue, for each mode
ASSUME RelayAssumption == Urls # {}

VARIABLES page, call, late, captions, streaming, mic, player, relay

callVars == <<sock, page, call, late, captions, streaming, mic, player, relay>>
captionVars == <<captions, streaming>>

Hosts == {"dashboard", "callPage", "inboundPage"}
RelayUrl == CHOOSE u \in Urls : TRUE

\* getModeUIConfig(mode).audioInput
audioInput(mode) == mode = "voice_to_voice"

NoPage == [host |-> "none", mode |-> "full_agent", loading |-> FALSE,
           error |-> FALSE, record |-> "none", left |-> FALSE,
           fetches |-> 0, failures |-> 0, started |-> FALSE]
NoCall == [status |-> "idle", isMuted |-> FALSE, error |-> FALSE]

NoStream == [speaker |-> "none", dir |-> "none", stage |-> 0]

\* The captions the relay sends: what the caller said and its translation,
\* what the recipient said (stage 1) and its translation (stage 2).
Deltas == {[speaker |-> "user", dir |-> "outbound", stage |-> 1],
           [speaker |-> "recipient", dir |-> "inbound", stage |-> 1],
           [speaker |-> "recipient", dir |-> "inbound", stage |-> 2]}

WebCallTypeOK ==
  /\ sock \in SocketRecord
  /\ mic \in MicRecord
  /\ player \in PlayerRecord(MaxQueue[page.mode])
  /\ page \in [host : Hosts \cup {"none"}, mode : Modes \cup {"full_agent"},
               loading : BOOLEAN, error : BOOLEAN,
               record : {"none", "live", "over"}, left : BOOLEAN,
               fetches : 0..2, failures : 0..3, started : BOOLEAN]
  /\ call \in [status : {"idle", "connecting", "waiting", "connected", "ended"},
               isMuted : BOOLEAN, error : BOOLEAN]
  /\ late \in 0..MaxLate
  /\ Len(captions) <= MaxCaptions[page.mode]
  /\ streaming \in Deltas \cup {NoStream}
  /\ relay \in {"ringing", "connected", "over"}

-----------------------------------------------------------------------------
\* vadEnabled of useRelayCall.
VadEnabled(p, c, s) == /\ audioInput(p.mode) /\ ~c.isMuted
                       /\ s.url # NoUrl /\ s.status = "connected"

\* Every render runs the effects on vadEnabled.
MicEffect == mic' = MicFollows(mic, VadEnabled(page, call, sock),
                                    VadEnabled(page', call', sock'))

\* What each page renders of the record it fetched.
CallPageShows(p) ==
  CASE p.loading                        -> "loading"
    [] ~p.loading /\ (p.error \/ p.record = "none") -> "error"
    [] ~p.loading /\ ~p.error /\ (p.record = "over" \/ (p.record = "live" /\ p.left))
                                        -> "result"
    [] OTHER                            -> "call"
InboundPageShows(p) ==
  IF p.error THEN "error" ELSE IF p.record = "none" THEN "loading" ELSE "call"
PanelShows(p, status) ==
  CASE p.record = "none" /\ p.loading  -> "loading"
    [] p.record = "none" /\ ~p.loading -> "error"
    [] p.record # "none" /\ (p.record = "over" \/ status = "ended") -> "result"
    [] OTHER                            -> "call"

\* Is useRelayCall mounted: under the provider always, on the pages only in
\* the branch that renders RealtimeCallView.
ViewMounted(p) ==
  CASE p.host = "none"        -> FALSE
    [] p.host = "dashboard"   -> TRUE
    [] p.host = "callPage"    -> CallPageShows(p) = "call"
    [] p.host = "inboundPage" -> InboundPageShows(p) = "call"

\* The controls of RealtimeCallView's three layouts and of the panel.
VoiceLayout(active) == IF active THEN {"mute", "end"} ELSE {}
TextLayout(active)  == IF active THEN {"text", "end"} ELSE {}
AgentLayout(active) == IF active THEN {"end"} ELSE {}
PanelControls(p, status) ==
  IF PanelShows(p, status) # "call" THEN {}
  ELSE {"end"} \cup IF p.mode = "voice_to_voice" THEN {"mute"} ELSE {}
\* ChatContainer's input takes text in every mode with a text input.
ChatControls(p) == IF audioInput(p.mode) THEN {} ELSE {"text"}

Controls ==
  IF ~ViewMounted(page) THEN {}
  ELSE IF page.host = "dashboard"
       THEN PanelControls(page, call.status) \cup ChatControls(page)
  ELSE LET active == call.status # "ended"
       IN CASE page.mode = "voice_to_voice" -> VoiceLayout(active)
            [] page.mode = "text_to_voice"  -> TextLayout(active)
            [] page.mode = "full_agent"     -> AgentLayout(active)

-----------------------------------------------------------------------------
\* startCall(): everything of an earlier call is forgotten.
StartCall ==
  /\ call' = [status |-> "connecting", isMuted |-> FALSE, error |-> FALSE]
  /\ captions' = <<>> /\ streaming' = NoStream
  /\ sock' = UrlSet(sock, RelayUrl)

\* The page is left: the socket's cleanup runs before the provider's own
\* endCall(), and takes the delayed disconnects' hooks with it.
Torn(p) ==
  /\ page' = p
  /\ sock' = NoSocket /\ call' = NoCall /\ late' = 0
  /\ captions' = <<>> /\ streaming' = NoStream
  /\ mic' = MicOff /\ player' = NoPlayer

\* startedRef of the provider (the panel is keyed by the call), and the
\* mount of RealtimeCallView: startCall runs once, when the address is known.
Starts(p) == ~p.started /\ ViewMounted(p) /\ p.record # "none"

OpenPage(host, mode) ==
  /\ page.host = "none"
  /\ host = "inboundPage" => mode = "voice_to_voice"
  /\ page' = [NoPage EXCEPT !.host = host, !.mode = mode, !.loading = TRUE,
                            !.fetches = 1]
  /\ UNCHANGED <<sock, call, late, captionVars, mic, player, relay>>

LeavePage ==
  /\ page.host # "none" /\ Torn(NoPage)
  /\ UNCHANGED relay

\* GET /api/calls/[id] or POST pickup answered with the record: the row says
\* it is over only once the relay has written that.  The provider and the
\* view then call startCall, once.
FetchOk(record) ==
  LET p == [page EXCEPT !.fetches = @ - 1, !.record = record, !.loading = FALSE,
                        !.error = IF page.host = "callPage" THEN @ ELSE FALSE,
                        !.failures = 0]
      starts == Starts(p)
  IN /\ page.fetches > 0
     /\ record = "over" => relay = "over" /\ page.host # "inboundPage"
     /\ IF ViewMounted(page) /\ ~ViewMounted(p)
        THEN Torn(p)
        ELSE /\ page' = [p EXCEPT !.started = @ \/ starts]
             /\ IF starts THEN StartCall
                ELSE UNCHANGED <<sock, call, captionVars>>
             /\ MicEffect /\ UNCHANGED <<late, player>>
     /\ UNCHANGED relay

\* The dashboard counts failures and shows an error at the third; the pages
\* show the first one, and a failed refetch changes nothing.
FetchFails ==
  /\ page.fetches > 0
  /\ page' = IF page.host = "dashboard"
             THEN [page EXCEPT !.fetches = @ - 1,
                     !.failures = IF @ < 3 THEN @ + 1 ELSE 3,
                     !.error = @ \/ page.failures >= 2,
                     !.loading = @ /\ page.failures < 2]
             ELSE [page EXCEPT !.fetches = @ - 1, !.loading = FALSE,
                     !.error = @ \/ (page.record = "none")]
  /\ UNCHANGED <<sock, call, late, captionVars, mic, player, relay>>

\* 401 and 404 send the dashboard's user to another page.
FetchRedirects ==
  /\ page.host = "dashboard" /\ page.fetches > 0 /\ Torn(NoPage)
  /\ UNCHANGED relay

-----------------------------------------------------------------------------
\* CallEffectPanel refetches the record when the status becomes "ended".
Refetched(p, before, after) ==
  IF p.host = "dashboard" /\ before # "ended" /\ after = "ended" /\ p.fetches < 2
  THEN [p EXCEPT !.fetches = @ + 1] ELSE p

\* Fault: without a socket that is open the address is kept.
EndCallKeepsUrl(p) ==
  /\ call' = [call EXCEPT !.status = "ended"]
  /\ player' = PlayerStopped(player)
  /\ IF sock.ws = "open" THEN late' = MaxLate /\ UNCHANGED sock
     ELSE sock' = Disconnected(sock) /\ UNCHANGED late
  /\ page' = Refetched(p, call.status, "ended")

\* endCall(): END_CALL, then the socket is given 500 ms if it was open.
EndCall(p) ==
  LET sent == sock.ws = "open"
  IN /\ call' = [call EXCEPT !.status = "ended"]
     /\ player' = PlayerStopped(player)
     /\ IF sent THEN late' = (IF late < MaxLate THEN late + 1 ELSE late)
                     /\ UNCHANGED sock
        ELSE sock' = UrlSet(Disconnected(sock), NoUrl) /\ UNCHANGED late
     /\ page' = Refetched(p, call.status, "ended")

\* The End button.  The pages tell their owner at once: /call shows the
\* result and refetches, /inbound goes back to the queue.
EndClicked ==
  /\ "end" \in Controls
  /\ CASE page.host = "dashboard" -> EndCall(page) /\ MicEffect
                                     /\ UNCHANGED captionVars
       [] OTHER -> Torn(IF page.host = "inboundPage" THEN NoPage
                        ELSE [page EXCEPT !.left = TRUE,
                                !.fetches = IF @ < 2 THEN @ + 1 ELSE @])
  /\ UNCHANGED relay

MuteClicked ==
  /\ "mute" \in Controls
  /\ call' = [call EXCEPT !.isMuted = ~@]
  /\ page' = page /\ sock' = sock /\ MicEffect
  /\ UNCHANGED <<late, captionVars, player, relay>>

\* The 300 ms and 500 ms timers: whatever runs on this socket by now, stops.
LateDisconnect ==
  /\ late > 0 /\ late' = late - 1
  /\ sock' = UrlSet(Disconnected(sock), NoUrl)
  /\ page' = page /\ call' = call /\ MicEffect
  /\ UNCHANGED <<captionVars, player, relay>>

\* The 0 ms timer of the effect on ws.status and callStatus.
StatusEffect ==
  /\ ViewMounted(page)
  /\ \/ /\ sock.status = "connected" /\ call.status = "connecting"
        /\ call' = [call EXCEPT !.status = "waiting"]
     \/ /\ sock.status = "error" /\ ~call.error
        /\ call' = [call EXCEPT !.error = TRUE]
  /\ UNCHANGED <<sock, page, late, captionVars, mic, player, relay>>

-----------------------------------------------------------------------------
Hears == ViewMounted(page) /\ sock.ws = "open"

\* CALL_STATUS of handleMessage.
StatusSaid ==
  /\ Hears
  /\ \/ /\ relay = "ringing" /\ call' = [call EXCEPT !.status = "waiting"]
        /\ UNCHANGED <<page, late, player>>
     \/ /\ relay = "connected" /\ call' = [call EXCEPT !.status = "connected"]
        /\ UNCHANGED <<page, late, player>>
     \/ /\ relay = "over" /\ late < MaxLate
        /\ call' = [call EXCEPT !.status = "ended"] /\ late' = late + 1
        /\ player' = PlayerStopped(player)
        /\ page' = Refetched(page, call.status, "ended")
  /\ UNCHANGED <<sock, captionVars, mic, relay>>

\* Fault: the delta of a translation joins the original.
\* A caption delta joins the caption it continues; a translation takes the
\* place of the original before it; anything else is a new caption.
CaptionedByAnyStage(caps, cur, d) ==
  IF cur.speaker = d.speaker THEN caps
  ELSE Append(caps, [speaker |-> d.speaker, stage |-> d.stage, original |-> FALSE])
Captioned(caps, cur, d) ==
  LET n     == Len(caps)
      entry == [speaker |-> d.speaker, stage |-> d.stage, original |-> FALSE]
  IN IF cur = d THEN caps
     ELSE IF d.stage = 2 /\ n > 0 /\ caps[n].stage = 1 /\ caps[n].speaker = d.speaker
     THEN [caps EXCEPT ![n] = [entry EXCEPT !.original = TRUE]]
     ELSE Append(caps, entry)

CaptionSaid(d) ==
  /\ Hears /\ relay = "connected" /\ call.status = "connected"
  /\ Len(Captioned(captions, streaming, d)) <= MaxCaptions[page.mode]
  /\ captions' = Captioned(captions, streaming, d) /\ streaming' = d
  /\ UNCHANGED <<sock, page, call, late, mic, player, relay>>

\* The next delta begins a caption of its own after TRANSLATION_STATE
\* caption_done, and after a text of the user.
StreamBroken ==
  /\ streaming # NoStream /\ streaming' = NoStream
  /\ UNCHANGED <<sock, page, call, late, captions, mic, player, relay>>

CaptionDone == Hears /\ StreamBroken
TextSent    == "text" \in Controls /\ StreamBroken

\* The relay: the phone is answered, the call ends (it acts on END_CALL, or
\* the recipient hangs up).
RelayMoves ==
  /\ \/ relay = "ringing" /\ relay' = "connected"
     \/ relay # "over" /\ relay' = "over"
  /\ UNCHANGED <<sock, page, call, late, captionVars, mic, player>>

-----------------------------------------------------------------------------
SocketMoves(A) ==
  /\ A /\ page' = page /\ call' = call /\ MicEffect
  /\ UNCHANGED <<late, captionVars, player, relay>>

\* The inbound page gives its first connection a pickup token at hand.
Connects     == SocketMoves(AutoConnects(page.host = "inboundPage"))
Reconnects   == SocketMoves(ReconnectFires)
Credentials  == SocketMoves(\E current \in BOOLEAN : CredentialsArrive(current))
NoCredential == SocketMoves(\E current \in BOOLEAN : CredentialsFail(current))
Opened       == SocketMoves(Opens)
Stayed       == SocketMoves(Stays)
Lost         == SocketMoves(Closes)

\* RECIPIENT_AUDIO and INTERRUPT_ALERT of handleMessage; the player's events.
PlayerMoves(p) ==
  /\ player' = p
  /\ UNCHANGED <<sock, page, call, late, captionVars, mic, relay>>

AudioSaid == /\ Hears /\ player.queue < MaxQueue[page.mode]
             /\ PlayerMoves(Played(player))
InterruptSaid == Hears /\ player.queue > 0 /\ PlayerMoves(QueueCleared(player))
SourceEnds == \E which \in Sources : CanEnd(player, which)
                                     /\ PlayerMoves(SourceEnded(player, which))
PlayerResumes == player.resuming /\ PlayerMoves(PlayerResumed(player))

\* The first chunk of an utterance that is sent silences the player.
MicMoves(m) ==
  /\ mic' = m
  /\ player' = IF m.userSpeaking /\ ~mic.userSpeaking
               THEN PlayerStopped(player) ELSE player
  /\ UNCHANGED <<sock, page, call, late, captionVars, relay>>

MicAnswers == /\ mic.starting > 0
              /\ MicMoves(MicReady(mic)) \/ MicMoves(MicDenied(mic))
VadResets == mic.resetting /\ MicMoves(VadReset(mic))

Chunk(to) ==
  /\ Recording(mic) /\ ViewMounted(page) /\ to \in VadMoves(mic.vad)
  /\ MicMoves(Captured(mic, to))

WebCallInit ==
  /\ SocketInit /\ page = NoPage /\ call = NoCall /\ late = 0
  /\ captions = <<>> /\ streaming = NoStream /\ mic = MicOff
  /\ player = NoPlayer
  /\ relay = "ringing"

WebCallNext ==
  \/ \E host \in Hosts, mode \in Modes : OpenPage(host, mode)
  \/ LeavePage
  \/ \E record \in {"live", "over"} : FetchOk(record)
  \/ FetchFails \/ FetchRedirects
  \/ EndClicked \/ MuteClicked \/ LateDisconnect \/ StatusEffect
  \/ StatusSaid \/ (\E d \in Deltas : CaptionSaid(d)) \/ CaptionDone \/ TextSent
  \/ RelayMoves
  \/ AudioSaid \/ InterruptSaid \/ SourceEnds \/ PlayerResumes
  \/ Connects \/ Reconnects \/ Credentials \/ NoCredential
  \/ Opened \/ Stayed \/ Lost
  \/ MicAnswers \/ VadResets \/ (\E to \in VadStates : Chunk(to))

\* Timers fire; credentials and handshakes are answered one way or the other.
WebCallFairness ==
  /\ WF_callVars(LateDisconnect) /\ WF_callVars(Connects)
  /\ WF_callVars(Reconnects) /\ WF_callVars(Credentials \/ NoCredential)
  /\ WF_callVars(Opened \/ Lost)

WebCallSpec == WebCallInit /\ [][WebCallNext]_callVars /\ WebCallFairness

-----------------------------------------------------------------------------
\* The caption a delta is appended to is the one it continues: a stream that
\* outlived its captions would put one speaker's words under another's name
\* (streamingRef against setCaptions in handleMessage and startCall).
StreamIsLast ==
  streaming # NoStream =>
    /\ captions # <<>>
    /\ captions[Len(captions)].speaker = streaming.speaker
    /\ captions[Len(captions)].stage = streaming.stage

\* A caller who is not muted is heard, whatever mutes, reconnects and pages
\* came and went while getUserMedia was awaited: a recorder that stop() can
\* reach runs, a start is under way, or the last one was refused; and a VAD
\* that has committed will hear again (useWebAudioRecorder's ref against the
\* awaits of start(), useClientVad's 50 ms reset).
EnabledIsHeard ==
  VadEnabled(page, call, sock) =>
    /\ mic.held \/ mic.starting > 0 \/ mic.refused
    /\ mic.vad = "committed" => mic.resetting

\* Audio that waits in the queue has something that will play it: a source
\* that sounds or was stopped and has yet to say "ended", or a context that
\* resumes (play() only queues while isPlayingState is set).
QueuedIsPlayed ==
  player.queue > 0 =>
    player.current \/ player.earlier \/ player.stale \/ player.resuming

\* A call the server or the user has ended lets go of its socket, however
\* the reconnects and the delayed disconnects interleave.
EndedLetsGo == []<>(call.status = "ended" => sock.url = NoUrl)

\* An attempt to connect is decided: up, failed or given up.
ConnectingEnds == []<>(sock.status # "connecting")
=============================================================================
