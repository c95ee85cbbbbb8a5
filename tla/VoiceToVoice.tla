---------------------------- MODULE VoiceToVoice ----------------------------
(***************************************************************************)
(* VoiceToVoicePipeline with a local VAD, between the user who commits     *)
(* audio or sends text, Session A that speaks to the recipient, and the    *)
(* recipient who may speak at any time: SessionA and EchoGate composed     *)
(* with the VAD, Session B's notion of who speaks, the InterruptHandler    *)
(* that holds Session A back and the greeting with its shield.             *)
(*                                                                         *)
(* Five tasks interleave at their awaits: the app socket's loop, the media *)
(* stream's loop (one frame after the other), Session A's listen task,     *)
(* Session B's silence timeout and the timers.  Durations are abstract.    *)
(***************************************************************************)
EXTENDS SessionA, EchoGate

CONSTANT MaxSpeeches   \* bound on the recipient's speeches

ASSUME VoiceAssumption == Askers = {"app", "greeter"} /\ MaxSpeeches \in Nat

VARIABLES
  committing,   \* the app loop has opened the echo window for a commit
  greeting,     \* first_message: none, called, sent
  shield,       \* _greeting_shield_active()
  vad,          \* LocalVAD._state
  frame,        \* the media loop: idle, or where handle_twilio_audio awaits
  speaking,     \* Session B: _is_recipient_speaking
  timeout,      \* its silence timeout: off, waiting, forcing, forced
  holding,      \* InterruptHandler: no, speaking, cooldown
  speeches

roomVars == <<committing, greeting, shield, vad, frame, speaking, timeout, holding, speeches>>
vars == <<saVars, gateVars, roomVars>>

V2VTypeOK ==
  /\ SessionATypeOK /\ GateTypeOK
  /\ committing \in BOOLEAN /\ shield \in BOOLEAN /\ speaking \in BOOLEAN
  /\ greeting \in {"none", "called", "sent"}
  /\ vad \in {"silence", "speaking"}
  /\ frame \in {"idle", "inferring", "starting", "greeting", "stopping"}
  /\ timeout \in {"off", "waiting", "forcing", "forced"}
  /\ holding \in {"no", "speaking", "cooldown"}
  /\ speeches \in 0..MaxSpeeches

(* An inbound call has had its greeting.                                   *)
Init ==
  /\ SessionAInit /\ GateInit
  /\ greeting \in {"none", "sent"} /\ shield = FALSE /\ committing = FALSE
  /\ vad = "silence" /\ frame = "idle" /\ speaking = FALSE
  /\ timeout = "off" /\ holding = "no" /\ speeches = 0

-----------------------------------------------------------------------------
(* The app socket: user audio is refused before the greeting, text is not  *)

UserCommits ==
  /\ greeting # "none" /\ asker["app"] = "idle" /\ ~committing /\ asks < MaxAsks
  /\ committing' = TRUE
  /\ PreActivate
  /\ UNCHANGED <<saVars, greeting, shield, vad, frame, speaking, timeout, holding, speeches>>

AppMarks ==
  /\ Mark("app") /\ committing' = FALSE
  /\ UNCHANGED <<gateVars, greeting, shield, vad, frame, speaking, timeout, holding, speeches>>

AppAsks == Ask("app") /\ UNCHANGED <<gateVars, roomVars>>

-----------------------------------------------------------------------------
(* The greeting: called by the recipient's first speech, in the media loop, *)
(* or by the fallback timer                                                 *)

FallbackGreets ==
  /\ greeting = "none" /\ greeting' = "called" /\ shield' = TRUE
  /\ UNCHANGED <<saVars, gateVars, committing, vad, frame, speaking, timeout, holding, speeches>>

GreeterMarks ==
  /\ greeting = "called" /\ greeting' = "sent" /\ Mark("greeter")
  /\ UNCHANGED <<gateVars, committing, shield, vad, frame, speaking, timeout, holding, speeches>>

GreeterAsks ==
  /\ Ask("greeter")
  /\ frame' = IF frame = "greeting" THEN "idle" ELSE frame
  /\ UNCHANGED <<gateVars, committing, greeting, shield, vad, speaking, timeout, holding, speeches>>

(* The estimated end of its playback, or 30 s.                             *)
ShieldEnds ==
  /\ shield /\ shield' = FALSE
  /\ UNCHANGED <<saVars, gateVars, committing, greeting, vad, frame, speaking, timeout,
                 holding, speeches>>

-----------------------------------------------------------------------------
(* Session A's listen task                                                 *)

(* Its audio is dropped while the recipient speaks and 1.5 s longer.       *)
Audible == holding = "no" \/ shield

AudioArrives ==
  /\ AudioForwarded
  /\ IF Audible THEN OnTtsChunk ELSE UNCHANGED gateVars
  /\ UNCHANGED roomVars

ResponseEnds == ResponseDone /\ OnTtsDone /\ UNCHANGED roomVars

SessionAStep == (ServerStep \/ ListenStep) /\ UNCHANGED <<gateVars, roomVars>>

-----------------------------------------------------------------------------
(* The media stream's frames                                               *)

(* A frame in the window is replaced by silence, unless it breaks it.      *)
FrameTaken ==
  /\ frame = "idle"
  /\ IF window THEN FilterLoud ELSE UNCHANGED gateVars
  /\ frame' = IF ShouldProcessVad' THEN "inferring" ELSE "idle"
  /\ UNCHANGED <<saVars, committing, greeting, shield, vad, speaking, timeout, holding, speeches>>

(* The inference is back: nothing new ...                                  *)
VadUndecided ==
  /\ frame = "inferring" /\ frame' = "idle"
  /\ UNCHANGED <<saVars, gateVars, committing, greeting, shield, vad, speaking, timeout,
                 holding, speeches>>

(* ... the recipient speaks ...                                            *)
VadSpeaks ==
  /\ frame = "inferring" /\ vad = "silence" /\ speeches < MaxSpeeches
  /\ vad' = "speaking" /\ frame' = "starting" /\ speeches' = speeches + 1
  /\ UNCHANGED <<saVars, gateVars, committing, greeting, shield, speaking, timeout, holding>>

(* ... or no longer does.                                                  *)
VadStops ==
  /\ frame = "inferring" /\ vad = "speaking"
  /\ vad' = "silence" /\ frame' = "stopping"
  /\ UNCHANGED <<saVars, gateVars, committing, greeting, shield, speaking, timeout, holding,
                 speeches>>

(* notify_speech_started, which arms the silence timeout.                  *)
NotifyStarted == speaking' = TRUE /\ timeout' = "waiting"

(* on_recipient_speech_started: Session A is held back and interrupted.    *)
Interrupt ==
  /\ holding' = "speaking"
  /\ IF generating /\ ~shield THEN Cancel ELSE UNCHANGED saVars

(* on_recipient_speech_stopped.                                            *)
RecipientStopped == holding' = "cooldown"

(* The callbacks of the VAD's start: the gate is broken; it is the first   *)
(* speech and the AI greets, or Session A is interrupted.                  *)
SpeechStarts ==
  /\ frame = "starting"
  /\ NotifyStarted
  /\ OnRecipientSpeech
  /\ IF greeting = "none"
     THEN /\ greeting' = "called" /\ shield' = TRUE /\ frame' = "greeting"
          /\ UNCHANGED <<saVars, holding>>
     ELSE /\ Interrupt /\ frame' = "idle"
          /\ UNCHANGED <<greeting, shield>>
  /\ UNCHANGED <<committing, vad, speeches>>

(* notify_speech_stopped.  A short or weak speech (peak below 300, the VAD *)
(* hears from 200) is dropped, and so is one that the timeout has forced:  *)
(* in both cases the InterruptHandler is not told.                         *)
SpeechStops ==
  /\ frame = "stopping" /\ frame' = "idle"
  /\ speaking' = FALSE /\ timeout' = "off"
  /\ \/ UNCHANGED holding
     \/ timeout \notin {"forcing", "forced"} /\ RecipientStopped
  /\ UNCHANGED <<saVars, gateVars, committing, greeting, shield, vad, speeches>>

-----------------------------------------------------------------------------
(* Timers                                                                  *)

(* Session B's silence timeout of 15 s: a response is forced, which may    *)
(* take until the one before is done ...                                   *)
TimeoutFires ==
  /\ timeout = "waiting" /\ timeout' = "forcing" /\ speaking' = FALSE
  /\ UNCHANGED <<saVars, gateVars, committing, greeting, shield, vad, frame, holding, speeches>>

(* ... and the InterruptHandler is told.                                   *)
TimeoutForces ==
  /\ timeout = "forcing" /\ timeout' = "forced" /\ RecipientStopped
  /\ UNCHANGED <<saVars, gateVars, committing, greeting, shield, vad, frame, speaking, speeches>>

HoldingExpires ==
  /\ holding = "cooldown" /\ holding' = "no"
  /\ UNCHANGED <<saVars, gateVars, committing, greeting, shield, vad, frame, speaking, timeout,
                 speeches>>

GateTimer == (WatchdogFires \/ CooldownClears) /\ UNCHANGED <<saVars, roomVars>>

ClearFails == ClearRaises /\ UNCHANGED <<saVars, roomVars>>

(* The end of a cooldown also puts the VAD back, without its callback.     *)
WindowEnds ==
  /\ CooldownCloses /\ vad' = "silence"
  /\ UNCHANGED <<saVars, committing, greeting, shield, frame, speaking, timeout, holding, speeches>>

Next ==
  \/ UserCommits \/ AppMarks \/ AppAsks
  \/ FallbackGreets \/ GreeterMarks \/ GreeterAsks \/ ShieldEnds
  \/ AudioArrives \/ ResponseEnds \/ SessionAStep
  \/ FrameTaken \/ VadUndecided \/ VadSpeaks \/ VadStops \/ SpeechStarts \/ SpeechStops
  \/ TimeoutFires \/ TimeoutForces \/ HoldingExpires \/ GateTimer \/ WindowEnds
  \/ ClearFails

Spec == Init /\ [][Next]_vars

(* Tasks that can go on do, timers expire and OpenAI ends what it began.   *)
Fairness ==
  /\ WF_vars(committing /\ AppMarks) /\ WF_vars(AppAsks)
  /\ WF_vars(GreeterMarks) /\ WF_vars(GreeterAsks)
  /\ WF_vars(AudioArrives \/ ResponseEnds \/ (ListenStep /\ UNCHANGED <<gateVars, roomVars>>))
  /\ WF_vars(ServerFinishes /\ UNCHANGED <<gateVars, roomVars>>)
  /\ WF_vars(GateTimer) /\ WF_vars(WindowEnds \/ ClearFails)

FairSpec == Spec /\ Fairness

-----------------------------------------------------------------------------
(* Properties                                                              *)

(* No audio of a response reaches the recipient once its text was rated    *)
(* Level 3 (session_a.py:221, the text comes before the audio), unless it  *)
(* was interrupted meanwhile.                                              *)
BlockedIsSilent == ~(AudioPasses /\ Audible /\ Heard \in wanted \cap harmful)

(* Neither side is muted for good: who waits for Session A is let through, *)
(* and the echo window over the recipient closes (mark_generating and      *)
(* echo_gate.py's timers, under interrupts, refusals and corrections).     *)
MutesEnd == []V2VTypeOK /\ GeneratingEnds /\ WindowCloses
=============================================================================
