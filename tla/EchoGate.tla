------------------------------ MODULE EchoGate ------------------------------
(***************************************************************************)
(* EchoGateManager: while Session A's voice is on the line the recipient's *)
(* audio is replaced by silence.  The window is opened by a commit of the  *)
(* user or by Session A's audio, and closed by a cooldown after            *)
(* response.done, by a watchdog, or by a recipient who is loud or speaks.  *)
(* Each operation is a formula over the gate's variables; the pipeline     *)
(* says when it happens.  Durations are abstract, and so is the settling   *)
(* after a window, in which loud frames reach the VAD as at other times.   *)
(***************************************************************************)
VARIABLES
  window,     \* _in_echo_window
  absorbed,   \* _first_breakthrough_absorbed
  counting,   \* _tts_first_chunk_at is set: a response is being spoken
  cooldown,   \* _echo_cooldown_task: none (or settling down), sleeping,
              \* clearing Session B's input, failed with an exception
  watchdog    \* _pre_activate_timeout is pending

gateVars == <<window, absorbed, counting, cooldown, watchdog>>

GateTypeOK ==
  /\ window \in BOOLEAN /\ absorbed \in BOOLEAN
  /\ counting \in BOOLEAN /\ watchdog \in BOOLEAN
  /\ cooldown \in {"none", "sleeping", "clearing", "failed"}

GateInit ==
  /\ window = FALSE /\ absorbed = FALSE /\ counting = FALSE
  /\ cooldown = "none" /\ watchdog = FALSE

(* should_process_vad.                                                     *)
ShouldProcessVad == ~window

(* Fault: a cooldown that still runs is forgotten.                         *)
ActivateKeepsCooldown ==
  /\ window' = TRUE
  /\ absorbed' = (window /\ absorbed)
  /\ UNCHANGED cooldown

Activate ==
  /\ window' = TRUE
  /\ absorbed' = (window /\ absorbed)
  /\ cooldown' = "none"

Deactivate ==
  /\ window' = FALSE /\ counting' = FALSE /\ watchdog' = FALSE
  /\ cooldown' = "none" /\ UNCHANGED absorbed

PreActivate == Activate /\ watchdog' = TRUE /\ UNCHANGED counting

OnTtsChunk ==
  /\ Activate
  /\ watchdog' = FALSE /\ counting' = TRUE

(* A cooldown that runs is cancelled and starts again.                     *)
OnTtsDone ==
  /\ cooldown' = "sleeping" /\ counting' = FALSE
  /\ UNCHANGED <<window, absorbed, watchdog>>

OnRecipientSpeech == IF window THEN Deactivate ELSE UNCHANGED gateVars

(* filter_audio of a loud frame: the first one in a window is taken for an *)
(* echo, the next one is the recipient's.                                  *)
FilterLoud ==
  /\ window
  /\ IF absorbed
     THEN Deactivate
     ELSE absorbed' = TRUE /\ UNCHANGED <<window, counting, cooldown, watchdog>>

(* The watchdog of 5 s; the events of a response that is being spoken come *)
(* faster than that and cancel it.                                         *)
WatchdogFires ==
  /\ watchdog /\ ~counting
  /\ watchdog' = FALSE /\ window' = FALSE
  /\ UNCHANGED <<absorbed, counting, cooldown>>

(* The cooldown has slept and clears Session B's input ...                 *)
CooldownClears ==
  /\ cooldown = "sleeping" /\ cooldown' = "clearing"
  /\ UNCHANGED <<window, absorbed, counting, watchdog>>

(* ... then the window closes.                                             *)
CooldownCloses ==
  /\ cooldown = "clearing" /\ cooldown' = "none"
  /\ window' = FALSE
  /\ UNCHANGED <<absorbed, counting, watchdog>>

(* The send of the clear raises: the task is gone, the window as it was.   *)
ClearRaises ==
  /\ cooldown = "clearing" /\ cooldown' = "failed"
  /\ UNCHANGED <<window, absorbed, counting, watchdog>>

-----------------------------------------------------------------------------
(* Properties                                                              *)

(* While a response is being spoken the window is open: no timer of an     *)
(* earlier response or commit closes it, only the recipient does           *)
(* (echo_gate.py:174-177, 277).                                            *)
StreamingIsMasked == counting => window

(* A window does not stay open: it mutes the recipient.  (A cooldown that  *)
(* could not clear Session B's input leaves it to the next response.)      *)
WindowCloses == []<>(~window \/ cooldown = "failed")
=============================================================================
