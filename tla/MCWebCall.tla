----------------------------- MODULE MCWebCall -----------------------------
(***************************************************************************)
(* WebCall for TLC: captions are followed in text calls, playback in agent *)
(* calls and the microphone in voice calls, so that the three do not       *)
(* multiply each other's states.                                           *)
(***************************************************************************)
EXTENDS WebCall

MCModes == {"voice_to_voice", "text_to_voice", "full_agent"}
MCMaxCaptions ==
  [mode \in MCModes |->
     IF mode = "text_to_voice" THEN 2 ELSE 0]
MCMaxQueue ==
  [mode \in MCModes |-> IF mode = "full_agent" THEN 1 ELSE 0]
=============================================================================
