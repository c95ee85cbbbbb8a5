------------------------------ MODULE MCMobile ------------------------------
(* A small instance of the phone app for TLC.                              *)
EXTENDS MobileCall

(* Bound: captions and the banner, which neither the microphone nor the    *)
(* player reads or changes, come while both are at rest.                   *)
CaptionsAtRest ==
  \/ view.captions = {} /\ view.recovery = "none" /\ ~view.fading
  \/ mic = MicOff /\ player = NoPlayer

(* Bound: microphone and player do not both have all they can at work.     *)
OneCrowd == FreeTasks(mic) # {} \/ Busy(player) < MaxSounds
=============================================================================
