----------------------------- MODULE Microphone -----------------------------
(***************************************************************************)
(* The caller's microphone in the browser: the recorder that useWebAudio-  *)
(* Recorder starts and stops as "enabled" changes, the energy VAD with its *)
(* pre-buffer, and what useRelayCall does with the chunks.  Getting the    *)
(* device takes several awaits, so a start is answered by a step of its    *)
(* own.  Onset and end delays are abstracted to a choice at each chunk.    *)
(***************************************************************************)
EXTENDS Naturals

CONSTANT MaxStarts               \* bound on the getUserMedia calls in flight
ASSUME MaxStartsAssumption == MaxStarts \in Nat \ {0}

VadStates == {"silence", "speech", "committed"}

MicOff == [starting |-> 0, held |-> FALSE, leaked |-> FALSE,
           refused |-> FALSE, vad |-> "silence", buffered |-> FALSE,
           resetting |-> FALSE, userSpeaking |-> FALSE]

MicRecord == [starting : 0..MaxStarts, held : BOOLEAN, leaked : BOOLEAN,
              refused : BOOLEAN, vad : VadStates, buffered : BOOLEAN, resetting : BOOLEAN,
              userSpeaking : BOOLEAN]

\* Fault: no start while any recorder feeds the VAD, one nobody can stop too.
StartedUnlessFed(m) ==
  IF m.held \/ m.leaked THEN m
  ELSE [m EXCEPT !.starting = IF @ < MaxStarts THEN @ + 1 ELSE @, !.refused = FALSE]

\* start(): nothing if the recorder at hand records, else a new recorder and
\* the error of an earlier start forgotten.
MicStarted(m) ==
  IF m.held THEN m
  ELSE [m EXCEPT !.starting = IF @ < MaxStarts THEN @ + 1 ELSE @, !.refused = FALSE]

\* stop() only knows the recorder that has finished starting; the VAD, the
\* pre-buffer and isSpeaking are reset, useRelayCall's flag is not.
MicStopped(m) == [m EXCEPT !.held = FALSE, !.vad = "silence", !.buffered = FALSE]

\* The effects on "enabled" of the recorder and of the VAD.
MicFollows(m, was, is) ==
  IF is /\ ~was THEN MicStarted(m) ELSE IF was /\ ~is THEN MicStopped(m) ELSE m

\* await recorder.start() returned: a recorder held before is forgotten.
MicReady(m)  == [m EXCEPT !.starting = @ - 1, !.held = TRUE,
                          !.leaked = @ \/ m.held]
MicDenied(m) == [m EXCEPT !.starting = @ - 1, !.refused = TRUE]

\* Recorders that feed this VAD: those of a component that is gone feed its
\* refs, and nobody hears them.
Recording(m) == m.held \/ m.leaked

\* One chunk, in the recorder's order: handleChunk, then processSamples,
\* which may change the VAD's state to "to".
VadMoves(from) == CASE from = "silence"   -> {"silence", "speech"}
                    [] from = "speech"    -> {"speech", "committed"}
                    [] from = "committed" -> {"committed"}

Flushed(m) == [m EXCEPT !.userSpeaking = @ \/ m.buffered, !.buffered = FALSE]

Handled(m) == IF m.vad = "silence" THEN [m EXCEPT !.buffered = TRUE]
              ELSE [m EXCEPT !.userSpeaking = TRUE]

Processed(m, to) ==
  CASE m.vad = "silence" /\ to = "speech" ->
         [Flushed(m) EXCEPT !.vad = "speech"]
    [] m.vad = "speech" /\ to = "committed" ->
         [m EXCEPT !.vad = "committed", !.resetting = TRUE,
                   !.userSpeaking = FALSE]
    [] OTHER -> m

Captured(m, to) == Processed(Handled(m), to)

VadReset(m) == [m EXCEPT !.resetting = FALSE, !.vad = "silence"]
=============================================================================
