---------------------------- MODULE MobileAudio ----------------------------
(***************************************************************************)
(* The phone app's microphone and loudspeaker. useAudioRecorder records in *)
(* pieces: a timer stops the recording, reads its file and starts the next *)
(* one, each of it with an await, whether or not the last piece is done;   *)
(* useClientVad listens to the pieces. useAudioPlayback plays what it is   *)
(* sent from files, one after the other.                                   *)
(***************************************************************************)
EXTENDS Naturals

CONSTANTS TaskIds,     \* bound: tasks of the recorder in flight
          MaxSounds    \* bound: sounds being prepared, stopped or astray
ASSUME MaxSoundsAssumption == MaxSounds \in Nat \ {0}

----------------------------------------------------------------------------
(* The recorder: open is the device's one recording, ref says that         *)
(* recordingRef holds it                                                   *)

NoTask == [kind |-> "none", stage |-> "none", current |-> FALSE]
MicOff == [tasks |-> [i \in TaskIds |-> NoTask], rec |-> FALSE, timer |-> FALSE,
           lost |-> FALSE, open |-> FALSE, ref |-> FALSE,
           vad |-> "silent", resetting |-> FALSE, userSpeaking |-> FALSE]

Task(kind, stage) == [kind |-> kind, stage |-> stage, current |-> stage = "stop"]
FreeTasks(m)  == {i \in TaskIds : m.tasks[i] = NoTask}
Silenced(m)   == [m EXCEPT !.vad = "silent"]

\* start: the VAD is reset, permission and the first recording are awaited.
MicStarted(m, i) == [Silenced(m) EXCEPT !.tasks[i] = Task("start", "create")]
\* stop: the interval at hand is cleared, the last piece awaited.
MicStopped(m, i) ==
  [m EXCEPT !.timer = FALSE, !.tasks[i] = Task("final", IF m.ref THEN "stop" ELSE "mode")]
\* The interval, or one whose handle was overwritten by a second start.
PieceDue(m, i) == [m EXCEPT !.tasks[i] = Task("piece", IF m.ref THEN "stop" ELSE "create")]

\* stopCurrentRecording: recordingRef is forgotten, whatever it holds by now;
\* a recording another task has closed still yields its file.
RecordingClosed(m, i, ok) ==
  LET mine == m.tasks[i].current
      next == IF ok THEN "read" ELSE IF m.tasks[i].kind = "final" THEN "mode" ELSE "create"
  IN  [m EXCEPT !.open = @ /\ ~mine, !.ref = FALSE,
                !.tasks = [j \in TaskIds |->
                   IF j = i THEN [m.tasks[j] EXCEPT !.stage = next, !.current = FALSE]
                   ELSE [m.tasks[j] EXCEPT !.current = @ /\ ~mine]]]
PieceRead(m, i) ==
  [m EXCEPT !.tasks[i].stage = IF m.tasks[i].kind = "final" THEN "mode" ELSE "create"]
\* startNewChunkRecording: one recording at a time; a failure is swallowed.
RecordingCreated(m, i, ok) ==
  LET made == ok /\ ~m.open
      t == [m EXCEPT !.tasks[i] = NoTask, !.open = @ \/ made, !.ref = @ \/ made]
  IN  IF m.tasks[i].kind = "start"
      THEN [t EXCEPT !.rec = TRUE, !.timer = TRUE, !.lost = @ \/ m.timer] ELSE t
StartDenied(m, i) == [m EXCEPT !.tasks[i] = NoTask, !.rec = FALSE]
StopDone(m, i) == [Silenced(m) EXCEPT !.tasks[i] = NoTask, !.rec = FALSE]

----------------------------------------------------------------------------
(* The VAD; onset and end delays are a choice at each piece                *)

VadMoves(from) == CASE from = "silent"    -> {"silent", "speaking"}
                    [] from = "speaking"  -> {"speaking", "committed"}
                    [] from = "committed" -> {"committed"}

\* handleChunk: silence is kept back; speech is sent after it; the
\* piece that ends the speech is sent after the commit, which takes the
\* speaking flag of useRealtimeCall back only for that piece to raise it.
Heard(m, to) ==
  [m EXCEPT !.vad = to,
            !.resetting = @ \/ (m.vad = "speaking" /\ to = "committed"),
            !.userSpeaking = @ \/ to # "silent"]
\* Playback is stopped when the flag rises.
BargesIn(m, to) ==
  to # "silent" /\ (~m.userSpeaking \/ (m.vad = "speaking" /\ to = "committed"))
VadReset(m) == [m EXCEPT !.resetting = FALSE, !.vad = "silent"]

----------------------------------------------------------------------------
(* Playback: cur is what soundRef holds, astray counts sounds it has lost  *)

NoPlayer == [queue |-> 0, playing |-> FALSE, writing |-> 0, creating |-> 0,
             cur |-> "none", astray |-> 0, stopping |-> 0]
Busy(p) == p.writing + p.creating + p.stopping + p.astray

playNext(p) ==
  IF p.playing \/ p.queue = 0 THEN p
  ELSE [p EXCEPT !.queue = @ - 1, !.playing = TRUE, !.writing = @ + 1]
enqueue(p) == playNext([p EXCEPT !.queue = @ + 1])
\* The file is written; the sound before it is unloaded.
FileWritten(p)  == [p EXCEPT !.writing = @ - 1, !.creating = @ + 1, !.cur = "none"]
SoundCreated(p) ==
  [p EXCEPT !.creating = @ - 1, !.cur = "sounding",
            !.astray = IF p.cur = "sounding" THEN @ + 1 ELSE @]
\* Fault: a sound that cannot be created ends the chain.
SoundFailsAlone(p, stage) == [p EXCEPT ![stage] = @ - 1, !.playing = FALSE]
SoundFails(p, stage) == playNext([p EXCEPT ![stage] = @ - 1, !.playing = FALSE])
SoundEnds(p, lost) ==
  playNext(IF lost THEN [p EXCEPT !.astray = @ - 1, !.playing = FALSE]
           ELSE [p EXCEPT !.cur = "over", !.playing = FALSE])
\* stop awaits the sound at hand and then unloads what is at hand by then.
stop(p) ==
  [p EXCEPT !.queue = 0, !.playing = FALSE,
            !.cur = IF @ = "none" THEN @ ELSE "over",
            !.stopping = IF p.cur = "none" THEN @ ELSE @ + 1]
StopAwaited(p)  == [p EXCEPT !.stopping = @ - 1, !.cur = "none"]
clearQueue(p)   == [p EXCEPT !.queue = 0]
=============================================================================
