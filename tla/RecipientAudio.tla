---------------------------- MODULE RecipientAudio ----------------------------
(***************************************************************************)
(* The way of a call's audio to its OpenAI session: each chunk is written  *)
(* to the ring buffer and sent, unless the session is being recovered or   *)
(* in degraded mode; a recovery catches up on the chunks that were not     *)
(* sent.  It is the recipient's audio (handle_twilio_audio, Session B), with *)
(* the server's VAD or the local one, or the user's (handle_user_audio,    *)
(* Session A), whose chunks go to Whisper in degraded mode, a few seconds  *)
(* at a time; nothing ends degraded mode (exit_degraded_mode is not        *)
(* called), a later recovery of the session included.                      *)
(*                                                                         *)
(* A chunk is handled at a time; the handler awaits the local VAD and its  *)
(* callbacks before the chunk is sent.  A chunk that the local VAD replaces *)
(* by silence is sent like any other.                                      *)
(***************************************************************************)
EXTENDS AudioRingBuffer

CONSTANTS
  MaxChunks,        \* bound on the chunks of a call
  MaxTroubles         \* bound on broken connections, error events

ASSUME AudioAssumption ==
  /\ MaxChunks \in Nat /\ MaxTroubles \in Nat

VARIABLES
  path,         \* whose audio: user, recipient (local VAD), server_vad
  conn,         \* the session: up, broken (not noticed yet), closed (_closed)
  isRecovering,   \* is_recovering
  isDegraded,     \* is_degraded
  catchup,      \* where the recovery is: no, reconnecting, transcribing
  batch,        \* the chunks Whisper is transcribing
  handling,     \* the chunk that the handler is sending, 0 if none
  degradedBuffer,  \* _degraded_buffer: less than three seconds of chunks
  whispering,   \* the batch of degraded mode for whose text the handler waits
  callUp,       \* the handler's stream is alive
  (* the chunks' fates, for the properties *)
  delivered,    \* reached the session
  transcribed,  \* Whisper answered with their text (or that there is none)
  wasted,       \* a catch-up had them, but its request or a caption failed
  gated,        \* were filtered (echo window, energy gate)
  swallowed,    \* were given to a session that is marked closed
  late,         \* arrived while a catch-up was transcribing
  waived,       \* arrived in degraded mode
  whispered,    \* were handed to Whisper in degraded mode
  troubles

fates == <<delivered, transcribed, wasted, gated, swallowed, late, waived, whispered>>
degradedVars == <<degradedBuffer, whispering>>
recoveryVars == <<isRecovering, isDegraded, catchup, batch>>
audioVars ==
  <<ringVars, path, conn, recoveryVars, degradedVars, handling, callUp, fates, troubles>>

AudioTypeOK ==
  /\ RingTypeOK
  /\ path \in {"user", "recipient", "server_vad"}
  /\ lastReceived \in 0..MaxChunks /\ lastSent \in 0..lastReceived
  /\ conn \in {"up", "broken", "closed"}
  /\ isRecovering \in BOOLEAN /\ isDegraded \in BOOLEAN /\ callUp \in BOOLEAN
  /\ catchup \in {"no", "reconnecting", "transcribing"}
  /\ handling \in 0..lastReceived
  /\ {batch, degradedBuffer, whispering} \subseteq SUBSET (1..lastReceived)
  /\ {delivered, gated, swallowed, late, waived, whispered} \subseteq SUBSET (1..lastReceived)
  /\ {transcribed, wasted} \subseteq SUBSET (1..lastReceived)
  /\ troubles \in 0..MaxTroubles

AudioInit ==
  /\ RingInit
  /\ path \in {"user", "recipient", "server_vad"}
  /\ conn = "up" /\ isRecovering = FALSE /\ isDegraded = FALSE
  /\ catchup = "no" /\ batch = {} /\ handling = 0 /\ callUp = TRUE
  /\ degradedBuffer = {} /\ whispering = {}
  /\ delivered = {} /\ transcribed = {} /\ wasted = {} /\ gated = {}
  /\ swallowed = {} /\ late = {} /\ waived = {} /\ whispered = {}
  /\ troubles = 0

-----------------------------------------------------------------------------
(* The handler of the stream                                               *)

Arrives ==
  /\ callUp /\ handling = 0 /\ whispering = {} /\ lastReceived < MaxChunks
  /\ Write

(* While the session recovers the chunk is only written.                   *)
ChunkHeld ==
  /\ Arrives
  /\ isRecovering
  /\ late' = IF catchup = "transcribing" THEN late \cup {lastReceived'} ELSE late
  /\ UNCHANGED <<path, conn, recoveryVars, degradedVars, handling, callUp, delivered,
                 transcribed, wasted, gated, swallowed, waived, whispered, troubles>>

(* process_degraded_audio: the chunks are collected, and after three       *)
(* seconds Whisper is given them all, for which the handler waits.         *)
Collect(chunks) ==
  \/ /\ degradedBuffer' = chunks
     /\ UNCHANGED <<whispering, whispered>>
  \/ /\ degradedBuffer # {}
     /\ degradedBuffer' = {} /\ whispering' = chunks
     /\ whispered' = whispered \cup chunks

(* In degraded mode the user's chunk is collected, the recipient's goes    *)
(* nowhere.                                                                *)
ChunkDegraded ==
  /\ Arrives
  /\ ~isRecovering /\ isDegraded
  /\ waived' = waived \cup {lastReceived'}
  /\ IF path = "user" THEN Collect(degradedBuffer \cup {lastReceived'})
                      ELSE UNCHANGED <<degradedVars, whispered>>
  /\ UNCHANGED <<path, conn, recoveryVars, handling, callUp, delivered, transcribed,
                 wasted, gated, swallowed, late, troubles>>

(* Whisper's answer to a batch of degraded mode, or its failure, which is  *)
(* swallowed: the batch is not kept.                                       *)
DegradedAnswered ==
  /\ callUp /\ whispering # {}
  /\ whispering' = {}
  /\ transcribed' \in {transcribed, transcribed \cup whispering}
  /\ UNCHANGED <<ringVars, path, conn, recoveryVars, degradedBuffer, handling, callUp,
                 delivered, wasted, gated, swallowed, late, waived, whispered, troubles>>

(* The server-VAD path filters the chunk and leaves it unmarked.           *)
ChunkGated ==
  /\ Arrives
  /\ ~isRecovering /\ ~isDegraded /\ path = "server_vad"
  /\ gated' = gated \cup {lastReceived'}
  /\ UNCHANGED <<path, conn, recoveryVars, degradedVars, handling, callUp, delivered,
                 transcribed, wasted, swallowed, late, waived, whispered, troubles>>

ChunkTaken ==
  /\ Arrives
  /\ ~isRecovering /\ ~isDegraded
  /\ handling' = lastReceived'
  /\ UNCHANGED <<path, conn, recoveryVars, degradedVars, callUp, fates, troubles>>

(* _send: a session that is marked closed swallows the chunk, which is     *)
(* marked as sent all the same; a connection that is lost already raises,  *)
(* which ends the stream's handler and thereby the call.                   *)
ChunkSent ==
  /\ handling # 0
  /\ handling' = 0
  /\ IF conn = "broken"
     THEN /\ callUp' = FALSE
          /\ UNCHANGED <<ringVars, delivered, swallowed>>
     ELSE /\ IF conn = "up"
             THEN delivered' = delivered \cup {handling} /\ UNCHANGED swallowed
             ELSE swallowed' = swallowed \cup {handling} /\ UNCHANGED delivered
          /\ MarkSent(handling)
          /\ UNCHANGED callUp
  /\ UNCHANGED <<path, conn, recoveryVars, degradedVars, transcribed, wasted, gated,
                 late, waived, whispered, troubles>>

-----------------------------------------------------------------------------
(* The session and its recovery (see SessionRecovery)                      *)

Trouble == troubles < MaxTroubles /\ troubles' = troubles + 1

ConnectionBreaks ==
  /\ callUp /\ conn = "up" /\ Trouble
  /\ conn' = "broken"
  /\ UNCHANGED <<path, ringVars, recoveryVars, degradedVars, handling, callUp, fates>>

LossNoticed ==
  /\ conn = "broken"
  /\ conn' = "closed"
  /\ UNCHANGED <<path, ringVars, recoveryVars, degradedVars, handling, callUp, fates, troubles>>

(* A recovery starts: a closed session, or an error event of one that is   *)
(* up.                                                                     *)
RecoveryStarts ==
  /\ callUp /\ ~isRecovering
  /\ IF conn = "up" THEN Trouble ELSE UNCHANGED troubles
  /\ isRecovering' = TRUE /\ catchup' = "reconnecting"
  /\ UNCHANGED <<path, ringVars, conn, isDegraded, batch, degradedVars, handling, callUp, fates>>

(* The recovery closes the session, ...                                    *)
SessionDropped ==
  /\ callUp /\ catchup = "reconnecting" /\ conn # "closed"
  /\ conn' = "closed"
  /\ UNCHANGED <<path, ringVars, recoveryVars, degradedVars, handling, callUp, fates, troubles>>

(* ... and connects it again: the chunks that were not sent go to Whisper, *)
(* if there are any.                                                       *)
Reconnected ==
  /\ callUp /\ catchup = "reconnecting" /\ conn = "closed"
  /\ conn' = "up"
  /\ IF Unsent = {}
     THEN /\ isRecovering' = FALSE /\ catchup' = "no"
          /\ UNCHANGED batch
     ELSE /\ catchup' = "transcribing" /\ batch' = Unsent
          /\ UNCHANGED isRecovering
  /\ UNCHANGED <<path, ringVars, isDegraded, degradedVars, handling, callUp, fates, troubles>>

(* Fault: degraded mode begins with a clean mark.                          *)
ReconnectFailsMarked ==
  /\ callUp /\ catchup = "reconnecting"
  /\ conn' = "closed"
  /\ isDegraded' = TRUE /\ isRecovering' = FALSE /\ catchup' = "no"
  /\ MarkAllSent
  /\ UNCHANGED <<path, batch, degradedVars, handling, callUp, fates, troubles>>

ReconnectFails ==
  /\ callUp /\ catchup = "reconnecting"
  /\ conn' = "closed"
  /\ isDegraded' = TRUE /\ isRecovering' = FALSE /\ catchup' = "no"
  /\ UNCHANGED <<path, ringVars, batch, degradedVars, handling, callUp, fates, troubles>>

(* Whisper has answered (its text is shown, or there is none) or failed,   *)
(* which is swallowed: everything received by now is marked as sent.       *)
CaughtUp ==
  /\ callUp /\ catchup = "transcribing"
  /\ catchup' = "no" /\ isRecovering' = FALSE /\ batch' = {}
  /\ \/ transcribed' = transcribed \cup batch /\ UNCHANGED wasted
     \/ wasted' = wasted \cup batch /\ UNCHANGED transcribed
  /\ MarkAllSent
  /\ UNCHANGED <<path, conn, isDegraded, degradedVars, handling, callUp, delivered, gated,
                 swallowed, late, waived, whispered, troubles>>

(* The callback of the caption raised: nothing is marked.                  *)
CatchUpFails ==
  /\ callUp /\ catchup = "transcribing"
  /\ catchup' = "no" /\ isRecovering' = FALSE /\ batch' = {}
  /\ wasted' = wasted \cup batch
  /\ UNCHANGED <<path, ringVars, conn, isDegraded, degradedVars, handling, callUp, delivered,
                 transcribed, gated, swallowed, late, waived, whispered, troubles>>

AudioNext ==
  \/ ChunkHeld \/ ChunkDegraded \/ DegradedAnswered \/ ChunkGated \/ ChunkTaken \/ ChunkSent
  \/ ConnectionBreaks \/ LossNoticed \/ RecoveryStarts \/ SessionDropped \/ Reconnected
  \/ ReconnectFails \/ CaughtUp \/ CatchUpFails

AudioSpec == AudioInit /\ [][AudioNext]_audioVars

-----------------------------------------------------------------------------
(* Properties                                                              *)

\* The chunks that the buffer still has.
Retained == {n \in 1..lastReceived : n + Capacity > lastReceived}

(* Degraded mode means Whisper (apps/relay-server/README.md:415): what     *)
(* arrives in it has been handed to Whisper, or waits for the three        *)
(* seconds to be full. False of the recipient's audio, which goes nowhere. *)
DegradedIsWhispered == waived \subseteq degradedBuffer \cup whispered

(* The buffer retains undelivered audio and a reconnect transcribes it     *)
(* (README.md:185): a chunk that it still has counts as sent only if the   *)
(* session got it, it was transcribed or left out on purpose. Three ways   *)
(* of losing it are excepted, which the code takes and the documents do    *)
(* not mention: a failed transcription, a chunk that arrives during one, a *)
(* session marked closed. Degraded mode is no exception.                   *)
SentIsAccountedFor ==
  \A n \in Retained :
    n <= lastSent =>
      n \in delivered \cup transcribed \cup gated \cup wasted \cup late \cup swallowed

(* Whatever is lost and restored, and in degraded mode too, no audio is    *)
(* forgotten but in the three ways of SentIsAccountedFor: it stays in the  *)
(* gap that the next reconnect transcribes; and the user's audio of        *)
(* degraded mode goes to Whisper or waits to.                              *)
NoAudioIsForgotten ==
  AudioTypeOK /\ SentIsAccountedFor /\ (path = "user" => DegradedIsWhispered)

(* On reconnect, unsent audio is transcribed (README.md:185), that which   *)
(* came while Whisper was at work included. False: the end of a catch-up   *)
(* marks it as sent with the batch that it was not part of.                *)
LateIsTranscribed ==
  \A n \in late \cap Retained : n \in transcribed \cup wasted \/ n > lastSent
=============================================================================
