----------------------------- MODULE WebPlayer -----------------------------
(***************************************************************************)
(* WebAudioPlayer: chunks are queued and played one after the other, the   *)
(* "ended" event of one source starting the next.  A source that was       *)
(* stopped still delivers its event, later; a suspended context delays the *)
(* first chunk by a promise.  Start times are left out.                    *)
(***************************************************************************)
EXTENDS Naturals

NoPlayer == [queue |-> 0, current |-> FALSE, earlier |-> FALSE,
             stale |-> FALSE, resuming |-> FALSE, suspended |-> TRUE,
             playing |-> FALSE]

PlayerRecord(maxQueue) ==
  [queue : 0..maxQueue, current : BOOLEAN, earlier : BOOLEAN,
   stale : BOOLEAN, resuming : BOOLEAN, suspended : BOOLEAN,
   playing : BOOLEAN]

\* scheduleBuffer(): a source that was current goes on sounding unnamed.
Scheduled(p) ==
  [p EXCEPT !.current = TRUE, !.earlier = @ \/ p.current]

\* Fault: an empty queue does not take isPlayingState back.
PlayedNextKeepsFlag(p) ==
  IF p.queue = 0 THEN p
  ELSE LET q == [p EXCEPT !.queue = @ - 1, !.playing = TRUE]
       IN IF p.suspended THEN [q EXCEPT !.resuming = TRUE] ELSE Scheduled(q)

PlayedNext(p) ==
  IF p.queue = 0 THEN [p EXCEPT !.playing = FALSE]
  ELSE LET q == [p EXCEPT !.queue = @ - 1, !.playing = TRUE]
       IN IF p.suspended THEN [q EXCEPT !.resuming = TRUE] ELSE Scheduled(q)

Played(p) == LET q == [p EXCEPT !.queue = @ + 1]
             IN IF p.playing THEN q ELSE PlayedNext(q)

\* stop(): the current source is stopped and will still say "ended".
PlayerStopped(p) ==
  [p EXCEPT !.queue = 0, !.current = FALSE, !.stale = @ \/ p.current,
            !.playing = FALSE]

QueueCleared(p) == [p EXCEPT !.queue = 0]

\* onended of the current source, of one that was superseded, of a stopped one.
SourceEnded(p, which) ==
  PlayedNext(CASE which = "current" -> [p EXCEPT !.current = FALSE]
               [] which = "earlier" -> [p EXCEPT !.earlier = FALSE]
               [] which = "stale"   -> [p EXCEPT !.stale = FALSE])
CanEnd(p, which) == CASE which = "current" -> p.current /\ ~p.earlier
                      [] which = "earlier" -> p.earlier
                      [] which = "stale"   -> p.stale
Sources == {"current", "earlier", "stale"}

\* ctx.resume().then(scheduleBuffer)
PlayerResumed(p) == Scheduled([p EXCEPT !.resuming = FALSE, !.suspended = FALSE])
=============================================================================
