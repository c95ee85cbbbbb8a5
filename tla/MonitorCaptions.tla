-------------------------- MODULE MonitorCaptions --------------------------
(***************************************************************************)
(* How useRelayMonitor pairs what it hears into bubbles. A piece is a      *)
(* caption of one voice: the original (a late answer of the recogniser) or *)
(* one delta of the translation. bubbles holds, in order, what was paired; *)
(* open the bubble each voice's translation is being added to, 0 if none.  *)
(*                                                                         *)
(* The pairing is the updater of a setState: React may run it at once when *)
(* nothing else is waiting, or leave it in the queue for the next render,  *)
(* and it reads and writes the refs (open) whenever it runs.               *)
(***************************************************************************)
EXTENDS SequencesExt, Naturals

Voices == {"caller", "callee"}
Parts  == {"original", "translation"}
NoBubbles == [bubbles |-> <<>>, open |-> [v \in Voices |-> 0], queue |-> <<>>, dirty |-> FALSE]

NewBubble(p) == [voice |-> p.voice, original |-> IF p.part = "original" THEN {p} ELSE {},
                 translation |-> IF p.part = "translation" THEN {p} ELSE {}]

\* The bubbles of the voice that still lack this part.
\* Fault: any bubble of the voice will do.
AnyOf(c, p) == {i \in DOMAIN c.bubbles : c.bubbles[i].voice = p.voice}
Lacking(c, p) ==
  {i \in DOMAIN c.bubbles : c.bubbles[i].voice = p.voice /\ c.bubbles[i][p.part] = {}}

\* A translation joins the open bubble, any part the latest that lacks it,
\* or a bubble of its own.
Joins(c, p) == p.part = "translation" /\ c.open[p.voice] # 0
Place(c, p) ==
  CASE Joins(c, p) -> c.open[p.voice]
    [] ~Joins(c, p) /\ Lacking(c, p) # {} -> Max(Lacking(c, p))
    [] OTHER -> Len(c.bubbles) + 1
Filled(b, p, joins) == [b EXCEPT ![p.part] = IF joins THEN @ \cup {p} ELSE {p}]
Paired(c, p) ==
  LET at == Place(c, p)
  IN  [c EXCEPT
        !.bubbles = IF at > Len(@) THEN Append(@, NewBubble(p))
                    ELSE [@ EXCEPT ![at] = Filled(c.bubbles[at], p, Joins(c, p))],
        !.open[p.voice] = IF p.part = "translation" THEN at ELSE @]

\* setCaptions: at once, which needs a component with nothing waiting, or later.
Captioned(c, p) ==
  {[c EXCEPT !.queue = Append(@, p), !.dirty = TRUE]}
  \cup IF c.dirty THEN {} ELSE {[Paired(c, p) EXCEPT !.dirty = TRUE]}
Rendered(c) == [FoldLeft(Paired, c, c.queue) EXCEPT !.queue = <<>>, !.dirty = FALSE]

\* A caption of the callee ends the caller's turn, not the other way round.
CallerInterrupted(c, p) == IF p.voice = "callee" THEN [c EXCEPT !.open["caller"] = 0] ELSE c

----------------------------------------------------------------------------
(* MonitorTranscript *)

\* turn 0 of the caller is the relay's announcement, whose text has known
\* phrases; the first delta stands for those that carry one. The bubble it is
\* the translation of is hidden, whatever it was paired with; the others, a
\* late rest of the announcement too, are shown in their order.
IsSystemBoilerplate(b) ==
  \E p \in b.translation : p.voice = "caller" /\ p.turn = 0 /\ p.delta = 1
Transcript(c) == {i \in DOMAIN c.bubbles : ~IsSystemBoilerplate(c.bubbles[i])}
\* The main line of a bubble is the original if there is one.
Spoken(b)     == IF b.original # {} THEN b.original ELSE b.translation
Subtitle(b)   == IF b.original # {} THEN b.translation ELSE {}
=============================================================================
