------------------------------ MODULE Monitor ------------------------------
(***************************************************************************)
(* The observer: the list of calls (/monitor or /monitor2) and the screen  *)
(* that follows one call (hooks/useRelayMonitor.ts and the components      *)
(* under components/monitor). Its socket is a RelayLink; what the relay    *)
(* says while the link is not up is missed. talk is the call that is       *)
(* watched, seen from outside.                                             *)
(***************************************************************************)
EXTENDS Router, RelayLink, MonitorStore, MonitorCaptions

CONSTANTS MaxTurns,      \* bound: turns of each voice after the announcement
          MaxDeltas,     \* bound: deltas the translation of one turn is streamed in
          MaxMessages,   \* bound: messages of the relay during one visit
          MaxNoise       \* bound: those among them about the pipeline only
ASSUME MonitorAssumption ==
  MaxTurns \in Nat /\ MaxDeltas \in Nat \ {0} /\ MaxMessages \in Nat /\ MaxNoise \in Nat

VARIABLES list,    \* the list page
          watch,   \* the screen of one call
          store,   \* useMonitorStore, what Provider and Replay do not copy
          talk     \* the call: its turns, what was heard of them and passed on

monitorVars == <<list, watch, store, talk>>
linkVars    == <<link, tries>>

Active == {"CALLING", "IN_PROGRESS"}
Over   == {"PENDING", "COMPLETED", "FAILED"}

\* stray: the poll of a list that has been left is still being answered.
NoList  == [asked |-> FALSE, timer |-> FALSE, stray |-> FALSE, loading |-> FALSE,
            error |-> FALSE, calls |-> {}]
NoWatch == [page |-> "none", status |-> "connecting", error |-> FALSE,
            captions |-> NoBubbles, bye |-> FALSE, blocked |-> 0]
Silence == [turn |-> [v \in Voices |-> IF v = "caller" THEN 0 ELSE 1],
            heard |-> {}, messages |-> 0, noise |-> 0]

----------------------------------------------------------------------------
(* The list: one poll at a time, the next four seconds after its answer *)

ListMounted(page, stray) ==
  [NoList EXCEPT !.asked = page \in Lists, !.loading = page \in Lists, !.stray = stray]

\* The timer fires; a hidden tab only sets it again.
Poll(hidden) ==
  /\ list.timer
  /\ list' = [list EXCEPT !.timer = hidden, !.asked = ~hidden]

\* A 401 leaves for /login, mounted or not; the finally clause of a mounted
\* list reads on and schedules the next poll whatever the answer was.
PollAnswered ==
  /\ list.asked
  /\ \E a \in Answers({"ok", "error"}) :
       /\ goto' = IF a = "unauthorized" THEN "login" ELSE goto
       /\ \E seen \in SUBSET {"live", "over"} :
            list' = [list EXCEPT !.asked = FALSE, !.timer = TRUE, !.loading = FALSE,
                       !.error = IF a = "ok" THEN FALSE
                                 ELSE IF a = "unauthorized" THEN @ ELSE TRUE,
                       !.calls = IF a = "ok" THEN seen ELSE @]
  /\ Provisioned
StrayAnswered ==
  /\ list.stray
  /\ list' = [list EXCEPT !.stray = FALSE]
  /\ \E a \in Answers({"ok", "error"}) : goto' = IF a = "unauthorized" THEN "login" ELSE goto
  /\ Provisioned

\* What the list shows: the calls that run above those that are over.
MonitorListPage == IF list.loading THEN "loading" ELSE IF list.error THEN "error" ELSE "rows"
Picks(page) ==
  /\ MonitorListPage = "rows" /\ list.calls # {}
  /\ goto' = page /\ UNCHANGED <<list, account>>

ListStep ==
  /\ \/ \E hidden \in BOOLEAN : Poll(hidden) /\ UNCHANGED <<goto, account>>
     \/ PollAnswered \/ StrayAnswered
     \/ route \in Lists /\ Picks("watch")
  /\ UNCHANGED <<watch, store, talk, linkVars, route, session, form, ended>>

----------------------------------------------------------------------------
(* Opening the screen: a running call is watched live, any other is       *)
(* replayed from its saved transcript                                      *)

WatchMounted(page) == [NoWatch EXCEPT !.page = IF page \in Watches THEN "loading" ELSE "none"]

\* The saved transcript has both texts of every turn.
Piece(v, t, part, d)   == [voice |-> v, turn |-> t, part |-> part, delta |-> d]
SavedPiece(v, t, part) == Piece(v, t, part, 1)
transcriptToCaptions ==
  {<<>>, <<[voice |-> "caller", original |-> {SavedPiece("caller", 1, "original")},
            translation |-> {SavedPiece("caller", 1, "translation")}]>>}

MonitorReplay ==
  \E saved \in transcriptToCaptions :
    watch' = [watch EXCEPT !.page = "replay", !.status = "ended",
                           !.captions.bubbles = saved]
CallLoaded ==
  /\ watch.page = "loading"
  /\ \E a \in Answers(Active \cup Over \cup {"error"}) :
       /\ goto' = IF a = "unauthorized" THEN "login" ELSE goto
       /\ CASE a \in Active -> watch' = [watch EXCEPT !.page = "live"] /\ Dial
            [] a \in Over -> MonitorReplay /\ UNCHANGED linkVars
            [] OTHER -> watch' = [watch EXCEPT !.page = "error"] /\ UNCHANGED linkVars
  /\ Provisioned
  /\ UNCHANGED <<store, talk>>

\* The button of the screen leads back to its list.
BackToList ==
  /\ route \in Watches /\ watch.page # "loading" /\ goto' = "monitor"
  /\ UNCHANGED <<watch, store, talk, linkVars, account>>

----------------------------------------------------------------------------
(* The socket *)

LinkMoves ==
  /\ watch.page = "live"
  /\ Connect \/ Settle \/ (link \in {"trying", "up"} /\ (Retry \/ GiveUp))
  /\ UNCHANGED <<watch, store, talk, goto, account>>

\* The disconnect promised 300 ms after the end, 100 ms after an error.
Leaves ==
  /\ watch.bye
  /\ watch' = [watch EXCEPT !.bye = FALSE]
  /\ Hangup
  /\ UNCHANGED <<store, talk, goto, account>>

Listening == watch.page = "live" /\ link = "up"
HearsOnly == UNCHANGED <<linkVars, goto, account>>
Says(change) ==
  /\ watch.page = "live" /\ talk.messages < MaxMessages
  /\ talk' = [change EXCEPT !.messages = @ + 1]
SaysNoise ==
  Listening /\ talk.noise < MaxNoise /\ Says([talk EXCEPT !.noise = @ + 1])

----------------------------------------------------------------------------
(* What the relay says *)

\* The pieces that can be heard next: the deltas of a turn's translation in
\* their order before the turn is done, its original, one text, any time from
\* its beginning. A piece said while the link is not up is simply never heard.
Sayable ==
  {p \in [voice : Voices, turn : 0..MaxTurns, part : Parts, delta : 1..MaxDeltas] :
     /\ p.turn <= talk.turn[p.voice]
     /\ p.turn = 0 => p.voice = "caller" /\ p.part = "translation"
     /\ p.part = "original" => p.delta = 1 /\ p \notin talk.heard
     /\ p.part = "translation" =>
          /\ p.turn = talk.turn[p.voice]
          /\ \A q \in talk.heard :
               q.voice = p.voice /\ q.turn = p.turn /\ q.part = p.part => q.delta < p.delta}

CaptionSaid(p) ==
  /\ Listening /\ p \in Sayable /\ Says([talk EXCEPT !.heard = @ \cup {p}])
  /\ \E c \in Captioned(CallerInterrupted(watch.captions, p), p) :
       watch' = [watch EXCEPT !.captions = c]
  /\ store' = Lighted(store, p)
  /\ HearsOnly

Renders ==
  /\ watch.captions.dirty
  /\ watch' = [watch EXCEPT !.captions = Rendered(@)]
  /\ UNCHANGED <<store, talk>> /\ HearsOnly

\* translation_state done and caption_done: the turn that has an open bubble
\* is logged as passed on, and the next translation starts a bubble.
Closed(v) == [watch.captions EXCEPT !.open[v] = 0]
TurnDone(v) ==
  /\ watch.page = "live" /\ talk.turn[v] < MaxTurns + 1
  /\ LET passed == watch.captions.open[v] # 0
         st == IF v = "caller" THEN signalA(store, "delivered") ELSE store
     IN IF Listening
        THEN /\ watch' = [watch EXCEPT !.captions = Closed(v)]
             /\ store' = IF passed THEN logActivity(st, "delivered", "pass") ELSE st
        ELSE UNCHANGED <<watch, store>>
  /\ talk' = [talk EXCEPT !.turn[v] = @ + 1]
  /\ HearsOnly
Translating ==
  /\ SaysNoise
  /\ store' = signalA(store, "translating")
  /\ UNCHANGED watch /\ HearsOnly

\* call_status; the snapshot of the call it carries is left out.
StatusSaid(s) ==
  /\ Listening /\ s # watch.status /\ Says(talk)
  /\ watch' = [watch EXCEPT !.status = s, !.captions.dirty = TRUE, !.bye = @ \/ s = "ended"]
  /\ UNCHANGED store /\ HearsOnly

\* Fault: the connection that reported an error is kept.
ErrorKept  == watch' = [watch EXCEPT !.error = TRUE, !.captions.dirty = TRUE]
ErrorShown == watch' = [watch EXCEPT !.error = TRUE, !.captions.dirty = TRUE, !.bye = TRUE]
ErrorSaid ==
  /\ Listening /\ ~watch.error /\ Says(talk)
  /\ ErrorShown
  /\ UNCHANGED store /\ HearsOnly

NoiseSaid ==
  /\ SaysNoise
  /\ \E row \in PipelineEvents \cup {InterruptAlert, Guardrail} : store' = Noted(store, row)
  /\ UNCHANGED watch /\ HearsOnly
\* The relay's counter of blocked hallucinations has grown, by one or
\* several since the last metrics: one entry is made of it.
MetricsSaid ==
  /\ SaysNoise
  /\ \E n \in watch.blocked..(watch.blocked + 2) :
       /\ store' = IF n > watch.blocked THEN Noted(store, Hallucination) ELSE store
       /\ watch' = [watch EXCEPT !.blocked = n]
  /\ HearsOnly

WatchStep ==
  /\ \/ CallLoaded \/ BackToList \/ LinkMoves \/ Leaves \/ Renders \/ Translating
     \/ \E v \in Voices : TurnDone(v)
     \/ \E v \in Voices, t \in 0..MaxTurns, part \in Parts, d \in 1..MaxDeltas :
          CaptionSaid(Piece(v, t, part, d))
     \/ \E s \in {"waiting", "connected", "ended"} : StatusSaid(s)
     \/ ErrorSaid \/ NoiseSaid \/ MetricsSaid
  /\ UNCHANGED <<list, route, session, form, ended>>

MonitorStep == ListStep \/ WatchStep

\* A page of the app has been mounted in the place of another.
MonitorEntered(page, stray) ==
  /\ list' = ListMounted(page, stray)
  /\ watch' = WatchMounted(page)
  /\ store' = initialState /\ talk' = Silence
  /\ Renew
MonitorInit ==
  /\ list = NoList /\ watch = NoWatch /\ store = initialState /\ talk = Silence /\ LinkInit

----------------------------------------------------------------------------
(* Properties *)

\* Every piece that was heard is shown in exactly one bubble, or waits in
\* the queue of updates once: however originals and translations of several
\* turns overtake each other and whenever React runs the updaters, no
\* caption is overwritten or shown twice (hooks/useRelayMonitor.ts, CAPTION).
\* Only the caller's may be hidden with the announcement.
Hidden(p) == \E b \in Range(watch.captions.bubbles) :
               IsSystemBoilerplate(b) /\ p \in Spoken(b) \cup Subtitle(b)
Places(p) ==
  {i \in Transcript(watch.captions) :
     LET b == watch.captions.bubbles[i] IN p \in Spoken(b) \cup Subtitle(b)}
Queued(p) == {j \in DOMAIN watch.captions.queue : watch.captions.queue[j] = p}
NoCaptionIsLost ==
  watch.page = "live" =>
    \A p \in talk.heard :
      /\ Hidden(p) => p.voice = "caller" /\ Places(p) = {}
      /\ \/ Hidden(p)
         \/ Cardinality(Places(p)) + Cardinality(Queued(p)) = 1

\* A call that has ended or failed is left: the link is down or given up, or
\* the disconnect is still to come, whatever reconnect was under way
\* (hooks/useRelayMonitor.ts, PRD M1 against reconnect storms).
GoneCallIsLeft ==
  watch.page = "live" /\ (watch.status = "ended" \/ watch.error)
    => watch.bye \/ link \in {"down", "failed"}

\* The list never stops polling and never polls twice at once: a mounted
\* list either waits for an answer or for its timer (app/monitor/page.tsx).
OnePollLoop == route \in Lists => list.asked # list.timer
=============================================================================
