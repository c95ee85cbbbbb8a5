---------------------------- MODULE MonitorStore ----------------------------
(***************************************************************************)
(* useMonitorStore and the panels of the observer's screen that read it:   *)
(* the lit stages of the live pipeline, the activity log, the catalogue of *)
(* signals. A light goes out DECAY_MS after it was lit: of the times only   *)
(* which stage was lit last is kept, and the panels take the lights still  *)
(* on as an argument.                                                      *)
(***************************************************************************)
EXTENDS SequencesExt, Naturals

CONSTANTS EventLimit, LogLimit   \* entries the feed and the log keep
ASSUME StoreAssumption == EventLimit \in Nat \ {0} /\ LogLimit \in Nat \ {0}

Stages   == {"echo_gate", "energy_gate", "silero_vad", "stt", "translate_b"}
Signals  == {"echo_absorbed", "recipient_interrupted", "echo_bargein",
             "hallucination", "guardrail"}

freshPipeline == [aPhase |-> "idle", b |-> [s \in Stages |-> "idle"], last |-> ""]
initialState  == [pipe |-> freshPipeline, events |-> <<>>, log |-> <<>>,
                  counts |-> [s \in Signals |-> 0]]

----------------------------------------------------------------------------
Newest(s, limit) == SubSeq(s, (IF Len(s) > limit THEN Len(s) - limit ELSE 0) + 1, Len(s))

signalA(st, phase) == [st EXCEPT !.pipe.aPhase = phase]
signalB(st, stage, status) == [st EXCEPT !.pipe.b[stage] = status, !.pipe.last = stage]
logActivity(st, stage, kind) ==
  [st EXCEPT !.log = Newest(Append(@, <<stage, kind>>), LogLimit)]
pushEvent(st, signal) ==
  [st EXCEPT !.events = Newest(Append(@, signal), EventLimit), !.counts[signal] = @ + 1]

----------------------------------------------------------------------------
(* What one message of the relay lights, logs and counts *)

Row(stage, status, kind, signal) ==
  [stage |-> stage, status |-> status, kind |-> kind, signal |-> signal]

PipelineEvents ==
  {Row("echo_gate", "block", "drop", "echo_absorbed"),
   Row("echo_gate", "bargein", "bargein", "echo_bargein"),
   Row("echo_gate", "idle", "", ""), Row("echo_gate", "active", "", ""),
   Row("energy_gate", "pass", "", ""), Row("energy_gate", "block", "drop", ""),
   Row("silero_vad", "active", "", ""), Row("silero_vad", "done", "", "")}
InterruptAlert == Row("silero_vad", "bargein", "bargein", "recipient_interrupted")
Hallucination  == Row("stt", "block", "drop", "hallucination")
Guardrail      == Row("", "", "", "guardrail")

Noted(st, row) ==
  LET lighted == IF row.stage = "" THEN st ELSE signalB(st, row.stage, row.status)
      logged  == IF row.kind = "" THEN lighted ELSE logActivity(lighted, row.stage, row.kind)
  IN  IF row.signal = "" THEN logged ELSE pushEvent(logged, row.signal)

\* A caption lights its path: outgoing when it is the caller's. The relay
\* gives the caller's captions no stage, so the translation too is "speaking".
Lighted(st, p) ==
  CASE p.voice = "caller" -> signalA(st, "speaking")
    [] p.voice = "callee" /\ p.part = "original" -> signalB(st, "stt", "active")
    [] OTHER -> signalB(signalB(st, "stt", "done"), "translate_b", "done")

----------------------------------------------------------------------------
(* The panels *)

\* Caller, translation and callee of A.SEND light up one after the other.
ASend(st) ==
  CASE st.pipe.aPhase = "speaking"    -> {"caller", "stt"}
    [] st.pipe.aPhase = "translating" -> {"caller", "stt", "translate"}
    [] st.pipe.aPhase = "delivered"   -> {"caller", "stt", "translate", "tts", "callee"}
    [] OTHER -> {}
\* The head of B.RECV is the stage lit last, which goes out last (of two lit
\* in one millisecond the code takes the first in the row).
HeadStage(st, hot) == IF st.pipe.last \in hot THEN st.pipe.last ELSE ""
Badge(st, hot) ==
  CASE "translate_b" \in hot -> "pass"
    [] "translate_b" \notin hot /\ HeadStage(st, hot) # ""
         /\ st.pipe.b[HeadStage(st, hot)] = "block" -> "drop"
    [] OTHER -> ""
PipelinePanel(st, hot, hotA) ==
  [send |-> IF hotA THEN ASend(st) ELSE {}, recv |-> [s \in hot |-> st.pipe.b[s]],
   head |-> HeadStage(st, hot), badge |-> Badge(st, hot)]

\* /monitor shows the log, the newest line first, /monitor2 the catalogue.
ActivityPanel(st) == Reverse(st.log)
SignalsPanel(st)  == [last |-> IF st.events = <<>> THEN "" ELSE Last(st.events),
                      fired |-> {s \in Signals : st.counts[s] > 0}]
=============================================================================
