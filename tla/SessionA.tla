------------------------------ MODULE SessionA ------------------------------
(***************************************************************************)
(* SessionAHandler with the OpenAI session behind it: who asks for a       *)
(* response, what the listen task does with its events, the guard against  *)
(* responses nobody asked for, the guardrail's Level 3 and its correction, *)
(* and cancel().                                                           *)
(*                                                                         *)
(* The server handles a command as soon as it is sent; its events are read *)
(* later, in order, by the one listen task, which awaits each handler.     *)
(* Only its audio, the first harmful text, the finished transcript and     *)
(* response.done are events here.  The handler keeps no response ids: the  *)
(* ids of the model are the server's.                                      *)
(***************************************************************************)
EXTENDS Naturals, Sequences

CONSTANTS
  Askers,           \* the tasks that ask Session A to speak
  MaxAsks,          \* bound on what they ask for
  Faulty,           \* what OpenAI may do: "harm", speak a harmful text, and
                    \* "spontaneous", begin a response nobody asked for
  MaxFaults,        \* bound on how often it does
  MaxEvents         \* bound on the events in flight for one more of audio

ASSUME SessionAAssumption ==
  /\ {MaxAsks, MaxFaults, MaxEvents} \subseteq Nat
  /\ Faulty \subseteq {"harm", "spontaneous"}

VARIABLES
  server,       \* the response that OpenAI is generating, 0 for none
  events,       \* its events that listen() has not read yet
  made,         \* the responses it has begun
  faults,       \* what it did of that
  asks,         \* what the askers asked for
  asker,        \* an asker: idle, or marked and about to send
  generating,   \* _is_generating; _done_event is set when it is FALSE
  expected,     \* _response_expected
  blocking,     \* the guardrail is at Level 3
  correcting,   \* the listen task: no correction, at the LLM, marked
  wanted,       \* responses asked for, not done and not interrupted, and those
  harmful       \* whose harmful text was heard: for the properties only

serverVars == <<server, events, made, faults>>
flags == <<generating, expected, blocking>>
marks == <<wanted, harmful>>
saVars == <<serverVars, asks, asker, flags, correcting, marks>>

(* A fault makes for one response more, a spontaneous or a corrected one.  *)
Response == 1..(MaxAsks + MaxFaults)

SessionATypeOK ==
  /\ server \in Response \cup {0} /\ made \in Response \cup {0}
  /\ events \in Seq({"audio", "harm", "transcript", "done"} \X Response)
  /\ faults \in 0..MaxFaults /\ asks \in 0..MaxAsks
  /\ asker \in [Askers -> {"idle", "marked"}]
  /\ generating \in BOOLEAN /\ expected \in BOOLEAN /\ blocking \in BOOLEAN
  /\ correcting \in {"no", "llm", "marked"}
  /\ wanted \subseteq Response /\ harmful \subseteq Response

SessionAInit ==
  /\ server = 0 /\ made = 0 /\ faults = 0 /\ asks = 0 /\ events = <<>>
  /\ asker = [a \in Askers |-> "idle"]
  /\ generating = FALSE /\ expected = FALSE /\ blocking = FALSE
  /\ correcting = "no"
  /\ wanted = {} /\ harmful = {}

-----------------------------------------------------------------------------
(* OpenAI                                                                  *)

(* response.create: refused while a response is active.                    *)
Create ==
  IF server = 0
  THEN /\ made' = made + 1 /\ server' = made + 1
       /\ wanted' = wanted \cup {made + 1}
  ELSE UNCHANGED <<made, server, wanted>>

(* response.cancel: without an active response an error event, for which   *)
(* there is no handler.                                                    *)
ServerCancels(evs) ==
  /\ server' = 0
  /\ events' = IF server = 0 THEN evs ELSE Append(evs, <<"done", server>>)

ServerSpeaks ==
  /\ server # 0 /\ Len(events) < MaxEvents
  /\ events' = Append(events, <<"audio", server>>)
  /\ UNCHANGED <<server, made, faults, asks, asker, flags, correcting, marks>>

ServerHarms ==
  /\ server # 0 /\ "harm" \in Faulty /\ faults < MaxFaults
  /\ faults' = faults + 1
  /\ events' = Append(events, <<"harm", server>>)
  /\ UNCHANGED <<server, made, asks, asker, flags, correcting, marks>>

ServerFinishes ==
  /\ server # 0 /\ server' = 0
  /\ events' = events \o <<<<"transcript", server>>, <<"done", server>>>>
  /\ UNCHANGED <<made, faults, asks, asker, flags, correcting, marks>>

ServerStarts ==
  /\ server = 0 /\ "spontaneous" \in Faulty /\ faults < MaxFaults
  /\ faults' = faults + 1
  /\ made' = made + 1 /\ server' = made + 1
  /\ UNCHANGED <<events, asks, asker, flags, correcting, marks>>

ServerStep == ServerSpeaks \/ ServerHarms \/ ServerFinishes \/ ServerStarts

-----------------------------------------------------------------------------
(* Asking for a response                                                   *)

MarkGenerating == generating' = TRUE /\ expected' = TRUE /\ UNCHANGED blocking

(* send_user_text and commit_user_audio.  Who has text waits until the     *)
(* recipient and the response before are done, but no longer than 10, 5    *)
(* and 3 s: the wait may end at any time.  Who commits audio does not wait.*)
Mark(a) ==
  /\ asker[a] = "idle" /\ asks < MaxAsks
  /\ asks' = asks + 1
  /\ asker' = [asker EXCEPT ![a] = "marked"]
  /\ MarkGenerating
  /\ UNCHANGED <<serverVars, correcting, marks>>

Ask(a) ==
  /\ asker[a] = "marked"
  /\ asker' = [asker EXCEPT ![a] = "idle"]
  /\ Create
  /\ UNCHANGED <<events, faults, asks, flags, correcting, harmful>>

(* cancel(), the recipient interrupts.                                     *)
Cancel ==
  /\ generating' = FALSE /\ expected' = FALSE /\ blocking' = FALSE
  /\ ServerCancels(events)
  /\ wanted' = wanted \ ({server} \cup {events[i][2] : i \in DOMAIN events})
  /\ UNCHANGED <<made, faults, asks, asker, correcting, harmful>>

-----------------------------------------------------------------------------
(* The listen task                                                         *)

Hears(kind) == correcting = "no" /\ events # <<>> /\ Head(events)[1] = kind
Heard == Head(events)[2]
Read == events' = Tail(events)

(* Fault: the guardrail's level is not looked at.                          *)
AudioPassesAlways == Hears("audio") /\ expected

(* Audio of an expected response goes to the pipeline, unless Level 3.     *)
AudioPasses == Hears("audio") /\ expected /\ ~blocking

AudioForwarded ==
  /\ AudioPasses /\ Read
  /\ generating' = TRUE
  /\ UNCHANGED <<server, made, faults, asks, asker, expected, blocking, correcting, marks>>

AudioBlocked ==
  /\ Hears("audio") /\ expected /\ blocking /\ Read
  /\ generating' = TRUE
  /\ UNCHANGED <<server, made, faults, asks, asker, expected, blocking, correcting, marks>>

(* Audio that nobody expects: the response is cancelled.                   *)
AudioUnexpected ==
  /\ Hears("audio") /\ ~expected
  /\ ServerCancels(Tail(events))
  /\ UNCHANGED <<made, faults, asks, asker, flags, correcting, marks>>

(* A text delta raises the level to 3, which stays until reset().          *)
HarmHeard ==
  /\ Hears("harm") /\ Read
  /\ blocking' = TRUE
  /\ harmful' = harmful \cup {Heard}
  /\ UNCHANGED <<server, made, faults, asks, asker, generating, expected, correcting,
                 wanted>>

(* The transcript is done.  At Level 3 it is corrected by an LLM, and the  *)
(* listen task waits; one that looks like a hallucination is dropped.      *)
TranscriptHeard ==
  /\ Hears("transcript") /\ Read
  /\ correcting' \in IF blocking THEN {"no", "llm"} ELSE {"no"}
  /\ UNCHANGED <<server, made, faults, asks, asker, flags, marks>>

(* The LLM's text (the original after 2 s) is to be spoken instead.        *)
Corrected ==
  /\ correcting = "llm" /\ correcting' = "marked"
  /\ MarkGenerating
  /\ UNCHANGED <<serverVars, asks, asker, marks>>

CorrectionSent ==
  /\ correcting = "marked" /\ correcting' = "no"
  /\ Create
  /\ UNCHANGED <<events, faults, asks, asker, flags, harmful>>

(* Fault: a response that is done leaves the flag.                         *)
ResponseDoneKeepsGenerating ==
  /\ Hears("done") /\ Read
  /\ expected' = FALSE /\ blocking' = FALSE
  /\ wanted' = wanted \ {Heard} /\ harmful' = harmful \ {Heard}
  /\ UNCHANGED <<server, made, faults, asks, asker, generating, correcting>>

(* response.done, also of a cancelled response.                            *)
ResponseDone ==
  /\ Hears("done") /\ Read
  /\ generating' = FALSE /\ expected' = FALSE /\ blocking' = FALSE
  /\ wanted' = wanted \ {Heard} /\ harmful' = harmful \ {Heard}
  /\ UNCHANGED <<server, made, faults, asks, asker, correcting>>

(* What the listen task does that the pipeline has no part in.             *)
ListenStep ==
  AudioBlocked \/ AudioUnexpected \/ HarmHeard \/ TranscriptHeard \/ Corrected
    \/ CorrectionSent

-----------------------------------------------------------------------------
(* Properties                                                              *)

(* mark_generating is always undone: a caller that waits for Session A is  *)
(* let through.                                                            *)
GeneratingEnds == []<>~generating
=============================================================================
