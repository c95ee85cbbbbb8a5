------------------------------ MODULE ChatTurn ------------------------------
(***************************************************************************)
(* One turn of the collecting chat as functions on data: what a message    *)
(* and the model's reply say (lib/services/data-extractor.ts,              *)
(* lib/response-parser.ts), what processChat makes of them, how it is      *)
(* merged into what the conversation knows (shared/types.ts) and when the  *)
(* conversation is ready for a call (lib/services/chat-service.ts).        *)
(*                                                                         *)
(* Collected data is the set of fields that are known and the scenario.    *)
(***************************************************************************)
EXTENDS Naturals, FiniteSets

CONSTANT None

Fields == {"target_name", "target_phone", "primary_datetime"}
Scenarios == {"RESERVATION", "INQUIRY", "AS_REQUEST"}
ChatModes == {"voice_to_voice", "text_to_voice", "full_agent"}
CollectedData == [known: SUBSET Fields, scenario: Scenarios \cup {None}]

createEmptyCollectedData == [known |-> {}, scenario |-> None]

\* The cards of the start screen and the modes and scenarios behind them.
SelectorSteps == {"category", "direct", "ai_auto"}
DirectStarts == [mode : {"voice_to_voice", "text_to_voice"}, scenario : {"INQUIRY"}]
QuickStarts  == [mode : {"full_agent"}, scenario : Scenarios]
Offers(step) == CASE step = "category" -> {}
                  [] step = "direct"   -> DirectStarts
                  [] step = "ai_auto"  -> QuickStarts

\* A text says things: a number (with its country code), a name before it,
\* a time; a time in a long text is not taken for one, nor a name alone.
Texts == SUBSET {"name", "number", "time", "long"}
extractDataFromMessage(text) ==
  {f \in Fields :
     CASE f = "target_phone"     -> "number" \in text
       [] f = "target_name"      -> {"name", "number"} \subseteq text
       [] f = "primary_datetime" -> "time" \in text /\ "long" \notin text}

\* What the model may answer: pure JSON, text with a ```json block, or
\* anything else; with fields, is_complete and an intent it is sure of.
LLMReplies == [shape: {"json", "block", "text"}, collected: CollectedData,
               complete: BOOLEAN, intent: Scenarios \cup {None}]

extractFromParsed(reply) == [collected |-> reply.collected,
                             complete |-> reply.complete,
                             intent |-> reply.intent]
fallbackParse(reply) ==
  IF reply.shape = "block"
  THEN [extractFromParsed(reply) EXCEPT !.intent = None]
  ELSE [collected |-> createEmptyCollectedData, complete |-> FALSE,
        intent |-> None]
parseAssistantResponse(reply) ==
  IF reply.shape = "json" THEN extractFromParsed(reply) ELSE fallbackParse(reply)

\* A phone number typed in a relay mode is answered without the model: the
\* name is the one already known or the number itself.
IsDirect(text, mode) ==
  mode \notin {None, "full_agent"} /\ "target_phone" \in extractDataFromMessage(text)
DirectAnswer(existing) ==
  [known |-> {"target_name", "target_phone"}, complete |-> TRUE,
   scenario |-> IF existing.scenario = None THEN "INQUIRY" ELSE existing.scenario]

ModelAnswer(existing, text, reply) ==
  LET parsed == parseAssistantResponse(reply)
      switched == parsed.intent \notin {None, existing.scenario}
  IN  [known    |-> parsed.collected.known \cup extractDataFromMessage(text),
       complete |-> parsed.complete,
       scenario |-> IF switched THEN parsed.intent ELSE parsed.collected.scenario]

processChat(existing, text, mode, reply) ==
  IF IsDirect(text, mode) THEN DirectAnswer(existing)
  ELSE ModelAnswer(existing, text, reply)

mergeCollectedData(existing, incoming) ==
  [known    |-> existing.known \cup incoming.known,
   scenario |-> IF incoming.scenario = None THEN existing.scenario
                ELSE incoming.scenario]

CanPlaceCall(data, mode) ==
  /\ {"target_name", "target_phone"} \subseteq data.known
  /\ \/ mode \notin {None, "full_agent"}
     \/ data.scenario # "RESERVATION"
     \/ "primary_datetime" \in data.known
isReadyForCall(data, complete, mode) == complete \/ CanPlaceCall(data, mode)
=============================================================================
