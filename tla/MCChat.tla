------------------------------- MODULE MCChat -------------------------------
(* One user's browser tabs, for TLC.                                       *)
EXTENDS Chat

Reply(known, complete) ==
  [shape |-> "json", complete |-> complete, intent |-> None,
   collected |-> [known |-> known, scenario |-> None]]
\* A reply that asks on, and one that says the conversation is complete.
MCReplies == {Reply({}, FALSE), Reply({"target_name", "target_phone"}, TRUE)}
\* The user types nothing the patterns know, or a name with a number.
MCTyped == {{}, {"name", "number"}}
MCRecentReplies == {Reply({}, FALSE)}
MCRecentTyped == {{}}
MCEither == BOOLEAN
MCStarts == {[mode |-> "voice_to_voice", scenario |-> "INQUIRY"]}
=============================================================================
