-------------------------- MODULE MCResponseStreams --------------------------
(***************************************************************************)
(* Responses of three pieces, with two tool calls or output items, from    *)
(* each of the protocols.                                                  *)
(***************************************************************************)
EXTENDS ResponseStreams

AllProtocols == {"chat", "responses", "gemini"}
OnlyResponses == {"responses"}

PlainHabits == {{}, {"interleaves"}, {"repeats"}}
RepeatingHabits == {{"repeats"}}
=============================================================================
