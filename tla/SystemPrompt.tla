----------------------------- MODULE SystemPrompt -----------------------------
(***************************************************************************)
(* What is left of Claude Code's system prompt for another model           *)
(* (crates/ccextra-core/src/convert/to_openai_responses/instructions.rs,   *)
(* passthrough.rs): sections that make it over-think are cut out, what the *)
(* user wrote stays.                                                       *)
(*                                                                         *)
(* A prompt is a sequence of blocks, a block a sequence of lines           *)
(* [kind, n], n telling them apart.  Kinds: "attribution" (billing),       *)
(* "identity", "keep", "drop" and "other" (the header of a section wanted, *)
(* unwanted or unknown), "close" (the closing tag of an unwanted one),     *)
(* "banned" (an unwanted line), "agents" (the list of agents), "plain".    *)
(***************************************************************************)
EXTENDS Naturals, Sequences, FiniteSets, SequencesExt

strip_attribution_line(lines) ==
  IF lines # <<>> /\ Head(lines).kind = "attribution" THEN Tail(lines) ELSE lines

(* The whole text is a sentence of identity or says nothing.               *)
ignorable(lines, family) ==
  \/ lines = <<>>
  \/ Head(lines).kind = "attribution"
  \/ family # "claude" /\ Len(lines) = 1 /\ lines[1].kind = "identity"

(* One line; the open section is given up or put away at the next header.  *)
PutAway(st) == [st EXCEPT !.kept = IF st.state = "discard" THEN @ ELSE @ \o st.section, !.section = <<>>]

(* Fault: the closing tag leaves the section open.                         *)
stripLineOpen(st, line) ==
  CASE line.kind \in {"banned", "close"} -> st
    [] line.kind = "agents" -> [st EXCEPT !.section = <<>>, !.state = "discard"]
    [] line.kind = "drop"   -> [PutAway(st) EXCEPT !.state = "discard"]
    [] line.kind \in {"keep", "other"} -> [PutAway(st) EXCEPT !.state = "retain", !.section = <<line>>]
    [] OTHER -> IF st.state = "discard" THEN st ELSE [st EXCEPT !.section = Append(@, line)]

stripLine(st, line) ==
  CASE line.kind = "banned" -> st
    [] line.kind = "agents" -> [st EXCEPT !.section = <<>>, !.state = "discard"]
    [] line.kind = "close"  -> [PutAway(st) EXCEPT !.state = "unknown"]
    [] line.kind = "drop"   -> [PutAway(st) EXCEPT !.state = "discard"]
    [] line.kind \in {"keep", "other"} ->
         [PutAway(st) EXCEPT !.state = "retain", !.section = <<line>>]
    [] OTHER -> IF st.state = "discard" THEN st ELSE [st EXCEPT !.section = Append(@, line)]

strip_claude_system_for_gpt(lines) ==
  PutAway(FoldLeft(stripLine, [kept |-> <<>>, section |-> <<>>, state |-> "unknown"],
                   strip_attribution_line(lines))).kept

(* Chat, Gemini and the Messages of other models: block by block.          *)
sanitize_system_text(lines, family) ==
  LET cleaned == strip_claude_system_for_gpt(lines)
  IN  IF ignorable(cleaned, family) THEN <<>> ELSE cleaned

sanitize_passthrough_prompt(blocks, family) ==
  IF family = "claude" THEN blocks
  ELSE SelectSeq([i \in DOMAIN blocks |-> sanitize_system_text(blocks[i], family)], LAMBDA b: b # <<>>)

(* Responses: all blocks are one text before it is cut.                    *)
system_to_instructions_text(blocks, family) ==
  FlattenSeq([i \in DOMAIN blocks |->
                LET lines == strip_attribution_line(blocks[i])
                IN  IF ignorable(lines, family) THEN <<>> ELSE lines])
responsesInstructions(blocks, family) ==
  strip_claude_system_for_gpt(system_to_instructions_text(blocks, family))

(* Which lines should be left: by the nearest header above.                *)
Governs(lines, i) == {j \in 1..i: lines[j].kind \in {"keep", "drop", "other", "close"}}
Unwanted(lines, i) ==
  LET heads == Governs(lines, i)
      head  == CHOOSE j \in heads: \A k \in heads: k <= j
      from  == IF heads = {} THEN 1 ELSE head
      ends  == {j \in (i + 1)..Len(lines): lines[j].kind \in {"keep", "drop", "other", "close"}}
      to    == IF ends = {} THEN Len(lines) ELSE (CHOOSE j \in ends: \A k \in ends: j <= k) - 1
  IN  \/ lines[i].kind \in {"banned", "agents", "close", "drop"}
      \/ heads # {} /\ lines[head].kind = "drop"
      \/ \E j \in from..to: lines[j].kind = "agents"
=============================================================================
