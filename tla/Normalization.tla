---------------------------- MODULE Normalization ----------------------------
(***************************************************************************)
(* What is done to a request so that the next one has the same bytes.      *)
(* Claude Code writes again what it wrote before, and not the same way:    *)
(* tools and keys in another order, other white space around a reminder,   *)
(* a reminder inside a tool's result, a date marked by its apostrophe.     *)
(*                                                                         *)
(* A text is a sequence of segments, plain ones and reminders; names and   *)
(* keys are numbers, ordered as the code orders strings.  "codex" stands   *)
(* for the Responses models whose system prompt is a developer message.    *)
(***************************************************************************)
EXTENDS Naturals, Sequences, SequencesExt

Targets == {"claude", "gemini", "chat", "responses", "codex"}
ForOpenAI(target) == target \notin {"claude", "gemini"}

Prose(says) == [reminder |-> FALSE, says |-> says, date |-> "none", list |-> <<>>, gap |-> 0, tail |-> 0]
Reminder(says, list) == [Prose(says) EXCEPT !.reminder = TRUE, !.list = list, !.gap = 1]

Each(F(_), s) == [i \in DOMAIN s |-> F(s[i])]
InOrder(s) == SortSeq(s, <)

-----------------------------------------------------------------------------
(* A mark for the prompt cache depends on the place of its tool: then the  *)
(* order is the client's.                                                  *)
any_tool_has_cache_control(tools) == \E i \in DOMAIN tools: tools[i].marked
sort_schema_keys_recursive(tools) == Each(LAMBDA t: [t EXCEPT !.keys = InOrder(@)], tools)
sort_tools_deterministically(tools) ==
  IF any_tool_has_cache_control(tools) THEN tools ELSE SortSeq(tools, LAMBDA a, b: a.name < b.name)
normalize_tool_definitions(r) == [r EXCEPT !.tools = sort_schema_keys_recursive(sort_tools_deterministically(@))]

(* The reminders at the end of a result become texts of their own, at the  *)
(* end of the message; the white space after them is gone.                 *)
Bare(seg) == [seg EXCEPT !.tail = 0]
Peeled(block) ==
  IF block.type # "result" THEN 0
  ELSE CHOOSE n \in 0..Len(block.text):
         /\ \A i \in DOMAIN block.text: i > Len(block.text) - n => i > 1 /\ block.text[i].reminder
         /\ Len(block.text) - n > 1 => ~block.text[Len(block.text) - n].reminder
Saying(text) == [type |-> "text", text |-> text]
split_smooshed_reminders(message) ==
  LET without(b, n) == IF n = 0 THEN b ELSE [b EXCEPT !.text = SubSeq(@, 1, Len(@) - n)]
      cut(b) == without(b, Peeled(b))
      last(b, n) == IF n = 0 THEN <<>> ELSE SubSeq(b.text, Len(b.text) - n + 1, Len(b.text))
      off(b) == Each(LAMBDA s: Saying(<<Bare(s)>>), last(b, Peeled(b)))
  IN  Each(cut, message) \o FlattenSeq(Each(off, message))

(* The input of a call has the keys of its tool first, as that has them.   *)
normalize_tool_use_inputs(tools, block) ==
  LET known == {i \in DOMAIN tools: tools[i].name = block.name /\ tools[i].keys # <<>>}
      keys  == tools[CHOOSE i \in known: TRUE].keys
  IN  IF block.type # "call" \/ known = {} THEN block
      ELSE [block EXCEPT !.keys = SelectSeq(keys, LAMBDA k: k \in Range(block.keys))
                                  \o InOrder(SelectSeq(@, LAMBDA k: k \notin Range(keys)))]

stabilize_block_sort(text) == Each(LAMBDA s: [s EXCEPT !.list = InOrder(@)], text)

normalize_reminder_trailing_whitespace(text) ==
  IF text # <<>> /\ Last(text).reminder
  THEN [text EXCEPT ![Len(text)].gap = 1, ![Len(text)].tail = 0] ELSE text

normalize_client_dateline(text, scoped) ==
  Each(LAMBDA s: IF s.date # "none" /\ (scoped => s.reminder) THEN [s EXCEPT !.date = "plain"] ELSE s, text)

-----------------------------------------------------------------------------
InSystem(F(_), r) == [r EXCEPT !.system = Each(F, @)]
InMessages(F(_), r) == [r EXCEPT !.messages = Each(F, @)]
InBlocks(F(_), r) == InMessages(LAMBDA m: Each(F, m), r)
InTexts(F(_), types, r) == InBlocks(LAMBDA b: IF b.type \in types THEN [b EXCEPT !.text = F(@)] ELSE b, r)

ahead_of_conversion(r) ==
  LET inputs(split) == InBlocks(LAMBDA b: normalize_tool_use_inputs(split.tools, b), split)
  IN  inputs(InMessages(split_smooshed_reminders, normalize_tool_definitions(r)))

(* The texts: lists in the system prompt, then white space, then dates.    *)
(* In messages a date counts in a reminder only; the system prompt is a    *)
(* message like the others for chat and codex, and a result is for chat.   *)
trimmed(r) ==
  InTexts(normalize_reminder_trailing_whitespace, {"text"},
          InSystem(LAMBDA t: normalize_reminder_trailing_whitespace(stabilize_block_sort(t)), r))
texts_settled(r, target) ==
  InTexts(LAMBDA t: normalize_client_dateline(t, TRUE), {"text"} \cup (IF target = "chat" THEN {"result"} ELSE {}),
          InSystem(LAMBDA t: normalize_client_dateline(t, target \in {"chat", "codex"}), trimmed(r)))

normalize_anthropic_full(r) == texts_settled(ahead_of_conversion(r), "claude")
normalize_anthropic_pretransform(r, target) ==
  IF ForOpenAI(target) THEN ahead_of_conversion(r) ELSE texts_settled(ahead_of_conversion(r), target)
normalize_target_post(r, target) == texts_settled(normalize_tool_definitions(r), target)

(* What of the conversions matters here: they drop the marks of tools, and *)
(* behind Responses the system prompt is one text.                         *)
reshaped(r, target) ==
  [r EXCEPT !.tools  = Each(LAMBDA t: [t EXCEPT !.marked = FALSE], @),
            !.system = IF target \in {"responses", "codex"} THEN <<FlattenSeq(@)>> ELSE @]

upstream_body(r, target) ==
  CASE target = "claude" -> normalize_anthropic_full(r)
    [] target = "gemini" -> reshaped(normalize_anthropic_pretransform(r, target), target)
    [] OTHER -> normalize_target_post(reshaped(normalize_anthropic_pretransform(r, target), target), target)
=============================================================================
