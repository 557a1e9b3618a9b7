----------------------------- MODULE ChatRequest -----------------------------
(***************************************************************************)
(* crates/ccextra-core/src/convert/to_openai_chat.rs: the messages of a    *)
(* Chat Completions request.  The protocol wants the tool messages behind  *)
(* the assistant message that made the calls, with nothing in between.     *)
(***************************************************************************)
EXTENDS Conversation, Signature

(* Unsigned thinking, and that of a GPT model, is sent back as reasoning.  *)
should_map_thinking_to_reasoning(block) ==
  block.sig.prefix = "none" /\ block.sig.lead \in {"", "gAAAA"}

(* What one block adds to the content of its message.                      *)
contentItem(b) ==
  CASE b.type = "thinking" -> IF is_codex_commentary_signature_marker(b.sig) /\ b.text # <<>>
                              THEN <<[type |-> "text", text |-> b.text]>> ELSE <<>>
    [] b.type = "text"     -> IF b.text # <<>> THEN <<[type |-> "text", text |-> b.text]>> ELSE <<>>
    [] b.type = "image"    -> <<[type |-> "image", text |-> b.text]>>
    [] OTHER               -> <<>>

(* The tool messages, the message itself if anything is left of it, the    *)
(* ids it calls and the names known after it.                              *)
convert_message_parts(role, content, names) ==
  LET of(type) == SelectSeq(content, LAMBDA b: b.type = type)
      uses     == IF role = "assistant" THEN of("tool_use") ELSE <<>>
      named    == {[id |-> b.id, name |-> b.name]: b \in Range(SelectSeq(uses, LAMBDA u: u.id # NoId))}
      known    == {n \in names: \A m \in named: m.id # n.id} \cup named
      items    == Joined([i \in DOMAIN content |-> contentItem(content[i])])
      results  == of("tool_result")
      images   == Joined([i \in DOMAIN results |->
                            [k \in DOMAIN results[i].images |->
                               [type |-> "image", text |-> results[i].images[k]]]])
      thoughts == IF role = "assistant"
                  THEN SelectSeq(of("thinking"), should_map_thinking_to_reasoning) ELSE <<>>
      body     == IF role = "assistant" THEN items ELSE items \o images
      reasons  == Joined([i \in DOMAIN thoughts |-> thoughts[i].text])
  IN  [results |-> [i \in DOMAIN results |->
                      [role |-> "tool", id |-> results[i].id, text |-> results[i].text,
                       name |-> {n.name: n \in {m \in known: m.id = results[i].id}}]],
       main    |-> IF body = <<>> /\ reasons = <<>> /\ uses = <<>> THEN <<>>
                   ELSE <<[role |-> role, content |-> body, reasoning |-> reasons,
                           calls |-> [i \in DOMAIN uses |-> [id |-> uses[i].id, name |-> uses[i].name]]]>>,
       ids     |-> SelectSeq(IdSeq(uses), LAMBDA id: id # NoId),
       names   |-> known]

ReminderMessage(text) ==
  [role |-> "user", content |-> <<[type |-> "text", text |-> text]>>, reasoning |-> <<>>, calls |-> <<>>]

(* Fault: what waits for the results is not put behind them.               *)
chatStepForgetful(st, msg, family) ==
  LET text  == system_reminder_text(msg.content, family)
      parts == convert_message_parts(msg.role, IF msg.role = "user" THEN align_tool_results(msg.content, st.pending)
                                               ELSE msg.content, st.names)
  IN  IF msg.role = "system"
      THEN IF text = <<>> \/ st.pending # <<>> THEN st ELSE [st EXCEPT !.out = Append(@, ReminderMessage(text))]
      ELSE [st EXCEPT !.out = @ \o parts.results \o parts.main, !.pending = parts.ids, !.names = parts.names]

(* Fault: reminders are hoisted to the top of the conversation.            *)
chatStepHoist(st, msg, family) ==
  LET text  == system_reminder_text(msg.content, family)
      parts == convert_message_parts(msg.role, IF msg.role = "user" THEN align_tool_results(msg.content, st.pending)
                                               ELSE msg.content, st.names)
  IN  IF msg.role = "system"
      THEN IF text = <<>> THEN st ELSE [st EXCEPT !.out = <<ReminderMessage(text)>> \o @]
      ELSE [st EXCEPT !.out = @ \o parts.results \o parts.main, !.pending = parts.ids, !.names = parts.names]

(* One message of the history.  A reminder that arrives between calls and  *)
(* their results waits until the results are out.                          *)
chatStep(st, msg, family) ==
  LET reminded(text) ==
        CASE text = <<>>       -> st
          [] st.pending = <<>> -> [st EXCEPT !.out = Append(@, ReminderMessage(text))]
          [] OTHER             -> [st EXCEPT !.waiting = Append(@, ReminderMessage(text))]
      told(parts) ==
        [out     |-> st.out \o parts.results \o st.waiting \o parts.main,
         waiting |-> <<>>, pending |-> parts.ids, names |-> parts.names]
  IN  IF msg.role = "system" THEN reminded(system_reminder_text(msg.content, family))
      ELSE told(convert_message_parts(msg.role, IF msg.role = "user" THEN align_tool_results(msg.content, st.pending)
                                                ELSE msg.content, st.names))

(* Tool messages move up to the assistant message that made the calls,     *)
(* when every call of it has one answer, later in the list, and no id of   *)
(* it is used twice; any other group stays where it is.                    *)
align_openai_tool_call_messages(ms) ==
  LET caller(i)  == ms[i].role = "assistant" /\ ms[i].calls # <<>>
      answers(id) == {j \in DOMAIN ms: ms[j].role = "tool" /\ ms[j].id = id}
      askers(id) == {<<i, k>> \in (DOMAIN ms) \X (1..Len(ms)):
                       caller(i) /\ k \in DOMAIN ms[i].calls /\ ms[i].calls[k].id = id}
      eligible(i) == /\ caller(i)
                     /\ \A k \in DOMAIN ms[i].calls:
                          LET id == ms[i].calls[k].id
                          IN  /\ id # NoId
                              /\ Cardinality(askers(id)) = 1
                              /\ Cardinality(answers(id)) = 1
                              /\ \A j \in answers(id): j > i
      group(i)   == IF ~eligible(i) THEN {}
                    ELSE UNION {answers(ms[i].calls[k].id): k \in DOMAIN ms[i].calls}
      moved      == UNION {group(i): i \in DOMAIN ms}
      behind(i)  == LET g == Ascending(group(i)) IN [k \in DOMAIN g |-> ms[g[k]]]
  IN  Joined([i \in DOMAIN ms |-> IF i \in moved THEN <<>> ELSE <<ms[i]>> \o behind(i)])

(* The messages of the request, the system prompt aside.                   *)
convert_to_openai_chat(history, family) ==
  LET ended(st) == align_openai_tool_call_messages(st.out \o st.waiting)
  IN  ended(FoldLeft(LAMBDA st, msg: chatStep(st, msg, family),
                     [out |-> <<>>, waiting |-> <<>>, pending |-> <<>>, names |-> {}], history))
=============================================================================
