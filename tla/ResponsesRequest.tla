--------------------------- MODULE ResponsesRequest ---------------------------
(***************************************************************************)
(* crates/ccextra-core/src/convert/to_openai_responses: the input items of *)
(* a Responses request.  A message becomes as many items as its blocks     *)
(* need; an output item without its call is refused upstream, so a result  *)
(* whose call is not in the history is told as text.                       *)
(***************************************************************************)
EXTENDS Conversation, Signature

Message(role, content) == [type |-> "message", role |-> role, content |-> content]

(* Encrypted reasoning goes back only to the family that produced it; what *)
(* Grok seals says nothing of itself and is taken on the word of the       *)
(* target.                                                                 *)
gpt_compatible_signature(sig, family) ==
  LET or(own) == IF own = NoSignature /\ family = "grok" /\ is_valid_grok_encrypted_content(sig) THEN sig ELSE own
  IN  or(compatible_signature_for_provider_block("gpt", sig))

(* The item a thinking block of the assistant becomes, if any.             *)
thinkingItem(b, family) ==
  LET sealed(own) == IF own = NoSignature THEN <<>> ELSE <<[type |-> "reasoning", sig |-> own, text |-> <<>>]>>
  IN  CASE is_codex_commentary_signature_marker(b.sig) ->
             IF b.text = <<>> THEN <<>>
             ELSE <<Message("commentary", <<[type |-> "text", text |-> b.text]>>)>>
        [] ~is_codex_commentary_signature_marker(b.sig) /\ b.sig.lead # "" ->
             sealed(gpt_compatible_signature(b.sig, family))
        [] OTHER ->
             IF family \in {"gpt", "grok"} \/ b.text = <<>> THEN <<>>
             ELSE <<[type |-> "reasoning", sig |-> NoSignature, text |-> b.text]>>

(* A custom tool is called and answered with items of its own.             *)
CallItem(b, customs) ==
  [type |-> IF b.name \in customs THEN "custom_tool_call" ELSE "function_call",
   id |-> b.id, name |-> b.name]

ResultItem(b, st) ==
  IF b.id \in st.customIds THEN <<[type |-> "custom_tool_call_output", id |-> b.id, text |-> b.text]>>
  ELSE IF b.id \in st.emitted THEN <<[type |-> "function_call_output", id |-> b.id, text |-> b.text]>>
  ELSE IF b.text = <<>> THEN <<>>
  ELSE <<Message("user", <<[type |-> "text", text |-> b.text]>>)>>

(* Texts and images gather in one message item until a block that needs an *)
(* item of its own comes.                                                  *)
Flushed(role, p) ==
  IF p.content = <<>> THEN p
  ELSE [p EXCEPT !.out = Append(@, Message(role, p.content)), !.content = <<>>]

partStep(p, b, role, family, customs) ==
  CASE b.type \in {"text", "image"} ->
         [p EXCEPT !.content = Append(@, [type |-> b.type, text |-> b.text])]
    [] b.type = "thinking" ->
         LET added(item) == IF item = <<>> THEN p ELSE [Flushed(role, p) EXCEPT !.out = @ \o item]
         IN  added(IF role = "assistant" THEN thinkingItem(b, family) ELSE <<>>)
    [] b.type = "tool_use" ->
         [Flushed(role, p) EXCEPT
            !.out       = Append(@, CallItem(b, customs)),
            !.pending   = IF b.id = NoId THEN @ ELSE Append(@, b.id),
            !.emitted   = @ \cup {b.id},
            !.customIds = IF b.name \in customs THEN @ \cup {b.id} ELSE @]
    [] b.type = "tool_result" ->
         [p EXCEPT !.results = @ \o ResultItem(b, p),
                   !.images  = @ \o [k \in DOMAIN b.images |-> [type |-> "image", text |-> b.images[k]]]]

(* Results first, then the reminders that waited for them, then the rest.  *)
responsesStep(st, msg, family, customs) ==
  LET item(text) == Message("user", <<[type |-> "text", text |-> text]>>)
      reminded(text) ==
        CASE text = <<>>       -> st
          [] st.pending = <<>> -> [st EXCEPT !.out = Append(@, item(text))]
          [] OTHER             -> [st EXCEPT !.waiting = Append(@, item(text))]
      told(done) ==
        LET tail == IF done.images = <<>> THEN <<>> ELSE <<Message("user", done.images)>>
        IN  [out |-> st.out \o done.results \o st.waiting \o done.out \o tail,
             waiting |-> <<>>, pending |-> done.pending,
             emitted |-> done.emitted, customIds |-> done.customIds]
  IN  IF msg.role = "system" THEN reminded(system_reminder_text(msg.content, family))
      ELSE told(Flushed(msg.role,
             FoldLeft(LAMBDA p, b: partStep(p, b, msg.role, family, customs),
                      [out |-> <<>>, content |-> <<>>, results |-> <<>>, images |-> <<>>,
                       pending |-> <<>>, emitted |-> st.emitted, customIds |-> st.customIds],
                      IF msg.role = "user" THEN align_tool_results(msg.content, st.pending) ELSE msg.content)))

(* The input of the request, the developer message aside.                  *)
convert_to_openai_responses(history, family, customs) ==
  LET ended(st) == st.out \o st.waiting
  IN  ended(FoldLeft(LAMBDA st, msg: responsesStep(st, msg, family, customs),
                     [out |-> <<>>, waiting |-> <<>>, pending |-> <<>>,
                      emitted |-> {}, customIds |-> {}], history))
=============================================================================
