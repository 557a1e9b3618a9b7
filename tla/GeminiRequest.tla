----------------------------- MODULE GeminiRequest -----------------------------
(***************************************************************************)
(* crates/ccextra-core/src/convert/message_convert.rs and the boundary     *)
(* turns of gemini.rs: the contents of a generateContent request.  The     *)
(* target is "gemini" (direct), "agGemini" or "agClaude" (behind           *)
(* Antigravity); each takes other signatures and another order of turns.   *)
(*                                                                         *)
(* A part is [type, text, id, name, media, sig], of type text, thought,    *)
(* call, response or media.                                                *)
(***************************************************************************)
EXTENDS Conversation, Signature

Part(type, text) ==
  [type |-> type, text |-> text, id |-> NoId, name |-> "", media |-> <<>>, sig |-> NoSignature]
Turn(role, parts) == [role |-> role, parts |-> parts]

Antigravity(target) == target # "gemini"
FamilyOf(target) == IF target = "agClaude" THEN "claude" ELSE "gemini"

HasPart(c, type) == \E i \in DOMAIN c.parts: c.parts[i].type = type
ofType(parts, type) == SelectSeq(parts, LAMBDA p: p.type = type)
butType(parts, type) == SelectSeq(parts, LAMBDA p: p.type # type)

(* Texts move ahead of the results of a user turn when one follows them.   *)
reorder_gemini_user_parts(parts) ==
  IF \E i, j \in DOMAIN parts: i < j /\ parts[i].type = "response" /\ parts[j].type = "text"
  THEN ofType(parts, "text") \o butType(parts, "text")
  ELSE parts

(* Fault: the signature goes wherever the history goes.                    *)
callPartAsIs(b, target) ==
  [Part("call", <<>>) EXCEPT !.id = b.id, !.name = b.name,
                             !.sig = IF Antigravity(target) THEN b.sig ELSE Bypass]

(* A thought is kept behind Antigravity only, and for Claude only signed.  *)
thoughtPart(b, target) ==
  LET thought(sig) == IF ~Antigravity(target) \/ (sig = NoSignature /\ target = "agClaude") THEN <<>>
                      ELSE <<[Part("thought", b.text) EXCEPT !.sig = sig]>>
  IN  CASE b.text = <<>> -> <<>>
        [] b.text # <<>> /\ is_codex_commentary_signature_marker(b.sig) -> <<Part("text", b.text)>>
        [] OTHER -> thought(resolve_thinking_signature(FamilyOf(target), b.sig))

callPart(b, target) ==
  [Part("call", <<>>) EXCEPT
     !.id = b.id, !.name = b.name,
     !.sig = IF Antigravity(target) THEN resolve_tool_use_thought_signature(FamilyOf(target), b.sig)
             ELSE Bypass]

(* A result is named as the call it answers; without one in the history    *)
(* the name is derived from its id.                                        *)
append_block_parts(st, b, target) ==
  CASE b.type = "text"     -> IF b.text = <<>> THEN st
                              ELSE [st EXCEPT !.parts = Append(@, Part("text", b.text))]
    [] b.type = "thinking" -> [st EXCEPT !.parts = @ \o thoughtPart(b, target)]
    [] b.type = "image"    -> [st EXCEPT !.parts = Append(@, Part("media", b.text))]
    [] b.type = "tool_use" -> [st EXCEPT !.parts = Append(@, callPart(b, target)),
                                         !.ids   = Append(@, b.id),
                                         !.names = {n \in @: n.id # b.id} \cup
                                                   (IF b.id = NoId THEN {} ELSE {[id |-> b.id, name |-> b.name]})]
    [] b.type = "tool_result" ->
         LET known == {n \in st.names: n.id = b.id}
             name  == IF known = {} THEN "derived" ELSE (CHOOSE n \in known: TRUE).name
         IN  [st EXCEPT !.parts = Append(@, [Part("response", b.text) EXCEPT
                                               !.id = b.id, !.name = name, !.media = b.images])]

(* One message.  A reminder leaves the pending calls as they are.          *)
geminiStep(st, msg, target) ==
  LET reminded(text) == IF text = <<>> THEN st
                        ELSE [st EXCEPT !.out = Append(@, Turn("user", <<Part("text", text)>>))]
      told(done) ==
        [out     |-> IF done.parts = <<>> THEN st.out
                     ELSE IF msg.role = "user" THEN Append(st.out, Turn("user", reorder_gemini_user_parts(done.parts)))
                     ELSE Append(st.out, Turn("model", done.parts)),
         pending |-> IF msg.role = "assistant" THEN done.ids ELSE <<>>,
         names   |-> done.names]
  IN  IF msg.role = "system" THEN reminded(system_reminder_text(msg.content, FamilyOf(target)))
      ELSE told(FoldLeft(LAMBDA p, b: append_block_parts(p, b, target),
                         [parts |-> <<>>, ids |-> <<>>, names |-> st.names],
                         IF msg.role = "user" THEN align_tool_results(msg.content, st.pending) ELSE msg.content))

(* Fault: every message of results makes a turn.                           *)
promoteEach(out, c) ==
  LET m == SelectLastInSeq(out, LAMBDA t: t.role = "model")
  IN  IF c.role = "user" /\ HasPart(c, "response") /\ m > 0 /\ HasPart(out[m], "call")
      THEN InsertAt(out, m + 1, c) ELSE Append(out, c)

(* For Claude the responses to a turn's calls are gathered in a turn of    *)
(* their own right behind it, whatever came in between.                    *)
splitTurn(c) ==
  LET rest == butType(c.parts, "response")
  IN  IF c.role # "user" \/ ~HasPart(c, "response") THEN <<c>>
      ELSE <<Turn("user", ofType(c.parts, "response"))>> \o
           (IF rest = <<>> THEN <<>> ELSE <<Turn("user", rest)>>)

promote(out, c) ==
  LET m == SelectLastInSeq(out, LAMBDA t: t.role = "model")
  IN  IF c.role = "user" /\ HasPart(c, "response") /\ m > 0 /\ HasPart(out[m], "call")
      THEN IF m < Len(out) /\ HasPart(out[m + 1], "response")
           THEN [out EXCEPT ![m + 1].parts = @ \o c.parts]
           ELSE InsertAt(out, m + 1, c)
      ELSE Append(out, c)

split_gemini_function_response_turns(contents) ==
  FoldLeft(promote, <<>>, Joined([i \in DOMAIN contents |-> splitTurn(contents[i])]))

(* Adjacent user turns become one; model turns never do.                   *)
mergeUser(out, c) ==
  IF out # <<>> /\ c.role = "user" /\ Last(out).role = "user"
     /\ ~HasPart(Last(out), "response") /\ ~HasPart(c, "response")
  THEN [out EXCEPT ![Len(out)].parts = @ \o c.parts]
  ELSE Append(out, c)
merge_adjacent_gemini_user_contents(contents) == FoldLeft(mergeUser, <<>>, contents)

mergeAny(out, c) ==
  IF out # <<>> /\ c.role = "user" /\ Last(out).role = "user"
  THEN [out EXCEPT ![Len(out)].parts = reorder_gemini_user_parts(@ \o c.parts)]
  ELSE Append(out, c)
merge_adjacent_gemini_contents(contents) == FoldLeft(mergeAny, <<>>, contents)

(* A last model turn that calls is not sent: nothing answers it yet.       *)
convert_messages(history, target) ==
  LET answered(all) == IF all # <<>> /\ Last(all).role = "model" /\ HasPart(Last(all), "call") THEN Front(all) ELSE all
      merged(kept) == IF target = "agClaude"
                      THEN merge_adjacent_gemini_user_contents(split_gemini_function_response_turns(kept))
                      ELSE merge_adjacent_gemini_contents(kept)
  IN  merged(answered(FoldLeft(LAMBDA st, msg: geminiStep(st, msg, target),
                                [out |-> <<>>, pending |-> <<>>, names |-> {}], history).out))

(* What Gemini demands of the first and the last turn.                     *)
EmptyUser == Turn("user", <<Part("text", <<>>)>>)
ensure_gemini_leading_user_content(cs) ==
  IF cs # <<>> /\ Head(cs).role = "model" THEN <<EmptyUser>> \o cs ELSE cs
content_is_thought_only_model_turn(c) ==
  c.role = "model" /\ c.parts # <<>> /\ \A i \in DOMAIN c.parts: c.parts[i].type = "thought"
drop_gemini_trailing_thought_only_content(cs) ==
  LET kept == {n \in 1..Len(cs): n = 1 \/ ~content_is_thought_only_model_turn(cs[n])}
  IN  IF cs = <<>> THEN cs ELSE SubSeq(cs, 1, CHOOSE n \in kept: \A k \in kept: k <= n)
ensure_gemini_trailing_user_content(cs) ==
  IF cs # <<>> /\ Last(cs).role = "model"
     /\ ~(HasPart(Last(cs), "response") /\ \A i \in DOMAIN Last(cs).parts: Last(cs).parts[i].media = <<>>)
  THEN Append(cs, EmptyUser) ELSE cs

ensure_gemini_boundary_user_content(cs) ==
  ensure_gemini_trailing_user_content(
    drop_gemini_trailing_thought_only_content(ensure_gemini_leading_user_content(cs)))
ensure_antigravity_gemini_boundary_user_content(cs) ==
  ensure_gemini_trailing_user_content(
    ensure_gemini_leading_user_content(drop_gemini_trailing_thought_only_content(cs)))

convert_to_gemini(history, target) ==
  LET bounded(contents) ==
        CASE target = "agClaude" -> contents
          [] target = "agGemini" -> ensure_antigravity_gemini_boundary_user_content(contents)
          [] OTHER               -> ensure_gemini_boundary_user_content(
                                      sanitize_gemini_request_thought_signatures(contents))
  IN  bounded(convert_messages(history, target))
=============================================================================
