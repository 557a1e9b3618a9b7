--------------------------- MODULE RequestConversion ---------------------------
(***************************************************************************)
(* A conversation with Claude Code, and the request every conversion of    *)
(* the gateway makes of it.  The client alone keeps the history: it sends  *)
(* all of it again with every question, so a conversion is right only if   *)
(* it is right on every history the client can come to, and cheap only if  *)
(* a longer history converts to a continuation of what the shorter one did.*)
(*                                                                         *)
(* The user asks, the model answers with text, thinking and calls, the     *)
(* client answers the calls in one message or several, in any order, and   *)
(* slips reminders in between.  A resumed history may start anywhere.      *)
(***************************************************************************)
EXTENDS ChatRequest, ResponsesRequest, GeminiRequest

CONSTANTS MaxMessages,   \* bound: messages of a conversation
          MaxMarked,     \* bound: messages when signatures are not of Claude
          Marks          \* how the session's thinking and calls are signed

ASSUME BoundsAssumption == {MaxMessages, MaxMarked} \subseteq Nat /\ NoSignature \in Marks

VARIABLES history,    \* what the client has so far
          phase,      \* "composing", "awaiting" an answer, or "resumed" from the middle
          sent,       \* the history of the last request
          mark        \* the signature on what the model says in this session

vars == <<history, phase, sent, mark>>

Customs == {"patch"}

TextBlock(n)    == [type |-> "text", text |-> <<n>>]
ImageBlock(n)   == [type |-> "image", text |-> <<n>>]
ThinkBlock(n)   == [type |-> "thinking", text |-> <<n>>, sig |-> mark]
UseBlock(n, nm) == [type |-> "tool_use", id |-> n, name |-> nm, sig |-> mark]
ResultBlock(id, n, images) == [type |-> "tool_result", id |-> id, text |-> <<n>>, images |-> images]

IdsOf(h)      == {b.id: b \in UNION {Range(SelectSeq(h[i].content, LAMBDA b: b.type = "tool_use")):
                                     i \in {j \in DOMAIN h: h[j].role = "assistant"}}}
AnsweredOf(h) == {b.id: b \in UNION {Range(SelectSeq(h[i].content, IsResult)):
                                     i \in {j \in DOMAIN h: h[j].role = "user"}}}
Pending       == IdsOf(history) \ AnsweredOf(history)

(* Every text, image and result of a conversation is a piece of its own.   *)
Fresh(k) == 10 * (Len(history) + 1) + k

Limit == IF mark = NoSignature THEN MaxMessages ELSE MaxMarked
Say(role, content) == /\ Len(history) < Limit
                      /\ history' = Append(history, [role |-> role, content |-> content])

Init ==
  /\ history = <<>>
  /\ phase = "composing"
  /\ sent = <<>>
  /\ mark \in Marks

Spoken == SelectSeq(history, LAMBDA m: m.role # "system")
Sendable == Pending = {} /\ Spoken # <<>> /\ Last(Spoken).role = "user"
IsQuestion(m) == m.role = "user" /\ ~\E k \in DOMAIN m.content: IsResult(m.content[k])

Ask ==
  /\ phase = "composing" /\ Pending = {}
  /\ Spoken # <<>> => ~IsQuestion(Last(Spoken))
  /\ Say("user", IF history = <<>> THEN <<ImageBlock(Fresh(1)), TextBlock(Fresh(2))>>
                 ELSE <<TextBlock(Fresh(1))>>)
  /\ UNCHANGED <<phase, sent, mark>>

Remind ==
  /\ phase = "composing" /\ history # <<>>
  /\ \E kind \in {"plain", "identity", "attribution"}:
        Say("system", <<[kind |-> kind, text |-> <<Fresh(1)>>]>>)
  /\ UNCHANGED <<phase, sent, mark>>

(* Some of the calls are answered, the others in a later message.          *)
Results ==
  /\ phase = "composing" /\ Pending # {}
  /\ \E some \in SUBSET Pending \ {{}}: \E order \in SetToSeqs(some):
     \E with \in {"nothing", "image", "text before", "text behind"}:
        LET images == IF with = "image" THEN <<<<Fresh(9)>>>> ELSE <<>>
        IN  Say("user", (IF with = "text before" THEN <<TextBlock(Fresh(1))>> ELSE <<>>)
                        \o [k \in DOMAIN order |->
                              ResultBlock(order[k], Fresh(1 + k), IF k = 1 THEN images ELSE <<>>)]
                        \o (IF with = "text behind" THEN <<TextBlock(Fresh(5))>> ELSE <<>>))
  /\ UNCHANGED <<phase, sent, mark>>

Send ==
  /\ phase = "composing" /\ Sendable
  /\ phase' = "awaiting" /\ sent' = history
  /\ UNCHANGED <<history, mark>>

Answer ==
  /\ phase = "awaiting"
  /\ \E thinks, speaks \in BOOLEAN: \E names \in {<<>>, <<"read">>, <<"read", "patch">>}:
        /\ thinks \/ speaks \/ names # <<>>
        /\ Say("assistant", (IF thinks THEN <<ThinkBlock(Fresh(1))>> ELSE <<>>)
                            \o (IF speaks THEN <<TextBlock(Fresh(2))>> ELSE <<>>)
                            \o [k \in DOMAIN names |-> UseBlock(Fresh(k), names[k])])
  /\ phase' = "composing"
  /\ UNCHANGED <<sent, mark>>

(* A client that resumes may have lost the beginning, calls included.      *)
Resume ==
  /\ phase = "composing" /\ Sendable
  /\ \E k \in 2..Len(history): history' = SubSeq(history, k, Len(history))
  /\ phase' = "resumed"
  /\ UNCHANGED <<sent, mark>>

Next == Ask \/ Remind \/ Results \/ Send \/ Answer \/ Resume
Spec == Init /\ [][Next]_vars

GeminiTargets == {"gemini", "agGemini", "agClaude"}
Chat(h) == convert_to_openai_chat(h, "gpt")
Responses(h, family) == convert_to_openai_responses(h, family, Customs)
Converted(h, target) ==
  CASE target = "chat" -> Chat(h) [] target = "responses" -> Responses(h, "gpt") [] OTHER -> convert_to_gemini(h, target)

Whole == phase # "resumed" /\ Sendable

-----------------------------------------------------------------------------
(* Every call is answered where its protocol looks for the answer: tool    *)
(* messages right behind the assistant message, the responses of a turn in *)
(* the turn after it and under the names of its calls (alone in it for     *)
(* Claude), an output item of the call's own kind after the call.          *)
ChatPaired(ms) ==
  /\ \A i \in DOMAIN ms: ms[i].role = "assistant" =>
        LET n == Len(ms[i].calls)
        IN  /\ i + n <= Len(ms)
            /\ {[id |-> ms[i].calls[k].id, name |-> {ms[i].calls[k].name}]: k \in 1..n} =
               {[id |-> m.id, name |-> m.name]: m \in {ms[j]: j \in {x \in (i+1)..(i+n): ms[x].role = "tool"}}}
  /\ Len(SelectSeq(ms, LAMBDA m: m.role = "tool")) =
     FoldSeq(LAMBDA m, n: n + IF m.role = "assistant" THEN Len(m.calls) ELSE 0, 0, ms)

GeminiPaired(cs, alone) ==
  LET named(i, type) == {[id |-> p.id, name |-> p.name]: p \in Range(ofType(cs[i].parts, type))}
  IN  /\ \A i \in DOMAIN cs: HasPart(cs[i], "call") =>
            /\ i < Len(cs) /\ named(i + 1, "response") = named(i, "call")
            /\ alone => butType(cs[i + 1].parts, "response") = <<>>
      /\ \A i \in DOMAIN cs: HasPart(cs[i], "response") => i > 1 /\ HasPart(cs[i - 1], "call")

ResponsesPaired(items) ==
  LET answerTo == [custom_tool_call |-> "custom_tool_call_output", function_call |-> "function_call_output"]
      calls    == {i \in DOMAIN items: items[i].type \in DOMAIN answerTo}
      outputs  == {i \in DOMAIN items: items[i].type \in Range(answerTo)}
  IN  /\ Cardinality(calls) = Cardinality(outputs)
      /\ \A i \in calls: \E j \in outputs: j > i /\ items[j].id = items[i].id
                                                 /\ items[j].type = answerTo[items[i].type]

CallsAnswered ==
  Whole => /\ ChatPaired(Chat(history))
           /\ \A target \in GeminiTargets: GeminiPaired(convert_to_gemini(history, target), target = "agClaude")
           /\ ResponsesPaired(Responses(history, "gpt"))

(* Answered in one message, whatever the order, the results go upstream in *)
(* the order of the calls.                                                 *)
InOneGo == \A i \in DOMAIN history: history[i].role = "user" =>
             LET ids == {b.id: b \in Range(SelectSeq(history[i].content, IsResult))}
             IN  ids = {} \/ \E j \in 1..(i - 1): history[j].role = "assistant"
                                                  /\ Range(UseIds(history[j].content)) = ids
Ascends(ids) == \A i, j \in DOMAIN ids: i < j => ids[i] < ids[j]
ResultsInCallOrder ==
  Whole /\ InOneGo =>
    /\ Ascends(IdSeq(SelectSeq(Chat(history), LAMBDA m: m.role = "tool")))
    /\ Ascends(IdSeq(SelectSeq(Responses(history, "gpt"),
                       LAMBDA m: m.type \in {"function_call_output", "custom_tool_call_output"})))
    /\ \A target \in {"gemini", "agClaude"}: \A cs \in {convert_to_gemini(history, target)}:
          Ascends(IdSeq(Joined([i \in DOMAIN cs |-> ofType(cs[i].parts, "response")])))

(* Nothing said or shown is lost, repeated or moved: what the conversion   *)
(* tells as text is what the history does, in its order, and each result   *)
(* and image is there once, also when the history starts in the middle.    *)
SaidIn(msg, family) ==
  IF msg.role = "system" THEN system_reminder_text(msg.content, family)
  ELSE Joined([k \in DOMAIN msg.content |-> IF msg.content[k].type = "text" THEN msg.content[k].text ELSE <<>>])
SaidOf(h, family) == Joined([i \in DOMAIN h |-> SaidIn(h[i], family)])
ShownIn(b) == CASE b.type = "image" -> b.text
                [] b.type = "tool_result" -> b.text \o Joined(b.images)
                [] OTHER -> <<>>
ShownOf(h) == Joined([i \in DOMAIN h |-> IF h[i].role = "system" THEN <<>>
                                         ELSE Joined([k \in DOMAIN h[i].content |-> ShownIn(h[i].content[k])])])

ChatTells(ms) == Joined([i \in DOMAIN ms |-> IF ms[i].role = "tool" THEN ms[i].text
                           ELSE Joined([k \in DOMAIN ms[i].content |-> ms[i].content[k].text])])
GeminiTells(cs) == Joined([i \in DOMAIN cs |->
                     Joined([k \in DOMAIN cs[i].parts |->
                               IF cs[i].parts[k].type = "thought" THEN <<>>
                               ELSE cs[i].parts[k].text \o Joined(cs[i].parts[k].media)])])
ResponsesTells(items) == Joined([i \in DOMAIN items |->
                           CASE items[i].type = "message" ->
                                  Joined([k \in DOMAIN items[i].content |-> items[i].content[k].text])
                             [] items[i].type \in {"function_call_output", "custom_tool_call_output"} -> items[i].text
                             [] OTHER -> <<>>])

Faithful(told, family) ==
  LET said  == SaidOf(history, family)
      shown == ShownOf(history)
  IN  /\ SelectSeq(told, LAMBDA p: p \in Range(said)) = said
      /\ Len(told) = Len(said) + Len(shown)
      /\ Range(shown) \subseteq Range(told)

NothingLost ==
  Sendable /\ ~is_codex_commentary_signature_marker(mark) =>
    /\ Faithful(ChatTells(Chat(history)), "gpt")
    /\ \A target \in {"gemini", "agClaude"}:
          Faithful(GeminiTells(convert_to_gemini(history, target)), FamilyOf(target))
    /\ Faithful(ResponsesTells(Responses(history, "gpt")), "gpt")

(* What Gemini refuses never leaves: a history that starts or ends with    *)
(* the model, two user turns in a row; and Claude behind Antigravity       *)
(* refuses an empty text.                                                  *)
AcceptedShape ==
  Sendable =>
    \A target \in GeminiTargets: \A cs \in {convert_to_gemini(history, target)}:
      IF target = "agClaude"
      THEN \A i \in DOMAIN cs: cs[i].parts # <<>> /\ \A k \in DOMAIN cs[i].parts:
             cs[i].parts[k].type = "text" => cs[i].parts[k].text # <<>>
      ELSE cs # <<>> =>
             /\ cs[1].role = "user" /\ Last(cs).role = "user"
             /\ \A i \in 1..(Len(cs) - 1): ~(cs[i].role = "user" /\ cs[i + 1].role = "user")

(* A signature reaches only the family that issued it and in that family's *)
(* form; what stands for none reaches Gemini alone, on a call; the first   *)
(* call of a turn is always signed for Gemini, its siblings never by it.   *)
SignaturesOf(cs) == {p.sig: p \in UNION {Range(cs[i].parts): i \in DOMAIN cs}} \ {NoSignature}
OwnFamilyOnly ==
  /\ \A target \in GeminiTargets: \A s \in SignaturesOf(convert_to_gemini(history, target)):
        IF target = "agClaude" THEN s.prefix = "none" /\ s.lead = "R" /\ s.tree = "channel"
        ELSE s = Bypass \/ is_recognized_gemini_provider_signature(s)
  /\ \A family \in {"gpt", "grok"}: \A item \in Range(Responses(history, family)):
        item.type = "reasoning" => \/ is_valid_gpt_reasoning_signature(item.sig)
                                   \/ family = "grok" /\ is_valid_grok_encrypted_content(item.sig)

FirstCallSigned ==
  \A target \in {"gemini", "agGemini"}: \A c \in Range(convert_to_gemini(history, target)):
     LET calls == ofType(c.parts, "call")
     IN  calls # <<>> => /\ calls[1].sig # NoSignature
                         /\ target = "gemini" => \A k \in 2..Len(calls): calls[k].sig # Bypass

(* A signature of Claude that Antigravity issued comes back from the       *)
(* client as it was issued, and one of the native API is made native again.*)
SignatureReturns ==
  /\ mark.lead = "R" /\ mark.prefix = "none" /\ mark.tree = "channel" =>
       resolve_thinking_signature("claude", format_claude_signature_value("claude", mark)) = mark
  /\ mark.lead = "E" /\ detect_signature_provider(mark) = "claude" =>
       compatible_signature_for_provider_block("claude", resolve_thinking_signature("claude", mark))
         = signature_payload_without_prefix(mark)

(* The next request starts as the last one did, so that the prompt caches  *)
(* of the upstreams hit.  An answer of which only dropped thinking remains *)
(* is the exception: the questions around it become one turn.              *)
Tacit(h) == \E i \in DOMAIN h: h[i].role = "assistant"
                               /\ \A k \in DOMAIN h[i].content: h[i].content[k].type = "thinking"
PrefixGrows ==
  [][sent' # sent /\ ~Tacit(sent') =>
       \A target \in {"chat", "responses"} \cup GeminiTargets:
          IsPrefix(Converted(sent, target), Converted(sent', target))]_vars
=============================================================================
