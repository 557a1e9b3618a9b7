----------------------------- MODULE RequestBody -----------------------------
(***************************************************************************)
(* The rest of a request: the system prompt, the tools with their names    *)
(* and parameters, and the options.  A client writes one of them, line by  *)
(* line or keyword by keyword, and after each step what the conversions    *)
(* make of it must be something the upstream accepts and means the same.   *)
(* Or it writes a request it sent before, and not quite as it was.         *)
(***************************************************************************)
EXTENDS RequestOptions, SystemPrompt, ToolSchema, Normalization

CONSTANTS MaxLines,        \* bound: lines of a system prompt
          LineKinds,       \* the lines it may have
          MaxTools,        \* bound: tools of a request
          ToolNamesUsed,   \* the names a client gives them
          Questions,       \* what a request may ask in options
          Capabilities,    \* what the registry may say of a model
          MaxKeywords,     \* bound: steps that build a schema
          MaxInlined,      \* bound: what inlining may add to a schema
          UnionThreshold,  \* from how many constants on a union is simplified
          Requests,        \* requests that are sent again
          MaxDrift         \* bound: what differs when they are

ASSUME BodyAssumption ==
  {MaxLines, MaxTools, MaxKeywords, MaxInlined, UnionThreshold, MaxDrift} \subseteq Nat

VARIABLES topic,    \* which part the client writes; "conversation" for none of them
          body,     \* what it has written so far
          defs      \* definitions of a schema

bodyVars == <<topic, body, defs>>

ChatModels == {"gpt-5.1", "gpt-6-astra", "o3", "o1-mini", "kimi", "qwen"}

Blocks0 == <<<<>>>>
BodyInit ==
  /\ defs = <<>>
  /\ \/ topic = "conversation" /\ body = <<>>
     \/ topic = "prompt" /\ body = Blocks0
     \/ topic = "names" /\ body = <<>>
     \/ topic = "options" /\ body = <<>>
     \/ topic = "schema" /\ body = Blank
     \/ topic = "again" /\ body \in {[first |-> r, now |-> r, changes |-> 0]: r \in Requests}

-----------------------------------------------------------------------------
LinesOf(blocks) == Len(FlattenSeq(blocks))
WriteLine ==
  /\ topic = "prompt" /\ LinesOf(body) < MaxLines
  /\ \E kind \in LineKinds:
        body' = [body EXCEPT ![Len(body)] = Append(@, [kind |-> kind, n |-> LinesOf(body) + 1])]
  /\ UNCHANGED <<topic, defs>>
NewBlock ==
  /\ topic = "prompt" /\ Last(body) # <<>> /\ Len(body) < 2
  /\ body' = Append(body, <<>>)
  /\ UNCHANGED <<topic, defs>>

DeclareTool ==
  /\ topic = "names" /\ Len(body) < MaxTools
  /\ \E n \in ToolNamesUsed \ Range(body): body' = Append(body, n)
  /\ UNCHANGED <<topic, defs>>

ChooseOptions ==
  /\ topic = "options" /\ body = <<>>
  /\ \E q \in Questions, cap \in Capabilities: body' = <<[asked |-> q, cap |-> cap]>>
  /\ UNCHANGED <<topic, defs>>

-----------------------------------------------------------------------------
(* A schema grows from the inside.                                         *)
Written == FoldLeft(LAMBDA sum, d: sum + Size(defs[d]), Size(body), SetToSeq(DOMAIN defs))
Growing == topic = "schema" /\ body # Blank
Grow(n) == Written < MaxKeywords
           /\ body' = n /\ UNCHANGED <<topic, defs>>

Leaves == {Strings,
           [Typed("integer") EXCEPT !.words = {"minimum", "title"}],
           [Strings EXCEPT !.words = {"pattern", "badPattern"}],
           [Blank EXCEPT !.enum = {"a", "b"}, !.type = <<"string">>],
           [Blank EXCEPT !.const = "a"],
           [Blank EXCEPT !.type = <<"string", "null">>],
           [Blank EXCEPT !.type = <<"string", "array", "null">>],
           Typed("array"), Typed("object"), Typed("null"),
           [Blank EXCEPT !.ref = "elsewhere"]}

StartSchema == topic = "schema" /\ body = Blank /\ \E leaf \in Leaves: Grow(leaf)

Alone(x, child) == Put(Typed("object"), "properties", x, child)
AsProperty ==
  /\ Growing
  /\ \/ Grow([Alone("pattern", body) EXCEPT !.required = {"pattern"}])
     \/ Grow(Alone("x", [body EXCEPT !.must = TRUE]))
     \/ Grow(Put(Blank, "properties", "description", body))
     \/ Grow([Put(Blank, "bare", "x", [body EXCEPT !.must = TRUE]) EXCEPT !.words = {"closed", "meta"}])
AsItems ==
  /\ Growing
  /\ \E n \in {Blank, Typed("array"), [Blank EXCEPT !.type = <<"string", "array">>]}: Grow(Put(n, "items", "all", body))
AsBranch ==
  /\ Growing
  /\ \E key \in {"anyOf", "oneOf"}:
        \/ \E other \in {Typed("null"), Strings, [Blank EXCEPT !.const = "b"]}:
              Grow(PutBranches(Blank, key, <<body, other>>))
        \/ \E other \in {Typed("null"), [Blank EXCEPT !.required = {"x"}]}:
              Grow(PutBranches(Alone("x", Strings), key, <<other, body>>))
        \/ \E other \in {Typed("null"), Typed("object")}:
              Grow(PutBranches(Hint(Typed("object"), {"doc"}), key, <<other, body>>))
AsPart ==
  /\ Growing
  /\ \/ Grow(PutBranches(Alone("y", Strings), "allOf", <<body>>))
     \/ Grow(Put(Alone("y", Strings), "then", "1", body))
Beside ==
  /\ Growing /\ Has(body, "properties")
  /\ \E x \in {"_", "z"}: x \notin Names(body, "properties")
                          /\ Grow([Put(body, "properties", x, [Strings EXCEPT !.nullable = TRUE]) EXCEPT !.required = @ \cup {x, "gone"}])

(* The schema becomes a definition, used twice; or used in itself.         *)
Define ==
  /\ Growing /\ ~Has(body, "bare") /\ Cardinality(DOMAIN defs) < 3
  /\ Written < MaxKeywords
  /\ LET d   == <<"A", "B", "C">>[Cardinality(DOMAIN defs) + 1]
         use == [Blank EXCEPT !.ref = d]
     IN  \/ body' = Put(Alone("x", use), "properties", "y", use) /\ defs' = (d :> body) @@ defs
         \/ body' = use /\ defs' = (d :> body) @@ defs
         \/ body' = Put(Blank, "items", "all", use)
            /\ defs' = (d :> Put(Alone("x", body), "properties", "self", use)) @@ defs
  /\ UNCHANGED topic

-----------------------------------------------------------------------------
(* The request once more, as Claude Code may write it the next time.       *)
Rewrite(now) == /\ topic = "again" /\ body.changes < MaxDrift
                /\ body' = [body EXCEPT !.now = now, !.changes = @ + 1]
                /\ UNCHANGED <<topic, defs>>
Writable(F(_)) == topic = "again" /\ \E i \in DOMAIN body.now.messages: F(i)
Blocks(i) == body.now.messages[i]
Dates == {"plain", "typeset", "slashed"}

ReorderTools == topic = "again" /\ Rewrite([body.now EXCEPT !.tools = Reverse(@)])
ReorderKeys ==
  topic = "again" /\ \E t \in DOMAIN body.now.tools: Rewrite([body.now EXCEPT !.tools[t].keys = Reverse(@)])
ReorderInput ==
  Writable(LAMBDA i: \E k \in DOMAIN Blocks(i):
    /\ Blocks(i)[k].type = "call"
    /\ \E t \in Range(body.now.tools): t.name = Blocks(i)[k].name /\ t.keys # <<>>
    /\ Rewrite([body.now EXCEPT !.messages[i][k].keys = Reverse(@)]))
ReorderList ==
  topic = "again" /\ \E b \in DOMAIN body.now.system: \E s \in DOMAIN body.now.system[b]:
    Rewrite([body.now EXCEPT !.system[b][s].list = Reverse(@)])
WriteDate ==
  topic = "again" /\ \E d \in Dates:
    \/ \E b \in DOMAIN body.now.system: \E s \in DOMAIN body.now.system[b]:
         body.now.system[b][s].date # "none" /\ Rewrite([body.now EXCEPT !.system[b][s].date = d])
    \/ \E i \in DOMAIN body.now.messages: \E k \in DOMAIN Blocks(i):
         /\ Blocks(i)[k].type = "text"
         /\ \E s \in DOMAIN Blocks(i)[k].text:
              /\ Blocks(i)[k].text[s].reminder /\ Blocks(i)[k].text[s].date # "none"
              /\ Rewrite([body.now EXCEPT !.messages[i][k].text[s].date = d])
Respace ==
  Writable(LAMBDA i: \E k \in DOMAIN Blocks(i): \E gap \in 1..2, tail \in 0..1:
    /\ Blocks(i)[k].type = "text" /\ Last(Blocks(i)[k].text).reminder
    /\ LET s == Len(Blocks(i)[k].text)
       IN  Rewrite([body.now EXCEPT !.messages[i][k].text[s].gap = gap, !.messages[i][k].text[s].tail = tail]))
(* The reminders behind the results go into the last of these.             *)
Smoosh ==
  Writable(LAMBDA i:
    \E k \in DOMAIN Blocks(i):
      /\ Blocks(i)[k].type = "result" /\ k < Len(Blocks(i))
      /\ \A j \in k + 1 .. Len(Blocks(i)): Blocks(i)[j].type = "text" /\ Len(Blocks(i)[j].text) = 1
                                           /\ Blocks(i)[j].text[1].reminder
      /\ Rewrite([body.now EXCEPT !.messages[i] =
           Append(SubSeq(@, 1, k - 1),
                  [@[k] EXCEPT !.text = @ \o FlattenSeq([j \in 1..Len(Blocks(i)) - k |-> Blocks(i)[k + j].text])])]))

BodyNext == \/ WriteLine \/ NewBlock \/ DeclareTool \/ ChooseOptions
            \/ StartSchema \/ AsProperty \/ AsItems \/ AsBranch \/ AsPart \/ Beside \/ Define
            \/ ReorderTools \/ ReorderKeys \/ ReorderInput \/ ReorderList \/ WriteDate \/ Respace \/ Smoosh

-----------------------------------------------------------------------------
(* Every line of Claude Code's prompt that makes another model over-think  *)
(* is gone and every other one is there, in its order: by the nearest      *)
(* header above it in its block; behind Responses, in the blocks as one.   *)
Wanted(lines) ==
  LET own == strip_attribution_line(lines)
  IN  SelectSeq(own, LAMBDA l: ~Unwanted(own, CHOOSE i \in DOMAIN own: own[i] = l))
PromptCut ==
  topic = "prompt" =>
    /\ \A i \in DOMAIN body: strip_claude_system_for_gpt(body[i]) = Wanted(body[i])
    /\ FlattenSeq(sanitize_passthrough_prompt(body, "claude")) = FlattenSeq(body)
    /\ \A family \in {"gpt", "other"}:
          responsesInstructions(body, family) = Wanted(system_to_instructions_text(body, family))
    /\ \A l \in Range(FlattenSeq(sanitize_passthrough_prompt(body, "gpt"))):
          l.kind \in {"plain", "keep", "other", "identity", "attribution"}

(* No two tools go by one name upstream, and a call by that name is given  *)
(* to the tool the client meant.                                           *)
Distinct(map) == \A m, n \in DOMAIN map: m # n => map[m] # map[n]
NamesReturn ==
  topic = "names" =>
    LET short == build_short_name_map(body)
        clean == sanitized_function_name_map(body)
        ag    == [n \in DOMAIN clean |-> antigravity_tool_name_to_upstream(clean[n])]
    IN  /\ Distinct(short) /\ Distinct(clean) /\ Distinct(ag)
        /\ \A n \in Range(body): /\ build_reverse_map(short)[short[n]] = n
                                 /\ antigravity_upstream_tool_name_to_client(ag[n]) = clean[n]
        /\ sanitized_function_name_map(Reverse(body)) = clean

(* The effort a model is asked for is one it has, and of those it has the  *)
(* nearest to what the client asked, the lower of two; what is forced wins,*)
(* and thinking that is off is not switched on by clamping where it stands.*)
Nearest(e, source, cap) ==
  LET known == {l \in Range(cap.levels): parse(l) # Absent}
  IN  CASE parse(cap.forced) # Absent -> e = cap.forced
        [] parse(cap.forced) = Absent /\ known = {} -> e = source
        [] OTHER -> /\ e \in known
                    /\ \A l \in known: \/ Distance(e, source) < Distance(l, source)
                                       \/ Distance(e, source) = Distance(l, source) /\ level_rank(e) <= level_rank(l)
EffortNearest ==
  topic = "options" /\ body # <<>> =>
    LET asked  == body[1].asked
        cap    == body[1].cap
        source == resolve_effort_from_body(asked)
        passed == clamp_passthrough_effort(asked, "gpt-5.1", cap)
    IN  /\ \A model \in ChatModels: LET e == chatEffort(asked, model, cap)
                                   IN  e # Absent /\ ~(model = "kimi" /\ source = "none") => Nearest(e, source, cap)
        /\ source # Absent => Nearest(responsesOptions(asked, "gpt-5.1", cap).effort, source, cap)
        /\ responsesOptions(asked, "gpt-5.1", cap).effort \in Range(Levels)
        /\ parse(passed.effort) # Absent /\ asked.thinking # "disabled" => Nearest(passed.effort, asked.effort, cap)
        /\ asked.thinking = "disabled" => passed = asked

(* No option leaves that its upstream refuses: two ways to sample at once, *)
(* one where the model reasons, two limits of the answer, a choice of a    *)
(* tool that is not declared or of any where there is none, a level of     *)
(* thinking Gemini has not.  What a user's override breaks is set right.   *)
Overridden(out) ==
  {[out EXCEPT !.max = m, !.temperature = t, !.stream = s]:
     m \in {{"max_tokens", "max_completion_tokens"}, {"max_tokens"}}, t \in {out.temperature, "0.9"}, s \in {{}, {"x"}}}
OptionsAccepted ==
  topic = "options" /\ body # <<>> =>
    LET asked == body[1].asked
        cap   == body[1].cap
        named(choice, tools) == choice \in {Absent, "auto", "none", "required"} \cup tools
    IN  /\ \A model \in ChatModels:
             LET out == chatOptions(asked, model, cap)
             IN  /\ out.temperature = Absent \/ out.top_p = Absent
                 /\ model \in {"o3", "o1-mini"} => out.temperature = Absent
                 /\ model = "kimi" => out.temperature \in {Absent, "0.6", "1.0"}
                 /\ \A over \in Overridden(out):
                      LET last == sanitize_openai_chat_after_payload(over, model)
                      IN  /\ Cardinality(last.max) = 1
                          /\ openai_chat_capabilities(model, Absent).mct = ("max_completion_tokens" \in last.max)
                          /\ model = "kimi" => last.temperature \in {Absent, "0.6", "1.0"}
        /\ named(convert_tool_choice(asked), asked.tools \ {"search"})
        /\ asked.tools \ {"search"} = {} => convert_tool_choice(asked) = Absent
        /\ named(responsesOptions(asked, "gpt-5.1", cap).choice, asked.tools)
        /\ normalize_claude_55_tool_choice(asked, "claude-5.5").choice \notin {"any", "tool"}
        /\ \A model \in {"gemini-2.5-flash", "gemini-3", "gemini-x"}, ag \in BOOLEAN:
             LET t == thinkingConfig(asked, model, cap, ag)
             IN  /\ t.budget = NoNumber \/ t.level = Absent
                 /\ t.level \in {Absent, "minimal", "low", "medium", "high"}
        /\ cap.max > 0 => antigravityOptions(asked, "claude", cap, 50).max <= cap.max

-----------------------------------------------------------------------------
RECURSIVE Nodes(_)
Nodes(n) == {n} \cup UNION {Nodes(n.sub[k]): k \in DOMAIN n.sub}
Modes == {"gemini", "agTool", "ag", "agClaude"}
Ample == 1000

(* Whatever a client declares, what leaves is in the vocabulary of the     *)
(* upstream and consistent in itself: one type, the type its keywords fit, *)
(* nothing required that is not there, and something required of every     *)
(* object where calls are validated.                                       *)
Fits(n, mode) ==
  /\ n.ref = "none" /\ n.const = "none" /\ ~n.must /\ Len(n.type) <= 1
  /\ \A k \in DOMAIN n.sub: k[1] \in {"properties", "items", "anyOf", "oneOf"}
  /\ Has(n, "items") <=> n.type = <<"array">>
  /\ Has(n, "properties") => n.type = <<"object">>
  /\ n.required \subseteq Names(n, "properties")
  /\ n.words \cap Unsupported(mode) = {}
  /\ ForAntigravity(mode) => n.enum = {} /\ ~Has(n, "oneOf")
  /\ mode = "gemini" => ~n.nullable /\ "title" \notin n.words /\ (n.enum # {} => n.type \in {<<"string">>, <<"object">>})
  /\ mode = "agClaude" => ~Has(n, "anyOf")
  /\ Validated(mode) /\ n.type = <<"object">> /\ ~Has(n, "anyOf") => n.required # {}
ParametersOf(b, d) == simplify_pure_const_unions(normalize_tool_parameters(d, b, Ample), UnionThreshold)
UnionOfObjects(n) == \A k \in DOMAIN n.sub: k[1] \in {"anyOf", "oneOf"} => Range(n.sub[k].type) = {"object"}
SchemaAccepted ==
  topic = "schema" =>
    /\ \A mode \in Modes: \A n \in Nodes(clean_json_schema(defs, body, mode, Ample)): Fits(n, mode)
    /\ LET known(r) == /\ r.type # <<>>
                       /\ \A n \in Nodes(r): n.words \cap {"meta", "badPattern", "huge"} = {}
                       /\ body.type = <<"object">> => UnionOfObjects(r)
       IN  known(ParametersOf(body, defs))
    /\ \A n \in Nodes(normalize_object_schema_properties(body)): "badPattern" \notin n.words

(* And it still asks for the same: every field the client's schema has,    *)
(* behind references, parts and items as well, whatever it is called, is   *)
(* there, and what was required is.                                        *)
RECURSIVE Fields(_, _, _, _)
Fields(n, active, left, levels) ==
  LET below(slot, x) == Fields(n.sub[<<slot, x>>], active, levels, levels)
      named == UNION {{<<x>>} \cup {<<x>> \o p: p \in below("properties", x)}: x \in Names(n, "properties")}
               \cup UNION {{<<x>>} \cup {<<x>> \o p: p \in below("bare", x)}: x \in Names(n, "bare")}
      items == IF Has(n, "items") /\ (n.type = <<>> \/ "array" \in Range(n.type))
               THEN {<<"[]">> \o p: p \in below("items", "all")} ELSE {}
      there == IF n.ref \in DOMAIN defs \ active
               THEN Fields(defs[n.ref], active \cup {n.ref}, left, levels) ELSE {}
      parts == IF left = 0 THEN {}
               ELSE UNION {Fields(n.sub[<<"allOf", x>>], active, left - 1, levels): x \in Names(n, "allOf")}
      added == UNION {{<<x>>: x \in Names(n.sub[<<"then", t>>], "properties")}: t \in Names(n, "then")}
  IN  named \cup items \cup there \cup added
      \cup {p \in parts: (named # {} => p[1] # "[]") /\ (Len(p) > 1 => p[1] \notin Names(n, "properties"))}
RECURSIVE FieldsLeft(_)
FieldsLeft(n) ==
  UNION {{<<x>>} \cup {<<x>> \o p: p \in FieldsLeft(n.sub[<<"properties", x>>])}: x \in Names(n, "properties")}
  \cup (IF Has(n, "items") THEN {<<"[]">> \o p: p \in FieldsLeft(n.sub[<<"items", "all">>])} ELSE {})
RequiredOf(n) ==
  {x \in Names(n, "properties"):
     LET p == n.sub[<<"properties", x>>]
     IN  /\ x \in n.required \/ p.must
         /\ p.ref = "none" /\ ~isListWithNull(p) /\ \A k \in DOMAIN p.sub: k[1] \in {"properties", "items"}}
SchemaFaithful ==
  topic = "schema" =>
    /\ \A mode \in Modes:
         LET own(paths) == IF mode = "gemini" THEN {p \in paths: "_" \notin Range(p)} ELSE paths
             kept(c)    == /\ own(Fields(body, {}, 1, 1)) \subseteq FieldsLeft(c)
                           /\ RequiredOf(body) \ (IF mode = "gemini" THEN {"_"} ELSE {}) \subseteq c.required
         IN  kept(clean_json_schema(defs, body, mode, Ample))
    /\ LET same(b, q)  == \A s \in {"anyOf", "oneOf"}:
                            Has(b, s) /\ ~Has(q, s) /\ (\A m \in Range(Branches(b, s)): m.ref = "none") =>
                              {m.const: m \in Range(Branches(b, s))} = q.enum
           faithful(r) == /\ Names(body, "properties") \subseteq Names(r, "properties")
                          /\ \A x \in Names(body, "properties"):
                               same(body.sub[<<"properties", x>>], r.sub[<<"properties", x>>])
           told(r)     == r # AnyObject => faithful(r)
       IN  told(ParametersOf(body, defs))

(* Copies of definitions that use one another do not add up without end.   *)
InliningBounded ==
  topic = "schema" => Size(resolve_schema_root(defs, body, MaxInlined)) <= Size(body) + MaxInlined

-----------------------------------------------------------------------------
(* A request written again reaches every upstream as it did before, so     *)
(* that the prompt cache hits, with two exceptions the code is explicit    *)
(* about: Claude and Gemini get marked tools in the client's order, and a  *)
(* date in a system prompt that is sent as a message is left as it is      *)
(* outside of reminders.                                                   *)
Undated(text) == Each(LAMBDA s: IF s.reminder THEN s ELSE [s EXCEPT !.date = "any"], text)
Compared(r, target) ==
  [upstream_body(r, target) EXCEPT
     !.system = IF target \in {"chat", "codex"} THEN Each(Undated, @) ELSE @,
     !.tools  = IF any_tool_has_cache_control(r.tools) /\ ~ForOpenAI(target) THEN Range(@) ELSE @]
DriftErased ==
  topic = "again" => \A target \in Targets: Compared(body.now, target) = Compared(body.first, target)

(* And what is said in it stays: every text, the keys of every tool and    *)
(* call, in the order of the client the results and the user's own words,  *)
(* with the dates in them; doing it twice changes nothing.                 *)
Segments(message) == FlattenSeq(Each(LAMBDA b: IF b.type = "call" THEN <<>> ELSE b.text, message))
OwnWords(message) == SelectSeq(Segments(message), LAMBDA s: ~s.reminder)
Uttered(message) == {s.says: s \in Range(Segments(message))}
Listed(system) == Each(LAMBDA s: <<s.says, Range(s.list)>>, FlattenSeq(system))
ToolKeys(tools) == {<<t.name, Range(t.keys)>>: t \in Range(tools)}
KeptWhole(r, out, target) ==
  /\ \A i \in DOMAIN r.messages:
       /\ OwnWords(out.messages[i]) = OwnWords(r.messages[i])
       /\ Uttered(out.messages[i]) = Uttered(r.messages[i])
       /\ \A k \in DOMAIN r.messages[i]:
            r.messages[i][k].type = "call" => Range(out.messages[i][k].keys) = Range(r.messages[i][k].keys)
  /\ ToolKeys(out.tools) = ToolKeys(r.tools)
  /\ Listed(out.system) = Listed(r.system)
  /\ ForOpenAI(target) => normalize_target_post(out, target) = out
  /\ target = "claude" => normalize_anthropic_full(out) = out
DriftOnly ==
  topic = "again" => \A target \in Targets: KeptWhole(body.now, upstream_body(body.now, target), target)
=============================================================================
