---------------------------- MODULE RequestOptions ----------------------------
(***************************************************************************)
(* What a request asks of the model besides the conversation: how hard to  *)
(* think, how to sample, how long to answer, which tool to call; and what  *)
(* the conversions make of it for upstreams that refuse what they do not   *)
(* know (crates/ccextra-core/src/thinking.rs and convert).                 *)
(*                                                                         *)
(* asked is a record: thinking ("absent", "disabled", "enabled",           *)
(* "adaptive"), budget (or NoNumber), effort (of output_config) and        *)
(* nested (of thinking.output_config), each Absent or a level, choice      *)
(* (tool_choice), named (its tool), tools (the declared ones, of which     *)
(* "search" is the server's), strict (some tool is), temperature, top_p.   *)
(* cap is what the registry says of the model: NoCapability or             *)
(* [levels, forced, max].                                                  *)
(***************************************************************************)
EXTENDS Integers, Sequences, FiniteSets, SequencesExt

Absent == "absent"
NoNumber == -100
Levels == <<"none", "auto", "minimal", "low", "medium", "high", "xhigh", "max">>
level_rank(l) == CHOOSE i \in DOMAIN Levels: Levels[i] = l
parse(l) == IF l \in Range(Levels) THEN l ELSE Absent

NoCapability == [levels |-> <<>>, forced |-> Absent, max |-> 0]

budget_to_level(b) ==
  CASE b < -1     -> Absent
    [] b = -1     -> "auto"
    [] b = 0      -> "none"
    [] b \in 1..512 -> "minimal"
    [] b \in 513..1024 -> "low"
    [] b \in 1025..8192 -> "medium"
    [] b \in 8193..24576 -> "high"
    [] OTHER      -> "xhigh"

FirstOf(a, b) == IF a = Absent THEN b ELSE a

(* The thinking object alone: a budget that is missing means auto, an      *)
(* effort that is missing xhigh.                                           *)
resolve_effort(asked) ==
  CASE asked.thinking = "enabled"  -> IF asked.budget = NoNumber THEN "auto" ELSE budget_to_level(asked.budget)
    [] asked.thinking = "adaptive" -> IF asked.nested = Absent THEN "xhigh" ELSE parse(asked.nested)
    [] asked.thinking = "disabled" -> "none"
    [] OTHER                       -> Absent

(* A switched off thinking wins over a left over effort; a budget over the *)
(* effort only where thinking is enabled by it.                            *)
resolve_effort_from_body(asked) ==
  LET budgeted == IF asked.thinking = "enabled" /\ asked.budget # NoNumber
                  THEN budget_to_level(asked.budget) ELSE Absent
  IN  IF asked.thinking = "disabled" THEN "none"
      ELSE FirstOf(budgeted, FirstOf(parse(asked.effort), resolve_effort(asked)))

(* The nearest level the model has, the lower of two.                      *)
Distance(a, b) == LET d == level_rank(a) - level_rank(b) IN IF d < 0 THEN -d ELSE d

closer(level, best, l) ==
  IF Distance(level, l) < Distance(level, best)
     \/ (Distance(level, l) = Distance(level, best) /\ level_rank(l) < level_rank(best))
  THEN l ELSE best
clamp_to_nearest(level, levels) ==
  IF levels = <<>> \/ level \in Range(levels) THEN level
  ELSE LET step(best, l) == closer(level, best, l)
       IN  FoldLeft(step, Head(levels), Tail(levels))

clamp_effort(level, cap) ==
  IF parse(level) = Absent \/ cap = NoCapability THEN level
  ELSE clamp_to_nearest(level, SelectSeq(cap.levels, LAMBDA l: parse(l) # Absent))

Emitted(level, cap) == IF parse(cap.forced) # Absent THEN cap.forced ELSE clamp_effort(level, cap)

-----------------------------------------------------------------------------
(* Chat Completions.  The kinds of model differ in what they accept.       *)
openai_chat_capabilities(model, effort) ==
  LET samples == model = "gpt-5.1" /\ effort \in {Absent, "none"}
  IN  CASE model = "o3"      -> [mct |-> TRUE, developer |-> TRUE, temperature |-> FALSE, top_p |-> TRUE]
        [] model = "o1-mini" -> [mct |-> TRUE, developer |-> FALSE, temperature |-> FALSE, top_p |-> TRUE]
        [] model \in {"gpt-5.1", "gpt-5.1-codex", "gpt-6-astra"} ->
             [mct |-> TRUE, developer |-> TRUE, temperature |-> samples, top_p |-> samples]
        [] OTHER             -> [mct |-> FALSE, developer |-> FALSE, temperature |-> TRUE, top_p |-> TRUE]

(* Kimi is told in an object of its own, and none is never clamped for it. *)
chatEffort(asked, model, cap) ==
  LET told(source) == CASE source = Absent                      -> Absent
                        [] source = "none" /\ model = "kimi"    -> "none"
                        [] OTHER                                -> Emitted(source, cap)
  IN  told(resolve_effort_from_body(asked))

normalize_kimi_temperature(out) ==
  IF out.temperature = Absent \/ out.temperature = (IF out.effort = "none" THEN "0.6" ELSE "1.0") THEN out
  ELSE [out EXCEPT !.temperature = Absent]

(* temperature and top_p exclude one another.                              *)
chatOptions(asked, model, cap) ==
  LET off == resolve_effort_from_body(asked) = "none"
      out(effort, can) ==
        LET heat == IF can.temperature THEN asked.temperature ELSE Absent
        IN  [effort |-> effort,
             temperature |-> heat,
             top_p |-> IF can.top_p /\ heat = Absent THEN asked.top_p ELSE Absent,
             max |-> IF can.mct THEN {"max_completion_tokens"} ELSE {"max_tokens"},
             stream |-> {}]
      for(effort) == out(effort, openai_chat_capabilities(model, IF off THEN "none" ELSE effort))
      cooled(o) == IF model = "kimi" THEN normalize_kimi_temperature(o) ELSE o
  IN  cooled(for(chatEffort(asked, model, cap)))

(* Once more after the user's overrides, which may write anything.         *)
normalize_openai_chat_max_tokens(out, mct) ==
  IF out.max = {} THEN out
  ELSE [out EXCEPT !.max = IF mct THEN {"max_completion_tokens"} ELSE {"max_tokens"}]
sanitize_openai_chat_after_payload(out, model) ==
  LET cooled == IF model = "kimi" THEN normalize_kimi_temperature(out) ELSE out
      kept   == IF model = "qwen" THEN cooled ELSE [cooled EXCEPT !.stream = {}]
  IN  normalize_openai_chat_max_tokens(kept, openai_chat_capabilities(model, Absent).mct)

(* A choice must name a tool that is declared.                             *)
convert_tool_choice(asked) ==
  CASE asked.tools \ {"search"} = {} -> Absent
    [] asked.choice = "tool"         -> IF asked.named \in asked.tools \ {"search"} THEN asked.named ELSE Absent
    [] asked.choice = "any"          -> "required"
    [] OTHER                         -> asked.choice

-----------------------------------------------------------------------------
(* Responses: the search of the server is a tool as well, a choice without *)
(* any tool is refused.                                                    *)
responsesOptions(asked, model, cap) ==
  LET default == IF model = "gpt-6-astra" THEN "low" ELSE "medium"
      choice  == CASE asked.choice \in {Absent, "auto"} -> "auto"
                   [] asked.choice = "any"  -> "required"
                   [] asked.choice = "none" -> "none"
                   [] OTHER                 -> IF asked.named \in asked.tools THEN asked.named ELSE "auto"
  IN  [effort |-> Emitted(FirstOf(resolve_effort_from_body(asked), default), cap),
       choice |-> IF asked.tools = {} THEN Absent ELSE choice,
       include |-> {"reasoning.encrypted_content"} \cup
                   (IF "search" \in asked.tools THEN {"web_search_call.action.sources"} ELSE {})]

-----------------------------------------------------------------------------
(* Gemini: a budget, or a level of which it knows four.                    *)
gemini_thinking_max_budget(model) ==
  CASE model = "gemini-2.5-flash" -> 24576 [] model = "gemini-3" -> 32768 [] OTHER -> NoNumber

thinkingConfig(asked, model, cap, antigravity) ==
  LET known(sent) == IF sent \in {"minimal", "low", "medium", "high"} THEN sent ELSE "high"
      level == known(Emitted(FirstOf(asked.effort, "high"), cap))
      most  == gemini_thinking_max_budget(model)
  IN  CASE asked.thinking = "enabled"  -> [budget |-> asked.budget, level |-> Absent]
        [] asked.thinking = "adaptive" ->
             IF ~antigravity /\ asked.effort \in {"max", Absent}
             THEN [budget |-> most, level |-> IF most = NoNumber THEN "high" ELSE Absent]
             ELSE [budget |-> NoNumber, level |-> level]
        [] OTHER                       -> [budget |-> NoNumber, level |-> Absent]

toolConfig(asked, antigravity) ==
  LET strict == asked.strict /\ ~antigravity
  IN  CASE asked.choice = "none"           -> "NONE"
        [] asked.choice \in {"any", "tool"} -> "ANY"
        [] asked.choice = "auto"           -> IF strict THEN "VALIDATED" ELSE "AUTO"
        [] OTHER                           -> IF strict /\ asked.tools \ {"search"} # {} THEN "VALIDATED" ELSE Absent

(* Behind Antigravity Claude is always validated, and only it is told how  *)
(* long to answer, never longer than the registry allows.                  *)
antigravityOptions(asked, model, cap, wanted) ==
  [mode |-> IF model = "claude" THEN "VALIDATED" ELSE toolConfig(asked, TRUE),
   max  |-> IF model # "claude" THEN NoNumber
            ELSE IF cap.max > 0 /\ wanted > cap.max THEN cap.max ELSE wanted]

-----------------------------------------------------------------------------
(* Messages to another model than Claude keep their shape: the effort is   *)
(* clamped where it stands, and an older Claude's forced choice loosened.  *)
clamp_passthrough_effort(asked, model, cap) ==
  LET at(slot) == IF parse(cap.forced) # Absent THEN cap.forced ELSE clamp_effort(asked[slot], cap)
  IN  CASE model = "claude" \/ asked.thinking = "disabled" -> asked
        [] model # "claude" /\ asked.thinking # "disabled" /\ asked.effort # Absent ->
             [asked EXCEPT !.effort = at("effort")]
        [] model # "claude" /\ asked.thinking \in {"enabled", "adaptive"}
             /\ asked.effort = Absent /\ asked.nested # Absent -> [asked EXCEPT !.nested = at("nested")]
        [] OTHER -> asked

normalize_claude_55_tool_choice(asked, model) ==
  IF model = "claude-5.5" /\ asked.choice \in {"any", "tool"}
  THEN [asked EXCEPT !.choice = "auto", !.named = Absent] ELSE asked
=============================================================================
