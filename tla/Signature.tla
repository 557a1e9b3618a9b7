------------------------------- MODULE Signature -------------------------------
(***************************************************************************)
(* crates/ccextra-core/src/convert/signature.rs: which provider a thinking *)
(* signature comes from, and what of it may be sent to which upstream.  A  *)
(* history mixes the signatures of every provider the session was routed   *)
(* to, and an upstream refuses a request that carries a foreign one.       *)
(*                                                                         *)
(* A signature is what the validators read of it:                          *)
(*   prefix   the provider named before a '#': "none", "junk" when unknown *)
(*   lead     a literal ("skip", "engineering", "commentary"), "" when     *)
(*            empty, or how the payload starts: "gAAAA", "C", "E" (base64  *)
(*            of a protobuf), "R" (base64 of an E form), "other"           *)
(*   aligned  its ciphertext is a whole number of blocks (Fernet)          *)
(*   tree     what the payload decodes to: "channel" (Claude), "opaque"    *)
(*            (Gemini), "cais", "field2" (a protobuf of neither) or "none" *)
(*   block    the channel block of a CAIS envelope                         *)
(*   size     "kimi" (one of two exact lengths), "long" or "short"         *)
(*   random   its bytes are spread like ciphertext                         *)
(*   bare     unpadded standard base64                                     *)
(***************************************************************************)
EXTENDS Naturals, Sequences

NoBlock == [version |-> 0, channelId |-> FALSE, sealed |-> "none", model |-> "none",
            kind |-> "none", context |-> "none"]

NoSignature == [prefix |-> "none", lead |-> "", aligned |-> FALSE, tree |-> "none", block |-> NoBlock,
                size |-> "short", random |-> FALSE, bare |-> FALSE]
Bypass == [NoSignature EXCEPT !.lead = "skip"]

is_codex_commentary_signature_marker(s) == s.prefix = "none" /\ s.lead = "commentary"

(* Only a provider the gateway itself writes before '#' counts as one.     *)
HasProviderPrefix(s) == s.prefix \in {"claude", "gemini", "gpt"}
signature_payload_without_prefix(s) == IF HasProviderPrefix(s) THEN [s EXCEPT !.prefix = "none"] ELSE s

is_gemini_thought_signature_bypass(s) == s.prefix = "none" /\ s.lead \in {"skip", "engineering"}

(* The envelope of Claude: single layered (E) or double layered (R).       *)
is_valid_claude_thinking_signature(s, strict) ==
  /\ s.lead \in {"E", "R"}
  /\ IF strict THEN s.tree = "channel" ELSE s.tree # "none"

(* A CAIS envelope; from version 4 on it may leave the model out and keep  *)
(* its bytes outside the channel block, but must say what it seals.        *)
is_valid_claude_cais_signature(s) ==
  /\ s.lead = "C" /\ s.tree = "cais"
  /\ LET b == s.block IN
       /\ b.channelId
       /\ b.context \in {"none", "uuid"}
       /\ b.model # "other"
       /\ b.sealed = "channel" \/ (b.version >= 4 /\ b.sealed = "container")
       /\ b.model = "claude" \/ b.version >= 4
       /\ b.version >= 4 => b.kind \in {"thinking", "narration"}

is_recognized_gemini_provider_signature(s) == s.prefix = "none" /\ s.lead = "E" /\ s.tree = "opaque"

is_valid_gpt_reasoning_signature(s) == s.prefix = "none" /\ s.lead = "gAAAA" /\ s.aligned

maybe_self_describing_envelope(s) == s.lead \in {"gAAAA", "C", "E", "R"}

rejects_foreign_envelope(s) ==
  \/ s.lead = "gAAAA"
  \/ is_valid_claude_thinking_signature(s, TRUE)
  \/ is_valid_claude_cais_signature(s)
  \/ is_recognized_gemini_provider_signature(s)

(* Kimi and xAI sign with bytes that describe nothing: what no other       *)
(* provider claims is told by length, alphabet and spread alone.           *)
is_valid_kimi_thinking_signature(s) ==
  s.prefix = "none" /\ s.bare /\ s.size = "kimi" /\ s.random /\ ~rejects_foreign_envelope(s)

is_valid_grok_encrypted_content(s) ==
  /\ s.prefix = "none" /\ s.bare /\ s.size # "short" /\ s.random
  /\ ~rejects_foreign_envelope(s)
  /\ ~is_valid_kimi_thinking_signature(s)

(* The family that can replay a signature.                                 *)
Claims(p) ==
  [gemini |-> IF is_gemini_thought_signature_bypass(p) THEN "bypass"
              ELSE IF is_recognized_gemini_provider_signature(p) THEN "gemini" ELSE "unknown",
   claude |-> IF is_valid_claude_thinking_signature(p, TRUE) \/ is_valid_claude_cais_signature(p)
              THEN "claude" ELSE "unknown",
   gpt    |-> IF is_valid_gpt_reasoning_signature(p) THEN "gpt" ELSE "unknown"]
Detected(s, claims) ==
  CASE HasProviderPrefix(s)                      -> claims[s.prefix]
    [] s.prefix = "junk"                         -> "unknown"
    [] is_gemini_thought_signature_bypass(s)     -> "bypass"
    [] maybe_self_describing_envelope(s) /\ claims.gpt # "unknown"    -> "gpt"
    [] maybe_self_describing_envelope(s) /\ claims.claude # "unknown" -> "claude"
    [] maybe_self_describing_envelope(s) /\ claims.gemini # "unknown" -> "gemini"
    [] is_valid_kimi_thinking_signature(s)       -> "kimi"
    [] OTHER                                     -> "unknown"
detect_signature_provider(s) == Detected(s, Claims(signature_payload_without_prefix(s)))

(* Nothing is detected as grok: where it came from must be known.          *)
signature_provider_matches_target(target, detected) ==
  \/ target \in {"claude", "gpt", "kimi"} /\ detected = target
  \/ target = "gemini" /\ detected \in {"gemini", "bypass"}

(* The form the provider itself issues, without the prefix.                *)
normalize_claude_provider_native(s) == IF s.lead = "R" THEN [s EXCEPT !.lead = "E"] ELSE s
(* The form Antigravity wants of a Claude signature.                       *)
normalize_claude_thinking_signature(s) == IF s.lead = "E" THEN [s EXCEPT !.lead = "R"] ELSE s

normalize_compatible_signature_for_provider(target, s) ==
  LET p == signature_payload_without_prefix(s)
  IN  IF target = "claude" THEN normalize_claude_provider_native(p) ELSE p

compatible_signature_for_provider_block(target, s) ==
  IF signature_provider_matches_target(target, detect_signature_provider(s))
  THEN normalize_compatible_signature_for_provider(target, s)
  ELSE NoSignature

(* Antigravity takes a CAIS signature for no target: it has no R form.     *)
compatible_antigravity_claude_thinking_signature(s) ==
  LET p == signature_payload_without_prefix(s)
  IN  IF detect_signature_provider(s) = "claude" /\ p.lead \in {"E", "R"}
      THEN normalize_claude_thinking_signature(p)
      ELSE NoSignature

resolve_thinking_signature(family, s) ==
  IF s.lead = "" THEN NoSignature
  ELSE IF family = "claude" THEN compatible_antigravity_claude_thinking_signature(s)
  ELSE compatible_signature_for_provider_block(family, s)

resolve_tool_use_thought_signature(family, s) ==
  LET or(own) == IF own # NoSignature THEN own ELSE IF family = "claude" THEN NoSignature ELSE Bypass
  IN  or(resolve_thinking_signature(family, s))

(* What the client is given of an upstream signature: the E form.          *)
format_claude_signature_value(family, s) ==
  IF family = "claude" /\ s.lead = "R"
  THEN IF s.tree = "none" THEN NoSignature ELSE [s EXCEPT !.lead = "E"]
  ELSE s

(* The first call of a model turn must be signed; its siblings keep a      *)
(* signature only if it is a genuine one of Gemini, responses none.        *)
signedAs(type, first, own) ==
  CASE type = "response"        -> NoSignature
    [] type = "call" /\ first   -> IF own = NoSignature THEN Bypass ELSE own
    [] type # "response" /\ ~(type = "call" /\ first)
                                -> IF is_gemini_thought_signature_bypass(own) THEN NoSignature ELSE own
sanitizedPart(parts, i) ==
  [parts[i] EXCEPT !.sig = signedAs(parts[i].type, \A j \in 1..(i - 1): parts[j].type # "call",
                                    compatible_signature_for_provider_block("gemini", @))]

sanitize_gemini_request_thought_signatures(contents) ==
  [i \in DOMAIN contents |->
     [contents[i] EXCEPT !.parts = [k \in DOMAIN @ |->
        IF contents[i].role = "model" \/ @[k].type = "response" THEN sanitizedPart(@, k) ELSE @[k]]]]
=============================================================================
