--------------------------- MODULE AntigravityReplay ---------------------------
(***************************************************************************)
(* Gemini's thought signatures and call ids across a session behind        *)
(* Antigravity (crates/ccextra-core/src/convert/                           *)
(* antigravity_reasoning_replay.rs).  The client keeps the conversation    *)
(* but not the signatures of texts and calls, and it knows the calls by    *)
(* ids of the gateway.  What it cannot keep is written down in a ledger    *)
(* from each answer and put back into the next request.                    *)
(*                                                                         *)
(* A part is [type, text, name, args, id, sig]; a text is a sequence of    *)
(* pieces, args a set of arguments of which "default" is what the tool     *)
(* takes for granted and "_" one the gateway made the upstream fill in,    *)
(* which the tool knows nothing of.  Only declared tools have a schema     *)
(* that says so.                                                           *)
(* Every answer has ids and signatures of its own.  A signature carried by *)
(* no part is a frame of type "none".  Hashes are the values themselves.   *)
(***************************************************************************)
EXTENDS Naturals, Sequences, FiniteSets, SequencesExt

CONSTANTS Answers,      \* the answers the upstream may give: their frames and the whole
          Declared,     \* names of the tools of the request
          Questions,    \* what the user may ask
          MaxTurns,     \* bound: turns of the client's history
          MaxAnswers,   \* bound: answers of the upstream
          MaxTampered,  \* bound: times it or the ledger is changed behind the session
          MaxItems      \* items an entry of the ledger holds

ASSUME ReplayAssumption == {MaxTurns, MaxAnswers, MaxTampered, MaxItems} \subseteq Nat

VARIABLES history,    \* the conversation as the client keeps it
          ledger,     \* the items the ledger has for the session
          asked,      \* "composing", "awaiting" an answer or "refused"
          request,    \* contents of the last request
          rolledBack, \* it was sent as it came
          native,     \* what the upstream saw and said up to its last answer
          issued,     \* its signatures, with what it signed
          tampered,   \* how often the session was changed behind its back
          answers     \* how many there were

replayVars == <<history, ledger, asked, request, rolledBack, native, issued, tampered, answers>>

NoSig == 0
Skip  == 1                       \* stands for a signature
has_native_thought_signature(s) == s > Skip

Id(kind, n, of, name, args) == [kind |-> kind, n |-> n, of |-> of, name |-> name, args |-> args]
NoId      == Id("none", 0, "", "", {})
NativeId(n) == Id("native", n, "", "", {})
LegacyId(n) == Id("legacy", n, "", "", {})
gemini_claude_tool_use_id(id, name, args) == IF id = NoId THEN NoId ELSE Id("stable", id.n, id.kind, name, args)
is_gemini_claude_tool_use_id(id) == id.kind = "stable"
synthetic_tool_call_id(id) == [id EXCEPT !.kind = "degraded"]

Part(type, text, sig) == [type |-> type, text |-> text, name |-> "", args |-> {}, id |-> NoId, sig |-> sig]
CallPart(id, name, args, sig) ==
  [type |-> "call", text |-> <<>>, name |-> name, args |-> args, id |-> id, sig |-> sig]
Turn(role, parts) == [role |-> role, parts |-> parts]
OfType(parts, type) == SelectSeq(parts, LAMBDA p: p.type = type)
Has(c, type) == OfType(c.parts, type) # <<>>
Count(s, x)  == Len(SelectSeq(s, LAMBDA y: y = x))
Every(contents, F(_)) == [i \in DOMAIN contents |-> [contents[i] EXCEPT !.parts = [k \in DOMAIN @ |-> F(@[k])]]]

-----------------------------------------------------------------------------
(* The conversation before a turn, without the signatures.                 *)
context(contents, before) == Every(SubSeq(contents, 1, before - 1), LAMBDA p: [p EXCEPT !.sig = NoSig])
context_matches(contents, item, ci) == item.context = context(contents, ci)

(* What stands in the ledger of a part.                                    *)
SignatureItem(sig, ci, kind, text, occurrence, ctx) ==
  [type |-> "signature", sig |-> sig, content |-> ci, kind |-> kind, text |-> text,
   occurrence |-> occurrence, context |-> ctx]
CallItem(p, sig, ci, occurrence, ctx) ==
  [type |-> "call", sig |-> sig, content |-> ci, name |-> p.name, args |-> p.args, id |-> p.id,
   occurrence |-> occurrence, context |-> ctx]

(* A request's own history yields the first items, its answer the others.  *)
callKey(p)    == <<p.name, p.args>>
segmentKey(p) == <<p.type, p.text>>
seeded(contents, ci) ==
  LET parts == contents[ci].parts
      before(k, F(_), types) == LET earlier == SelectSeq(SubSeq(parts, 1, k - 1), LAMBDA q: q.type \in types)
                                IN  Count([i \in DOMAIN earlier |-> F(earlier[i])], F(parts[k]))
      own(s) == IF has_native_thought_signature(s) THEN s ELSE NoSig
      item(k) == CASE parts[k].type = "call" ->
                        <<CallItem(parts[k], own(parts[k].sig), ci, before(k, callKey, {"call"}), context(contents, ci))>>
                   [] parts[k].type \in {"text", "thought"} /\ has_native_thought_signature(parts[k].sig) ->
                        <<SignatureItem(parts[k].sig, ci, parts[k].type, parts[k].text,
                                        before(k, segmentKey, {"text", "thought"}), context(contents, ci))>>
                   [] OTHER -> <<>>
  IN  IF contents[ci].role # "model" THEN <<>> ELSE FlattenSeq([k \in DOMAIN parts |-> item(k)])

new_from_request(contents) ==
  LET items == FlattenSeq([ci \in DOMAIN contents |-> seeded(contents, ci)])
  IN  [items |-> items, seen |-> {items[i].sig: i \in DOMAIN items} \ {NoSig}, calls |-> {},
       content |-> Len(contents) + 1, context |-> context(contents, Len(contents) + 1),
       pending |-> <<>>, open |-> [text |-> <<>>, thought |-> <<>>], last |-> "none",
       segments |-> <<>>, made |-> <<>>]

(* The segment of a kind is over: what is pending for it is written down.  *)
flush_pending_for_kind(acc, kind) ==
  LET text == acc.open[kind]
      due  == SelectSeq(acc.pending, LAMBDA q: q.kind = kind)
      new  == [i \in DOMAIN due |-> SignatureItem(due[i].sig, acc.content, kind, text,
                                                  Count(acc.segments, <<kind, text>>), acc.context)]
  IN  IF kind \notin {"text", "thought"} THEN acc
      ELSE IF text = <<>> THEN acc
      ELSE [acc EXCEPT !.items = @ \o new, !.pending = SelectSeq(@, LAMBDA q: q.kind # kind),
                       !.open[kind] = <<>>, !.segments = Append(@, <<kind, text>>)]

(* Fault: what came ahead unbound is not the call's.                       *)
observe_callUnbound(acc, p) ==
  LET a == flush_pending_for_kind(acc, acc.last)
  IN  [a EXCEPT !.seen = @ \cup ({p.sig} \ {NoSig}),
                !.items = Append(@, CallItem(p, p.sig, a.content, Count(a.made, callKey(p)), a.context)),
                !.made = Append(@, callKey(p)), !.last = "call"]

(* A call takes the last signature that came ahead of it unbound.          *)
observe_call(acc, p) ==
  LET key(sig)     == <<p.name, p.args, p.id, sig>>
      made(a, sig) == IF sig # NoSig /\ key(sig) \in a.calls THEN a
                      ELSE [a EXCEPT !.calls = @ \cup {key(sig)}, !.seen = @ \cup ({sig} \ {NoSig}),
                                     !.items = Append(@, CallItem(p, sig, a.content, Count(a.made, callKey(p)), a.context)),
                                     !.made = Append(@, callKey(p)), !.last = "call"]
      bound(a, sig, pending) == made([a EXCEPT !.pending = pending], sig)
      called(a, loose) ==
        bound(a, IF p.sig = NoSig /\ loose # 0 THEN a.pending[loose].sig ELSE p.sig,
                 IF p.sig # NoSig THEN SelectSeq(a.pending, LAMBDA q: q.kind # "none")
                 ELSE IF loose # 0 THEN RemoveAt(a.pending, loose) ELSE a.pending)
      flushed(a)   == called(a, SelectLastInSeq(a.pending, LAMBDA q: q.kind = "none"))
  IN  flushed(flush_pending_for_kind(acc, acc.last))

attach_detached_signature_to_last_function_call(acc, sig) ==
  LET c == SelectLastInSeq(acc.items, LAMBDA it: it.type = "call")
  IN  IF sig \in acc.seen THEN acc
      ELSE [acc EXCEPT !.seen = @ \cup {sig},
                       !.items = IF c > 0 /\ @[c].sig = NoSig THEN [@ EXCEPT ![c].sig = sig] ELSE @]

(* A signed text has no use for what came ahead unbound; another signature *)
(* of the same segment ends it.                                            *)
observe_text(acc, p) ==
  LET kind      == p.type
      prefix(q) == q.kind = "none" \/ (q.kind = kind /\ acc.open[kind] = <<>>)
      given     == {q.sig: q \in {r \in ToSet(acc.pending): prefix(r)}}
      cleared   == [acc EXCEPT !.pending = SelectSeq(@, LAMBDA q: ~prefix(q)), !.seen = @ \ (given \cap {p.sig})]
      split(a)  == IF \E q \in ToSet(a.pending): q.kind = kind /\ q.sig # p.sig
                   THEN flush_pending_for_kind(a, kind) ELSE a
      turned(a) == IF a.last # kind THEN flush_pending_for_kind(a, a.last) ELSE a
      longer(a) == [a EXCEPT !.open[kind] = @ \o p.text, !.last = kind]
  IN  longer(turned(IF p.sig = NoSig THEN acc ELSE split(cleared)))

observe_signature(acc, sig, kind) ==
  LET bare == [acc EXCEPT !.seen = @ \cup {sig}]
      held == [bare EXCEPT !.pending = Append(@, [sig |-> sig, kind |-> kind])]
  IN  IF sig = NoSig \/ sig \in acc.seen THEN acc
      ELSE IF kind \in {"text", "thought"} /\ acc.open[kind] = <<>> THEN bare
      ELSE flush_pending_for_kind(held, kind)

observe_part(acc, p) ==
  CASE p.type = "call"                       -> observe_call(acc, p)
    [] p.type = "none" /\ acc.last = "call"  -> attach_detached_signature_to_last_function_call(acc, p.sig)
    [] p.type = "none" /\ acc.last # "call"  -> observe_signature(acc, p.sig, acc.last)
    [] OTHER                                 -> observe_signature(observe_text(acc, p), p.sig, p.type)

flush_all_pending(acc) ==
  LET kindOf(q) == CASE q.kind # "none"           -> q.kind
                     [] q.kind = "none" /\ acc.last \in {"text", "thought"} /\ acc.open[acc.last] # <<>> -> acc.last
                     [] OTHER                     -> IF acc.open.text # <<>> THEN "text" ELSE "thought"
      bound == [acc EXCEPT !.pending = [i \in DOMAIN @ |-> [@[i] EXCEPT !.kind = kindOf(acc.pending[i])]]]
  IN  flush_pending_for_kind(flush_pending_for_kind(bound, "thought"), "text")

(* A chain that is too long is given up.                                   *)
take_commit_items(contents, frames) ==
  LET kept(items) == IF Len(items) > MaxItems THEN <<>> ELSE items
  IN  kept(flush_all_pending(FoldLeft(observe_part, new_from_request(contents), frames)).items)

-----------------------------------------------------------------------------
(* The ledger is put back into a request.                                  *)
Places(contents) == {a \in (DOMAIN contents) \X (1..10): a[2] \in DOMAIN contents[a[1]].parts}
First(places)    == CHOOSE a \in places: \A b \in places: a[1] < b[1] \/ (a[1] = b[1] /\ a[2] <= b[2])
Nowhere          == <<0, 0>>
PartAt(contents, at) == contents[at[1]].parts[at[2]]
firstCall(contents, id) ==
  LET at == {a \in Places(contents): PartAt(contents, a).type = "call" /\ PartAt(contents, a).id = id}
  IN  IF id = NoId \/ at = {} THEN Nowhere ELSE First(at)
Nth(indexes, n) ==
  LET s == SetToSortSeq(indexes, LAMBDA a, b: a < b) IN IF n < Len(s) THEN s[n + 1] ELSE 0

normalize_replay_tool_value(name, args) == IF name \in Declared THEN args \ {"default"} ELSE args
(* Fault: the tool is enough.                                              *)
function_call_matches_itemByName(p, item) == p.name = item.name

function_call_matches_item(p, item) ==
  p.name = item.name /\ normalize_replay_tool_value(p.name, p.args) = normalize_replay_tool_value(p.name, item.args)

locate_thought_signature_part(contents, item) ==
  LET ci == item.content
      same(k) == contents[ci].parts[k].type = item.kind /\ contents[ci].parts[k].text = item.text
  IN  IF ci \notin DOMAIN contents \/ contents[ci].role # "model" THEN Nowhere
      ELSE <<ci, Nth({k \in DOMAIN contents[ci].parts: same(k)}, item.occurrence)>>

StableId(item) == gemini_claude_tool_use_id(item.id, item.name, item.args)

(* By its ids, or as the same call at the same place; either only in the   *)
(* conversation it was made in.                                            *)
locate_function_call_part(contents, item) ==
  LET ci      == item.content
      same(p) == /\ p.type = "call" /\ function_call_matches_item(p, item)
                 /\ is_gemini_claude_tool_use_id(p.id) => p.id = StableId(item)
      inPlace == IF ci \notin DOMAIN contents \/ ~context_matches(contents, item, ci) THEN Nowhere
                 ELSE <<ci, Nth({k \in DOMAIN contents[ci].parts: same(contents[ci].parts[k])}, item.occurrence)>>
      found(at) ==
        IF at = Nowhere THEN inPlace
        ELSE IF context_matches(contents, item, at[1]) /\ function_call_matches_item(PartAt(contents, at), item)
        THEN at ELSE Nowhere
      either(own, stable) == found(IF own # Nowhere THEN own ELSE stable)
  IN  either(firstCall(contents, item.id), firstCall(contents, StableId(item)))

(* The stable id alone proves which call it is.                            *)
function_call_provenance_location(contents, item) ==
  LET at == firstCall(contents, StableId(item))
  IN  IF at # Nowhere /\ function_call_matches_item(PartAt(contents, at), item) THEN at ELSE Nowhere

remove_thought_signature_from_other_parts(contents, at, sig) ==
  [contents EXCEPT ![at[1]].parts = [k \in DOMAIN @ |->
     IF k # at[2] /\ @[k].sig = sig THEN [@[k] EXCEPT !.sig = NoSig] ELSE @[k]]]
apply_signature_at(contents, at, sig) ==
  IF sig = NoSig \/ has_native_thought_signature(PartAt(contents, at).sig) THEN contents
  ELSE [remove_thought_signature_from_other_parts(contents, at, sig) EXCEPT ![at[1]].parts[at[2]].sig = sig]
overwrite_signature_at(contents, at, sig) ==
  LET bare == [contents EXCEPT ![at[1]].parts[at[2]].sig = sig]
  IN  IF sig = NoSig THEN bare ELSE remove_thought_signature_from_other_parts(bare, at, sig)

RenamedResponses(contents, from, id, name) ==
  Every(contents, LAMBDA p: IF p.type = "response" /\ p.id = from THEN [p EXCEPT !.id = id, !.name = name] ELSE p)
function_responses_can_restore_id(contents, id, name) ==
  \A a \in Places(contents):
     LET p == PartAt(contents, a)
     IN  p.type = "response" /\ p.id = id => p.name \in {"", "unknown", name}

restore_native_function_call(contents, at, item, legacy) ==
  LET p  == PartAt(contents, at)
      id == IF item.id = NoId THEN p.id ELSE item.id
      called == [contents EXCEPT ![at[1]].parts[at[2]] = [@ EXCEPT !.name = item.name, !.args = item.args, !.id = id]]
      signed == overwrite_signature_at(called, at, item.sig)
  IN  IF ~(p.id = item.id \/ is_gemini_claude_tool_use_id(p.id) \/ legacy) THEN apply_signature_at(contents, at, item.sig)
      ELSE IF p.id # item.id /\ ~function_responses_can_restore_id(contents, p.id, item.name) THEN contents
      ELSE IF item.id = NoId THEN signed ELSE RenamedResponses(signed, p.id, item.id, item.name)
function_call_replay_is_noop(p, item) ==
  p.id = item.id /\ p.args = item.args /\ (item.sig = NoSig \/ has_native_thought_signature(p.sig))

(* A call the client lost is put back where its answer is.                 *)
insert_missing_function_call(contents, item) ==
  LET answered(id) == {ci \in DOMAIN contents: \E k \in DOMAIN contents[ci].parts:
                         contents[ci].parts[k].type = "response" /\ contents[ci].parts[k].id = id}
      known == SelectSeq(<<item.id, StableId(item)>>, LAMBDA id: answered(id) # {})
      from  == known[1]
      ci    == CHOOSE i \in answered(from): \A j \in answered(from): i <= j
      call(sig) == CallPart(item.id, item.name, item.args, sig)
      named(cs) == RenamedResponses(cs, from, item.id, item.name)
      orSkip    == IF item.sig = NoSig THEN Skip ELSE item.sig
  IN  IF \/ item.id = NoId \/ known = <<>>
         \/ firstCall(contents, item.id) # Nowhere \/ firstCall(contents, StableId(item)) # Nowhere
      THEN contents
      ELSE IF ci > 1 /\ contents[ci - 1].role = "model" /\ context_matches(contents, item, ci - 1)
      THEN named([contents EXCEPT ![ci - 1].parts =
                    Append(@, call(IF Has(contents[ci - 1], "call") THEN item.sig ELSE orSkip))])
      ELSE IF context_matches(contents, item, ci)
      THEN named(InsertAt(contents, ci, Turn("model", <<call(orSkip)>>)))
      ELSE contents

apply_function_call_item(contents, item) ==
  LET found(at) == IF function_call_replay_is_noop(PartAt(contents, at), item) THEN contents
                   ELSE restore_native_function_call(contents, at, item, item.name \in Declared)
      proven(at) == IF at = Nowhere THEN insert_missing_function_call(contents, item)
                    ELSE restore_native_function_call(contents, at, item, FALSE)
      tried(at) == IF at[2] # 0 THEN found(at) ELSE proven(function_call_provenance_location(contents, item))
  IN  tried(locate_function_call_part(contents, item))

apply_signature_item(contents, item) ==
  LET put(at) == IF at[2] = 0 THEN contents ELSE apply_signature_at(contents, at, item.sig)
  IN  put(locate_thought_signature_part(contents, item))
apply_item(contents, item) ==
  IF item.type = "call" THEN apply_function_call_item(contents, item) ELSE apply_signature_item(contents, item)
apply_ag_replay_items(contents, items) == FoldLeft(apply_item, contents, items)

-----------------------------------------------------------------------------
(* What is sure to be accepted when the ledger does not help.              *)
degrade_unresolved_tool_provenance_ids(contents) ==
  LET degraded(parts, k) ==
        LET p     == parts[k]
            first == \A j \in 1..(k - 1): parts[j].type # "call"
            sig   == IF p.type # "call" \/ ~has_native_thought_signature(p.sig) THEN p.sig
                     ELSE IF first THEN Skip ELSE NoSig
        IN  IF is_gemini_claude_tool_use_id(p.id) THEN [p EXCEPT !.id = synthetic_tool_call_id(@), !.sig = sig] ELSE p
  IN  [i \in DOMAIN contents |-> [contents[i] EXCEPT !.parts = [k \in DOMAIN @ |-> degraded(@, k)]]]

FirstCallAt(parts) == SelectInSeq(parts, LAMBDA p: p.type = "call")
(* Fault: the first call is taken to be signed.                            *)
repair_unsignedNever(contents) == contents

repair_unsigned_first_function_calls(contents) ==
  [i \in DOMAIN contents |->
     LET k == FirstCallAt(contents[i].parts)
     IN  IF contents[i].role = "model" /\ k > 0 /\ contents[i].parts[k].sig = NoSig
         THEN [contents[i] EXCEPT !.parts[k].sig = Skip] ELSE contents[i]]

(* A turn's first call is signed, if need be by the stand-in, which none   *)
(* of its siblings carries.                                                *)
sanitize_gemini_request_thought_signatures(contents) ==
  [i \in DOMAIN contents |->
     LET first == FirstCallAt(contents[i].parts)
         kept(p, j) == CASE p.type = "response" -> NoSig
                         [] p.type # "response" /\ (contents[i].role # "model" \/ has_native_thought_signature(p.sig)) -> p.sig
                         [] OTHER -> IF j = first THEN Skip ELSE NoSig
     IN  [contents[i] EXCEPT !.parts = [j \in DOMAIN @ |-> [@[j] EXCEPT !.sig = kept(contents[i].parts[j], j)]]]]

gemini_function_call_pairing_valid(contents) ==
  LET step(st, c) ==
        LET calls == OfType(c.parts, "call")
            resps == OfType(c.parts, "response")
            answer == /\ st.pending # <<>> /\ Len(resps) = Len(st.pending)
                      /\ \A k \in DOMAIN resps: resps[k].id = st.pending[k].id /\ resps[k].name = st.pending[k].name
        IN  CASE calls # <<>>                     -> [ok |-> st.ok /\ resps = <<>> /\ st.pending = <<>>, pending |-> calls]
              [] calls = <<>> /\ resps # <<>>     -> [ok |-> st.ok /\ answer, pending |-> <<>>]
              [] OTHER -> [st EXCEPT !.ok = @ /\ (st.pending = <<>> \/ (c.role # "model" /\ c.parts # <<>>))]
  IN  FoldLeft(step, [ok |-> TRUE, pending |-> <<>>], contents).ok

(* Responses take their names from the calls and their order, and a turn   *)
(* of nothing else is the model's.                                         *)
repair_function_response_names(contents) ==
  LET named(p) == LET at == firstCall(contents, p.id)
                  IN  IF p.type = "response" /\ p.name \in {"", "unknown"} /\ at # Nowhere
                      THEN [p EXCEPT !.name = PartAt(contents, at).name] ELSE p
  IN  Every(contents, named)
in_call_order(calls, resps) ==
  LET taken(m, k) == IF k = 0 THEN m ELSE [taken |-> Append(m.taken, m.left[k]), left |-> RemoveAt(m.left, k)]
      take(m, call)  == taken(m, SelectInSeq(m.left, LAMBDA r: r.id = call.id))
      all(m)         == m.taken \o m.left
  IN  all(FoldLeft(take, [taken |-> <<>>, left |-> resps], calls))
normalize_function_response_roles(contents) ==
  LET step(st, c) ==
        LET calls == OfType(c.parts, "call")
            resps == OfType(c.parts, "response")
            rest  == SelectSeq(c.parts, LAMBDA p: p.type \notin {"call", "response"})
            turn  == [c EXCEPT !.parts = IF st.pending = <<>> THEN @ ELSE in_call_order(st.pending, resps) \o rest,
                               !.role = IF rest = <<>> THEN "model" ELSE @]
        IN  IF resps = <<>> THEN [pending |-> IF calls # <<>> THEN calls ELSE IF rest # <<>> \/ c.parts = <<>> THEN <<>> ELSE st.pending,
                                  out |-> Append(st.out, c)]
            ELSE [pending |-> <<>>, out |-> Append(st.out, IF calls # <<>> THEN c ELSE turn)]
  IN  FoldLeft(step, [pending |-> <<>>, out |-> <<>>], repair_function_response_names(contents)).out

HasStableId(contents) == \E a \in Places(contents): is_gemini_claude_tool_use_id(PartAt(contents, a).id)
EmptyUser == Turn("user", <<Part("text", <<>>, NoSig)>>)
ensure_boundary(contents) ==
  LET led == IF contents # <<>> /\ contents[1].role = "model" THEN <<EmptyUser>> \o contents ELSE contents
  IN  IF led # <<>> /\ Last(led).role = "model" /\ ~Has(Last(led), "response") THEN Append(led, EmptyUser) ELSE led

(* The whole of it; a request the ledger broke goes out as it was, one     *)
(* that was broken before is refused.                                      *)
Degraded(contents) ==
  IF HasStableId(contents)
  THEN normalize_function_response_roles(degrade_unresolved_tool_provenance_ids(contents)) ELSE contents
Resolved(restored) ==
  repair_unsigned_first_function_calls(Degraded(normalize_function_response_roles(restored)))
Outcome(original, applied, final) ==
  IF gemini_function_call_pairing_valid(final)
  THEN [outcome |-> "sent", contents |-> ensure_boundary(final)]
  ELSE IF applied /\ gemini_function_call_pairing_valid(original)
  THEN [outcome |-> "rolled back", contents |-> ensure_boundary(original)]
  ELSE [outcome |-> "refused", contents |-> original]
Tried(original, restored)  == Outcome(original, restored # original, Resolved(restored))
Restored(original, items)  == Tried(original, apply_ag_replay_items(original, items))
prepare_ag_replay_request(contents, items) ==
  Restored(normalize_function_response_roles(sanitize_gemini_request_thought_signatures(contents)), items)

-----------------------------------------------------------------------------
(* The answer as its frames reach the client: a signature that belongs to  *)
(* no thought is a thought of its own without a text, which ends the block *)
(* before it.                                                              *)
claude_tool_use_id(p, n) ==
  IF p.id = NoId THEN LegacyId(n) ELSE gemini_claude_tool_use_id(p.id, p.name, p.args)

(* What the tool does not know is taken out of what the client is given;   *)
(* the id and the ledger have the call as it came.                         *)
clean_emitted_args(name, args) == IF name \in Declared THEN args \ {"_"} ELSE args
viewed(frames, n) ==
  LET carried(out, sig) == IF sig = NoSig THEN out ELSE [parts |-> Append(out.parts, Part("thought", <<>>, sig)), open |-> "none"]
      more(out, type, text) ==
        IF out.open = type THEN [out EXCEPT !.parts[Len(out.parts)].text = @ \o text]
        ELSE [parts |-> Append(out.parts, Part(type, text, NoSig)), open |-> type]
      bind(out, sig) == IF sig = NoSig THEN out ELSE [out EXCEPT !.parts[Len(out.parts)].sig = sig]
      step(out, i) ==
        LET p == frames[i]
            call == CallPart(claude_tool_use_id(p, n + i), p.name, clean_emitted_args(p.name, p.args), NoSig)
        IN  CASE p.type = "none"    -> IF out.open = "thought" THEN bind(out, p.sig) ELSE carried(out, p.sig)
              [] p.type = "thought" -> bind(more(out, "thought", p.text), p.sig)
              [] p.type = "text"    -> more(carried(out, p.sig), "text", p.text)
              [] p.type = "call"    -> [parts |-> Append(carried(out, p.sig).parts, call), open |-> "call"]
  IN  FoldLeft(step, [parts |-> <<>>, open |-> "none"], [i \in DOMAIN frames |-> i]).parts

(* The contents the client's history becomes before the replay.            *)
converted(turns) ==
  LET known(id) == {a \in Places(turns): PartAt(turns, a).type = "call" /\ PartAt(turns, a).id = id}
      part(p)   == CASE p.type = "call"     -> [p EXCEPT !.sig = Skip]
                     [] p.type = "response" -> [p EXCEPT !.name = IF known(p.id) = {} THEN "derived"
                                                                  ELSE PartAt(turns, First(known(p.id))).name]
                     [] OTHER               -> p
      filled(c) == [c EXCEPT !.parts = SelectSeq(@, LAMBDA p: p.type \in {"call", "response"} \/ p.text # <<>>)]
      kept      == SelectSeq([i \in DOMAIN turns |-> filled(turns[i])], LAMBDA c: c.parts # <<>>)
  IN  Every(kept, part)

replayInit ==
  /\ history = <<>> /\ ledger = <<>> /\ asked = "composing" /\ request = <<>> /\ rolledBack = FALSE
  /\ native = <<>> /\ issued = {} /\ tampered = 0 /\ answers = 0

Pending == IF history = <<>> THEN <<>> ELSE OfType(Last(history).parts, "call")
MayAdd  == asked = "composing" /\ Len(history) < MaxTurns /\ (history # <<>> => Last(history).role = "model")
Composed(turn) ==
  /\ history' = Append(history, turn)
  /\ UNCHANGED <<ledger, asked, request, rolledBack, native, issued, tampered, answers>>

Question(q) == MayAdd /\ Pending = <<>> /\ Composed(Turn("user", <<Part("text", <<q>>, NoSig)>>))

(* Results come in any order, perhaps with a word of the user ahead.       *)
ToolResults(order, remark) ==
  LET result(k) == [Part("response", <<>>, NoSig) EXCEPT !.id = Pending[order[k]].id]
      results   == [k \in DOMAIN order |-> result(k)]
  IN  /\ MayAdd /\ Pending # <<>>
      /\ Composed(Turn("user", (IF remark = "" THEN <<>> ELSE <<Part("text", <<remark>>, NoSig)>>) \o results))

prepare_request ==
  LET take(prepared) == /\ asked' = IF prepared.outcome = "refused" THEN "refused" ELSE "awaiting"
                        /\ request' = prepared.contents
                        /\ rolledBack' = (prepared.outcome = "rolled back")
                        /\ ledger' = IF prepared.outcome = "rolled back" THEN <<>> ELSE ledger
  IN  /\ asked = "composing" /\ history # <<>> /\ Last(history).role = "user" /\ answers < MaxAnswers
      /\ take(prepare_ag_replay_request(converted(history), ledger))
      /\ UNCHANGED <<history, native, issued, tampered, answers>>

(* Ids and signatures of an answer are its own.                            *)
Fresh(parts) ==
  [k \in DOMAIN parts |->
     [parts[k] EXCEPT !.sig  = IF @ = NoSig THEN NoSig ELSE @ + 10 * (answers + 1),
                      !.id.n = IF parts[k].id = NoId THEN 0 ELSE @ + 10 * (answers + 1)]]
Signed(parts) ==
  {[parts[k] EXCEPT !.id = IF @ = NoId THEN NoId ELSE @]: k \in {j \in DOMAIN parts: parts[j].sig # NoSig}}

(* A request that was rolled back has lost its place in the ledger.        *)
Respond(answer) ==
  LET frames == Fresh(answer.frames)
      whole  == Fresh(answer.whole)
  IN  /\ asked = "awaiting"
      /\ ledger' = IF rolledBack THEN ledger ELSE take_commit_items(request, frames)
      /\ history' = Append(history, Turn("model", viewed(frames, 10 * (answers + 1))))
      /\ native' = Append(request, Turn("model", whole))
      /\ issued' = issued \cup Signed(whole)
      /\ answers' = answers + 1 /\ asked' = "composing"
      /\ UNCHANGED <<request, rolledBack, tampered>>

(* An answer that breaks off is not written down.                          *)
BreakOff ==
  /\ asked = "awaiting" /\ asked' = "composing"
  /\ UNCHANGED <<history, ledger, request, rolledBack, native, issued, tampered, answers>>

(* What happens to a session behind the gateway's back: the ledger is      *)
(* evicted; the user rewinds; the client leaves thoughts out, or a call    *)
(* with or without its result, or repeats both, or writes arguments anew.  *)
Tampered(turns) ==
  /\ asked # "awaiting" /\ tampered < MaxTampered /\ tampered' = tampered + 1
  /\ history' = turns /\ asked' = "composing" /\ history' # history
  /\ UNCHANGED <<request, rolledBack, native, issued, answers>>
Forget == /\ asked = "composing" /\ ledger # <<>> /\ tampered < MaxTampered
          /\ tampered' = tampered + 1 /\ ledger' = <<>>
          /\ UNCHANGED <<history, asked, request, rolledBack, native, issued, answers>>
Rewind == \E n \in DOMAIN history:
            history[n].role = "model" /\ Tampered(SubSeq(history, 1, n - 1)) /\ UNCHANGED ledger
KeepFew(n, keep) ==
  [history EXCEPT ![n].parts = SelectSeq(@, LAMBDA p: p \in keep)]
DropThoughts == \E n \in DOMAIN history:
  /\ history[n].role = "model"
  /\ Tampered(KeepFew(n, {p \in ToSet(history[n].parts): p.type # "thought"})) /\ UNCHANGED ledger
LoseCall == \E n \in DOMAIN history, whole \in BOOLEAN: \E k \in DOMAIN history[n].parts:
  /\ history[n].parts[k].type = "call" /\ n < Len(history)
  /\ LET kept(p) == ~whole \/ p.id # history[n].parts[k].id
     IN  Tampered([history EXCEPT ![n].parts = RemoveAt(@, k), ![n + 1].parts = SelectSeq(@, kept)])
  /\ UNCHANGED ledger
RepeatCall == \E n \in DOMAIN history: \E k \in DOMAIN history[n].parts:
  /\ history[n].parts[k].type = "call" /\ n < Len(history)
  /\ LET result == SelectSeq(history[n + 1].parts, LAMBDA p: p.id = history[n].parts[k].id)
     IN  Tampered([history EXCEPT ![n].parts = Append(@, @[k]), ![n + 1].parts = @ \o result])
  /\ UNCHANGED ledger
Retype == \E n \in DOMAIN history: \E k \in DOMAIN history[n].parts:
  /\ history[n].parts[k].type = "call"
  /\ Tampered([history EXCEPT ![n].parts[k].args = @ \ {"default"}]) /\ UNCHANGED ledger

replayNext ==
  \/ \E q \in Questions: Question(q)
  \/ \E order \in SetToSeqs(DOMAIN Pending), remark \in {""} \cup Questions: ToolResults(order, remark)
  \/ prepare_request
  \/ \E answer \in Answers: Respond(answer)
  \/ BreakOff \/ Forget \/ Rewind \/ DropThoughts \/ LoseCall \/ RepeatCall \/ Retype

-----------------------------------------------------------------------------
Matches(p, q) == [p EXCEPT !.id = IF @ = NoId THEN q.id ELSE @] = q

(* A call that the client was not given as it came is taken for another    *)
(* one: it comes back as the client has it, with an id made up.  What      *)
(* follows it is no longer where the ledger saw it, which is all there is  *)
(* to know a call by that had no id of its own.                            *)
Reworded(p) == p.type = "call" /\ clean_emitted_args(p.name, p.args) # p.args
MadeUpBefore(i) == \E a \in Places(request): a[1] < i /\ PartAt(request, a).id.kind = "degraded"
ComesBackUnsigned(p, q, i) ==
  /\ p.type = "call" /\ ~has_native_thought_signature(q.sig)
  /\ q = [p EXCEPT !.args = clean_emitted_args(p.name, @), !.id = q.id, !.sig = q.sig]
  /\ IF Reworded(p) THEN q.id.kind = "degraded" ELSE p.id = NoId /\ MadeUpBefore(i)

Untouched == asked = "awaiting" /\ tampered = 0

(* What the upstream saw and said comes back to it as it was: every later  *)
(* request of an untouched session begins with the last one and its        *)
(* answer, signatures, ids, names and arguments included, though the       *)
(* client's history has none of them.  Only a call with an argument that   *)
(* the client was not given comes back without them, and of all that is    *)
(* said after it only a call without an id loses its signature.            *)
OwnAnswersReturn ==
  Untouched =>
    /\ Len(native) <= Len(request)
    /\ \A i \in DOMAIN native:
         /\ native[i].role = request[i].role
         /\ Len(native[i].parts) = Len(request[i].parts)
         /\ \A k \in DOMAIN native[i].parts:
              LET p == native[i].parts[k]
                  q == request[i].parts[k]
              IN  Matches(p, q) \/ ComesBackUnsigned(p, q, i)

(* What Gemini demands holds of every request, whatever was done to the    *)
(* history or the ledger: calls and responses pair up, each turn's first   *)
(* call has a signature, and no id of the gateway's own making goes out    *)
(* unless the ledger had to be given up.                                   *)
SentWellFormed ==
  asked = "awaiting" =>
    /\ gemini_function_call_pairing_valid(request)
    /\ request[1].role = "user"
    /\ rolledBack \/ ~HasStableId(request)
    /\ \A i \in DOMAIN request: FirstCallAt(request[i].parts) > 0 =>
         rolledBack \/ request[i].parts[FirstCallAt(request[i].parts)].sig # NoSig

(* A signature is never put on what it was not given for: the same text,   *)
(* or the call of the same name, id and, but for defaults, arguments.  Nor *)
(* is a call of the client made another one for a signature's sake.        *)
Meant(p) == <<p.name, normalize_replay_tool_value(p.name, p.args)>>
MeantBy(contents, meant) ==
  Cardinality({a \in Places(contents): PartAt(contents, a).type = "call" /\ Meant(PartAt(contents, a)) = meant})
SignaturesBelong ==
  asked = "awaiting" =>
    /\ \A a \in Places(request):
         LET p == PartAt(request, a)
         IN  has_native_thought_signature(p.sig) =>
               \E q \in issued: /\ q.sig = p.sig /\ q.type = p.type /\ q.text = p.text
                                /\ Meant(q) = Meant(p) /\ q.id \in {NoId, p.id}
    /\ \A a \in Places(history):
         PartAt(history, a).type = "call" =>
           MeantBy(request, Meant(PartAt(history, a))) >= MeantBy(history, Meant(PartAt(history, a)))
=============================================================================
