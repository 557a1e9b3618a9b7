------------------------------ MODULE ToolSchema ------------------------------
(***************************************************************************)
(* A tool as an upstream takes it: its name                                *)
(* (crates/ccextra-core/src/convert/shorten.rs, tool_sanitize.rs,          *)
(* antigravity_tools.rs), cut to 64 characters and to the alphabet of the  *)
(* protocol, told apart where that makes two the same, and put back in the *)
(* answer; and its parameters, rewritten for an upstream that knows only   *)
(* part of JSON Schema (gemini_schema.rs, to_openai_responses/schema.rs).  *)
(*                                                                         *)
(* A name is [stem, form, mark]: form "plain" is a name upstreams take,    *)
(* "long" and "odd" are cut and cleaned to the plain name of their stem;   *)
(* mark is what was appended, <<>> when nothing was.                       *)
(*                                                                         *)
(* A node is a record: type (a sequence: more than one is a list of them), *)
(* required (names), must (the malformed required: true of a property),    *)
(* ref (the definition it stands for, or "none"), enum, const, nullable,   *)
(* words (its other keywords), hints (what its description says) and sub,  *)
(* the nodes below it by keyword and name: <<"properties", "x">>,          *)
(* <<"items", "all">> (a number for each of a tuple), <<"anyOf", "1">>,    *)
(* <<"bare", "x">> (a property that stands beside the keywords).  Cleaning *)
(* is done for "gemini", or Antigravity's "agTool" (free calls), "ag"      *)
(* (validated ones) and "agClaude".                                        *)
(***************************************************************************)
EXTENDS Naturals, Sequences, FiniteSets, SequencesExt, TLC

Plain(n) == [n EXCEPT !.form = "plain"]
shorten_name_if_needed(n) == IF n.form = "long" THEN Plain(n) ELSE n
sanitize_function_name(n) == IF n.form # "plain" THEN Plain(n) ELSE n

(* Fault: the number is not looked up again.                               *)
make_uniqueOnce(cand, used) ==
  IF cand \notin used THEN cand ELSE [cand EXCEPT !.mark = Append(@, 1)]

(* The first number that makes it a name not yet used.                     *)
make_unique(cand, used) ==
  LET marked(i) == [cand EXCEPT !.mark = Append(@, i)]
      free      == {i \in 1..(Cardinality(used) + 1): marked(i) \notin used}
  IN  IF cand \notin used THEN cand ELSE marked(CHOOSE i \in free: \A k \in free: i <= k)

build_short_name_map(names) ==
  LET step(st, n) == LET short == make_unique(shorten_name_if_needed(n), st.used)
                     IN  [used |-> st.used \cup {short}, map |-> [m \in DOMAIN st.map \cup {n} |-> IF m = n THEN short ELSE st.map[m]]]
  IN  FoldLeft(step, [used |-> {}, map |-> <<>>], names).map

build_reverse_map(map) == [short \in Range(map) |-> CHOOSE n \in DOMAIN map: map[n] = short]

(* Gemini: names that clash all get a digest of the original, so that the  *)
(* name of a tool does not depend on which others come before it.          *)
Digest(n) == CASE n.form = "plain" -> 100 [] n.form = "long" -> 101 [] OTHER -> 102
disambiguate(n) == [sanitize_function_name(n) EXCEPT !.mark = Append(@, Digest(n))]
sanitized_function_name_map(names) ==
  LET clash(n) == \E m \in Range(names): m # n /\ sanitize_function_name(m) = sanitize_function_name(n)
  IN  [n \in Range(names) |-> IF clash(n) THEN disambiguate(n) ELSE sanitize_function_name(n)]

(* Antigravity has tools of its own; a client's tool of the same name is   *)
(* called another there.                                                   *)
Sandbox(stem) == [stem |-> stem, form |-> "plain", mark |-> <<>>]
antigravity_tool_name_to_upstream(n) ==
  IF n = Sandbox("read_file") THEN Sandbox("external_read_file") ELSE n
antigravity_upstream_tool_name_to_client(n) ==
  IF n = Sandbox("external_read_file") THEN Sandbox("read_file") ELSE n

-----------------------------------------------------------------------------
Blank == [type |-> <<>>, required |-> {}, must |-> FALSE, ref |-> "none", enum |-> {},
          const |-> "none", nullable |-> FALSE, words |-> {}, hints |-> {}, sub |-> <<>>]
Typed(t) == [Blank EXCEPT !.type = <<t>>]
Strings  == Typed("string")

Names(n, slot)  == {k[2]: k \in {j \in DOMAIN n.sub: j[1] = slot}}
Has(n, slot)    == Names(n, slot) # {}
Drop(n, slots)  == [n EXCEPT !.sub = [k \in {j \in DOMAIN @: j[1] \notin slots} |-> @[k]]]
Put(n, slot, name, child) == [n EXCEPT !.sub = (<<slot, name>> :> child) @@ @]
Numbers == <<"1", "2", "3">>
Branches(n, slot) == [i \in 1..Cardinality(Names(n, slot)) |-> n.sub[<<slot, Numbers[i]>>]]
PutBranches(n, slot, nodes) ==
  [n EXCEPT !.sub = [k \in {<<slot, Numbers[i]>>: i \in DOMAIN nodes} |->
                       nodes[CHOOSE i \in DOMAIN nodes: Numbers[i] = k[2]]] @@ @]
OwnOr(own, other, none) == IF own = none THEN other ELSE own
Hint(n, hints) == [n EXCEPT !.hints = @ \cup hints]
ForAntigravity(mode) == mode # "gemini"
Validated(mode)   == mode \in {"ag", "agClaude"}

-----------------------------------------------------------------------------
(* Malformed schemas first: properties that stand beside the keywords, a   *)
(* property that says itself that it is required, an array of nothing.  A  *)
(* tuple of items does not survive it.                                     *)
RECURSIVE repair_schema_node(_)
repaired_items(n) ==
  CASE n.ref # "none" -> n
    [] n.ref = "none" /\ "array" \in Range(n.type) /\ ~Has(n, "items") -> Put(n, "items", "all", Strings)
    [] n.ref = "none" /\ Has(n, "items") /\ n.type = <<>> -> [n EXCEPT !.type = <<"array">>]
    [] OTHER -> n

repair_property_map(n, from, names) ==
  LET child(x) == repair_schema_node([n.sub[<<from, x>>] EXCEPT !.must = FALSE])
      fixed    == [k \in {<<"properties", x>>: x \in names} |-> child(k[2])]
  IN  [Drop(n, {"bare"}) EXCEPT !.sub = fixed @@ @,
                                !.required = @ \cup {x \in names: n.sub[<<from, x>>].must}]

repair_schema_node(n) ==
  LET bare     == IF n.type = <<>> \/ "object" \in Range(n.type) THEN Names(n, "bare") ELSE {}
      names    == IF bare # {} THEN bare ELSE Names(n, "properties")
      typed(m) == [m EXCEPT !.type = IF names # {} THEN OwnOr(@, <<"object">>, <<>>) ELSE @]
      single   == repaired_items(typed(repair_property_map(n, IF bare # {} THEN "bare" ELSE "properties", names)))
  IN  [single EXCEPT !.sub = [k \in {j \in DOMAIN @: j[1] = "items" => j[2] = "all"} |->
                                IF k[1] = "properties" THEN @[k] ELSE repair_schema_node(@[k])]]

-----------------------------------------------------------------------------
(* A reference is replaced by a copy of what it stands for, except inside  *)
(* of itself and when the copies have used up the budget: then only its    *)
(* type is left, and a hint where to look.                                 *)
RECURSIVE Size(_)
Size(n) == FoldLeft(LAMBDA sum, k: sum + Size(n.sub[k]), 1, SetToSeq(DOMAIN n.sub))

cyclic_ref_fallback(target, own) ==
  [own EXCEPT !.ref = "none", !.type = OwnOr(@, target.type, <<>>), !.nullable = @ \/ target.nullable,
              !.hints = OwnOr(@, target.hints, {}) \cup {"See"}]

(* What stands beside a reference wins over the same keyword of the target.*)
overlay(target, own) ==
  [type |-> OwnOr(own.type, target.type, <<>>), required |-> OwnOr(own.required, target.required, {}),
   must |-> own.must, ref |-> target.ref, enum |-> OwnOr(own.enum, target.enum, {}),
   const |-> OwnOr(own.const, target.const, "none"), nullable |-> own.nullable \/ target.nullable,
   words |-> own.words \cup target.words, hints |-> OwnOr(own.hints, target.hints, {}),
   sub |-> own.sub @@ [k \in {j \in DOMAIN target.sub: ~Has(own, j[1])} |-> target.sub[k]]]

RECURSIVE resolve_local_refs(_, _, _, _)
resolved_subs(defs, n, active, left) ==
  LET step(st, k) == LET r == resolve_local_refs(defs, st.node.sub[k], active, st.left)
                     IN  [node |-> [st.node EXCEPT !.sub[k] = r.node], left |-> r.left]
  IN  FoldLeft(step, [node |-> n, left |-> left], SetToSeq(DOMAIN n.sub))

affordable(target, left) == Size(target) <= left
charged(target, left) == left - Size(target)

resolve_local_refs(defs, n, active, left) ==
  IF n.ref \notin DOMAIN defs THEN resolved_subs(defs, n, active, left)
  ELSE LET target == defs[n.ref]
       IN  IF n.ref \in active \/ ~affordable(target, left)
           THEN LET own == resolved_subs(defs, n, active, left)
                IN  [own EXCEPT !.node = cyclic_ref_fallback(target, @)]
           ELSE LET copy == resolve_local_refs(defs, target, active \cup {n.ref}, charged(target, left))
                    own  == resolved_subs(defs, n, active, copy.left)
                IN  [own EXCEPT !.node = overlay(copy.node, @)]

(* The body of the schema has the budget before a reference at its root.   *)
resolve_schema_root(defs, root, budget) ==
  LET own == resolved_subs(defs, root, {}, budget)
  IN  IF root.ref \notin DOMAIN defs THEN own.node
      ELSE LET target == defs[root.ref]
           IN  IF affordable(target, own.left)
               THEN overlay(resolve_local_refs(defs, target, {root.ref}, charged(target, own.left)).node, own.node)
               ELSE cyclic_ref_fallback(target, own.node)

-----------------------------------------------------------------------------
(* What upstream does not know is said in the description instead.         *)
convert_refs_to_hints(n, mode) ==
  CASE n.ref = "none" -> n
    [] n.ref # "none" /\ ForAntigravity(mode) -> Hint([n EXCEPT !.ref = "none"], {"See"})
    [] OTHER -> [Typed("object") EXCEPT !.hints = n.hints \cup {"See"}]

convert_const_to_enum(n) ==
  IF n.const = "none" THEN n
  ELSE [n EXCEPT !.enum = IF @ = {} THEN {n.const} ELSE @ \cap {n.const}, !.type = OwnOr(@, <<"string">>, <<>>)]

convert_enum_values_to_strings(n, mode) ==
  IF n.enum # {} /\ ~ForAntigravity(mode) THEN [n EXCEPT !.type = <<"string">>] ELSE n
add_enum_hints(n) == IF Cardinality(n.enum) \in 2..10 THEN Hint(n, {"Allowed"}) ELSE n
drop_ignored_enums_to_hints(n, mode) ==
  IF ~ForAntigravity(mode) \/ n.enum = {} THEN n
  ELSE [Hint(n, IF Cardinality(n.enum) = 1 THEN {"Allowed"} ELSE {}) EXCEPT !.enum = {}]

Constraints(mode) == {"pattern"} \cup (IF ForAntigravity(mode) THEN {"minimum"} ELSE {})
add_additional_properties_hints(n) == Hint(n, n.words \cap {"closed"})
move_constraints_to_description(n, mode) == Hint(n, n.words \cap Constraints(mode))
move_not_to_description(n) == Hint(n, n.words \cap {"not"})

hinted(n, mode) ==
  LET valued == drop_ignored_enums_to_hints(
                  add_enum_hints(convert_enum_values_to_strings(
                    convert_const_to_enum(convert_refs_to_hints(n, mode)), mode)), mode)
  IN  IF ~ForAntigravity(mode) THEN valued
      ELSE move_not_to_description(move_constraints_to_description(
             add_additional_properties_hints(valued), mode))

-----------------------------------------------------------------------------
(* Alternatives.  What the node has itself is never replaced.              *)
RECURSIVE merge_missing_schema(_, _)
merge_missing_schema(own, other) ==
  LET both  == DOMAIN own.sub \cap DOMAIN other.sub
      maps  == {"properties", "items"}
      added == {k \in DOMAIN other.sub \ DOMAIN own.sub: k[1] \in maps \/ ~Has(own, k[1])}
      kept  == [k \in DOMAIN own.sub |-> IF k \in both /\ k[1] \in maps
                                         THEN merge_missing_schema(own.sub[k], other.sub[k]) ELSE own.sub[k]]
  IN  [overlay(other, own) EXCEPT !.ref = OwnOr(own.ref, other.ref, "none"),
                                  !.sub = kept @@ [k \in added |-> other.sub[k]]]

merge_conditionals(n) ==
  IF ~Has(n, "then") THEN n
  ELSE LET branch == n.sub[<<"then", "1">>]
       IN  [n EXCEPT !.sub = @ @@ [k \in {j \in DOMAIN branch.sub: j[1] = "properties"} |-> branch.sub[k]]]

merge_all_of(n) ==
  LET member(st, item) == [merge_missing_schema(st, Drop(item, {"then", "allOf"}))
                             EXCEPT !.required = st.required \cup item.required]
  IN  Drop(FoldLeft(member, n, Branches(n, "allOf")), {"allOf"})

is_required_only_union_branch(n) ==
  n.required # {} /\ n.type = <<>> /\ n.enum = {} /\ DOMAIN n.sub = {}
materialize_required_only_branch(n, parent) ==
  [n EXCEPT !.type = <<"object">>,
            !.sub = [k \in {<<"properties", x>>: x \in n.required} |-> parent.sub[k]]]
is_null_only_branch(n) == Range(n.type) = {"null"} /\ ~Has(n, "properties") /\ ~Has(n, "items")

useful_union_branches(real, parent) ==
  LET useful(b) == is_required_only_union_branch(b) => b.required \subseteq Names(parent, "properties")
      shown(b)  == IF is_required_only_union_branch(b) THEN materialize_required_only_branch(b, parent) ELSE b
      all(bs)   == [i \in DOMAIN bs |-> shown(bs[i])]
  IN  all(SelectSeq(real, useful))
partition_union_branches(branches, parent) ==
  LET parted(real) == [kept |-> useful_union_branches(real, parent),
                       null |-> Len(real) < Len(branches),
                       filtered |-> \E i \in DOMAIN real: is_required_only_union_branch(real[i])]
  IN  parted(SelectSeq(branches, LAMBDA b: ~is_null_only_branch(b)))

typeName(n) == IF Len(n.type) = 1 THEN n.type[1] ELSE ""
scored(n) ==
  CASE typeName(n) = "object" \/ Has(n, "properties") -> [score |-> 3, type |-> OwnOr(typeName(n), "object", "")]
    [] typeName(n) = "array" \/ Has(n, "items")       -> [score |-> 2, type |-> OwnOr(typeName(n), "array", "")]
    [] OTHER -> [score |-> IF typeName(n) \in {"", "null"} THEN 0 ELSE 1, type |-> typeName(n)]
select_best(nodes) ==
  LET score(i) == scored(nodes[i]).score
  IN  nodes[CHOOSE i \in DOMAIN nodes: \A j \in DOMAIN nodes: score(j) <= score(i) /\ (j < i => score(j) < score(i))]

(* The strongest branch takes the place of the node.                       *)
projected(n, branches, parts, nullable) ==
  LET asked == IF parts.filtered \/ Len(parts.kept) >= 2
               THEN parts.kept \o (IF parts.null THEN <<Typed("null")>> ELSE <<>>) ELSE branches
      types == SelectSeq(asked, LAMBDA b: scored(b).type # "")
      best  == select_best(parts.kept)
  IN  Hint([best EXCEPT !.nullable = @ \/ nullable],
           n.hints \cup (IF Len(types) > 1 THEN {"Accepts"} ELSE IF nullable THEN {"nullable"} ELSE {}))

united(n, key, mode, branches, parts) ==
  LET nullable == parts.null \/ n.nullable
      flatten  == mode = "agClaude"
      target   == IF ForAntigravity(mode) THEN "anyOf" ELSE key
      propsOf(b) == [Blank EXCEPT !.sub = [k \in {j \in DOMAIN b.sub: j[1] = "properties"} |-> b.sub[k]]]
      merged   == FoldLeft(LAMBDA st, b: merge_missing_schema(st, propsOf(b)), propsOf(n), parts.kept)
  IN  IF key = "oneOf" /\ ForAntigravity(mode) /\ ~flatten /\ Has(n, "anyOf")
      THEN Hint(Drop(n, {key}), {"oneOf"})
      ELSE IF Len(parts.kept) >= 2 /\ ~flatten
      THEN [Hint(PutBranches(Drop(n, {key}), target, parts.kept), IF nullable THEN {"nullable"} ELSE {})
              EXCEPT !.nullable = nullable]
      ELSE IF Has(n, "properties")
      THEN [Drop(n, {key, "properties"}) EXCEPT !.sub = merged.sub @@ @, !.nullable = nullable,
                                                !.type = OwnOr(@, <<"object">>, <<>>)]
      ELSE IF parts.kept = <<>>
      THEN IF nullable THEN [Typed("null") EXCEPT !.hints = n.hints] ELSE Drop(n, {key})
      ELSE projected(n, branches, parts, nullable)

process_union_keyword(n, key, mode) ==
  IF ~Has(n, key) THEN n
  ELSE LET among(branches) == united(n, key, mode, branches, partition_union_branches(branches, n))
       IN  among(Branches(n, key))
process_union_keywords(n, mode) ==
  process_union_keyword(process_union_keyword(n, "oneOf", mode), "anyOf", mode)

(* A list of types becomes the one the node's other keywords fit; what may *)
(* be null is not required of Gemini.                                      *)
isListWithNull(n) == Len(n.type) > 1 /\ "null" \in Range(n.type)
first_fit(n, real) ==
  IF Has(n, "items") /\ "array" \in Range(real) THEN "array"
  ELSE IF Has(n, "properties") /\ "object" \in Range(real) THEN "object" ELSE real[1]
flatten_type_arrays(n, mode) ==
  LET free       == {x \in Names(n, "properties"): ~ForAntigravity(mode) /\ isListWithNull(n.sub[<<"properties", x>>])}
      one(first) == [IF first = "array" THEN n ELSE Drop(n, {"items"}) EXCEPT !.type = <<first>>]
      null       == isListWithNull(n)
      single(real) == [Hint(one(first_fit(n, real)), (IF Len(real) > 1 THEN {"Accepts"} ELSE {})
                                                     \cup (IF null THEN {"nullable"} ELSE {}))
                         EXCEPT !.nullable = @ \/ (ForAntigravity(mode) /\ null)]
  IN  [IF Len(n.type) > 1 THEN single(SelectSeq(n.type, LAMBDA t: t # "null")) ELSE n EXCEPT !.required = @ \ free]

-----------------------------------------------------------------------------
(* The names in a map of properties are the author's, also where they read *)
(* like keywords.                                                          *)
is_property_definition(slot) == slot = "properties"
Unsupported(mode) == {"meta"} \cup (IF ForAntigravity(mode) THEN {"closed", "not"} \cup Constraints(mode) ELSE {})
remove_unsupported_keywords(n, mode) ==
  LET gone(k) == k[1] \in {"then", "bare"} \/ (k[2] \in Unsupported(mode) /\ ~is_property_definition(k[1]))
  IN  [n EXCEPT !.words = @ \ Unsupported(mode), !.const = "none",
                !.sub = [k \in {j \in DOMAIN @: ~gone(j)} |-> @[k]]]
remove_keywords(n, mode) ==
  CASE mode = "gemini" -> [n EXCEPT !.words = @ \ {"title"}, !.nullable = FALSE]
    [] mode = "agTool" -> [n EXCEPT !.words = @ \ {"title"}]
    [] OTHER           -> n

Reason == [Strings EXCEPT !.hints = {"why"}]
remove_placeholder_fields(n) ==
  LET rest   == Names(n, "properties") \ {"_"}
      fakes  == (Names(n, "properties") \cap {"_"})
                \cup (IF rest = {"reason"} /\ n.sub[<<"properties", "reason">>].hints = Reason.hints THEN rest ELSE {})
  IN  [n EXCEPT !.sub = [k \in DOMAIN @ \ {<<"properties", x>>: x \in fakes} |-> @[k]], !.required = @ \ fakes]
cleanup_required_fields(n) == [n EXCEPT !.required = @ \cap Names(n, "properties")]

swept(n, mode) ==
  LET known == remove_keywords(remove_unsupported_keywords(n, mode), mode)
  IN  cleanup_required_fields(IF ForAntigravity(mode) THEN known ELSE remove_placeholder_fields(known))

sanitize_object_properties(n) == IF Has(n, "properties") THEN [n EXCEPT !.type = <<"object">>] ELSE n
sanitize_array_items(n) ==
  CASE Has(n, "items") /\ n.type = <<>>                 -> [n EXCEPT !.type = <<"array">>]
    [] Has(n, "items") /\ n.type \notin {<<>>, <<"array">>} -> Drop(n, {"items"})
    [] ~Has(n, "items") /\ n.type = <<"array">>         -> Put(n, "items", "all", Strings)
    [] OTHER                                            -> n

(* Validated calls need something to be required of every object.          *)
add_empty_schema_placeholder(n) ==
  CASE n.type # <<"object">> \/ Has(n, "anyOf") \/ Has(n, "oneOf") -> n
    [] n.type = <<"object">> /\ ~Has(n, "anyOf") /\ ~Has(n, "oneOf") /\ ~Has(n, "properties") ->
         [Put(n, "properties", "reason", Reason) EXCEPT !.required = {"reason"}]
    [] n.type = <<"object">> /\ ~Has(n, "anyOf") /\ ~Has(n, "oneOf") /\ Has(n, "properties") /\ n.required = {} ->
         [IF "_" \in Names(n, "properties") THEN n ELSE Put(n, "properties", "_", Typed("boolean"))
            EXCEPT !.required = {"_"}]
    [] OTHER -> n

(* Passes that look down from a node, and those that see to what is below  *)
(* it first.                                                               *)
RECURSIVE walk_objects(_, _, _)
walk_objects(pass, n, mode) ==
  LET m == CASE pass = "hints"        -> hinted(n, mode)
             [] pass = "conditionals" -> merge_conditionals(n)
             [] pass = "allOf"        -> merge_all_of(n)
             [] pass = "types"        -> flatten_type_arrays(n, mode)
             [] pass = "sweep"        -> swept(n, mode)
  IN  [m EXCEPT !.sub = [k \in DOMAIN @ |-> walk_objects(pass, @[k], mode)]]
RECURSIVE visit(_, _, _)
visit(pass, n, mode) ==
  LET m == [n EXCEPT !.sub = [k \in DOMAIN @ |-> visit(pass, @[k], mode)]]
  IN  CASE pass = "union"       -> process_union_keywords(m, mode)
        [] pass = "object"      -> sanitize_object_properties(m)
        [] pass = "array"       -> sanitize_array_items(m)
        [] pass = "placeholder" -> IF Validated(mode) THEN add_empty_schema_placeholder(m) ELSE m

Passes == <<"hints", "conditionals", "allOf", "union", "types", "sweep", "object", "array", "placeholder">>
clean_json_schema(defs, root, mode, budget) ==
  LET pass(n, p) == IF p \in {"union", "object", "array", "placeholder"}
                    THEN visit(p, n, mode) ELSE walk_objects(p, n, mode)
      repaired   == [d \in DOMAIN defs |-> repair_schema_node(defs[d])]
  IN  FoldLeft(pass, resolve_schema_root(repaired, repair_schema_node(root), budget), Passes)

-----------------------------------------------------------------------------
(* Responses: what the endpoint cannot compile is left out, and an object  *)
(* that is one of several things must be an object in all of them, or      *)
(* nothing is said of it.                                                  *)
RECURSIVE strip_dialect_keywords_from_schema(_)
strip_dialect_keywords_from_schema(n) ==
  [n EXCEPT !.words = @ \ {"meta", "badPattern", "huge"},
            !.sub = [k \in DOMAIN @ |-> strip_dialect_keywords_from_schema(@[k])]]

branch_schema_type_is_object_only(n) == Range(n.type) = {"object"}
AnyObject == [Typed("object") EXCEPT !.words = {"open"}]
only_objects(s) ==
  LET unions == {k \in DOMAIN s.sub: k[1] \in {"anyOf", "oneOf"}}
      typed(n) == IF n.type = <<>> /\ n.ref = "none" THEN [n EXCEPT !.type = <<"object">>] ELSE n
  IN  CASE s.type = <<"object">> /\ unions # {} ->
             IF \A k \in unions: branch_schema_type_is_object_only(typed(s.sub[k]))
             THEN [s EXCEPT !.sub = [k \in DOMAIN @ |-> IF k \in unions THEN typed(@[k]) ELSE @[k]]] ELSE AnyObject
        [] s.type = <<>> -> [s EXCEPT !.type = <<"object">>]
        [] OTHER         -> s
normalize_tool_parameters(defs, root, budget) ==
  only_objects(strip_dialect_keywords_from_schema(resolve_schema_root(defs, root, budget)))

(* A property that is one of many constants is an enumeration of them.     *)
pure_const_branch(n) == n.const # "none" /\ [n EXCEPT !.const = "none", !.words = @ \ {"title"}, !.hints = {}] = Blank
simplify_pure_const_unions(n, threshold) ==
  LET simple(p) ==
        LET keys     == {k \in DOMAIN p.sub: k[1] \in {"oneOf", "anyOf"}}
            consts   == {p.sub[k].const: k \in keys}
        IN  IF \/ Has(p, "oneOf") = Has(p, "anyOf") \/ Cardinality(keys) < threshold
               \/ \E k \in keys: ~pure_const_branch(p.sub[k])
               \/ Cardinality(consts) < Cardinality(keys) \/ p.enum \notin {{}, consts}
            THEN p ELSE [Drop(p, {"oneOf", "anyOf"}) EXCEPT !.enum = consts]
  IN  [n EXCEPT !.sub = [k \in DOMAIN @ |-> IF k[1] = "properties" THEN simple(@[k]) ELSE @[k]]]

(* Chat.                                                                   *)
RECURSIVE normalize_object_schema_properties(_)
normalize_object_schema_properties(n) ==
  [n EXCEPT !.words = @ \ {"badPattern"},
            !.sub = [k \in DOMAIN @ |-> normalize_object_schema_properties(@[k])]]
=============================================================================
