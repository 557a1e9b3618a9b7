----------------------------- MODULE DriftDetector -----------------------------
(***************************************************************************)
(* The observer of what breaks the upstream's prompt cache                 *)
(* (ccextra-core/src/cache_stabilization/drift_detector.rs, session.rs and *)
(* ccextra-server/src/http/session_tokens.rs).  It compares the system     *)
(* prompt and the tools of a request with those of the session's last one, *)
(* warns when they differ, and sets the cache usage the answer reports     *)
(* against the warning.  A hash is the value it is taken of.               *)
(*                                                                         *)
(* A body is [api, model, system, instructions, messages, tools], a        *)
(* message [role, text, reminder, marked] (a reminder is <<closed, note>>, *)
(* marked is cache_control), tools the list of tools or nothing, a tool    *)
(* [type, name, schema, description].                                      *)
(***************************************************************************)
EXTENDS Naturals, Sequences, FiniteSets, SequencesExt

CONSTANTS Apis,           \* shapes of the requests that are sent
          Bodies,         \* bodies as they are sent
          Senders,        \* headers they come with: [session, key, id]
          Usages,         \* frames of an answer: [present, cached, read, creation]
          Capacities,     \* how many entries a map may have (1000 in the code)
          MaxSent         \* bound: requests

ASSUME DriftAssumption == Capacities \subseteq Nat \ {0} /\ MaxSent \in Nat

Utterance == [role: STRING, text: STRING, reminder: {<<>>} \cup (BOOLEAN \X STRING), marked: BOOLEAN]
Tool      == [type: STRING, name: STRING, schema: STRING, description: STRING]

ASSUME BodiesAssumption ==
  \A body \in Bodies: /\ body.messages \in Seq(Utterance)
                      /\ \A i \in DOMAIN body.tools: body.tools[i] \in Seq(Tool)

Absent == "absent"
Early == 8   \* EARLY_MESSAGES_WINDOW

VARIABLES api,       \* the shape the route of the requests gives them
          capacity,  \* entries of each map
          sent,      \* requests: [body, sender, watched, open]
          baselines, \* the last system and tools of a session
          hashes,    \* the last structure of a conversation
          pendings,  \* warnings whose usage is not known yet
          log        \* what was reported

driftVars == <<api, capacity, sent, baselines, hashes, pendings, log>>

(* The lru crate: each entry with the request that used it last; the one   *)
(* used the longest ago makes room.                                        *)
without(lru, key) == [k \in DOMAIN lru \ {key} |-> lru[k]]
put(lru, key, value, n) ==
  LET all    == [k \in DOMAIN lru \cup {key} |-> IF k = key THEN [value |-> value, at |-> n] ELSE lru[k]]
      oldest == CHOOSE k \in DOMAIN all: \A o \in DOMAIN all: all[k].at <= all[o].at
  IN  IF Cardinality(DOMAIN all) > capacity THEN without(all, oldest) ELSE all

is_openai_system_role(role) == role \in {"system", "developer"}

firstFew(seq, n) == [i \in DOMAIN seq \cap 1..n |-> seq[i]]

(* The messages that are not part of the system prompt.                    *)
spoken(body) ==
  IF body.api = "anthropic" THEN body.messages
  ELSE SelectSeq(body.messages, LAMBDA said: ~is_openai_system_role(said.role))

first_system_content(body) ==
  LET prompts == SelectSeq(body.messages, LAMBDA said: is_openai_system_role(said.role))
  IN  IF prompts = <<>> THEN Absent ELSE prompts[1].text

usable_responses_instructions(body) == body.api = "responses" /\ body.instructions \notin {Absent, "blank"}

extract_system(body) ==
  IF body.api = "anthropic" THEN body.system
  ELSE IF usable_responses_instructions(body) THEN body.instructions ELSE first_system_content(body)

(* No list of tools, or an empty one.                                      *)
offered(body) == FlattenSeq(body.tools)

(* Titles and summaries: no tools and at most one message.                 *)
is_ancillary_request(body) == offered(body) = <<>> /\ Len(spoken(body)) <= 1

(* The first message anchors the conversation; items without a role don't. *)
first_conversation_message(body) ==
  LET anchors == {i \in DOMAIN body.messages:
                    body.api = "anthropic" \/ ~(is_openai_system_role(body.messages[i].role)
                                               \/ body.messages[i].role = Absent)}
  IN  IF anchors = {} THEN <<>> ELSE <<body.messages[CHOOSE i \in anchors: \A j \in anchors: i <= j]>>

masked(reminder) == IF reminder # <<>> /\ reminder[1] THEN <<TRUE, "masked">> ELSE reminder

canonicalize_discriminator(said) == [said EXCEPT !.marked = FALSE, !.reminder = masked(@)]

(* The tools by type, name and schema, in no order.                        *)
stable_tool_fingerprint(tools) ==
  LET print(tool) == <<tool.type, tool.name, tool.schema>>
  IN  {<<print(tools[i]), Cardinality({j \in DOMAIN tools: print(tools[j]) = print(tools[i])})>>: i \in DOMAIN tools}

structure(body) ==
  [system |-> extract_system(body), tools |-> [i \in DOMAIN body.tools |-> stable_tool_fingerprint(body.tools[i])],
   early_messages |-> firstFew(spoken(body), Early)]

derive_parent_bucket(sender) ==
  IF sender.session # Absent THEN <<"claude-code", sender.session>>
  ELSE IF sender.key # Absent THEN <<"tklite", sender.key>>
  ELSE IF sender.id # Absent THEN <<"request", sender.id>> ELSE <<"anonymous">>

is_stable_parent_bucket(parent) == parent[1] \notin {"request", "anonymous"}

conversation(sender, body) ==
  LET first == first_conversation_message(body)
  IN  <<derive_parent_bucket(sender), body.model, [i \in DOMAIN first |-> canonicalize_discriminator(first[i])]>>

(* What a parent's baseline says of the request.                           *)
parent_dims(parent, current) ==
  {dim \in {"system", "tools"}: parent \in DOMAIN baselines /\ baselines[parent].value[dim] # current[dim]}

(* Of a conversation: it is new, the same, or differs in some dimension.   *)
drift_dims(key, current) ==
  IF key \notin DOMAIN hashes THEN {"first"}
  ELSE {dim \in {"system", "tools", "early_messages"}: hashes[key].value[dim] # current[dim]}

(* Fault: the new baseline is kept only if it gave no warning.             *)
next_baselineQuiet(parent, current, dims, n) ==
  IF dims = {} THEN put(baselines, parent, [system |-> current.system, tools |-> current.tools], n) ELSE baselines

next_baseline(parent, current, dims, n) ==
  put(baselines, parent, [system |-> current.system, tools |-> current.tools], n)

observe_drift(n, sender, body) ==
  LET parent  == derive_parent_bucket(sender)
      key     == conversation(sender, body)
      current == structure(body)
      dims    == parent_dims(parent, current)
      isNew   == key \notin DOMAIN hashes
      within  == drift_dims(key, current)
  IN  /\ baselines' = next_baseline(parent, current, dims, n)
      /\ hashes' = put(hashes, key, current, n)
      /\ pendings' = IF dims = {} THEN pendings ELSE put(pendings, parent, [of |-> n, dims |-> dims], n)
      /\ log' = log
           \o (IF dims = {} THEN <<>> ELSE <<[scope |-> "parent", of |-> n, dims |-> dims, rotated |-> isNew]>>)
           \o (IF within = {} THEN <<>> ELSE <<[scope |-> "conversation", of |-> n, dims |-> within]>>)

ObserveRequest(sender, body) ==
  LET n       == Len(sent) + 1
      parent  == derive_parent_bucket(sender)
      skipped == is_ancillary_request(body) \/ ~is_stable_parent_bucket(parent)
      warned  == ~skipped /\ parent_dims(parent, structure(body)) # {}
  IN  /\ n <= MaxSent /\ body.api = api
      /\ sent' = Append(sent, [body |-> body, sender |-> sender, watched |-> warned, open |-> TRUE])
      /\ IF skipped THEN UNCHANGED <<baselines, hashes, pendings, log>> ELSE observe_drift(n, sender, body)
      /\ UNCHANGED <<api, capacity>>

(* Which frames tell it: Claude's must name a count of the cache, in the   *)
(* others any usage does, with 0 for what it does not name.                *)
extract_cache_usage_tokens(usage) == usage.present /\ (api = "anthropic" => usage.cached)

cache_miss_suspected(usage) == usage.read = 0 /\ usage.creation > 0

settled(parent) == without(pendings, parent)

observe_cache_usage(n, parent, usage) ==
  /\ pendings' = settled(parent)
  /\ log' = IF parent \notin DOMAIN pendings THEN log
            ELSE Append(log, [scope |-> "usage", of |-> pendings[parent].value.of, by |-> n,
                              dims |-> pendings[parent].value.dims, missed |-> cache_miss_suspected(usage)])

(* A frame of the answer to a request that warned.                         *)
FrameArrives(n, usage) ==
  /\ sent[n].watched /\ sent[n].open
  /\ IF extract_cache_usage_tokens(usage)
     THEN /\ sent' = [sent EXCEPT ![n].watched = FALSE]
          /\ observe_cache_usage(n, derive_parent_bucket(sent[n].sender), usage)
     ELSE UNCHANGED <<sent, pendings, log>>
  /\ UNCHANGED <<api, capacity, baselines, hashes>>

(* The answer ends, or its connection does.                                *)
AnswerEnds(n) ==
  /\ sent[n].open
  /\ sent' = [sent EXCEPT ![n].open = FALSE]
  /\ UNCHANGED <<api, capacity, baselines, hashes, pendings, log>>

DriftInit ==
  /\ api \in Apis /\ capacity \in Capacities
  /\ sent = <<>> /\ log = <<>>
  /\ baselines = <<>> /\ hashes = <<>> /\ pendings = <<>>

DriftNext ==
  \/ \E sender \in Senders, body \in Bodies: ObserveRequest(sender, body)
  \/ \E n \in DOMAIN sent: AnswerEnds(n) \/ \E usage \in Usages: FrameArrives(n, usage)

(* What the properties below go by, in terms of the requests alone.        *)
Session(n)   == [session |-> sent[n].sender.session, key |-> IF sent[n].sender.session = Absent THEN sent[n].sender.key ELSE Absent]
Compared(n)  == Session(n) # [session |-> Absent, key |-> Absent] /\ ~is_ancillary_request(sent[n].body)
Earlier(n)   == {m \in 1..(n - 1): Compared(m) /\ Session(m) = Session(n)}
Fit(m, n)    == Cardinality({Session(k): k \in {k \in m..n: Compared(k)}}) <= capacity
Of(scope, n) == {i \in DOMAIN log: log[i].scope = scope /\ log[i].of = n}

(* The same tools as often, in some order, whatever their descriptions.    *)
Silent(tool)    == [tool EXCEPT !.description = ""]
Times(tools, t) == Cardinality({i \in DOMAIN tools: Silent(tools[i]) = t})
SameTools(a, b) ==
  /\ DOMAIN a.tools = DOMAIN b.tools
  /\ \A i \in DOMAIN a.tools:
       \A t \in {Silent(tool): tool \in ToSet(a.tools[i]) \cup ToSet(b.tools[i])}:
         Times(a.tools[i], t) = Times(b.tools[i], t)

(* The same words open both, said to the same model; reminders that are    *)
(* closed are no words, and neither are marks.                             *)
SameStart(a, b) ==
  LET f == first_conversation_message(a)
      g == first_conversation_message(b)
      put_in(said) == said.reminder # <<>> /\ said.reminder[1]
  IN  /\ a.model = b.model /\ DOMAIN f = DOMAIN g
      /\ \A i \in DOMAIN f: /\ f[i].role = g[i].role /\ f[i].text = g[i].text
                            /\ f[i].reminder = g[i].reminder \/ (put_in(f[i]) /\ put_in(g[i]))
Talk(n) == conversation(sent[n].sender, sent[n].body)

(* A session is warned of exactly when the system prompt or the tools it   *)
(* offers differ from those of its last request, however long ago (while   *)
(* no more sessions than fit were active), even if the conversation began  *)
(* anew in between, and never because of a background request, another     *)
(* session, the order of the tools or what they say of themselves          *)
(* (drift_detector.rs, 738-802, 838-865).                                  *)
ChangesAnnounced ==
  \A n \in DOMAIN sent:
    LET last == IF Earlier(n) = {} THEN 0 ELSE CHOOSE m \in Earlier(n): \A k \in Earlier(n): k <= m
        changed == Compared(n) /\ last # 0
                   /\ \/ extract_system(sent[n].body) # extract_system(sent[last].body)
                      \/ ~SameTools(sent[n].body, sent[last].body)
    IN  (last # 0 => Fit(last, n)) => (changed <=> Of("parent", n) # {})

(* A request is taken for the start of a conversation exactly when the     *)
(* session had none that opened with the same words to the same model      *)
(* (while no more conversations than fit were active): what Claude Code    *)
(* puts into reminders and where it marks the cache does not tell          *)
(* conversations apart (drift_detector.rs, 1033-1086).                     *)
RotationsKnown ==
  \A n \in DOMAIN sent: \A i \in Of("parent", n):
    LET same == {m \in Earlier(n): SameStart(sent[m].body, sent[n].body)}
        kept == \E m \in same: Cardinality({Talk(k): k \in {k \in m..n: Compared(k)}}) <= capacity
    IN  /\ log[i].rotated => ~kept
        /\ same = {} => log[i].rotated

(* The usage of an answer is set against the last warning of its session,  *)
(* no warning gets the usage of two answers, and one whose request had the *)
(* session to itself gets the usage of its own answer and of no other      *)
(* (drift_detector.rs, 873-905; session_tokens.rs, 72-113).                *)
UsageOfItsWarning ==
  \A n \in DOMAIN sent:
    LET alone == \A m \in DOMAIN sent \ {n}: Session(m) = Session(n) => Of("parent", m) = {}
    IN  /\ \A i, j \in Of("usage", n): i = j
        /\ \A i \in Of("usage", n): /\ \E w \in Of("parent", n): log[i].dims = log[w].dims
                                    /\ Session(log[i].by) = Session(n)
                                    /\ alone => log[i].by = n
        /\ alone /\ Of("parent", n) # {} /\ ~sent[n].watched
             => \/ Of("usage", n) # {}
                \/ Cardinality({Session(m): m \in {m \in DOMAIN sent: Of("parent", m) # {}}}) > capacity

DriftReported == ChangesAnnounced /\ RotationsKnown /\ UsageOfItsWarning
=============================================================================
