------------------------------ MODULE KimiReplay ------------------------------
(***************************************************************************)
(* The thinking of Kimi behind its Claude endpoint                         *)
(* (crates/ccextra-core/src/convert/kimi_thinking_replay.rs,               *)
(* ccextra-server/src/sse/kimi_thinking_replay_cache.rs, ttl_lru.rs).      *)
(* The client drops thinking that Claude did not sign, but Kimi wants it   *)
(* back before the results of the calls it led to.  The gateway keeps the  *)
(* last answer of a session and model family that thinks and calls, and    *)
(* puts its thinking back where the client has the rest of it.             *)
(*                                                                         *)
(* A block is [type, id, pieces, sig]; ids and signatures of answer n bear *)
(* its number, 0 stands for none.                                          *)
(***************************************************************************)
EXTENDS Naturals, FiniteSets, Functions, Sequences, SequencesExt

CONSTANTS Chats,        \* conversations of the clients
          Sessions,     \* the ways they may share sessions
          Models,       \* names the requests may ask for
          KimiStreams,  \* what the upstream may stream, frame by frame
          MaxBlocks,    \* MAX_BLOCKS_PER_ENTRY
          Capacity,     \* entries of the cache, and how many go
          EvictBatch,   \* when a new one needs room
          MaxReturned,  \* bound: answers of the upstream
          MaxHitches    \* bound: broken streams, rejections and losses of the cache

ASSUME KimiAssumption == {MaxBlocks, MaxReturned, MaxHitches, Capacity, EvictBatch} \subseteq Nat

(* The frames of an answer: a block begins empty and unsigned.             *)
Frames ==
  [type: {"message_start", "message_stop", "error"}]
  \cup [type: {"start"}, index: Nat, block: [type: STRING, id: Nat, pieces: {<<>>}, sig: {0}]]
  \cup [type: {"delta"}, index: Nat, kind: {"signature"}, piece: Nat]
  \cup [type: {"delta"}, index: Nat, kind: STRING \ {"signature"}, piece: STRING]
  \cup [type: {"stop"}, index: Nat]

ASSUME KimiStreamsAssumption == KimiStreams \subseteq Seq(Frames)

VARIABLES session,    \* the session each conversation belongs to
          messages,   \* each conversation as the client keeps it
          posted,     \* the request each conversation awaits an answer of, if any
          cache,      \* the last thinking answer of each family and session
          returned,   \* what was answered, to which conversation and key
          hitches     \* how many there were

kimiVars == <<session, messages, posted, cache, returned, hitches>>

NotPosted == [key |-> <<>>, messages |-> <<>>, applied |-> FALSE, after |-> 0]
Awaiting == Cardinality({c \in Chats: posted[c] # NotPosted})
now == 2 * (Len(returned) + hitches) + Awaiting

(* The cache: entries [value, at, stale] that go when they are old or when *)
(* a new key needs room; time is the count of operations, and an entry     *)
(* becomes stale when it may.                                              *)
Empty == [key \in {} |-> 0]
remove(entries, key) == Restrict(entries, DOMAIN entries \ {key})
held(entries, key)   == key \in DOMAIN entries /\ ~entries[key].stale

(* Reading renews the entry, or removes what has expired.                  *)
get_touch(entries, key) ==
  IF key \notin DOMAIN entries THEN entries
  ELSE IF entries[key].stale THEN remove(entries, key) ELSE [entries EXCEPT ![key].at = now]

evict_oldest(entries) ==
  LET older(key) == {k \in DOMAIN entries: entries[k].at < entries[key].at}
  IN  Restrict(entries, {key \in DOMAIN entries: Cardinality(older(key)) >= EvictBatch})

(* Only a new key needs room.                                              *)
makeRoom(entries, key) ==
  IF Cardinality(DOMAIN entries) >= Capacity /\ key \notin DOMAIN entries THEN evict_oldest(entries) ELSE entries

insert(entries, key, value) ==
  LET room == makeRoom(entries, key)
  IN  [k \in DOMAIN room \cup {key} |-> IF k = key THEN [value |-> value, at |-> now, stale |-> FALSE] ELSE room[k]]

-----------------------------------------------------------------------------
(* k3 and its long window are one family, the effort and the window of a   *)
(* name are no part of it, and neither is the prefix.                      *)
kimi_thinking_replay_model_family(model) ==
  CASE model.name = "k3-256k" -> "k3"
    [] model.name = "k3.1-pro-highspeed" -> "k3.1-pro"
    [] model.name \in {"k2.8", "k2.7-code", "for-coding"} -> "kimi-for-coding"
    [] OTHER -> model.name

Key(chat, model) == <<kimi_thinking_replay_model_family(model), session[chat]>>

-----------------------------------------------------------------------------
IsThought(b) == b.type \in {"thinking", "redacted_thinking"}
Whole(content) == Len(content) > 0 /\ Len(content) <= MaxBlocks

(* Worth keeping: a signed thought and a call.                             *)
content_is_replayable(content) ==
  /\ Whole(content)
  /\ \E i \in DOMAIN content: content[i].type = "thinking" /\ content[i].sig # 0
  /\ \E i \in DOMAIN content: content[i].type = "tool_use" /\ content[i].id # 0

content_has_thinking(content) == \E i \in DOMAIN content: IsThought(content[i])

non_thinking_parts(content) ==
  FoldLeft(LAMBDA kept, b: IF IsThought(b) THEN kept ELSE Append(kept, b), <<>>, content)

(* An answer can be told by its parts if it calls and each call has an id. *)
hasCall(content) ==
  /\ \E i \in DOMAIN content: content[i].type = "tool_use"
  /\ \A i \in DOMAIN content: content[i].type = "tool_use" => content[i].id # 0

(* Fault: the last call without thinking gets it, whichever call it is.    *)
sameAnswerAny(current, cached) == hasCall(current) /\ ~content_has_thinking(current)

(* The answer without its thinking.                                        *)
sameAnswer(current, cached) ==
  /\ hasCall(current) /\ ~content_has_thinking(current)
  /\ non_thinking_parts(cached) = current

(* The last message that is the answer gets its thinking back, unless one  *)
(* after it has it still.                                                  *)
restore_kimi_thinking_replay(msgs, cached) ==
  LET spoken == {i \in DOMAIN msgs: msgs[i].role = "assistant"}
      found  == {i \in spoken: msgs[i].content = cached \/ sameAnswer(msgs[i].content, cached)}
  IN  IF found = {} THEN msgs
      ELSE [msgs EXCEPT ![CHOOSE i \in found: \A j \in found: j <= i].content = cached]

-----------------------------------------------------------------------------
(* What is gathered of a stream, frame by frame.                           *)
Unseen == [blocks |-> [i \in {} |-> 0], observed |-> FALSE, complete |-> FALSE,
           error |-> FALSE, abandoned |-> FALSE]
abandon(acc) == [acc EXCEPT !.abandoned = TRUE, !.blocks = [i \in {} |-> 0]]

observe_block_start(acc, f) ==
  IF Cardinality(DOMAIN acc.blocks) >= MaxBlocks \/ f.index \in DOMAIN acc.blocks THEN abandon(acc)
  ELSE [acc EXCEPT !.blocks = [i \in DOMAIN @ \cup {f.index} |->
          IF i = f.index THEN [block |-> f.block, finished |-> FALSE] ELSE @[i]]]

observe_block_delta(acc, f) ==
  IF f.index \notin DOMAIN acc.blocks \/ f.kind = "unknown" THEN abandon(acc)
  ELSE IF f.kind = "signature" THEN [acc EXCEPT !.blocks[f.index].block.sig = f.piece]
  ELSE [acc EXCEPT !.blocks[f.index].block.pieces = Append(@, f.piece)]

(* The arguments of a call must be readable once it is over.               *)
finish_block(acc, f) ==
  IF f.index \notin DOMAIN acc.blocks THEN abandon(acc)
  ELSE IF acc.blocks[f.index].block.type = "tool_use" /\ Contains(acc.blocks[f.index].block.pieces, "torn")
  THEN abandon(acc)
  ELSE [acc EXCEPT !.blocks[f.index].finished = TRUE]

observe_payload(acc, f) ==
  CASE acc.abandoned            -> acc
    [] ~acc.abandoned /\ f.type = "message_start" -> [acc EXCEPT !.observed = TRUE]
    [] ~acc.abandoned /\ f.type = "start"         -> observe_block_start(acc, f)
    [] ~acc.abandoned /\ f.type = "delta"         -> observe_block_delta(acc, f)
    [] ~acc.abandoned /\ f.type = "stop"          -> finish_block(acc, f)
    [] ~acc.abandoned /\ f.type = "message_stop"  -> [acc EXCEPT !.complete = TRUE]
    [] ~acc.abandoned /\ f.type = "error"         -> [abandon(acc) EXCEPT !.error = TRUE]

Gathered(frames) == FoldLeft(observe_payload, Unseen, frames)

(* The blocks in the order of their indexes.                               *)
InOrder(blocks) ==
  LET nth(k) == CHOOSE i \in DOMAIN blocks: Cardinality({j \in DOMAIN blocks: j < i}) = k - 1
  IN  [k \in 1..Cardinality(DOMAIN blocks) |-> blocks[nth(k)]]

(* The whole answer, or nothing.                                           *)
take_content(acc) ==
  IF /\ acc.observed /\ acc.complete /\ ~acc.error /\ ~acc.abandoned
     /\ \A i \in DOMAIN acc.blocks: acc.blocks[i].finished
  THEN <<InOrder([i \in DOMAIN acc.blocks |-> acc.blocks[i].block])>>
  ELSE <<>>

(* The end of a stream, however it came: an answer worth keeping is kept,  *)
(* another one clears the entry, and half an answer changes nothing,       *)
(* except that an error after thinking was put back clears the entry.      *)
commit(entries, request, acc) ==
  LET content == take_content(acc)
  IN  CASE acc.error -> IF request.applied THEN remove(entries, request.key) ELSE entries
        [] ~acc.error /\ content = <<>> -> entries
        [] OTHER -> IF content_is_replayable(content[1]) THEN insert(entries, request.key, content[1])
                    ELSE remove(entries, request.key)

-----------------------------------------------------------------------------
KimiInit ==
  /\ session \in Sessions
  /\ messages = [c \in Chats |-> <<>>]
  /\ posted = [c \in Chats |-> NotPosted]
  /\ cache = Empty /\ returned = <<>> /\ hitches = 0

Says(role, content) == [role |-> role, content |-> content]
Block(type, id, pieces, sig) == [type |-> type, id |-> id, pieces |-> pieces, sig |-> sig]

(* The results of the calls, or a question.                                *)
NextWord(msgs) ==
  LET calls == IF msgs = <<>> THEN <<>>
               ELSE SelectSeq(Last(msgs).content, LAMBDA b: b.type = "tool_use")
  IN  Says("user", IF calls = <<>> THEN <<Block("text", 0, <<"q">>, 0)>>
                   ELSE [i \in DOMAIN calls |-> Block("tool_result", calls[i].id, <<>>, 0)])

Post(c, model) ==
  LET own   == messages[c]
      msgs  == IF own # <<>> /\ Last(own).role = "user" THEN own ELSE Append(own, NextWord(own))
      key   == Key(c, model)
      sent  == IF held(cache, key) THEN restore_kimi_thinking_replay(msgs, cache[key].value) ELSE msgs
  IN  /\ posted[c] = NotPosted /\ Len(returned) + Awaiting <= MaxReturned
      /\ messages' = [messages EXCEPT ![c] = msgs]
      /\ posted' = [posted EXCEPT ![c] = [key |-> key, messages |-> sent, applied |-> sent # msgs,
                                          after |-> Len(returned)]]
      /\ cache' = get_touch(cache, key)
      /\ UNCHANGED <<session, returned, hitches>>

(* The frames of answer n, and what the client makes of a frame: what it   *)
(* cannot place is nothing to it.                                          *)
Numbered(frame, n) ==
  CASE frame.type = "start" -> [frame EXCEPT !.block.id = IF @ = 0 THEN 0 ELSE n]
    [] frame.type = "delta" -> [frame EXCEPT !.piece = IF frame.kind = "signature" THEN n ELSE @]
    [] OTHER -> frame

hears(said, f) ==
  CASE f.type = "start" -> [i \in DOMAIN said \cup {f.index} |-> IF i = f.index THEN f.block ELSE said[i]]
    [] f.type = "delta" /\ f.index \in DOMAIN said /\ f.kind = "signature" -> [said EXCEPT ![f.index].sig = f.piece]
    [] f.type = "delta" /\ f.index \in DOMAIN said /\ f.kind \notin {"signature", "unknown"}
         -> [said EXCEPT ![f.index].pieces = Append(@, f.piece)]
    [] OTHER -> said

Told(frames) == FoldLeft(hears, [i \in {} |-> 0], frames)

Finishes(frames) == \E i \in DOMAIN frames: frames[i].type = "message_stop"

(* A stream that can be followed: it starts, no error and nothing unknown  *)
(* comes, each block is begun once, before its pieces, and stopped, calls  *)
(* can be read, and there are no more blocks than an entry takes.          *)
Followable(frames) ==
  LET begun == {i \in DOMAIN frames: frames[i].type = "start"}
      told  == {i \in DOMAIN frames: frames[i].type \in {"delta", "stop"}}
  IN  /\ \E i \in DOMAIN frames: frames[i].type = "message_start"
      /\ \A i \in DOMAIN frames: frames[i].type # "error"
      /\ \A i \in begun: \A j \in begun \ {i}: frames[j].index # frames[i].index
      /\ \A i \in begun: \E j \in told: frames[j].type = "stop" /\ frames[j].index = frames[i].index
      /\ \A i \in told: \E j \in begun: j < i /\ frames[j].index = frames[i].index
      /\ \A i \in told: frames[i].type = "delta" /\ frames[i].kind # "signature"
                         => frames[i].kind # "unknown" /\ frames[i].piece # "torn"
      /\ Cardinality({frames[i].index: i \in begun}) <= MaxBlocks

(* The stream ends after its first frames or all of them; the client keeps *)
(* a whole answer, with or without the thinking.                           *)
StreamEnds(c, stream, seen, keeps) ==
  LET n      == Len(returned) + 1
      frames == [i \in 1..seen |-> Numbered(stream[i], n)]
      acc    == Gathered(frames)
      answer == InOrder(Told(frames))
      whole  == Finishes(frames)
  IN  /\ posted[c] # NotPosted /\ n <= MaxReturned
      /\ ~whole => hitches < MaxHitches
      /\ keeps => whole /\ content_has_thinking(answer)
      /\ hitches' = hitches + IF whole THEN 0 ELSE 1
      /\ cache' = commit(cache, posted[c], acc)
      /\ posted' = [posted EXCEPT ![c] = NotPosted]
      /\ returned' = IF ~whole THEN returned
                     ELSE Append(returned, [content |-> answer, key |-> posted[c].key, followed |-> Followable(frames)])
      /\ messages' = IF ~whole THEN messages
                     ELSE [messages EXCEPT ![c] = Append(@, Says("assistant",
                             IF keeps THEN answer ELSE non_thinking_parts(answer)))]
      /\ UNCHANGED session

Hitch == hitches < MaxHitches /\ hitches' = hitches + 1

(* 401: the entry goes with the credential, the request is sent again.  So *)
(* it does when the request is adapted.                                    *)
SentAgain(c) ==
  /\ posted[c] # NotPosted /\ Hitch
  /\ cache' = remove(cache, posted[c].key)
  /\ UNCHANGED <<session, messages, posted, returned>>

(* 400 or 422 to a request thinking was put into.                          *)
Rejected(c) ==
  /\ posted[c].applied /\ Hitch
  /\ cache' = remove(cache, posted[c].key)
  /\ posted' = [posted EXCEPT ![c] = NotPosted]
  /\ UNCHANGED <<session, messages, returned>>

Expires(key) ==
  /\ held(cache, key) /\ Hitch
  /\ cache' = [cache EXCEPT ![key].stale = TRUE]
  /\ UNCHANGED <<session, messages, posted, returned>>

KimiNext ==
  \/ \E c \in Chats:
       \/ \E model \in Models: Post(c, model)
       \/ \E stream \in KimiStreams: \E seen \in 1..Len(stream), keeps \in BOOLEAN: StreamEnds(c, stream, seen, keeps)
       \/ SentAgain(c)
       \/ Rejected(c)
  \/ \E key \in DOMAIN cache: Expires(key)

-----------------------------------------------------------------------------
(* Thinking that is put back is that of the very answer, whole, and was    *)
(* said in this session by this family (restore_kimi_thinking_replay, the  *)
(* key of the cache).  No answer is changed otherwise.                     *)
ThinkingBelongs ==
  \A c \in Chats: \A i \in DOMAIN posted[c].messages:
    LET sent == posted[c].messages[i]
    IN  sent # messages[c][i] =>
          /\ non_thinking_parts(sent.content) = messages[c][i].content
          /\ \E n \in DOMAIN returned: returned[n].content = sent.content /\ returned[n].key = posted[c].key
          /\ \E k \in DOMAIN sent.content: IsThought(sent.content[k]) /\ sent.content[k].sig # 0

(* While nothing is lost and there is room for all, a request that goes on *)
(* after the last answer of its session and family has the thinking of     *)
(* it, if the gateway could follow the answer, whichever conversations     *)
(* spoke in between (commit, insert).                                      *)
LastThinkingReturns ==
  \A c \in Chats: \A n \in 1..posted[c].after:
    LET content == returned[n].content
    IN  /\ hitches = 0 /\ Cardinality({returned[m].key: m \in DOMAIN returned}) <= Capacity
        /\ returned[n].key = posted[c].key
        /\ \A m \in n + 1..posted[c].after: returned[m].key # returned[n].key
        /\ content_is_replayable(content) /\ hasCall(content) /\ returned[n].followed
        /\ \E i \in DOMAIN messages[c]: messages[c][i] = Says("assistant", non_thinking_parts(content))
        => Contains(posted[c].messages, Says("assistant", content))
=============================================================================
