---------------------------- MODULE ReasoningReplay ----------------------------
(***************************************************************************)
(* The reasoning of a Responses upstream across the requests of a session  *)
(* (crates/ccextra-core/src/convert/reasoning_replay.rs,                   *)
(* ccextra-server/src/sse/replay_cache.rs).  The upstream keeps nothing    *)
(* between two requests and the client may lose reasoning on the way, so   *)
(* each completed answer becomes a turn of a ledger, and a request gets    *)
(* back what its input lacks, before the item the answer began with.       *)
(*                                                                         *)
(* The conversations of a session share the ledger.  An item is            *)
(* [type, id, enc, text]; what answer n issued bears its number, and the   *)
(* words of user and assistant are pairs as well.  Hashes are the values   *)
(* themselves.  Custom calls are calls, and no answer says a thing twice.  *)
(***************************************************************************)
EXTENDS Naturals, Sequences, FiniteSets, SequencesExt

CONSTANTS Conversations, \* histories that share the session
          Streams,       \* what the upstream may stream as an answer, frame by frame
          Topics,        \* what the user may say
          MaxReplies,    \* bound: answers of the upstream
          MaxMishaps,    \* bound: broken streams, refusals, rewinds and losses of the ledger
          MaxKept        \* turns the ledger holds (MAX_REPLAY_TURNS)

ASSUME ReasoningAssumption == {MaxReplies, MaxMishaps, MaxKept} \subseteq Nat /\ MaxKept > 0

VARIABLES plain,     \* the upstream is Grok, which takes reasoning that is not encrypted
          dialogue,  \* each conversation as the client would send it
          inflight,  \* the request each conversation awaits an answer of, if any
          turns,     \* the ledger of the session
          replies,   \* what was answered to what
          refused,   \* reasoning the upstream no longer takes
          mishaps    \* how many there were

reasoningVars == <<plain, dialogue, inflight, turns, replies, refused, mishaps>>

Nothing == <<0, 0>>
NoCall  == <<0, 0, "plain">>
NoRequest == [input |-> <<>>, sent |-> <<>>, fingerprint |-> <<>>, after |-> 0]

Item(type, id, enc, text) == [type |-> type, id |-> id, enc |-> enc, text |-> text]
Said(topic)  == Item("user", NoCall, Nothing, topic)
Output(call) == Item("output", call.id, Nothing, Nothing)
Typed(items, type) == SelectSeq(items, LAMBDA x: x.type = type)
Encs(items)   == {items[i].enc: i \in DOMAIN items} \ {Nothing}
Number(item)  == IF item.enc # Nothing THEN item.enc[1] ELSE item.text[1]

-----------------------------------------------------------------------------
(* The client sees an id without the characters it does not take.          *)
visible(id) == IF id[3] = "raw" THEN <<id[1], id[2], "seen">> ELSE id
comparable_call_ids(id) == IF id = NoCall THEN {} ELSE {id, visible(id)}
Ids(items, type) == UNION {comparable_call_ids(items[i].id): i \in {j \in DOMAIN items: items[j].type = type}}

(* What a stream said: the items it finished, the deltas of its reasoning  *)
(* and, once complete, the output.                                         *)
collect(st, frame) ==
  CASE frame.type = "delta" -> [st EXCEPT !.heard = TRUE]
    [] frame.type = "done"  -> IF frame.index = 0 THEN [st EXCEPT !.loose = Append(@, frame.item)]
                               ELSE [st EXCEPT !.at[frame.index] = <<frame.item>>]
    [] frame.type = "completed" -> [st EXCEPT !.output = frame.output]

patch_completed_output(st) == IF st.output # <<>> THEN st.output ELSE FlattenSeq(st.at) \o st.loose

(* Reasoning that was only streamed is put into the output.                *)
merge_streamed_reasoning_summaries(output, heard, streamed) ==
  LET thoughts == {i \in DOMAIN output: output[i].type = "reasoning"}
      spoken   == {i \in DOMAIN output: output[i].type \in {"message", "call"}}
      first(s) == CHOOSE i \in s: \A j \in s: i <= j
      at       == IF spoken = {} THEN Len(output) + 1 ELSE first(spoken)
  IN  CASE ~heard \/ \E i \in thoughts: output[i].text # Nothing -> output
        [] heard /\ thoughts = {} ->
             InsertAt(output, at, Item("reasoning", NoCall, Nothing, streamed))
        [] OTHER -> [output EXCEPT ![first(thoughts)].text = streamed]

extracted(stream, n) ==
  LET st == FoldLeft(collect, [heard |-> FALSE, at |-> <<<<>>, <<>>, <<>>>>, loose |-> <<>>, output |-> <<>>], stream)
      own(x) == [x EXCEPT !.id  = IF @ = NoCall THEN @ ELSE <<n, @[2], @[3]>>,
                          !.enc = IF @ = Nothing THEN @ ELSE <<n, @[2]>>,
                          !.text = IF x.type # "reasoning" \/ @ = Nothing THEN @ ELSE <<n, @[2]>>]
      output == patch_completed_output(st)
  IN  merge_streamed_reasoning_summaries([i \in DOMAIN output |-> own(output[i])], st.heard, <<n, 9>>)

assistant_message_fingerprint(item) == IF item.type = "message" THEN item.text ELSE Nothing

(* A turn knows the input it answered, its calls and its last message.     *)
build_replay_turn(output, fingerprint) ==
  LET said == Typed(output, "message")
  IN  [request |-> fingerprint,
       assistant |-> IF said = <<>> THEN Nothing ELSE assistant_message_fingerprint(Last(said)),
       calls |-> Ids(output, "call"),
       items |-> SelectSeq(output, LAMBDA x: x.type \in {"reasoning", "call"})]

(* Fault: the ledger holds the last answer only.                           *)
append_replay_turnAlone(existing, turn) == <<turn>>

(* The oldest turns go when there are too many; the same turn is one turn. *)
append_replay_turn(existing, turn) ==
  LET all == IF Contains(existing, turn) THEN existing ELSE Append(existing, turn)
  IN  IF Len(all) > MaxKept THEN SubSeq(all, Len(all) - MaxKept + 1, Len(all)) ELSE all

store_from_completed(ledger, output, fingerprint) ==
  LET turn == build_replay_turn(output, fingerprint)
  IN  IF turn.items = <<>> THEN ledger ELSE append_replay_turn(ledger, turn)

-----------------------------------------------------------------------------
(* An answer is looked for where the input before it is what it answered.  *)
matches_prefix(input, turn, i) == SubSeq(input, 1, i - 1) = turn.request

LastOf(s) == IF s = {} THEN 0 ELSE CHOOSE i \in s: \A j \in s: j <= i

(* Without a word to find it by, reasoning goes before the last message.   *)
replay_insert_index(input) ==
  LET said == LastOf({i \in DOMAIN input: input[i].type = "message"})
  IN  IF said = 0 THEN 1 ELSE said

(* Where the answer of the turn begins in the input; 0 if it is not there. *)
turn_anchor_index(input, turn, used) ==
  LET free   == {i \in DOMAIN input \ used: matches_prefix(input, turn, i)}
      called == {i \in free: /\ input[i].type \in {"call", "output"}
                             /\ comparable_call_ids(input[i].id) \cap turn.calls # {}}
      spoken == {i \in free: /\ turn.assistant # Nothing
                             /\ assistant_message_fingerprint(input[i]) = turn.assistant}
  IN  CASE called # {} -> LastOf(called)
        [] called = {} /\ spoken # {} -> LastOf(spoken)
        [] OTHER -> IF turn.calls = {} /\ turn.assistant = Nothing THEN replay_insert_index(input) ELSE 0

(* Fault: reasoning the client kept is put back beside it.                 *)
filter_turn_itemsTwice(input, items, keepPlain) == Typed(items, "reasoning")

(* What the input has is not repeated, and a call needs its output.        *)
filter_turn_items(input, items, keepPlain) ==
  LET wanted(x) ==
        CASE x.type = "reasoning" -> IF x.enc = Nothing THEN keepPlain /\ x.text # Nothing
                                     ELSE x.enc \notin Encs(input)
          [] x.type = "call" -> /\ comparable_call_ids(x.id) \cap Ids(input, "call") = {}
                                /\ comparable_call_ids(x.id) \cap Ids(input, "output") # {}
          [] OTHER -> FALSE
  IN  SelectSeq(items, wanted)

(* A call that is put back takes the id its output has in the input.       *)
align_replay_call_ids(input, items) ==
  LET answering(x) == {input[i].id: i \in {j \in DOMAIN input:
                         /\ input[j].type = "output"
                         /\ comparable_call_ids(input[j].id) \cap comparable_call_ids(x.id) # {}}}
  IN  [i \in DOMAIN items |-> IF items[i].type # "call" \/ answering(items[i]) = {} THEN items[i]
                              ELSE [items[i] EXCEPT !.id = CHOOSE id \in answering(items[i]): TRUE]]

(* From the newest turn to the oldest, so that at one anchor the older     *)
(* comes first.                                                            *)
insert_replay_turns(input, ledger, keepPlain) ==
  LET insert(st, turn) ==
        LET at    == turn_anchor_index(input, turn, st.used)
            items == align_replay_call_ids(input, filter_turn_items(input, turn.items, keepPlain))
        IN  IF at = 0 THEN st
            ELSE [used |-> st.used \cup {at}, before |-> [st.before EXCEPT ![at] = items \o @]]
      done == FoldLeft(insert, [used |-> {}, before |-> [i \in DOMAIN input |-> <<>>]], Reverse(ledger))
  IN  FlattenSeq([i \in DOMAIN input |-> Append(done.before[i], input[i])])

(* Refused reasoning is sent without its seal, and not at all without text. *)
trim_encrypted_reasoning_items(sent) ==
  LET bare == [i \in DOMAIN sent |-> [sent[i] EXCEPT !.enc = Nothing]]
  IN  SelectSeq(bare, LAMBDA x: x.type = "reasoning" => x.text # Nothing)

-----------------------------------------------------------------------------
(* What the client sends of an answer: the sealed reasoning it kept, the   *)
(* texts, the calls under the ids it sees, and their results.              *)
handedBack(output, kept) ==
  LET mine == SelectSeq(output, LAMBDA x: x.type = "reasoning" => x.enc # Nothing /\ x.enc \in kept)
      seen == [i \in DOMAIN mine |-> [mine[i] EXCEPT !.id = visible(@),
                                                     !.text = IF mine[i].type = "reasoning" THEN Nothing ELSE @]]
      calls == Typed(seen, "call")
  IN  seen \o [i \in DOMAIN calls |-> Output(calls[i])]

ReasoningInit ==
  /\ plain \in BOOLEAN
  /\ dialogue = [c \in Conversations |-> <<>>]
  /\ inflight = [c \in Conversations |-> NoRequest]
  /\ turns = <<>> /\ replies = <<>> /\ refused = {} /\ mishaps = 0

(* A request of the conversation, with a word of the user if it is his     *)
(* turn.  The fingerprint is taken of what is sent, once and for all.      *)
Request(c, topic) ==
  LET own   == dialogue[c]
      body(input) == insert_replay_turns(input, turns, plain)
      input == IF own # <<>> /\ Last(own).type \in {"user", "output"} THEN own ELSE Append(own, Said(topic))
  IN  /\ inflight[c] = NoRequest
      /\ Len(replies) + Cardinality({d \in Conversations: inflight[d] # NoRequest}) <= MaxReplies
      /\ dialogue' = [dialogue EXCEPT ![c] = input]
      /\ inflight' = [inflight EXCEPT ![c] = [input |-> input, sent |-> body(input), fingerprint |-> body(input),
                                             after |-> Len(replies)]]
      /\ UNCHANGED <<plain, turns, replies, refused, mishaps>>

(* The answer is complete: the ledger takes it and the client goes on.     *)
Completed(c, stream, kept) ==
  LET n      == Len(replies) + 1
      output == extracted(stream, n)
      asked  == inflight[c]
  IN  /\ asked # NoRequest /\ n <= MaxReplies
      /\ kept \subseteq Encs(output)
      /\ turns' = store_from_completed(turns, output, asked.fingerprint)
      /\ replies' = Append(replies, [input |-> asked.input, fresh |-> asked.fingerprint = asked.input,
                                     output |-> output, kept |-> kept])
      /\ dialogue' = [dialogue EXCEPT ![c] = @ \o handedBack(output, kept)]
      /\ inflight' = [inflight EXCEPT ![c] = NoRequest]
      /\ UNCHANGED <<plain, refused, mishaps>>

Mishap == mishaps < MaxMishaps /\ mishaps' = mishaps + 1

(* The stream ends before the answer does: nothing is written down.        *)
StreamBroken(c) ==
  /\ inflight[c] # NoRequest /\ Mishap
  /\ inflight' = [inflight EXCEPT ![c] = NoRequest]
  /\ UNCHANGED <<plain, dialogue, turns, replies, refused>>

invalidated(ledger) == <<>>

(* The upstream cannot read the reasoning of the request: once more        *)
(* without, the answer to be filed under the fingerprint the request had.  *)
Refused(c) ==
  /\ Encs(inflight[c].sent) # {} /\ Mishap
  /\ refused' = refused \cup Encs(inflight[c].sent)
  /\ turns' = invalidated(turns)
  /\ UNCHANGED <<plain, dialogue, replies>>
  /\ inflight' = [inflight EXCEPT ![c].sent = trim_encrypted_reasoning_items(@)]

(* The entry expired, was evicted, or went with a renewed credential or an *)
(* adapted request.                                                        *)
LedgerLost ==
  /\ turns # <<>> /\ Mishap
  /\ turns' = <<>>
  /\ UNCHANGED <<plain, dialogue, inflight, replies, refused>>

(* The client takes back what was said from some word of the user on.      *)
TakenBack(c, k) ==
  /\ inflight[c] = NoRequest /\ Mishap
  /\ k \in DOMAIN dialogue[c] /\ dialogue[c][k].type = "user"
  /\ dialogue' = [dialogue EXCEPT ![c] = SubSeq(@, 1, k - 1)]
  /\ UNCHANGED <<plain, inflight, turns, replies, refused>>

ReasoningNext ==
  \/ \E c \in Conversations:
       \/ \E topic \in Topics: Request(c, topic)
       \/ \E stream \in Streams, kept \in SUBSET {<<Len(replies) + 1, k>>: k \in 1..3}: Completed(c, stream, kept)
       \/ StreamBroken(c)
       \/ Refused(c)
       \/ \E k \in 1..Len(dialogue[c]): TakenBack(c, k)
  \/ LedgerLost

-----------------------------------------------------------------------------
Speaks(output) == \E i \in DOMAIN output: output[i].type \in {"message", "call"}

(* What stands in the request that the client did not send.                *)
PutBack(r) == {p \in DOMAIN r.sent: r.sent[p].type = "reasoning" /\ ~Contains(r.input, r.sent[p])}
Spoken(items)   == SelectSeq(items, LAMBDA x: x.type # "reasoning")
NextOwn(r, p)   == LET own == {q \in DOMAIN r.sent \ PutBack(r): q > p}
                   IN  r.sent[CHOOSE q \in own: \A o \in own: q <= o]

(* Reasoning that is put back stands where it was thought: before it the   *)
(* conversation the upstream answered, after it words of that answer, in   *)
(* whichever conversation of the session, and after any rewinding          *)
(* (turn_anchor_index).  Silent answers are put where they can be.         *)
ReasoningInPlace ==
  \A c \in Conversations: \A p \in PutBack(inflight[c]):
    LET n == Number(inflight[c].sent[p])
    IN  Speaks(replies[n].output) =>
          /\ Spoken(SubSeq(inflight[c].sent, 1, p - 1)) = Spoken(replies[n].input)
          /\ LET next == NextOwn(inflight[c], p)
             IN  \E i \in DOMAIN replies[n].output:
                   [replies[n].output[i] EXCEPT !.id = visible(@)] = next

(* No reasoning and no call is sent twice, whatever the client kept, and   *)
(* none that the upstream refused is left to be sent again                 *)
(* (filter_turn_items, the retry without encrypted reasoning).             *)
NothingTwice ==
  /\ \A c \in Conversations:
       LET sent == inflight[c].sent
       IN  \A p, q \in DOMAIN sent:
             (p # q /\ sent[p].type = sent[q].type) =>
               /\ sent[p].type = "reasoning" => <<sent[p].enc, sent[p].text>> # <<sent[q].enc, sent[q].text>>
               /\ sent[p].type = "call" => comparable_call_ids(sent[p].id) \cap comparable_call_ids(sent[q].id) = {}
  /\ \A i \in DOMAIN turns: Encs(turns[i].items) \cap refused = {}

(* The request continues answer n, of which the client kept no reasoning.  *)
Continues(r, n) ==
  LET answer == replies[n].input \o handedBack(replies[n].output, {})
  IN  /\ Speaks(replies[n].output) /\ Len(Typed(replies[n].output, "message")) <= 1
      /\ IsPrefix(answer, r.input)
      /\ \A m \in n + 1..r.after: replies[m].input # replies[n].input
Returns(r, n) == Encs(replies[n].output) \subseteq Encs(r.sent)

(* While the ledger holds, an answer to a request that nothing was put     *)
(* back into has its reasoning in every request that continues it, if no   *)
(* silent answer takes its place.                                          *)
FreshReasoningReturns ==
  \A c \in Conversations: \A n \in 1..inflight[c].after:
    /\ mishaps = 0 /\ n + MaxKept > inflight[c].after
    /\ replies[n].fresh /\ Continues(inflight[c], n)
    /\ \A m \in 1..inflight[c].after: Speaks(replies[m].output)
    => Returns(inflight[c], n)

(* reasoning_replay.rs:12 says so of every answer: each round becomes a    *)
(* turn, and the next request has it back at its anchor.                   *)
ReasoningReturns ==
  \A c \in Conversations: \A n \in 1..inflight[c].after:
    /\ mishaps = 0 /\ n + MaxKept > inflight[c].after
    /\ Continues(inflight[c], n)
    => Returns(inflight[c], n)
=============================================================================
