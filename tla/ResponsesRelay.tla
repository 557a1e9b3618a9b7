---------------------------- MODULE ResponsesRelay ----------------------------
(***************************************************************************)
(* Responses to Messages.  Output items of four kinds come as an event     *)
(* that adds them, deltas, and an event that is done with them.  A tool    *)
(* call is shown while its arguments come; as long as one is being shown,  *)
(* other calls queue up and the events of other items are deferred.  The   *)
(* terminal event fills in what never came as a delta.                     *)
(*                                                                         *)
(* A signature is the item it came with; one with the prefix for redacted  *)
(* thinking is that item plus MaxItems.                                    *)
(***************************************************************************)
EXTENDS RelayedStream

Redacted(sig) == sig > MaxItems
Signatures(k) == {None, k, k + MaxItems}

NoCall == [name |-> None, args |-> <<>>, emitted |-> 0, index |-> -1,
           received |-> FALSE, custom |-> FALSE, started |-> FALSE,
           done |-> FALSE, closed |-> FALSE]

InitRelay ==
  [out |-> <<>>, finished |-> FALSE, started |-> FALSE, next |-> 0,
   textOpen |-> FALSE, textIndex |-> -1, hasText |-> FALSE,
   thinkingOpen |-> FALSE, thinkingIndex |-> -1, signature |-> None,
   summarySeen |-> FALSE, redacted |-> FALSE, commentary |-> FALSE,
   calls |-> [k \in Items |-> None], queue |-> <<>>, active |-> None,
   last |-> None, deferred |-> <<>>, toolUse |-> FALSE,
   sawDelta |-> FALSE, sawItem |-> FALSE]
-----------------------------------------------------------------------------
(***************************************************************************)
(* Text and thinking.                                                      *)
(***************************************************************************)
ensure_started(s) ==
  IF s.started THEN s ELSE [Emit(s, MessageStart) EXCEPT !.started = TRUE]

start_text(s) ==
  IF s.textOpen THEN s
  ELSE [Emit(s, BlockStart(s.next, "text", None)) EXCEPT
          !.textOpen = TRUE, !.textIndex = s.next, !.next = @ + 1]

stop_text(s) ==
  IF ~s.textOpen THEN s
  ELSE [Emit(s, BlockStop(s.textIndex)) EXCEPT !.textOpen = FALSE]

text_delta(s, parts) == Emit(s, BlockDelta(s.textIndex, parts))

\* start_thinking and start_redacted_thinking
OpenThinking(s, kind) ==
  IF s.thinkingOpen THEN s
  ELSE [Emit(s, BlockStart(s.next, kind, None)) EXCEPT
          !.thinkingOpen = TRUE, !.thinkingIndex = s.next, !.next = @ + 1]

start_thinking(s) == OpenThinking(s, "thinking")
StartReasoning(s) ==
  OpenThinking(s, IF s.redacted THEN "redacted" ELSE "thinking")

thinking_delta(s, parts) ==
  IF s.thinkingOpen THEN Emit(s, BlockDelta(s.thinkingIndex, parts)) ELSE s

\* Mutant: a commentary block is closed with the signature that is pending.
finalize_thinking_pending(s) ==
  IF ~s.thinkingOpen THEN s
  ELSE LET signed == IF s.signature = None THEN s
                     ELSE Emit(s, SignatureDelta(s.thinkingIndex, s.signature))
       IN [Emit(signed, BlockStop(s.thinkingIndex)) EXCEPT !.thinkingOpen = FALSE]

\* A commentary block is closed with a mark of its own, any other with the
\* signature that is pending, which stays pending.
finalize_thinking(s) ==
  LET sig    == IF s.commentary THEN Commentary ELSE s.signature
      signed == IF sig = None THEN s
                ELSE Emit(s, SignatureDelta(s.thinkingIndex, sig)) IN
  IF ~s.thinkingOpen THEN s
  ELSE [Emit(signed, BlockStop(s.thinkingIndex)) EXCEPT !.thinkingOpen = FALSE]

finalize_commentary_block(s) == IF s.commentary THEN finalize_thinking(s) ELSE s

EndCommentary(s) ==
  [finalize_commentary_block(stop_text(s)) EXCEPT !.commentary = FALSE]

finalize_signature_only_thinking(s) ==
  IF s.signature = None THEN s
  ELSE finalize_thinking(OpenThinking(s, IF Redacted(s.signature)
                                         THEN "redacted" ELSE "thinking"))

emit_recovered_text(s, parts) ==
  IF s.hasText THEN s
  ELSE [stop_text(text_delta(start_text(finalize_thinking(s)), parts))
          EXCEPT !.hasText = TRUE]
-----------------------------------------------------------------------------
(***************************************************************************)
(* Tool calls.                                                             *)
(***************************************************************************)
\* The place in the queue of the call an event is about.  An event that names
\* no call is about the one the last event was about.
record_function_call(s, key) ==
  LET known == IF key = None THEN s.last ELSE s.calls[key]
      i     == IF known = None THEN Len(s.queue) + 1 ELSE known
      q     == IF known = None THEN Append(s.queue, NoCall) ELSE s.queue IN
  [s EXCEPT !.queue = q, !.last = i,
            !.calls = [k \in Items |-> IF k = key THEN i ELSE @[k]]]

\* The part of the arguments not shown yet; the input of a custom tool is
\* shown in one piece when it is complete.
append_buffered_arguments(s) ==
  LET call == s.queue[s.active] IN
  IF s.active = None THEN s
  ELSE IF \/ ~call.started \/ call.closed
          \/ call.custom /\ ~call.done
          \/ call.emitted >= Len(call.args)
       THEN s
  ELSE [Emit(s, BlockDelta(call.index, SubSeq(call.args, call.emitted + 1,
                                              Len(call.args))))
          EXCEPT !.queue[s.active].emitted = Len(call.args)]

\* The active call is closed if it is done.
CloseActive(s) ==
  LET t == append_buffered_arguments(s) IN
  IF s.active = None \/ ~t.queue[t.active].done THEN t
  ELSE [Emit(t, BlockStop(t.queue[t.active].index)) EXCEPT
          !.queue[t.active].closed = TRUE, !.active = None]

\* The first call not closed is started, if it has a name.
StartNext(s) ==
  LET waiting == {i \in DOMAIN s.queue : ~s.queue[i].closed}
      i == Min(waiting) IN
  IF s.active # None \/ waiting = {} THEN s
  ELSE IF s.queue[i].name = None THEN s
  ELSE append_buffered_arguments(
         [Emit(s, BlockStart(s.next, "tool_use", s.queue[i].name)) EXCEPT
            !.queue[i].index = s.next, !.queue[i].started = TRUE,
            !.next = @ + 1, !.active = i, !.toolUse = TRUE])

\* Every round closes a call or is the last.
append_function_call_queue(s) ==
  FoldLeft(LAMBDA t, i : StartNext(CloseActive(t)), s,
           [i \in 1..(Len(s.queue) + 1) |-> i])

\* Arguments that come in one piece replace what came as deltas, unless they
\* do not continue it.
Whole(call, args) == IF ~call.received \/ IsPrefix(call.args, args)
                     THEN args ELSE call.args

append_function_calls_from_terminal(s, output) ==
  LET Fill(t, item) ==
        LET r == [record_function_call(t, item.key) EXCEPT !.last = t.last]
            i == r.calls[item.key] IN
        [r EXCEPT !.queue[i] = [@ EXCEPT !.name = item.key,
                                         !.custom = item.custom,
                                         !.args = Whole(r.queue[i], item.args)]]
      t == FoldLeft(Fill, s, output)
      Settled(call) == [call EXCEPT !.done = TRUE, !.closed = @ \/ call.name = None]
      settled == [t EXCEPT !.queue = [i \in DOMAIN @ |-> Settled(@[i])]] IN
  [append_function_call_queue(settled) EXCEPT
     !.calls = [k \in Items |-> None], !.queue = <<>>, !.active = None,
     !.last = None]
-----------------------------------------------------------------------------
(***************************************************************************)
(* Events, by type.                                                        *)
(***************************************************************************)
ItemAdded(s, ev) ==
  CASE ev.kind \in {"message", "commentary"} ->
         [stop_text(finalize_thinking(s)) EXCEPT
            !.hasText = FALSE, !.commentary = ev.kind = "commentary"]
    [] ev.kind = "reasoning" ->
         [finalize_thinking(EndCommentary(s)) EXCEPT
            !.summarySeen = FALSE, !.signature = ev.sig,
            !.redacted = Redacted(ev.sig)]
    [] ev.kind \in {"call", "custom"} ->
         LET t == record_function_call(
                    [stop_text(finalize_thinking(s)) EXCEPT !.commentary = FALSE],
                    ev.key) IN
         append_function_call_queue(
           [t EXCEPT !.queue[t.last].name = IF ev.name = None THEN @ ELSE ev.name,
                     !.queue[t.last].custom = ev.kind = "custom"])

PartAdded(s) == [StartReasoning(EndCommentary(s)) EXCEPT !.summarySeen = TRUE]

plaintext_reasoning_delta(s, ev) ==
  [thinking_delta(StartReasoning(EndCommentary(s)), ev.parts)
     EXCEPT !.summarySeen = TRUE]

TextPartAdded(s) == IF s.commentary THEN start_thinking(s)
                    ELSE start_text(finalize_thinking(s))

TextPartDone(s) == IF s.commentary THEN finalize_commentary_block(s)
                   ELSE stop_text(s)

TextDelta(s, ev) ==
  LET t == [s EXCEPT !.hasText = TRUE] IN
  IF s.commentary THEN thinking_delta(start_thinking(t), ev.parts)
  ELSE text_delta(start_text(finalize_thinking(t)), ev.parts)

\* Arguments as deltas, and then in one piece.
ArgumentsDelta(s, ev) ==
  LET t == record_function_call(s, ev.key) IN
  append_buffered_arguments(
    [t EXCEPT !.queue[t.last] =
       [@ EXCEPT !.args = t.queue[t.last].args \o ev.parts, !.received = TRUE]])

ArgumentsDone(s, ev) ==
  LET t == record_function_call(s, ev.key) IN
  append_buffered_arguments(
    [t EXCEPT !.queue[t.last].args = Whole(t.queue[t.last], ev.parts)])

\* A message whose text came as deltas needs nothing more.
MessageDone(s, ev) ==
  LET commentary == s.commentary \/ ev.kind = "commentary"
      thought == finalize_commentary_block(thinking_delta(start_thinking(
                   [stop_text(finalize_thinking(s)) EXCEPT !.commentary = TRUE]),
                   ev.parts))
      t == CASE s.hasText ->
                  IF commentary THEN finalize_commentary_block(s) ELSE s
             [] ~s.hasText /\ ev.parts = <<>> -> s
             [] ~s.hasText /\ ev.parts # <<>> ->
                  IF commentary THEN thought ELSE emit_recovered_text(s, ev.parts)
  IN [t EXCEPT !.commentary = FALSE, !.hasText = FALSE]

\* The last signature counts.  If it says redacted and the block that is open
\* does not, or the other way round, a block of the right kind is opened.
ReasoningDone(s, ev) ==
  LET t == EndCommentary(s)
      wrong == t.thinkingOpen /\ Redacted(ev.sig) # t.redacted
      reopened == IF ~wrong THEN t
                  ELSE OpenThinking([Emit(t, BlockStop(t.thinkingIndex))
                                       EXCEPT !.thinkingOpen = FALSE],
                                    IF Redacted(ev.sig) THEN "redacted"
                                    ELSE "thinking")
      signed == IF ev.sig = None THEN t
                ELSE [reopened EXCEPT !.signature = ev.sig,
                                      !.redacted = Redacted(ev.sig)]
      closed == IF signed.summarySeen THEN finalize_thinking(signed)
                ELSE finalize_signature_only_thinking(signed) IN
  [closed EXCEPT !.signature = None, !.summarySeen = FALSE, !.redacted = FALSE]

CallDone(s, ev) ==
  LET t == record_function_call(stop_text(finalize_thinking(s)), ev.key) IN
  append_function_call_queue(
    [t EXCEPT !.queue[t.last] =
       [@ EXCEPT !.name = ev.key, !.custom = ev.kind = "custom", !.done = TRUE,
                 !.args = Whole(t.queue[t.last], ev.parts)]])

\* A search is shown with its query, and its results after it.
SearchDone(s, ev) ==
  LET t    == finalize_thinking(stop_text(s))
      use  == Emit(t, BlockStart(t.next, "search", ev.key))
      said == IF ev.parts = <<>> THEN use
              ELSE Emit(use, BlockDelta(t.next, ev.parts))
      shown == Emit(said, BlockStop(t.next))
      result == Emit(Emit(shown, BlockStart(t.next + 1, "result", ev.key)),
                     BlockStop(t.next + 1)) IN
  IF ev.parts = <<>> THEN [shown EXCEPT !.next = @ + 1]
  ELSE [result EXCEPT !.next = @ + 2]

ItemDone(s, ev) ==
  LET t == [s EXCEPT !.sawItem = TRUE] IN
  CASE ev.kind \in {"message", "commentary"} -> MessageDone(t, ev)
    [] ev.kind = "reasoning" -> ReasoningDone(t, ev)
    [] ev.kind \in {"call", "custom"} -> CallDone(t, ev)
    [] ev.kind = "search" -> SearchDone(t, ev)

\* A loop the upstream is sure of ends the stream.
process_doom_loop_check(s) == [Emit(s, StreamError) EXCEPT !.finished = TRUE]

is_meaningful_output_delta(ev) ==
  \/ ev.type \in {"text.delta", "reasoning.delta"}
  \/ ev.type = "arguments.delta" /\ ev.kind = "call"

\* Mutant: nothing is deferred.
never_deferred(ev) == FALSE

should_defer_stream_event(ev) ==
  /\ ev.type \notin {"arguments.delta", "arguments.done"}
  /\ ev.type \in {"item.added", "item.done"} => ev.kind \notin {"call", "custom"}

Handle(s, ev) ==
  CASE ev.type = "created" -> ensure_started(s)
    [] ev.type = "item.added" -> ItemAdded(s, ev)
    [] ev.type = "item.done" -> ItemDone(s, ev)
    [] ev.type = "part.added" -> PartAdded(s)
    [] ev.type = "reasoning.delta" -> plaintext_reasoning_delta(s, ev)
    [] ev.type = "text.added" -> TextPartAdded(s)
    [] ev.type = "text.delta" -> TextDelta(s, ev)
    [] ev.type = "text.done" -> TextPartDone(s)
    [] ev.type = "arguments.delta" -> ArgumentsDelta(s, ev)
    [] ev.type = "arguments.done" -> ArgumentsDone(s, ev)
    [] ev.type = "doom" -> process_doom_loop_check(s)

process(s, ev) ==
  LET t == [s EXCEPT !.sawDelta = @ \/ is_meaningful_output_delta(ev)] IN
  IF s.finished THEN s
  ELSE IF s.active # None /\ should_defer_stream_event(ev)
  THEN [t EXCEPT !.deferred = Append(@, ev)]
  ELSE Handle(t, ev)

\* Deferred events are taken up again when the queue of calls is empty.  A call
\* stays in the queue when it is closed: only the terminal event empties it.
append_deferred_events(s) ==
  FoldLeft(process, [s EXCEPT !.deferred = <<>>], s.deferred)
-----------------------------------------------------------------------------
(***************************************************************************)
(* The terminal event.                                                     *)
(***************************************************************************)
recover_terminal_text(s, parts) ==
  IF s.hasText \/ parts = <<>> THEN s
  ELSE emit_recovered_text(ensure_started(s), parts)

synthesize_empty_text_block(s) ==
  IF s.textOpen \/ s.hasText \/ s.toolUse \/ s.thinkingOpen THEN s
  ELSE stop_text(start_text(s))

\* The reason is the Messages name of the upstream's.
map_stop_reason(reason, toolUse) == IF toolUse THEN "tool_use" ELSE reason

finalize(s, reason) ==
  LET t == synthesize_empty_text_block(stop_text(finalize_thinking(
             ensure_started(s)))) IN
  IF s.finished THEN s
  ELSE [Emit(Emit(t, MessageDelta(map_stop_reason(reason, t.toolUse))),
             MessageStop) EXCEPT !.finished = TRUE]

stream_error(s) == [Emit(s, StreamError) EXCEPT !.finished = TRUE]

is_terminal_empty_incomplete(s, ev) ==
  /\ ev.incomplete /\ ev.zero
  /\ ~s.sawDelta /\ ~s.sawItem
  /\ ev.text = <<>> /\ ev.calls = <<>>

\* Mutant: deferred events are forgotten.
TerminalWithoutDeferred(s, ev) ==
  LET shown == recover_terminal_text(stop_text(finalize_thinking(s)), ev.text)
      all == append_function_calls_from_terminal(shown, ev.calls) IN
  IF is_terminal_empty_incomplete(s, ev) THEN stream_error(s)
  ELSE finalize(finalize_thinking(all), ev.reason)

\* response.completed and response.incomplete
Terminal(s, ev) ==
  LET shown == recover_terminal_text(stop_text(finalize_thinking(s)), ev.text)
      all == append_deferred_events(append_function_calls_from_terminal(
               shown, ev.calls)) IN
  IF is_terminal_empty_incomplete(s, ev) THEN stream_error(s)
  ELSE finalize(finalize_thinking(all), ev.reason)
-----------------------------------------------------------------------------
(***************************************************************************)
(* The upstream.  Items follow one another; an item need not be done.  If  *)
(* its habit is "interleaves", a tool call may be open together with other *)
(* items.  If it "repeats", the terminal event has the text that came as   *)
(* deltas once more.  If it "interrupts", a loop may be reported while a    *)
(* tool call is being shown.                                               *)
(***************************************************************************)
InitUpstream(habits) ==
  [count |-> 0, said |-> <<>>, thought |-> [k \in Items |-> <<>>],
   args |-> [k \in Items |-> <<>>], named |-> {}, items |-> <<>>,
   habits |-> habits, looped |-> FALSE, ended |-> FALSE]

CallKinds == {"call", "custom"}
ItemKinds == CallKinds \cup {"reasoning", "message", "commentary"}

IsCall(k) == upstream.items[k].kind \in CallKinds
ItemsSent == DOMAIN upstream.items

\* Items an event may be about.
Current == {k \in ItemsSent :
              /\ upstream.items[k].open
              /\ \/ k = Len(upstream.items)
                 \/ /\ "interleaves" \in upstream.habits
                    /\ IsCall(k) \/ \A j \in ItemsSent : j > k => IsCall(j)}

Event(type, k, parts) ==
  [type |-> type, kind |-> IF k = None THEN "none" ELSE upstream.items[k].kind,
   key |-> k, parts |-> parts, sig |-> None, name |-> None]

Sends == Reads /\ ~upstream.ended

Next1 == upstream.count + 1
Fresh == IF Next1 <= MaxPieces THEN {<<>>, <<Next1>>} ELSE {<<>>}

\* The upstream after a fresh piece of item k.
Sent(k, parts) ==
  LET item == upstream.items[k]
      more == [item EXCEPT !.text = @ \o parts,
                           !.part = IF parts # <<>> /\ @ = "none" THEN "open" ELSE @] IN
  [upstream EXCEPT
     !.count = @ + Len(parts),
     !.items[k] = more,
     !.said = IF item.kind = "message" THEN @ \o parts ELSE @,
     !.thought[k] = IF item.kind \in {"reasoning", "commentary"}
                    THEN @ \o parts ELSE @,
     !.args[k] = IF item.kind \in CallKinds THEN @ \o parts ELSE @]

Init(habits) ==
  /\ client = [phase |-> "waiting", blocks |-> <<>>, reason |-> "none"]
  /\ relay = InitRelay
  /\ upstream = InitUpstream(habits)

Created ==
  /\ Sends
  /\ ~relay.started
  /\ relay' = process(relay, Event("created", None, <<>>))
  /\ UNCHANGED <<client, upstream>>

AddItem ==
  LET k == Len(upstream.items) + 1 IN
  \E kind \in ItemKinds, sig \in Signatures(k), name \in {None, k} :
    /\ Sends
    /\ relay.started
    /\ k \in Items
    /\ kind # "reasoning" => sig = None
    /\ kind \notin CallKinds => name = None
    /\ relay' = process(relay, [type |-> "item.added", kind |-> kind, key |-> k,
                                parts |-> <<>>, sig |-> sig, name |-> name])
    /\ upstream' = [upstream EXCEPT
         !.items = Append(@, [kind |-> kind, open |-> TRUE, text |-> <<>>,
                              part |-> "none"]),
         !.named = @ \cup ({name} \ {None})]
    /\ UNCHANGED client

\* The part of item k is opened, before any delta, or closed, after them.
Part(k, type, kinds, from, to) ==
  /\ Sends
  /\ upstream.items[k].kind \in kinds
  /\ upstream.items[k].part = from
  /\ relay' = process(relay, Event(type, k, <<>>))
  /\ upstream' = [upstream EXCEPT !.items[k].part = to]
  /\ UNCHANGED client

SummaryPart(k) == Part(k, "part.added", {"reasoning"}, "none", "open")
TextPart(k) ==
  \/ Part(k, "text.added", {"message", "commentary"}, "none", "open")
  \/ Part(k, "text.done", {"message", "commentary"}, "open", "closed")

Delta(k) ==
  LET type == CASE upstream.items[k].kind = "reasoning" -> "reasoning.delta"
                [] IsCall(k) -> "arguments.delta"
                [] OTHER -> "text.delta" IN
  \E parts \in Fresh, keyed \in BOOLEAN :
    /\ Sends
    /\ parts # <<>>
    /\ upstream.items[k].part # "closed"
    /\ ~keyed => IsCall(k) /\ "interleaves" \notin upstream.habits
    /\ relay' = process(relay, [Event(type, k, parts) EXCEPT
                                  !.key = IF keyed THEN k ELSE None])
    /\ upstream' = Sent(k, parts)
    /\ UNCHANGED client

\* The arguments as a whole, with what had not come as a delta.
AllArguments(k) ==
  \E parts \in Fresh :
    /\ Sends
    /\ IsCall(k)
    /\ relay' = process(relay, Event("arguments.done", k,
                                     upstream.args[k] \o parts))
    /\ upstream' = Sent(k, parts)
    /\ UNCHANGED client

\* A message that is done has its whole text, a reasoning item its signature.
\* Only what came without any delta is fresh in a message.
FinishItem(k) ==
  LET item == upstream.items[k] IN
  \E parts \in Fresh, sig \in Signatures(k) :
    /\ Sends
    /\ item.kind # "reasoning" => sig = None
    /\ item.kind = "reasoning" => parts = <<>>
    /\ item.kind \in {"message", "commentary"} /\ item.text # <<>> => parts = <<>>
    /\ relay' = process(relay, [Event("item.done", k, item.text \o parts)
                                  EXCEPT !.sig = sig])
    /\ upstream' = [Sent(k, parts) EXCEPT
         !.items[k].open = FALSE,
         !.named = IF IsCall(k) THEN @ \cup {k} ELSE @]
    /\ UNCHANGED client

\* A web search comes as one event.
Search ==
  LET k == Len(upstream.items) + 1 IN
  \E parts \in Fresh :
    /\ Sends
    /\ relay.started
    /\ k \in Items
    /\ relay' = process(relay, [type |-> "item.done", kind |-> "search",
                                key |-> k, parts |-> parts, sig |-> None,
                                name |-> None])
    /\ upstream' = [upstream EXCEPT
         !.count = @ + Len(parts),
         !.items = Append(@, [kind |-> "search", open |-> FALSE,
                              text |-> parts, part |-> "closed"])]
    /\ UNCHANGED client

\* A loop is reported once: the report is recognised when it comes again.
DoomLoop ==
  /\ Sends
  /\ ~upstream.looped
  /\ relay.active # None => "interrupts" \in upstream.habits
  /\ relay' = process(relay, Event("doom", None, <<>>))
  /\ upstream' = [upstream EXCEPT !.looped = TRUE]
  /\ UNCHANGED client

\* The terminal event, with the items in its output or without.  A text or a
\* call may be in the output only.  A text is in the output when all calls are
\* done, and in the output only when all items are.
OutputCalls ==
  LET Listed(calls, k) ==
        IF ~IsCall(k) THEN calls
        ELSE Append(calls, [key |-> k, custom |-> upstream.items[k].kind = "custom",
                            args |-> upstream.args[k]]) IN
  FoldLeft(Listed, <<>>, [k \in ItemsSent |-> k])

Finish ==
  LET k == Len(upstream.items) + 1 IN
  \E incomplete, zero, output \in BOOLEAN, text \in Fresh,
     call \in {<<>>, <<[key |-> k, custom |-> FALSE, args |-> <<>>]>>},
     reason \in {"end_turn", "max_tokens", "refusal"} :
    /\ Sends
    /\ incomplete <=> reason # "end_turn"
    /\ zero => incomplete /\ upstream.count = 0
    /\ ~output => text = <<>> /\ call = <<>>
    /\ text # <<>> => /\ upstream.said = <<>>
                       /\ \A j \in ItemsSent : ~upstream.items[j].open
    /\ call # <<>> => k \in Items /\ relay.started
    /\ output /\ upstream.said \o text # <<>> =>
         /\ "repeats" \in upstream.habits \/ upstream.said = <<>>
         /\ \A j \in ItemsSent : IsCall(j) => ~upstream.items[j].open
    /\ relay' = Terminal(relay,
         [incomplete |-> incomplete, zero |-> zero, reason |-> reason,
          text |-> IF output THEN upstream.said \o text ELSE <<>>,
          calls |-> IF output THEN OutputCalls \o call ELSE <<>>])
    /\ upstream' = [upstream EXCEPT
         !.count = @ + Len(text), !.said = @ \o text, !.ended = TRUE,
         !.named = @ \cup {call[n].key : n \in DOMAIN call}
                     \cup IF output THEN {j \in ItemsSent : IsCall(j)} ELSE {}]
    /\ UNCHANGED client

\* An error event, the end of the stream before the terminal event, a read
\* error, or silence for longer than the idle timeout.
Break ==
  /\ Reads
  /\ relay' = stream_error(relay)
  /\ UNCHANGED <<client, upstream>>

Receive == \/ Created
           \/ AddItem
           \/ \E k \in Current : \/ SummaryPart(k)
                                 \/ TextPart(k)
                                 \/ Delta(k)
                                 \/ AllArguments(k)
                                 \/ FinishItem(k)
           \/ Search
           \/ DoomLoop
           \/ Finish
           \/ Break
=============================================================================
