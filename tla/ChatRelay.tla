------------------------------ MODULE ChatRelay ------------------------------
(***************************************************************************)
(* Chat completions to Messages.  Text and thinking are shown as they      *)
(* come, in the one block that is active.  Tool calls are gathered under   *)
(* the upstream's index, or under one made up when it gives none, and are  *)
(* shown whole at the end; the text and thinking that come after the first *)
(* of them wait behind them.                                               *)
(***************************************************************************)
EXTENDS RelayedStream

NoBlock == [kind |-> "none", index |-> -1]

NoCall == [id |-> None, name |-> None, args |-> <<>>, index |-> -1,
           started |-> FALSE, emitted |-> FALSE, closed |-> FALSE]

InitRelay ==
  [out |-> <<>>, finished |-> FALSE, started |-> FALSE, finish |-> "",
   active |-> NoBlock, next |-> 0, calls |-> <<>>, omitted |-> 1,
   saw |-> FALSE, open |-> None, interleaved |-> <<>>, thinking |-> <<>>,
   hasText |-> FALSE]
-----------------------------------------------------------------------------
(***************************************************************************)
(* Blocks of text and thinking.                                            *)
(***************************************************************************)
ensure_started(s) ==
  IF s.started THEN s ELSE [Emit(s, MessageStart) EXCEPT !.started = TRUE]

close_active_block(s) ==
  IF s.active = NoBlock THEN s
  ELSE [Emit(s, BlockStop(s.active.index)) EXCEPT !.active = NoBlock]

ensure_block(s, kind) ==
  LET c == close_active_block(s) IN
  IF s.active.kind = kind THEN s
  ELSE [Emit(c, BlockStart(c.next, kind, None)) EXCEPT
          !.active = [kind |-> kind, index |-> c.next], !.next = @ + 1]

\* A call's frames: the start, its arguments in one piece, the stop.
close_tool_call(s, i) ==
  LET call  == s.calls[i]
      start == Emit(s, BlockStart(call.index, "tool_use", call.name))
      shown == IF call.args = <<>> THEN start
               ELSE Emit(start, BlockDelta(call.index, call.args)) IN
  [Emit(shown, BlockStop(call.index)) EXCEPT
     !.calls[i] = [@ EXCEPT !.emitted = TRUE, !.closed = TRUE]]

\* The numbers in ascending order that may be the index of a call.
Indexes(s) == [i \in 1..Max(DOMAIN s.calls \cup {0}) |-> i]

close_pending_tool_calls(s) ==
  FoldLeft(LAMBDA t, i :
             IF \/ i \notin DOMAIN t.calls
                \/ t.calls[i].closed
                \/ ~t.calls[i].started
             THEN t
             ELSE [close_tool_call(t, i) EXCEPT
                     !.open = IF @ = i THEN None ELSE @],
           s, Indexes(s))

buffer_interleaved(s, kind, parts) ==
  LET n == Len(s.interleaved) IN
  IF n > 0 /\ s.interleaved[n].kind = kind
  THEN [s EXCEPT !.interleaved[n].parts = @ \o parts]
  ELSE [s EXCEPT !.interleaved = Append(@, [kind |-> kind, parts |-> parts])]

emit_content_delta(s, kind, parts) ==
  LET b == ensure_block(close_pending_tool_calls(s), kind) IN
  IF s.open # None THEN buffer_interleaved(s, kind, parts)
  ELSE Emit(b, BlockDelta(b.active.index, parts))

\* A piece of thinking that is white space.
Blank == None

trim(text) ==
  LET solid == {i \in DOMAIN text : text[i] # Blank} IN
  IF solid = {} THEN <<>> ELSE SubSeq(text, Min(solid), Max(solid))

\* A reasoning text is dropped when it is blank, or but for the white space
\* around it repeats one that was shown, or all of them in one piece.
thinking_distinct(s, text) ==
  /\ trim(text) # <<>>
  /\ \A i \in DOMAIN s.thinking : trim(text) # trim(s.thinking[i])
  /\ trim(text) # trim(FlattenSeq(s.thinking))

Think(s, text) ==
  IF ~thinking_distinct(s, text) THEN s
  ELSE emit_content_delta([s EXCEPT !.thinking = Append(@, text)],
                          "thinking", text)

Say(s, text) == emit_content_delta([s EXCEPT !.hasText = TRUE], "text", text)
-----------------------------------------------------------------------------
(***************************************************************************)
(* Tool calls.                                                             *)
(***************************************************************************)
emit_tool_use_start(s, i) ==
  LET c == close_active_block(s) IN
  IF s.calls[i].started THEN s
  ELSE [c EXCEPT !.calls[i] = [@ EXCEPT !.index = c.next, !.started = TRUE],
                 !.next = @ + 1, !.saw = TRUE, !.open = i]

\* The index an entry goes to.  Without one it is the index its place in the
\* list last stood for, unless the entry names another call than that.
IndexOf(s, entry) ==
  LET i == s.omitted
      conflict == /\ i \in DOMAIN s.calls
                  /\ entry.id # None
                  /\ s.calls[i].id \notin {None, entry.id} IN
  IF entry.index # None THEN entry.index
  ELSE IF conflict THEN Max(DOMAIN s.calls) + 1 ELSE i

\* One entry of a tool_calls list.
collect_tool_calls(s, entry) ==
  LET i    == IndexOf(s, entry)
      old  == IF i \in DOMAIN s.calls THEN s.calls[i] ELSE NoCall
      call == [old EXCEPT
                 !.id = IF entry.id = None \/ old.emitted THEN @ ELSE entry.id,
                 !.name = IF entry.name = None \/ old.emitted
                          THEN @ ELSE entry.name,
                 !.args = @ \o entry.args]
      t    == [s EXCEPT
                 !.calls = [j \in {i} \cup DOMAIN @ |->
                              IF j = i THEN call ELSE @[j]],
                 !.omitted = IF entry.index = None THEN i ELSE @] IN
  IF call.name # None /\ call.id # None THEN emit_tool_use_start(t, i) ELSE t

\* Arguments are valid when there are none or when they are complete, which
\* takes two pieces.
ArgumentsLength == 2
has_valid_tool_call_arguments(s) ==
  \A i \in DOMAIN s.calls : Len(s.calls[i].args) \in {0, ArgumentsLength}

\* A call that has a name and no id is started here, under an id made up.
flush_pending_tool_calls(s) ==
  FoldLeft(LAMBDA t, i :
             IF \/ i \notin DOMAIN t.calls
                \/ t.calls[i].closed
                \/ t.calls[i].name = None
             THEN t
             ELSE close_tool_call(emit_tool_use_start(t, i), i),
           s, Indexes(s))

flush_interleaved(s) ==
  [FoldLeft(LAMBDA t, chunk :
              [Emit(Emit(Emit(t, BlockStart(t.next, chunk.kind, None)),
                         BlockDelta(t.next, chunk.parts)),
                    BlockStop(t.next)) EXCEPT !.next = @ + 1],
            s, s.interleaved) EXCEPT !.interleaved = <<>>]
-----------------------------------------------------------------------------
(***************************************************************************)
(* The end of the response.                                                *)
(***************************************************************************)
\* Mutant: a call is believed to be whole.
resolve_trusting(s, finish) ==
  IF finish \notin {"length", "content_filter"} /\ s.saw
  THEN "tool_calls" ELSE finish

\* resolve_finish_reason
resolve(s, finish) ==
  CASE finish \in {"length", "content_filter"} -> finish
    [] s.saw /\ finish \notin {"length", "content_filter"} ->
         IF has_valid_tool_call_arguments(s) THEN "tool_calls" ELSE "length"
    [] OTHER -> finish

\* What the chunk with the finish reason leaves behind.
finish_reason(s, finish) ==
  [s EXCEPT !.finish = IF resolve(s, finish) = "tool_calls" /\ ~s.saw
                       THEN "stop" ELSE resolve(s, finish)]

map_finish_reason(reason) ==
  CASE reason = "length" -> "max_tokens"
    [] reason = "tool_calls" -> "tool_use"
    [] reason = "content_filter" -> "refusal"
    [] OTHER -> "end_turn"

\* A turn that is all thinking shows it again, as text.
ThinkingAsText(s) ==
  IF s.hasText \/ s.saw \/ s.thinking = <<>> THEN s
  ELSE close_active_block(
         emit_content_delta(s, "text", FlattenSeq(s.thinking)))

finalize(s) ==
  LET shown == flush_interleaved(flush_pending_tool_calls(
                 ThinkingAsText(close_active_block(ensure_started(s))))) IN
  [Emit(Emit(shown, MessageDelta(map_finish_reason(resolve(shown, shown.finish)))),
        MessageStop) EXCEPT !.finished = TRUE]

stream_error(s) == [Emit(s, StreamError) EXCEPT !.finished = TRUE]
-----------------------------------------------------------------------------
(***************************************************************************)
(* The upstream.  It may leave out the indexes of its calls, and then sends *)
(* one call after the other; it may give a call's name or id late or, for  *)
(* the id, never; it may repeat all it thought as one more delta; one that *)
(* echoes also sends deltas of thinking that are blank or that say what an *)
(* earlier one said, as a model does that thinks word by word; and it may  *)
(* stop short at any point.                                                *)
(***************************************************************************)
InitUpstream(omits, echoes) ==
  [count |-> 0, said |-> <<>>, thought |-> [i \in Items |-> <<>>],
   args |-> [i \in Items |-> <<>>], named |-> {}, ids |-> {}, begun |-> 0,
   omits |-> omits, echoes |-> echoes, ended |-> FALSE]

Init ==
  /\ client = [phase |-> "waiting", blocks |-> <<>>, reason |-> "none"]
  /\ relay = InitRelay
  /\ upstream \in {InitUpstream(omits, echoes) : omits, echoes \in BOOLEAN}

Sends == Reads /\ ~upstream.ended

Next1 == upstream.count + 1
More == Next1 <= MaxPieces

\* A chunk with neither content nor calls, such as the one that has the role.
Role ==
  /\ Sends
  /\ relay' = ensure_started(relay)
  /\ UNCHANGED <<client, upstream>>

Content ==
  /\ Sends /\ More
  /\ relay' = Say(ensure_started(relay), <<Next1>>)
  /\ upstream' = [upstream EXCEPT !.count = Next1,
                                  !.said = Append(@, Next1)]
  /\ UNCHANGED client

Reasoning ==
  /\ Sends /\ More
  /\ \E piece \in {Next1} \cup IF upstream.echoes
                             THEN {Blank} \cup ToSet(upstream.thought[1])
                             ELSE {} :
       /\ relay' = Think(ensure_started(relay), <<piece>>)
       /\ upstream' = [upstream EXCEPT !.count = Next1,
                                       !.thought[1] = Append(@, piece)]
  /\ UNCHANGED client

Snapshot ==
  /\ Sends
  /\ upstream.thought[1] # <<>>
  /\ relay' = Think(relay, upstream.thought[1])
  /\ UNCHANGED <<client, upstream>>

\* An entry of call k: its id and its name, unless given before, and a piece
\* of its arguments.
ToolCall(k) ==
  \E id \in {None, k}, name \in {None, k}, piece \in BOOLEAN :
    LET args == IF piece THEN <<Next1>> ELSE <<>> IN
    /\ Sends
    /\ k \in {upstream.begun, upstream.begun + 1} \cup
             IF upstream.omits THEN {} ELSE 1..upstream.begun
    /\ upstream.omits /\ k > upstream.begun => id = k
    /\ id = k => k \notin upstream.ids
    /\ name = k => k \notin upstream.named
    /\ piece => More /\ Len(upstream.args[k]) < ArgumentsLength
    /\ id # None \/ name # None \/ piece
    /\ relay' = collect_tool_calls(ensure_started(relay),
                  [index |-> IF upstream.omits THEN None ELSE k,
                   id |-> id, name |-> name, args |-> args])
    /\ upstream' = [upstream EXCEPT
         !.count = @ + Len(args), !.args[k] = @ \o args,
         !.named = @ \cup ({name} \ {None}), !.ids = @ \cup ({id} \ {None}),
         !.begun = IF k > @ THEN k ELSE @]
    /\ UNCHANGED client

FinishReason ==
  /\ Sends
  /\ \E finish \in {"stop", "tool_calls", "length", "content_filter"} :
       relay' = finish_reason(ensure_started(relay), finish)
  /\ upstream' = [upstream EXCEPT !.ended = TRUE]
  /\ UNCHANGED client

\* The trailing chunk that has nothing but usage ends the message, if one has
\* started.
Usage ==
  /\ Reads
  /\ relay.started
  /\ relay' = finalize(relay)
  /\ upstream' = [upstream EXCEPT !.ended = TRUE]
  /\ UNCHANGED client

Done ==
  /\ Reads
  /\ relay' = IF relay.started THEN finalize(relay) ELSE stream_error(relay)
  /\ upstream' = [upstream EXCEPT !.ended = TRUE]
  /\ UNCHANGED client

\* Mutant: the end of the stream ends the response, whatever came before.
EofSilently ==
  /\ Reads
  /\ relay' = IF relay.finish = "" THEN [relay EXCEPT !.finished = TRUE]
              ELSE finalize(relay)
  /\ upstream' = [upstream EXCEPT !.ended = TRUE]
  /\ UNCHANGED client

Eof ==
  /\ Reads
  /\ relay' = IF relay.finish = "" THEN stream_error(relay) ELSE finalize(relay)
  /\ upstream' = [upstream EXCEPT !.ended = TRUE]
  /\ UNCHANGED client

\* An error event, a read error, or silence for longer than the idle timeout.
Break ==
  /\ Reads
  /\ relay' = stream_error(relay)
  /\ UNCHANGED <<client, upstream>>

Receive == \/ Role
           \/ Content
           \/ Reasoning
           \/ Snapshot
           \/ \E k \in Items : ToolCall(k)
           \/ FinishReason
           \/ Usage
           \/ Done
           \/ Eof
           \/ Break
=============================================================================
