----------------------------- MODULE GeminiRelay -----------------------------
(***************************************************************************)
(* Gemini, and Antigravity, to Messages.  Each part of a chunk goes into   *)
(* the current block or closes it and opens one of another type.  A        *)
(* signature without thinking gets a thinking block of its own, a carrier. *)
(* The end is shown when finish reason, usage and content have been seen,  *)
(* or is made up when the stream ends without a finish reason.             *)
(*                                                                         *)
(* A signature is the number of the piece it came with.  The arguments of  *)
(* a call are one piece; EmptyObject stands for arguments with no field.   *)
(***************************************************************************)
EXTENDS RelayedStream

EmptyObject == 0

InitRelay ==
  [out |-> <<>>, finished |-> FALSE, payload |-> FALSE, started |-> FALSE,
   type |-> "none", index |-> 0, hasContent |-> FALSE, sawTool |-> FALSE,
   finalSent |-> FALSE, apiError |-> FALSE, pending |-> FALSE,
   emitted |-> FALSE, hasUsage |-> FALSE, hasFinish |-> FALSE, finish |-> ""]
-----------------------------------------------------------------------------
(***************************************************************************)
(* Parts.                                                                  *)
(***************************************************************************)
\* Empty arguments wait for others until the block is closed.
flush_pending_empty(s) ==
  IF ~s.pending THEN s
  ELSE [Emit(s, BlockDelta(s.index, <<EmptyObject>>)) EXCEPT
          !.pending = FALSE, !.emitted = TRUE]

push_content_block_stop(s) == Emit(flush_pending_empty(s), BlockStop(s.index))

\* The current block is closed, and the next one has the next index.
CloseCurrent(s) ==
  IF s.type = "none" THEN s
  ELSE [push_content_block_stop(s) EXCEPT !.index = @ + 1, !.type = "none"]

OpenBlock(s, type, kind, of) ==
  [Emit(s, BlockStart(s.index, kind, of)) EXCEPT !.type = type,
                                                 !.hasContent = TRUE]

append_signature_delta(s, sig) ==
  [Emit(s, SignatureDelta(s.index, sig)) EXCEPT !.hasContent = TRUE]

\* Mutant: the block before the carrier stays open.
carrier_inside(s, sig) ==
  LET c == OpenBlock(s, "none", "thinking", None) IN
  [Emit(append_signature_delta(c, sig), BlockStop(s.index))
     EXCEPT !.index = @ + 1]

append_carrier_thinking_block(s, sig) ==
  LET t == CloseCurrent(s)
      c == OpenBlock(t, "none", "thinking", None) IN
  [Emit(append_signature_delta(c, sig), BlockStop(t.index))
     EXCEPT !.index = @ + 1]

Carry(s, sig) == IF sig = None THEN s ELSE append_carrier_thinking_block(s, sig)

SignatureOnly(s, sig) ==
  IF s.type = "thinking" THEN append_signature_delta(s, sig)
  ELSE append_carrier_thinking_block(s, sig)

Continue(s, type, kind, parts) ==
  LET t == IF s.type = type THEN s
           ELSE OpenBlock(CloseCurrent(s), type, kind, None) IN
  Emit(t, BlockDelta(t.index, parts))

Thought(s, parts, sig) ==
  LET t == Continue(s, "thinking", "thinking", parts) IN
  IF sig = None THEN t ELSE append_signature_delta(t, sig)

Text(s, parts, sig) == Continue(Carry(s, sig), "content", "text", parts)

clean_emitted_args(s, args) ==
  CASE args = <<>> -> s
    [] args = <<EmptyObject>> -> [s EXCEPT !.pending = ~s.emitted]
    [] args \notin {<<>>, <<EmptyObject>>} ->
         [Emit(s, BlockDelta(s.index, args)) EXCEPT !.emitted = TRUE,
                                                    !.pending = FALSE]

\* A call that has a name is a call of its own.
FunctionCall(s, name, args, sig) ==
  LET t == CloseCurrent(Carry([s EXCEPT !.sawTool = TRUE], sig)) IN
  clean_emitted_args(
    [OpenBlock(t, "function", "tool_use", name) EXCEPT !.emitted = FALSE,
                                                       !.pending = FALSE],
    args)

\* One without a name goes on with the arguments of the last.
Continuation(s, args, sig) == Carry(clean_emitted_args(s, args), sig)

convert_gemini_stream_chunk(s, part) ==
  LET t == CASE part.type = "none" -> s
             [] part.type = "signature" -> SignatureOnly(s, part.sig)
             [] part.type = "thought" -> Thought(s, part.parts, part.sig)
             [] part.type = "text" -> Text(s, part.parts, part.sig)
             [] part.type = "call" ->
                  IF part.name = None /\ s.type = "function"
                  THEN Continuation(s, part.parts, part.sig)
                  ELSE FunctionCall(s, part.name, part.parts, part.sig) IN
  IF s.hasFinish THEN flush_pending_empty(t) ELSE t
-----------------------------------------------------------------------------
(***************************************************************************)
(* The end of the response.                                                *)
(***************************************************************************)
is_malformed(s) == s.finish = "MALFORMED_FUNCTION_CALL" /\ ~s.sawTool

stop_reason_of(s) ==
  CASE s.sawTool -> "tool_use"
    [] ~s.sawTool /\ s.finish = "MAX_TOKENS" -> "max_tokens"
    [] ~s.sawTool /\ s.finish = "SAFETY" -> "refusal"
    [] OTHER -> "end_turn"

CloseLast(s) == IF s.type = "none" THEN s
                ELSE [push_content_block_stop(s) EXCEPT !.type = "none"]

append_malformed_api_error(s) ==
  IF s.finalSent THEN s
  ELSE [Emit(CloseLast(s), StreamError) EXCEPT !.finalSent = TRUE,
                                               !.apiError = TRUE]

append_final_events(s) ==
  IF s.finalSent \/ ~s.hasContent THEN s
  ELSE IF is_malformed(s) THEN append_malformed_api_error(s)
  ELSE [Emit(CloseLast(s), MessageDelta(stop_reason_of(s)))
          EXCEPT !.finalSent = TRUE]

finalize_gemini_stream(s, finish, usage) ==
  LET t == [s EXCEPT !.hasFinish = @ \/ finish # "",
                     !.finish = IF @ = "" THEN finish ELSE @,
                     !.hasUsage = @ \/ usage] IN
  CASE t.finalSent -> t
    [] ~t.finalSent /\ is_malformed(t) ->
         [append_malformed_api_error(t) EXCEPT !.finished = TRUE]
    [] ~t.finalSent /\ ~is_malformed(t) ->
         IF t.hasFinish /\ t.hasUsage THEN append_final_events(t) ELSE t

force_finalize_gemini_stream(s) ==
  LET t == IF s.hasContent THEN s
           ELSE OpenBlock(s, "content", "text", None) IN
  IF s.finalSent THEN s
  ELSE IF is_malformed(s) THEN append_malformed_api_error(s)
  ELSE append_final_events(t)

\* [DONE], or the end of the stream.
finish_gemini_relay(s) ==
  LET t == IF s.hasFinish THEN s ELSE force_finalize_gemini_stream(s) IN
  CASE ~s.payload \/ ~s.started ->
         [Emit(s, StreamError) EXCEPT !.finished = TRUE]
    [] s.payload /\ s.started /\ t.apiError -> [t EXCEPT !.finished = TRUE]
    [] s.payload /\ s.started /\ ~t.apiError ->
         [Emit(t, MessageStop) EXCEPT !.finished = TRUE]

process_gemini_events(s, chunk) ==
  LET t == [IF s.started THEN s ELSE Emit(s, MessageStart)
              EXCEPT !.payload = TRUE, !.started = TRUE] IN
  finalize_gemini_stream(convert_gemini_stream_chunk(t, chunk.part),
                         chunk.finish, chunk.usage)
-----------------------------------------------------------------------------
(***************************************************************************)
(* The upstream.  A call's arguments come with its name or in a chunk      *)
(* after it, then with no field at first.  Signatures come with any part,  *)
(* or alone.  The finish reason ends the parts; usage comes no later than  *)
(* it, and some part before it, or a call that is malformed.               *)
(***************************************************************************)
InitUpstream ==
  [count |-> 0, said |-> <<>>, thought |-> [k \in Items |-> <<>>],
   args |-> [k \in Items |-> <<>>], named |-> {}, calls |-> 0, last |-> None,
   parts |-> FALSE, finish |-> "", usage |-> FALSE,
   ended |-> FALSE]

Init ==
  /\ client = [phase |-> "waiting", blocks |-> <<>>, reason |-> "none"]
  /\ relay = InitRelay
  /\ upstream = InitUpstream

Finishes == {"", "STOP", "MAX_TOKENS", "SAFETY", "MALFORMED_FUNCTION_CALL"}

Next1 == upstream.count + 1
More == Next1 <= MaxPieces

NoPart == [type |-> "none", name |-> None, parts |-> <<>>, sig |-> None]

\* A chunk with one part; the last one may say that it is.
Chunk(part, sent) ==
  \E finish \in Finishes, usage \in BOOLEAN :
    /\ Reads
    /\ upstream.finish = ""
    /\ finish # "" => usage \/ upstream.usage
    /\ relay' = process_gemini_events(relay, [part |-> part, finish |-> finish,
                                              usage |-> usage])
    /\ upstream' = [sent EXCEPT !.parts = TRUE, !.finish = finish,
                                !.usage = @ \/ usage]
    /\ UNCHANGED client

Signed(k) == {None, k}

TextPart ==
  /\ More
  /\ \E sig \in Signed(Next1) :
       Chunk([NoPart EXCEPT !.type = "text", !.parts = <<Next1>>, !.sig = sig],
             [upstream EXCEPT !.count = Next1, !.said = Append(@, Next1),
                              !.last = None])

ThoughtPart ==
  /\ More
  /\ \E sig \in Signed(Next1) :
       Chunk([NoPart EXCEPT !.type = "thought", !.parts = <<Next1>>,
                            !.sig = sig],
             [upstream EXCEPT !.count = Next1, !.thought[1] = Append(@, Next1),
                              !.last = None])

SignaturePart ==
  /\ More
  /\ Chunk([NoPart EXCEPT !.type = "signature", !.sig = Next1],
           [upstream EXCEPT !.count = Next1, !.last = None])

CallPart ==
  LET k == upstream.calls + 1 IN
  /\ More
  /\ k \in Items
  /\ \E sig \in Signed(Next1), args \in {<<>>, <<EmptyObject>>, <<Next1>>} :
       Chunk([type |-> "call", name |-> k, parts |-> args, sig |-> sig],
             [upstream EXCEPT !.count = Next1, !.calls = k, !.args[k] = args,
                              !.named = @ \cup {k},
                              !.last = IF args = <<Next1>> THEN None ELSE k])

ContinuedPart ==
  LET k == upstream.last IN
  /\ More
  /\ k # None
  /\ \E sig \in Signed(Next1) :
       Chunk([type |-> "call", name |-> None, parts |-> <<Next1>>, sig |-> sig],
             [upstream EXCEPT !.count = Next1, !.args[k] = <<Next1>>,
                              !.last = None])

\* A chunk without parts: usage, the finish reason, or both.
Metadata ==
  \E finish \in Finishes, usage \in BOOLEAN :
    /\ Reads
    /\ finish # "" \/ usage
    /\ finish # "" => upstream.finish = ""
    /\ finish # "" =>
         \/ finish = "MALFORMED_FUNCTION_CALL" /\ upstream.calls = 0
         \/ upstream.parts /\ (usage \/ upstream.usage)
    /\ relay' = process_gemini_events(relay, [part |-> NoPart, usage |-> usage,
                                              finish |-> finish])
    /\ upstream' = [upstream EXCEPT !.usage = @ \/ usage,
                                    !.finish = IF @ = "" THEN finish ELSE @]
    /\ UNCHANGED client

\* [DONE], or the end of the stream.
Finish ==
  /\ Reads
  /\ relay' = finish_gemini_relay(relay)
  /\ upstream' = [upstream EXCEPT !.ended = TRUE]
  /\ UNCHANGED client

\* An error event, a read error, or silence for longer than the idle timeout.
Break ==
  /\ Reads
  /\ relay' = [Emit(relay, StreamError) EXCEPT !.finished = TRUE]
  /\ UNCHANGED <<client, upstream>>

Receive == \/ TextPart
           \/ ThoughtPart
           \/ SignaturePart
           \/ CallPart
           \/ ContinuedPart
           \/ Metadata
           \/ Finish
           \/ Break
=============================================================================
